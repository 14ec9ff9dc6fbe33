------------------------- MODULE MCPaperPositions -------------------------
(* Instances of PaperPositions.  With a slippage of 18 every fill price is  *)
(* a multiple of 36, so that averages over a few units are whole numbers.   *)
EXTENDS PaperPositions

TwoPrices == {72, 144}

Ask(side, qty, fill, price, stop, tp) ==
  [side |-> side, qty |-> qty, fill |-> fill, price |-> price, stop |-> stop, tp |-> tp]

Long     == Ask("BUY", 1, 1, 18, 18, 144)
Partial  == Ask("BUY", 2, 1, 90, 72, None)
Rejected == Ask("BUY", 1, 0, 18, 18, None)
Short    == Ask("SELL", 2, 2, 126, 144, None)

\* Two entries, in both orders; a sale that closes, flips or opens short, before
\* and after an entry; a short that is added to; a rejected order.
MixedPlans ==
  {<<Long, Partial>>, <<Partial, Long>>, <<Long, Short>>,
   <<Short, Long>>, <<Short, Short>>, <<Rejected, Long>>}
=============================================================================
