----------------------------- MODULE MCRiskGate -----------------------------
(* Small instances of RiskGate. *)
EXTENDS RiskGate

MCLimits == [maxAge |-> 45, maxOrderValue |-> 2, maxPerSymbol |-> 2, maxPositionPct |-> 50,
             portfolio |-> 5, maxExposurePct |-> 80, liquidAdv |-> 1000, maxAdvPct |-> 1,
             maxSpreadBps |-> 50, maxSectorPct |-> 25]
MCQty == [s \in Signals |-> IF s = "s1" THEN 2 ELSE 1]

\* Full data within every limit, and the same with one part missing or beyond.
Good == [adv |-> 500, spread |-> 10, nav |-> 20, snapshot |-> 0, book |-> 0, sector |-> 0, margin |-> 10,
         loss |-> "within"]
GoodOnly == {Good}
MCMarket ==
  {Good} \cup
  {[Good EXCEPT !.adv = x] : x \in {0, 50, 1000}} \cup
  {[Good EXCEPT !.spread = x] : x \in {None, 51}} \cup
  {[Good EXCEPT !.nav = 0], [Good EXCEPT !.snapshot = None], [Good EXCEPT !.book = None], [Good EXCEPT !.sector = 5], [Good EXCEPT !.sector = None]} \cup
  {[Good EXCEPT !.margin = x] : x \in {None, 1}} \cup
  {[Good EXCEPT !.loss = x] : x \in {"unknown", "exceeded"}}
MCAges == {-3, -2, 0, 30, 31}
=============================================================================
