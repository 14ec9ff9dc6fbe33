------------------------------ MODULE Backtest ------------------------------
(***************************************************************************)
(* Backtester (strategy_engine/backtesting): bars of several symbols in    *)
(* one row, positions opened on the bar after the signal, closed by stop   *)
(* or target or at the end, and the cash that follows.  The strategy's     *)
(* signals are free.  Costs and slippage are percentages of the value,     *)
(* different for the two sides; prices are chosen so that all is whole.    *)
(***************************************************************************)
EXTENDS Integers, FiniteSets, FiniteSetsExt

CONSTANTS Symbols, Prices, Capital, NBars,
  BuyFee, SellFee, Slippage,   \* in percent
  None

VARIABLES
  allowShort,
  time,           \* timestamp of the last bar
  seen,           \* 1 for the symbol of the last bar, 2 for the one before it...; 0 without a bar
  close,          \* last close per symbol
  cash, open,     \* open position per symbol, None for none
  signal,         \* pending_signals
  pnl,            \* of the trades so far
  left,           \* bars to come; -1 when the result is out
  ended           \* history: price at which a position was closed at the end

vars == <<allowShort, time, seen, close, cash, open, signal, pnl, left, ended>>

Init ==
  /\ allowShort \in BOOLEAN /\ time = 0 /\ seen = [s \in Symbols |-> 0] /\ close = [s \in Symbols |-> 0]
  /\ cash = Capital /\ open = [s \in Symbols |-> None] /\ signal = [s \in Symbols |-> None]
  /\ pnl = 0 /\ left = NBars /\ ended = [s \in Symbols |-> None]

Bars == {b \in [sym : Symbols, o : Prices, l : Prices, h : Prices, c : Prices] :
           b.l <= b.o /\ b.l <= b.c /\ b.o <= b.h /\ b.c <= b.h}
\* What the strategy may return: nothing, or a signal with or without stop and
\* target around the price.
Signals(now) ==
  {None} \cup [buy : BOOLEAN, at : {now}, stop : {None}, target : {None}]
    \cup {[buy |-> TRUE, at |-> now, stop |-> Min(Prices), target |-> Max(Prices)],
          [buy |-> FALSE, at |-> now, stop |-> Max(Prices), target |-> Min(Prices)]}
OpenSymbols == {s \in Symbols : open[s] # None}

----------------------------------------------------------------------------
\* _apply_execution_price and _estimate_costs.
ExecutionPrice(price, buy) == (price * (100 + (IF buy THEN Slippage ELSE -Slippage))) \div 100
Costs(value, buy) == (value * (IF buy THEN BuyFee ELSE SellFee)) \div 100

\* _open_position at the close of the bar: <<cash, position>>, without a
\* position when the signal is rejected (same timestamp, short not allowed, not
\* enough cash).
OpenPosition(g, b, now, money) ==
  LET price == ExecutionPrice(b.c, g.buy)
      fee == Costs(price, g.buy)
      after == IF g.buy THEN money - price - fee ELSE money + price - fee
  IN  IF now <= g.at \/ (~g.buy /\ ~allowShort) \/ (g.buy /\ after < 0) THEN <<money, None>>
      ELSE <<after, [buy |-> g.buy, entry |-> price, fee |-> fee, stop |-> g.stop, target |-> g.target,
                     signalled |-> g.at, at |-> now]>>

\* Mutant: the commission of the entry is left out of the trade.
ClosePositionGross(p, price) ==
  LET out == ExecutionPrice(price, ~p.buy)
      fee == Costs(out, ~p.buy)
  IN  IF p.buy THEN <<out - fee, out - p.entry - fee>> ELSE <<-out - fee, p.entry - out - fee>>

\* _close_position: what it adds to the cash, and the P&L of the trade.
ClosePosition(p, price) ==
  LET out == ExecutionPrice(price, ~p.buy)
      fee == Costs(out, ~p.buy)
  IN  IF p.buy THEN <<out - fee, out - p.entry - p.fee - fee>> ELSE <<-out - fee, p.entry - out - p.fee - fee>>

\* _check_exits: the price of the exit; a stop comes before a target, and a
\* gap through it costs.
CheckExits(b, p) ==
  IF p.stop = None THEN None
  ELSE IF p.buy THEN IF b.l <= p.stop THEN (IF b.o < p.stop THEN b.o ELSE p.stop)
                     ELSE IF b.h >= p.target THEN p.target ELSE None
  ELSE IF b.h >= p.stop THEN (IF b.o > p.stop THEN b.o ELSE p.stop)
  ELSE IF b.l <= p.target THEN p.target ELSE None

----------------------------------------------------------------------------
\* One round of run: exits, the pending signal - rejected as well when it is too
\* large for the volume of the bar - then the strategy.  A signal that meets an
\* open position waits until that is closed.
NextBar ==
  /\ left > 0 /\ left' = left - 1 /\ UNCHANGED <<allowShort, ended>>
  /\ time' \in {time, time + 1}
  /\ \E b \in Bars, new \in Signals(time') :
       LET s == b.sym
           exit == IF open[s] = None THEN None ELSE CheckExits(b, open[s])
           exited == IF exit = None THEN <<0, 0>> ELSE ClosePosition(open[s], exit)
           money == cash + exited[1]
           flat == open[s] = None \/ exit # None
           taken == flat /\ signal[s] # None
           kept == <<money, IF flat THEN None ELSE open[s]>>
       IN  /\ \E entered \in IF taken THEN {kept, OpenPosition(signal[s], b, time', money)} ELSE {kept} :
                cash' = entered[1] /\ open' = [open EXCEPT ![s] = entered[2]]
           /\ pnl' = pnl + exited[2]
           /\ signal' = [signal EXCEPT ![s] = IF new # None THEN new ELSE IF taken THEN None ELSE @]
           /\ close' = [close EXCEPT ![s] = b.c]
           /\ seen' = [x \in Symbols |-> IF x = s THEN 1
                                          ELSE IF seen[x] > 0 /\ (seen[s] = 0 \/ seen[x] < seen[s]) THEN seen[x] + 1
                                          ELSE seen[x]]

\* last_bar_map: the latest bars, searched until there are as many symbols as
\* open positions - not until theirs are found.
LastBarMap == {s \in Symbols : seen[s] \in 1 .. Cardinality(OpenSymbols)}
LastPrice(s) == IF s \in LastBarMap THEN close[s] ELSE close[CHOOSE x \in Symbols : seen[x] = 1]

SumOf(f) == MapThenSumSet(LAMBDA x : f[x], DOMAIN f)

\* The end of run: what is open is closed, one position after the other.
Finish ==
  /\ left = 0 /\ left' = -1
  /\ cash' = cash + SumOf([s \in OpenSymbols |-> ClosePosition(open[s], LastPrice(s))[1]])
  /\ pnl' = pnl + SumOf([s \in OpenSymbols |-> ClosePosition(open[s], LastPrice(s))[2]])
  /\ ended' = [s \in Symbols |-> IF s \in OpenSymbols THEN LastPrice(s) ELSE None]
  /\ open' = [s \in Symbols |-> None]
  /\ UNCHANGED <<allowShort, time, seen, close, signal>>

Next == NextBar \/ Finish

Spec == Init /\ [][Next]_vars

----------------------------------------------------------------------------
TiedUp(p) == IF p.buy THEN p.entry + p.fee ELSE p.fee - p.entry

\* "portfolio-level P&L is the sum" (backtester.py): the cash and what the open
\* positions took from it are the capital and the P&L of the trades, so that
\* the final capital is the initial one and the sum of the trade log; and no
\* position rests on a signal of its own bar.
CapitalIsPnl ==
  /\ cash + SumOf([s \in OpenSymbols |-> TiedUp(open[s])]) = Capital + pnl
  /\ \A s \in OpenSymbols : open[s].at > open[s].signalled

\* "Close any remaining open positions at last bar price" (backtester.py), the
\* last one of the symbol.
EndsAtOwnPrice == \A s \in Symbols : ended[s] # None => ended[s] = close[s]
============================================================================
