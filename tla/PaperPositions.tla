-------------------------- MODULE PaperPositions --------------------------
(***************************************************************************)
(* Paper trading on one symbol: the consumer simulates each approved       *)
(* signal (_handle_paper_order), its fill is applied to the positions row, *)
(* the exit policy is attached by a second write, and the Trade Exit       *)
(* Engine scans the row, locks it and closes it through the paper route of *)
(* ExitOrderRouter.                                                        *)
(*                                                                         *)
(* The consumer c and the engine t interleave at every await.  Both apply  *)
(* fills by the same read / conditional write loop, whose state is         *)
(* w["entry"] and w["exit"].  A crash loses c, t and w and redelivers the  *)
(* message; the restart reconciles open rows with the real broker.  An     *)
(* order it sends there is OrderExecution's from then on, its fills too.   *)
(* Prices are integers; the percentages of the trailing stop               *)
(* and of the simulated slippage are fixed distances.  direction is the    *)
(* sign of qty, since both attributes are only ever written together.      *)
(***************************************************************************)
EXTENDS Integers, FiniteSets

CONSTANTS
  NumSignals,  \* approved paper signals, in the order of their partition
  Plans,     \* what the signals may ask for, with the simulator's verdicts
  Prices,    \* prices the quote poller may store
  Slip,      \* half spread plus slippage of a simulated fill
  Activate,  \* trailing_activation_pct as a distance
  Trail,     \* trailing_stop_pct as a distance
  Attempts,  \* of one position update, 3 in the code
  MaxCrashes, MaxDbErrors

None == 0    \* an absent price attribute

Signals == 1..NumSignals

OrderType ==
  [side : {"BUY", "SELL"}, qty : Nat \ {0}, fill : Nat,
   price : Nat, stop : Nat, tp : Nat]

ASSUME PlansAssumption ==
  NumSignals \in Nat /\ Plans \subseteq [Signals -> OrderType]
ASSUME PricesAssumption ==
  /\ Prices \subseteq Nat \ {0} /\ Slip \in Nat
  /\ Activate \in Nat /\ Trail \in Nat
ASSUME BoundsAssumption ==
  Attempts \in Nat \ {0} /\ MaxCrashes \in Nat /\ MaxDbErrors \in Nat

VARIABLES
  sig,      \* the order each signal carries
  msg,      \* signals.approved: ready or done (committed)
  order,    \* orders table, one row per signal; LIVE: sent to the real broker,
            \* whether that made it PLACED, REJECTED or ACK_UNKNOWN
  pos,      \* positions row of the symbol
  nav,      \* realized_cash_flow of the NAV item
  quote,    \* QUOTE#.../LATEST of the prices table
  c, t, w,  \* consumer, exit engine, the position update each has under way
  budget,   \* faults the environment may still inject
  truth     \* history: units and cash of all fills, whether ever short, prices
            \* paid since last flat, and how often each signal was applied

tables == <<order, pos, nav>>
vars   == <<sig, msg, order, pos, nav, quote, c, t, w, budget, truth>>

Actors == {"entry", "exit"}

NoSignal == 0

IdleConsumer == [pc |-> "idle", s |-> NoSignal]

\* scan: the projection of the row the cycle works from; level: the exit
\* price or the new stop that was decided
IdleEngine ==
  [pc |-> "idle", ver |-> 0, qty |-> 0, avg |-> 0, last |-> 0,
   stop |-> None, tp |-> None, state |-> "NONE", level |-> None]

\* tries: conflicts met so far; the rest is the row as it was read
IdleUpdate ==
  [pc |-> "idle", side |-> "BUY", qty |-> 0, price |-> 0, tries |-> 0,
   ver |-> 0, book |-> [qty |-> 0, cost |-> 0, avg |-> 0, real |-> 0], cash |-> 0]

FaultKinds == {"crash", "db"}

Allowance ==
  [kind \in FaultKinds |-> IF kind = "crash" THEN MaxCrashes ELSE MaxDbErrors]

Fault(kind) ==
  /\ budget[kind] > 0
  /\ budget' = [budget EXCEPT ![kind] = @ - 1]

Struck(kind) == budget[kind] # Allowance[kind]

Init ==
  /\ sig \in Plans
  /\ msg = [s \in Signals |-> "ready"]
  /\ order = [s \in Signals |-> "NONE"]
  /\ pos = [ver |-> 0, qty |-> 0, cost |-> 0, avg |-> 0, real |-> 0, last |-> None,
            stop |-> None, tp |-> None, locked |-> FALSE, state |-> "NONE"]
  /\ nav = 0
  /\ quote = None
  /\ c = IdleConsumer
  /\ t = IdleEngine
  /\ w = [a \in Actors |-> IdleUpdate]
  /\ budget = Allowance
  /\ truth = [qty |-> 0, cash |-> 0, short |-> FALSE, paid |-> {},
              times |-> [s \in Signals |-> 0]]

-----------------------------------------------------------------------------
(* Arithmetic of a fill                                                    *)

Least(a, b) == IF a <= b THEN a ELSE b
Most(a, b) == IF a >= b THEN a ELSE b

Direction(q) ==
  CASE q > 0 -> "LONG" [] q < 0 -> "SHORT" [] OTHER -> "FLAT"

Quotient(n, d) == IF d > 0 THEN n \div d ELSE (-n) \div (-d)

Signed(side, q) == IF side = "BUY" THEN q ELSE -q

\* The book before a fill, as apply_fill_to_position computes the one after.
Bought(old, q, price) ==
  LET qty  == old.qty + q
      cost == old.cost + q * price
  IN  [qty  |-> qty,
       cost |-> cost,
       avg  |-> IF qty = 0 THEN 0 ELSE Quotient(cost, qty),
       real |-> IF old.qty < 0
                THEN old.real + (old.avg - price) * Least(q, -old.qty)
                ELSE old.real]

\* Mutant: the cost basis keeps the units that were sold.
SoldKeepsCost(old, q, price) ==
  LET qty == old.qty - q
      avg == CASE qty > 0 -> old.avg [] qty < 0 -> price [] OTHER -> 0
  IN  [qty  |-> qty,
       cost |-> IF qty > 0 THEN old.cost ELSE avg * qty,
       avg  |-> avg,
       real |-> old.real + (price - old.avg) * Least(q, Most(old.qty, 0))]

Sold(old, q, price) ==
  LET qty == old.qty - q
      avg == CASE qty > 0 -> old.avg [] qty < 0 -> price [] OTHER -> 0
  IN  [qty  |-> qty,
       cost |-> avg * qty,
       avg  |-> avg,
       real |-> old.real + (price - old.avg) * Least(q, Most(old.qty, 0))]

NewBook(old, side, q, price) ==
  IF side = "BUY" THEN Bought(old, q, price) ELSE Sold(old, q, price)

Book(p) == [qty |-> p.qty, cost |-> p.cost, avg |-> p.avg, real |-> p.real]

-----------------------------------------------------------------------------
(* apply_fill_to_position and the NAV snapshot it ends with                *)

StartUpdate(a, side, q, price) ==
  w' = [w EXCEPT ![a] = [IdleUpdate EXCEPT !.pc = "read", !.side = side,
                                           !.qty = q, !.price = price]]

Continue(a, pc) ==
  w' = [w EXCEPT ![a] = [IdleUpdate EXCEPT !.pc = pc, !.side = w[a].side,
                                           !.qty = w[a].qty, !.price = w[a].price]]

Finish(a) == w' = [w EXCEPT ![a] = [IdleUpdate EXCEPT !.pc = "done"]]

FillRead(a) ==
  /\ w[a].pc = "read"
  /\ \/ /\ w' = [w EXCEPT ![a].pc = "write", ![a].ver = pos.ver, ![a].book = Book(pos)]
        /\ UNCHANGED budget
     \/ Finish(a) /\ Fault("db")
  /\ UNCHANGED <<sig, msg, tables, quote, c, t, truth>>

\* The row after a's update.  An open position loses its exit_order_id and
\* exit_state; a flat one keeps them, and both keep stop and target.
Updated(a) ==
  LET u    == w[a]
      book == NewBook(u.book, u.side, u.qty, u.price)
      open == book.qty # 0
  IN  [ver |-> pos.ver + 1, qty |-> book.qty, cost |-> book.cost, avg |-> book.avg,
       real |-> book.real, last |-> u.price, stop |-> pos.stop, tp |-> pos.tp,
       locked |-> ~open /\ pos.locked, state |-> IF open THEN "NONE" ELSE pos.state]

Size(q) == IF q < 0 THEN -q ELSE q

\* Prices of the entries that make up the position, after a fill.
PaidAfter(old, new, price) ==
  CASE new = 0 -> {}
    [] new # 0 /\ (old = 0 \/ (old < 0) # (new < 0)) -> {price}
    [] new # 0 /\ old # 0 /\ (old < 0) = (new < 0) /\ Size(new) > Size(old)
         -> truth.paid \cup {price}
    [] OTHER -> truth.paid

\* History: a's fill has reached the row.
Witnessed(a) ==
  LET u   == w[a]
      new == truth.qty + Signed(u.side, u.qty)
  IN  truth' = [qty   |-> new,
                cash  |-> truth.cash - Signed(u.side, u.qty) * u.price,
                short |-> truth.short \/ new < 0,
                paid  |-> PaidAfter(truth.qty, new, u.price),
                times |-> IF a = "entry" THEN [truth.times EXCEPT ![c.s] = @ + 1]
                          ELSE truth.times]

\* Mutant: the row is written whatever updated_at says.
FillWriteUnconditional(a) ==
  /\ w[a].pc = "write"
  /\ pos' = Updated(a) /\ Witnessed(a)
  /\ Continue(a, "navread")
  /\ UNCHANGED <<sig, msg, order, nav, quote, c, t, budget>>

\* Mutant: the retry loop counts one attempt too many.
FillWriteFourTries(a) ==
  /\ w[a].pc = "write"
  /\ IF pos.ver = w[a].ver
     THEN /\ pos' = Updated(a) /\ Witnessed(a)
          /\ w' = [w EXCEPT ![a].pc = "navread"]
     ELSE /\ w' = [w EXCEPT ![a].pc = "read", ![a].tries = @ + 1]
          /\ UNCHANGED <<pos, truth>>
  /\ UNCHANGED <<sig, msg, order, nav, quote, c, t, budget>>

\* The write, conditional on the updated_at that was read, a few attempts.
\* A failed call may have written; the caller ignores the False it gets.
FillWrite(a) ==
  /\ w[a].pc = "write"
  /\ \/ /\ pos.ver = w[a].ver
        /\ pos' = Updated(a) /\ Witnessed(a)
        /\ \/ Continue(a, "navread") /\ UNCHANGED budget
           \/ Finish(a) /\ Fault("db")
     \/ /\ pos.ver # w[a].ver
        /\ \/ /\ w[a].tries < Attempts - 1
              /\ w' = [w EXCEPT ![a] = [IdleUpdate EXCEPT
                         !.pc = "read", !.side = w[a].side, !.qty = w[a].qty,
                         !.price = w[a].price, !.tries = w[a].tries + 1]]
           \/ w[a].tries >= Attempts - 1 /\ Finish(a)
        /\ UNCHANGED <<pos, truth, budget>>
     \/ /\ Fault("db")
        /\ Finish(a)
        /\ UNCHANGED <<pos, truth>>
  /\ UNCHANGED <<sig, msg, order, nav, quote, c, t>>

NavRead(a) ==
  /\ w[a].pc = "navread"
  /\ \/ w' = [w EXCEPT ![a].pc = "navwrite", ![a].cash = nav] /\ UNCHANGED budget
     \/ Finish(a) /\ Fault("db")
  /\ UNCHANGED <<sig, msg, tables, quote, c, t, truth>>

\* Best effort and unconditional: the cash that was read plus this fill's.
NavWrite(a) ==
  /\ w[a].pc = "navwrite"
  /\ Finish(a)
  /\ \/ nav' = w[a].cash - Signed(w[a].side, w[a].qty) * w[a].price /\ UNCHANGED budget
     \/ UNCHANGED nav /\ Fault("db")
  /\ UNCHANGED <<sig, msg, order, pos, quote, c, t, truth>>

FillStep(a) == FillRead(a) \/ FillWrite(a) \/ NavRead(a) \/ NavWrite(a)

-----------------------------------------------------------------------------
(* The consumer: _handle_approved_signal_event on a paper signal           *)

ConsumerReceive(s) ==
  /\ c.pc = "idle" /\ msg[s] = "ready"
  /\ \A r \in Signals : r < s => msg[r] = "done"
  /\ \/ c' = [pc |-> "lookup", s |-> s]
     \/ c' = [pc |-> "commit", s |-> s]     \* past expires_at
  /\ UNCHANGED <<sig, msg, tables, quote, t, w, budget, truth>>

\* get_order_by_signal answers None when the query fails.
PaperLookup ==
  /\ c.pc = "lookup"
  /\ \/ /\ c' = [c EXCEPT !.pc = IF order[c.s] = "NONE" THEN "submit" ELSE "commit"]
        /\ UNCHANGED budget
     \/ /\ Fault("db")
        /\ c' = [c EXCEPT !.pc = "submit"]
  /\ UNCHANGED <<sig, msg, tables, quote, t, w, truth>>

\* submit_order reserves the signal; when the call fails the exception is
\* logged and the fill is simulated all the same.
PaperSubmit ==
  /\ c.pc = "submit"
  /\ \/ /\ order[c.s] = "NONE"
        /\ order' = [order EXCEPT ![c.s] = "PENDING"]
        /\ \/ c' = [c EXCEPT !.pc = "record"] /\ UNCHANGED budget
           \/ c' = [c EXCEPT !.pc = "fill"] /\ Fault("db")
     \/ /\ order[c.s] # "NONE"
        /\ c' = [c EXCEPT !.pc = "commit"]
        /\ UNCHANGED <<order, budget>>
     \/ /\ Fault("db")
        /\ c' = [c EXCEPT !.pc = "fill"]
        /\ UNCHANGED order
  /\ UNCHANGED <<sig, msg, pos, nav, quote, t, w, truth>>

PaperStatus(o) ==
  CASE o.fill = 0     -> "REJECTED"
    [] o.fill = o.qty -> "FILLED"
    [] OTHER          -> "PARTIALLY_FILLED"

PaperRecord ==
  /\ c.pc = "record"
  /\ c' = [c EXCEPT !.pc = "fill"]
  /\ \/ order' = [order EXCEPT ![c.s] = PaperStatus(sig[c.s])] /\ UNCHANGED budget
     \/ UNCHANGED order /\ Fault("db")
  /\ UNCHANGED <<sig, msg, pos, nav, quote, t, w, truth>>

\* An adverse price: a buy pays more, a sale gets less.
PaperFillPrice(o) == o.price + Signed(o.side, Slip)

PaperFill ==
  /\ c.pc = "fill"
  /\ LET o == sig[c.s] IN
       \/ /\ o.fill > 0
          /\ StartUpdate("entry", o.side, o.fill, PaperFillPrice(o))
          /\ c' = [c EXCEPT !.pc = "filling"]
       \/ /\ o.fill = 0
          /\ c' = [c EXCEPT !.pc = "commit"]
          /\ UNCHANGED w
  /\ UNCHANGED <<sig, msg, tables, quote, t, budget, truth>>

\* attach_exit_policy, whether or not the fill reached the row; an absent
\* stop or target leaves what an earlier position had.
AttachExitPolicy ==
  /\ c.pc = "filling" /\ w["entry"].pc = "done"
  /\ c' = [c EXCEPT !.pc = "commit"]
  /\ w' = [w EXCEPT !["entry"] = IdleUpdate]
  /\ LET o == sig[c.s] IN
       \/ /\ pos' = [pos EXCEPT !.state = "ATTACHED",
                                !.stop = IF o.stop # None THEN o.stop ELSE @,
                                !.tp = IF o.tp # None THEN o.tp ELSE @]
          /\ UNCHANGED budget
       \/ UNCHANGED pos /\ Fault("db")
  /\ UNCHANGED <<sig, msg, order, nav, quote, t, truth>>

ConsumerCommit ==
  /\ c.pc = "commit"
  /\ msg' = [msg EXCEPT ![c.s] = "done"]
  /\ c' = IdleConsumer
  /\ UNCHANGED <<sig, tables, quote, t, w, budget, truth>>

Pending == {s \in Signals : order[s] = "PENDING"}

\* _reconcile_state at start, before anything else runs.  Its first pass does
\* not look for paper orders: execute_approved_signal takes each PENDING row,
\* which carries no expires_at, to the real broker, unless the kill switch,
\* the universe or an error refuses it.
Boot ==
  /\ c.pc = "boot"
  /\ c' = IdleConsumer
  /\ \E placed \in SUBSET Pending :
       order' = [s \in Signals |-> IF s \in placed THEN "LIVE" ELSE order[s]]
  /\ UNCHANGED <<sig, msg, pos, nav, quote, t, w, budget, truth>>

ConsumerStep ==
  \/ Boot \/ PaperLookup \/ PaperSubmit \/ PaperRecord
  \/ PaperFill \/ AttachExitPolicy \/ ConsumerCommit

-----------------------------------------------------------------------------
(* The Trade Exit Engine and the paper route of the exit router            *)

\* _get_open_managed_positions, and the early return of the evaluation of a
\* position whose exit is under way.
TeeScan ==
  /\ t.pc = "idle" /\ c.pc # "boot"
  /\ pos.qty # 0 /\ pos.stop # None /\ ~pos.locked
  /\ t' = [pc |-> "price", ver |-> pos.ver, qty |-> pos.qty, avg |-> pos.avg,
           last |-> pos.last, stop |-> pos.stop, tp |-> pos.tp, state |-> pos.state,
           level |-> None]
  /\ UNCHANGED <<sig, msg, tables, quote, c, w, budget, truth>>

\* Mutant: a price that just touches the stop does not trigger it.
StopLossTriggeredStrictly(dir, last, stop) ==
  (dir = "LONG" /\ last < stop) \/ (dir = "SHORT" /\ last > stop)

StopLossTriggered(dir, last, stop) ==
  (dir = "LONG" /\ last <= stop) \/ (dir = "SHORT" /\ last >= stop)

TakeProfitTriggered(dir, last, tp) ==
  (dir = "LONG" /\ last >= tp) \/ (dir = "SHORT" /\ last <= tp)

TrailingActivationTriggered(dir, last, avg) ==
  (dir = "LONG" /\ last >= avg + Activate) \/ (dir = "SHORT" /\ last <= avg - Activate)

\* Mutant: the stop follows the price in both directions.
ComputeTrailingStopLoosens(dir, last, stop) ==
  IF dir = "LONG" THEN last - Trail ELSE last + Trail

ComputeTrailingStop(dir, last, stop) ==
  IF dir = "LONG" THEN Most(stop, last - Trail) ELSE Least(stop, last + Trail)

\* The next step for the scanned position at this price: the stop first, then
\* the target unless the stop is trailing, then the trailing stop.
Decision(last) ==
  LET dir  == Direction(t.qty)
      stop == ComputeTrailingStop(dir, last, t.stop)
      hit  == StopLossTriggered(dir, last, t.stop)
      gain == /\ t.tp # None /\ t.state # "TRAILING"
              /\ TakeProfitTriggered(dir, last, t.tp)
      move == IF t.state = "TRAILING" THEN stop # t.stop
              ELSE TrailingActivationTriggered(dir, last, t.avg)
      exit(price) == [IdleEngine EXCEPT !.pc = "lock", !.ver = t.ver, !.qty = t.qty,
                                        !.level = price]
  IN  CASE hit                    -> exit(last)
        [] ~hit /\ gain           -> exit(t.tp)
        [] ~hit /\ ~gain /\ move  -> [IdleEngine EXCEPT !.pc = "trail", !.ver = t.ver,
                                           !.stop = t.stop, !.level = stop]
        [] OTHER                  -> IdleEngine

\* The stored quote, or the row's own last price when there is none or the
\* read fails.  In paper mode a stale price only logs a warning.
TeePrice ==
  /\ t.pc = "price"
  /\ \/ t' = Decision(IF quote # None THEN quote ELSE t.last) /\ UNCHANGED budget
     \/ t' = Decision(t.last) /\ Fault("db")
  /\ UNCHANGED <<sig, msg, tables, quote, c, w, truth>>

\* _write_trailing_stop: any position that is open gets the new stop.
TeeTrail ==
  /\ t.pc = "trail"
  /\ t' = IdleEngine
  /\ \/ /\ pos.qty # 0
        /\ pos' = [pos EXCEPT !.stop = t.level, !.state = "TRAILING"]
        /\ UNCHANGED budget
     \/ pos.qty = 0 /\ UNCHANGED <<pos, budget>>
     \/ Fault("db") /\ UNCHANGED pos
  /\ UNCHANGED <<sig, msg, order, nav, quote, c, w, truth>>

CloseSide(q) == IF Direction(q) = "LONG" THEN "SELL" ELSE "BUY"

\* _acquire_exit_lock and the start of _route_paper, for the scanned quantity.
TeeLock ==
  /\ t.pc = "lock"
  /\ \/ /\ ~pos.locked /\ pos.qty # 0
        /\ pos' = [pos EXCEPT !.locked = TRUE]
        /\ \/ /\ t' = [IdleEngine EXCEPT !.pc = "filling", !.ver = t.ver]
              /\ StartUpdate("exit", CloseSide(t.qty), Size(t.qty), t.level)
              /\ UNCHANGED budget
           \/ t' = IdleEngine /\ Fault("db") /\ UNCHANGED w
     \/ /\ pos.locked \/ pos.qty = 0
        /\ t' = IdleEngine
        /\ UNCHANGED <<pos, w, budget>>
     \/ /\ Fault("db")
        /\ t' = IdleEngine
        /\ UNCHANGED <<pos, w>>
  /\ UNCHANGED <<sig, msg, order, nav, quote, c, truth>>

\* The router reports True even when the position update returned False.
TeeDone ==
  /\ t.pc = "filling" /\ w["exit"].pc = "done"
  /\ t' = IdleEngine
  /\ w' = [w EXCEPT !["exit"] = IdleUpdate]
  /\ UNCHANGED <<sig, msg, tables, quote, c, budget, truth>>

TeeStep == TeeScan \/ TeePrice \/ TeeTrail \/ TeeLock \/ TeeDone

-----------------------------------------------------------------------------
(* Environment                                                             *)

\* LiveQuotePoller stores a new quote.
StoreQuote(p) ==
  /\ p # quote
  /\ quote' = p
  /\ UNCHANGED <<sig, msg, tables, c, t, w, budget, truth>>

\* The process dies and is started again; the uncommitted message returns.
\* The paper reconciliation at start only repairs a zero quantity whose
\* direction is not FLAT, which no writer produces.
Crash ==
  /\ Fault("crash")
  /\ c' = [pc |-> "boot", s |-> NoSignal]
  /\ t' = IdleEngine
  /\ w' = [a \in Actors |-> IdleUpdate]
  /\ UNCHANGED <<sig, msg, tables, quote, truth>>

Next ==
  \/ \E a \in Actors : FillStep(a)
  \/ \E s \in Signals : ConsumerReceive(s)
  \/ ConsumerStep
  \/ TeeStep
  \/ \E p \in Prices : StoreQuote(p)
  \/ Crash

\* The event loop runs both tasks, consumer and engine, whenever they are
\* ready; quotes, the arrival of signals and faults are up to the environment.
Fairness ==
  /\ WF_vars(ConsumerStep \/ FillStep("entry"))
  /\ WF_vars(TeeStep \/ FillStep("exit"))

Spec == Init /\ [][Next]_vars /\ Fairness

-----------------------------------------------------------------------------
(* Properties                                                              *)

RowStatus == {"NONE", "PENDING", "PARTIALLY_FILLED", "FILLED", "REJECTED", "LIVE"}
BookType == [qty : Int, cost : Int, avg : Int, real : Int]
ExitState == {"NONE", "ATTACHED", "TRAILING"}
PosType ==
  [ver : Nat, qty : Int, cost : Int, avg : Int, real : Int, last : Int,
   stop : Int, tp : Int, locked : BOOLEAN, state : ExitState]
ConsumerType ==
  [pc : {"boot", "idle", "lookup", "submit", "record", "fill", "filling", "commit"},
   s : 0..NumSignals]
EngineType ==
  [pc : {"idle", "price", "lock", "trail", "filling"}, ver : Nat, qty : Int,
   avg : Int, last : Int, stop : Int, tp : Int, state : ExitState, level : Int]
UpdateType ==
  [pc : {"idle", "read", "write", "navread", "navwrite", "done"},
   side : {"BUY", "SELL"}, qty : Nat, price : Int, tries : 0..(Attempts - 1),
   ver : Nat, book : BookType, cash : Int]
TruthType ==
  [qty : Int, cash : Int, short : BOOLEAN, paid : SUBSET Int, times : [Signals -> Nat]]

\* Types: every variable holds a value of its kind, and an update never makes
\* more than the attempts of apply_fill_to_position's loop.
TypeOK ==
  /\ sig \in Plans
  /\ msg \in [Signals -> {"ready", "done"}]
  /\ order \in [Signals -> RowStatus]
  /\ pos \in PosType
  /\ nav \in Int
  /\ quote \in Nat
  /\ c \in ConsumerType
  /\ t \in EngineType
  /\ w \in [Actors -> UpdateType]
  /\ budget \in [FaultKinds -> Nat]
  /\ truth \in TruthType

\* No fill is lost or doubled by a concurrent one: the quantity of the row is
\* the sum of the fills that were written to it, although consumer and exit
\* engine both read it, compute and write back.
NoLostFill == pos.qty = truth.qty

\* While the book has never been short, realized P&L minus cost basis is the
\* cash that went in and out, and the average price of a long position lies
\* between the prices of the entries it was built from.
LongBookBalances ==
  ~truth.short =>
    /\ pos.real - pos.cost = truth.cash
    /\ pos.qty > 0 => /\ \E p \in truth.paid : p <= pos.avg
                      /\ \E p \in truth.paid : pos.avg <= p

\* A paper signal is applied at most once unless a database error and a crash
\* both struck, and if neither did, a committed and recorded fill is in the
\* position: redelivery is caught by the lookup or by the reservation.
PaperFillsCounted ==
  \A s \in Signals :
    /\ truth.times[s] > 1 => Struck("db") /\ Struck("crash")
    /\ /\ msg[s] = "done" /\ order[s] \in {"FILLED", "PARTIALLY_FILLED"}
       /\ \A kind \in FaultKinds : ~Struck(kind)
       => truth.times[s] = 1

\* A signal is not both simulated and sent to the broker, unless a database
\* error kept its row from being recorded: the row leaves PENDING before the
\* fill reaches the position.
NotBothPaperAndLive ==
  \A s \in Signals : order[s] = "LIVE" /\ truth.times[s] > 0 => Struck("db")

\* exit_order_id on an open position means an exit is really under way, as
\* long as no fault struck: it never outlives its exit and blocks the engine.
LockHasOwner ==
  pos.locked /\ pos.qty # 0 /\ (\A kind \in FaultKinds : ~Struck(kind))
    => w["exit"].pc \in {"read", "write"}

\* The book of paper trading is sound: it balances with the cash, counts every
\* signal once, shares none with the broker and parks no position behind a lock.
PaperBookIsSound == LongBookBalances /\ PaperFillsCounted /\ NotBothPaperAndLive /\ LockHasOwner

\* An exit whose position has seen no other fill since it was scanned closes
\* that position exactly, neither short of it nor through to the other side.
ExitFlattens ==
  pos.ver = t.ver /\ w["exit"].pc = "write" /\ pos'.ver # pos.ver /\ w'["exit"].pc # "write"
    => pos'.qty = 0

\* The trailing stop never loosens: if the position and its stop are still the
\* scanned ones, a long's stop only rises and a short's only falls.
StopNeverLoosens ==
  t.pc = "trail" /\ pos.ver = t.ver /\ pos.stop = t.stop /\ pos'.state = "TRAILING"
    => IF pos.qty > 0 THEN pos'.stop >= pos.stop ELSE pos'.stop <= pos.stop

\* What the exit engine writes fits the position it scanned: its exits close that
\* position exactly and its trailing stops never loosen.
ExitEngineIsSound == [][ExitFlattens /\ StopNeverLoosens]_vars

\* The position is open, managed, and the stored quote has reached its stop.
StopHit ==
  /\ pos.qty # 0 /\ pos.stop # None /\ quote # None
  /\ \/ pos.qty > 0 /\ quote <= pos.stop
     \/ pos.qty < 0 /\ quote >= pos.stop

\* A position at its stop is closed unless the price leaves the stop first or
\* a fault has struck: no earlier exit's lock, retry or scan can park it.
StopHitIsExited ==
  StopHit ~> (~StopHit \/ \E kind \in FaultKinds : Struck(kind))

\* What _is_paper_order documents: a simulated order never reaches a real broker.
PaperNeverLive == \A s \in Signals : order[s] # "LIVE"

\* What apply_fill_to_position documents of avg_price, for long and short: it
\* is the weighted average of the entries, so it lies between their prices.
AverageWithinFills ==
  pos.qty # 0 => /\ \E p \in truth.paid : p <= pos.avg
                 /\ \E p \in truth.paid : pos.avg <= p

\* What _write_nav_snapshot documents: an atomic running total, so that when no
\* update is under way and no fault struck it is the cash flow of all fills.
NavIsCashFlow ==
  (\A a \in Actors : w[a].pc \in {"idle", "done"}) /\ (\A kind \in FaultKinds : ~Struck(kind))
    => nav = truth.cash
=============================================================================
