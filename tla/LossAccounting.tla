--------------------------- MODULE LossAccounting ---------------------------
(***************************************************************************)
(* The daily loss as the risk engine keeps it: the loop over orders.events, *)
(* DailyLossValidator.record_fill with its four writes, the cached figure   *)
(* that validate() compares with the limit, and the NAV item, which the     *)
(* execution engine writes as well, with its copy in RiskLimits.  One       *)
(* symbol, one trading day.                                                 *)
(***************************************************************************)
EXTENDS Integers, Sequences, FiniteSets

CONSTANTS
  Fills,        \* fills the execution engine may report: records [buy, qty, price]
  MaxEvents,    \* bound: events on orders.events
  OpeningNav,   \* settings.portfolio_value
  LossPct,      \* RiskLimits.max_daily_loss_pct
  Marks,        \* values of the unrealized P&L
  MaxFailures   \* bound: failed requests and restarts

ASSUME LossAssumption ==
  /\ \A f \in Fills : f.buy \in BOOLEAN /\ f.qty \in Nat \ {0} /\ f.price \in Nat \ {0}
  /\ Marks \subseteq Int
  /\ MaxEvents \in Nat /\ OpeningNav \in Nat \ {0} /\ LossPct \in Nat /\ MaxFailures \in Nat

VARIABLES
  events,       \* orders.events
  origin,       \* history: for each event the first one that told of its fill
  copies,       \* orders.events.retry: copies of each fill that wait there
  offset, com,  \* position and committed offset of the consumer
  p,            \* what _orders_event_loop does with the event it holds
  fillItem,     \* offsets with a FILL# item
  sym,          \* PNL_SYMBOL# item: quantity, average price, realized P&L
  day,          \* PNL_DAY# item: realized P&L
  navItem,      \* the NAV item: its versions of the day, portfolio_value and realized_cash_flow
  nav,          \* RiskLimits.portfolio_value
  teller,       \* the execution engine's update of the NAV item
  cache,        \* _cached_realized_pnl
  fresh,        \* its lifetime is not over
  mark,         \* unrealized P&L of the positions
  stopped,      \* the kill switch
  spare,        \* failed requests and restarts that may yet happen
  cash,         \* history: what the recorded fills paid and received
  applied,      \* history: how often each event was applied to the cost basis
  again,        \* history: fills whose event was routed to retry as its commit failed
  missed        \* history: realized by fills whose recording broke off

topics == <<events, origin, copies>>
engine == <<navItem, teller>>
rows == <<fillItem, sym, day>>
lossVars == <<topics, offset, com, p, rows, engine, nav, cache, fresh, mark, stopped, spare,
              cash, applied, again, missed>>

Resting == [pc |-> "idle", delta |-> 0, total |-> 0]
Event == events[offset]
AtRest == [pc |-> "rest", delta |-> 0, read |-> 0]
NavItem(pnl, paid) == [nav |-> OpeningNav + pnl, flow |-> paid]
Flat == [qty |-> 0, avg |-> 0, realized |-> 0]

LossTypeOK ==
  /\ 0 <= com /\ com <= offset /\ offset <= Len(events) /\ Len(events) <= MaxEvents
  /\ p.pc # "idle" => offset > 0
  /\ fillItem \subseteq 1 .. Len(events) /\ Len(origin) = Len(events)
  /\ sym.qty = 0 <=> sym.avg = 0
  /\ nav \in {i.nav : i \in navItem} \cup {OpeningNav} /\ nav > 0

LossInit ==
  /\ events = <<>> /\ origin = <<>> /\ copies = [i \in 1 .. MaxEvents |-> 0]
  /\ offset = 0 /\ com = 0 /\ p = Resting
  /\ fillItem = {} /\ sym = Flat /\ day = 0
  /\ navItem = {NavItem(0, 0)} /\ teller = AtRest /\ nav = OpeningNav /\ cache = 0 /\ fresh = TRUE
  /\ mark = 0 /\ stopped = FALSE /\ spare = MaxFailures
  /\ cash = 0 /\ missed = 0 /\ again = {}
  /\ applied = [i \in 1 .. MaxEvents |-> 0]

Failing == spare > 0 /\ spare' = spare - 1

-----------------------------------------------------------------------------
(* The execution engine and the market *)

Abs(n) == IF n < 0 THEN -n ELSE n
NewQty(f) == IF f.buy THEN sym.qty + f.qty ELSE sym.qty - f.qty
Grows(f) == IF f.buy THEN sym.qty >= 0 ELSE sym.qty <= 0

\* Fills are chosen so that an average stays a whole number.
Whole(f) == Grows(f) => (Abs(sym.qty) * sym.avg + f.qty * f.price) % Abs(NewQty(f)) = 0

Publish(f, i) ==
  /\ Len(events) < MaxEvents /\ offset = Len(events) /\ p.pc = "idle" /\ Whole(f)
  /\ events' = Append(events, f) /\ origin' = Append(origin, i)

\* A fill: the event, and what it takes from the cash or brings.
Report(f) ==
  /\ teller = AtRest /\ Publish(f, Len(events) + 1)
  /\ teller' = [AtRest EXCEPT !.pc = "read", !.delta = (IF f.buy THEN -1 ELSE 1) * f.qty * f.price]
  /\ UNCHANGED <<copies, offset, com, p, rows, navItem, nav, cache, fresh, mark, stopped, spare,
                 cash, applied, again, missed>>

\* _write_nav_snapshot: the cash flow is read from the NAV item, in a version that may be an
\* old one, and written with the NAV it makes, best effort.
ReadFlow ==
  /\ teller.pc = "read"
  /\ \E i \in navItem : teller' = [teller EXCEPT !.pc = "write", !.read = i.flow]
  /\ UNCHANGED <<topics, offset, com, p, rows, navItem, nav, cache, fresh, mark, stopped, spare, cash,
                 applied, again, missed>>

WriteNavSnapshot ==
  /\ teller.pc = "write" /\ teller' = AtRest
  /\ LET paid == teller.read + teller.delta
     IN  \/ navItem' = navItem \cup {NavItem(paid, paid)} /\ UNCHANGED spare
         \/ Failing /\ UNCHANGED navItem
  /\ UNCHANGED <<topics, offset, com, p, rows, nav, cache, fresh, mark, stopped, cash, applied,
                 again, missed>>

MarkMoves(m) ==
  /\ mark # m /\ mark' = m
  /\ UNCHANGED <<topics, offset, com, p, rows, engine, nav, cache, fresh, stopped, spare, cash,
                 applied, again, missed>>

-----------------------------------------------------------------------------
(* record_fill *)

Poll ==
  /\ p.pc = "idle" /\ offset < Len(events)
  /\ offset' = offset + 1 /\ p' = [Resting EXCEPT !.pc = "reserve"]
  /\ UNCHANGED <<topics, com, rows, engine, nav, cache, fresh, mark, stopped, spare, cash, applied,
                 again, missed>>

\* The put of FILL#<topic:partition:offset>, on the condition that there is none.
Reserve ==
  /\ p.pc = "reserve"
  /\ IF offset \in fillItem
     THEN p' = [p EXCEPT !.pc = "check"] /\ fillItem' = fillItem
     ELSE p' = [p EXCEPT !.pc = "symbol"] /\ fillItem' = fillItem \cup {offset}
  /\ UNCHANGED <<topics, offset, com, sym, day, engine, nav, cache, fresh, mark, stopped, spare,
                 cash, applied, again, missed>>

Lesser(a, b) == IF a < b THEN a ELSE b

\* _apply_fill_to_daily_symbol_pnl: what a fill realizes against the cost basis.
RealizedDelta(f) ==
  CASE f.buy /\ sym.qty < 0 -> (sym.avg - f.price) * Lesser(f.qty, -sym.qty)
    [] ~f.buy /\ sym.qty > 0 -> (f.price - sym.avg) * Lesser(f.qty, sym.qty)
    [] OTHER -> 0

Averaged(f) == (Abs(sym.qty) * sym.avg + f.qty * f.price) \div Abs(NewQty(f))

\* Mutant: a reversal keeps the average of the closed side.
NewAverageKept(f) == IF Grows(f) THEN Averaged(f) ELSE IF NewQty(f) = 0 THEN 0 ELSE sym.avg

\* The new average: of both parts when the position grows, the old one when it shrinks,
\* the price of the fill when it changes sides.
NewAverage(f) ==
  CASE Grows(f) -> Averaged(f)
    [] ~Grows(f) /\ NewQty(f) = 0 -> 0
    [] ~Grows(f) /\ NewQty(f) # 0 -> IF (NewQty(f) < 0) = (sym.qty < 0) THEN sym.avg ELSE f.price

\* (A fill that is delivered again may find another cost basis: only those go on that
\* leave it a whole number.)
UpdateSymbol ==
  /\ p.pc = "symbol" /\ Whole(Event)
  /\ sym' = [qty |-> NewQty(Event),
             avg |-> NewAverage(Event), realized |-> sym.realized + RealizedDelta(Event)]
  /\ cash' = cash + (IF Event.buy THEN -1 ELSE 1) * Event.qty * Event.price
  /\ applied' = [applied EXCEPT ![offset] = @ + 1]
  /\ p' = [p EXCEPT !.pc = "day", !.delta = RealizedDelta(Event)]
  /\ UNCHANGED <<topics, offset, com, fillItem, day, engine, nav, cache, fresh, mark, stopped,
                 spare, again, missed>>

\* _update_daily_pnl_and_nav: the atomic ADD, then the NAV item (put as a whole, without
\* a cash flow) and its copy, and record_fill's own copy of the new total.
AddToDay ==
  /\ p.pc = "day"
  /\ day' = day + p.delta /\ p' = [p EXCEPT !.pc = "nav"]
  /\ UNCHANGED <<topics, offset, com, fillItem, sym, engine, nav, cache, fresh, mark, stopped,
                 spare, cash, applied, again, missed>>

PutNav ==
  /\ p.pc = "nav"
  /\ navItem' = navItem \cup {NavItem(day, 0)}
  /\ nav' = IF OpeningNav + day > 0 THEN OpeningNav + day ELSE nav
  /\ cache' = day /\ fresh' = TRUE
  /\ p' = [p EXCEPT !.pc = "check"]
  /\ UNCHANGED <<topics, offset, com, rows, teller, mark, stopped, spare, cash, applied, again,
                 missed>>

\* A request of record_fill fails: _handle_fill logs it and the event is committed.
RecordFails ==
  /\ p.pc \in {"reserve", "symbol", "day", "nav"} /\ Failing
  /\ p' = [p EXCEPT !.pc = "failed"]
  /\ missed' = missed + (IF p.pc = "day" THEN p.delta ELSE 0)
  /\ UNCHANGED <<topics, offset, com, rows, engine, nav, cache, fresh, mark, stopped, cash, applied,
                 again>>

-----------------------------------------------------------------------------
(* The limit *)

\* A loss of LossPct of the portfolio or more.
OverLimit(pnl) == pnl < 0 /\ -pnl * 100 >= nav * LossPct

\* _get_realized_pnl: the cached figure, read again when its lifetime is over.
RefreshCache == cache' = (IF fresh THEN cache ELSE day) /\ fresh' = TRUE

\* Mutant: the fill that crosses the limit is left to the next signal.
CheckLossLater ==
  /\ p.pc = "check" /\ RefreshCache /\ p' = [p EXCEPT !.pc = "commit", !.total = cache']
  /\ UNCHANGED <<topics, offset, com, rows, engine, nav, mark, stopped, spare, cash, applied, again,
                 missed>>

\* A check of the limit that fails, before the cache is refreshed or, for want of the
\* unrealized P&L, behind it.
CheckFails == Failing /\ UNCHANGED stopped /\ (RefreshCache \/ UNCHANGED <<cache, fresh>>)

\* The rest of _handle_fill.
CheckLoss ==
  /\ p.pc = "check"
  /\ \/ /\ RefreshCache /\ stopped' = (stopped \/ OverLimit(cache' + mark)) /\ UNCHANGED spare
        /\ p' = [p EXCEPT !.pc = "commit", !.total = cache']
     \/ CheckFails /\ p' = [p EXCEPT !.pc = "failed"]
  /\ UNCHANGED <<topics, offset, com, rows, engine, nav, mark, cash, applied, again, missed>>

CommitEvent ==
  /\ p.pc \in {"commit", "failed"} /\ com' = offset /\ p' = Resting
  /\ UNCHANGED <<topics, offset, rows, engine, nav, cache, fresh, mark, stopped, spare, cash, applied,
                 again, missed>>

\* The commit fails: the event goes to the retry topic, and is committed then, or not; the
\* consumer has passed it either way.
CommitFails ==
  /\ p.pc \in {"commit", "failed"} /\ Failing /\ p' = Resting
  /\ \/ /\ copies' = [copies EXCEPT ![origin[offset]] = @ + 1]
        /\ again' = again \cup {origin[offset]} /\ com' \in {com, offset}
     \/ UNCHANGED <<copies, again, com>>
  /\ UNCHANGED <<events, origin, offset, rows, engine, nav, cache, fresh, mark, stopped, cash, applied,
                 missed>>

\* The retry replayer publishes a copy to orders.events again.
ReplayRetry(i) ==
  /\ i <= Len(events) /\ copies[origin[i]] > 0
  /\ copies' = [copies EXCEPT ![origin[i]] = @ - 1]
  /\ Publish(events[i], origin[i])
  /\ UNCHANGED <<offset, com, p, rows, engine, nav, cache, fresh, mark, stopped, spare, cash, applied,
                 again, missed>>

\* Mutant: the first figure of the day is kept for the day.
ValidateStale ==
  /\ stopped' = (stopped \/ OverLimit(cache + mark)) /\ fresh' = TRUE
  /\ UNCHANGED <<topics, offset, com, p, rows, engine, nav, cache, mark, spare, cash, applied, again,
                 missed>>

\* validate() for a signal, whose rejection trips the switch in validate_signal; when it
\* fails a live signal is rejected and no switch tripped.
Validate ==
  /\ \/ RefreshCache /\ stopped' = (stopped \/ OverLimit(cache' + mark)) /\ UNCHANGED spare
     \/ CheckFails
  /\ UNCHANGED <<topics, offset, com, p, rows, engine, nav, mark, cash, applied, again, missed>>

CacheExpires ==
  /\ fresh /\ fresh' = FALSE
  /\ UNCHANGED <<topics, offset, com, p, rows, engine, nav, cache, mark, stopped, spare, cash, applied,
                 again, missed>>

\* _nav_refresh_loop; it may read an old version as well.
RefreshNav ==
  /\ \E i \in navItem : i.nav > 0 /\ nav # i.nav /\ nav' = i.nav
  /\ UNCHANGED <<topics, offset, com, p, rows, engine, cache, fresh, mark, stopped, spare, cash,
                 applied, again, missed>>

\* A restart: the limits have their configured portfolio until the NAV is read, the cache
\* is read again (rehydrate), the switch is read from its row (module KillSwitch).
Restart ==
  /\ Failing
  /\ offset' = com /\ p' = Resting
  /\ nav' = OpeningNav /\ cache' = day /\ fresh' = TRUE
  /\ missed' = missed + (IF p.pc = "day" THEN p.delta ELSE 0)
  /\ UNCHANGED <<topics, com, rows, engine, mark, stopped, cash, applied, again>>

Loop ==
  \/ Poll \/ Reserve \/ UpdateSymbol \/ AddToDay \/ PutNav \/ CheckLoss
  \/ CommitEvent \/ CommitFails

LossNext ==
  \/ \E f \in Fills : Report(f)
  \/ \E m \in Marks : MarkMoves(m)
  \/ \E i \in 1 .. MaxEvents : ReplayRetry(i)
  \/ ReadFlow \/ WriteNavSnapshot \/ Loop \/ RecordFails
  \/ Validate \/ CacheExpires \/ RefreshNav \/ Restart

\* Both loops keep running and signals keep coming.
LossSpec ==
  /\ LossInit /\ [][LossNext]_lossVars
  /\ WF_lossVars(Loop) /\ SF_lossVars(Validate /\ ~fresh) /\ WF_lossVars(CacheExpires)

-----------------------------------------------------------------------------
(* Properties *)

\* The cost basis and the realized P&L of the symbol account for every payment of the
\* recorded fills, through averaging, partial closes and reversals.
CostBasisBalances == sym.realized = cash + sym.qty * sym.avg

\* The daily total is the symbol's, short only of what the recording in progress has
\* not added yet and of what broke off between the two writes.
DayMatchesSymbol ==
  sym.realized = day + missed + (IF p.pc = "day" THEN p.delta ELSE 0)

\* No event is in the book twice, whatever is delivered again after a restart, and no
\* fill, unless the commit of its event failed: the copy in the retry topic comes back
\* with an offset, and a key, of its own.
FillsCountedOnce ==
  \A i, j \in 1 .. Len(events) :
    /\ applied[i] <= 1
    /\ applied[i] > 0 /\ applied[j] > 0 /\ origin[i] = origin[j] => i = j \/ origin[i] \in again

\* The state has its types and the book of the day balances: cost basis, daily total and
\* fills agree (record_fill and its two writes).
AccountsBalance == LossTypeOK /\ CostBasisBalances /\ DayMatchesSymbol /\ FillsCountedOnce

\* A loss of LossPct of that portfolio, with the positions valued at any of the marks, or
\* at none.
LossAt(portfolio) ==
  \A m \in Marks \cup {0} : day + m < 0 /\ -(day + m) * 100 >= portfolio * LossPct

\* When an event was recorded and checked and is to be committed, the figure the check
\* compared is the day's total, and that total is a loss at the limit of the configured
\* portfolio and of every NAV the NAV item had today, then the switch is on.  (No less will
\* do: the limits may hold any of these, as the item keeps the NAV of an earlier profit when
\* a put breaks off and a sale, even a short one, raises it.)
LossHalts ==
  p.pc = "commit" /\ p.total = day /\ LossAt(OpeningNav) /\ (\A i \in navItem : LossAt(i.nav))
  => stopped

\* The figure the limit is compared with catches up with the day's total, also after a
\* recording that broke off behind the ADD.
CacheCatchesUp == []<>(cache = day)

\* Two claims of the code's own comments; neither holds.  A fill that is delivered again is
\* ignored (kafka_order_events_consumer.py:181, loss_validator.py:196):
ReplayedFillIsIgnored ==
  \A i, j \in 1 .. Len(events) :
    applied[i] > 0 /\ applied[j] > 0 /\ origin[i] = origin[j] => i = j

\* and the limit is a share of the actual NAV (service.py:1336), even when no request fails:
LimitIsOfTheNav ==
  spare = MaxFailures /\ p.pc = "commit" /\ p.total = day /\ LossAt(OpeningNav) => stopped
=============================================================================
