-------------------------- MODULE OrderExecution --------------------------
(***************************************************************************)
(* The order path of the execution engine: one process that consumes       *)
(* signals.approved, reserves an order row in DynamoDB, places the order   *)
(* with Zerodha, records the acknowledgement, polls for fills, applies     *)
(* them to the positions table, cancels on a kill switch, and reconciles   *)
(* its open rows when it restarts.                                         *)
(*                                                                         *)
(* Every await of the Python code is a step boundary: the consumer c, one  *)
(* fill handler f[s] per order and one kill-switch cancel task k[s] per    *)
(* order interleave, and a crash may strike between any two steps.  A row  *)
(* is written by _transition_order_status in two steps, a read of the      *)
(* status and a write conditional on it.  Quantities are cumulative units; *)
(* prices are left to PaperPositions.                                      *)
(***************************************************************************)
EXTENDS OrderStatuses, Integers, FiniteSets

CONSTANTS
  Signals,         \* approved signals, one order row and broker tag each
  Qty,             \* ordered quantity
  MaxRetries,      \* max_retry_attempts of the failure publisher
  PendingSettles,  \* no request of a PENDING row is in flight when it is retried
  MaxCrashes, MaxDbErrors, MaxTimeouts, MaxHalts, MaxRedeliveries

ASSUME QtyAssumption == Qty \in Nat \ {0}
ASSUME BoundAssumption ==
  /\ MaxRetries \in Nat /\ PendingSettles \in BOOLEAN
  /\ MaxCrashes \in Nat /\ MaxDbErrors \in Nat /\ MaxTimeouts \in Nat
  /\ MaxHalts \in Nat /\ MaxRedeliveries \in Nat

VARIABLES
  row,       \* orders table: status, broker id known?, filled_quantity
  gate,      \* fills table: FILL# records, <<s, cumulative quantity>>
  applied,   \* units of the order added to the positions table
  dks,       \* durable kill switch row (written by the risk engine)
  bro,       \* Kite: the order carrying s's tag, as the tag scan returns it
  sent,      \* placement requests on their way to Kite
  accepted,  \* orders Kite has accepted for s's tag
  msg,       \* signals.approved: ready, done (committed) or dlq
  attempts,  \* retry attempts of the message
  expired,   \* signals past expires_at
  up,        \* down, listing (boot), boot (reconciling), run
  todo,      \* snapshot of the open rows still to reconcile
  ks, scan,  \* local kill switch flag; open orders still to be listed for it
  c, f, k,   \* consumer, fill handlers, kill-switch cancel tasks
  budget     \* faults the environment may still inject

tables  == <<row, gate, applied, dks>>
broker  == <<bro, sent, accepted>>
kafka   == <<msg, attempts, expired>>
switch  == <<ks, scan, k>>
process == <<up, todo, ks, scan, c, f, k>>
vars    == <<tables, broker, kafka, process, budget>>

NoSignal == "no signal"

\* st, qty: the OrderResponse in hand; job, prev: the row write under way
IdleConsumer ==
  [pc |-> "idle", s |-> NoSignal, src |-> "kafka",
   st |-> NoRow, qty |-> 0, job |-> "idle", prev |-> NoRow]

\* new: status to write; prior: filled_quantity of the row when it was listed
IdleHandler ==
  [pc |-> "idle", kind |-> "fill", new |-> NoRow, prior |-> 0, qty |-> 0, prev |-> NoRow]

IdleCancel == [pc |-> "idle", filled |-> 0, prev |-> NoRow]

FillsIdle == \A s \in Signals : f[s].pc = "idle"
CancelsIdle == ~scan /\ \A s \in Signals : k[s].pc = "idle"

Visible(s) == bro[s].st \in KiteStatus

FaultKinds == {"crash", "db", "timeout", "halt", "redeliver"}

Allowance ==
  [kind \in FaultKinds |->
     CASE kind = "crash"   -> MaxCrashes
       [] kind = "db"      -> MaxDbErrors
       [] kind = "timeout" -> MaxTimeouts
       [] kind = "halt"    -> MaxHalts
       [] OTHER            -> MaxRedeliveries]

Fault(kind) ==
  /\ budget[kind] > 0
  /\ budget' = [budget EXCEPT ![kind] = @ - 1]

\* None of these faults has struck so far.
Untroubled(kinds) == \A kind \in kinds : budget[kind] = Allowance[kind]

Init ==
  /\ row = [s \in Signals |-> [st |-> NoRow, bid |-> FALSE, filled |-> 0]]
  /\ gate = {}
  /\ applied = [s \in Signals |-> 0]
  /\ dks = FALSE
  /\ bro = [s \in Signals |-> [st |-> NoRow, qty |-> 0]]
  /\ sent = [s \in Signals |-> 0]
  /\ accepted = [s \in Signals |-> 0]
  /\ msg = [s \in Signals |-> "ready"]
  /\ attempts = [s \in Signals |-> 0]
  /\ expired = {}
  /\ up = "run"
  /\ todo = {}
  /\ ks = FALSE
  /\ scan = FALSE
  /\ c = IdleConsumer
  /\ f = [s \in Signals |-> IdleHandler]
  /\ k = [s \in Signals |-> IdleCancel]
  /\ budget = Allowance

-----------------------------------------------------------------------------
(* Shared database operations                                              *)

\* Mutant: the write is not conditional on the status that was read.
TransitionUnconditional(s, prev, new, filled, hasBid, ok) ==
  \/ /\ IsValidStatusTransition(prev, new)
     /\ ok = TRUE
     /\ row' = [row EXCEPT ![s] =
                  [st |-> new, bid |-> @.bid \/ hasBid, filled |-> filled]]
     /\ UNCHANGED budget
  \/ /\ ~IsValidStatusTransition(prev, new)
     /\ ok = FALSE
     /\ UNCHANGED <<row, budget>>

\* The write half of _transition_order_status: conditional on the status
\* read before; ok is what the call returns.  After a failed call the write
\* may have happened or not.
Transition(s, prev, new, filled, hasBid, ok) ==
  \/ /\ IsValidStatusTransition(prev, new)
     /\ row[s].st = prev
     /\ row' = [row EXCEPT ![s] =
                  [st |-> new, bid |-> @.bid \/ hasBid, filled |-> filled]]
     /\ \/ ok = TRUE /\ UNCHANGED budget
        \/ ok = FALSE /\ Fault("db")
  \/ /\ ~(IsValidStatusTransition(prev, new) /\ row[s].st = prev)
     /\ ok = (IsValidStatusTransition(prev, new) /\ row[s].st = new)
     /\ UNCHANGED <<row, budget>>
  \/ /\ Fault("db")
     /\ ok = FALSE
     /\ UNCHANGED row

\* apply_fill_to_position: its callers ignore the False of a failed update.
ApplyFill(s, q) ==
  \/ /\ applied' = [applied EXCEPT ![s] = @ + q]
     /\ UNCHANGED budget
  \/ Fault("db") /\ UNCHANGED applied

-----------------------------------------------------------------------------
(* The consumer: _kafka_processing_loop, _handle_approved_signal_event and  *)
(* execute_approved_signal, one message at a time.  During startup          *)
(* reconciliation the same code runs with src = "boot".                     *)

Goto(pc) == c' = [c EXCEPT !.pc = pc]

\* A retry of an order starts only when PendingSettles allows it.
MayAttempt(s) == PendingSettles /\ row[s].st = "PENDING" => sent[s] = 0

ConsumerReceive(s) ==
  /\ up = "run" /\ c.pc = "idle"
  /\ msg[s] = "ready"
  /\ MayAttempt(s)
  /\ IF s \in expired
       THEN msg' = [msg EXCEPT ![s] = "dlq"] /\ UNCHANGED c
       ELSE c' = [IdleConsumer EXCEPT !.pc = "entry", !.s = s] /\ UNCHANGED msg
  /\ UNCHANGED <<tables, broker, attempts, expired, up, todo, switch, f, budget>>

\* Expiry is tested by the handler (drop and commit) and again by
\* execute_approved_signal (raise); then the kill switch.  At boot the
\* refresh inside this step is awaited, so its cancel tasks end first.
ConsumerEntry ==
  /\ c.pc = "entry"
  /\ up = "boot" => CancelsIdle
  /\ \/ c.s \in expired /\ c.src = "kafka" /\ Goto("commit")
     \/ (c.s \in expired \/ ks) /\ Goto("fail")
     \/ c.s \notin expired /\ ~ks /\ Goto("lookup")
  /\ UNCHANGED <<tables, broker, kafka, up, todo, switch, f, budget>>

\* Mutant: an order of unknown fate is retried like a PENDING one.
ConsumerLookupRetriesUnknown ==
  /\ c.pc = "lookup"
  /\ \/ row[c.s].st = NoRow /\ Goto("submit")
     \/ row[c.s].st \in {"PENDING", "ACK_UNKNOWN"} /\ Goto("check")
     \/ /\ row[c.s].st \in OrderStatus \ {"PENDING", "ACK_UNKNOWN"}
        /\ c' = [c EXCEPT !.pc = "settle", !.st = row[c.s].st, !.qty = row[c.s].filled]
  /\ UNCHANGED <<tables, broker, kafka, up, todo, switch, f, budget>>

\* get_order_by_signal; a failed or lagging index read looks like "not found".
ConsumerLookup ==
  /\ c.pc = "lookup"
  /\ \/ row[c.s].st = NoRow /\ Goto("submit") /\ UNCHANGED budget
     \/ row[c.s].st # NoRow /\ Fault("db") /\ Goto("submit")
     \/ row[c.s].st = "PENDING" /\ Goto("check") /\ UNCHANGED budget
     \/ row[c.s].st = "ACK_UNKNOWN" /\ Goto("recover") /\ UNCHANGED budget
     \/ /\ row[c.s].st \in OrderStatus \ {"PENDING", "ACK_UNKNOWN"}
        /\ c' = [c EXCEPT !.pc = "settle", !.st = row[c.s].st, !.qty = row[c.s].filled]
        /\ UNCHANGED budget
  /\ UNCHANGED <<tables, broker, kafka, up, todo, switch, f>>

\* Mutant: the order goes to the broker without its reservation.
ConsumerSubmitSkipped ==
  /\ c.pc = "submit"
  /\ Goto("check")
  /\ UNCHANGED <<tables, broker, kafka, up, todo, switch, f, budget>>

\* submit_order: row and signal lock in one transaction.
ConsumerSubmit ==
  /\ c.pc = "submit"
  /\ \/ /\ row[c.s].st = NoRow
        /\ row' = [row EXCEPT ![c.s].st = "PENDING"]
        /\ Goto("check")
        /\ UNCHANGED budget
     \/ /\ row[c.s].st # NoRow
        /\ Goto("relookup")
        /\ UNCHANGED <<row, budget>>
     \/ /\ Fault("db")
        /\ row' \in {row, IF row[c.s].st = NoRow
                            THEN [row EXCEPT ![c.s].st = "PENDING"] ELSE row}
        /\ Goto("fail")
  /\ UNCHANGED <<gate, applied, dks, broker, kafka, up, todo, switch, f>>

\* The reservation race was lost: return the winner's row, whatever its status.
ConsumerRelookup ==
  /\ c.pc = "relookup"
  /\ \/ /\ c' = [c EXCEPT !.pc = "settle", !.st = row[c.s].st, !.qty = row[c.s].filled]
        /\ UNCHANGED budget
     \/ Fault("db") /\ Goto("fail")
  /\ UNCHANGED <<tables, broker, kafka, up, todo, switch, f>>

\* _place_order_with_broker_idempotency: the kill switch is tested before
\* the tag scan and the rate limiter, both of which wait.
ConsumerCheck ==
  /\ c.pc = "check"
  /\ Goto(IF ks THEN "fail" ELSE "find")
  /\ UNCHANGED <<tables, broker, kafka, up, todo, switch, f, budget>>

\* The response built from a tag scan
Found(s) == [c EXCEPT !.pc = "record", !.st = TranslateStatus(bro[s].st), !.qty = bro[s].qty]

ConsumerFind ==
  /\ c.pc = "find"
  /\ \/ /\ c' = IF Visible(c.s) THEN Found(c.s) ELSE [c EXCEPT !.pc = "place"]
        /\ UNCHANGED budget
     \/ Fault("timeout") /\ Goto("fail")
  /\ UNCHANGED <<tables, broker, kafka, up, todo, switch, f>>

ConsumerPlace ==
  /\ c.pc = "place"
  /\ sent' = [sent EXCEPT ![c.s] = @ + 1]
  /\ Goto("await")
  /\ UNCHANGED <<tables, bro, accepted, kafka, up, todo, switch, f, budget>>

\* Acknowledged; refused (NonRetryableBrokerError); or any other exception.
ConsumerAwait ==
  /\ c.pc = "await"
  /\ \/ /\ Visible(c.s) /\ sent[c.s] = 0
        /\ c' = [c EXCEPT !.pc = "record", !.st = "PLACED", !.qty = 0]
        /\ UNCHANGED <<sent, budget>>
     \/ /\ sent[c.s] > 0
        /\ sent' = [sent EXCEPT ![c.s] = @ - 1]
        /\ Goto("reject")
        /\ UNCHANGED budget
     \/ Fault("timeout") /\ Goto("ack_unknown") /\ UNCHANGED sent
  /\ UNCHANGED <<tables, bro, accepted, kafka, up, todo, switch, f>>

\* _recover_ack_unknown_order: one tag scan, never a second placement.
ConsumerRecover ==
  /\ c.pc = "recover"
  /\ \/ /\ c' = IF Visible(c.s) THEN Found(c.s) ELSE [c EXCEPT !.pc = "fail"]
        /\ UNCHANGED budget
     \/ Fault("timeout") /\ Goto("fail")
  /\ UNCHANGED <<tables, broker, kafka, up, todo, switch, f>>

\* record_order, mark_order_ack_unknown and the REJECTED update: read ...
ConsumerRead ==
  /\ c.pc \in {"record", "reject", "ack_unknown"}
  /\ c' = [c EXCEPT !.pc = "write", !.job = c.pc, !.prev = row[c.s].st]
  /\ UNCHANGED <<tables, broker, kafka, up, todo, switch, f, budget>>

\* ... then write; only record_order looks at the outcome.
JobStatus ==
  CASE c.job = "record" -> c.st
    [] c.job = "reject" -> "REJECTED"
    [] OTHER            -> "ACK_UNKNOWN"

ConsumerWrite ==
  /\ c.pc = "write"
  /\ \E ok \in BOOLEAN :
       /\ Transition(c.s, c.prev, JobStatus,
                     IF c.job = "record" THEN c.qty ELSE 0, c.job = "record", ok)
       /\ Goto(CASE c.job = "record" -> (IF ok THEN "settle" ELSE "fail")
                 [] c.job = "reject" -> "fail"
                 [] OTHER            -> "recover")
  /\ UNCHANGED <<gate, applied, dks, broker, kafka, up, todo, switch, f>>

\* The handler applies the fill of whatever response it holds; the startup
\* caller ignores the response.
ConsumerSettle ==
  /\ c.pc = "settle"
  /\ IF c.src = "kafka" /\ c.st \in {"FILLED", "PARTIALLY_FILLED"} /\ c.qty > 0
       THEN ApplyFill(c.s, c.qty)
       ELSE UNCHANGED <<applied, budget>>
  /\ IF c.src = "kafka" THEN Goto("commit") ELSE c' = IdleConsumer
  /\ UNCHANGED <<row, gate, dks, broker, kafka, up, todo, switch, f>>

ConsumerCommit ==
  /\ c.pc = "commit"
  /\ msg' = [msg EXCEPT ![c.s] = "done"]
  /\ c' = IdleConsumer
  /\ UNCHANGED <<tables, broker, attempts, expired, up, todo, switch, f, budget>>

\* Mutants: the attempt limit is off by one; the attempt is not counted.
ConsumerFailOffByOne ==
  /\ c.pc = "fail"
  /\ IF c.src = "kafka"
       THEN IF attempts[c.s] > MaxRetries
              THEN msg' = [msg EXCEPT ![c.s] = "dlq"] /\ UNCHANGED attempts
              ELSE attempts' = [attempts EXCEPT ![c.s] = @ + 1] /\ UNCHANGED msg
       ELSE UNCHANGED <<msg, attempts>>
  /\ c' = IdleConsumer
  /\ UNCHANGED <<tables, broker, expired, up, todo, switch, f, budget>>

ConsumerFailUncounted ==
  /\ c.pc = "fail"
  /\ c' = IdleConsumer
  /\ UNCHANGED <<tables, broker, kafka, up, todo, switch, f, budget>>

\* publish_retry, or the DLQ once the attempts are used up, then commit; the
\* replayer puts a retried message back on signals.approved.
ConsumerFail ==
  /\ c.pc = "fail"
  /\ IF c.src = "kafka"
       THEN IF attempts[c.s] + 1 > MaxRetries
              THEN msg' = [msg EXCEPT ![c.s] = "dlq"] /\ UNCHANGED attempts
              ELSE attempts' = [attempts EXCEPT ![c.s] = @ + 1] /\ UNCHANGED msg
       ELSE UNCHANGED <<msg, attempts>>
  /\ c' = IdleConsumer
  /\ UNCHANGED <<tables, broker, expired, up, todo, switch, f, budget>>

ConsumerStep ==
  \/ ConsumerEntry \/ ConsumerLookup \/ ConsumerSubmit \/ ConsumerRelookup
  \/ ConsumerCheck \/ ConsumerFind \/ ConsumerPlace \/ ConsumerAwait
  \/ ConsumerRecover \/ ConsumerRead \/ ConsumerWrite \/ ConsumerSettle
  \/ ConsumerCommit \/ ConsumerFail

-----------------------------------------------------------------------------
(* The fill poller: BulkOrderPoller.                                        *)

Tracked(s) == row[s].bid /\ row[s].st \in {"PLACED", "PARTIALLY_FILLED"}

\* _poll_cycle, first half: the open rows.  A cycle ends when its handlers do.
PollList ==
  /\ up = "run" /\ FillsIdle
  /\ \E s \in Signals : Tracked(s)
  /\ f' = [s \in Signals |->
             IF Tracked(s) THEN [IdleHandler EXCEPT !.pc = "listed", !.prior = row[s].filled]
                           ELSE IdleHandler]
  /\ UNCHANGED <<tables, broker, kafka, up, todo, switch, c, budget>>

\* Which handler the bulk snapshot selects for a listed row
Dispatch(s) ==
  LET h    == [f[s] EXCEPT !.qty = bro[s].qty]
      more == bro[s].qty > f[s].prior
  IN CASE bro[s].st = "COMPLETE" ->
            [h EXCEPT !.pc = "gate", !.new = "FILLED"]
       [] bro[s].st = "PARTIALLY" /\ more ->
            [h EXCEPT !.pc = "gate", !.new = "PARTIALLY_FILLED"]
       [] bro[s].st \in {"CANCELLED", "REJECTED"} ->
            [h EXCEPT !.pc = IF more THEN "gate" ELSE "update",
                      !.kind = "terminal", !.new = bro[s].st]
       [] OTHER -> IdleHandler

\* _poll_cycle, second half: one get_all_orders, then the handlers start.  A
\* failed call ends the cycle.
PollBroker ==
  /\ up = "run"
  /\ \E s \in Signals : f[s].pc = "listed"
  /\ \/ /\ f' = [s \in Signals |-> IF f[s].pc = "listed" THEN Dispatch(s) ELSE f[s]]
        /\ UNCHANGED budget
     \/ Fault("timeout") /\ f' = [s \in Signals |-> IdleHandler]
  /\ UNCHANGED <<tables, broker, kafka, up, todo, switch, c>>

\* _write_fill_record: the first writer of a FILL# record goes on; an error
\* that is not the condition ends the handler, written or not.
HandlerGate(s) ==
  /\ f[s].pc = "gate"
  /\ \/ /\ gate' = gate \cup {<<s, f[s].qty>>}
        /\ f' = [f EXCEPT ![s] =
             IF <<s, f[s].qty>> \notin gate
               THEN [@ EXCEPT !.pc = IF f[s].kind = "terminal" THEN "apply" ELSE "update"]
               ELSE IF @.kind = "terminal" THEN [@ EXCEPT !.pc = "update"] ELSE IdleHandler]
        /\ UNCHANGED budget
     \/ /\ Fault("db")
        /\ gate' \in {gate, gate \cup {<<s, f[s].qty>>}}
        /\ f' = [f EXCEPT ![s] = IdleHandler]
  /\ UNCHANGED <<row, applied, dks, broker, kafka, up, todo, switch, c>>

HandlerRead(s) ==
  /\ f[s].pc = "update"
  /\ f' = [f EXCEPT ![s].pc = "write", ![s].prev = row[s].st]
  /\ UNCHANGED <<tables, broker, kafka, up, todo, switch, c, budget>>

\* update_order_status: its result is ignored.
HandlerWrite(s) ==
  /\ f[s].pc = "write"
  /\ \E ok \in BOOLEAN :
       Transition(s, f[s].prev, f[s].new,
                  IF f[s].kind = "terminal" /\ f[s].prior > f[s].qty
                    THEN f[s].prior ELSE f[s].qty, FALSE, ok)
  /\ f' = [f EXCEPT ![s] =
             IF /\ @.kind # "terminal"
                /\ @.new \in {"FILLED", "PARTIALLY_FILLED"}
                /\ @.qty > @.prior
               THEN [@ EXCEPT !.pc = "apply"] ELSE IdleHandler]
  /\ UNCHANGED <<gate, applied, dks, broker, kafka, up, todo, switch, c>>

\* Mutant: the whole cumulative quantity goes to the position.
HandlerApplyCumulative(s) ==
  /\ f[s].pc = "apply"
  /\ ApplyFill(s, f[s].qty)
  /\ f' = [f EXCEPT ![s] = IF @.kind = "terminal" THEN [@ EXCEPT !.pc = "update"]
                                                  ELSE IdleHandler]
  /\ UNCHANGED <<row, gate, dks, broker, kafka, up, todo, switch, c>>

\* Only what is new since the row was listed goes to the position.
HandlerApply(s) ==
  /\ f[s].pc = "apply"
  /\ ApplyFill(s, f[s].qty - f[s].prior)
  /\ f' = [f EXCEPT ![s] = IF @.kind = "terminal" THEN [@ EXCEPT !.pc = "update"]
                                                  ELSE IdleHandler]
  /\ UNCHANGED <<row, gate, dks, broker, kafka, up, todo, switch, c>>

HandlerStep(s) ==
  HandlerGate(s) \/ HandlerRead(s) \/ HandlerWrite(s) \/ HandlerApply(s)

-----------------------------------------------------------------------------
(* The kill switch inside the execution engine.                             *)

\* _refresh_durable_kill_switch_state: activation only.  At boot only the
\* refresh of execute_approved_signal runs.
DurableRefresh ==
  /\ up = "run" \/ (up = "boot" /\ c.pc = "entry")
  /\ dks /\ ~ks
  /\ CancelsIdle
  /\ ks' = TRUE /\ scan' = TRUE
  /\ UNCHANGED <<tables, broker, kafka, up, todo, k, c, f, budget>>

\* A KILL_SWITCH event or the position monitor's local halt.
HaltEvent ==
  /\ up = "run" /\ CancelsIdle
  /\ Fault("halt")
  /\ ks' = TRUE /\ scan' = TRUE
  /\ UNCHANGED <<tables, broker, kafka, up, todo, k, c, f>>

\* _handle_kill_switch_clear, on an explicit KILL_SWITCH_CLEARED event.
ClearEvent ==
  /\ up = "run" /\ ks /\ ~dks
  /\ ks' = FALSE
  /\ UNCHANGED <<tables, broker, kafka, up, todo, scan, k, c, f, budget>>

\* _cancel_open_orders_for_kill_switch: list the open rows, one task each.
\* A failed query yields an empty list.
CancelTask(s) ==
  IF row[s].st \notin OpenStatus THEN IdleCancel
  ELSE IF row[s].bid
         THEN [IdleCancel EXCEPT !.pc = "cancel", !.filled = row[s].filled]
  ELSE IF row[s].st = "PENDING"
         THEN [IdleCancel EXCEPT !.pc = "update", !.filled = row[s].filled]
  ELSE IdleCancel

CancelScan ==
  /\ scan
  /\ scan' = FALSE
  /\ \/ k' = [s \in Signals |-> CancelTask(s)] /\ UNCHANGED budget
     \/ Fault("db") /\ UNCHANGED k
  /\ UNCHANGED <<tables, broker, kafka, up, todo, ks, c, f>>

\* broker.cancel_order under the retry handler: an order that is no longer
\* live raises, and so does the second try after a lost acknowledgement.
CancelAtBroker(s) ==
  /\ k[s].pc = "cancel"
  /\ \/ /\ bro[s].st \in LiveKite
        /\ bro' = [bro EXCEPT ![s].st = "CANCELLED"]
        /\ \/ k' = [k EXCEPT ![s].pc = "update"] /\ UNCHANGED budget
           \/ Fault("timeout") /\ k' = [k EXCEPT ![s] = IdleCancel]
     \/ /\ bro[s].st \notin LiveKite
        /\ k' = [k EXCEPT ![s] = IdleCancel]
        /\ UNCHANGED <<bro, budget>>
  /\ UNCHANGED <<tables, sent, accepted, kafka, up, todo, ks, scan, c, f>>

CancelRead(s) ==
  /\ k[s].pc = "update"
  /\ k' = [k EXCEPT ![s].pc = "write", ![s].prev = row[s].st]
  /\ UNCHANGED <<tables, broker, kafka, up, todo, ks, scan, c, f, budget>>

CancelWrite(s) ==
  /\ k[s].pc = "write"
  /\ \E ok \in BOOLEAN : Transition(s, k[s].prev, "CANCELLED", k[s].filled, FALSE, ok)
  /\ k' = [k EXCEPT ![s] = IdleCancel]
  /\ UNCHANGED <<gate, applied, dks, broker, kafka, up, todo, ks, scan, c, f>>

CancelStep(s) == CancelAtBroker(s) \/ CancelRead(s) \/ CancelWrite(s)

-----------------------------------------------------------------------------
(* Crash, start and _reconcile_state.                                       *)

Crash ==
  /\ up # "down"
  /\ Fault("crash")
  /\ up' = "down" /\ todo' = {}
  /\ ks' = FALSE /\ scan' = FALSE
  /\ c' = IdleConsumer
  /\ f' = [s \in Signals |-> IdleHandler]
  /\ k' = [s \in Signals |-> IdleCancel]
  /\ UNCHANGED <<tables, broker, kafka>>

\* start(): the durable switch is read, and acted on, before anything else.
Restart ==
  /\ up = "down"
  /\ up' = "listing"
  /\ ks' = dks /\ scan' = dks
  /\ UNCHANGED <<tables, broker, kafka, todo, k, c, f, budget>>

BootList ==
  /\ up = "listing" /\ CancelsIdle
  /\ up' = "boot"
  /\ \/ /\ todo' = {[s |-> s, st |-> row[s].st, filled |-> row[s].filled] :
                      s \in {x \in Signals : row[x].st \in OpenStatus}}
        /\ UNCHANGED budget
     \/ Fault("db") /\ todo' = {}
  /\ UNCHANGED <<tables, broker, kafka, switch, c, f>>

\* Mutant: rows the broker knows are left to the poller, whose FILL# record
\* may already exist.
BootOrderSkipsPlaced(t) ==
  /\ up = "boot" /\ t \in todo
  /\ c.pc = "idle" /\ FillsIdle
  /\ todo' = todo \ {t}
  /\ \/ /\ t.st = "PENDING" /\ MayAttempt(t.s)
        /\ c' = [IdleConsumer EXCEPT !.pc = "entry", !.s = t.s, !.src = "boot"]
     \/ /\ t.st = "ACK_UNKNOWN"
        /\ c' = [IdleConsumer EXCEPT !.pc = "recover", !.s = t.s, !.src = "boot"]
     \/ t.st \in {"PLACED", "PARTIALLY_FILLED"} /\ UNCHANGED c
  /\ UNCHANGED <<tables, broker, kafka, up, switch, f, budget>>

\* PENDING rows go through execute_approved_signal, ACK_UNKNOWN rows through
\* the tag scan, rows known to the broker are compared with its status; a
\* failed status call leaves the row to the poller.
BootOrder(t) ==
  /\ up = "boot" /\ t \in todo
  /\ c.pc = "idle" /\ FillsIdle
  /\ todo' = todo \ {t}
  /\ \/ /\ t.st = "PENDING" /\ MayAttempt(t.s)
        /\ c' = [IdleConsumer EXCEPT !.pc = "entry", !.s = t.s, !.src = "boot"]
        /\ UNCHANGED <<f, budget>>
     \/ /\ t.st = "ACK_UNKNOWN"
        /\ c' = [IdleConsumer EXCEPT !.pc = "recover", !.s = t.s, !.src = "boot"]
        /\ UNCHANGED <<f, budget>>
     \/ /\ t.st \in {"PLACED", "PARTIALLY_FILLED"}
        /\ LET new == TranslateStatus(bro[t.s].st)
           IN f' = [f EXCEPT ![t.s] =
                      IF new = t.st THEN IdleHandler
                      ELSE [IdleHandler EXCEPT !.pc = "update", !.kind = "boot", !.new = new,
                                               !.prior = t.filled, !.qty = bro[t.s].qty]]
        /\ UNCHANGED <<c, budget>>
     \/ /\ t.st \in {"PLACED", "PARTIALLY_FILLED"}
        /\ Fault("timeout")
        /\ UNCHANGED <<c, f>>
  /\ UNCHANGED <<tables, broker, kafka, up, switch>>

BootDone ==
  /\ up = "boot" /\ todo = {}
  /\ c.pc = "idle" /\ FillsIdle
  /\ up' = "run"
  /\ UNCHANGED <<tables, broker, kafka, todo, switch, c, f, budget>>

-----------------------------------------------------------------------------
(* The environment: Kite, the risk engine's durable switch, Kafka, time.    *)

\* A second order with the same tag is counted; the scan returns the first.
BrokerAccept(s) ==
  /\ sent[s] > 0
  /\ sent' = [sent EXCEPT ![s] = @ - 1]
  /\ accepted' = [accepted EXCEPT ![s] = @ + 1]
  /\ bro' = IF Visible(s) THEN bro ELSE [bro EXCEPT ![s].st = "OPEN"]
  /\ UNCHANGED <<tables, kafka, process, budget>>

\* A request nobody waits for any more may also be lost.
BrokerDrop(s) ==
  /\ sent[s] > 0
  /\ ~(c.pc = "await" /\ c.s = s)
  /\ sent' = [sent EXCEPT ![s] = @ - 1]
  /\ UNCHANGED <<tables, bro, accepted, kafka, process, budget>>

BrokerFill(s) ==
  /\ bro[s].st \in LiveKite
  /\ \E q \in bro[s].qty + 1 .. Qty, st \in {"OPEN", "PARTIALLY", "COMPLETE"} :
       /\ st = "COMPLETE" <=> q = Qty
       /\ bro' = [bro EXCEPT ![s] = [st |-> st, qty |-> q]]
  /\ UNCHANGED <<tables, sent, accepted, kafka, process, budget>>

BrokerEnd(s) ==
  /\ bro[s].st \in LiveKite
  /\ \E st \in {"CANCELLED", "REJECTED"} :
       /\ st = "REJECTED" => bro[s].qty = 0
       /\ bro' = [bro EXCEPT ![s].st = st]
  /\ UNCHANGED <<tables, sent, accepted, kafka, process, budget>>

HaltRecorded ==
  /\ ~dks /\ Fault("halt")
  /\ dks' = TRUE
  /\ UNCHANGED <<row, gate, applied, broker, kafka, process>>

ClearRecorded ==
  /\ dks
  /\ dks' = FALSE
  /\ UNCHANGED <<row, gate, applied, broker, kafka, process, budget>>

Expire(s) ==
  /\ s \notin expired
  /\ expired' = expired \cup {s}
  /\ UNCHANGED <<tables, broker, msg, attempts, process, budget>>

\* At-least-once delivery: a committed message may come again.
Redeliver(s) ==
  /\ msg[s] = "done" /\ Fault("redeliver")
  /\ msg' = [msg EXCEPT ![s] = "ready"]
  /\ UNCHANGED <<tables, broker, attempts, expired, process>>

Environment ==
  \/ HaltRecorded \/ ClearRecorded
  \/ \E s \in Signals : \/ BrokerAccept(s) \/ BrokerDrop(s) \/ BrokerFill(s)
                        \/ BrokerEnd(s) \/ Expire(s) \/ Redeliver(s)

Next ==
  \/ \E s \in Signals : ConsumerReceive(s) \/ HandlerStep(s) \/ CancelStep(s)
  \/ ConsumerStep
  \/ PollList \/ PollBroker
  \/ DurableRefresh \/ HaltEvent \/ ClearEvent \/ CancelScan
  \/ Crash \/ Restart \/ BootList \/ BootDone
  \/ \E t \in todo : BootOrder(t)
  \/ Environment

Spec == Init /\ [][Next]_vars

\* The event loop keeps running its ready coroutines, the supervisor restarts
\* a dead process, and a request sent to Kite is answered or lost.  Kite's
\* fills, the operators and the faults are not assumed to happen.
Fairness ==
  /\ WF_vars(ConsumerStep)
  /\ \A s \in Signals :
       /\ WF_vars(ConsumerReceive(s))
       /\ WF_vars(HandlerStep(s))
       /\ WF_vars(CancelStep(s))
       /\ WF_vars(BrokerAccept(s) \/ BrokerDrop(s))
  /\ WF_vars(PollList) /\ WF_vars(PollBroker)
  /\ WF_vars(CancelScan)
  /\ WF_vars(Restart) /\ WF_vars(BootList) /\ WF_vars(BootDone)
  /\ WF_vars(\E t \in todo : BootOrder(t))

FairSpec == Spec /\ Fairness
-----------------------------------------------------------------------------
(* Properties                                                               *)

ConsumerPC ==
  {"idle", "entry", "lookup", "submit", "relookup", "check", "find", "place", "await",
   "recover", "record", "reject", "ack_unknown", "write", "settle", "commit", "fail"}

ConsumerRecord ==
  [pc : ConsumerPC, s : Signals \cup {NoSignal}, src : {"kafka", "boot"},
   st : RowStatus, qty : 0..Qty,
   job : {"idle", "record", "reject", "ack_unknown"}, prev : RowStatus]

HandlerRecord ==
  [pc : {"idle", "listed", "gate", "update", "write", "apply"},
   kind : {"fill", "terminal", "boot"}, new : RowStatus,
   prior : 0..Qty, qty : 0..Qty, prev : RowStatus]

CancelRecord ==
  [pc : {"idle", "cancel", "update", "write"}, filled : 0..Qty, prev : RowStatus]

TablesOK ==
  /\ row \in [Signals -> [st : RowStatus, bid : BOOLEAN, filled : 0..Qty]]
  /\ gate \subseteq Signals \X (0..Qty)
  /\ applied \in [Signals -> Nat]
  /\ dks \in BOOLEAN

BrokerOK ==
  /\ bro \in [Signals -> [st : KiteStatus \cup {NoRow}, qty : 0..Qty]]
  /\ sent \in [Signals -> Nat]
  /\ accepted \in [Signals -> Nat]

KafkaOK ==
  /\ msg \in [Signals -> {"ready", "done", "dlq"}]
  /\ attempts \in [Signals -> 0..MaxRetries]
  /\ expired \subseteq Signals

ProcessOK ==
  /\ up \in {"down", "listing", "boot", "run"}
  /\ todo \subseteq [s : Signals, st : OpenStatus, filled : 0..Qty]
  /\ ks \in BOOLEAN
  /\ scan \in BOOLEAN

ConsumerOK == c \in ConsumerRecord
HandlersOK == f \in [Signals -> HandlerRecord]
CancelsOK  == k \in [Signals -> CancelRecord]
BudgetOK   == budget \in [FaultKinds -> Nat]

\* Every variable holds a value of its kind.
TypeOK ==
  /\ TablesOK /\ BrokerOK /\ KafkaOK /\ ProcessOK
  /\ ConsumerOK /\ HandlersOK /\ CancelsOK /\ BudgetOK

\* "This guarantees exactly-once order placement regardless of restarts or
\* Kafka redeliveries" (docs/02_architecture.md): Kite never holds two orders
\* for one signal.
AtMostOneBrokerOrder == \A s \in Signals : accepted[s] <= 1

\* The row is "written to DynamoDB BEFORE calling broker API": neither a
\* request nor an order exists at Kite without a row that reconciliation
\* can find, whatever crashes in between.
RowBeforeBroker == \A s \in Signals : sent[s] + accepted[s] > 0 => row[s].st # NoRow

\* Why AtMostOneBrokerOrder holds when PendingSettles does: one request or one
\* order per signal; the tag scan sees every accepted order; and a consumer
\* on its way to the broker holds a row with no request in flight, because it
\* either created the row or found it PENDING, never ACK_UNKNOWN.
PlacementInv ==
  /\ \A s \in Signals : sent[s] + accepted[s] <= 1
  /\ RowBeforeBroker
  /\ \A s \in Signals : accepted[s] > 0 => Visible(s)
  /\ c.pc \in {"entry", "lookup"} /\ row[c.s].st = "PENDING" => sent[c.s] = 0
  /\ c.pc \in {"check", "find", "place"} => row[c.s].st # NoRow /\ sent[c.s] = 0
  /\ c.pc = "place" => accepted[c.s] = 0

\* The orders table says FILLED only of an order Kite has completed, and
\* REJECTED with a broker id only of one Kite has rejected, whoever wrote the
\* status and from however old a snapshot.
FillsAreReal ==
  \A s \in Signals :
    /\ row[s].st = "FILLED" => bro[s].st = "COMPLETE" /\ row[s].filled = Qty
    /\ row[s].st = "REJECTED" /\ row[s].bid => bro[s].st = "REJECTED"

\* An order the table calls CANCELLED is not live at Kite: otherwise it fills
\* and nobody polls it.  A kill switch "cancel[s] non-protective open orders"
\* (_handle_kill_switch_activation).
CancelledIsNotLive ==
  \A s \in Signals : row[s].st = "CANCELLED" => bro[s].st \notin LiveKite /\ sent[s] = 0

\* Crashes, timeouts, failed writes and redeliveries alone never leave a live
\* order behind a CANCELLED row: only the kill switch's cancel tasks can.
OnlyHaltsCancelLive == Untroubled({"halt"}) => CancelledIsNotLive

\* No unit reaches the position twice: "This prevents double-counting
\* positions under concurrent Kafka redelivery" (docs/04_services.md).
NoDoubleApply == \A s \in Signals : applied[s] <= bro[s].qty

\* Timeouts, recoveries and kill-switch cancels racing the poller's partial
\* fills never count a unit twice: it takes a redelivery, or a crash or a
\* failed write between the three writes of a fill.
FillsCountedOnce == Untroubled({"crash", "db", "redeliver"}) => NoDoubleApply

Quiet(s) ==
  /\ up = "run" /\ c.s # s /\ f[s].pc = "idle" /\ CancelsIdle
  /\ msg[s] # "ready" /\ sent[s] = 0

\* Without faults, once an order is final at Kite and in the table and nobody
\* is working on it, the position holds exactly what Kite filled:
\* apply_fill_to_position is there "to keep the positions table consistent
\* with executed trades".
SettledPosition ==
  Untroubled(FaultKinds) =>
    \A s \in Signals :
      Quiet(s) /\ row[s].st \in TerminalStatus /\ bro[s].st \notin LiveKite
        => applied[s] = bro[s].qty

\* The row is true and stays so: no step makes it call an order FILLED that Kite
\* has not completed, or write a live one off, and until a kill switch writes a
\* stale snapshot its filled quantity never goes back, whichever of consumer,
\* poller and startup writes it.
RowsStayTrue ==
  [][/\ FillsAreReal' /\ OnlyHaltsCancelLive'
     /\ Untroubled({"halt"}) => \A s \in Signals : row'[s].filled >= row[s].filled]_vars

\* The position is true: no unit is counted twice, and a settled order is in it.
PositionIsTrue == FillsCountedOnce /\ SettledPosition

\* Every approved signal is finally committed or dead-lettered, through
\* retries, crashes and an engaged kill switch.
MessageResolved == \A s \in Signals : msg[s] = "ready" ~> msg[s] # "ready"

\* An order the poller tracks that is final at Kite becomes final in the
\* table, even when a crash leaves its FILL# record without the update; only
\* a failed broker call during that restart can leave it behind.
TrackedOrdersSettle ==
  \A s \in Signals :
    Tracked(s) /\ bro[s].st \notin LiveKite
      ~> row[s].st \in TerminalStatus \/ ~Untroubled({"timeout"})

\* The orders table, seen through the status column, is an OrderLifecycle:
\* "There are no backward transitions" (docs/03_signal_lifecycle.md).
Lifecycle == INSTANCE OrderLifecycle WITH status <- [s \in Signals |-> row[s].st]
LifecycleSpec == Lifecycle!Spec
=============================================================================
