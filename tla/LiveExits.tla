----------------------------- MODULE LiveExits -----------------------------
(***************************************************************************)
(* How a live long position of one symbol is protected and closed          *)
(* (services/execution_engine).  The entry order fills at the broker in up *)
(* to Qty parts.  For each part the fill poller, or the reconciliation at  *)
(* startup, places a protective stop; when that fails it halts and places  *)
(* an emergency flatten order.  At 15:05 MISSquareOffManager sells what    *)
(* the positions table holds, PositionMonitor compares the broker's        *)
(* position with the open orders, and OrphanDetector looks for entries     *)
(* without a live stop.  The process may crash between any two writes.     *)
(*                                                                         *)
(* A child order is identified by <<source, cumulative quantity>>: the     *)
(* poller and the startup reconciliation derive its id differently from    *)
(* the same fill (compute_fill_id, _protective_fill_key).                  *)
(***************************************************************************)
EXTENDS Integers, FiniteSets, FiniteSetsExt

CONSTANTS
  Qty,        \* the quantity of the entry order
  MaxFaults,  \* crashes, refused orders, failed writes and reads
  None

ASSUME ExitsAssumption == Qty \in Nat \ {0} /\ MaxFaults \in Nat

VARIABLES
  filled,     \* the entry's cumulative filled quantity at the broker
  stored,     \* ... in the orders table
  recs,       \* the cumulative quantities with a FILL# record
  told,       \* the child orders whose fill has a FILL# record
  book,       \* the quantity in the positions table
  net,        \* the broker's net position
  child,      \* stored status of each protective stop ("unknown": ACK_UNKNOWN)
  stop,       \* each protective stop at the broker
  size,       \* its quantity
  flat,       \* stored status of each flatten order
  linked,     \* protective_stop_order_id of the entry
  failed,     \* protection_status of the entry is PROTECTION_FAILED
  job,        \* what the process is doing for one fill
  left,       \* the open orders the startup has still to look at
  up,         \* "starting" (reconciliation), "running" or "down"
  halted,     \* the local kill switch
  lock,       \* exit_order_id of the position is set
  phase,      \* of the day: "open", "close" (15:05), "deadline" (15:10), "over"
  mis,        \* the square-off: "armed", "confirming", "done"
  escalated,  \* the square-off has written the kill switch
  lapses,     \* history: why a part of the position may be uncovered
  doubled,    \* history: why a part of it may be closed twice
  faults

orders == <<stored, recs, told, child, flat, linked, failed>>
broker == <<filled, net, stop, size>>
positions == <<book, lock>>
process == <<up, left, halted>>
day == <<phase, mis, escalated>>
history == <<lapses, doubled>>
vars == <<orders, broker, positions, process, job, day, history, faults>>

Keys == {"poller", "startup"} \X (1..Qty)
Entry == <<"entry", None>>
Children == {"stop", "flatten"} \X Keys
Idle == [at |-> "idle", key |-> None, qty |-> 0]
Steps == {"idle", "update", "submit", "place", "recover", "record", "found", "link", "apply",
          "reject", "flatten", "sell", "sold", "mark"}
Terminal == {"filled", "rejected"}
Unplaced == {"pending", "unknown"}

TypeOK ==
  /\ filled \in 0..Qty /\ stored \in 0..Qty /\ recs \subseteq 1..Qty /\ told \subseteq Children
  /\ book \in Int /\ net \in Int
  /\ child \in [Keys -> {"none", "placed"} \cup Unplaced \cup Terminal]
  /\ stop \in [Keys -> {"none", "working", "done"}]
  /\ size \in [Keys -> 0..Qty]
  /\ flat \in [Keys -> {"none", "pending", "placed", "filled"}]
  /\ linked \in Keys \cup {None} /\ {failed, halted, lock, escalated} \subseteq BOOLEAN
  /\ job.at \in Steps /\ job.key \in Keys \cup {None} /\ job.qty \in 0..Qty
  /\ up \in {"starting", "running", "down"} /\ left \subseteq {Entry} \cup Children
  /\ phase \in {"open", "close", "deadline", "over"} /\ mis \in {"armed", "confirming", "done"}
  /\ lapses \subseteq {"crash", "write", "flatten", "startup"}
  /\ doubled \subseteq {"unknown_stop", "status", "square_off"}
  /\ faults \in 0..MaxFaults

Init ==
  /\ filled = 0 /\ stored = 0 /\ recs = {} /\ told = {} /\ book = 0 /\ net = 0
  /\ child = [k \in Keys |-> "none"] /\ stop = child /\ flat = child
  /\ size = [k \in Keys |-> 0]
  /\ linked = None /\ failed = FALSE /\ job = Idle /\ up = "running" /\ left = {}
  /\ halted = FALSE /\ lock = FALSE
  /\ phase = "open" /\ mis = "armed" /\ escalated = FALSE
  /\ lapses = {} /\ doubled = {} /\ faults = 0

Fault(happens) ==
  /\ happens => faults < MaxFaults
  /\ faults' = IF happens THEN faults + 1 ELSE faults

Lapse(happens, why) == lapses' = IF happens THEN lapses \cup {why} ELSE lapses
Doubles(happens, why) == doubled' = IF happens THEN doubled \cup {why} ELSE doubled

\* The stop orders that would still sell.
Working == {k \in Keys : stop[k] = "working"}
Covered == MapThenSumSet(LAMBDA k : size[k], Working)

----------------------------------------------------------------------------
(* The broker.                                                             *)

EntryFills ==
  /\ phase = "open" /\ \E n \in (filled + 1)..Qty : filled' = n /\ net' = net + (n - filled)
  /\ UNCHANGED <<orders, stop, size, positions, process, job, day, history, faults>>

StopTriggers ==
  /\ \E k \in Working :
       /\ stop' = [stop EXCEPT ![k] = "done"]
       /\ net' = net - size[k]
  /\ UNCHANGED <<orders, filled, size, positions, process, job, day, history, faults>>

----------------------------------------------------------------------------
(* A fill is noticed.                                                      *)

Start(at, source) == job' = [at |-> at, key |-> <<source, filled>>, qty |-> filled - stored]
At(step) == job' = [job EXCEPT !.at = step]

\* The position takes a fill, unless the write fails, which is logged; a
\* position that is not flat afterwards loses its exit order's id.
Apply(n, written) ==
  /\ book' = IF written THEN book + n ELSE book
  /\ lock' = (lock /\ (written => book + n = 0))

\* Mutant: one record for an order, not one for each quantity.
PollFillOnce ==
  /\ up = "running" /\ job.at = "idle" /\ filled > stored /\ recs = {}
  /\ recs' = recs \cup {filled} /\ Start("update", "poller")
  /\ UNCHANGED <<stored, told, child, flat, linked, failed, broker, positions, process, day,
                 history, faults>>

\* BulkOrderPoller._handle_fill and _handle_partial: the conditional write of
\* the FILL# record decides whether the fill is processed at all.
PollFill ==
  /\ up = "running" /\ job.at = "idle" /\ filled > stored /\ filled \notin recs
  /\ recs' = recs \cup {filled} /\ Start("update", "poller")
  /\ UNCHANGED <<stored, told, child, flat, linked, failed, broker, positions, process, day,
                 history, faults>>

\* The status of the entry order, whose failure nobody looks at.  With it the
\* order leaves, or moves on, and the fill will not be noticed again.  The
\* poller places the stop next, the reconciliation first applies the fill.
UpdateStatus ==
  /\ job.at = "update" /\ At(IF job.key[1] = "poller" THEN "submit" ELSE "apply")
  /\ \E written \in BOOLEAN :
       /\ Fault(~written) /\ Doubles(~written, "status")
       /\ stored' = IF written THEN job.key[2] ELSE stored
  /\ UNCHANGED <<recs, told, child, flat, linked, failed, broker, positions, process, day, lapses>>

\* apply_fill_to_position.
ApplyFill ==
  /\ job.at = "apply"
  /\ \E written \in BOOLEAN : Fault(~written) /\ Apply(job.qty, written)
  /\ job' = IF job.key[1] = "poller" THEN Idle ELSE [job EXCEPT !.at = "submit"]
  /\ UNCHANGED <<orders, broker, process, day, history>>

\* The stop is dealt with, or its handling raised: the poller has the position
\* left to do.
StopDone == IF job.key[1] = "poller" THEN [job EXCEPT !.at = "apply"] ELSE Idle

\* A pending child that the startup places, not a fill.
Recovering == job.qty = 0
GiveUp == job' = IF Recovering THEN Idle ELSE StopDone

----------------------------------------------------------------------------
(* _maybe_place_protective_stop.                                           *)

\* submit_child_order: a conditional put.  A child that exists is left as it
\* is; a put that fails is swallowed by the callers: no stop and no halt.
SubmitChild ==
  /\ job.at = "submit"
  /\ \E written \in BOOLEAN :
       /\ Fault(~written) /\ Lapse(~written, "write")
       /\ IF written /\ child[job.key] = "none"
          THEN /\ child' = [child EXCEPT ![job.key] = "pending"]
               /\ size' = [size EXCEPT ![job.key] = job.qty]
               /\ At("place")
          ELSE job' = StopDone /\ UNCHANGED <<child, size>>
  /\ UNCHANGED <<stored, recs, told, flat, linked, failed, filled, net, stop, positions, process,
                 day, doubled>>

\* What the broker answers for an order with this tag, and what is done next.
Scanned(k) == IF stop[k] = "done" THEN "found" ELSE "record"

\* The order with this tag is at the broker, at most once.
ReachesBroker(k) == stop' = IF stop[k] = "none" THEN [stop EXCEPT ![k] = "working"] ELSE stop

\* _place_order_with_broker_idempotency.
PlaceStop ==
  /\ job.at = "place"
  /\ \/ \* An order with this tag is found, or the placement succeeds.
        /\ ReachesBroker(job.key) /\ Fault(FALSE) /\ At(Scanned(job.key)) /\ UNCHANGED child
     \/ \* The scan for the tag raises.
        /\ Fault(TRUE) /\ IF Recovering THEN job' = Idle ELSE At("reject")
        /\ UNCHANGED <<stop, child>>
     \/ \* NonRetryableBrokerError: the child is rejected.
        /\ stop[job.key] = "none" /\ Fault(TRUE) /\ UNCHANGED stop
        /\ child' = [child EXCEPT ![job.key] = "rejected"]
        /\ IF Recovering THEN job' = Idle ELSE At("reject")
     \/ \* Any other exception, wherever the order is by now.
        /\ stop[job.key] = "none" /\ Fault(TRUE) /\ At("recover")
        /\ ReachesBroker(job.key) \/ UNCHANGED stop
        /\ \E written \in BOOLEAN :
             child' = IF written THEN [child EXCEPT ![job.key] = "unknown"] ELSE child
  /\ UNCHANGED <<stored, recs, told, flat, linked, failed, filled, net, size, positions, process,
                 day, history>>

\* _recover_ack_unknown_order: one more scan for the tag.  Without an answer
\* the stop counts as failed, although it may be at the broker.
RecoverStop ==
  /\ job.at = "recover"
  /\ \/ /\ stop[job.key] # "none" /\ Fault(FALSE) /\ At(Scanned(job.key)) /\ UNCHANGED doubled
     \/ /\ Fault(stop[job.key] # "none")
        /\ Doubles(stop[job.key] # "none" /\ ~Recovering, "unknown_stop")
        /\ IF Recovering THEN job' = Idle ELSE At("reject")
  /\ UNCHANGED <<orders, broker, positions, process, day, lapses>>

\* record_order of the child, with the status the broker gave: PLACED, or what
\* the scan found.  It raises when the write fails, and the link is left out.
RecordChild ==
  /\ job.at \in {"record", "found"}
  /\ \E written \in BOOLEAN :
       /\ Fault(~written)
       /\ IF written
          THEN /\ child' = [child EXCEPT ![job.key] =
                                IF job.at = "found" THEN "filled" ELSE "placed"]
               /\ At("link")
          ELSE GiveUp /\ UNCHANGED child
  /\ UNCHANGED <<stored, recs, told, flat, linked, failed, broker, positions, process, day,
                 history>>

\* link_protective_child: a later child overwrites an earlier one.
LinkChild ==
  /\ job.at = "link" /\ GiveUp
  /\ \E written \in BOOLEAN : Fault(~written) /\ linked' = IF written THEN job.key ELSE linked
  /\ UNCHANGED <<stored, recs, told, child, flat, failed, broker, positions, process, day,
                 history>>

----------------------------------------------------------------------------
(* _handle_protective_stop_failure and _place_emergency_flatten_order.     *)

\* Mutant: the handler halts and returns.
RejectChildOnly ==
  /\ job.at = "reject" /\ halted' = TRUE
  /\ child' = [child EXCEPT ![job.key] = "rejected"] /\ job' = StopDone
  /\ UNCHANGED <<stored, recs, told, flat, linked, failed, broker, positions, up, left, day,
                 history, faults>>

\* The local halt (which spares protective orders), then the child's status,
\* whose failure nobody looks at: a restart places a pending child again.
RejectChild ==
  /\ job.at = "reject" /\ halted' = TRUE /\ At("flatten")
  /\ \E written \in BOOLEAN :
       /\ Fault(~written) /\ Doubles(~written, "status")
       /\ child' = IF written THEN [child EXCEPT ![job.key] = "rejected"] ELSE child
  /\ UNCHANGED <<stored, recs, told, flat, linked, failed, broker, positions, up, left, day,
                 lapses>>

\* The conditional put of the flatten order; a failure still marks the entry.
SubmitFlatten ==
  /\ job.at = "flatten"
  /\ \E written \in BOOLEAN :
       /\ Fault(~written) /\ Lapse(~written, "flatten")
       /\ flat' = IF written THEN [flat EXCEPT ![job.key] = "pending"] ELSE flat
       /\ At(IF written THEN "sell" ELSE "mark")
  /\ UNCHANGED <<stored, recs, told, child, linked, failed, broker, positions, process, day,
                 doubled>>

\* Mutant: the flatten order has the whole filled quantity.
PlaceFlattenAll ==
  /\ job.at = "sell"
  /\ net' = net - job.key[2] /\ At("sold")
  /\ UNCHANGED <<orders, filled, stop, size, positions, process, day, history, faults>>

\* A market order: it fills; or the placement raises, sold or not.
PlaceFlatten ==
  /\ job.at = "sell"
  /\ \E answered, sold \in BOOLEAN :
       /\ answered => sold
       /\ Fault(~answered) /\ Lapse(~answered, "flatten")
       /\ net' = IF sold THEN net - job.qty ELSE net
       /\ At(IF answered THEN "sold" ELSE "mark")
  /\ UNCHANGED <<orders, filled, stop, size, positions, process, day, doubled>>

RecordFlatten ==
  /\ job.at = "sold" /\ At("mark")
  /\ \E written \in BOOLEAN :
       /\ Fault(~written) /\ Lapse(~written, "write")
       /\ flat' = IF written THEN [flat EXCEPT ![job.key] = "placed"] ELSE flat
  /\ UNCHANGED <<stored, recs, told, child, linked, failed, broker, positions, process, day,
                 doubled>>

\* mark_protection_failed, in the finally clause: it may raise itself, into the
\* callers that log it.
MarkFailed ==
  /\ job.at = "mark" /\ job' = StopDone
  /\ \E written \in BOOLEAN :
       Fault(~written) /\ Lapse(~written, "write") /\ failed' = (failed \/ written)
  /\ UNCHANGED <<stored, recs, told, child, flat, linked, broker, positions, process, day,
                 doubled>>

----------------------------------------------------------------------------
(* A fill of a child order reaches the tables.                             *)

\* Filled at the broker and stored as open, with a broker's order id.
ToTell(c) ==
  IF c[1] = "stop" THEN stop[c[2]] = "done" /\ child[c[2]] = "placed" ELSE flat[c[2]] = "placed"

\* The status and the position are two writes, and each may fail.
ChildFills(c) ==
  \E status, position \in BOOLEAN :
    /\ Fault(~(status /\ position))
    /\ child' = IF status /\ c[1] = "stop" THEN [child EXCEPT ![c[2]] = "filled"] ELSE child
    /\ flat' = IF status /\ c[1] = "flatten" THEN [flat EXCEPT ![c[2]] = "filled"] ELSE flat
    /\ Apply(-size[c[2]], position)

\* The poller, which handles the orders of a cycle concurrently.
PollChild ==
  /\ up = "running"
  /\ \E c \in Children :
       /\ ToTell(c) /\ c \notin told /\ c[2] # job.key
       /\ told' = told \cup {c} /\ ChildFills(c)
  /\ UNCHANGED <<stored, recs, linked, failed, broker, process, job, day, history>>

----------------------------------------------------------------------------
(* Crash and restart.                                                      *)

\* What the square-off has done is known to the process only.
Crash ==
  /\ up # "down" /\ Fault(TRUE) /\ up' = "down" /\ left' = {} /\ job' = Idle
  /\ halted' = FALSE /\ mis' = "armed"
  /\ Lapse(job.at # "idle", "crash")
  /\ UNCHANGED <<orders, broker, positions, phase, escalated, doubled>>

\* get_open_orders; a pending flatten order has no stop price and is passed over.
OpenOrders ==
  (IF stored < Qty THEN {Entry} ELSE {})
  \cup {<<"stop", k>> : k \in {c \in Keys : child[c] \in Unplaced \cup {"placed"}}}
  \cup {<<"flatten", k>> : k \in {c \in Keys : flat[c] = "placed"}}

\* The queries for the open orders, one for each status; one that fails is logged.
Restart ==
  /\ up = "down" /\ up' = "starting"
  /\ left' \in SUBSET OpenOrders /\ Fault(left' # OpenOrders)
  /\ Lapse(left' # OpenOrders, "startup")
  /\ UNCHANGED <<orders, broker, positions, halted, job, day, doubled>>

Starting(order) == up = "starting" /\ job.at = "idle" /\ order \in left /\ left' = left \ {order}

\* _reconcile_state on the entry order.  A part of it leaves the broker's status
\* at OPEN, which is translated as PLACED and is no news.
ReconcileEntry ==
  /\ Starting(Entry)
  /\ \/ /\ filled = Qty /\ filled > stored /\ Start("update", "startup")
        /\ UNCHANGED <<lapses, faults>>
     \/ filled < Qty /\ UNCHANGED <<job, lapses, faults>>
     \/ Fault(TRUE) /\ Lapse(TRUE, "startup") /\ UNCHANGED job
  /\ UNCHANGED <<orders, broker, positions, up, halted, day, doubled>>

\* _place_pending_protective_order; a failure in it is logged.
ReconcilePending ==
  /\ \E k \in Keys :
       /\ child[k] = "pending" /\ Starting(<<"stop", k>>)
       /\ job' = [at |-> "place", key |-> k, qty |-> 0]
  /\ UNCHANGED <<orders, broker, positions, up, halted, day, history, faults>>

\* A child in ACK_UNKNOWN is never placed again: it is recorded when the broker
\* has it and stays as it is otherwise.
ReconcileUnknown ==
  /\ \E k \in Keys :
       /\ child[k] = "unknown" /\ Starting(<<"stop", k>>)
       /\ \/ /\ stop[k] # "none" /\ Fault(FALSE)
             /\ child' = [child EXCEPT ![k] = IF stop[k] = "done" THEN "filled" ELSE "placed"]
          \/ Fault(stop[k] # "none") /\ UNCHANGED child
  /\ UNCHANGED <<stored, recs, told, flat, linked, failed, broker, positions, up, halted, job,
                 day, history>>

\* A child stored as open, at the broker open or filled, without a FILL# record.
ReconcilePlaced ==
  /\ \E c \in Children :
       /\ Starting(c)
       /\ \/ ToTell(c) /\ ChildFills(c)
          \/ /\ IF c[1] = "stop" THEN child[c[2]] = "placed" ELSE TRUE
             /\ Fault(ToTell(c)) /\ UNCHANGED <<child, flat, positions>>
  /\ UNCHANGED <<stored, recs, told, linked, failed, broker, up, halted, job, day, history>>

\* Whatever failed on the way is left as it is.
StartupDone ==
  /\ up = "starting" /\ job.at = "idle" /\ left = {} /\ up' = "running"
  /\ UNCHANGED <<orders, broker, positions, left, halted, job, day, history, faults>>

----------------------------------------------------------------------------
(* MISSquareOffManager.                                                    *)

Clock ==
  /\ phase # "over"
  /\ phase' = CASE phase = "open" -> "close" [] phase = "close" -> "deadline" [] OTHER -> "over"
  /\ UNCHANGED <<orders, broker, positions, process, job, mis, escalated, history, faults>>

\* _build_valid_exit_ids and _resolve_position: the sign of the quantity gives
\* the side.  An exit id in the row keeps the position out while the orders
\* table has that exit open, and no live exit is ever stored.
StoredExits == {}
CloseQuantity == IF lock /\ StoredExits # {} THEN 0 ELSE book

\* _place_mis_close_order: the market order fills or is refused.  Reading
\* response.success raises in both cases and counts as a rejection, which
\* changes nothing.  The stops stay at the broker.
PlaceClose ==
  \E ok \in BOOLEAN :
    /\ Fault(~ok)
    /\ net' = IF ok THEN net - CloseQuantity ELSE net
    /\ Doubles(ok, "square_off")

\* _execute_mis_square_off: sells what the positions table holds.
SquareOff ==
  /\ up = "running" /\ phase = "close" /\ mis = "armed"
  /\ \/ CloseQuantity = 0 /\ mis' = "done" /\ UNCHANGED <<net, doubled, faults>>
     \/ CloseQuantity # 0 /\ mis' = "confirming" /\ PlaceClose
  /\ UNCHANGED <<orders, filled, stop, size, positions, process, job, phase, escalated, lapses>>

\* The scan of the positions table fails: an alert, and nothing more today.
SquareOffUnread ==
  /\ up = "running" /\ phase = "close" /\ mis = "armed" /\ Fault(TRUE) /\ mis' = "done"
  /\ UNCHANGED <<orders, broker, positions, process, job, phase, escalated, history>>

\* _await_fills_or_escalate: the broker's positions carry the key "symbol", the
\* loop looks for "tradingsymbol" and finds a quantity of zero, so that the
\* first read that succeeds confirms.
ConfirmFlat ==
  /\ up = "running" /\ mis = "confirming" /\ phase = "close" /\ mis' = "done"
  /\ UNCHANGED <<orders, broker, positions, process, job, phase, escalated, history, faults>>

\* Past the deadline without one successful read.
Escalate ==
  /\ up = "running" /\ mis = "confirming" /\ phase \in {"deadline", "over"} /\ Fault(TRUE)
  /\ mis' = "done" /\ escalated' = TRUE
  /\ UNCHANGED <<orders, broker, positions, process, job, phase, history>>

----------------------------------------------------------------------------
(* ExitOrderRouter._route_live, PositionMonitor and OrphanDetector.        *)

\* The call does not match place_order's signature, so that it raises before
\* anything is sent; the lock is released unless that write fails too.
RouteExit ==
  /\ up = "running" /\ book > 0 /\ ~lock
  /\ \E released \in BOOLEAN : Fault(~released) /\ lock' = ~released
  /\ UNCHANGED <<orders, broker, book, process, job, day, history>>

\* get_all_open_positions returns the open orders: the entry while it is open
\* and the stops stored as open, of which one per symbol survives.
OpenQuantities ==
  (IF stored < Qty THEN {Qty} ELSE {})
  \cup {size[k] : k \in {c \in Keys : child[c] \in Unplaced \cup {"placed"}}}
Drift == \/ OpenQuantities = {} /\ net # 0
         \/ \E q \in OpenQuantities : q # net

CheckPositions ==
  /\ up = "running" /\ Drift /\ ~halted /\ halted' = TRUE
  /\ UNCHANGED <<orders, broker, positions, up, left, job, day, history, faults>>

\* OrphanDetector._classify_orphan of a filled entry.
Orphan == stored = Qty /\ (linked = None \/ child[linked] \in Terminal)

Process ==
  \/ PollFill \/ UpdateStatus \/ ApplyFill \/ SubmitChild \/ PlaceStop \/ RecoverStop
  \/ RecordChild \/ LinkChild \/ RejectChild \/ SubmitFlatten \/ PlaceFlatten \/ RecordFlatten
  \/ MarkFailed \/ PollChild \/ ReconcileEntry \/ ReconcilePending \/ ReconcileUnknown
  \/ ReconcilePlaced \/ StartupDone

Next == \/ Process \/ EntryFills \/ StopTriggers \/ Crash \/ Restart \/ Clock \/ SquareOff
        \/ SquareOffUnread \/ ConfirmFlat \/ Escalate \/ RouteExit \/ CheckPositions

Spec == Init /\ [][Next]_vars /\ WF_vars(Process) /\ WF_vars(Restart)

----------------------------------------------------------------------------
(* Properties.                                                             *)

Settled == up = "running" /\ job.at = "idle" /\ filled = stored

\* A long position is never sold twice over, whatever crashed or failed: the
\* net position at the broker goes below zero only by way of a stop that was
\* given up and is at the broker all the same, of a status of the entry or of
\* a refused child that was not written, or of the square-off, which leaves the
\* stops in place, goes by the positions table and starts over after a restart.
NeverOverExits == net < 0 => doubled # {}

\* Nothing happened that may leave a part of the position uncovered: no crash
\* in the middle of a fill, no child order or mark that could not be written,
\* and no flatten order that failed.
Unharmed == lapses \subseteq {"startup"}

\* Between fills everything the broker holds is covered by working stops, a
\* stop that was refused having been made up for by a flatten order and the
\* mark on the entry (_maybe_place_protective_stop and its failure handler).
FullyCovered ==
  Settled /\ Unharmed =>
    /\ doubled = {} => net = Covered
    /\ \A k \in Keys : child[k] = "rejected" => failed /\ flat[k] \in {"placed", "filled"}

\* What OrphanDetector takes for protected is protected, whatever crash or
\* failed write came before: when every stop of a filled entry is for the whole
\* quantity and the entry is not reported, stops cover what the broker holds.
\* (Of an entry bought in parts the detector sees the last stop only.)
OrphansAreReported ==
  Settled /\ stored = Qty /\ ~Orphan /\ "square_off" \notin doubled
  /\ (\A k \in Keys : child[k] # "none" => size[k] = Qty)
  => net <= Covered

\* The state has its types, and what is held is protected or known not to be:
\* stops and flatten orders cover it, and the orphan detector overlooks nothing.
HeldIsProtected == TypeOK /\ FullyCovered /\ OrphansAreReported

\* A complete fill does not stay unhandled: again and again the process is up
\* with nothing in hand, and then the orders table has the fill, unless the
\* poller's FILL# record outlived a status that was not written, or a crash
\* whose startup could not read the order.
FillsAreHandled ==
  []<>(/\ up = "running" /\ job.at = "idle"
       /\ filled = Qty =>
            \/ stored = Qty
            \/ Qty \in recs /\ ("status" \in doubled \/ "startup" \in lapses))
============================================================================
