-------------------------- MODULE LiveExitsProofs --------------------------
(***************************************************************************)
(* Proofs about LiveExits: a long position is not sold twice over, and what *)
(* is held is covered by stops or known not to be, for any quantity of the  *)
(* entry, any parts it fills in and any number of faults.                   *)
(***************************************************************************)
EXTENDS LiveExits, Sums

\* The types of the variables the invariant counts by.
Types ==
  /\ filled \in 0..Qty /\ stored \in 0..Qty /\ net \in Int
  /\ child \in [Keys -> {"none", "placed"} \cup Unplaced \cup Terminal]
  /\ stop \in [Keys -> {"none", "working", "done"}]
  /\ size \in [Keys -> 0..Qty]
  /\ flat \in [Keys -> {"none", "pending", "placed", "filled"}]
  /\ linked \in Keys \cup {None}
  /\ job \in [at : Steps, key : Keys \cup {None}, qty : 0..Qty]

\* The records of fills, the positions table and the histories.
RecordTypes ==
  /\ recs \subseteq 1..Qty /\ told \subseteq Children /\ book \in Int
  /\ left \subseteq {Entry} \cup Children
  /\ lapses \subseteq {"crash", "write", "flatten", "startup"}
  /\ doubled \subseteq {"unknown_stop", "status", "square_off"}

\* The flags, the clock and the faults.
FlagTypes ==
  /\ {failed, halted, lock, escalated} \subseteq BOOLEAN
  /\ up \in {"starting", "running", "down"}
  /\ phase \in {"open", "close", "deadline", "over"} /\ mis \in {"armed", "confirming", "done"}
  /\ faults \in 0..MaxFaults

\* The fill of the job is in the orders table and has no stop yet.
Ahead == job.at = "submit" \/ (job.at = "apply" /\ job.key[1] = "startup")
ToCover == IF Ahead THEN job.qty ELSE 0

\* The stops that have sold, and those whose fill was flattened instead, or at
\* least is not going to be any more.
Done == {k \in Keys : stop[k] = "done"}
Sold == {k \in Keys : stop[k] = "done" \/ (flat[k] # "none" /\ ~(job.at = "sell" /\ job.key = k))}

\* The steps that also a pending child goes through that the startup places.
Placing == {"place", "recover", "record", "found", "link"}
Given == Unplaced \cup {"rejected"}

\* What the process does for a fill, and how far it is with it.
JobInv ==
  /\ stored <= filled
  /\ job.at # "idle" => job.key \in Keys
  /\ job.at \notin {"idle"} \cup Placing => job.qty > 0
  /\ job.at = "update" => job.qty = job.key[2] - stored /\ job.key[2] <= filled
  /\ Ahead /\ doubled = {} => child[job.key] = "none" /\ job.key[2] <= stored
  /\ job.at = "place" => child[job.key] = "pending" /\ (job.qty > 0 => stop[job.key] = "none")
  /\ job.at = "recover" => child[job.key] \in Unplaced
  /\ job.at = "reject" /\ doubled = {} => stop[job.key] = "none"
  /\ job.at \in {"record", "found"} => child[job.key] \in Unplaced /\ stop[job.key] # "none"
  /\ job.at = "found" => stop[job.key] = "done"
  /\ job.at = "link" => child[job.key] \in {"placed", "filled"}
  /\ job.at \in {"reject", "flatten", "sell", "sold", "mark"} => child[job.key] \in Given
  /\ job.at \in {"flatten", "sell", "sold", "mark"} /\ doubled = {} => child[job.key] = "rejected"
  /\ job.at \in {"place", "recover", "reject", "flatten"} /\ job.qty > 0 =>
       size[job.key] = job.qty /\ flat[job.key] = "none"
  /\ job.at \in {"sell", "sold"} => size[job.key] = job.qty /\ flat[job.key] = "pending"

\* How far each child order is, in the tables and at the broker.
ChildInv ==
  /\ \A k \in Keys :
       /\ child[k] = "none" => stop[k] = "none" /\ flat[k] = "none" /\ size[k] = 0
       /\ child[k] # "none" /\ doubled = {} => k[2] <= stored
       /\ child[k] \in {"placed", "filled"} => stop[k] # "none"
       /\ child[k] = "filled" => stop[k] = "done"
       /\ flat[k] # "none" /\ doubled = {} => child[k] = "rejected"
       /\ child[k] = "rejected" /\ doubled = {} => stop[k] = "none"
  /\ linked # None => child[linked] \in {"placed", "filled"}

\* As long as no status was lost and no stop that was given up is at the broker, the child
\* orders are for different parts of the entry, and the broker's position is what was bought
\* less what they sold.
MoneyInv ==
  doubled = {} =>
    /\ SumOver(size, Keys) + ToCover <= stored /\ filled - SumOver(size, Sold) <= net
    /\ Unharmed => SumOver(size, Keys) + ToCover = stored /\ net = filled - SumOver(size, Sold)

\* Whatever else went wrong, what a stop has sold is gone, up to the square-off.
StopsSell == "square_off" \notin doubled => net <= filled - SumOver(size, Done)

\* A child order without a stop at the broker.
Lost(k) == child[k] = "rejected" \/ (child[k] \in Unplaced /\ stop[k] = "none")

\* As long as nothing went wrong for good, each of them is in the job's hands or made up for.
LapseInv ==
  Unharmed => \A k \in Keys : Lost(k) =>
    \/ failed /\ flat[k] \in {"placed", "filled"}
    \/ /\ job.key = k /\ job.qty > 0
       /\ job.at \in {"place", "recover", "reject", "flatten", "sell", "sold"}
    \/ job.key = k /\ job.at = "mark" /\ flat[k] = "placed"

IInv == Types /\ RecordTypes /\ FlagTypes /\ JobInv /\ ChildInv /\ MoneyInv /\ StopsSell /\ LapseInv

\* The variables the invariant is about.
counted == <<filled, stored, net, child, stop, size, flat, linked, failed, job, doubled>>

-----------------------------------------------------------------------------
(* Types *)

\* The types hold at first.
LEMMA InitTypes == Init => Types /\ RecordTypes /\ FlagTypes
<1> SUFFICES ASSUME Init PROVE Types /\ RecordTypes /\ FlagTypes
  OBVIOUS
<1>1. Types /\ RecordTypes
  BY ExitsAssumption DEF Init, Types, RecordTypes, Idle, Steps, Terminal, Unplaced
<1>2. FlagTypes
  <2>1. failed \in BOOLEAN /\ halted \in BOOLEAN /\ lock \in BOOLEAN /\ escalated \in BOOLEAN
    BY Zenon DEF Init
  <2> QED
    BY <2>1, ExitsAssumption DEF Init, FlagTypes
<1> QED
  BY <1>1, <1>2

\* The steps that change nothing that is counted.
Elsewhere ==
  \/ UNCHANGED vars \/ StartupDone \/ Clock \/ SquareOffUnread \/ ConfirmFlat
  \/ Escalate \/ RouteExit \/ CheckPositions \/ Restart

\* They do so.
LEMMA ElsewhereFacts == Elsewhere => UNCHANGED counted /\ (Unharmed' => Unharmed)
<1> USE DEF counted, orders, broker, positions, process, day, history, Unharmed
<1>1. CASE UNCHANGED vars \/ StartupDone \/ Clock \/ ConfirmFlat \/ CheckPositions
  BY <1>1 DEF vars, StartupDone, Clock, ConfirmFlat, CheckPositions
<1>2. CASE SquareOffUnread \/ Escalate \/ RouteExit
  BY <1>2 DEF SquareOffUnread, Escalate, RouteExit
<1>3. CASE Restart
  BY <1>3 DEF Restart, Lapse
<1> QED
  BY <1>1, <1>2, <1>3 DEF Elsewhere

\* What the key of a child says of the entry.
LEMMA KeyFacts == ASSUME NEW k \in Keys PROVE k[2] \in 1..Qty /\ k[1] \in {"poller", "startup"} /\ <<k[1], k[2]>> = k
  BY DEF Keys

\* What a step leaves of the job's record.
LEMMA JobTypes ==
  ASSUME job \in [at : Steps, key : Keys \cup {None}, qty : 0..Qty]
  PROVE  /\ \A s \in Steps : [job EXCEPT !.at = s] \in [at : Steps, key : Keys \cup {None}, qty : 0..Qty]
         /\ Idle \in [at : Steps, key : Keys \cup {None}, qty : 0..Qty]
         /\ StopDone \in [at : Steps, key : Keys \cup {None}, qty : 0..Qty]
  BY ExitsAssumption DEF Idle, StopDone, Steps

\* Every step keeps the types.
LEMMA NextTypes == Types /\ book \in Int /\ JobInv /\ [Next]_vars => Types'
<1> SUFFICES ASSUME Types, book \in Int, JobInv, [Next]_vars PROVE Types'
  OBVIOUS
<1> USE ExitsAssumption DEF Types, Unplaced, Terminal
<1>0. /\ \A s \in Steps : [job EXCEPT !.at = s] \in [at : Steps, key : Keys \cup {None}, qty : 0..Qty]
      /\ Idle \in [at : Steps, key : Keys \cup {None}, qty : 0..Qty]
      /\ StopDone \in [at : Steps, key : Keys \cup {None}, qty : 0..Qty]
  BY JobTypes
<1>1. CASE Elsewhere
  BY <1>1, ElsewhereFacts DEF counted
<1>2. CASE EntryFills \/ StopTriggers
  BY <1>2 DEF EntryFills, StopTriggers, orders, Working
<1>3. CASE PollFill \/ ReconcileEntry
  <2>1. UNCHANGED <<stored, child, flat, linked, filled, net, stop, size>>
    BY <1>3 DEF PollFill, ReconcileEntry, orders, broker
  <2>2. job' = job \/ (filled > stored /\ \E s \in {"poller", "startup"} : Start("update", s))
    BY <1>3 DEF PollFill, ReconcileEntry
  <2> QED
    BY <2>1, <2>2 DEF Start, Keys, Steps
<1>4. CASE UpdateStatus
  <2>1. stored' \in 0..Qty
    BY <1>4, KeyFacts DEF UpdateStatus, JobInv
  <2>2. job' \in [at : Steps, key : Keys \cup {None}, qty : 0..Qty]
    BY <1>0, <1>4 DEF UpdateStatus, At, Steps
  <2> QED
    BY <1>4, <2>1, <2>2 DEF UpdateStatus, broker
<1>5. CASE ApplyFill
  <2>1. job' \in [at : Steps, key : Keys \cup {None}, qty : 0..Qty]
    BY <1>0, <1>5 DEF ApplyFill, Steps
  <2> QED
    BY <1>5, <2>1 DEF ApplyFill, orders, broker
<1>6. CASE SubmitChild
  <2>1. job' \in [at : Steps, key : Keys \cup {None}, qty : 0..Qty]
    BY <1>0, <1>6 DEF SubmitChild, At, Steps
  <2> QED
    BY <1>6, <2>1 DEF SubmitChild
<1>7. CASE PlaceStop
  <2>1. stop' \in [Keys -> {"none", "working", "done"}]
    <3>1. stop' = stop \/ ReachesBroker(job.key)
      BY <1>7 DEF PlaceStop
    <3> QED
      BY <3>1 DEF ReachesBroker
  <2>2. child' \in [Keys -> {"none", "placed"} \cup Unplaced \cup Terminal]
    BY <1>7 DEF PlaceStop
  <2>3. job' \in [at : Steps, key : Keys \cup {None}, qty : 0..Qty]
    <3>1. job' = Idle \/ \E s \in Steps : At(s)
      BY <1>7 DEF PlaceStop, Scanned, Steps
    <3> QED
      BY <1>0, <3>1 DEF At
  <2> QED
    BY <1>7, <2>1, <2>2, <2>3 DEF PlaceStop
<1>8. CASE RecoverStop
  <2>1. job' = Idle \/ \E s \in Steps : At(s)
    BY <1>8 DEF RecoverStop, Scanned, Steps
  <2>2. job' \in [at : Steps, key : Keys \cup {None}, qty : 0..Qty]
    BY <1>0, <2>1 DEF At
  <2> QED
    BY <1>8, <2>2 DEF RecoverStop, orders, broker
<1>9. CASE RecordChild \/ LinkChild
  <2>1. job' = Idle \/ job' = StopDone \/ At("link")
    BY <1>9 DEF RecordChild, LinkChild, GiveUp
  <2>2. job' \in [at : Steps, key : Keys \cup {None}, qty : 0..Qty]
    BY <1>0, <2>1 DEF At, Steps
  <2>3. child' \in [Keys -> {"none", "placed"} \cup Unplaced \cup Terminal]
    BY <1>9 DEF RecordChild, LinkChild
  <2>4. linked' \in Keys \cup {None}
    BY <1>9 DEF RecordChild, LinkChild
  <2> QED
    BY <1>9, <2>2, <2>3, <2>4 DEF RecordChild, LinkChild, broker
<1>10. CASE RejectChild
  <2>1. At("flatten")
    BY <1>10 DEF RejectChild
  <2>2. job' \in [at : Steps, key : Keys \cup {None}, qty : 0..Qty]
    BY <1>0, <2>1 DEF At, Steps
  <2>3. child' \in [Keys -> {"none", "placed"} \cup Unplaced \cup Terminal]
    BY <1>10 DEF RejectChild
  <2>4. UNCHANGED <<filled, stored, flat, linked, net, stop, size>>
    BY <1>10 DEF RejectChild, broker
  <2> QED
    BY <2>2, <2>3, <2>4
<1>11. CASE SubmitFlatten
  <2>1. At("sell") \/ At("mark")
    BY <1>11 DEF SubmitFlatten
  <2>2. job' \in [at : Steps, key : Keys \cup {None}, qty : 0..Qty]
    BY <1>0, <2>1 DEF At, Steps
  <2>3. flat' \in [Keys -> {"none", "pending", "placed", "filled"}]
    BY <1>11 DEF SubmitFlatten
  <2>4. UNCHANGED <<filled, stored, child, linked, net, stop, size>>
    BY <1>11 DEF SubmitFlatten, broker
  <2> QED
    BY <2>2, <2>3, <2>4
<1>12. CASE PlaceFlatten
  <2>1. net' \in Int
    BY <1>12 DEF PlaceFlatten
  <2>2. job' \in [at : Steps, key : Keys \cup {None}, qty : 0..Qty]
    BY <1>0, <1>12 DEF PlaceFlatten, At, Steps
  <2> QED
    BY <1>12, <2>1, <2>2 DEF PlaceFlatten, orders
<1>13. CASE RecordFlatten
  <2>1. At("mark")
    BY <1>13 DEF RecordFlatten
  <2>2. job' \in [at : Steps, key : Keys \cup {None}, qty : 0..Qty]
    BY <1>0, <2>1 DEF At, Steps
  <2>3. flat' \in [Keys -> {"none", "pending", "placed", "filled"}]
    BY <1>13 DEF RecordFlatten
  <2>4. UNCHANGED <<filled, stored, child, linked, net, stop, size>>
    BY <1>13 DEF RecordFlatten, broker
  <2> QED
    BY <2>2, <2>3, <2>4
<1>14. CASE MarkFailed
  BY <1>0, <1>14 DEF MarkFailed, broker
<1>15. CASE PollChild \/ ReconcilePlaced
  <2>1. UNCHANGED <<filled, stored, net, stop, size, linked, job>>
    BY <1>15 DEF PollChild, ReconcilePlaced, broker
  <2>2. child' \in [Keys -> {"none", "placed"} \cup Unplaced \cup Terminal]
    BY <1>15 DEF PollChild, ReconcilePlaced, ChildFills
  <2>3. flat' \in [Keys -> {"none", "pending", "placed", "filled"}]
    BY <1>15 DEF PollChild, ReconcilePlaced, ChildFills
  <2> QED
    BY <2>1, <2>2, <2>3
<1>16. CASE Crash
  BY <1>0, <1>16 DEF Crash, orders, broker
<1>17. CASE ReconcilePending
  BY <1>17 DEF ReconcilePending, orders, broker, Steps
<1>18. CASE ReconcileUnknown
  BY <1>18 DEF ReconcileUnknown, broker
<1>19. CASE SquareOff
  <2>1. net' \in Int
    BY <1>19 DEF SquareOff, PlaceClose, CloseQuantity
  <2> QED
    BY <1>19, <2>1 DEF SquareOff, orders
<1> QED
  BY <1>1, <1>2, <1>3, <1>4, <1>5, <1>6, <1>7, <1>8, <1>9, <1>10, <1>11, <1>12, <1>13,
     <1>14,
     <1>15, <1>16, <1>17, <1>18, <1>19 DEF Next, Process, Elsewhere

\* What is noted in the histories.
LEMMA HistoryFacts ==
  ASSUME NEW b, NEW why
  PROVE  /\ Lapse(b, why) => lapses' \in {lapses, lapses \cup {why}}
         /\ Doubles(b, why) => doubled' \in {doubled, doubled \cup {why}}
  BY DEF Lapse, Doubles

\* Every step keeps the types of the records, the positions table and the histories.
LEMMA NextRecords == Types /\ RecordTypes /\ JobInv /\ [Next]_vars => RecordTypes'
<1> SUFFICES ASSUME Types, RecordTypes, JobInv, [Next]_vars PROVE RecordTypes'
  OBVIOUS
<1> USE ExitsAssumption DEF orders, broker, positions, process, day, history
<1>a. ASSUME UNCHANGED <<recs, told, book, left>>,
             lapses' \in {lapses} \cup {lapses \cup {x} : x \in {"crash", "write", "flatten", "startup"}},
             doubled' \in {doubled} \cup {doubled \cup {x} : x \in {"unknown_stop", "status", "square_off"}}
      PROVE  RecordTypes'
  BY <1>a DEF RecordTypes
<1>b. ASSUME NEW n \in Int, NEW w, Apply(n, w) PROVE book' \in Int
  BY <1>b DEF Apply, RecordTypes
<1>1. CASE \/ UNCHANGED vars \/ EntryFills \/ StopTriggers \/ PlaceStop \/ RecordChild \/ LinkChild
  BY <1>1, <1>a DEF vars, EntryFills, StopTriggers, PlaceStop, RecordChild, LinkChild
<1>2. CASE StartupDone \/ Clock \/ SquareOffUnread \/ ConfirmFlat \/ Escalate \/ RouteExit \/ CheckPositions
  BY <1>2, <1>a DEF StartupDone, Clock, SquareOffUnread, ConfirmFlat, Escalate,
     RouteExit, CheckPositions
<1>3. CASE SubmitChild \/ SubmitFlatten \/ PlaceFlatten \/ RecordFlatten \/ MarkFailed
  <2>1. \E b, x : x \in {"write", "flatten"} /\ Lapse(b, x)
    BY <1>3 DEF SubmitChild, SubmitFlatten, PlaceFlatten, RecordFlatten, MarkFailed
  <2>2. UNCHANGED <<recs, told, book, left, doubled>>
    BY <1>3 DEF SubmitChild, SubmitFlatten, PlaceFlatten, RecordFlatten, MarkFailed
  <2> QED
    BY <1>a, <2>1, <2>2, HistoryFacts
<1>4. CASE UpdateStatus \/ RecoverStop \/ RejectChild \/ SquareOff
  <2>1. doubled' = doubled \/ \E b, x : x \in {"unknown_stop", "status", "square_off"} /\ Doubles(b, x)
    BY <1>4 DEF UpdateStatus, RecoverStop, RejectChild, SquareOff, PlaceClose
  <2>2. UNCHANGED <<recs, told, book, left, lapses>>
    BY <1>4 DEF UpdateStatus, RecoverStop, RejectChild, SquareOff
  <2> QED
    BY <1>a, <2>1, <2>2, HistoryFacts
<1>5. CASE PollFill
  <2>1. recs' = recs \cup {filled} /\ filled \in 1..Qty
    BY <1>5 DEF PollFill, Types
  <2>2. UNCHANGED <<told, book, left, lapses, doubled>>
    BY <1>5 DEF PollFill
  <2> QED
    BY <2>1, <2>2 DEF RecordTypes
<1>6. CASE ApplyFill
  <2>1. book' \in Int
    BY <1>6, <1>b DEF ApplyFill, Types
  <2>2. UNCHANGED <<recs, told, left, lapses, doubled>>
    BY <1>6 DEF ApplyFill
  <2> QED
    BY <2>1, <2>2 DEF RecordTypes
<1>7. CASE PollChild \/ ReconcilePlaced
  <2>1. PICK c \in Children : told' \in {told, told \cup {c}} /\ (ChildFills(c) \/ book' = book)
    BY <1>7 DEF PollChild, ReconcilePlaced
  <2>2. size[c[2]] \in Nat
    BY DEF Types, Children
  <2>3. book' \in Int
    BY <1>b, <2>1, <2>2 DEF ChildFills, RecordTypes
  <2>4. UNCHANGED <<recs, lapses, doubled>> /\ left' \subseteq left
    BY <1>7 DEF PollChild, ReconcilePlaced, Starting
  <2> QED
    BY <2>1, <2>3, <2>4 DEF RecordTypes
<1>8. CASE ReconcilePending \/ ReconcileUnknown \/ ReconcileEntry
  <2>1. UNCHANGED <<recs, told, book, doubled>> /\ left' \subseteq left
    BY <1>8 DEF ReconcilePending, ReconcileUnknown, ReconcileEntry, Starting
  <2>2. lapses' \in {lapses, lapses \cup {"startup"}}
    BY <1>8, HistoryFacts DEF ReconcilePending, ReconcileUnknown, ReconcileEntry
  <2> QED
    BY <2>1, <2>2 DEF RecordTypes
<1>9. CASE Crash \/ Restart
  <2>1. UNCHANGED <<recs, told, book, doubled>>
    BY <1>9 DEF Crash, Restart
  <2>2. lapses' \in {lapses, lapses \cup {"startup"}, lapses \cup {"crash"}}
    BY <1>9, HistoryFacts DEF Crash, Restart
  <2>3. left' = {} \/ left' \subseteq OpenOrders
    BY <1>9 DEF Crash, Restart
  <2>4. left' \subseteq {Entry} \cup Children
    BY <2>3 DEF OpenOrders, Children
  <2> QED
    BY <2>1, <2>2, <2>4 DEF RecordTypes
<1> QED
  BY <1>1, <1>2, <1>3, <1>4, <1>5, <1>6, <1>7, <1>8, <1>9 DEF Next, Process

\* Every step keeps the types of the flags, of the clock and of the counter of faults.
LEMMA NextFlags == FlagTypes /\ [Next]_vars => FlagTypes'
<1> SUFFICES ASSUME FlagTypes, [Next]_vars PROVE FlagTypes'
  OBVIOUS
<1> USE DEF orders, broker, positions, process, day, history
<1>0. /\ failed \in BOOLEAN /\ halted \in BOOLEAN /\ lock \in BOOLEAN /\ escalated \in BOOLEAN
      /\ faults \in 0..MaxFaults /\ MaxFaults \in Nat
      /\ up \in {"starting", "running", "down"}
      /\ phase \in {"open", "close", "deadline", "over"} /\ mis \in {"armed", "confirming", "done"}
  BY ExitsAssumption DEF FlagTypes
<1>1. ASSUME NEW b, Fault(b) PROVE faults' \in 0..MaxFaults
  BY <1>0, <1>1 DEF Fault
<1>2. ASSUME failed' \in BOOLEAN, halted' \in BOOLEAN, lock' \in BOOLEAN, escalated' \in BOOLEAN,
             faults' \in 0..MaxFaults, up' \in {"starting", "running", "down"},
             phase' \in {"open", "close", "deadline", "over"}, mis' \in {"armed", "confirming", "done"}
      PROVE  FlagTypes'
  BY <1>2 DEF FlagTypes
<1>3. CASE \/ UNCHANGED vars \/ EntryFills \/ StopTriggers \/ PollFill \/ StartupDone \/ ReconcilePending
  <2>1. /\ UNCHANGED <<failed, halted, lock, day, faults>> /\ up' \in {up, "running"}
    BY <1>3 DEF vars, EntryFills, StopTriggers, PollFill, StartupDone, ReconcilePending
  <2> QED
    BY <1>0, <1>2, <2>1
<1>4. CASE UpdateStatus \/ SubmitChild \/ PlaceStop \/ RecoverStop \/ RecordChild \/ LinkChild
  <2>1. UNCHANGED <<failed, up, halted, lock, day>>
    BY <1>4 DEF UpdateStatus, SubmitChild, PlaceStop, RecoverStop, RecordChild, LinkChild
  <2>2. \E b : Fault(b)
    BY <1>4 DEF UpdateStatus, SubmitChild, PlaceStop, RecoverStop, RecordChild, LinkChild
  <2> QED
    BY <1>0, <1>1, <1>2, <2>1, <2>2
<1>5. CASE SubmitFlatten \/ PlaceFlatten \/ RecordFlatten \/ Restart \/ ReconcileUnknown
  <2>1. UNCHANGED <<failed, halted, lock, day>> /\ up' \in {up, "starting"}
    BY <1>5 DEF SubmitFlatten, PlaceFlatten, RecordFlatten, Restart, ReconcileUnknown
  <2>2. \E b : Fault(b)
    BY <1>5 DEF SubmitFlatten, PlaceFlatten, RecordFlatten, Restart, ReconcileUnknown
  <2> QED
    BY <1>0, <1>1, <1>2, <2>1, <2>2
<1>6. CASE ReconcileEntry
  <2>1. UNCHANGED <<failed, halted, lock, day, up>> /\ (faults' = faults \/ Fault(TRUE))
    BY <1>6 DEF ReconcileEntry
  <2> QED
    BY <1>0, <1>1, <1>2, <2>1
<1>7. CASE ApplyFill \/ PollChild \/ ReconcilePlaced
  <2>1. UNCHANGED <<failed, halted, day, up>>
    BY <1>7 DEF ApplyFill, PollChild, ReconcilePlaced
  <2>2. \E b : Fault(b)
    BY <1>7 DEF ApplyFill, PollChild, ReconcilePlaced, ChildFills
  <2>3. lock' = lock \/ \E n, w : Apply(n, w)
    BY <1>7 DEF ApplyFill, PollChild, ReconcilePlaced, ChildFills
  <2>4. lock' \in BOOLEAN
    <3>1. ASSUME NEW n, NEW w, Apply(n, w) PROVE lock' \in BOOLEAN
      BY <3>1, Zenon DEF Apply
    <3> QED
      BY <1>0, <2>3, <3>1
  <2> QED
    BY <1>0, <1>1, <1>2, <2>1, <2>2, <2>4
<1>8. CASE RejectChild \/ CheckPositions
  <2>1. UNCHANGED <<up, lock, failed, day>> /\ halted' = TRUE
    BY <1>8 DEF RejectChild, CheckPositions
  <2>2. faults' \in 0..MaxFaults
    BY <1>0, <1>1, <1>8 DEF RejectChild, CheckPositions
  <2> QED
    BY <1>0, <1>2, <2>1, <2>2
<1>9. CASE MarkFailed
  <2>1. PICK written \in BOOLEAN : failed' = (failed \/ written) /\ Fault(~written)
    BY <1>9 DEF MarkFailed
  <2>2. failed' \in BOOLEAN
    BY <2>1, Zenon
  <2>3. UNCHANGED <<up, lock, halted, day>>
    BY <1>9 DEF MarkFailed
  <2> QED
    BY <1>0, <1>1, <1>2, <2>1, <2>2, <2>3
<1>10. CASE Crash
  <2>1. /\ up' = "down" /\ mis' = "armed" /\ halted' = FALSE
        /\ UNCHANGED <<failed, lock, phase, escalated>> /\ faults' \in 0..MaxFaults
    BY <1>0, <1>1, <1>10 DEF Crash
  <2> QED
    BY <1>0, <1>2, <2>1
<1>11. CASE Clock \/ SquareOffUnread \/ ConfirmFlat
  <2>1. UNCHANGED <<failed, up, halted, lock, escalated>>
    BY <1>11 DEF Clock, SquareOffUnread, ConfirmFlat
  <2>2. phase' \in {"open", "close", "deadline", "over"} /\ mis' \in {"armed", "confirming", "done"}
    BY <1>0, <1>11 DEF Clock, SquareOffUnread, ConfirmFlat
  <2>3. faults' \in 0..MaxFaults
    BY <1>0, <1>1, <1>11 DEF Clock, SquareOffUnread, ConfirmFlat
  <2> QED
    BY <1>0, <1>2, <2>1, <2>2, <2>3
<1>12. CASE SquareOff
  <2>1. UNCHANGED <<failed, up, halted, lock, escalated, phase>> /\ mis' \in {"armed", "confirming", "done"}
    BY <1>12 DEF SquareOff
  <2>2. faults' \in 0..MaxFaults
    BY <1>0, <1>1, <1>12 DEF SquareOff, PlaceClose
  <2> QED
    BY <1>0, <1>2, <2>1, <2>2
<1>13. CASE Escalate
  <2>1. UNCHANGED <<failed, up, halted, lock, phase>> /\ mis' = "done" /\ faults' \in 0..MaxFaults
    BY <1>1, <1>13 DEF Escalate
  <2>2. escalated' \in BOOLEAN
    BY <1>13, Zenon DEF Escalate
  <2> QED
    BY <1>0, <1>2, <2>1, <2>2
<1>14. CASE RouteExit
  <2>1. UNCHANGED <<failed, up, halted, day>> /\ faults' \in 0..MaxFaults
    BY <1>1, <1>14 DEF RouteExit
  <2>2. lock' \in BOOLEAN
    <3>1. PICK released \in BOOLEAN : lock' = ~released
      BY <1>14 DEF RouteExit
    <3> QED
      BY <3>1, Zenon
  <2> QED
    BY <1>0, <1>2, <2>1, <2>2
<1> QED
  BY <1>3, <1>4, <1>5, <1>6, <1>7, <1>8, <1>9, <1>10, <1>11, <1>12, <1>13, <1>14 DEF
     Next, Process

\* What was noted stays noted.
LEMMA HistoryGrows == [Next]_vars => lapses \subseteq lapses' /\ doubled \subseteq doubled'
<1> SUFFICES ASSUME [Next]_vars PROVE lapses \subseteq lapses' /\ doubled \subseteq doubled'
  OBVIOUS
<1> USE DEF Lapse, Doubles, history, orders, broker
<1>1. CASE UNCHANGED vars \/ EntryFills \/ StopTriggers \/ PlaceStop \/ RecordChild \/ LinkChild
  BY <1>1 DEF vars, EntryFills, StopTriggers, PlaceStop, RecordChild, LinkChild
<1>2. CASE \/ StartupDone \/ Clock \/ SquareOffUnread \/ ConfirmFlat \/ Escalate \/ RouteExit \/ CheckPositions
  BY <1>2 DEF StartupDone, Clock, SquareOffUnread, ConfirmFlat, Escalate, RouteExit,
     CheckPositions
<1>3. CASE \/ SubmitChild \/ SubmitFlatten \/ PlaceFlatten \/ RecordFlatten \/ MarkFailed \/ UpdateStatus
           \/ RecoverStop \/ RejectChild \/ SquareOff
  BY <1>3 DEF SubmitChild, SubmitFlatten, PlaceFlatten, RecordFlatten, MarkFailed,
     UpdateStatus,
     RecoverStop, RejectChild, SquareOff, PlaceClose
<1>4. CASE PollFill \/ ApplyFill \/ PollChild \/ ReconcilePlaced \/ ReconcilePending \/ ReconcileUnknown
  BY <1>4 DEF PollFill, ApplyFill, PollChild, ReconcilePlaced, ReconcilePending,
     ReconcileUnknown
<1>5. CASE ReconcileEntry \/ Crash \/ Restart
  BY <1>5 DEF ReconcileEntry, Crash, Restart
<1> QED
  BY <1>1, <1>2, <1>3, <1>4, <1>5 DEF Next, Process

-----------------------------------------------------------------------------
(* The job and the child orders *)

\* What PlaceStop leaves the stop, its row and the job in.
LEMMA PlaceStopFacts ==
  ASSUME Types, JobInv, PlaceStop
  PROVE  /\ job.at = "place" /\ job.key \in Keys
         /\ UNCHANGED <<stored, flat, linked, failed, filled, net, size, lapses, doubled>>
         /\ job'.at \in {"idle", "record", "found", "reject", "recover"}
         /\ IF job'.at = "idle" THEN job.qty = 0 ELSE job'.key = job.key /\ job'.qty = job.qty
         /\ job'.at = "reject" => job.qty > 0
         /\ job'.at = "found" => stop[job.key] = "done"
         /\ job'.at = "record" => stop'[job.key] # "none"
         /\ \/ stop' = stop
            \/ /\ stop[job.key] = "none" /\ stop' = [stop EXCEPT ![job.key] = "working"]
               /\ job'.at \in {"record", "recover"}
         /\ \/ child' = child
            \/ /\ stop[job.key] = "none" /\ child' = [child EXCEPT ![job.key] = "rejected"]
               /\ job'.at \in {"idle", "reject"}
            \/ child' = [child EXCEPT ![job.key] = "unknown"] /\ job'.at = "recover"
<1>1. job.at = "place" /\ job.key \in Keys
  BY DEF PlaceStop, JobInv
<1>2. UNCHANGED <<stored, flat, linked, failed, filled, net, size, lapses, doubled>>
  BY DEF PlaceStop, history
<1>3. /\ job.qty \in Nat /\ Idle.at = "idle"
      /\ \A x : /\ [job EXCEPT !.at = x].at = x /\ [job EXCEPT !.at = x].key = job.key
                /\ [job EXCEPT !.at = x].qty = job.qty
  BY ExitsAssumption DEF Types, Idle
<1>4. stop \in [Keys -> {"none", "working", "done"}]
  BY DEF Types
<1>5. CASE ReachesBroker(job.key) /\ At(Scanned(job.key)) /\ UNCHANGED child
  BY <1>1, <1>2, <1>3, <1>4, <1>5 DEF ReachesBroker, At, Scanned
<1>6. CASE UNCHANGED <<stop, child>> /\ (IF Recovering THEN job' = Idle ELSE At("reject"))
  <2>1. CASE Recovering
    BY <1>1, <1>2, <1>3, <1>6, <2>1 DEF Recovering
  <2>2. CASE ~Recovering
    <3>1. job' = [job EXCEPT !.at = "reject"]
      BY <1>6, <2>2 DEF At
    <3>2. job'.at = "reject" /\ job'.key = job.key /\ job'.qty = job.qty /\ job.qty > 0
      BY <1>3, <2>2, <3>1 DEF Recovering
    <3> QED
      BY <1>1, <1>2, <1>6, <2>2, <3>2
  <2> QED
    BY <2>1, <2>2
<1>7. CASE /\ stop[job.key] = "none" /\ UNCHANGED stop
           /\ child' = [child EXCEPT ![job.key] = "rejected"]
           /\ IF Recovering THEN job' = Idle ELSE At("reject")
  <2>1. CASE Recovering
    BY <1>1, <1>2, <1>3, <1>7, <2>1 DEF Recovering
  <2>2. CASE ~Recovering
    <3>1. job' = [job EXCEPT !.at = "reject"]
      BY <1>7, <2>2 DEF At
    <3>2. job'.at = "reject" /\ job'.key = job.key /\ job'.qty = job.qty /\ job.qty > 0
      BY <1>3, <2>2, <3>1 DEF Recovering
    <3> QED
      BY <1>1, <1>2, <1>7, <2>2, <3>2
  <2> QED
    BY <2>1, <2>2
<1>8. CASE /\ stop[job.key] = "none" /\ At("recover") /\ (ReachesBroker(job.key) \/ UNCHANGED stop)
           /\ child' \in {child, [child EXCEPT ![job.key] = "unknown"]}
  BY <1>1, <1>2, <1>3, <1>8 DEF At, ReachesBroker
<1> QED
  BY <1>5, <1>6, <1>7, <1>8 DEF PlaceStop

\* What the second scan for the stop leaves the job in.
LEMMA RecoverStopFacts ==
  ASSUME Types, JobInv, RecoverStop
  PROVE  /\ job.at = "recover" /\ job.key \in Keys
         /\ UNCHANGED <<stored, child, flat, linked, failed, filled, net, stop, size, lapses>>
         /\ doubled' = {} => doubled = {}
         /\ job'.at \in {"idle", "record", "found", "reject"}
         /\ IF job'.at = "idle" THEN job.qty = 0 ELSE job'.key = job.key /\ job'.qty = job.qty
         /\ job'.at = "reject" => job.qty > 0 /\ (doubled' = {} => stop[job.key] = "none")
         /\ job'.at = "found" => stop[job.key] = "done"
         /\ job'.at = "record" => stop[job.key] # "none"
<1>1. job.at = "recover" /\ job.key \in Keys
  BY DEF RecoverStop, JobInv
<1>2. UNCHANGED <<stored, child, flat, linked, failed, filled, net, stop, size, lapses>>
  BY DEF RecoverStop, orders, broker
<1>3. /\ job.qty \in Nat /\ Idle.at = "idle"
      /\ \A x : /\ [job EXCEPT !.at = x].at = x /\ [job EXCEPT !.at = x].key = job.key
                /\ [job EXCEPT !.at = x].qty = job.qty
  BY ExitsAssumption DEF Types, Idle
<1>4. CASE stop[job.key] # "none" /\ At(Scanned(job.key)) /\ UNCHANGED doubled
  BY <1>1, <1>2, <1>3, <1>4 DEF At, Scanned
<1>5. CASE /\ Doubles(stop[job.key] # "none" /\ ~Recovering, "unknown_stop")
           /\ IF Recovering THEN job' = Idle ELSE At("reject")
  <2>1. CASE Recovering
    BY <1>1, <1>2, <1>3, <1>5, <2>1 DEF Recovering, Doubles
  <2>2. CASE ~Recovering
    <3>1. job' = [job EXCEPT !.at = "reject"]
      BY <1>5, <2>2 DEF At
    <3>2. job'.at = "reject" /\ job'.key = job.key /\ job'.qty = job.qty /\ job.qty > 0
      BY <1>3, <2>2, <3>1 DEF Recovering
    <3> QED
      BY <1>1, <1>2, <1>5, <2>2, <3>2 DEF Doubles
  <2> QED
    BY <2>1, <2>2
<1> QED
  BY <1>4, <1>5 DEF RecoverStop

\* Every step keeps what is known of the job.
LEMMA NextJob == Types /\ JobInv /\ ChildInv /\ [Next]_vars => JobInv'
<1> SUFFICES ASSUME Types, JobInv, ChildInv, [Next]_vars PROVE JobInv'
  OBVIOUS
<1> USE ExitsAssumption DEF JobInv, ChildInv, Types, Ahead, Terminal, Unplaced, Given,
   Placing, Idle,
        orders, broker, history
<1>1. CASE Elsewhere
  BY <1>1, ElsewhereFacts DEF counted
<1>2. CASE EntryFills
  BY <1>2, KeyFacts DEF EntryFills
<1>3. CASE StopTriggers
  BY <1>3 DEF StopTriggers, Working
<1>4. CASE PollFill
  BY <1>4, KeyFacts DEF PollFill, Start, Keys
<1>5. CASE UpdateStatus
  BY <1>5, KeyFacts DEF UpdateStatus, At, Doubles
<1>6. CASE ApplyFill
  <2>1. job.at = "apply" /\ UNCHANGED <<stored, child, flat, linked, filled, stop, size, doubled>>
    BY <1>6 DEF ApplyFill
  <2>2. job' = Idle \/ (job.key[1] # "poller" /\ job' = [job EXCEPT !.at = "submit"])
    BY <1>6 DEF ApplyFill
  <2>3. CASE job' = Idle
    BY <2>1, <2>3
  <2>4. CASE job.key[1] # "poller" /\ job' = [job EXCEPT !.at = "submit"]
    <3>1. Ahead
      BY <2>1, <2>4, KeyFacts
    <3>2. job'.at = "submit" /\ job'.key = job.key /\ job'.qty = job.qty
      BY <2>4
    <3> QED
      BY <2>1, <3>1, <3>2
  <2> QED
    BY <2>2, <2>3, <2>4
<1>7. CASE SubmitChild
  BY <1>7 DEF SubmitChild, At, StopDone
<1>8. CASE PlaceStop
  BY <1>8, PlaceStopFacts
<1>9. CASE RecoverStop
  BY <1>9, RecoverStopFacts
<1>10. CASE RecordChild
  BY <1>10 DEF RecordChild, At, GiveUp, StopDone, Recovering
<1>11. CASE LinkChild
  BY <1>11 DEF LinkChild, GiveUp, StopDone, Recovering
<1>12. CASE RejectChild
  BY <1>12 DEF RejectChild, At, Doubles
<1>13. CASE SubmitFlatten
  BY <1>13 DEF SubmitFlatten, At
<1>14. CASE PlaceFlatten
  BY <1>14 DEF PlaceFlatten, At
<1>15. CASE RecordFlatten
  BY <1>15 DEF RecordFlatten, At
<1>16. CASE MarkFailed
  BY <1>16 DEF MarkFailed, StopDone
<1>17. CASE PollChild
  BY <1>17 DEF PollChild, ToTell, ChildFills, Children
<1>18. CASE Crash
  BY <1>18 DEF Crash
<1>19. CASE ReconcileEntry
  <2>1. UNCHANGED <<stored, child, flat, linked, failed, filled, stop, size, doubled>>
    BY <1>19 DEF ReconcileEntry
  <2>2. job' = job \/ (filled > stored /\ Start("update", "startup"))
    BY <1>19 DEF ReconcileEntry
  <2>3. CASE job' = job
    BY <2>1, <2>3
  <2>4. CASE filled > stored /\ Start("update", "startup")
    BY <2>1, <2>4 DEF Start, Keys
  <2> QED
    BY <2>2, <2>3, <2>4
<1>20. CASE ReconcilePending
  BY <1>20 DEF ReconcilePending, Starting
<1>21. CASE ReconcileUnknown
  BY <1>21 DEF ReconcileUnknown, Starting
<1>22. CASE ReconcilePlaced
  BY <1>22 DEF ReconcilePlaced, ToTell, ChildFills, Children
<1>23. CASE SquareOff
  BY <1>23 DEF SquareOff, PlaceClose, Doubles
<1> QED
  BY <1>1, <1>2, <1>3, <1>4, <1>5, <1>6, <1>7, <1>8, <1>9, <1>10, <1>11, <1>12, <1>13,
     <1>14, <1>15, <1>16, <1>17, <1>18, <1>19, <1>20, <1>21, <1>22, <1>23 DEF Next,
     Process, Elsewhere

\* Every step keeps what is known of the child orders.
LEMMA NextChild == Types /\ JobInv /\ ChildInv /\ [Next]_vars => ChildInv'
<1> SUFFICES ASSUME Types, JobInv, ChildInv, [Next]_vars PROVE ChildInv'
  OBVIOUS
<1> USE ExitsAssumption DEF JobInv, ChildInv, Types, Ahead, Terminal, Unplaced, Given,
   Placing, Idle,
        orders, broker, history
<1>1. CASE Elsewhere
  BY <1>1, ElsewhereFacts DEF counted
<1>2. CASE EntryFills
  BY <1>2, KeyFacts DEF EntryFills
<1>3. CASE StopTriggers
  BY <1>3 DEF StopTriggers, Working
<1>4. CASE PollFill
  BY <1>4, KeyFacts DEF PollFill, Start, Keys
<1>5. CASE UpdateStatus
  BY <1>5, KeyFacts DEF UpdateStatus, At, Doubles
<1>6. CASE ApplyFill
  BY <1>6 DEF ApplyFill, At
<1>7. CASE SubmitChild
  BY <1>7 DEF SubmitChild, At, StopDone
<1>8. CASE PlaceStop
  BY <1>8, PlaceStopFacts
<1>9. CASE RecoverStop
  BY <1>9, RecoverStopFacts
<1>10. CASE RecordChild
  BY <1>10 DEF RecordChild, At, GiveUp, StopDone, Recovering
<1>11. CASE LinkChild
  BY <1>11 DEF LinkChild, GiveUp, StopDone, Recovering
<1>12. CASE RejectChild
  BY <1>12 DEF RejectChild, At, Doubles
<1>13. CASE SubmitFlatten
  BY <1>13 DEF SubmitFlatten, At
<1>14. CASE PlaceFlatten
  BY <1>14 DEF PlaceFlatten, At
<1>15. CASE RecordFlatten
  BY <1>15 DEF RecordFlatten, At
<1>16. CASE MarkFailed
  BY <1>16 DEF MarkFailed, StopDone
<1>17. CASE PollChild
  BY <1>17 DEF PollChild, ToTell, ChildFills, Children
<1>18. CASE Crash
  BY <1>18 DEF Crash
<1>19. CASE ReconcileEntry
  BY <1>19, KeyFacts DEF ReconcileEntry, Start, Keys
<1>20. CASE ReconcilePending
  BY <1>20 DEF ReconcilePending, Starting
<1>21. CASE ReconcileUnknown
  <2>1. PICK k \in Keys : /\ child[k] = "unknown" /\ job.at = "idle"
                          /\ \/ child' = child
                             \/ /\ stop[k] = "done" /\ child' = [child EXCEPT ![k] = "filled"]
                             \/ /\ stop[k] = "working" /\ child' = [child EXCEPT ![k] = "placed"]
    BY <1>21 DEF ReconcileUnknown, Starting
  <2>2. UNCHANGED <<stored, flat, linked, failed, filled, stop, size, job, history>>
    BY <1>21 DEF ReconcileUnknown
  <2> QED
    BY <2>1, <2>2
<1>22. CASE ReconcilePlaced
  BY <1>22 DEF ReconcilePlaced, ToTell, ChildFills, Children
<1>23. CASE SquareOff
  BY <1>23 DEF SquareOff, PlaceClose, Doubles
<1> QED
  BY <1>1, <1>2, <1>3, <1>4, <1>5, <1>6, <1>7, <1>8, <1>9, <1>10, <1>11, <1>12, <1>13,
     <1>14, <1>15, <1>16, <1>17, <1>18, <1>19, <1>20, <1>21, <1>22, <1>23 DEF Next,
     Process, Elsewhere

\* Every step keeps that each child is dealt with, unless something goes wrong for good.
LEMMA NextLapse == Types /\ JobInv /\ ChildInv /\ LapseInv /\ [Next]_vars => LapseInv'
<1> SUFFICES ASSUME Types, JobInv, ChildInv, LapseInv, [Next]_vars, Unharmed' PROVE LapseInv'
  BY DEF LapseInv
<1> USE ExitsAssumption DEF JobInv, ChildInv, LapseInv, Lost, Types, Ahead, Terminal,
   Unplaced, Given,
        Placing, Idle, orders, broker, history, Unharmed, Lapse
<1>1. CASE Elsewhere
  BY <1>1, ElsewhereFacts DEF counted
<1>2. CASE EntryFills
  BY <1>2, KeyFacts DEF EntryFills
<1>3. CASE StopTriggers
  BY <1>3 DEF StopTriggers, Working
<1>4. CASE PollFill
  BY <1>4, KeyFacts DEF PollFill, Start, Keys
<1>5. CASE UpdateStatus
  BY <1>5, KeyFacts DEF UpdateStatus, At, Doubles
<1>6. CASE ApplyFill
  BY <1>6 DEF ApplyFill, At
<1>7. CASE SubmitChild
  BY <1>7 DEF SubmitChild, At, StopDone
<1>8. CASE PlaceStop
  <2> SUFFICES ASSUME NEW k \in Keys, Lost(k)'
               PROVE  \/ failed' /\ flat'[k] \in {"placed", "filled"}
                      \/ /\ job'.key = k /\ job'.qty > 0
                         /\ job'.at \in {"place", "recover", "reject", "flatten", "sell", "sold"}
    OBVIOUS
  <2>1. job.at \in {"place", "recover"} /\ job.qty \in Nat /\ UNCHANGED <<failed, flat>> /\ Unharmed
    <3>1. job.at = "place" /\ UNCHANGED <<failed, flat, lapses>>
      BY <1>8, PlaceStopFacts
    <3> QED
      BY <3>1
  <2>2. Lost(k)
    BY <1>8, PlaceStopFacts
  <2>3. job'.at = "idle" => job.qty = 0
    BY <1>8, PlaceStopFacts
  <2>4. job'.at \in {"record", "found"} => job.key # k
    BY <1>8, PlaceStopFacts
  <2>5. job'.at \in {"record", "found", "reject", "recover"} => job'.key = job.key /\ job'.qty = job.qty
    BY <1>8, PlaceStopFacts
  <2>6. job'.at \in {"idle", "record", "found", "reject", "recover"}
    BY <1>8, PlaceStopFacts
  <2>7. (failed /\ flat[k] \in {"placed", "filled"}) \/ (job.key = k /\ job.qty > 0)
    BY <2>1, <2>2
  <2> QED
    BY <2>1, <2>3, <2>4, <2>5, <2>6, <2>7
<1>9. CASE RecoverStop
  <2> SUFFICES ASSUME NEW k \in Keys, Lost(k)'
               PROVE  \/ failed' /\ flat'[k] \in {"placed", "filled"}
                      \/ /\ job'.key = k /\ job'.qty > 0
                         /\ job'.at \in {"place", "recover", "reject", "flatten", "sell", "sold"}
    OBVIOUS
  <2>1. job.at \in {"place", "recover"} /\ job.qty \in Nat /\ UNCHANGED <<failed, flat>> /\ Unharmed
    <3>1. job.at = "recover" /\ UNCHANGED <<failed, flat, lapses>>
      BY <1>9, RecoverStopFacts
    <3>2. job.qty \in Nat
      BY DEF JobInv
    <3> QED
      BY <3>1, <3>2
  <2>2. Lost(k)
    BY <1>9, RecoverStopFacts
  <2>3. job'.at = "idle" => job.qty = 0
    BY <1>9, RecoverStopFacts
  <2>4. job'.at \in {"record", "found"} => job.key # k
    BY <1>9, RecoverStopFacts
  <2>5. job'.at \in {"record", "found", "reject", "recover"} => job'.key = job.key /\ job'.qty = job.qty
    BY <1>9, RecoverStopFacts
  <2>6. job'.at \in {"idle", "record", "found", "reject", "recover"}
    BY <1>9, RecoverStopFacts
  <2>7. (failed /\ flat[k] \in {"placed", "filled"}) \/ (job.key = k /\ job.qty > 0)
    BY <2>1, <2>2
  <2> QED
    BY <2>1, <2>3, <2>4, <2>5, <2>6, <2>7
<1>10. CASE RecordChild
  BY <1>10 DEF RecordChild, At, GiveUp, StopDone, Recovering
<1>11. CASE LinkChild
  BY <1>11 DEF LinkChild, GiveUp, StopDone, Recovering
<1>12. CASE RejectChild
  BY <1>12 DEF RejectChild, At, Doubles
<1>13. CASE SubmitFlatten
  BY <1>13 DEF SubmitFlatten, At
<1>14. CASE PlaceFlatten
  BY <1>14 DEF PlaceFlatten, At
<1>15. CASE RecordFlatten
  BY <1>15 DEF RecordFlatten, At
<1>16. CASE MarkFailed
  BY <1>16 DEF MarkFailed, StopDone
<1>17. CASE PollChild
  BY <1>17 DEF PollChild, ToTell, ChildFills, Children
<1>18. CASE Crash
  BY <1>18 DEF Crash
<1>19. CASE ReconcileEntry
  <2>1. UNCHANGED <<stored, child, flat, linked, failed, filled, stop, size>>
    BY <1>19 DEF ReconcileEntry
  <2>2. job.at = "idle" /\ Unharmed
    BY <1>19 DEF ReconcileEntry, Starting
  <2> QED
    BY <2>1, <2>2
<1>20. CASE ReconcilePending
  BY <1>20 DEF ReconcilePending, Starting
<1>21. CASE ReconcileUnknown
  <2>1. PICK k \in Keys : /\ child[k] = "unknown" /\ job.at = "idle"
                          /\ \/ child' = child
                             \/ /\ stop[k] = "done" /\ child' = [child EXCEPT ![k] = "filled"]
                             \/ /\ stop[k] = "working" /\ child' = [child EXCEPT ![k] = "placed"]
    BY <1>21 DEF ReconcileUnknown, Starting
  <2>2. UNCHANGED <<stored, flat, linked, failed, filled, stop, size, job, history>>
    BY <1>21 DEF ReconcileUnknown
  <2> QED
    BY <2>1, <2>2
<1>22. CASE ReconcilePlaced
  <2>1. PICK c \in Children : /\ child' = child \/ (child[c[2]] = "placed" /\ child' = [child EXCEPT ![c[2]] = "filled"])
                              /\ flat' = flat \/ (flat[c[2]] = "placed" /\ flat' = [flat EXCEPT ![c[2]] = "filled"])
    BY <1>22 DEF ReconcilePlaced, ToTell, ChildFills, Children
  <2>2. job.at = "idle" /\ UNCHANGED <<stored, linked, failed, filled, stop, size, job, history>>
    BY <1>22 DEF ReconcilePlaced, Starting
  <2> QED
    BY <2>1, <2>2
<1>23. CASE SquareOff
  BY <1>23 DEF SquareOff, PlaceClose, Doubles
<1> QED
  BY <1>1, <1>2, <1>3, <1>4, <1>5, <1>6, <1>7, <1>8, <1>9, <1>10, <1>11, <1>12, <1>13,
     <1>14, <1>15, <1>16, <1>17, <1>18, <1>19, <1>20, <1>21, <1>22, <1>23 DEF Next,
     Process, Elsewhere

-----------------------------------------------------------------------------
(* What is bought, covered and sold *)

\* Sets of children are finite, and their quantities add up.
LEMMA Sizes ==
  ASSUME Types, NEW A, A \subseteq Keys
  PROVE  /\ IsFiniteSet(A) /\ SumOver(size, A) \in Nat
         /\ \A k \in A : size[k] \in Nat /\ size[k] \in Int
         /\ \A B : B \subseteq A => SumOver(size, B) \in Nat /\ SumOver(size, B) <= SumOver(size, A)
<1>1. IsFiniteSet({"poller", "startup"}) /\ IsFiniteSet(1..Qty)
  <2>1. IsFiniteSet({"poller"} \cup {"startup"})
    BY FS_Singleton, FS_Union
  <2>2. {"poller"} \cup {"startup"} = {"poller", "startup"}
    OBVIOUS
  <2> QED
    BY <2>1, <2>2, FS_Interval, ExitsAssumption
<1>2. IsFiniteSet(Keys)
  BY <1>1, FS_Product DEF Keys
<1>3. IsFiniteSet(A) /\ \A k \in A : size[k] \in Nat
  BY <1>2, FS_Subset DEF Types
<1> QED
  BY <1>3, SumPart

\* The sums of the invariant have their type.
LEMMA MoneyTypes ==
  ASSUME Types
  PROVE  /\ SumOver(size, Keys) \in Nat /\ SumOver(size, Sold) \in Nat /\ SumOver(size, Done) \in Nat
         /\ SumOver(size, Sold) <= SumOver(size, Keys)
         /\ ToCover \in Nat /\ filled \in Nat /\ stored \in Nat /\ net \in Int
<1>1. Sold \subseteq Keys /\ Done \subseteq Keys
  BY DEF Sold, Done
<1> HIDE DEF Sold, Done
<1>2. /\ SumOver(size, Keys) \in Nat /\ SumOver(size, Sold) \in Nat /\ SumOver(size, Done) \in Nat
      /\ SumOver(size, Sold) <= SumOver(size, Keys)
  BY <1>1, Sizes
<1>3. ToCover \in Nat /\ filled \in Nat /\ stored \in Nat /\ net \in Int
  BY ExitsAssumption DEF Types, ToCover
<1> QED
  BY <1>2, <1>3

\* A step that sells and covers nothing, or that is noted as having gone wrong.
LEMMA MoneyKept ==
  ASSUME Types, Types', MoneyInv, doubled = {}, UNCHANGED <<filled, stored, size, net>>, Sold \subseteq Sold',
         ToCover' <= ToCover, Unharmed' => Unharmed /\ Sold' = Sold /\ ToCover' = ToCover
  PROVE  MoneyInv'
<1> DEFINE all == SumOver(size, Keys)
           sold == SumOver(size, Sold)
           more == SumOver(size, Sold')
<1>1. /\ all \in Nat /\ sold \in Nat /\ more \in Nat /\ sold <= more
      /\ (Sold' = Sold => more = sold)
  <2>1. Sold' \subseteq Keys
    BY DEF Sold
  <2> HIDE DEF Sold
  <2> QED
    BY <2>1, Sizes
<1>2. ToCover \in Nat /\ ToCover' \in Nat /\ filled \in Nat /\ stored \in Nat /\ net \in Int
  BY ExitsAssumption DEF Types, ToCover
<1>3. /\ all + ToCover <= stored /\ filled - sold <= net
      /\ Unharmed => all + ToCover = stored /\ net = filled - sold
  BY DEF MoneyInv
<1>4. SumOver(size', Keys) = all /\ SumOver(size', Sold') = more
  OBVIOUS
<1> HIDE DEF all, sold, more
<1> DEFINE a == ToCover
           b == ToCover'
<1>5. stored' = stored /\ filled' = filled /\ net' = net /\ b <= a
  OBVIOUS
<1>6. Unharmed' => all + a = stored /\ b = a /\ net = filled - sold /\ more = sold
  BY <1>1, <1>3
<1>7. a \in Nat /\ b \in Nat /\ all + a <= stored
  BY <1>2, <1>3
<1> HIDE DEF a, b
<1>8. all + b <= stored' /\ filled' - more <= net' /\ (Unharmed' => all + b = stored' /\ net' = filled' - more)
  BY <1>1, <1>2, <1>3, <1>5, <1>6, <1>7
<1> QED
  BY <1>4, <1>8 DEF MoneyInv, b

\* A child whose quantity is sold, by its stop or by the flatten order.
LEMMA SoldOne ==
  ASSUME Types, Types', MoneyInv, doubled = {}, NEW k \in Keys, UNCHANGED <<filled, stored, size>>,
         net' = net - size[k], Unharmed' => Unharmed, k \notin Sold, Sold' = Sold \cup {k}, ToCover' = ToCover
  PROVE  MoneyInv'
<1> DEFINE all == SumOver(size, Keys)
           sold == SumOver(size, Sold)
           soldNow == SumOver(size, Sold \cup {k})
<1>0. Sold \subseteq Keys
  BY DEF Sold
<1> HIDE DEF Sold
<1>1. /\ all \in Nat /\ sold \in Nat /\ size[k] \in Nat
      /\ IsFiniteSet(Sold) /\ (\A x \in Sold : size[x] \in Int) /\ size[k] \in Int
  BY <1>0, Sizes
<1>2. soldNow = sold + size[k]
  BY <1>1, SumAdd
<1>3. ToCover \in Nat /\ filled \in Nat /\ stored \in Nat /\ net \in Int
  BY ExitsAssumption DEF Types, ToCover
<1>4. /\ all + ToCover <= stored /\ filled - sold <= net
      /\ Unharmed => all + ToCover = stored /\ net = filled - sold
  BY DEF MoneyInv
<1>5. SumOver(size', Keys) = all /\ SumOver(size', Sold') = soldNow
  OBVIOUS
<1> HIDE DEF all, sold, soldNow
<1>6. filled' - soldNow <= net' /\ (Unharmed' => net' = filled' - soldNow)
  BY <1>1, <1>2, <1>3, <1>4
<1> QED
  BY <1>4, <1>5, <1>6 DEF MoneyInv

\* A child that is new gets its quantity: all sums but the whole stay as they are.
LEMMA SizeAdded ==
  ASSUME Types, Types', NEW k \in Keys, size[k] = 0, NEW q \in 0..Qty, size' = [size EXCEPT ![k] = q]
  PROVE  /\ SumOver(size', Keys) = SumOver(size, Keys) + q
         /\ \A A \in SUBSET Keys : k \notin A => SumOver(size', A) = SumOver(size, A)
<1> DEFINE g == size'
<1>1. /\ IsFiniteSet(Keys) /\ \A x \in Keys : size[x] \in Int
      /\ g[k] = q /\ q \in Int /\ \A x \in Keys \ {k} : g[x] = size[x]
  BY Sizes, ExitsAssumption DEF Types
<1>2. SumOver(size, Keys) \in Nat
  BY Sizes
<1> HIDE DEF g
<1>3. /\ SumOver(g, Keys) = (SumOver(size, Keys) - size[k]) + g[k]
      /\ \A A \in SUBSET Keys : k \notin A => SumOver(g, A) = SumOver(size, A)
  BY <1>1, SumChange
<1>4. SumOver(g, Keys) = SumOver(size, Keys) + q
  BY <1>1, <1>2, <1>3
<1>5. SumOver(size', Keys) = SumOver(size, Keys) + q
  BY <1>4 DEF g
<1> QED
  BY <1>3, <1>5 DEF g

\* Every step keeps the account of what is bought, covered and sold.
LEMMA NextMoney ==
  Types /\ Types' /\ JobInv /\ ChildInv /\ MoneyInv /\ [Next]_vars => MoneyInv'
<1> SUFFICES ASSUME Types, Types', JobInv, ChildInv, MoneyInv, [Next]_vars, doubled' = {} PROVE MoneyInv'
  BY DEF MoneyInv
<1>a. ToCover \in Nat /\ ToCover' \in Nat
  BY MoneyTypes DEF Types, ToCover
<1>h. doubled = {} /\ (Unharmed' => Unharmed)
  BY HistoryGrows DEF Unharmed
<1>b. ASSUME UNCHANGED <<filled, stored, size, net, Sold, ToCover>> PROVE MoneyInv'
  BY <1>a, <1>b, <1>h, MoneyKept
<1> USE DEF orders, broker
<1>1. CASE Elsewhere
  BY <1>1, <1>b, ElsewhereFacts DEF counted, Sold, ToCover, Ahead
<1>2. CASE EntryFills
  <2>1. UNCHANGED <<stored, size, lapses>> /\ Sold' = Sold /\ ToCover' = ToCover
    BY <1>2 DEF EntryFills, history, Sold, ToCover, Ahead
  <2>2. PICK n \in (filled + 1)..Qty : filled' = n /\ net' = net + (n - filled)
    BY <1>2 DEF EntryFills
  <2>3. SumOver(size, Sold) \in Nat /\ SumOver(size, Keys) \in Nat
        /\ filled \in Nat /\ stored \in Nat /\ net \in Int
    BY MoneyTypes
  <2>4. SumOver(size', Sold') = SumOver(size, Sold) /\ SumOver(size', Keys) = SumOver(size, Keys)
    BY <2>1
  <2> HIDE DEF Sold
  <2> QED
    BY <1>h, <2>1, <2>2, <2>3, <2>4 DEF MoneyInv
<1>3. CASE StopTriggers
  <2>1. PICK k \in Working : stop' = [stop EXCEPT ![k] = "done"] /\ net' = net - size[k]
    BY <1>3 DEF StopTriggers
  <2>2. UNCHANGED <<filled, stored, size, flat, job>>
    BY <1>3 DEF StopTriggers
  <2>3. k \in Keys /\ stop[k] = "working"
    BY DEF Working
  <2>4. Sold' = Sold \cup {k} /\ ToCover' = ToCover
    BY <2>1, <2>2, <2>3 DEF Sold, Types, ToCover, Ahead
  <2>5. k \notin Sold
    BY <1>h, <2>3 DEF Sold, ChildInv
  <2> QED
    BY <1>h, <2>1, <2>2, <2>3, <2>4, <2>5, SoldOne
<1>4. CASE PollFill \/ ReconcileEntry \/ ReconcilePending
  <2>1. UNCHANGED <<filled, stored, size, stop, flat, net>> /\ job.at = "idle" /\ job'.at \in {"idle", "update", "place"}
    <3>1. CASE PollFill
      BY <3>1 DEF PollFill, Start
    <3>2. CASE ReconcileEntry
      <4>1. job' = job \/ Start("update", "startup")
        BY <3>2 DEF ReconcileEntry
      <4> QED
        BY <3>2, <4>1 DEF ReconcileEntry, Starting, Start
    <3>3. CASE ReconcilePending
      BY <3>3 DEF ReconcilePending, Starting
    <3> QED
      BY <1>4, <3>1, <3>2, <3>3
  <2>2. UNCHANGED <<Sold, ToCover>>
    BY <2>1 DEF Sold, ToCover, Ahead
  <2> QED
    BY <1>b, <2>1, <2>2
<1>5. CASE UpdateStatus
  <2>1. job.at = "update" /\ stored' = job.key[2] /\ UNCHANGED <<filled, size, stop, flat, net>>
    <3>1. PICK written \in BOOLEAN : Doubles(~written, "status") /\ stored' = IF written THEN job.key[2] ELSE stored
      BY <1>5 DEF UpdateStatus
    <3>2. written
      BY <3>1 DEF Doubles
    <3> QED
      BY <1>5, <3>1, <3>2 DEF UpdateStatus
  <2>2. job.qty = job.key[2] - stored /\ job.key[2] <= filled /\ job.key \in Keys /\ job.key[2] \in Int
    BY <2>1, KeyFacts DEF JobInv
  <2>3. Sold' = Sold
    BY <1>5, <2>1 DEF Sold, UpdateStatus, At, Types
  <2>4. ToCover = 0
    BY <2>1 DEF ToCover, Ahead
  <2>5. ToCover' = job.qty
    <3>1. job'.qty = job.qty /\ job'.key = job.key
          /\ job'.at = IF job.key[1] = "poller" THEN "submit" ELSE "apply"
      BY <1>5 DEF UpdateStatus, At, Types
    <3>2. Ahead'
      BY <2>2, <3>1, KeyFacts DEF Ahead
    <3> QED
      BY <3>1, <3>2 DEF ToCover
  <2>6. SumOver(size, Sold) \in Nat /\ SumOver(size, Keys) \in Nat
        /\ filled \in Nat /\ stored \in Nat /\ net \in Int
    BY MoneyTypes
  <2>7. SumOver(size', Sold') = SumOver(size, Sold) /\ SumOver(size', Keys) = SumOver(size, Keys)
    BY <2>1, <2>3
  <2> HIDE DEF Sold, ToCover
  <2> QED
    BY <1>h, <2>1, <2>2, <2>3, <2>4, <2>5, <2>6, <2>7 DEF MoneyInv
<1>6. CASE ApplyFill
  <2>1. /\ job.at = "apply" /\ UNCHANGED <<filled, stored, size, stop, flat, net>>
        /\ job' = IF job.key[1] = "poller" THEN Idle ELSE [job EXCEPT !.at = "submit"]
    BY <1>6 DEF ApplyFill
  <2>2. Sold' = Sold
    BY <2>1 DEF Sold, Idle, Types
  <2>3. ToCover' = ToCover
    <3>1. job.key[1] \in {"poller", "startup"}
      BY <2>1, KeyFacts DEF JobInv
    <3> QED
      BY <2>1, <3>1 DEF ToCover, Ahead, Idle, Types
  <2> QED
    BY <1>b, <2>1, <2>2, <2>3
<1>7. CASE SubmitChild
  <2>1. PICK ok \in BOOLEAN :
          /\ lapses' = IF ok THEN lapses ELSE lapses \cup {"write"}
          /\ IF ok /\ child[job.key] = "none"
             THEN /\ size' = [size EXCEPT ![job.key] = job.qty]
                  /\ job' = [job EXCEPT !.at = "place"]
             ELSE job' = StopDone /\ UNCHANGED size
    BY <1>7 DEF SubmitChild, Lapse, At
  <2>2. job.at = "submit" /\ UNCHANGED <<filled, stored, stop, flat, net>>
    BY <1>7 DEF SubmitChild
  <2>3. job.key \in Keys /\ child[job.key] = "none" /\ size[job.key] = 0 /\ stop[job.key] = "none"
        /\ flat[job.key] = "none"
    BY <1>h, <2>2 DEF JobInv, ChildInv, Ahead
  <2>4. job'.at \in {"place", "apply", "idle"} /\ (job'.at = "apply" => job'.key[1] # "startup")
    BY <2>1 DEF StopDone, Idle, Types
  <2>5. Sold' = Sold /\ ToCover' = 0 /\ ToCover = job.qty
    BY <2>2, <2>4 DEF Sold, ToCover, Ahead
  <2>6. CASE ~ok
    <3>1. ~Unharmed' /\ UNCHANGED size
      BY <2>1, <2>6 DEF Unharmed
    <3> QED
      BY <1>a, <1>h, <2>2, <2>5, <3>1, MoneyKept
  <2>7. CASE ok
    <3>1. lapses' = lapses /\ size' = [size EXCEPT ![job.key] = job.qty] /\ job.qty \in 0..Qty
      BY <2>1, <2>3, <2>7 DEF Types
    <3>2. job.key \notin Sold /\ Sold \in SUBSET Keys
      BY <2>3 DEF Sold
    <3> HIDE DEF Sold, ToCover
    <3>3. SumOver(size', Keys) = SumOver(size, Keys) + job.qty /\ SumOver(size', Sold) = SumOver(size, Sold)
      BY <2>3, <3>1, <3>2, SizeAdded
    <3>4. SumOver(size', Sold') = SumOver(size, Sold)
      BY <2>5, <3>3
    <3>5. SumOver(size, Sold) \in Nat /\ SumOver(size, Keys) \in Nat
          /\ filled \in Nat /\ stored \in Nat /\ net \in Int
      BY MoneyTypes
    <3> QED
      BY <1>h, <2>2, <2>5, <3>1, <3>3, <3>4, <3>5 DEF MoneyInv
  <2> QED
    BY <2>1, <2>6, <2>7
<1>8. CASE PlaceStop
  <2>1. /\ job.at = "place" /\ UNCHANGED <<filled, stored, size, flat, net>>
        /\ job'.at \in {"idle", "record", "found", "reject", "recover"}
        /\ (stop' = stop \/ (stop[job.key] = "none" /\ stop' = [stop EXCEPT ![job.key] = "working"]))
    BY <1>8, PlaceStopFacts
  <2>2. Sold' = Sold /\ ToCover' = ToCover
    BY <2>1 DEF Sold, ToCover, Ahead, Types
  <2> QED
    BY <1>b, <2>1, <2>2
<1>9. CASE RecoverStop
  <2>1. /\ job.at = "recover" /\ UNCHANGED <<filled, stored, size, flat, net, stop>>
        /\ job'.at \in {"idle", "record", "found", "reject"}
    BY <1>9, RecoverStopFacts
  <2>2. Sold' = Sold /\ ToCover' = ToCover
    BY <2>1 DEF Sold, ToCover, Ahead
  <2> QED
    BY <1>b, <2>1, <2>2
<1>10. CASE RecordChild \/ LinkChild \/ MarkFailed
  <2>1. /\ UNCHANGED <<filled, stored, size, stop, net, flat>>
        /\ job.at \in {"record", "found", "link", "mark"} /\ (job' \in {Idle, StopDone} \/ At("link"))
    BY <1>10 DEF RecordChild, LinkChild, MarkFailed, GiveUp
  <2>2. job'.at \in {"link", "idle"} \/ (job'.at = "apply" /\ job'.key[1] = "poller")
    BY <2>1 DEF StopDone, Idle, Types, At
  <2>3. Sold' = Sold /\ ToCover' = ToCover
    BY <2>1, <2>2 DEF Sold, ToCover, Ahead
  <2> QED
    BY <1>b, <2>1, <2>3
<1>11. CASE RejectChild \/ RecordFlatten
  <2>1. /\ UNCHANGED <<filled, stored, size, stop, net>>
        /\ job.at \in {"reject", "sold"} /\ job'.at \in {"flatten", "mark"}
    BY <1>11 DEF RejectChild, RecordFlatten, At, Types
  <2>2. flat' = flat \/ (flat[job.key] # "none" /\ flat' = [flat EXCEPT ![job.key] = "placed"])
    BY <1>11 DEF RejectChild, RecordFlatten, JobInv
  <2>3. Sold' = Sold /\ ToCover' = ToCover
    BY <2>1, <2>2 DEF Sold, ToCover, Ahead, Types
  <2> QED
    BY <1>b, <2>1, <2>3
<1>12. CASE SubmitFlatten
  <2>1. PICK ok \in BOOLEAN :
          /\ flat' = IF ok THEN [flat EXCEPT ![job.key] = "pending"] ELSE flat
          /\ job' = [job EXCEPT !.at = IF ok THEN "sell" ELSE "mark"]
    BY <1>12 DEF SubmitFlatten, At
  <2>2. job.at = "flatten" /\ UNCHANGED <<filled, stored, size, stop, net>>
    BY <1>12 DEF SubmitFlatten
  <2>3. flat[job.key] = "none"
    <3>1. job.qty > 0
      BY <2>2 DEF JobInv, Placing
    <3> QED
      BY <2>2, <3>1 DEF JobInv
  <2>4. Sold' = Sold
    BY <2>1, <2>2, <2>3 DEF Sold, Types
  <2>5. ToCover' = ToCover
    BY <2>1, <2>2 DEF ToCover, Ahead, Types
  <2> QED
    BY <1>b, <2>1, <2>2, <2>4, <2>5
<1>13. CASE PlaceFlatten
  <2>1. PICK answered \in BOOLEAN, sold \in BOOLEAN :
          /\ answered => sold
          /\ net' = IF sold THEN net - job.qty ELSE net
          /\ job' = [job EXCEPT !.at = IF answered THEN "sold" ELSE "mark"]
          /\ lapses' = IF ~answered THEN lapses \cup {"flatten"} ELSE lapses
    BY <1>13 DEF PlaceFlatten, At, Lapse
  <2>2. job.at = "sell" /\ UNCHANGED <<filled, stored, size, stop, flat>>
    BY <1>13 DEF PlaceFlatten
  <2>3. /\ job.key \in Keys /\ size[job.key] = job.qty /\ flat[job.key] # "none"
        /\ stop[job.key] = "none"
    BY <1>h, <2>2 DEF JobInv, ChildInv
  <2>4. job'.at \in {"sold", "mark"}
    BY <2>1 DEF Types
  <2>5. Sold' = Sold \cup {job.key} /\ ToCover' = ToCover
    BY <2>2, <2>3, <2>4 DEF Sold, ToCover, Ahead
  <2>6. job.key \notin Sold
    BY <2>2, <2>3 DEF Sold
  <2>7. CASE sold
    BY <1>h, <2>1, <2>2, <2>3, <2>5, <2>6, <2>7, SoldOne
  <2>8. CASE ~sold
    <3>1. net' = net /\ ~Unharmed'
      BY <2>1, <2>8 DEF Unharmed
    <3> QED
      BY <1>a, <1>h, <2>2, <2>5, <3>1, MoneyKept
  <2> QED
    BY <2>7, <2>8
<1>14. CASE PollChild \/ ReconcilePlaced \/ ReconcileUnknown
  <2>1. UNCHANGED <<filled, stored, size, stop, net, job>>
    BY <1>14 DEF PollChild, ReconcilePlaced, ReconcileUnknown
  <2>2. \A k \in Keys : (flat'[k] # "none") = (flat[k] # "none")
    <3>1. flat' = flat \/ \E c \in Children : ToTell(c) /\ c[1] # "stop" /\ flat' = [flat EXCEPT ![c[2]] = "filled"]
      BY <1>14 DEF PollChild, ReconcilePlaced, ReconcileUnknown, ChildFills
    <3> QED
      BY <3>1 DEF ToTell, Types
  <2>3. Sold' = Sold /\ ToCover' = ToCover
    BY <2>1, <2>2 DEF Sold, ToCover, Ahead
  <2> QED
    BY <1>b, <2>1, <2>3
<1>15. CASE Crash
  <2>1. UNCHANGED <<filled, stored, size, stop, flat, net>> /\ job'.at = "idle"
        /\ (Unharmed' => job.at = "idle")
    BY <1>15 DEF Crash, Idle, Lapse, Unharmed
  <2>2. Sold \subseteq Sold' /\ ToCover' = 0
    BY <2>1 DEF Sold, ToCover, Ahead
  <2>3. job.at = "idle" => Sold' = Sold /\ ToCover = 0
    BY <2>1 DEF Sold, ToCover, Ahead
  <2> QED
    BY <1>a, <1>h, <2>1, <2>2, <2>3, MoneyKept
<1>16. CASE SquareOff
  <2>1. UNCHANGED <<filled, stored, size, stop, flat, job>>
    BY <1>16 DEF SquareOff
  <2>2. net' = net
    BY <1>16 DEF SquareOff, PlaceClose, Doubles
  <2>3. Sold' = Sold /\ ToCover' = ToCover
    BY <2>1 DEF Sold, ToCover, Ahead
  <2> QED
    BY <1>b, <2>1, <2>2, <2>3
<1> QED
  BY <1>1, <1>2, <1>3, <1>4, <1>5, <1>6, <1>7, <1>8, <1>9, <1>10, <1>11, <1>12, <1>13,
     <1>14, <1>15, <1>16
     DEF Next, Process, Elsewhere

\* Every step up to the square-off keeps that what the stops sold is gone.
LEMMA NextStopsSell == Types /\ Types' /\ JobInv /\ ChildInv /\ StopsSell /\ [Next]_vars => StopsSell'
<1> SUFFICES ASSUME Types, Types', JobInv, ChildInv, StopsSell, [Next]_vars, "square_off" \notin doubled'
             PROVE  net' <= filled' - SumOver(size', Done')
  BY DEF StopsSell
<1>a. net <= filled - SumOver(size, Done)
  BY HistoryGrows DEF StopsSell
<1>b. filled \in Int /\ net \in Int /\ net' \in Int /\ SumOver(size, Done) \in Nat /\ job.qty \in Nat
  BY MoneyTypes, ExitsAssumption DEF Types
<1>c. ASSUME UNCHANGED <<filled, size, Done>>, net' <= net PROVE net' <= filled' - SumOver(size', Done')
  <2>1. SumOver(size', Done') = SumOver(size, Done)
    BY <1>c
  <2> HIDE DEF Done
  <2> QED
    BY <1>a, <1>b, <1>c, <2>1
<1>d. UNCHANGED <<filled, size, stop, net>> => net' <= filled' - SumOver(size', Done')
  BY <1>b, <1>c DEF Done
<1> USE DEF orders, broker
<1>1. CASE Elsewhere
  BY <1>1, <1>d, ElsewhereFacts DEF counted
<1>2. CASE EntryFills
  <2>1. UNCHANGED <<size, stop>>
    BY <1>2 DEF EntryFills
  <2>2. PICK n \in (filled + 1)..Qty : filled' = n /\ net' = net + (n - filled)
    BY <1>2 DEF EntryFills
  <2>3. SumOver(size', Done') = SumOver(size, Done)
    BY <2>1 DEF Done
  <2> HIDE DEF Done
  <2> QED
    BY <1>a, <1>b, <2>2, <2>3
<1>3. CASE StopTriggers
  <2>1. PICK k \in Working : stop' = [stop EXCEPT ![k] = "done"] /\ net' = net - size[k]
    BY <1>3 DEF StopTriggers
  <2>2. UNCHANGED <<filled, size>>
    BY <1>3 DEF StopTriggers
  <2>3. k \in Keys /\ k \notin Done /\ Done' = Done \cup {k} /\ Done \subseteq Keys
    BY <2>1 DEF Working, Done, Types
  <2> HIDE DEF Done
  <2>4. IsFiniteSet(Done) /\ (\A x \in Done : size[x] \in Int) /\ size[k] \in Int
    BY <2>3, Sizes
  <2>5. SumOver(size, Done \cup {k}) = SumOver(size, Done) + size[k]
    BY <2>3, <2>4, SumAdd
  <2>6. SumOver(size', Done') = SumOver(size, Done) + size[k]
    BY <2>2, <2>3, <2>5
  <2> QED
    BY <1>a, <1>b, <2>1, <2>2, <2>4, <2>6
<1>4. CASE SubmitChild
  <2>1. UNCHANGED <<filled, stop, net>> /\ job.at = "submit" /\ job.key \in Keys
    BY <1>4 DEF SubmitChild, JobInv
  <2>2. size' = size \/ (child[job.key] = "none" /\ size' = [size EXCEPT ![job.key] = job.qty])
    BY <1>4 DEF SubmitChild
  <2>3. CASE size' = size
    BY <1>d, <2>1, <2>3
  <2>4. CASE child[job.key] = "none" /\ size' = [size EXCEPT ![job.key] = job.qty]
    <3>1. size[job.key] = 0 /\ stop[job.key] = "none"
      BY <2>1, <2>4 DEF ChildInv
    <3>2. Done' = Done /\ job.key \notin Done /\ Done \in SUBSET Keys /\ job.qty \in 0..Qty
      BY <2>1, <3>1 DEF Done, Types
    <3> HIDE DEF Done
    <3>3. SumOver(size', Done) = SumOver(size, Done)
      BY <2>1, <2>4, <3>1, <3>2, SizeAdded
    <3>4. SumOver(size', Done') = SumOver(size, Done)
      BY <3>2, <3>3
    <3> QED
      BY <1>a, <1>b, <2>1, <3>4
  <2> QED
    BY <2>2, <2>3, <2>4
<1>5. CASE PlaceStop
  <2>1. UNCHANGED <<filled, size, net>>
        /\ (stop' = stop \/ (stop[job.key] = "none" /\ stop' = [stop EXCEPT ![job.key] = "working"]))
    BY <1>5, PlaceStopFacts
  <2>2. Done' = Done
    BY <2>1 DEF Done, Types
  <2> QED
    BY <1>b, <1>c, <2>1, <2>2
<1>6. CASE PlaceFlatten
  <2>1. UNCHANGED <<filled, size, stop>> /\ (net' = net \/ net' = net - job.qty)
    BY <1>6 DEF PlaceFlatten
  <2>2. Done' = Done
    BY <2>1 DEF Done
  <2> QED
    BY <1>b, <1>c, <2>1, <2>2
<1>7. CASE PollFill \/ UpdateStatus \/ ApplyFill \/ RecoverStop \/ RecordChild \/ LinkChild
  BY <1>7, <1>d DEF PollFill, UpdateStatus, ApplyFill, RecoverStop, RecordChild, LinkChild
<1>8. CASE RejectChild \/ SubmitFlatten \/ RecordFlatten \/ MarkFailed \/ PollChild \/ Crash
  BY <1>8, <1>d DEF RejectChild, SubmitFlatten, RecordFlatten, MarkFailed, PollChild,
     Crash
<1>9. CASE ReconcileEntry \/ ReconcilePending \/ ReconcileUnknown \/ ReconcilePlaced
  BY <1>9, <1>d DEF ReconcileEntry, ReconcilePending, ReconcileUnknown, ReconcilePlaced
<1>10. CASE SquareOff
  BY <1>10, <1>d DEF SquareOff, PlaceClose, Doubles
<1> QED
  BY <1>1, <1>2, <1>3, <1>4, <1>5, <1>6, <1>7, <1>8, <1>9, <1>10 DEF Next, Process,
     Elsewhere

-----------------------------------------------------------------------------
(* The theorems *)

\* The invariant holds at first.
LEMMA InitInv == Init => IInv
<1> SUFFICES ASSUME Init PROVE IInv
  OBVIOUS
<1>1. Types /\ RecordTypes /\ FlagTypes
  BY InitTypes
<1>2. job.at = "idle" /\ (\A k \in Keys : child[k] = "none" /\ stop[k] = "none" /\ flat[k] = "none" /\ size[k] = 0)
  BY DEF Init, Idle
<1>3. filled = 0 /\ stored = 0 /\ net = 0 /\ linked = None
  BY DEF Init
<1>4. JobInv /\ ChildInv /\ LapseInv
  BY <1>2, <1>3 DEF JobInv, ChildInv, LapseInv, Lost, Unplaced, Ahead, Placing
<1>5. Sold = {} /\ Done = {} /\ ToCover = 0
  BY <1>2 DEF Sold, Done, ToCover, Ahead
<1>6. SumOver(size, Keys) = 0
  BY <1>1, <1>2, Sizes, SumZero
<1> HIDE DEF Sold, Done, ToCover
<1>7. SumOver(size, Sold) = 0 /\ SumOver(size, Done) = 0
  BY <1>5, SumEmpty
<1>8. MoneyInv /\ StopsSell
  BY <1>3, <1>5, <1>6, <1>7 DEF MoneyInv, StopsSell
<1> QED
  BY <1>1, <1>4, <1>8 DEF IInv

\* Every step keeps the invariant.
LEMMA NextInv == IInv /\ [Next]_vars => IInv'
<1> SUFFICES ASSUME IInv, [Next]_vars PROVE IInv'
  OBVIOUS
<1>1. Types'
  BY NextTypes DEF IInv, RecordTypes
<1>2. RecordTypes' /\ FlagTypes'
  BY NextRecords, NextFlags DEF IInv
<1>3. JobInv' /\ ChildInv' /\ LapseInv'
  BY NextJob, NextChild, NextLapse DEF IInv
<1>4. MoneyInv' /\ StopsSell'
  BY <1>1, NextMoney, NextStopsSell DEF IInv
<1> QED
  BY <1>1, <1>2, <1>3, <1>4 DEF IInv

\* Every reachable state satisfies the invariant.
LEMMA Invariance == Spec => []IInv
  BY InitInv, NextInv, PTL DEF Spec

\* A long position is never sold twice over, by whatever stops, flatten orders, crashes, failed
\* writes and restarts, but for a stop that was given up and is at the broker all the same, a
\* status that was not written, and the square-off (NeverOverExits).
THEOREM NotSoldTwice == Spec => []NeverOverExits
<1>1. IInv => NeverOverExits
  <2> SUFFICES ASSUME IInv, doubled = {} PROVE ~(net < 0)
    BY DEF NeverOverExits
  <2>1. filled - SumOver(size, Sold) <= net /\ SumOver(size, Keys) + ToCover <= stored /\ stored <= filled
    BY DEF IInv, MoneyInv, JobInv
  <2>2. /\ SumOver(size, Keys) \in Nat /\ SumOver(size, Sold) \in Nat /\ SumOver(size, Sold) <= SumOver(size, Keys)
        /\ ToCover \in Nat /\ filled \in Nat /\ stored \in Nat /\ net \in Int
    BY MoneyTypes DEF IInv
  <2> HIDE DEF Sold, ToCover
  <2> QED
    BY <2>1, <2>2
<1> QED
  BY <1>1, Invariance, PTL

\* The types of the run's property.
LEMMA TypesImply == IInv => TypeOK
  BY DEF IInv, Types, RecordTypes, FlagTypes, TypeOK

\* A child has sold, or would still sell, or is of no quantity: the sets are apart, and together
\* they have all that was covered.
LEMMA Apart ==
  ASSUME IInv, job.at = "idle", Unharmed, doubled = {}
  PROVE  SumOver(size, Keys) = SumOver(size, Working) + SumOver(size, Sold)
<1> DEFINE W == Working
           S == Sold
           B == W \cup S
           R == Keys \ B
<1>1. W \subseteq Keys /\ S \subseteq Keys /\ R \subseteq Keys /\ B \subseteq Keys
  BY DEF Working, Sold
<1>2. W \cap S = {}
  BY DEF Working, Sold, IInv, ChildInv
<1>3. \A k \in R : size[k] = 0
  <2> SUFFICES ASSUME NEW k \in Keys, stop[k] \notin {"working", "done"}, flat[k] = "none" PROVE size[k] = 0
    BY DEF Working, Sold
  <2>1. stop[k] = "none"
    BY DEF IInv, Types
  <2>2. ~Lost(k)
    BY DEF IInv, LapseInv
  <2>3. child[k] \notin {"placed", "filled"}
    BY <2>1 DEF IInv, ChildInv
  <2>4. child[k] = "none"
    BY <2>1, <2>2, <2>3 DEF IInv, Types, Terminal, Unplaced, Lost
  <2> QED
    BY <2>4 DEF IInv, ChildInv
<1>4. B \cup R = Keys /\ B \cap R = {}
  BY <1>1
<1> HIDE DEF W, S, R
<1>5. /\ IsFiniteSet(W) /\ IsFiniteSet(S) /\ IsFiniteSet(R) /\ IsFiniteSet(B)
      /\ (\A k \in B : size[k] \in Int) /\ (\A k \in B \cup R : size[k] \in Int)
      /\ SumOver(size, B) \in Nat
  BY <1>1, <1>4, Sizes DEF IInv
<1>6. SumOver(size, B) = SumOver(size, W) + SumOver(size, S)
  BY <1>2, <1>5, SumUnion
<1> HIDE DEF B
<1>7. SumOver(size, B \cup R) = SumOver(size, B) + SumOver(size, R)
  BY <1>4, <1>5, SumUnion
<1>8. SumOver(size, R) = 0
  BY <1>3, <1>5, SumZero
<1>9. SumOver(size, Keys) = SumOver(size, W) + SumOver(size, S)
  BY <1>4, <1>5, <1>6, <1>7, <1>8
<1> QED
  BY <1>9 DEF W, S

\* What stops are working for, as a sum.
LEMMA CoveredSum == Covered = SumOver(size, Working)
  BY DEF Covered, SumOver

\* Between fills, and as long as nothing went wrong for good, stops cover what is held.
LEMMA Coverage == IInv => FullyCovered
<1> SUFFICES ASSUME IInv, Settled, Unharmed
    PROVE  /\ doubled = {} => net = Covered
           /\ \A k \in Keys : child[k] = "rejected" => failed /\ flat[k] \in {"placed", "filled"}
  BY DEF FullyCovered
<1>1. job.at = "idle" /\ filled = stored
  BY DEF Settled
<1>2. ASSUME doubled = {} PROVE net = Covered
  <2>1. net = filled - SumOver(size, Sold) /\ SumOver(size, Keys) + ToCover = stored
    BY <1>2 DEF IInv, MoneyInv
  <2>2. ToCover = 0
    BY <1>1 DEF ToCover, Ahead
  <2>3. SumOver(size, Keys) = SumOver(size, Working) + SumOver(size, Sold)
    BY <1>1, <1>2, Apart
  <2>4. SumOver(size, Keys) \in Nat /\ SumOver(size, Sold) \in Nat /\ SumOver(size, Working) \in Nat
    <3>1. Working \subseteq Keys
      BY DEF Working
    <3>2. SumOver(size, Working) \in Nat
      BY <3>1, Sizes DEF IInv
    <3> QED
      BY <3>2, MoneyTypes DEF IInv
  <2> HIDE DEF Sold, Working, ToCover
  <2> QED
    BY <1>1, <2>1, <2>2, <2>3, <2>4, CoveredSum
<1>3. \A k \in Keys : child[k] = "rejected" => failed /\ flat[k] \in {"placed", "filled"}
  BY <1>1 DEF IInv, LapseInv, Lost
<1> QED
  BY <1>2, <1>3

\* A filled entry that is linked to a stop of its whole quantity is covered by it, or closed.
LEMMA Orphans == IInv => OrphansAreReported
<1> SUFFICES ASSUME IInv, Settled, stored = Qty, ~Orphan, "square_off" \notin doubled,
                    \A k \in Keys : child[k] # "none" => size[k] = Qty
             PROVE  net <= Covered
  BY DEF OrphansAreReported
<1>1. linked \in Keys /\ child[linked] = "placed"
  BY DEF Orphan, IInv, ChildInv, Types, Terminal
<1>2. size[linked] = Qty /\ stop[linked] \in {"working", "done"}
  BY <1>1 DEF IInv, ChildInv, Types
<1>3. net <= filled - SumOver(size, Done) /\ filled \in 0..Qty /\ net \in Int /\ Qty \in Nat
  BY ExitsAssumption DEF IInv, StopsSell, Types
<1>4. /\ SumOver(size, Done) \in Nat /\ SumOver(size, Working) \in Nat
      /\ linked \in Done => Qty <= SumOver(size, Done)
      /\ linked \in Working => Qty <= SumOver(size, Working)
  <2>1. ASSUME NEW A, A \subseteq Keys
        PROVE  SumOver(size, A) \in Nat /\ (linked \in A => Qty <= SumOver(size, A))
    <3>1. /\ IsFiniteSet(A) /\ SumOver(size, A) \in Nat /\ (\A k \in A : size[k] \in Int)
          /\ SumOver(size, A \ {linked}) \in Nat
      BY <2>1, Sizes DEF IInv
    <3>2. linked \in A => SumOver(size, A) = size[linked] + SumOver(size, A \ {linked})
      BY <3>1, SumSplit
    <3> QED
      BY <1>2, <1>3, <3>1, <3>2
  <2>2. Done \subseteq Keys /\ Working \subseteq Keys
    BY DEF Done, Working
  <2> HIDE DEF Done, Working
  <2> QED
    BY <2>1, <2>2
<1>5. linked \in Done \/ linked \in Working
  BY <1>1, <1>2 DEF Done, Working
<1> HIDE DEF Done, Working
<1> QED
  BY <1>3, <1>4, <1>5, CoveredSum

\* What is held is covered by stops or flattened, and the orphan detector overlooks no
\* entry, up to the named lapses (HeldIsProtected).
THEOREM HeldIsSafe == Spec => []HeldIsProtected
<1>1. IInv => HeldIsProtected
  BY TypesImply, Coverage, Orphans DEF HeldIsProtected
<1> QED
  BY <1>1, Invariance, PTL

=============================================================================
