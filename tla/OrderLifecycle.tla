-------------------------- MODULE OrderLifecycle --------------------------
(***************************************************************************)
(* What the orders table promises its readers: each signal owns at most    *)
(* one order row; the row starts as PENDING and from then on its status    *)
(* only moves along the transition table, whichever of the consumer, the   *)
(* fill poller, the kill switch or the startup reconciliation writes it,   *)
(* and whatever stale value that writer had read.                          *)
(***************************************************************************)
EXTENDS OrderStatuses

CONSTANT Signals

VARIABLE status

Init == status = [s \in Signals |-> NoRow]

Submit(s) ==
  /\ status[s] = NoRow
  /\ status' = [status EXCEPT ![s] = "PENDING"]

Move(s) ==
  /\ status[s] \in OrderStatus
  /\ \E new \in ValidTransitions[status[s]] :
        status' = [status EXCEPT ![s] = new]

Next == \E s \in Signals : Submit(s) \/ Move(s)

Spec == Init /\ [][Next]_status
=============================================================================
