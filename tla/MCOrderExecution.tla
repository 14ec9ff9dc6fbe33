------------------------- MODULE MCOrderExecution -------------------------
(* The instance of OrderExecution: one signal, whose order meets every      *)
(* interleaving of the consumer, the poller, the kill switch and the faults. *)
EXTENDS OrderExecution

CONSTANT s1

OneSignal == {s1}
=============================================================================
