--------------------------- MODULE OrderStatuses ---------------------------
(***************************************************************************)
(* The order lifecycle of execution_engine/orders: the statuses of         *)
(* OrderStatus (order.py), the transition table and its check              *)
(* (order_manager.py), and the translation of the broker's own status      *)
(* words (zerodha_broker.py).  "NONE" stands for "no row exists".          *)
(***************************************************************************)

OrderStatus ==
  {"PENDING", "ACK_UNKNOWN", "PLACED", "PARTIALLY_FILLED",
   "FILLED", "CANCELLED", "REJECTED"}

NoRow == "NONE"

RowStatus == OrderStatus \cup {NoRow}

TerminalStatus == {"FILLED", "CANCELLED", "REJECTED"}

OpenStatus == OrderStatus \ TerminalStatus

\* _VALID_TRANSITIONS
ValidTransitions ==
  [p \in OrderStatus |->
     CASE p = "PENDING"          -> OrderStatus \ {"PENDING"}
       [] p = "ACK_UNKNOWN"      -> {"PLACED", "PARTIALLY_FILLED"} \cup TerminalStatus
       [] p = "PLACED"           -> {"PARTIALLY_FILLED"} \cup TerminalStatus
       [] p = "PARTIALLY_FILLED" -> {"FILLED", "CANCELLED"}
       [] OTHER                  -> {}]

\* Repeating a status is legal (an "idempotent metadata refresh").
IsValidStatusTransition(prev, new) ==
  /\ prev \in OrderStatus
  /\ new \in OrderStatus
  /\ new = prev \/ new \in ValidTransitions[prev]

\* What Kite reports for an order.
KiteStatus == {"OPEN", "PARTIALLY", "COMPLETE", "CANCELLED", "REJECTED"}

LiveKite == {"OPEN", "PARTIALLY"}

\* Mutant: any word that mentions a fill counts as FILLED.
TranslateStatusPartialIsFilled(kite) ==
  CASE kite \in {"COMPLETE", "PARTIALLY"} -> "FILLED"
    [] kite = "CANCELLED"                 -> "CANCELLED"
    [] kite = "REJECTED"                  -> "REJECTED"
    [] OTHER                              -> "PLACED"

\* Kite has no status of its own for a partial fill that the table knows:
\* everything that is not final is PLACED, whatever its filled quantity.
TranslateStatus(kite) ==
  CASE kite = "COMPLETE"  -> "FILLED"
    [] kite = "CANCELLED" -> "CANCELLED"
    [] kite = "REJECTED"  -> "REJECTED"
    [] OTHER              -> "PLACED"
=============================================================================
