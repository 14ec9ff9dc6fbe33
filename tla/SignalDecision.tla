--------------------------- MODULE SignalDecision ---------------------------
(***************************************************************************)
(* What the risk engine promises those who read signals.approved and the   *)
(* RISK_DECISION items: a signal is decided for at most once, under an id  *)
(* that never changes; what is approved is never taken back; every         *)
(* approval, however often it is sent, carries that id; and a decision is  *)
(* closed, so that later copies of the signal are passed over in silence,  *)
(* only when its approval is out.                                          *)
(***************************************************************************)
EXTENDS Naturals

CONSTANT Signals

VARIABLES
  decision,   \* the item of each signal
  approved    \* the pairs (signal, risk_decision_id) that were sent

Undecided == [id |-> 0, status |-> "none"]

Init == decision = [s \in Signals |-> Undecided] /\ approved = {}

\* The id is new to this signal, and any number.
Decide(s) ==
  /\ decision[s] = Undecided
  /\ decision'[s].id \in Nat \ {0}
  /\ decision' = [decision EXCEPT ![s] = [id |-> decision'[s].id, status |-> "PENDING"]]
  /\ UNCHANGED approved

Approve(s) ==
  /\ decision[s] # Undecided
  /\ approved' = approved \cup {<<s, decision[s].id>>}
  /\ UNCHANGED decision

Close(s) ==
  /\ decision[s].status = "PENDING" /\ <<s, decision[s].id>> \in approved
  /\ decision' = [decision EXCEPT ![s].status = "PUBLISHED"]
  /\ UNCHANGED approved

Next == \E s \in Signals : Decide(s) \/ Approve(s) \/ Close(s)

Spec == Init /\ [][Next]_<<decision, approved>>
=============================================================================
