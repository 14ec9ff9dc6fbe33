--------------------------- MODULE SignalPipeline ---------------------------
(***************************************************************************)
(* The way of a signal from the strategy engine to an approval.  The        *)
(* strategy engine publishes on signals.pending; the AI engine copies every *)
(* signal to signals.enriched; the risk engine reads signals.enriched, or   *)
(* signals.pending while its watchdog has switched the enrichment off, so   *)
(* that both copies of a signal can reach it.  It reserves an approval in   *)
(* DynamoDB, publishes it on signals.approved and marks it published.  What *)
(* fails goes to a retry topic, from which the replayer puts it back, or to *)
(* the dead letters.                                                        *)
(*                                                                          *)
(* A topic is a sequence; a consumer has a position, which a poll moves,    *)
(* and a committed offset, from which it starts again after a crash.        *)
(***************************************************************************)
EXTENDS Integers, Sequences, FiniteSets

CONSTANTS
  Signals,
  MaxRetryAttempts, \* KafkaFailurePublisher._max_retry_attempts
  LagThreshold, Window, RecoveryWindow,   \* of the EnrichmentWatchdog
  MaxFaults,        \* bound: failed requests and crashes
  MaxToggles        \* bound: changes of the kill switch and of the operator's override

ASSUME PipelineAssumption ==
  /\ IsFiniteSet(Signals)
  /\ MaxRetryAttempts \in Nat /\ MaxFaults \in Nat /\ MaxToggles \in Nat
  /\ LagThreshold \in Nat \ {0} /\ Window \in Nat \ {0} /\ RecoveryWindow \in Nat \ {0}

VARIABLES
  malformed,          \* signals whose event fails the schema check
  pending, enriched,  \* signals.pending and signals.enriched: sequences of [sig, n]
  retry,              \* the retry topics: a sequence of [sig, n, src]
  dlq,                \* signals with a dead letter
  pos, com,           \* position and committed offset of each consumer
  p,                  \* what each consumer does with the event it holds
  resv,               \* RISK_DECISION items: the reservation of each signal
  approved,           \* signals.approved: the pairs (signal, risk_decision_id) on it
  rejected,           \* signals with a logged rejection
  expired,            \* signals past their expires_at
  halted,             \* what KillSwitchCache.is_active() returns
  use,                \* EnrichmentState.use_enriched
  count,              \* its consecutive breaches, or clear checks in fallback
  manual,             \* the operator's override (enrichment_required = FALSE)
  faults, toggles,    \* what is left of the bounds
  dropped             \* history: signals a Kafka failure hit outside the retry protocol

kafka == <<pending, enriched, retry, dlq>>
offsets == <<pos, com>>
decisions == <<resv, approved, rejected>>
world == <<malformed, expired, halted, toggles>>
watch == <<use, count, manual>>
budget == <<faults, dropped>>
vars == <<kafka, offsets, p, decisions, world, watch, budget>>

\* The AI engine, the two loops of the risk engine, and its retry replayer.
Consumers == {"ai", "enr", "pen", "rep"}
Loops == {"enr", "pen"}
Topic(c) == CASE c = "enr" -> enriched [] c = "rep" -> retry [] OTHER -> pending
None == 0
Idle == [pc |-> "idle", sig |-> "none", n |-> 0, id |-> None]
NoResv == [id |-> None, status |-> "none"]

\* The uuid4 of a decision, as a number no decision in sight has.
FreshId ==
  LET used == {resv[s].id : s \in Signals} \cup {a[2] : a \in approved} \cup {p[c].id : c \in Loops}
  IN CHOOSE i \in 1 .. Cardinality(used) + 1 : i \notin used

TypeOK ==
  /\ dlq \subseteq Signals /\ rejected \subseteq Signals /\ dropped \subseteq Signals
  /\ expired \subseteq Signals
  /\ \A c \in Consumers : 0 <= com[c] /\ com[c] <= pos[c] /\ pos[c] <= Len(Topic(c))
  /\ \A c \in Consumers : p[c].pc # "idle" => pos[c] > 0 /\ p[c].sig \in Signals \ malformed
  /\ \A s \in Signals : resv[s].status \in {"none", "PENDING", "PUBLISHED"}
                        /\ (resv[s].id = None <=> resv[s].status = "none")
  /\ \A a \in approved : a[1] \in Signals \ malformed /\ a[2] # None
  /\ \A i \in DOMAIN pending : pending[i].n \in 0 .. MaxRetryAttempts
  /\ \A i \in DOMAIN enriched : enriched[i].n \in 0 .. MaxRetryAttempts
  /\ count \in 0 .. (IF use THEN Window ELSE RecoveryWindow) - 1

\* RiskEngineService.start with every group at the head of its topic.
Init ==
  /\ malformed \in SUBSET Signals
  /\ pending = <<>> /\ enriched = <<>> /\ retry = <<>> /\ dlq = {}
  /\ pos = [c \in Consumers |-> 0] /\ com = pos
  /\ p = [c \in Consumers |-> Idle]
  /\ resv = [s \in Signals |-> NoResv]
  /\ approved = {} /\ rejected = {}
  /\ expired = {} /\ halted = FALSE
  /\ use = TRUE /\ count = 0 /\ manual = FALSE
  /\ faults = MaxFaults /\ toggles = MaxToggles
  /\ dropped = {}

Fault == faults > 0 /\ faults' = faults - 1
Toggle == toggles > 0 /\ toggles' = toggles - 1
Goto(c, pc) == p' = [p EXCEPT ![c].pc = pc]
Done(c) == p' = [p EXCEPT ![c] = Idle]
Move(c) == pos' = [pos EXCEPT ![c] = @ + 1]
Commit(c) == com' = [com EXCEPT ![c] = pos'[c]]
Waiting(c) == p[c].pc = "idle" /\ pos[c] < Len(Topic(c))
Event(c) == Topic(c)[pos[c] + 1]

-----------------------------------------------------------------------------
(* The strategy engine, the clock and the kill switch *)

\* _build_signal_event: a first delivery has no retry header.
SignalEvent(s) == [sig |-> s, n |-> 0]

\* KafkaSignalPublisher.publish: the id is a hash of the signal, so that the same
\* signal published twice is one signal.
PublishPending(s) ==
  /\ \A i \in DOMAIN pending : pending[i].sig # s
  /\ pending' = Append(pending, SignalEvent(s))
  /\ UNCHANGED <<enriched, retry, dlq, offsets, p, decisions, world, watch, budget>>

Expire(s) ==
  /\ s \notin expired /\ Toggle /\ \E i \in DOMAIN pending : pending[i].sig = s
  /\ expired' = expired \cup {s}
  /\ UNCHANGED <<kafka, offsets, p, decisions, malformed, halted, watch, budget>>

ToggleHalt ==
  /\ Toggle /\ halted' = ~halted
  /\ UNCHANGED <<kafka, offsets, p, decisions, malformed, expired, watch, budget>>

-----------------------------------------------------------------------------
(* The AI engine: poll, enrich, produce, commit *)

\* _parse_message of the AI engine: a malformed event is committed and forgotten; if the
\* commit fails, a later one passes it.
AiForget ==
  /\ Waiting("ai") /\ Event("ai").sig \in malformed
  /\ Move("ai")
  /\ \/ Commit("ai") /\ UNCHANGED budget
     \/ Fault /\ UNCHANGED <<com, dropped>>
  /\ UNCHANGED <<kafka, p, decisions, world, watch>>

\* enrich() returns a degraded enrichment rather than fail.  The retry header of the
\* event is not passed on.
Enrich(s) == SignalEvent(s)

AiPublish ==
  LET s == Event("ai").sig
  IN /\ Waiting("ai") /\ s \notin malformed
     /\ Move("ai")
     /\ enriched' = Append(enriched, Enrich(s))
     /\ p' = [p EXCEPT !["ai"] = [Idle EXCEPT !.pc = "commit", !.sig = s]]
     /\ UNCHANGED <<pending, retry, dlq, com, decisions, world, watch, budget>>

\* produce() refused the event: the offset stays, but the next commit passes it.  An
\* event that is queued and then not delivered is committed all the same.
AiPublishFails ==
  LET s == Event("ai").sig
  IN /\ Waiting("ai") /\ s \notin malformed /\ Fault
     /\ Move("ai") /\ dropped' = dropped \cup {s}
     /\ \/ p' = [p EXCEPT !["ai"] = [Idle EXCEPT !.pc = "commit", !.sig = s]]
        \/ p' = p
     /\ UNCHANGED <<kafka, com, decisions, world, watch>>

AiCommit ==
  /\ p["ai"].pc = "commit"
  /\ com' = [com EXCEPT !["ai"] = pos["ai"]] /\ Done("ai")
  /\ UNCHANGED <<kafka, pos, decisions, world, watch, budget>>

\* The commit raised: the offset stays until a later commit passes it.
AiCommitFails ==
  /\ p["ai"].pc = "commit" /\ Fault /\ Done("ai")
  /\ UNCHANGED <<kafka, offsets, decisions, world, watch, dropped>>

AiCrash ==
  /\ Fault /\ pos["ai"] # com["ai"]
  /\ pos' = [pos EXCEPT !["ai"] = com["ai"]] /\ Done("ai")
  /\ UNCHANGED <<kafka, com, decisions, world, watch, dropped>>

-----------------------------------------------------------------------------
(* EnrichmentWatchdog._check_once *)

\* _measure_lag_sync: how far the AI engine's commits are behind signals.pending.
MeasureLag == Len(pending) - com["ai"]

ActivateFallback == use' = FALSE /\ count' = 0
ActivateRecovery == use' = TRUE /\ count' = 0

WatchdogOverride ==
  /\ manual /\ use
  /\ ActivateFallback
  /\ UNCHANGED <<kafka, offsets, p, decisions, world, manual, budget>>

WatchdogEnriched ==
  /\ ~manual /\ use
  /\ \/ MeasureLag >= LagThreshold /\ count + 1 >= Window /\ ActivateFallback
     \/ MeasureLag >= LagThreshold /\ count + 1 < Window /\ count' = count + 1 /\ use' = use
     \/ MeasureLag < LagThreshold /\ count' = 0 /\ use' = use
  /\ UNCHANGED <<kafka, offsets, p, decisions, world, manual, budget>>

WatchdogFallback ==
  /\ ~manual /\ ~use
  /\ \/ MeasureLag = 0 /\ count + 1 >= RecoveryWindow /\ ActivateRecovery
     \/ MeasureLag = 0 /\ count + 1 < RecoveryWindow /\ count' = count + 1 /\ use' = use
     \/ MeasureLag > 0 /\ count' = 0 /\ use' = use
  /\ UNCHANGED <<kafka, offsets, p, decisions, world, manual, budget>>

\* An operator sets or clears enrichment_required.
ToggleManual ==
  /\ Toggle /\ manual' = ~manual
  /\ UNCHANGED <<kafka, offsets, p, decisions, malformed, expired, halted, use, count, budget>>

-----------------------------------------------------------------------------
(* The failure topics *)

\* _next_retry_attempt: the header of the event counts its earlier attempts.
NextRetryAttempt(c) == p[c].n + 1

\* publish_retry: the attempt after the last goes to the dead letters.
RouteRetry(c) ==
  IF NextRetryAttempt(c) > MaxRetryAttempts
  THEN dlq' = dlq \cup {p[c].sig} /\ retry' = retry
  ELSE /\ retry' = Append(retry, [sig |-> p[c].sig, n |-> NextRetryAttempt(c), src |-> c])
       /\ dlq' = dlq

RouteDlq(c) == dlq' = dlq \cup {p[c].sig} /\ retry' = retry

\* Routing that is refused, or queued and never delivered.
RouteLost(c) ==
  /\ Fault /\ UNCHANGED <<retry, dlq>>
  /\ dropped' = dropped \cup {p[c].sig}

-----------------------------------------------------------------------------
(* The two processing loops of the risk engine *)

\* The loop of signals.enriched runs while the enrichment is used, the other one
\* while it is not; an event that is held is finished in any case.
Polls(c) == (c = "enr") = use /\ Waiting(c)

\* _parse_message of the pending consumer: committed once its dead letter is queued.
PenForget ==
  LET s == Event("pen").sig
  IN /\ Polls("pen") /\ s \in malformed /\ Move("pen")
     /\ \/ dlq' = dlq \cup {s} /\ Commit("pen") /\ UNCHANGED budget
        \/ Fault /\ dlq' = dlq \cup {s} /\ UNCHANGED <<com, dropped>>
        \/ Fault /\ dropped' = dropped \cup {s} /\ UNCHANGED <<dlq, com>>
     /\ UNCHANGED <<pending, enriched, retry, p, decisions, world, watch>>

\* What a reservation leads to: an approval that was not published yet is published
\* again under its own id, with no look at the expiry or at the kill switch.
WithReservation(c, m, r) ==
  p' = [p EXCEPT ![c] = [sig |-> m.sig, n |-> m.n, id |-> r.id,
                         pc |-> IF r.status = "PENDING" THEN "publish" ELSE "commit"]]

\* The poll, _get_risk_decision_reservation, the expiry, and validate_signal with its
\* only look at the kill switch; its validators (module RiskRules) approve or reject.
Take(c) ==
  LET m == Event(c)  s == m.sig
      to(pc, id) == p' = [p EXCEPT ![c] = [sig |-> s, n |-> m.n, id |-> id, pc |-> pc]]
  IN /\ Polls(c) /\ s \notin malformed /\ Move(c)
     /\ \/ resv[s] # NoResv /\ WithReservation(c, m, resv[s]) /\ rejected' = rejected
        \/ /\ resv[s] = NoResv /\ s \in expired
           /\ rejected' = rejected \cup {s} /\ to("expired", None)
        \/ /\ resv[s] = NoResv /\ s \notin expired
           /\ rejected' = rejected \cup {s} /\ to("commit", None)
        \/ /\ resv[s] = NoResv /\ s \notin expired /\ ~halted
           /\ to("reserve", FreshId) /\ rejected' = rejected
     /\ UNCHANGED <<kafka, com, resv, approved, world, watch, budget>>

\* The read of the reservation fails.
TakeFails(c) ==
  LET m == Event(c)
  IN /\ Polls(c) /\ m.sig \notin malformed /\ Move(c) /\ Fault
     /\ p' = [p EXCEPT ![c] = [sig |-> m.sig, n |-> m.n, id |-> None, pc |-> "failed"]]
     /\ UNCHANGED <<kafka, com, decisions, world, watch, dropped>>

\* The dead letter of an expired signal: the enriched loop commits whether or not it
\* could be queued, the pending loop only if it could.
ExpiredRouted(c) ==
  /\ p[c].pc = "expired"
  /\ RouteDlq(c) /\ Goto(c, "commit")
  /\ UNCHANGED <<pending, enriched, offsets, decisions, world, watch, budget>>

ExpiredUnrouted(c) ==
  /\ p[c].pc = "expired" /\ RouteLost(c)
  /\ IF c = "enr" THEN Goto(c, "commit") ELSE Done(c)
  /\ UNCHANGED <<pending, enriched, offsets, decisions, world, watch>>

\* Mutant: the put has no condition.
ReserveAlways(c) ==
  LET s == p[c].sig
  IN /\ p[c].pc = "reserve"
     /\ resv' = [resv EXCEPT ![s] = [id |-> p[c].id, status |-> "PENDING"]] /\ Goto(c, "publish")
     /\ UNCHANGED <<kafka, offsets, approved, rejected, world, watch, budget>>

\* _reserve_risk_decision: a put on the condition that no item exists; the loser of the
\* race goes on with the winner's item.
Reserve(c) ==
  LET s == p[c].sig
  IN /\ p[c].pc = "reserve"
     /\ IF resv[s] = NoResv
        THEN resv' = [resv EXCEPT ![s] = [id |-> p[c].id, status |-> "PENDING"]] /\ Goto(c, "publish")
        ELSE resv' = resv /\ WithReservation(c, p[c], resv[s])
     /\ UNCHANGED <<kafka, offsets, approved, rejected, world, watch, budget>>

\* The put fails, or is stored and its answer lost.
ReserveFails(c) ==
  LET s == p[c].sig
  IN /\ p[c].pc = "reserve" /\ Fault /\ Goto(c, "failed")
     /\ \/ resv' = resv
        \/ resv[s] = NoResv /\ resv' = [resv EXCEPT ![s] = [id |-> p[c].id, status |-> "PENDING"]]
     /\ UNCHANGED <<kafka, offsets, approved, rejected, world, watch, dropped>>

\* KafkaApprovedPublisher.publish waits for the delivery report.
Publish(c) ==
  /\ p[c].pc = "publish"
  /\ approved' = approved \cup {<<p[c].sig, p[c].id>>}
  /\ Goto(c, "mark")
  /\ UNCHANGED <<kafka, offsets, resv, rejected, world, watch, budget>>

\* Not delivered, or delivered after the timeout.
PublishFails(c) ==
  /\ p[c].pc = "publish" /\ Fault /\ Goto(c, "failed")
  /\ approved' \in {approved, approved \cup {<<p[c].sig, p[c].id>>}}
  /\ UNCHANGED <<kafka, offsets, resv, rejected, world, watch, dropped>>

\* _mark_risk_decision_published, on the condition that the item has this id.
MarkPublished(c) ==
  LET s == p[c].sig
  IN /\ p[c].pc = "mark"
     /\ IF resv[s].id = p[c].id
        THEN resv' = [resv EXCEPT ![s].status = "PUBLISHED"] /\ Goto(c, "commit")
        ELSE resv' = resv /\ Goto(c, "failed")
     /\ UNCHANGED <<kafka, offsets, approved, rejected, world, watch, budget>>

MarkFails(c) ==
  /\ p[c].pc = "mark" /\ Fault /\ Goto(c, "failed")
  /\ UNCHANGED <<kafka, offsets, decisions, world, watch, dropped>>

\* Mutant: the offset of a failed event is committed with no retry.
FailedForgotten(c) ==
  /\ p[c].pc = "failed" /\ Goto(c, "commit")
  /\ UNCHANGED <<kafka, offsets, decisions, world, watch, budget>>

\* The exception handler: publish_retry, then a commit of its own.
FailedRouted(c) ==
  /\ p[c].pc = "failed"
  /\ RouteRetry(c) /\ Goto(c, "routed")
  /\ UNCHANGED <<pending, enriched, offsets, decisions, world, watch, budget>>

\* The enriched loop does not look at the answer; the pending loop raises and leaves
\* the offset, which the commit of a later signal passes.
FailedUnrouted(c) ==
  /\ p[c].pc = "failed" /\ RouteLost(c)
  /\ IF c = "enr" THEN Goto(c, "routed") ELSE Done(c)
  /\ UNCHANGED <<pending, enriched, offsets, decisions, world, watch>>

LoopCommit(c) ==
  /\ p[c].pc \in {"commit", "routed"}
  /\ com' = [com EXCEPT ![c] = pos[c]] /\ Done(c)
  /\ UNCHANGED <<kafka, pos, decisions, world, watch, budget>>

\* The commit raised: like any failure it leads to the exception handler; the commit of the
\* handler itself leaves the offset, which the commit of a later signal passes.
CommitFails(c) ==
  /\ p[c].pc \in {"commit", "routed"} /\ Fault
  /\ IF p[c].pc = "commit" THEN Goto(c, "failed") ELSE Done(c)
  /\ UNCHANGED <<kafka, offsets, decisions, world, watch, dropped>>

-----------------------------------------------------------------------------
(* KafkaRetryReplayer *)

\* Mutant: the replayer knows no source topic but signals.pending.
ReplayPendingOnly ==
  LET e == Event("rep")
  IN /\ Waiting("rep") /\ e.src = "pen" /\ Move("rep")
     /\ pending' = Append(pending, [sig |-> e.sig, n |-> e.n])
     /\ p' = [p EXCEPT !["rep"] = [Idle EXCEPT !.pc = "commit", !.sig = e.sig]]
     /\ UNCHANGED <<enriched, dlq, retry, com, decisions, world, watch, budget>>

\* _handle_envelope: an expired payload (_is_stale) goes to the dead letters, any other
\* back to the topic it came from, with its attempt in a header.
Replay ==
  LET e == Event("rep")
      m == [sig |-> e.sig, n |-> e.n]
  IN /\ Waiting("rep") /\ Move("rep")
     /\ \/ /\ e.sig \in expired
           /\ dlq' = dlq \cup {e.sig} /\ UNCHANGED <<pending, enriched>>
        \/ /\ e.sig \notin expired /\ e.src = "enr"
           /\ enriched' = Append(enriched, m) /\ UNCHANGED <<pending, dlq>>
        \/ /\ e.sig \notin expired /\ e.src = "pen"
           /\ pending' = Append(pending, m) /\ UNCHANGED <<enriched, dlq>>
     /\ p' = [p EXCEPT !["rep"] = [Idle EXCEPT !.pc = "commit", !.sig = e.sig]]
     /\ UNCHANGED <<retry, com, decisions, world, watch, budget>>

\* The flush timed out: no commit, and the position is past the envelope.
ReplayFails ==
  /\ Waiting("rep") /\ Fault /\ Move("rep")
  /\ dropped' = dropped \cup {Event("rep").sig}
  /\ UNCHANGED <<kafka, com, p, decisions, world, watch>>

\* The end of poll_once.
ReplayCommit ==
  /\ p["rep"].pc = "commit"
  /\ com' = [com EXCEPT !["rep"] = pos["rep"]] /\ Done("rep")
  /\ UNCHANGED <<kafka, pos, decisions, world, watch, budget>>

\* The envelope is replayed and stays uncommitted: a restart replays it again.
ReplayCommitFails ==
  /\ p["rep"].pc = "commit" /\ Fault /\ Done("rep")
  /\ UNCHANGED <<kafka, offsets, decisions, world, watch, dropped>>

\* The risk engine restarts: its loops and its replayer start from their commits.
RiskCrash ==
  /\ Fault
  /\ pos' = [com EXCEPT !["ai"] = pos["ai"]]
  /\ p' = [c \in Consumers |-> IF c = "ai" THEN p[c] ELSE Idle]
  /\ use' = TRUE /\ count' = 0
  /\ UNCHANGED <<kafka, com, decisions, world, manual, dropped>>

Loop(c) ==
  \/ Take(c) \/ ExpiredRouted(c) \/ Reserve(c)
  \/ Publish(c) \/ MarkPublished(c) \/ FailedRouted(c) \/ LoopCommit(c)

LoopFault(c) ==
  \/ TakeFails(c) \/ ExpiredUnrouted(c) \/ ReserveFails(c) \/ PublishFails(c)
  \/ MarkFails(c) \/ FailedUnrouted(c) \/ CommitFails(c)

Watchdog == WatchdogOverride \/ WatchdogEnriched \/ WatchdogFallback
Ai == AiForget \/ AiPublish \/ AiCommit

Next ==
  \/ \E s \in Signals : PublishPending(s) \/ Expire(s)
  \/ ToggleHalt \/ ToggleManual \/ Watchdog
  \/ Ai \/ AiPublishFails \/ AiCommitFails \/ AiCrash
  \/ PenForget
  \/ \E c \in Loops : Loop(c) \/ LoopFault(c)
  \/ Replay \/ ReplayFails \/ ReplayCommit \/ ReplayCommitFails
  \/ RiskCrash

\* Every task keeps running; nothing is promised of the strategies, the clock,
\* operators and faults.
Fairness ==
  /\ WF_vars(Ai) /\ WF_vars(Loop("enr")) /\ WF_vars(PenForget \/ Loop("pen"))
  /\ WF_vars(Replay \/ ReplayCommit) /\ WF_vars(Watchdog)

Spec == Init /\ [][Next]_vars /\ Fairness

-----------------------------------------------------------------------------
(* Properties *)

\* However often a signal is delivered, on whichever topic, with crashes and failed
\* requests: every approval of it carries the one id of its reservation, by which the
\* execution engine and the audit tell decisions apart.
OneApprovalId ==
  \A a \in approved : resv[a[1]].id = a[2]

\* A reservation marked PUBLISHED, which silences every later copy of the signal, has
\* really been published.
MarkedIsPublished ==
  \A s \in Signals : resv[s].status = "PUBLISHED" => <<s, resv[s].id>> \in approved

\* The state has its types and a signal has one decision: the id of its reservation is
\* on every approval, and a reservation that silences later copies has been published.
DecisionIsSingle == TypeOK /\ OneApprovalId /\ MarkedIsPublished

\* The reservations and approvals are a SignalDecision, seen from outside: whichever
\* loop takes whichever copy, with retries, crashes and answers that got lost, a signal
\* is decided for once, approved under that id only, and closed after its approval
\* (_reserve_risk_decision, KafkaApprovedPublisher.publish, _mark_risk_decision_published).
Decision == INSTANCE SignalDecision WITH decision <- resv
DecidesOnce == Decision!Spec

Published(s) == \E i \in DOMAIN pending : pending[i].sig = s
Ahead(s, c) == \E i \in com[c] + 1 .. Len(Topic(c)) : Topic(c)[i].sig = s
Settled(s) ==
  \/ s \in dlq \cup rejected \cup dropped \cup malformed
  \/ \E a \in approved : a[1] = s

\* A signal no Kafka failure hit is decided, dead-lettered, or ahead of a committed
\* offset on the way to the risk engine: no crash and no failed request loses it.
NoSignalLost ==
  \A s \in Signals : Published(s) =>
    Settled(s) \/ Ahead(s, "ai") \/ Ahead(s, "enr") \/ Ahead(s, "rep")

\* The state has its types, and no signal is lost.
NothingLost == TypeOK /\ NoSignalLost

\* Every signal is decided in the end, whichever loop is running.
EverySignalSettles == \A s \in Signals : []<>(Published(s) => Settled(s))
=============================================================================
