------------------------ MODULE SignalPipelineProofs ------------------------
(***************************************************************************)
(* Proofs about SignalPipeline: types, that a signal has one decision, and  *)
(* that no signal is lost on its way to the risk engine, for any signals,   *)
(* retries, faults and changes of the fallback.                             *)
(***************************************************************************)
EXTENDS SignalPipeline, TLAPS, FiniteSetTheorems, SequenceTheorems

Steps == {"idle", "commit", "expired", "reserve", "publish", "mark", "failed", "routed"}
Attempts == 0 .. MaxRetryAttempts
Holds == [pc : Steps, sig : Signals \cup {"none"}, n : Attempts, id : Nat]
Events == [sig : Signals, n : Attempts]
GoodEvents == [sig : Signals \ malformed, n : Attempts]
Envelopes == [sig : Signals \ malformed, n : Attempts, src : Loops]
Reservations == [id : Nat, status : {"none", "PENDING", "PUBLISHED"}]

TopicTypes ==
  /\ malformed \subseteq Signals
  /\ dlq \subseteq Signals /\ rejected \subseteq Signals /\ dropped \subseteq Signals
  /\ expired \subseteq Signals
  /\ pending \in Seq(Events) /\ enriched \in Seq(GoodEvents) /\ retry \in Seq(Envelopes)

OffsetTypes ==
  /\ pos \in [Consumers -> Nat] /\ com \in [Consumers -> Nat]
  /\ \A c \in Consumers : com[c] <= pos[c] /\ pos[c] <= Len(Topic(c))

HoldTypes ==
  /\ p \in [Consumers -> Holds]
  /\ \A c \in Consumers : p[c].pc # "idle" => pos[c] > 0 /\ p[c].sig \in Signals \ malformed

DecisionTypes ==
  /\ resv \in [Signals -> Reservations]
  /\ \A s \in Signals : resv[s].id = None <=> resv[s].status = "none"
  /\ approved \subseteq (Signals \ malformed) \X (Nat \ {None})
  /\ IsFiniteSet(approved)
  /\ \A c \in Loops : p[c].pc = "reserve" => p[c].id # None

WatchTypes == use \in BOOLEAN /\ count \in 0 .. (IF use THEN Window ELSE RecoveryWindow) - 1

TypeInv == TopicTypes /\ OffsetTypes /\ HoldTypes /\ DecisionTypes /\ WatchTypes

\* A loop that publishes does so under the id of the signal's reservation, and marks
\* what it has published.
LoopsAgree ==
  \A c \in Loops :
    /\ p[c].pc \in {"publish", "mark"} => /\ resv[p[c].sig].status # "none"
                                          /\ resv[p[c].sig].id = p[c].id
    /\ p[c].pc = "mark" => <<p[c].sig, p[c].id>> \in approved

DecisionInv == LoopsAgree /\ OneApprovalId /\ MarkedIsPublished

\* What the enriched loop is at work on is the last event it polled, and not committed.
HeldIsUncommitted ==
  p["enr"].pc # "idle" => com["enr"] < pos["enr"] /\ enriched[pos["enr"]].sig = p["enr"].sig

\* Somebody still has the signal: it is behind the position of the AI engine, of the
\* enriched loop or of the replayer, or the enriched loop is at work on it.
Unread(s, c) == \E i \in pos[c] + 1 .. Len(Topic(c)) : Topic(c)[i].sig = s
InHand(s) == p["enr"].pc \notin {"idle", "commit", "routed"} /\ p["enr"].sig = s
Carried(s) == Settled(s) \/ Unread(s, "ai") \/ Unread(s, "enr") \/ Unread(s, "rep") \/ InHand(s)
AllCarried == \A s \in Signals : Published(s) => Carried(s)

IInv == TypeInv /\ DecisionInv /\ HeldIsUncommitted /\ AllCarried

-----------------------------------------------------------------------------
(* What the operators return *)

\* The event a consumer polls next.
LEMMA EventFacts ==
  ASSUME TypeInv, NEW c \in Consumers, Waiting(c)
  PROVE  /\ pos[c] \in Nat /\ pos[c] + 1 \in 1 .. Len(Topic(c))
         /\ Event(c).sig \in Signals /\ Event(c).n \in Attempts
         /\ c \in {"enr", "rep"} => Event(c).sig \notin malformed
         /\ c = "rep" => Event(c).src \in Loops
<1>1. pos[c] \in Nat /\ pos[c] < Len(Topic(c))
  BY DEF TypeInv, OffsetTypes, Waiting
<1>2. CASE c = "enr"
  <2>1. Topic(c) = enriched /\ enriched \in Seq(GoodEvents)
    BY <1>2 DEF Topic, TypeInv, TopicTypes
  <2>2. Len(enriched) \in Nat /\ pos[c] + 1 \in 1 .. Len(enriched)
    BY <1>1, <2>1
  <2>3. enriched[pos[c] + 1] \in GoodEvents
    BY <2>1, <2>2
  <2> QED
    BY <1>1, <1>2, <2>1, <2>2, <2>3 DEF Event, GoodEvents
<1>3. CASE c = "rep"
  <2>1. Topic(c) = retry /\ retry \in Seq(Envelopes)
    BY <1>3 DEF Topic, TypeInv, TopicTypes
  <2>2. Len(retry) \in Nat /\ pos[c] + 1 \in 1 .. Len(retry)
    BY <1>1, <2>1
  <2>3. retry[pos[c] + 1] \in Envelopes
    BY <2>1, <2>2
  <2> QED
    BY <1>1, <1>3, <2>1, <2>2, <2>3 DEF Event, Envelopes
<1>4. CASE c \in {"ai", "pen"}
  <2>1. Topic(c) = pending /\ pending \in Seq(Events)
    BY <1>4 DEF Topic, TypeInv, TopicTypes
  <2>2. Len(pending) \in Nat /\ pos[c] + 1 \in 1 .. Len(pending)
    BY <1>1, <2>1
  <2>3. pending[pos[c] + 1] \in Events
    BY <2>1, <2>2
  <2> QED
    BY <1>1, <1>4, <2>1, <2>2, <2>3 DEF Event, Events
<1> QED
  BY <1>2, <1>3, <1>4 DEF Consumers

\* The event a consumer is at work on.
LEMMA HoldFacts ==
  ASSUME TypeInv, NEW c \in Consumers
  PROVE  /\ p[c] \in Holds
         /\ p[c].n \in Attempts /\ p[c].id \in Nat
         /\ p[c].pc # "idle" => p[c].sig \in Signals \ malformed
BY DEF TypeInv, HoldTypes, Holds

\* Appending an event keeps a topic typed and the events it has.
LEMMA TopicsGrow ==
  ASSUME TopicTypes, NEW s \in Signals, NEW n \in Attempts
  PROVE  LET m == [sig |-> s, n |-> n]
         IN  /\ Append(pending, m) \in Seq(Events)
             /\ Len(Append(pending, m)) = Len(pending) + 1 /\ Len(pending) \in Nat
             /\ \A i \in 1 .. Len(pending) : Append(pending, m)[i] = pending[i]
             /\ Append(pending, m)[Len(pending) + 1] = m
             /\ Len(Append(enriched, m)) = Len(enriched) + 1 /\ Len(enriched) \in Nat
             /\ \A i \in 1 .. Len(enriched) : Append(enriched, m)[i] = enriched[i]
             /\ Append(enriched, m)[Len(enriched) + 1] = m
             /\ s \notin malformed => Append(enriched, m) \in Seq(GoodEvents)
             /\ \A c \in Loops :
                  LET e == [sig |-> s, n |-> n, src |-> c]
                  IN  /\ Len(Append(retry, e)) = Len(retry) + 1 /\ Len(retry) \in Nat
                      /\ \A i \in 1 .. Len(retry) : Append(retry, e)[i] = retry[i]
                      /\ Append(retry, e)[Len(retry) + 1] = e
                      /\ s \notin malformed => Append(retry, e) \in Seq(Envelopes)
<1> DEFINE m == [sig |-> s, n |-> n]
<1>1. /\ pending \in Seq(Events) /\ enriched \in Seq(GoodEvents) /\ retry \in Seq(Envelopes)
      /\ Len(pending) \in Nat /\ Len(enriched) \in Nat /\ Len(retry) \in Nat
  BY DEF TopicTypes
<1>2. m \in Events /\ (s \notin malformed => m \in GoodEvents)
  BY DEF Events, GoodEvents
<1>3. enriched \in Seq(Events)
  <2>1. GoodEvents \subseteq Events
    BY DEF GoodEvents, Events
  <2> QED
    BY <1>1, <2>1, SeqMonotonic
<1>4. ASSUME NEW c \in Loops
      PROVE  LET e == [sig |-> s, n |-> n, src |-> c]
             IN  /\ Len(Append(retry, e)) = Len(retry) + 1
                 /\ \A i \in 1 .. Len(retry) : Append(retry, e)[i] = retry[i]
                 /\ Append(retry, e)[Len(retry) + 1] = e
                 /\ s \notin malformed => Append(retry, e) \in Seq(Envelopes)
  <2> DEFINE e == [sig |-> s, n |-> n, src |-> c]
             All == [sig : Signals, n : Attempts, src : Loops]
  <2>1. e \in All /\ (s \notin malformed => e \in Envelopes) /\ Envelopes \subseteq All
    BY DEF Envelopes
  <2>2. retry \in Seq(All)
    BY <1>1, <2>1, SeqMonotonic
  <2> HIDE DEF e, All
  <2>3. /\ Len(Append(retry, e)) = Len(retry) + 1
        /\ \A i \in 1 .. Len(retry) : Append(retry, e)[i] = retry[i]
        /\ Append(retry, e)[Len(retry) + 1] = e
    BY <2>1, <2>2, AppendProperties
  <2>4. s \notin malformed => Append(retry, e) \in Seq(Envelopes)
    BY <1>1, <2>1, AppendProperties
  <2> QED
    BY <2>3, <2>4 DEF e
<1> HIDE DEF m
<1>5. /\ Append(pending, m) \in Seq(Events)
      /\ Len(Append(pending, m)) = Len(pending) + 1
      /\ \A i \in 1 .. Len(pending) : Append(pending, m)[i] = pending[i]
      /\ Append(pending, m)[Len(pending) + 1] = m
  BY <1>1, <1>2, AppendProperties
<1>6. /\ Len(Append(enriched, m)) = Len(enriched) + 1
      /\ \A i \in 1 .. Len(enriched) : Append(enriched, m)[i] = enriched[i]
      /\ Append(enriched, m)[Len(enriched) + 1] = m
  BY <1>2, <1>3, AppendProperties
<1>7. s \notin malformed => Append(enriched, m) \in Seq(GoodEvents)
  BY <1>1, <1>2, AppendProperties
<1> QED
  BY <1>1, <1>4, <1>5, <1>6, <1>7 DEF m

-----------------------------------------------------------------------------
(* Types *)

\* What the topics hold stays typed.
LEMMA TopicStep == TypeInv /\ [Next]_vars => TopicTypes'
<1> SUFFICES ASSUME TypeInv, [Next]_vars
             PROVE  TopicTypes'
  OBVIOUS
<1> USE DEF TypeInv, TopicTypes, GoodEvents, Envelopes
<1>1. ASSUME NEW s \in Signals, PublishPending(s) PROVE TopicTypes'
  <2>1. 0 \in Attempts
    BY PipelineAssumption DEF Attempts
  <2>2. pending' \in Seq(Events)
    BY <1>1, <2>1, TopicsGrow DEF PublishPending, SignalEvent
  <2> QED
    BY <1>1, <2>2 DEF PublishPending, kafka, decisions, world, budget
<1>2. ASSUME NEW s \in Signals, Expire(s) PROVE TopicTypes'
  BY <1>2 DEF Expire, Toggle, kafka, decisions, world, budget
<1>3. CASE ToggleHalt
  BY <1>3 DEF ToggleHalt, Toggle, kafka, decisions, world, budget
<1>4. CASE ToggleManual
  BY <1>4 DEF ToggleManual, Toggle, kafka, decisions, world, budget
<1>5. CASE WatchdogOverride
  BY <1>5 DEF WatchdogOverride, ActivateFallback, kafka, decisions, world, budget
<1>6. CASE WatchdogEnriched
  BY <1>6 DEF WatchdogEnriched, ActivateFallback, kafka, decisions, world, budget
<1>7. CASE WatchdogFallback
  BY <1>7 DEF WatchdogFallback, ActivateRecovery, kafka, decisions, world, budget
<1>8. CASE AiForget
  BY <1>8 DEF AiForget, Waiting, Event, Topic, Move, Commit, kafka, decisions, world,
     budget
<1>9. CASE AiPublish
  <2>1. 0 \in Attempts
    BY PipelineAssumption DEF Attempts
  <2>2. Event("ai").sig \in Signals \ malformed
    BY <1>9, EventFacts DEF AiPublish, Consumers, TypeInv
  <2>3. enriched' \in Seq(GoodEvents)
    BY <1>9, <2>1, <2>2, TopicsGrow DEF AiPublish, Enrich, SignalEvent
  <2> QED
    BY <1>9, <2>3 DEF AiPublish, kafka, decisions, world, budget
<1>10. CASE AiCommit
  BY <1>10 DEF AiCommit, Done, Idle, kafka, decisions, world, budget
<1>11. CASE AiPublishFails
  <2>1. Event("ai").sig \in Signals
    BY <1>11, EventFacts DEF AiPublishFails, Consumers, TypeInv
  <2> QED
    BY <1>11, <2>1 DEF AiPublishFails, kafka, decisions, world, budget
<1>12. CASE AiCommitFails \/ AiCrash
  BY <1>12 DEF AiCommitFails, AiCrash, Fault, Done, Idle, kafka, decisions, world, budget
<1>13. CASE PenForget
  BY <1>13 DEF PenForget, kafka, decisions, world, budget
<1>14. ASSUME NEW c \in Loops, Take(c) PROVE TopicTypes'
  <2>1. Event(c).sig \in Signals
    BY <1>14, EventFacts DEF Take, Polls, Loops, Consumers, TypeInv
  <2>2. rejected' \in {rejected, rejected \cup {Event(c).sig}}
    BY <1>14 DEF Take
  <2> QED
    BY <1>14, <2>1, <2>2 DEF Take, kafka, world, budget
<1>15. ASSUME NEW c \in Loops, ExpiredRouted(c) PROVE TopicTypes'
  <2>1. p[c].sig \in Signals
    BY <1>15, HoldFacts DEF ExpiredRouted, Loops, Consumers, TypeInv
  <2> QED
    BY <1>15, <2>1 DEF ExpiredRouted, RouteDlq, kafka, decisions, world, budget
<1>16. ASSUME NEW c \in Loops, Reserve(c) PROVE TopicTypes'
  BY <1>16 DEF Reserve, Goto, WithReservation, kafka, decisions, world, budget
<1>17. ASSUME NEW c \in Loops, Publish(c) PROVE TopicTypes'
  BY <1>17 DEF Publish, Goto, kafka, decisions, world, budget
<1>18. ASSUME NEW c \in Loops, MarkPublished(c) PROVE TopicTypes'
  BY <1>18 DEF MarkPublished, Goto, kafka, decisions, world, budget
<1>19. ASSUME NEW c \in Loops, FailedRouted(c) PROVE TopicTypes'
  <2>1. p[c].sig \in Signals \ malformed /\ p[c].n \in Attempts
    BY <1>19, HoldFacts DEF FailedRouted, Loops, Consumers, TypeInv
  <2>2. CASE NextRetryAttempt(c) > MaxRetryAttempts
    BY <1>19, <2>1, <2>2 DEF FailedRouted, RouteRetry, kafka, decisions, world, budget
  <2>3. CASE ~(NextRetryAttempt(c) > MaxRetryAttempts)
    <3>1. NextRetryAttempt(c) \in Attempts
      BY <2>1, <2>3, PipelineAssumption DEF NextRetryAttempt, Attempts
    <3>2. Append(retry, [sig |-> p[c].sig, n |-> NextRetryAttempt(c), src |-> c])
            \in Seq(Envelopes)
      BY <2>1, <3>1, TopicsGrow
    <3>3. retry' \in Seq(Envelopes)
      BY <1>19, <2>3, <3>2 DEF FailedRouted, RouteRetry
    <3> QED
      BY <1>19, <2>3, <3>3 DEF FailedRouted, RouteRetry, kafka, decisions, world, budget
  <2> QED
    BY <2>2, <2>3
<1>20. ASSUME NEW c \in Loops, LoopCommit(c) \/ CommitFails(c) PROVE TopicTypes'
  BY <1>20 DEF LoopCommit, CommitFails, Done, Idle, kafka, decisions, world, budget
<1>21. ASSUME NEW c \in Loops, TakeFails(c) PROVE TopicTypes'
  BY <1>21 DEF TakeFails, Waiting, Event, Topic, Move, Polls, Fault, kafka, decisions,
     world, budget
<1>22. ASSUME NEW c \in Loops, ExpiredUnrouted(c) PROVE TopicTypes'
  <2>1. p[c].sig \in Signals
    BY <1>22, HoldFacts DEF ExpiredUnrouted, Loops, Consumers, TypeInv
  <2> QED
    BY <1>22, <2>1 DEF ExpiredUnrouted, RouteLost, Fault, kafka, decisions, world, budget
<1>23. ASSUME NEW c \in Loops, ReserveFails(c) PROVE TopicTypes'
  BY <1>23 DEF ReserveFails, Fault, Goto, kafka, decisions, world, budget
<1>24. ASSUME NEW c \in Loops, PublishFails(c) PROVE TopicTypes'
  BY <1>24 DEF PublishFails, Fault, Goto, kafka, decisions, world, budget
<1>25. ASSUME NEW c \in Loops, MarkFails(c) PROVE TopicTypes'
  BY <1>25 DEF MarkFails, Fault, Goto, kafka, decisions, world, budget
<1>26. ASSUME NEW c \in Loops, FailedUnrouted(c) PROVE TopicTypes'
  <2>1. p[c].sig \in Signals
    BY <1>26, HoldFacts DEF FailedUnrouted, Loops, Consumers, TypeInv
  <2> QED
    BY <1>26, <2>1 DEF FailedUnrouted, RouteLost, Fault, kafka, decisions, world, budget
<1>27. CASE Replay
  <2>1. /\ Event("rep").sig \in Signals \ malformed /\ Event("rep").n \in Attempts
    BY <1>27, EventFacts DEF Replay, Consumers, TypeInv
  <2> DEFINE m == [sig |-> Event("rep").sig, n |-> Event("rep").n]
  <2>2. Append(pending, m) \in Seq(Events) /\ Append(enriched, m) \in Seq(GoodEvents)
    BY <2>1, TopicsGrow
  <2>3. /\ pending' \in {pending, Append(pending, m)}
        /\ enriched' \in {enriched, Append(enriched, m)}
        /\ dlq' \in {dlq, dlq \cup {Event("rep").sig}}
        /\ UNCHANGED <<retry, decisions, world, budget>>
    BY <1>27 DEF Replay
  <2> HIDE DEF m
  <2> QED
    BY <2>1, <2>2, <2>3 DEF decisions, world, budget
<1>28. CASE ReplayFails
  <2>1. Event("rep").sig \in Signals
    BY <1>28, EventFacts DEF ReplayFails, Consumers, TypeInv
  <2> QED
    BY <1>28, <2>1 DEF ReplayFails, kafka, decisions, world, budget
<1>29. CASE ReplayCommit \/ ReplayCommitFails
  BY <1>29 DEF ReplayCommit, ReplayCommitFails, Done, Idle, kafka, decisions, world, budget
<1>30. CASE RiskCrash
  BY <1>30 DEF RiskCrash, Fault, Idle, kafka, decisions, world, budget
<1>31. CASE UNCHANGED vars
  BY <1>31 DEF vars, kafka, decisions, world, budget
<1> QED
  BY <1>1, <1>2, <1>3, <1>4, <1>5, <1>6, <1>7, <1>8, <1>9, <1>10, <1>11, <1>12, <1>13,
     <1>14, <1>15, <1>16, <1>17, <1>18, <1>19, <1>20, <1>21, <1>22, <1>23, <1>24, <1>25,
     <1>26, <1>27, <1>28, <1>29, <1>30, <1>31 DEF Next, Loop, LoopFault, Watchdog, Ai

\* Nothing is ever taken off a topic.
Grown(old, new) ==
  /\ Len(old) \in Nat /\ Len(new) \in Nat /\ Len(old) <= Len(new)
  /\ \A i \in 1 .. Len(old) : new[i] = old[i]

\* A step takes no event off a topic and changes none.
LEMMA TopicsKept ==
  TypeInv /\ [Next]_vars => Grown(pending, pending') /\ Grown(enriched, enriched') /\ Grown(retry, retry')
<1> SUFFICES ASSUME TypeInv, [Next]_vars
             PROVE  Grown(pending, pending') /\ Grown(enriched, enriched') /\ Grown(retry, retry')
  OBVIOUS
<1> USE DEF TypeInv
<1>0. Grown(pending, pending) /\ Grown(enriched, enriched) /\ Grown(retry, retry)
  BY DEF TopicTypes, Grown
<1>1. CASE UNCHANGED <<pending, enriched, retry>>
  BY <1>0, <1>1
<1>2. ASSUME NEW s \in Signals, PublishPending(s)
      PROVE  Grown(pending, pending') /\ Grown(enriched, enriched') /\ Grown(retry, retry')
  <2>1. 0 \in Attempts
    BY PipelineAssumption DEF Attempts
  <2>2. Grown(pending, pending')
    BY <1>2, <2>1, TopicsGrow DEF PublishPending, SignalEvent, Grown
  <2> QED
    BY <1>0, <1>2, <2>2 DEF PublishPending
<1>3. CASE AiPublish
  <2>1. 0 \in Attempts
    BY PipelineAssumption DEF Attempts
  <2>2. Event("ai").sig \in Signals
    BY <1>3, EventFacts DEF AiPublish, Consumers
  <2>3. Grown(enriched, enriched')
    BY <1>3, <2>1, <2>2, TopicsGrow DEF AiPublish, Enrich, SignalEvent, Grown
  <2> QED
    BY <1>0, <1>3, <2>3 DEF AiPublish
<1>4. ASSUME NEW c \in Loops, FailedRouted(c)
      PROVE  Grown(pending, pending') /\ Grown(enriched, enriched') /\ Grown(retry, retry')
  <2>1. p[c].sig \in Signals /\ p[c].n \in Attempts
    BY <1>4, HoldFacts DEF FailedRouted, Loops, Consumers
  <2>2. CASE NextRetryAttempt(c) > MaxRetryAttempts
    BY <1>0, <1>4, <2>2 DEF FailedRouted, RouteRetry
  <2>3. CASE ~(NextRetryAttempt(c) > MaxRetryAttempts)
    <3>1. NextRetryAttempt(c) \in Attempts
      BY <2>1, <2>3, PipelineAssumption DEF NextRetryAttempt, Attempts
    <3> DEFINE e == [sig |-> p[c].sig, n |-> NextRetryAttempt(c), src |-> c]
    <3>2. /\ Len(Append(retry, e)) = Len(retry) + 1 /\ Len(retry) \in Nat
          /\ \A i \in 1 .. Len(retry) : Append(retry, e)[i] = retry[i]
      BY <2>1, <3>1, TopicsGrow
    <3>3. Grown(retry, Append(retry, e))
      BY <3>2 DEF Grown
    <3>4. retry' = Append(retry, e) /\ pending' = pending /\ enriched' = enriched
      BY <1>4, <2>3 DEF FailedRouted, RouteRetry
    <3> QED
      BY <1>0, <3>3, <3>4
  <2> QED
    BY <2>2, <2>3
<1>5. CASE Replay
  <2>1. Event("rep").sig \in Signals /\ Event("rep").n \in Attempts
    BY <1>5, EventFacts DEF Replay, Consumers
  <2> DEFINE m == [sig |-> Event("rep").sig, n |-> Event("rep").n]
  <2>2. Grown(pending, Append(pending, m)) /\ Grown(enriched, Append(enriched, m))
    BY <2>1, TopicsGrow DEF Grown
  <2>3. /\ pending' \in {pending, Append(pending, m)} /\ retry' = retry
        /\ enriched' \in {enriched, Append(enriched, m)}
    BY <1>5 DEF Replay
  <2> HIDE DEF m
  <2> QED
    BY <1>0, <2>2, <2>3
<1>6. \/ UNCHANGED <<pending, enriched, retry>>
      \/ \E s \in Signals : PublishPending(s)
      \/ AiPublish \/ Replay \/ \E c \in Loops : FailedRouted(c)
  <2> USE DEF kafka
  <2>1. CASE \E s \in Signals : Expire(s)
    BY <2>1 DEF Expire
  <2>2. CASE ToggleHalt \/ ToggleManual \/ Watchdog
    BY <2>2 DEF ToggleHalt, ToggleManual, Watchdog, WatchdogOverride, WatchdogEnriched,
       WatchdogFallback
  <2>3. CASE AiForget \/ AiCommit \/ AiPublishFails \/ AiCommitFails \/ AiCrash \/ PenForget
    BY <2>3 DEF AiForget, AiCommit, AiPublishFails, AiCommitFails, AiCrash, PenForget
  <2>4. CASE \E c \in Loops : Take(c) \/ ExpiredRouted(c) \/ Reserve(c) \/ Publish(c)
                       \/ MarkPublished(c) \/ LoopCommit(c)
    BY <2>4 DEF Take, ExpiredRouted, Reserve, Publish, MarkPublished, LoopCommit, RouteDlq
  <2>5. CASE \E c \in Loops : LoopFault(c)
    BY <2>5 DEF LoopFault, TakeFails, ExpiredUnrouted, ReserveFails, PublishFails,
       MarkFails, FailedUnrouted, CommitFails, RouteLost
  <2>6. CASE ReplayFails \/ ReplayCommit \/ ReplayCommitFails \/ RiskCrash
    BY <2>6 DEF ReplayFails, ReplayCommit, ReplayCommitFails, RiskCrash
  <2>7. CASE UNCHANGED vars
    BY <2>7 DEF vars
  <2> QED
    BY <2>1, <2>2, <2>3, <2>4, <2>5, <2>6, <2>7 DEF Next, Loop, Ai
<1> QED
  BY <1>1, <1>2, <1>3, <1>4, <1>5, <1>6

\* How an offset moves: with a poll, which may commit at once; with a commit; or back to
\* the commit when a process restarts.
Polled(c) ==
  /\ Waiting(c) /\ pos' = [pos EXCEPT ![c] = @ + 1]
  /\ com' = com \/ com' = [com EXCEPT ![c] = pos[c] + 1]
Committed(c) == pos' = pos /\ com' = [com EXCEPT ![c] = pos[c]]
Rewound ==
  /\ com' = com /\ pos' \in [Consumers -> Nat]
  /\ \A c \in Consumers : pos'[c] \in {com[c], pos[c]}

LEMMA OffsetMoves ==
  TypeInv /\ [Next]_vars =>
    UNCHANGED <<pos, com>> \/ (\E c \in Consumers : Polled(c) \/ Committed(c)) \/ Rewound
<1> SUFFICES ASSUME TypeInv, [Next]_vars
             PROVE  \/ UNCHANGED <<pos, com>>
                    \/ \E c \in Consumers : Polled(c) \/ Committed(c)
                    \/ Rewound
  OBVIOUS
<1>0. pos \in [Consumers -> Nat] /\ com \in [Consumers -> Nat]
  BY DEF TypeInv, OffsetTypes
<1>1. CASE AiForget
  <2>1. pos'["ai"] = pos["ai"] + 1
    BY <1>0, <1>1 DEF AiForget, Move, Consumers
  <2> QED
    BY <1>1, <2>1 DEF AiForget, Move, Commit, Polled, Consumers
<1>2. CASE AiPublish \/ AiPublishFails
  BY <1>2 DEF AiPublish, AiPublishFails, Move, Polled, Consumers, kafka
<1>3. CASE PenForget
  <2>1. pos'["pen"] = pos["pen"] + 1
    BY <1>0, <1>3 DEF PenForget, Move, Consumers
  <2>2. com' = com \/ com' = [com EXCEPT !["pen"] = pos'["pen"]]
    BY <1>3 DEF PenForget, Commit
  <2> QED
    BY <1>3, <2>1, <2>2 DEF PenForget, Move, Polls, Polled, Consumers
<1>4. ASSUME NEW c \in Loops, Take(c) \/ TakeFails(c)
      PROVE  Polled(c) /\ c \in Consumers
  BY <1>4 DEF Take, TakeFails, Move, Polls, Polled, Consumers, Loops
<1>5. CASE Replay \/ ReplayFails
  BY <1>5 DEF Replay, ReplayFails, Move, Polled, Consumers
<1>6. CASE AiCommit \/ ReplayCommit
  BY <1>6 DEF AiCommit, ReplayCommit, Committed, Consumers
<1>7. ASSUME NEW c \in Loops, LoopCommit(c)
      PROVE  Committed(c) /\ c \in Consumers
  BY <1>7 DEF LoopCommit, Committed, Consumers, Loops
<1>8. CASE AiCrash
  BY <1>0, <1>8 DEF AiCrash, Rewound, Consumers
<1>9. CASE RiskCrash
  BY <1>0, <1>9 DEF RiskCrash, Rewound, Consumers
<1>10. \/ UNCHANGED <<pos, com>>
       \/ AiForget \/ AiPublish \/ AiPublishFails \/ AiCommit \/ AiCrash \/ PenForget
       \/ \E c \in Loops : Take(c) \/ TakeFails(c) \/ LoopCommit(c)
       \/ Replay \/ ReplayFails \/ ReplayCommit \/ RiskCrash
  <2> USE DEF offsets
  <2>1. CASE \E s \in Signals : PublishPending(s) \/ Expire(s)
    BY <2>1 DEF PublishPending, Expire
  <2>2. CASE ToggleHalt \/ ToggleManual \/ Watchdog
    BY <2>2 DEF ToggleHalt, ToggleManual, Watchdog, WatchdogOverride, WatchdogEnriched,
       WatchdogFallback
  <2>3. CASE \E c \in Loops : ExpiredRouted(c) \/ Reserve(c) \/ Publish(c)
                       \/ MarkPublished(c) \/ FailedRouted(c)
    BY <2>3 DEF ExpiredRouted, Reserve, Publish, MarkPublished, FailedRouted
  <2>4. CASE \E c \in Loops : LoopFault(c) /\ ~TakeFails(c)
    BY <2>4 DEF LoopFault, ExpiredUnrouted, ReserveFails, PublishFails, MarkFails,
       FailedUnrouted, CommitFails
  <2>5. CASE AiCommitFails \/ ReplayCommitFails \/ UNCHANGED vars
    BY <2>5 DEF AiCommitFails, ReplayCommitFails, vars
  <2> QED
    BY <2>1, <2>2, <2>3, <2>4, <2>5 DEF Next, Loop, LoopFault, Ai
<1> QED
  BY <1>1, <1>2, <1>3, <1>4, <1>5, <1>6, <1>7, <1>8, <1>9, <1>10

\* An offset never passes the position, nor the position the end of the topic.
LEMMA OffsetStep == TypeInv /\ [Next]_vars => OffsetTypes'
<1> SUFFICES ASSUME TypeInv, [Next]_vars
             PROVE  OffsetTypes'
  OBVIOUS
<1>1. \A c \in Consumers : /\ Len(Topic(c)) \in Nat /\ Len(Topic(c))' \in Nat
                             /\ Len(Topic(c)) <= Len(Topic(c))'
  BY TopicsKept DEF Topic, Grown
<1>2. /\ pos \in [Consumers -> Nat] /\ com \in [Consumers -> Nat]
      /\ \A c \in Consumers : com[c] <= pos[c] /\ pos[c] <= Len(Topic(c))
  BY DEF TypeInv, OffsetTypes
<1>3. SUFFICES /\ pos' \in [Consumers -> Nat] /\ com' \in [Consumers -> Nat]
               /\ \A c \in Consumers : com'[c] <= pos'[c] /\ pos'[c] <= Len(Topic(c))
  BY <1>1 DEF OffsetTypes
<1>4. CASE UNCHANGED <<pos, com>>
  BY <1>2, <1>4
<1>5. ASSUME NEW c \in Consumers, Polled(c)
      PROVE  /\ pos' \in [Consumers -> Nat] /\ com' \in [Consumers -> Nat]
             /\ \A d \in Consumers : com'[d] <= pos'[d] /\ pos'[d] <= Len(Topic(d))
  BY <1>1, <1>2, <1>5 DEF Polled, Waiting
<1>6. ASSUME NEW c \in Consumers, Committed(c)
      PROVE  /\ pos' \in [Consumers -> Nat] /\ com' \in [Consumers -> Nat]
             /\ \A d \in Consumers : com'[d] <= pos'[d] /\ pos'[d] <= Len(Topic(d))
  BY <1>1, <1>2, <1>6 DEF Committed
<1>7. CASE Rewound
  <2>1. com' = com /\ pos' \in [Consumers -> Nat]
    BY <1>7 DEF Rewound
  <2>2. ASSUME NEW c \in Consumers
        PROVE  com[c] <= pos'[c] /\ pos'[c] <= Len(Topic(c))
    <3>1. pos'[c] \in {com[c], pos[c]}
      BY <1>7 DEF Rewound
    <3>2. com[c] \in Nat /\ pos[c] \in Nat /\ com[c] <= pos[c] /\ pos[c] <= Len(Topic(c))
      BY <1>2
    <3> QED
      BY <1>1, <3>1, <3>2
  <2> QED
    BY <1>2, <2>1, <2>2
<1> QED
  BY <1>4, <1>5, <1>6, <1>7, OffsetMoves

\* Which signals are malformed is settled from the start.
LEMMA MalformedFixed == [Next]_vars => malformed' = malformed
<1> SUFFICES ASSUME [Next]_vars
             PROVE  malformed' = malformed
  OBVIOUS
<1> USE DEF world
<1>1. CASE \E s \in Signals : PublishPending(s) \/ Expire(s)
  BY <1>1 DEF PublishPending, Expire
<1>2. CASE ToggleHalt \/ ToggleManual \/ Watchdog
  BY <1>2 DEF ToggleHalt, ToggleManual, Watchdog, WatchdogOverride, WatchdogEnriched,
     WatchdogFallback
<1>3. CASE Ai \/ AiPublishFails \/ AiCommitFails \/ AiCrash \/ PenForget
  BY <1>3 DEF Ai, AiForget, AiPublish, AiCommit, AiPublishFails, AiCommitFails, AiCrash, PenForget
<1>4. CASE \E c \in Loops : Loop(c)
  BY <1>4 DEF Loop, Take, ExpiredRouted, Reserve, Publish, MarkPublished, FailedRouted,
     LoopCommit
<1>5. CASE \E c \in Loops : LoopFault(c)
  BY <1>5 DEF LoopFault, TakeFails, ExpiredUnrouted, ReserveFails, PublishFails,
     MarkFails, FailedUnrouted, CommitFails
<1>6. CASE Replay \/ ReplayFails \/ ReplayCommit \/ ReplayCommitFails \/ RiskCrash
  BY <1>6 DEF Replay, ReplayFails, ReplayCommit, ReplayCommitFails, RiskCrash
<1>7. CASE UNCHANGED vars
  BY <1>7 DEF vars
<1> QED
  BY <1>1, <1>2, <1>3, <1>4, <1>5, <1>6, <1>7 DEF Next

\* The image of a finite set under a function is finite.
LEMMA FiniteImage ==
  ASSUME NEW S, IsFiniteSet(S), NEW f
  PROVE  IsFiniteSet({f[x] : x \in S})
<1> DEFINE T == {f[x] : x \in S}
           g == [x \in S |-> f[x]]
<1>1. g \in Surjection(S, T)
  BY DEF Surjection
<1> QED
  BY <1>1, FS_Surjection

\* A fresh id is an id.
LEMMA FreshIdType ==
  ASSUME TypeInv
  PROVE  FreshId \in Nat \ {None}
<1> DEFINE resvIds == {resv[s].id : s \in Signals}
           apprIds == {a[2] : a \in approved}
           used == resvIds \cup apprIds \cup {p[c].id : c \in Loops}
<1>1. IsFiniteSet(resvIds)
  <2> DEFINE f == [s \in Signals |-> resv[s].id]
  <2>1. IsFiniteSet({f[s] : s \in Signals})
    BY FiniteImage, PipelineAssumption
  <2>2. {f[s] : s \in Signals} = resvIds
    OBVIOUS
  <2> QED
    BY <2>1, <2>2
<1>2. IsFiniteSet(apprIds)
  <2> DEFINE f == [a \in approved |-> a[2]]
  <2>1. IsFiniteSet({f[a] : a \in approved})
    <3>1. IsFiniteSet(approved)
      BY DEF TypeInv, DecisionTypes
    <3> QED
      BY <3>1, FiniteImage
  <2>2. {f[a] : a \in approved} = apprIds
    OBVIOUS
  <2> QED
    BY <2>1, <2>2
<1>3. IsFiniteSet({p[c].id : c \in Loops})
  <2>1. IsFiniteSet({p["enr"].id} \cup {p["pen"].id})
    BY FS_Singleton, FS_AddElement
  <2>2. {p[c].id : c \in Loops} = {p["enr"].id} \cup {p["pen"].id}
    BY DEF Loops
  <2> QED
    BY <2>1, <2>2
<1>4. IsFiniteSet(used)
  BY <1>1, <1>2, <1>3, FS_Union
<1> HIDE DEF resvIds, apprIds
<1>5. \E i \in 1 .. Cardinality(used) + 1 : i \notin used
  <2> DEFINE k == Cardinality(used)
  <2>1. k \in Nat
    BY <1>4, FS_CardinalityType
  <2>2. Cardinality(1 .. k + 1) = k + 1
    BY <2>1, FS_Interval
  <2>3. 1 .. k + 1 \subseteq used => Cardinality(1 .. k + 1) <= k
    BY <1>4, FS_Subset
  <2> HIDE DEF k
  <2>4. ~(1 .. k + 1 \subseteq used)
    BY <2>1, <2>2, <2>3
  <2> QED
    BY <2>4 DEF k
<1>6. FreshId = CHOOSE i \in 1 .. Cardinality(used) + 1 : i \notin used
  BY DEF FreshId, resvIds, apprIds
<1>7. FreshId \in 1 .. Cardinality(used) + 1
  BY <1>5, <1>6
<1> QED
  BY <1>4, <1>7, FS_CardinalityType DEF None

\* What a consumer holds that has only to commit.
LEMMA CommitHold ==
  ASSUME NEW s \in Signals
  PROVE  LET h == [Idle EXCEPT !.pc = "commit", !.sig = s]
         IN  h \in Holds /\ h.sig = s /\ h.pc = "commit"
<1> DEFINE h == [Idle EXCEPT !.pc = "commit", !.sig = s]
<1>1. 0 \in Attempts
  BY PipelineAssumption DEF Attempts
<1>2. Idle \in Holds
  BY <1>1 DEF Idle, Holds, Steps, None
<1>3. "commit" \in Steps
  BY DEF Steps
<1>4. h \in Holds /\ h.sig = s /\ h.pc = "commit"
  BY <1>2, <1>3 DEF Holds
<1> QED
  BY <1>4

\* The four ways a consumer's hold on an event changes.
\* A consumer's hold stays what it is.
LEMMA HoldSame ==
  ASSUME TypeInv, malformed' = malformed, p' = p,
         \A d \in Consumers : pos'[d] \in Nat /\ pos'[d] >= pos[d]
  PROVE  HoldTypes'
<1>1. \A d \in Consumers : pos[d] \in Nat
  BY DEF TypeInv, OffsetTypes
<1> QED
  BY <1>1 DEF TypeInv, HoldTypes

\* A consumer goes on with the event it holds.
LEMMA HoldGoto ==
  ASSUME TypeInv, malformed' = malformed, pos' = pos, NEW c \in Consumers, NEW pc \in Steps,
         p[c].pc # "idle", p' = [p EXCEPT ![c].pc = pc]
  PROVE  HoldTypes'
BY DEF TypeInv, HoldTypes, Holds

\* A consumer is done with its event.
LEMMA HoldDone ==
  ASSUME TypeInv, malformed' = malformed, NEW c \in Consumers,
         p' = [p EXCEPT ![c] = Idle], \A d \in Consumers \ {c} : pos'[d] = pos[d]
  PROVE  HoldTypes'
<1>1. Idle \in Holds /\ Idle.pc = "idle"
  BY PipelineAssumption DEF Idle, Holds, Steps, Attempts, None
<1> QED
  BY <1>1 DEF TypeInv, HoldTypes

\* A consumer takes an event.
LEMMA HoldTake ==
  ASSUME TypeInv, malformed' = malformed, NEW c \in Consumers, Move(c), NEW h \in Holds,
         h.sig \in Signals \ malformed, p' = [p EXCEPT ![c] = h]
  PROVE  HoldTypes'
<1>1. pos' \in [Consumers -> Nat] /\ pos'[c] > 0 /\ \A d \in Consumers \ {c} : pos'[d] = pos[d]
  BY DEF Move, TypeInv, OffsetTypes
<1> QED
  BY <1>1 DEF TypeInv, HoldTypes

\* A consumer at work holds a well-formed event of a signal.
LEMMA HoldStep == TypeInv /\ [Next]_vars => HoldTypes'
<1> SUFFICES ASSUME TypeInv, [Next]_vars
             PROVE  HoldTypes'
  OBVIOUS
<1>0. malformed' = malformed
  BY MalformedFixed
<1>1. ASSUME NEW s \in Signals, PublishPending(s) PROVE HoldTypes'
  <2>1. UNCHANGED <<p, pos>>
    BY <1>1 DEF PublishPending, offsets
  <2> QED
    BY <1>0, <2>1, HoldSame DEF TypeInv, OffsetTypes
<1>2. ASSUME NEW s \in Signals, Expire(s) PROVE HoldTypes'
  <2>1. UNCHANGED <<p, pos>>
    BY <1>2 DEF Expire, offsets
  <2> QED
    BY <1>0, <2>1, HoldSame DEF TypeInv, OffsetTypes
<1>3. CASE ToggleHalt
  <2>1. UNCHANGED <<p, pos>>
    BY <1>3 DEF ToggleHalt, offsets
  <2> QED
    BY <1>0, <2>1, HoldSame DEF TypeInv, OffsetTypes
<1>4. CASE ToggleManual
  <2>1. UNCHANGED <<p, pos>>
    BY <1>4 DEF ToggleManual, offsets
  <2> QED
    BY <1>0, <2>1, HoldSame DEF TypeInv, OffsetTypes
<1>5. CASE WatchdogOverride
  <2>1. UNCHANGED <<p, pos>>
    BY <1>5 DEF WatchdogOverride, offsets
  <2> QED
    BY <1>0, <2>1, HoldSame DEF TypeInv, OffsetTypes
<1>6. CASE WatchdogEnriched
  <2>1. UNCHANGED <<p, pos>>
    BY <1>6 DEF WatchdogEnriched, offsets
  <2> QED
    BY <1>0, <2>1, HoldSame DEF TypeInv, OffsetTypes
<1>7. CASE WatchdogFallback
  <2>1. UNCHANGED <<p, pos>>
    BY <1>7 DEF WatchdogFallback, offsets
  <2> QED
    BY <1>0, <2>1, HoldSame DEF TypeInv, OffsetTypes
<1>8. CASE AiForget
  <2>1. p' = p /\ pos' = [pos EXCEPT !["ai"] = pos["ai"] + 1] /\ "ai" \in Consumers
    BY <1>8 DEF AiForget, Move, Consumers
  <2>2. \A d \in Consumers : pos'[d] \in Nat /\ pos'[d] >= pos[d]
    BY <2>1 DEF TypeInv, OffsetTypes
  <2> QED
    BY <1>0, <2>1, <2>2, HoldSame
<1>9. CASE AiPublish
  <2> DEFINE h == [Idle EXCEPT !.pc = "commit", !.sig = Event("ai").sig]
  <2>1. /\ p' = [p EXCEPT !["ai"] = h] /\ Move("ai") /\ "ai" \in Consumers
    BY <1>9 DEF AiPublish, Consumers
  <2>2. Event("ai").sig \in Signals \ malformed
    BY <1>9, EventFacts DEF AiPublish, Consumers
  <2>3. h \in Holds /\ h.sig = Event("ai").sig
    BY <2>2, CommitHold
  <2> HIDE DEF h
  <2> QED
    BY <1>0, <2>1, <2>2, <2>3, HoldTake
<1>10. CASE AiCommit
  <2>1. p' = [p EXCEPT !["ai"] = Idle] /\ pos' = pos /\ "ai" \in Consumers
    BY <1>10 DEF AiCommit, Done, Consumers
  <2> QED
    BY <1>0, <2>1, HoldDone
<1>11. CASE AiPublishFails
  <2> DEFINE h == [Idle EXCEPT !.pc = "commit", !.sig = Event("ai").sig]
  <2>1. /\ p' = [p EXCEPT !["ai"] = h] \/ p' = p
        /\ Move("ai") /\ "ai" \in Consumers
    BY <1>11 DEF AiPublishFails, Consumers
  <2>2. Event("ai").sig \in Signals \ malformed
    BY <1>11, EventFacts DEF AiPublishFails, Consumers
  <2>3. h \in Holds /\ h.sig = Event("ai").sig
    BY <2>2, CommitHold
  <2> HIDE DEF h
  <2>4. \A d \in Consumers : pos'[d] \in Nat /\ pos'[d] >= pos[d]
    BY <2>1 DEF TypeInv, OffsetTypes, Move
  <2> QED
    BY <1>0, <2>1, <2>2, <2>3, <2>4, HoldTake, HoldSame
<1>12. CASE AiCommitFails
  <2>1. p' = [p EXCEPT !["ai"] = Idle] /\ pos' = pos /\ "ai" \in Consumers
    BY <1>12 DEF AiCommitFails, Done, offsets, Consumers
  <2> QED
    BY <1>0, <2>1, HoldDone
<1>13. CASE AiCrash
  <2>1. /\ p' = [p EXCEPT !["ai"] = Idle] /\ pos' = [pos EXCEPT !["ai"] = com["ai"]]
        /\ "ai" \in Consumers
    BY <1>13 DEF AiCrash, Done, Consumers
  <2>2. \A d \in Consumers \ {"ai"} : pos'[d] = pos[d]
    BY <2>1 DEF TypeInv, OffsetTypes
  <2> QED
    BY <1>0, <2>1, <2>2, HoldDone
<1>14. CASE PenForget
  <2>1. p' = p /\ pos' = [pos EXCEPT !["pen"] = pos["pen"] + 1] /\ "pen" \in Consumers
    BY <1>14 DEF PenForget, Move, Consumers
  <2>2. \A d \in Consumers : pos'[d] \in Nat /\ pos'[d] >= pos[d]
    BY <2>1 DEF TypeInv, OffsetTypes
  <2> QED
    BY <1>0, <2>1, <2>2, HoldSame
<1>15. ASSUME NEW c \in Loops, Take(c) PROVE HoldTypes'
  <2>1. Move(c) /\ c \in Consumers /\ Waiting(c) /\ Event(c).sig \in Signals \ malformed
    BY <1>15, EventFacts DEF Take, Polls, Consumers, Loops
  <2>2. Event(c).n \in Attempts
    BY <2>1, EventFacts
  <2>3. \E pc \in Steps, id \in Nat :
          p' = [p EXCEPT ![c] = [sig |-> Event(c).sig, n |-> Event(c).n, id |-> id, pc |-> pc]]
    <3>1. resv[Event(c).sig].id \in Nat /\ FreshId \in Nat /\ None \in Nat
      BY <2>1, FreshIdType DEF TypeInv, DecisionTypes, Reservations, None
    <3>2. {"expired", "commit", "reserve", "publish"} \subseteq Steps
      BY DEF Steps
    <3>3. \E pc \in {"expired", "commit", "reserve", "publish"},
             id \in {None, FreshId, resv[Event(c).sig].id} :
            p' = [p EXCEPT ![c] = [sig |-> Event(c).sig, n |-> Event(c).n, id |-> id, pc |-> pc]]
      BY <1>15 DEF Take, WithReservation
    <3> QED
      BY <3>1, <3>2, <3>3
  <2>4. PICK pc \in Steps, id \in Nat :
          p' = [p EXCEPT ![c] = [sig |-> Event(c).sig, n |-> Event(c).n, id |-> id, pc |-> pc]]
    BY <2>3
  <2> DEFINE h == [sig |-> Event(c).sig, n |-> Event(c).n, id |-> id, pc |-> pc]
  <2>5. h \in Holds /\ h.sig = Event(c).sig
    BY <2>1, <2>2 DEF Holds
  <2> QED
    BY <1>0, <2>1, <2>4, <2>5, HoldTake
<1>16. ASSUME NEW c \in Loops, ExpiredRouted(c) PROVE HoldTypes'
  <2>1. /\ p[c].pc # "idle" /\ pos' = pos /\ c \in Consumers
        /\ \E pc \in {"commit", "mark", "failed", "routed"} : p' = [p EXCEPT ![c].pc = pc]
    BY <1>16 DEF ExpiredRouted, Goto, offsets, Consumers, Loops
  <2> QED
    BY <1>0, <2>1, HoldGoto DEF Steps
<1>17. ASSUME NEW c \in Loops, Reserve(c) PROVE HoldTypes'
  <2> DEFINE s == p[c].sig
  <2>1. p[c].pc = "reserve" /\ pos' = pos /\ c \in Consumers
    BY <1>17 DEF Reserve, offsets, Consumers, Loops
  <2>2. CASE resv[s] = NoResv
    <3>1. p' = [p EXCEPT ![c].pc = "publish"]
      BY <1>17, <2>2 DEF Reserve, Goto
    <3> QED
      BY <1>0, <2>1, <3>1, HoldGoto DEF Steps
  <2>3. CASE resv[s] # NoResv
    <3> DEFINE pc == IF resv[s].status = "PENDING" THEN "publish" ELSE "commit"
               h == [sig |-> s, n |-> p[c].n, id |-> resv[s].id, pc |-> pc]
    <3>1. p' = [p EXCEPT ![c] = h]
      BY <1>17, <2>3 DEF Reserve, WithReservation
    <3>2. s \in Signals \ malformed /\ p[c].n \in Attempts
      BY <2>1, HoldFacts
    <3>3. resv[s].id \in Nat
      BY <3>2 DEF TypeInv, DecisionTypes, Reservations
    <3>4. h \in Holds /\ h.sig = s
      BY <3>2, <3>3 DEF Holds, Steps
    <3>5. pos[c] > 0
      BY <2>1 DEF TypeInv, HoldTypes
    <3> HIDE DEF h
    <3> QED
      BY <1>0, <2>1, <3>1, <3>2, <3>4, <3>5 DEF TypeInv, HoldTypes
  <2> QED
    BY <2>2, <2>3
<1>18. ASSUME NEW c \in Loops, Publish(c) PROVE HoldTypes'
  <2>1. /\ p[c].pc # "idle" /\ pos' = pos /\ c \in Consumers
        /\ \E pc \in {"commit", "mark", "failed", "routed"} : p' = [p EXCEPT ![c].pc = pc]
    BY <1>18 DEF Publish, Goto, offsets, Consumers, Loops
  <2> QED
    BY <1>0, <2>1, HoldGoto DEF Steps
<1>19. ASSUME NEW c \in Loops, MarkPublished(c) PROVE HoldTypes'
  <2>1. /\ p[c].pc # "idle" /\ pos' = pos /\ c \in Consumers
        /\ \E pc \in {"commit", "mark", "failed", "routed"} : p' = [p EXCEPT ![c].pc = pc]
    BY <1>19 DEF MarkPublished, Goto, offsets, Consumers, Loops
  <2> QED
    BY <1>0, <2>1, HoldGoto DEF Steps
<1>20. ASSUME NEW c \in Loops, FailedRouted(c) PROVE HoldTypes'
  <2>1. /\ p[c].pc # "idle" /\ pos' = pos /\ c \in Consumers
        /\ \E pc \in {"commit", "mark", "failed", "routed"} : p' = [p EXCEPT ![c].pc = pc]
    BY <1>20 DEF FailedRouted, Goto, offsets, Consumers, Loops
  <2> QED
    BY <1>0, <2>1, HoldGoto DEF Steps
<1>21. ASSUME NEW c \in Loops, LoopCommit(c) PROVE HoldTypes'
  <2>1. p' = [p EXCEPT ![c] = Idle] /\ pos' = pos /\ c \in Consumers
    BY <1>21 DEF LoopCommit, Done, Consumers, Loops
  <2> QED
    BY <1>0, <2>1, HoldDone
<1>22. ASSUME NEW c \in Loops, CommitFails(c) PROVE HoldTypes'
  <2>1. /\ p[c].pc # "idle" /\ pos' = pos /\ c \in Consumers
        /\ p' = [p EXCEPT ![c].pc = "failed"] \/ p' = [p EXCEPT ![c] = Idle]
    BY <1>22 DEF CommitFails, Goto, Done, offsets, Consumers, Loops
  <2> QED
    BY <1>0, <2>1, HoldGoto, HoldDone DEF Steps
<1>23. ASSUME NEW c \in Loops, TakeFails(c) PROVE HoldTypes'
  <2>1. Move(c) /\ c \in Consumers /\ Waiting(c) /\ Event(c).sig \in Signals \ malformed
    BY <1>23, EventFacts DEF TakeFails, Polls, Consumers, Loops
  <2>2. Event(c).n \in Attempts
    BY <2>1, EventFacts
  <2> DEFINE h == [sig |-> Event(c).sig, n |-> Event(c).n, id |-> None, pc |-> "failed"]
  <2>3. h \in Holds /\ h.sig = Event(c).sig
    BY <2>1, <2>2 DEF Holds, Steps, None
  <2>4. p' = [p EXCEPT ![c] = h]
    BY <1>23 DEF TakeFails
  <2> QED
    BY <1>0, <2>1, <2>3, <2>4, HoldTake
<1>24. ASSUME NEW c \in Loops, ExpiredUnrouted(c) PROVE HoldTypes'
  <2>1. /\ p[c].pc # "idle" /\ pos' = pos /\ c \in Consumers
        /\ p' = [p EXCEPT ![c].pc = "commit"] \/ p' = [p EXCEPT ![c] = Idle]
    BY <1>24 DEF ExpiredUnrouted, Goto, Done, offsets, Consumers, Loops
  <2> QED
    BY <1>0, <2>1, HoldGoto, HoldDone DEF Steps
<1>25. ASSUME NEW c \in Loops, ReserveFails(c) PROVE HoldTypes'
  <2>1. /\ p[c].pc # "idle" /\ pos' = pos /\ c \in Consumers
        /\ \E pc \in {"commit", "mark", "failed", "routed"} : p' = [p EXCEPT ![c].pc = pc]
    BY <1>25 DEF ReserveFails, Goto, offsets, Consumers, Loops
  <2> QED
    BY <1>0, <2>1, HoldGoto DEF Steps
<1>26. ASSUME NEW c \in Loops, PublishFails(c) PROVE HoldTypes'
  <2>1. /\ p[c].pc # "idle" /\ pos' = pos /\ c \in Consumers
        /\ \E pc \in {"commit", "mark", "failed", "routed"} : p' = [p EXCEPT ![c].pc = pc]
    BY <1>26 DEF PublishFails, Goto, offsets, Consumers, Loops
  <2> QED
    BY <1>0, <2>1, HoldGoto DEF Steps
<1>27. ASSUME NEW c \in Loops, MarkFails(c) PROVE HoldTypes'
  <2>1. /\ p[c].pc # "idle" /\ pos' = pos /\ c \in Consumers
        /\ \E pc \in {"commit", "mark", "failed", "routed"} : p' = [p EXCEPT ![c].pc = pc]
    BY <1>27 DEF MarkFails, Goto, offsets, Consumers, Loops
  <2> QED
    BY <1>0, <2>1, HoldGoto DEF Steps
<1>28. ASSUME NEW c \in Loops, FailedUnrouted(c) PROVE HoldTypes'
  <2>1. /\ p[c].pc # "idle" /\ pos' = pos /\ c \in Consumers
        /\ p' = [p EXCEPT ![c].pc = "routed"] \/ p' = [p EXCEPT ![c] = Idle]
    BY <1>28 DEF FailedUnrouted, Goto, Done, offsets, Consumers, Loops
  <2> QED
    BY <1>0, <2>1, HoldGoto, HoldDone DEF Steps
<1>29. CASE Replay
  <2> DEFINE h == [Idle EXCEPT !.pc = "commit", !.sig = Event("rep").sig]
  <2>1. /\ p' = [p EXCEPT !["rep"] = h] /\ Move("rep") /\ "rep" \in Consumers
    BY <1>29 DEF Replay, Consumers
  <2>2. Event("rep").sig \in Signals \ malformed
    BY <1>29, EventFacts DEF Replay, Consumers
  <2>3. h \in Holds /\ h.sig = Event("rep").sig
    BY <2>2, CommitHold
  <2> HIDE DEF h
  <2> QED
    BY <1>0, <2>1, <2>2, <2>3, HoldTake
<1>30. CASE ReplayFails
  <2>1. p' = p /\ pos' = [pos EXCEPT !["rep"] = pos["rep"] + 1] /\ "rep" \in Consumers
    BY <1>30 DEF ReplayFails, Move, Consumers
  <2>2. \A d \in Consumers : pos'[d] \in Nat /\ pos'[d] >= pos[d]
    BY <2>1 DEF TypeInv, OffsetTypes
  <2> QED
    BY <1>0, <2>1, <2>2, HoldSame
<1>31. CASE ReplayCommit \/ ReplayCommitFails
  <2>1. p' = [p EXCEPT !["rep"] = Idle] /\ pos' = pos /\ "rep" \in Consumers
    BY <1>31 DEF ReplayCommit, ReplayCommitFails, Done, offsets, Consumers
  <2> QED
    BY <1>0, <2>1, HoldDone
<1>32. CASE RiskCrash
  <2>1. /\ p' = [c \in Consumers |-> IF c = "ai" THEN p[c] ELSE Idle]
        /\ pos' = [com EXCEPT !["ai"] = pos["ai"]] /\ "ai" \in Consumers
    BY <1>32 DEF RiskCrash, Consumers
  <2>2. Idle \in Holds /\ Idle.pc = "idle"
    BY PipelineAssumption DEF Idle, Holds, Steps, Attempts, None
  <2>3. pos'["ai"] = pos["ai"]
    BY <2>1 DEF TypeInv, OffsetTypes
  <2> QED
    BY <1>0, <2>1, <2>2, <2>3 DEF TypeInv, HoldTypes
<1>33. CASE UNCHANGED vars
  BY <1>0, <1>33 DEF vars, offsets, TypeInv, HoldTypes
<1> QED
  BY <1>1, <1>2, <1>3, <1>4, <1>5, <1>6, <1>7, <1>8, <1>9, <1>10, <1>11, <1>12,
     <1>13, <1>14, <1>15, <1>16, <1>17, <1>18, <1>19, <1>20, <1>21, <1>22, <1>23,
     <1>24, <1>25, <1>26, <1>27, <1>28, <1>29, <1>30, <1>31, <1>32, <1>33
     DEF Next, Loop, LoopFault, Watchdog, Ai

\* The watchdog's count stays below its window.
LEMMA WatchStep == TypeInv /\ [Next]_vars => WatchTypes'
<1> SUFFICES ASSUME TypeInv, [Next]_vars
             PROVE  WatchTypes'
  OBVIOUS
<1>0. /\ use \in BOOLEAN /\ count \in Nat
      /\ Window \in Nat \ {0} /\ RecoveryWindow \in Nat \ {0}
      /\ count < (IF use THEN Window ELSE RecoveryWindow)
  BY PipelineAssumption DEF TypeInv, WatchTypes
<1>1. CASE UNCHANGED <<use, count>>
  BY <1>1 DEF TypeInv, WatchTypes
<1>2. CASE WatchdogOverride \/ WatchdogEnriched \/ WatchdogFallback
  <2>1. \/ use' = FALSE /\ count' = 0
        \/ use' = TRUE /\ count' = 0
        \/ use' = TRUE /\ count' = count + 1 /\ count + 1 < Window
        \/ use' = FALSE /\ count' = count + 1 /\ count + 1 < RecoveryWindow
    BY <1>0, <1>2, Zenon
    DEF WatchdogOverride, WatchdogEnriched, WatchdogFallback, ActivateFallback,
       ActivateRecovery
  <2>2. CASE use' = FALSE /\ count' = 0
    <3>1. (IF use' THEN Window ELSE RecoveryWindow) = RecoveryWindow /\ use' \in BOOLEAN
      BY <2>2, Zenon
    <3>2. count' \in 0 .. RecoveryWindow - 1
      BY <1>0, <2>2
    <3> QED
      BY <3>1, <3>2, Zenon DEF WatchTypes
  <2>3. CASE use' = TRUE /\ count' = 0
    BY <1>0, <2>3 DEF WatchTypes
  <2>4. CASE use' = TRUE /\ count' = count + 1 /\ count + 1 < Window
    BY <1>0, <2>4 DEF WatchTypes
  <2>5. CASE use' = FALSE /\ count' = count + 1 /\ count + 1 < RecoveryWindow
    <3>1. (IF use' THEN Window ELSE RecoveryWindow) = RecoveryWindow /\ use' \in BOOLEAN
      BY <2>5, Zenon
    <3>2. count' \in 0 .. RecoveryWindow - 1
      BY <1>0, <2>5
    <3> QED
      BY <3>1, <3>2, Zenon DEF WatchTypes
  <2> QED
    BY <2>1, <2>2, <2>3, <2>4, <2>5
<1>3. CASE RiskCrash
  BY <1>0, <1>3 DEF RiskCrash, WatchTypes
<1>4. UNCHANGED <<use, count>> \/ Watchdog \/ RiskCrash
  <2> USE DEF watch
  <2>1. CASE \E s \in Signals : PublishPending(s) \/ Expire(s)
    BY <2>1 DEF PublishPending, Expire
  <2>2. CASE ToggleHalt \/ ToggleManual
    BY <2>2 DEF ToggleHalt, ToggleManual
  <2>3. CASE Ai \/ AiPublishFails \/ AiCommitFails \/ AiCrash \/ PenForget
    BY <2>3 DEF Ai, AiForget, AiPublish, AiCommit, AiPublishFails, AiCommitFails, AiCrash, PenForget
  <2>4. CASE \E c \in Loops : Loop(c)
    BY <2>4 DEF Loop, Take, ExpiredRouted, Reserve, Publish, MarkPublished,
       FailedRouted, LoopCommit
  <2>5. CASE \E c \in Loops : LoopFault(c)
    BY <2>5 DEF LoopFault, TakeFails, ExpiredUnrouted, ReserveFails, PublishFails,
       MarkFails, FailedUnrouted, CommitFails
  <2>6. CASE Replay \/ ReplayFails \/ ReplayCommit \/ ReplayCommitFails
    BY <2>6 DEF Replay, ReplayFails, ReplayCommit, ReplayCommitFails
  <2>7. CASE UNCHANGED vars
    BY <2>7 DEF vars
  <2> QED
    BY <2>1, <2>2, <2>3, <2>4, <2>5, <2>6, <2>7 DEF Next
<1> QED
  BY <1>1, <1>2, <1>3, <1>4 DEF Watchdog

-----------------------------------------------------------------------------
(* One decision *)

Deciding == {"reserve", "publish", "mark"}

\* A step that leaves the decisions alone, and in which no loop comes to a step of the
\* approval.
Quiet ==
  /\ resv' = resv /\ approved' = approved
  /\ \A c \in Loops : p'[c] = p[c] \/ p'[c].pc \notin Deciding

\* The steps of the approval.
Decides(c) ==
  Take(c) \/ Reserve(c) \/ ReserveFails(c) \/ Publish(c) \/ PublishFails(c) \/ MarkPublished(c)

\* Every other step is quiet.
LEMMA QuietOrDecides == TypeInv /\ [Next]_vars => Quiet \/ \E c \in Loops : Decides(c)
<1> SUFFICES ASSUME TypeInv, [Next]_vars
             PROVE  Quiet \/ \E c \in Loops : Decides(c)
  OBVIOUS
<1> USE DEF decisions
<1>0. p \in [Consumers -> Holds] /\ Loops \subseteq Consumers /\ "ai" \notin Loops /\ "rep" \notin Loops
  BY DEF TypeInv, HoldTypes, Loops, Consumers
<1>1. CASE \E s \in Signals : PublishPending(s) \/ Expire(s)
  BY <1>1 DEF PublishPending, Expire, Quiet
<1>2. CASE ToggleHalt \/ ToggleManual \/ Watchdog
  BY <1>2 DEF ToggleHalt, ToggleManual, Watchdog, WatchdogOverride, WatchdogEnriched,
     WatchdogFallback, Quiet
<1>3. CASE Ai \/ AiPublishFails \/ AiCommitFails \/ AiCrash \/ PenForget
  BY <1>0, <1>3 DEF Ai, AiForget, AiPublish, AiCommit, AiPublishFails, AiCommitFails, AiCrash,
     PenForget, Done, Quiet
<1>4. ASSUME NEW c \in Loops, ExpiredRouted(c) \/ FailedRouted(c) \/ LoopCommit(c)
      PROVE  Quiet
  <2>1. \/ p' = [p EXCEPT ![c].pc = "commit"] \/ p' = [p EXCEPT ![c].pc = "routed"]
        \/ p' = [p EXCEPT ![c] = Idle]
    BY <1>4 DEF ExpiredRouted, FailedRouted, LoopCommit, Goto, Done
  <2>2. \A d \in Loops : p'[d] = p[d] \/ p'[d].pc \in {"commit", "routed", "idle"}
    BY <1>0, <2>1 DEF Idle, Holds
  <2> QED
    BY <1>4, <2>2 DEF ExpiredRouted, FailedRouted, LoopCommit, Quiet, Deciding
<1>5. ASSUME NEW c \in Loops,
             \/ TakeFails(c) \/ ExpiredUnrouted(c) \/ MarkFails(c) \/ FailedUnrouted(c)
             \/ CommitFails(c)
      PROVE  Quiet
  <2>1. \/ p' = [p EXCEPT ![c].pc = "commit"] \/ p' = [p EXCEPT ![c] = Idle]
        \/ p' = [p EXCEPT ![c].pc = "failed"] \/ p' = [p EXCEPT ![c].pc = "routed"]
        \/ p' = [p EXCEPT ![c] = [sig |-> Event(c).sig, n |-> Event(c).n, id |-> None, pc |-> "failed"]]
    BY <1>5 DEF TakeFails, ExpiredUnrouted, MarkFails, FailedUnrouted, CommitFails, Goto, Done
  <2>2. \A d \in Loops : p'[d] = p[d] \/ p'[d].pc \in {"commit", "routed", "idle", "failed"}
    BY <1>0, <2>1 DEF Idle, Holds
  <2> QED
    BY <1>5, <2>2 DEF TakeFails, ExpiredUnrouted, MarkFails, FailedUnrouted, CommitFails,
       Quiet, Deciding
<1>6. CASE Replay \/ ReplayFails \/ ReplayCommit \/ ReplayCommitFails
  BY <1>0, <1>6 DEF Replay, ReplayFails, ReplayCommit, ReplayCommitFails, Done, Quiet
<1>7. CASE RiskCrash
  <2>1. \A d \in Loops : p'[d] = Idle
    BY <1>0, <1>7 DEF RiskCrash
  <2> QED
    BY <1>7, <2>1 DEF RiskCrash, Quiet, Deciding, Idle
<1>8. CASE UNCHANGED vars
  BY <1>8 DEF vars, Quiet
<1> QED
  BY <1>1, <1>2, <1>3, <1>4, <1>5, <1>6, <1>7, <1>8 DEF Next, Loop, LoopFault, Decides

\* An item that is not the empty one is a reservation.
LEMMA ReservationFacts ==
  ASSUME TypeInv, NEW s \in Signals
  PROVE  /\ resv[s] \in Reservations
         /\ resv[s] = NoResv <=> resv[s].status = "none"
         /\ resv[s] = NoResv <=> resv[s].id = None
<1>1. resv[s] \in Reservations /\ (resv[s].id = None <=> resv[s].status = "none")
  BY DEF TypeInv, DecisionTypes
<1>2. resv[s] = [id |-> resv[s].id, status |-> resv[s].status]
  BY <1>1 DEF Reservations
<1> QED
  BY <1>1, <1>2 DEF NoResv

\* What a poll of a loop leads to.
LEMMA TakeFacts ==
  ASSUME TypeInv, NEW c \in Loops, Take(c)
  PROVE  LET s == Event(c).sig
         IN  /\ s \in Signals \ malformed /\ resv' = resv /\ approved' = approved
             /\ p' \in [Consumers -> Holds] /\ p'[c].sig = s
             /\ \A d \in Loops \ {c} : p'[d] = p[d]
             /\ p'[c].pc \in {"commit", "expired", "reserve", "publish"}
             /\ p'[c].pc = "publish" => resv[s].status = "PENDING" /\ p'[c].id = resv[s].id
             /\ p'[c].pc = "reserve" => p'[c].id # None
             /\ p'[c].pc \in {"commit", "expired"} =>
                  s \in rejected' \/ resv[s].status = "PUBLISHED"
<1> DEFINE s == Event(c).sig
           h == p'[c]
<1>1. Waiting(c) /\ c \in Consumers /\ Loops \subseteq Consumers /\ p \in [Consumers -> Holds]
  BY DEF Take, Polls, Loops, Consumers, TypeInv, HoldTypes
<1>2. s \in Signals \ malformed
  BY <1>1, EventFacts DEF Take
<1>3. FreshId # None
  BY FreshIdType
<1>4. \E pc, id : p' = [p EXCEPT ![c] = [sig |-> s, n |-> Event(c).n, id |-> id, pc |-> pc]]
                  /\ \/ pc = "publish" /\ id = resv[s].id /\ resv[s].status = "PENDING"
                     \/ pc = "commit" /\ resv[s] # NoResv /\ resv[s].status # "PENDING"
                     \/ pc \in {"commit", "expired"} /\ s \in rejected'
                     \/ pc = "reserve" /\ id = FreshId
  BY DEF Take, WithReservation
<1>5. PICK pc, id :
        /\ p' = [p EXCEPT ![c] = [sig |-> s, n |-> Event(c).n, id |-> id, pc |-> pc]]
        /\ \/ pc = "publish" /\ id = resv[s].id /\ resv[s].status = "PENDING"
           \/ pc = "commit" /\ resv[s] # NoResv /\ resv[s].status # "PENDING"
           \/ pc \in {"commit", "expired"} /\ s \in rejected'
           \/ pc = "reserve" /\ id = FreshId
  BY <1>4
<1>6. h = [sig |-> s, n |-> Event(c).n, id |-> id, pc |-> pc]
      /\ \A d \in Loops \ {c} : p'[d] = p[d]
  BY <1>1, <1>5
<1>7. resv[s].status \in {"none", "PENDING", "PUBLISHED"} /\ (resv[s] = NoResv <=> resv[s].status = "none")
  BY <1>2, ReservationFacts DEF Reservations
<1>8. resv' = resv /\ approved' = approved
  BY DEF Take
<1>9. p' \in [Consumers -> Holds]
  BY <1>8, HoldStep DEF HoldTypes, Next, Loop
<1> QED
  BY <1>2, <1>3, <1>5, <1>6, <1>7, <1>8, <1>9

\* What the put of a reservation leads to.
LEMMA ReserveFacts ==
  ASSUME TypeInv, NEW c \in Loops, Reserve(c) \/ ReserveFails(c)
  PROVE  LET s == p[c].sig
         IN  /\ s \in Signals \ malformed /\ approved' = approved /\ p[c].id \in Nat \ {None}
             /\ p'[c].sig = s /\ \A d \in Loops \ {c} : p'[d] = p[d]
             /\ \/ resv' = resv
                \/ /\ resv[s] = NoResv
                   /\ resv' = [resv EXCEPT ![s] = [id |-> p[c].id, status |-> "PENDING"]]
             /\ p'[c].pc \in {"publish", "commit", "failed"}
             /\ p'[c].pc = "publish" => resv'[s].status # "none" /\ p'[c].id = resv'[s].id
             /\ p'[c].pc = "commit" => resv' = resv /\ resv[s].status = "PUBLISHED"
<1> DEFINE s == p[c].sig
<1>1. c \in Consumers /\ Loops \subseteq Consumers /\ p \in [Consumers -> Holds] /\ p[c].pc = "reserve"
  BY DEF Reserve, ReserveFails, Loops, Consumers, TypeInv, HoldTypes
<1>2. s \in Signals \ malformed /\ p[c].id \in Nat \ {None}
  BY <1>1, HoldFacts DEF TypeInv, DecisionTypes
<1>3. /\ resv \in [Signals -> Reservations] /\ resv[s].status \in {"none", "PENDING", "PUBLISHED"}
      /\ resv[s] = NoResv <=> resv[s].status = "none"
  BY <1>2, ReservationFacts DEF Reservations, TypeInv, DecisionTypes
<1>4. CASE Reserve(c) /\ resv[s] = NoResv
  <2>1. /\ resv' = [resv EXCEPT ![s] = [id |-> p[c].id, status |-> "PENDING"]]
        /\ p' = [p EXCEPT ![c].pc = "publish"] /\ approved' = approved
    BY <1>4 DEF Reserve, Goto
  <2>2. p'[c].sig = s /\ p'[c].pc = "publish" /\ p'[c].id = p[c].id /\ \A d \in Loops \ {c} : p'[d] = p[d]
    BY <1>1, <2>1 DEF Holds
  <2>3. resv'[s] = [id |-> p[c].id, status |-> "PENDING"]
    BY <1>2, <1>3, <2>1
  <2> QED
    BY <1>2, <1>4, <2>1, <2>2, <2>3
<1>5. CASE Reserve(c) /\ resv[s] # NoResv
  <2> DEFINE pc == IF resv[s].status = "PENDING" THEN "publish" ELSE "commit"
  <2>1. /\ resv' = resv /\ approved' = approved
        /\ p' = [p EXCEPT ![c] = [sig |-> s, n |-> p[c].n, id |-> resv[s].id, pc |-> pc]]
    BY <1>5 DEF Reserve, WithReservation
  <2>2. p'[c] = [sig |-> s, n |-> p[c].n, id |-> resv[s].id, pc |-> pc] /\ \A d \in Loops \ {c} : p'[d] = p[d]
    BY <1>1, <2>1
  <2> QED
    BY <1>2, <1>3, <1>5, <2>1, <2>2
<1>6. CASE ReserveFails(c)
  <2>1. /\ resv' = resv \/ (resv[s] = NoResv /\ resv' = [resv EXCEPT ![s] = [id |-> p[c].id, status |-> "PENDING"]])
        /\ p' = [p EXCEPT ![c].pc = "failed"] /\ approved' = approved
    BY <1>6 DEF ReserveFails, Goto
  <2>2. p'[c].sig = s /\ p'[c].pc = "failed" /\ \A d \in Loops \ {c} : p'[d] = p[d]
    BY <1>1, <2>1 DEF Holds
  <2> QED
    BY <1>2, <2>1, <2>2
<1> QED
  BY <1>4, <1>5, <1>6

\* The decisions stay typed.
LEMMA DecisionTypesStep == TypeInv /\ DecisionInv /\ [Next]_vars => DecisionTypes'
<1> SUFFICES ASSUME TypeInv, DecisionInv, [Next]_vars
             PROVE  DecisionTypes'
  OBVIOUS
<1>0. /\ resv \in [Signals -> Reservations]
      /\ \A s \in Signals : resv[s].id = None <=> resv[s].status = "none"
      /\ approved \subseteq (Signals \ malformed) \X (Nat \ {None})
      /\ IsFiniteSet(approved)
      /\ \A c \in Loops : p[c].pc = "reserve" => p[c].id # None
      /\ malformed' = malformed
  BY MalformedFixed DEF TypeInv, DecisionTypes
<1>1. CASE Quiet
  BY <1>0, <1>1 DEF Quiet, Deciding, DecisionTypes
<1>2. ASSUME NEW c \in Loops, Take(c) PROVE DecisionTypes'
  BY <1>0, <1>2, TakeFacts DEF DecisionTypes
<1>3. ASSUME NEW c \in Loops, Reserve(c) \/ ReserveFails(c) PROVE DecisionTypes'
  <2> DEFINE s == p[c].sig
             r == [id |-> p[c].id, status |-> "PENDING"]
  <2>1. /\ s \in Signals /\ approved' = approved /\ p[c].id \in Nat \ {None}
        /\ resv' = resv \/ resv' = [resv EXCEPT ![s] = r]
        /\ p'[c].pc # "reserve" /\ \A d \in Loops \ {c} : p'[d] = p[d]
    BY <1>3, ReserveFacts
  <2>2. r \in Reservations /\ r.id # None /\ r.status # "none"
    BY <2>1 DEF Reservations
  <2> HIDE DEF r
  <2> QED
    BY <1>0, <2>1, <2>2 DEF DecisionTypes
<1>4. ASSUME NEW c \in Loops, Publish(c) \/ PublishFails(c) PROVE DecisionTypes'
  <2> DEFINE a == <<p[c].sig, p[c].id>>
  <2>1. /\ p[c].pc = "publish" /\ resv' = resv /\ approved' \in {approved, approved \cup {a}}
        /\ p' = [p EXCEPT ![c].pc = "mark"] \/ p' = [p EXCEPT ![c].pc = "failed"]
    BY <1>4 DEF Publish, PublishFails, Goto
  <2>2. p[c].sig \in Signals \ malformed /\ p[c].id \in Nat /\ p \in [Consumers -> Holds] /\ c \in Consumers
    BY <2>1, HoldFacts DEF TypeInv, HoldTypes, Loops, Consumers
  <2>3. p[c].id # None
    BY <1>0, <2>1, <2>2 DEF DecisionInv, LoopsAgree
  <2>4. IsFiniteSet(approved \cup {a})
    BY <1>0, FS_AddElement
  <2>5. \A d \in Loops : p'[d].pc = "reserve" => p'[d] = p[d]
    BY <2>1, <2>2 DEF Holds, Loops, Consumers
  <2>6. a \in (Signals \ malformed) \X (Nat \ {None})
    BY <2>2, <2>3
  <2> HIDE DEF a
  <2>7. approved' \subseteq (Signals \ malformed)' \X (Nat \ {None}) /\ IsFiniteSet(approved')
    BY <1>0, <2>1, <2>4, <2>6
  <2> QED
    BY <1>0, <2>1, <2>5, <2>7 DEF DecisionTypes
<1>5. ASSUME NEW c \in Loops, MarkPublished(c) PROVE DecisionTypes'
  <2> DEFINE s == p[c].sig
  <2>1. /\ p[c].pc = "mark" /\ approved' = approved
        /\ resv' = resv \/ resv' = [resv EXCEPT ![s].status = "PUBLISHED"]
        /\ p' = [p EXCEPT ![c].pc = "commit"] \/ p' = [p EXCEPT ![c].pc = "failed"]
    BY <1>5 DEF MarkPublished, Goto
  <2>2. s \in Signals /\ p \in [Consumers -> Holds] /\ c \in Consumers
    BY <2>1, HoldFacts DEF TypeInv, HoldTypes, Loops, Consumers
  <2>3. resv[s].id # None
    BY <1>0, <2>1, <2>2 DEF DecisionInv, LoopsAgree
  <2>4. \A d \in Loops : p'[d].pc = "reserve" => p'[d] = p[d]
    BY <2>1, <2>2 DEF Holds, Loops, Consumers
  <2>5. /\ resv' \in [Signals -> Reservations]
        /\ \A t \in Signals : resv'[t].id = None <=> resv'[t].status = "none"
    BY <1>0, <2>1, <2>2, <2>3 DEF Reservations
  <2> QED
    BY <1>0, <2>1, <2>4, <2>5 DEF DecisionTypes
<1> QED
  BY <1>1, <1>2, <1>3, <1>4, <1>5, QuietOrDecides DEF Decides

\* A signal keeps its one decision.
LEMMA DecisionStep == TypeInv /\ DecisionInv /\ [Next]_vars => DecisionInv'
<1> SUFFICES ASSUME TypeInv, DecisionInv, [Next]_vars
             PROVE  DecisionInv'
  OBVIOUS
<1>0. /\ resv \in [Signals -> Reservations] /\ p \in [Consumers -> Holds] /\ Loops \subseteq Consumers
      /\ \A s \in Signals : resv[s].id = None <=> resv[s].status = "none"
      /\ approved \subseteq Signals \X (Nat \ {None})
      /\ \A c \in Loops : p[c].pc # "idle" => p[c].sig \in Signals
  BY DEF TypeInv, HoldTypes, DecisionTypes, Loops, Consumers
<1>1. CASE Quiet
  <2>1. LoopsAgree'
    BY <1>1 DEF Quiet, Deciding, DecisionInv, LoopsAgree
  <2> QED
    BY <1>1, <2>1 DEF Quiet, DecisionInv, OneApprovalId, MarkedIsPublished
<1>2. ASSUME NEW c \in Loops, Take(c) PROVE DecisionInv'
  <2>1. LoopsAgree'
    BY <1>2, TakeFacts DEF DecisionInv, LoopsAgree
  <2>2. resv' = resv /\ approved' = approved
    BY <1>2, TakeFacts
  <2> QED
    BY <2>1, <2>2 DEF DecisionInv, OneApprovalId, MarkedIsPublished
<1>3. ASSUME NEW c \in Loops, Reserve(c) \/ ReserveFails(c) PROVE DecisionInv'
  <2> DEFINE s == p[c].sig
             r == [id |-> p[c].id, status |-> "PENDING"]
  <2>1. /\ s \in Signals /\ approved' = approved
        /\ \/ resv' = resv
           \/ resv[s] = NoResv /\ resv' = [resv EXCEPT ![s] = r]
        /\ p'[c].sig = s /\ p'[c].pc # "mark" /\ \A d \in Loops \ {c} : p'[d] = p[d]
        /\ p'[c].pc = "publish" => resv'[s].status # "none" /\ p'[c].id = resv'[s].id
    BY <1>3, ReserveFacts
  <2>2. \A t \in Signals : \/ resv'[t] = resv[t]
                           \/ t = s /\ resv'[t].status = "PENDING" /\ resv[t].status = "none" /\ resv[t].id = None
    BY <1>0, <2>1 DEF NoResv
  <2> HIDE DEF r
  <2>3. LoopsAgree'
    <3> SUFFICES ASSUME NEW d \in Loops
                 PROVE  /\ p'[d].pc \in {"publish", "mark"} =>
                             resv'[p'[d].sig].status # "none" /\ resv'[p'[d].sig].id = p'[d].id
                        /\ p'[d].pc = "mark" => <<p'[d].sig, p'[d].id>> \in approved'
      BY DEF LoopsAgree
    <3>1. CASE d = c
      BY <2>1, <3>1
    <3>2. CASE d # c
      BY <1>0, <2>1, <2>2, <3>2 DEF DecisionInv, LoopsAgree
    <3> QED
      BY <3>1, <3>2
  <2>4. OneApprovalId'
    <3> SUFFICES ASSUME NEW a \in approved
                 PROVE  resv'[a[1]].id = a[2]
      BY <2>1 DEF OneApprovalId
    <3>1. a[1] \in Signals /\ a[2] # None /\ resv[a[1]].id = a[2]
      BY <1>0 DEF DecisionInv, OneApprovalId
    <3> QED
      BY <2>2, <3>1
  <2>5. MarkedIsPublished'
    BY <2>1, <2>2 DEF DecisionInv, MarkedIsPublished
  <2> QED
    BY <2>3, <2>4, <2>5 DEF DecisionInv
<1>4. ASSUME NEW c \in Loops, Publish(c) \/ PublishFails(c) PROVE DecisionInv'
  <2> DEFINE a == <<p[c].sig, p[c].id>>
  <2>1. /\ p[c].pc = "publish" /\ resv' = resv /\ approved' \in {approved, approved \cup {a}}
        /\ \/ p' = [p EXCEPT ![c].pc = "mark"] /\ approved' = approved \cup {a}
           \/ p' = [p EXCEPT ![c].pc = "failed"]
    BY <1>4 DEF Publish, PublishFails, Goto
  <2>2. resv[p[c].sig].status # "none" /\ resv[p[c].sig].id = p[c].id
    BY <2>1 DEF DecisionInv, LoopsAgree
  <2>3. /\ \A d \in Loops \ {c} : p'[d] = p[d]
        /\ p'[c].sig = p[c].sig /\ p'[c].id = p[c].id
        /\ p'[c].pc = "failed" \/ (p'[c].pc = "mark" /\ a \in approved')
    BY <1>0, <2>1 DEF Holds
  <2>4. LoopsAgree'
    BY <2>1, <2>2, <2>3 DEF DecisionInv, LoopsAgree
  <2>5. OneApprovalId'
    BY <2>1, <2>2 DEF DecisionInv, OneApprovalId
  <2>6. MarkedIsPublished'
    BY <2>1 DEF DecisionInv, MarkedIsPublished
  <2> QED
    BY <2>4, <2>5, <2>6 DEF DecisionInv
<1>5. ASSUME NEW c \in Loops, MarkPublished(c) PROVE DecisionInv'
  <2> DEFINE s == p[c].sig
  <2>1. /\ p[c].pc = "mark" /\ approved' = approved
        /\ resv' = resv \/ resv' = [resv EXCEPT ![s].status = "PUBLISHED"]
        /\ p' = [p EXCEPT ![c].pc = "commit"] \/ p' = [p EXCEPT ![c].pc = "failed"]
    BY <1>5 DEF MarkPublished, Goto
  <2>2. s \in Signals /\ resv[s].status # "none" /\ resv[s].id = p[c].id /\ <<s, p[c].id>> \in approved
    BY <1>0, <2>1 DEF DecisionInv, LoopsAgree
  <2>3. \A d \in Loops : p'[d] = p[d] \/ p'[d].pc \in {"commit", "failed"}
    BY <1>0, <2>1 DEF Holds
  <2>4. \A t \in Signals : /\ resv'[t].id = resv[t].id
                           /\ \/ resv'[t].status = resv[t].status
                              \/ t = s /\ resv'[t].status = "PUBLISHED"
    BY <1>0, <2>1 DEF Reservations
  <2>5. LoopsAgree'
    BY <1>0, <2>1, <2>3, <2>4 DEF DecisionInv, LoopsAgree
  <2>6. OneApprovalId'
    BY <1>0, <2>1, <2>4 DEF DecisionInv, OneApprovalId
  <2>7. MarkedIsPublished'
    BY <2>1, <2>2, <2>4 DEF DecisionInv, MarkedIsPublished
  <2> QED
    BY <2>5, <2>6, <2>7 DEF DecisionInv
<1> QED
  BY <1>1, <1>2, <1>3, <1>4, <1>5, QuietOrDecides DEF Decides

-----------------------------------------------------------------------------
(* No signal is lost *)

\* A step the enriched loop has no part in, and one of its steps between its poll and
\* its commit.
EnrStill == p'["enr"] = p["enr"] /\ pos'["enr"] = pos["enr"] /\ com'["enr"] = com["enr"]
EnrWorks ==
  \/ ExpiredRouted("enr") \/ ExpiredUnrouted("enr") \/ Reserve("enr") \/ ReserveFails("enr")
  \/ Publish("enr") \/ PublishFails("enr") \/ MarkPublished("enr") \/ MarkFails("enr")
  \/ FailedRouted("enr") \/ FailedUnrouted("enr")

\* What a step does to the enriched loop.
LEMMA EnrMoves ==
  TypeInv /\ [Next]_vars =>
    \/ EnrStill \/ Take("enr") \/ TakeFails("enr") \/ EnrWorks
    \/ LoopCommit("enr") \/ CommitFails("enr") \/ RiskCrash
<1> SUFFICES ASSUME TypeInv, [Next]_vars
             PROVE  \/ EnrStill \/ Take("enr") \/ TakeFails("enr") \/ EnrWorks
                    \/ LoopCommit("enr") \/ CommitFails("enr") \/ RiskCrash
  OBVIOUS
<1> USE DEF offsets
<1>0. /\ pos \in [Consumers -> Nat] /\ com \in [Consumers -> Nat] /\ p \in [Consumers -> Holds]
      /\ Consumers = {"ai", "enr", "pen", "rep"}
  BY DEF TypeInv, OffsetTypes, HoldTypes, Consumers
<1>1. CASE \E s \in Signals : PublishPending(s) \/ Expire(s)
  BY <1>1 DEF PublishPending, Expire, EnrStill
<1>2. CASE ToggleHalt \/ ToggleManual \/ Watchdog
  BY <1>2 DEF ToggleHalt, ToggleManual, Watchdog, WatchdogOverride, WatchdogEnriched,
     WatchdogFallback, EnrStill
<1>3. CASE Ai \/ AiPublishFails \/ AiCommitFails \/ AiCrash \/ PenForget
  BY <1>0, <1>3
  DEF Ai, AiForget, AiPublish, AiCommit, AiPublishFails, AiCommitFails, AiCrash, PenForget, Done, Move,
     Commit, EnrStill
<1>4. CASE Loop("enr") \/ LoopFault("enr")
  BY <1>4 DEF Loop, LoopFault, EnrWorks
<1>5. CASE Loop("pen")
  BY <1>0, <1>5
  DEF Loop, Take, WithReservation, ExpiredRouted, Reserve, Publish, MarkPublished,
     FailedRouted,
      LoopCommit, Move, Goto, Done, EnrStill
<1>6. CASE LoopFault("pen")
  BY <1>0, <1>6
  DEF LoopFault, TakeFails, ExpiredUnrouted, ReserveFails, PublishFails, MarkFails,
     FailedUnrouted, CommitFails,
      Move, Goto, Done, EnrStill
<1>7. CASE Replay \/ ReplayFails \/ ReplayCommit \/ ReplayCommitFails
  BY <1>0, <1>7 DEF Replay, ReplayFails, ReplayCommit, ReplayCommitFails, Move, Done, EnrStill
<1>8. CASE UNCHANGED vars
  BY <1>8 DEF vars, EnrStill
<1> QED
  BY <1>1, <1>2, <1>3, <1>4, <1>5, <1>6, <1>7, <1>8 DEF Next, Loops

\* Between its poll and its commit the enriched loop keeps its event and its offsets.
LEMMA EnrWorksFacts ==
  ASSUME TypeInv, EnrWorks
  PROVE  /\ pos' = pos /\ com' = com /\ p["enr"].pc \notin {"idle", "commit", "routed"}
         /\ p'["enr"].sig = p["enr"].sig /\ p'["enr"].pc # "idle"
<1> USE DEF offsets
<1>0. p \in [Consumers -> Holds] /\ "enr" \in Loops /\ "enr" \in Consumers
  BY DEF TypeInv, HoldTypes, Loops, Consumers
<1>1. CASE Reserve("enr") \/ ReserveFails("enr")
  <2>1. p["enr"].pc = "reserve" /\ pos' = pos /\ com' = com
    BY <1>1 DEF Reserve, ReserveFails
  <2>2. p'["enr"].sig = p["enr"].sig /\ p'["enr"].pc \in {"publish", "commit", "failed"}
    BY <1>0, <1>1, ReserveFacts
  <2> QED
    BY <2>1, <2>2
<1>2. CASE ExpiredRouted("enr") \/ ExpiredUnrouted("enr")
  BY <1>0, <1>2 DEF ExpiredRouted, ExpiredUnrouted, Goto, Holds
<1>3. CASE Publish("enr") \/ PublishFails("enr")
  BY <1>0, <1>3 DEF Publish, PublishFails, Goto, Holds
<1>4. CASE MarkPublished("enr") \/ MarkFails("enr")
  BY <1>0, <1>4 DEF MarkPublished, MarkFails, Goto, Holds
<1>5. CASE FailedRouted("enr") \/ FailedUnrouted("enr")
  BY <1>0, <1>5 DEF FailedRouted, FailedUnrouted, Goto, Holds
<1> QED
  BY <1>1, <1>2, <1>3, <1>4, <1>5 DEF EnrWorks

\* The enriched loop keeps what it is at work on ahead of its commit.
LEMMA HeldStep == TypeInv /\ HeldIsUncommitted /\ [Next]_vars => HeldIsUncommitted'
<1> SUFFICES ASSUME TypeInv, HeldIsUncommitted, [Next]_vars
             PROVE  HeldIsUncommitted'
  OBVIOUS
<1>0. /\ pos \in [Consumers -> Nat] /\ com \in [Consumers -> Nat] /\ p \in [Consumers -> Holds]
      /\ com["enr"] <= pos["enr"] /\ pos["enr"] <= Len(enriched) /\ Len(enriched) \in Nat
      /\ "enr" \in Consumers /\ "enr" \in Loops
  BY DEF TypeInv, TopicTypes, OffsetTypes, HoldTypes, Consumers, Loops, Topic
<1>1. \A i \in 1 .. Len(enriched) : enriched'[i] = enriched[i]
  BY TopicsKept DEF Grown
<1>2. p["enr"].pc # "idle" => enriched'[pos["enr"]] = enriched[pos["enr"]]
  BY <1>0, <1>1 DEF HeldIsUncommitted
<1>3. CASE EnrStill
  BY <1>2, <1>3 DEF EnrStill, HeldIsUncommitted
<1>4. CASE Take("enr") \/ TakeFails("enr")
  <2>1. /\ Waiting("enr") /\ pos' = [pos EXCEPT !["enr"] = @ + 1] /\ com' = com
        /\ enriched' = enriched /\ p["enr"].pc = "idle"
    BY <1>4 DEF Take, TakeFails, Polls, Waiting, Move, kafka
  <2>2. p'["enr"].sig = enriched[pos["enr"] + 1].sig /\ p'["enr"].pc # "idle"
    <3>1. CASE Take("enr")
      <4>1. p'["enr"].sig = Event("enr").sig
            /\ p'["enr"].pc \in {"commit", "expired", "reserve", "publish"}
        BY <1>0, <3>1, TakeFacts
      <4> QED
        BY <4>1 DEF Event, Topic
    <3>2. CASE TakeFails("enr")
      BY <1>0, <3>2 DEF TakeFails, Event, Topic
    <3> QED
      BY <1>4, <3>1, <3>2
  <2>3. pos'["enr"] = pos["enr"] + 1 /\ com'["enr"] < pos'["enr"]
    BY <1>0, <2>1
  <2> QED
    BY <2>1, <2>2, <2>3 DEF HeldIsUncommitted
<1>5. CASE EnrWorks
  BY <1>2, <1>5, EnrWorksFacts DEF HeldIsUncommitted
<1>6. CASE LoopCommit("enr")
  BY <1>0, <1>6 DEF LoopCommit, Done, Idle, HeldIsUncommitted
<1>7. CASE CommitFails("enr")
  <2>1. UNCHANGED <<pos, com>> /\ p["enr"].pc # "idle"
    BY <1>7 DEF CommitFails, offsets
  <2>2. p'["enr"].pc = "idle" \/ p'["enr"].sig = p["enr"].sig
    BY <1>0, <1>7 DEF CommitFails, Goto, Done, Idle, Holds
  <2> QED
    BY <1>2, <2>1, <2>2 DEF HeldIsUncommitted
<1>8. CASE RiskCrash
  BY <1>0, <1>8 DEF RiskCrash, Idle, HeldIsUncommitted
<1> QED
  BY <1>3, <1>4, <1>5, <1>6, <1>7, <1>8, EnrMoves

\* What is settled stays settled.
LEMMA SettledKept ==
  ASSUME [Next]_vars, NEW s, Settled(s)
  PROVE  Settled(s)'
<1> SUFFICES /\ dlq \subseteq dlq' /\ rejected \subseteq rejected' /\ dropped \subseteq dropped'
             /\ approved \subseteq approved'
  BY MalformedFixed DEF Settled
<1> USE DEF kafka, decisions, budget
<1>1. CASE \E t \in Signals : PublishPending(t) \/ Expire(t)
  BY <1>1 DEF PublishPending, Expire
<1>2. CASE ToggleHalt \/ ToggleManual \/ Watchdog
  BY <1>2 DEF ToggleHalt, ToggleManual, Watchdog, WatchdogOverride, WatchdogEnriched,
     WatchdogFallback
<1>3. CASE Ai \/ AiPublishFails \/ AiCommitFails \/ AiCrash \/ PenForget
  BY <1>3 DEF Ai, AiForget, AiPublish, AiCommit, AiPublishFails, AiCommitFails, AiCrash, PenForget
<1>4. CASE \E c \in Loops : Loop(c)
  BY <1>4 DEF Loop, Take, ExpiredRouted, Reserve, Publish, MarkPublished, FailedRouted,
     LoopCommit, RouteDlq, RouteRetry
<1>5. CASE \E c \in Loops : LoopFault(c)
  BY <1>5 DEF LoopFault, TakeFails, ExpiredUnrouted, ReserveFails, PublishFails,
     MarkFails, FailedUnrouted, CommitFails, RouteLost
<1>6. CASE Replay \/ ReplayFails \/ ReplayCommit \/ ReplayCommitFails \/ RiskCrash
  BY <1>6 DEF Replay, ReplayFails, ReplayCommit, ReplayCommitFails, RiskCrash
<1>7. CASE UNCHANGED vars
  BY <1>7 DEF vars
<1> QED
  BY <1>1, <1>2, <1>3, <1>4, <1>5, <1>6, <1>7 DEF Next

\* The consumers that carry a signal on, and the steps in which they poll.
Carriers == {"ai", "enr", "rep"}
Polling(c) ==
  \/ c = "ai" /\ (AiForget \/ AiPublish \/ AiPublishFails)
  \/ c = "enr" /\ (Take("enr") \/ TakeFails("enr"))
  \/ c = "rep" /\ (Replay \/ ReplayFails)

\* Only a poll moves a position forward, and by one event.
LEMMA PollsKnown ==
  ASSUME TypeInv, [Next]_vars, NEW c \in Carriers
  PROVE  pos'[c] \in Nat /\ (pos'[c] <= pos[c] \/ (Polling(c) /\ Waiting(c) /\ pos'[c] = pos[c] + 1))
<1> USE DEF offsets
<1>0. /\ pos \in [Consumers -> Nat] /\ com \in [Consumers -> Nat]
      /\ \A d \in Consumers : com[d] <= pos[d] /\ pos[d] <= pos[d]
      /\ Consumers = {"ai", "enr", "pen", "rep"}
  BY DEF TypeInv, OffsetTypes, Consumers
<1>1. CASE UNCHANGED pos
  BY <1>0, <1>1 DEF Carriers
<1>2. CASE AiForget \/ AiPublish \/ AiPublishFails
  BY <1>0, <1>2 DEF AiForget, AiPublish, AiPublishFails, Move, Polling, Carriers
<1>3. CASE PenForget \/ Take("pen") \/ TakeFails("pen")
  BY <1>0, <1>3 DEF PenForget, Take, TakeFails, Move, Carriers
<1>4. CASE Take("enr") \/ TakeFails("enr")
  BY <1>0, <1>4 DEF Take, TakeFails, Polls, Move, Polling, Carriers
<1>5. CASE Replay \/ ReplayFails
  BY <1>0, <1>5 DEF Replay, ReplayFails, Move, Polling, Carriers
<1>6. CASE AiCrash \/ RiskCrash
  BY <1>0, <1>6 DEF AiCrash, RiskCrash, Carriers
<1>7. \/ UNCHANGED pos
      \/ AiForget \/ AiPublish \/ AiPublishFails \/ AiCrash \/ RiskCrash
      \/ PenForget \/ Take("pen") \/ TakeFails("pen") \/ Take("enr") \/ TakeFails("enr")
      \/ Replay \/ ReplayFails
  <2>1. CASE \E s \in Signals : PublishPending(s) \/ Expire(s)
    BY <2>1 DEF PublishPending, Expire
  <2>2. CASE ToggleHalt \/ ToggleManual \/ Watchdog
    BY <2>2 DEF ToggleHalt, ToggleManual, Watchdog, WatchdogOverride, WatchdogEnriched,
       WatchdogFallback
  <2>3. CASE AiCommit \/ AiCommitFails \/ ReplayCommit \/ ReplayCommitFails
    BY <2>3 DEF AiCommit, AiCommitFails, ReplayCommit, ReplayCommitFails
  <2>4. CASE \E d \in Loops : Loop(d) /\ ~Take(d)
    BY <2>4 DEF Loop, ExpiredRouted, Reserve, Publish, MarkPublished, FailedRouted,
       LoopCommit
  <2>5. CASE \E d \in Loops : LoopFault(d) /\ ~TakeFails(d)
    BY <2>5 DEF LoopFault, ExpiredUnrouted, ReserveFails, PublishFails, MarkFails,
       FailedUnrouted, CommitFails
  <2>6. CASE UNCHANGED vars
    BY <2>6 DEF vars
  <2> QED
    BY <2>1, <2>2, <2>3, <2>4, <2>5, <2>6 DEF Next, Loops, Loop, LoopFault, Ai
<1> QED
  BY <1>1, <1>2, <1>3, <1>4, <1>5, <1>6, <1>7

\* An event stays unread until it is polled.
LEMMA UnreadKept ==
  ASSUME TypeInv, [Next]_vars, NEW c \in Carriers, NEW s, Unread(s, c)
  PROVE  Unread(s, c)' \/ (Polling(c) /\ Waiting(c) /\ Event(c).sig = s)
<1>1. PICK i \in pos[c] + 1 .. Len(Topic(c)) : Topic(c)[i].sig = s
  BY DEF Unread
<1>2. pos[c] \in Nat /\ i \in 1 .. Len(Topic(c)) /\ i >= pos[c] + 1
  BY <1>1 DEF TypeInv, OffsetTypes, Carriers, Consumers
<1>3. Grown(Topic(c), Topic(c)')
  BY TopicsKept DEF Topic, Carriers
<1>4. i <= Len(Topic(c)') /\ Topic(c)'[i].sig = s /\ Len(Topic(c)') \in Nat /\ i \in Nat
  BY <1>1, <1>2, <1>3 DEF Grown
<1>5. pos'[c] \in Nat
  BY PollsKnown
<1>6. CASE pos'[c] <= pos[c]
  <2>1. i \in pos'[c] + 1 .. Len(Topic(c)')
    BY <1>2, <1>4, <1>5, <1>6
  <2> QED
    BY <1>4, <2>1 DEF Unread
<1>7. CASE Polling(c) /\ Waiting(c) /\ pos'[c] = pos[c] + 1
  <2>1. CASE i = pos[c] + 1
    BY <1>1, <1>7, <2>1 DEF Event
  <2>2. CASE i # pos[c] + 1
    <3>1. i \in pos'[c] + 1 .. Len(Topic(c)')
      BY <1>2, <1>4, <1>5, <1>7, <2>2
    <3> QED
      BY <1>4, <3>1 DEF Unread
  <2> QED
    BY <2>1, <2>2
<1> QED
  BY <1>6, <1>7, PollsKnown

\* An event that is appended to a topic is unread.
LEMMA AppendedUnread ==
  ASSUME TypeInv, [Next]_vars, NEW c \in Carriers, NEW s, NEW i \in 1 .. Len(Topic(c)'),
         i > Len(Topic(c)), Topic(c)'[i].sig = s
  PROVE  Unread(s, c)'
<1>1. Len(Topic(c)) \in Nat /\ Len(Topic(c)') \in Nat
  BY TopicsKept DEF Topic, Carriers, Grown
<1>2. pos[c] \in Nat /\ pos[c] <= Len(Topic(c))
  BY DEF TypeInv, OffsetTypes, Carriers, Consumers
<1>3. pos'[c] \in Nat /\ pos'[c] <= Len(Topic(c))
  BY <1>1, <1>2, PollsKnown DEF Waiting
<1>4. i \in pos'[c] + 1 .. Len(Topic(c)')
  BY <1>1, <1>3
<1> QED
  BY <1>4 DEF Unread

\* What the AI engine polls is carried on, or was malformed, or a failure hit it.
LEMMA CarriedByAi ==
  ASSUME TypeInv, [Next]_vars, Polling("ai"), Waiting("ai"),
         NEW s, Event("ai").sig = s
  PROVE  Carried(s)'
<1>1. s \in Signals
  BY EventFacts DEF Consumers
<1> SUFFICES (s \in malformed' \cup dropped') \/ Unread(s, "enr")'
  BY DEF Carried, Settled
<1>2. CASE AiForget
  BY <1>2, MalformedFixed DEF AiForget
<1>3. CASE AiPublishFails
  BY <1>3 DEF AiPublishFails
<1>4. CASE AiPublish
  <2> DEFINE k == Len(enriched) + 1
  <2>1. 0 \in Attempts
    BY PipelineAssumption DEF Attempts
  <2>2. enriched' = Append(enriched, [sig |-> s, n |-> 0])
    BY <1>4 DEF AiPublish, Enrich, SignalEvent
  <2>3. Len(enriched) \in Nat /\ Len(enriched') = k /\ enriched'[k] = [sig |-> s, n |-> 0]
    BY <1>1, <2>1, <2>2, TopicsGrow DEF TypeInv
  <2>4. Topic("enr") = enriched /\ Topic("enr")' = enriched' /\ "enr" \in Carriers
    BY DEF Topic, Carriers
  <2>5. k \in 1 .. Len(Topic("enr")') /\ k > Len(Topic("enr")) /\ Topic("enr")'[k].sig = s
    BY <2>3, <2>4
  <2> HIDE DEF k
  <2> QED
    BY <2>4, <2>5, AppendedUnread
<1> QED
  BY <1>2, <1>3, <1>4 DEF Polling

\* What the enriched loop polls is settled, or in its hand.
LEMMA CarriedByEnr ==
  ASSUME TypeInv, DecisionInv, [Next]_vars, Polling("enr"), Waiting("enr"),
         NEW s, Event("enr").sig = s
  PROVE  Carried(s)'
<1>1. s \in Signals /\ "enr" \in Loops /\ "enr" \in Consumers
  BY EventFacts DEF Consumers, Loops
<1>2. CASE Take("enr")
  <2>1. /\ approved' = approved /\ p'["enr"].sig = s
        /\ p'["enr"].pc \in {"commit", "expired", "reserve", "publish"}
        /\ p'["enr"].pc \in {"commit", "expired"} => s \in rejected' \/ resv[s].status = "PUBLISHED"
    BY <1>1, <1>2, TakeFacts
  <2>2. resv[s].status = "PUBLISHED" => <<s, resv[s].id>> \in approved
    BY <1>1 DEF DecisionInv, MarkedIsPublished
  <2>3. resv[s].status = "PUBLISHED" => Settled(s)'
    BY <2>1, <2>2 DEF Settled
  <2>4. s \in rejected' => Settled(s)'
    BY DEF Settled
  <2>5. p'["enr"].pc \in {"reserve", "publish"} => InHand(s)'
    BY <2>1 DEF InHand
  <2> QED
    BY <2>1, <2>3, <2>4, <2>5 DEF Carried
<1>3. CASE TakeFails("enr")
  <2>1. p'["enr"] = [sig |-> s, n |-> Event("enr").n, id |-> None, pc |-> "failed"]
    BY <1>1, <1>3 DEF TakeFails, TypeInv, HoldTypes
  <2>2. InHand(s)'
    BY <2>1 DEF InHand
  <2> QED
    BY <2>2 DEF Carried
<1> QED
  BY <1>2, <1>3 DEF Polling

\* What the replayer polls goes back to a topic that is read, or to the dead letters, or a
\* failure hit it.
LEMMA CarriedByRep ==
  ASSUME TypeInv, [Next]_vars, Polling("rep"), Waiting("rep"),
         NEW s, Event("rep").sig = s
  PROVE  Carried(s)'
<1> DEFINE m == [sig |-> s, n |-> Event("rep").n]
<1>1. s \in Signals /\ Event("rep").n \in Attempts
  BY EventFacts DEF Consumers
<1> SUFFICES (s \in dlq' \cup dropped') \/ Unread(s, "ai")' \/ Unread(s, "enr")'
  BY DEF Carried, Settled
<1>2. CASE ReplayFails
  BY <1>2 DEF ReplayFails
<1>3. CASE Replay
  <2>1. (s \in dlq') \/ pending' = Append(pending, m) \/ enriched' = Append(enriched, m)
    BY <1>3 DEF Replay
  <2>2. CASE pending' = Append(pending, m)
    <3> DEFINE k == Len(pending) + 1
    <3>1. Len(pending) \in Nat /\ Len(pending') = k /\ pending'[k] = m
      BY <1>1, <2>2, TopicsGrow DEF TypeInv
    <3>2. Topic("ai") = pending /\ Topic("ai")' = pending' /\ "ai" \in Carriers
      BY DEF Topic, Carriers
    <3>3. k \in 1 .. Len(Topic("ai")') /\ k > Len(Topic("ai")) /\ Topic("ai")'[k].sig = s
      BY <3>1, <3>2
    <3> HIDE DEF k
    <3> QED
      BY <3>2, <3>3, AppendedUnread
  <2>3. CASE enriched' = Append(enriched, m)
    <3> DEFINE k == Len(enriched) + 1
    <3>1. Len(enriched) \in Nat /\ Len(enriched') = k /\ enriched'[k] = m
      BY <1>1, <2>3, TopicsGrow DEF TypeInv
    <3>2. Topic("enr") = enriched /\ Topic("enr")' = enriched' /\ "enr" \in Carriers
      BY DEF Topic, Carriers
    <3>3. k \in 1 .. Len(Topic("enr")') /\ k > Len(Topic("enr")) /\ Topic("enr")'[k].sig = s
      BY <3>1, <3>2
    <3> HIDE DEF k
    <3> QED
      BY <3>2, <3>3, AppendedUnread
  <2> QED
    BY <2>1, <2>2, <2>3
<1> QED
  BY <1>2, <1>3 DEF Polling

\* A failed event is routed to the retry topic or to the dead letters.
LEMMA CarriedByRouting ==
  ASSUME TypeInv, [Next]_vars, FailedRouted("enr"), NEW s, p["enr"].sig = s
  PROVE  Carried(s)'
<1> DEFINE e == [sig |-> s, n |-> NextRetryAttempt("enr"), src |-> "enr"]
           k == Len(retry) + 1
<1>1. s \in Signals /\ p["enr"].n \in Attempts /\ "enr" \in Loops
  BY HoldFacts DEF FailedRouted, Consumers, Loops
<1>2. CASE NextRetryAttempt("enr") > MaxRetryAttempts
  BY <1>2 DEF FailedRouted, RouteRetry, Carried, Settled
<1>3. CASE ~(NextRetryAttempt("enr") > MaxRetryAttempts)
  <2>1. NextRetryAttempt("enr") \in Attempts
    BY <1>1, <1>3, PipelineAssumption DEF NextRetryAttempt, Attempts
  <2>2. retry' = Append(retry, e)
    BY <1>3 DEF FailedRouted, RouteRetry
  <2>3. Len(retry) \in Nat /\ Len(Append(retry, e)) = k /\ Append(retry, e)[k] = e
    BY <1>1, <2>1, TopicsGrow DEF TypeInv
  <2>4. Topic("rep") = retry /\ Topic("rep")' = retry' /\ "rep" \in Carriers
    BY DEF Topic, Carriers
  <2>5. k \in 1 .. Len(Topic("rep")') /\ k > Len(Topic("rep")) /\ Topic("rep")'[k].sig = s
    BY <2>2, <2>3, <2>4
  <2> HIDE DEF k
  <2> QED
    BY <2>4, <2>5, AppendedUnread DEF Carried
<1> QED
  BY <1>2, <1>3

\* What the enriched loop works on stays in its hand, or is settled, or unread again.
LEMMA CarriedInHand ==
  ASSUME TypeInv, DecisionInv, HeldIsUncommitted, [Next]_vars, NEW s \in Signals, InHand(s)
  PROVE  Carried(s)'
<1>0. /\ p["enr"].pc \notin {"idle", "commit", "routed"} /\ s = p["enr"].sig
      /\ "enr" \in Loops /\ "enr" \in Consumers /\ p \in [Consumers -> Holds]
  BY DEF InHand, Loops, Consumers, TypeInv, HoldTypes
<1>1. CASE EnrStill
  BY <1>0, <1>1 DEF EnrStill, InHand, Carried
<1>2. CASE Take("enr") \/ TakeFails("enr") \/ LoopCommit("enr") \/ CommitFails("enr")
  BY <1>0, <1>2 DEF Take, TakeFails, LoopCommit, CommitFails, Polls, Waiting
<1>3. CASE EnrWorks /\ p'["enr"].pc \notin {"commit", "routed"}
  BY <1>0, <1>3, EnrWorksFacts DEF InHand, Carried
<1>4. CASE EnrWorks /\ p'["enr"].pc \in {"commit", "routed"}
  <2>1. CASE ExpiredRouted("enr")
    BY <1>0, <2>1 DEF ExpiredRouted, RouteDlq, Carried, Settled
  <2>2. CASE ExpiredUnrouted("enr") \/ FailedUnrouted("enr")
    BY <1>0, <2>2 DEF ExpiredUnrouted, FailedUnrouted, RouteLost, Carried, Settled
  <2>3. CASE Reserve("enr") \/ ReserveFails("enr")
    <3>1. approved' = approved /\ resv[s].status = "PUBLISHED"
      BY <1>0, <1>4, <2>3, ReserveFacts
    <3>2. <<s, resv[s].id>> \in approved'
      BY <3>1 DEF DecisionInv, MarkedIsPublished
    <3> QED
      BY <3>2 DEF Carried, Settled
  <2>4. CASE Publish("enr") \/ PublishFails("enr") \/ MarkFails("enr")
    <3>1. p'["enr"].pc \in {"mark", "failed"}
      BY <1>0, <2>4 DEF Publish, PublishFails, MarkFails, Goto, Holds
    <3> QED
      BY <1>4, <3>1
  <2>5. CASE MarkPublished("enr")
    <3>1. <<s, p["enr"].id>> \in approved'
      BY <1>0, <2>5 DEF MarkPublished, DecisionInv, LoopsAgree
    <3> QED
      BY <3>1 DEF Carried, Settled
  <2>6. CASE FailedRouted("enr")
    BY <1>0, <2>6, CarriedByRouting
  <2> QED
    BY <1>4, <2>1, <2>2, <2>3, <2>4, <2>5, <2>6 DEF EnrWorks
<1>5. CASE RiskCrash
  <2> DEFINE i == pos["enr"]
  <2>1. pos'["enr"] = com["enr"] /\ enriched' = enriched
    BY <1>0, <1>5 DEF RiskCrash, kafka, TypeInv, OffsetTypes
  <2>2. com["enr"] < i /\ enriched[i].sig = s /\ com["enr"] \in Nat /\ i \in Nat
    BY <1>0 DEF HeldIsUncommitted, TypeInv, OffsetTypes
  <2>3. i <= Len(enriched) /\ Len(enriched) \in Nat
    BY <1>0 DEF TypeInv, OffsetTypes, TopicTypes, Topic
  <2>4. i \in pos'["enr"] + 1 .. Len(enriched') /\ enriched'[i].sig = s
    BY <2>1, <2>2, <2>3
  <2>5. Topic("enr")' = enriched'
    BY DEF Topic
  <2> HIDE DEF i
  <2> QED
    BY <2>4, <2>5 DEF Carried, Unread
<1> QED
  BY <1>1, <1>2, <1>3, <1>4, <1>5, EnrMoves

\* Somebody has every published signal that is not settled.
LEMMA AllCarriedStep ==
  TypeInv /\ DecisionInv /\ HeldIsUncommitted /\ AllCarried /\ [Next]_vars => AllCarried'
<1> SUFFICES ASSUME TypeInv, DecisionInv, HeldIsUncommitted, AllCarried, [Next]_vars,
                    NEW s \in Signals, Published(s)'
             PROVE  Carried(s)'
  BY DEF AllCarried
<1>1. CASE Published(s)
  <2>1. Carried(s)
    BY <1>1 DEF AllCarried
  <2>2. CASE Settled(s)
    BY <2>2, SettledKept DEF Carried
  <2>3. CASE Unread(s, "ai")
    BY <2>3, UnreadKept, CarriedByAi DEF Carriers, Carried
  <2>4. CASE Unread(s, "enr")
    BY <2>4, UnreadKept, CarriedByEnr DEF Carriers, Carried
  <2>5. CASE Unread(s, "rep")
    BY <2>5, UnreadKept, CarriedByRep DEF Carriers, Carried
  <2>6. CASE InHand(s)
    BY <2>6, CarriedInHand
  <2> QED
    BY <2>1, <2>2, <2>3, <2>4, <2>5, <2>6 DEF Carried
<1>2. CASE ~Published(s)
  <2>1. PICK i \in DOMAIN pending' : pending'[i].sig = s
    BY DEF Published
  <2>2. pending \in Seq(Events) /\ pending' \in Seq(Events)
    BY TopicStep DEF TypeInv, TopicTypes
  <2>3. i \in 1 .. Len(pending') /\ Len(pending) \in Nat /\ DOMAIN pending = 1 .. Len(pending)
    BY <2>1, <2>2
  <2>4. i > Len(pending)
    BY <1>2, <2>1, <2>3, TopicsKept DEF Published, Grown
  <2>5. Topic("ai") = pending /\ Topic("ai")' = pending' /\ "ai" \in Carriers
    BY DEF Topic, Carriers
  <2>6. Unread(s, "ai")'
    BY <2>1, <2>3, <2>4, <2>5, AppendedUnread
  <2> QED
    BY <2>6 DEF Carried
<1> QED
  BY <1>1, <1>2

-----------------------------------------------------------------------------
(* The theorems *)

\* The initial states satisfy the invariant: nothing is published.
LEMMA InvInit == Init => IInv
<1> SUFFICES ASSUME Init
             PROVE  IInv
  OBVIOUS
<1> USE DEF Init
<1>1. TopicTypes /\ OffsetTypes
  <2>1. /\ pending \in Seq(Events) /\ enriched \in Seq(GoodEvents) /\ retry \in Seq(Envelopes)
        /\ Len(pending) = 0 /\ Len(enriched) = 0 /\ Len(retry) = 0
    OBVIOUS
  <2>2. \A c \in Consumers : Len(Topic(c)) = 0 /\ pos[c] = 0 /\ com[c] = 0
    BY <2>1 DEF Topic
  <2> QED
    BY <2>1, <2>2 DEF TopicTypes, OffsetTypes
<1>2. HoldTypes
  <2>1. Idle \in Holds /\ Idle.pc = "idle"
    BY PipelineAssumption DEF Idle, Holds, Steps, Attempts, None
  <2> QED
    BY <2>1 DEF HoldTypes
<1>3. DecisionTypes
  <2>1. NoResv \in Reservations /\ NoResv.id = None /\ NoResv.status = "none"
    BY DEF NoResv, Reservations, None
  <2>2. IsFiniteSet(approved)
    BY FS_EmptySet
  <2>3. \A c \in Loops : p[c].pc = "idle"
    BY DEF Idle, Loops, Consumers
  <2> QED
    BY <2>1, <2>2, <2>3 DEF DecisionTypes
<1>4. WatchTypes
  BY PipelineAssumption DEF WatchTypes
<1>5. DecisionInv
  BY DEF DecisionInv, LoopsAgree, OneApprovalId, MarkedIsPublished, Idle, Loops,
     Consumers, NoResv
<1>6. HeldIsUncommitted
  BY DEF HeldIsUncommitted, Idle, Consumers
<1>7. AllCarried
  BY DEF AllCarried, Published
<1> QED
  BY <1>1, <1>2, <1>3, <1>4, <1>5, <1>6, <1>7 DEF IInv, TypeInv

\* The invariant is inductive.
LEMMA InvStep == IInv /\ [Next]_vars => IInv'
BY TopicStep, OffsetStep, HoldStep, DecisionTypesStep, WatchStep, DecisionStep,
   HeldStep,
   AllCarriedStep DEF IInv, TypeInv

\* The invariant implies what is promised of a decision.
LEMMA InvDecision == IInv => DecisionIsSingle
<1> SUFFICES ASSUME IInv
             PROVE  DecisionIsSingle
  OBVIOUS
<1>1. TypeInv /\ OneApprovalId /\ MarkedIsPublished
  BY DEF IInv, DecisionInv
<1>2. /\ dlq \subseteq Signals /\ rejected \subseteq Signals /\ dropped \subseteq Signals
      /\ expired \subseteq Signals
  BY <1>1 DEF TypeInv, TopicTypes
<1>3. \A c \in Consumers : 0 <= com[c] /\ com[c] <= pos[c] /\ pos[c] <= Len(Topic(c))
  BY <1>1 DEF TypeInv, OffsetTypes
<1>4. \A c \in Consumers : p[c].pc # "idle" => pos[c] > 0 /\ p[c].sig \in Signals \ malformed
  BY <1>1 DEF TypeInv, HoldTypes
<1>5. \A s \in Signals : resv[s].status \in {"none", "PENDING", "PUBLISHED"}
                         /\ (resv[s].id = None <=> resv[s].status = "none")
  BY <1>1 DEF TypeInv, DecisionTypes, Reservations
<1>6. \A a \in approved : a[1] \in Signals \ malformed /\ a[2] # None
  BY <1>1 DEF TypeInv, DecisionTypes
<1>7. /\ \A i \in DOMAIN pending : pending[i].n \in Attempts
      /\ \A i \in DOMAIN enriched : enriched[i].n \in Attempts
  <2>1. pending \in Seq(Events) /\ enriched \in Seq(GoodEvents)
    BY <1>1 DEF TypeInv, TopicTypes
  <2>2. /\ \A i \in DOMAIN pending : pending[i] \in Events
        /\ \A i \in DOMAIN enriched : enriched[i] \in GoodEvents
    BY <2>1
  <2> QED
    BY <2>2 DEF Events, GoodEvents
<1>8. count \in 0 .. (IF use THEN Window ELSE RecoveryWindow) - 1
  BY <1>1 DEF TypeInv, WatchTypes
<1> QED
  BY <1>1, <1>2, <1>3, <1>4, <1>5, <1>6, <1>7, <1>8 DEF DecisionIsSingle, TypeOK, Attempts

\* What is carried is not lost: the commits are behind the positions, and the event the
\* enriched loop works on is after its commit.
LEMMA InvNotLost == IInv => NoSignalLost
<1> SUFFICES ASSUME IInv, NEW s \in Signals, Published(s)
             PROVE  Settled(s) \/ Ahead(s, "ai") \/ Ahead(s, "enr") \/ Ahead(s, "rep")
  BY DEF NoSignalLost
<1>1. TypeInv /\ HeldIsUncommitted /\ Carried(s)
  BY DEF IInv, AllCarried
<1>2. ASSUME NEW c \in Carriers, Unread(s, c)
      PROVE  Ahead(s, c)
  <2>1. com[c] \in Nat /\ pos[c] \in Nat /\ com[c] <= pos[c]
    BY <1>1 DEF TypeInv, OffsetTypes, Carriers, Consumers
  <2>2. PICK i \in pos[c] + 1 .. Len(Topic(c)) : Topic(c)[i].sig = s
    BY <1>2 DEF Unread
  <2>3. i \in com[c] + 1 .. Len(Topic(c))
    BY <2>1, <2>2
  <2> QED
    BY <2>2, <2>3 DEF Ahead
<1>3. ASSUME InHand(s)
      PROVE  Ahead(s, "enr")
  <2> DEFINE i == pos["enr"]
  <2>1. com["enr"] < i /\ enriched[i].sig = s
    BY <1>1, <1>3 DEF InHand, HeldIsUncommitted
  <2>2. com["enr"] \in Nat /\ i \in Nat /\ i <= Len(enriched) /\ Len(enriched) \in Nat /\ Topic("enr") = enriched
    BY <1>1 DEF TypeInv, OffsetTypes, TopicTypes, Topic, Consumers
  <2>3. i \in com["enr"] + 1 .. Len(Topic("enr")) /\ Topic("enr")[i].sig = s
    BY <2>1, <2>2
  <2> HIDE DEF i
  <2> QED
    BY <2>3 DEF Ahead
<1> QED
  BY <1>1, <1>2, <1>3 DEF Carried, Carriers

\* Every step decides for an undecided signal, sends an approval of a decided one, closes a
\* decision whose approval is out, or changes nothing that the readers of decisions see.
LEMMA StepDecides == TypeInv /\ DecisionInv /\ [Next]_vars => [Decision!Next]_<<resv, approved>>
<1> SUFFICES ASSUME TypeInv, DecisionInv, [Next]_vars
             PROVE  [Decision!Next]_<<resv, approved>>
  OBVIOUS
<1>0. /\ p \in [Consumers -> Holds] /\ Loops \subseteq Consumers
      /\ resv \in [Signals -> Reservations]
      /\ LoopsAgree
  BY DEF TypeInv, HoldTypes, Loops, Consumers, DecisionTypes, DecisionInv
<1>1. CASE Quiet
  BY <1>1 DEF Quiet
<1>2. ASSUME NEW c \in Loops, Take(c) PROVE UNCHANGED <<resv, approved>>
  BY <1>2 DEF Take
<1>3. ASSUME NEW c \in Loops, Reserve(c) \/ ReserveFails(c) PROVE [Decision!Next]_<<resv, approved>>
  <2> DEFINE s == p[c].sig
             i == p[c].id
  <2>1. /\ s \in Signals /\ i \in Nat \ {None} /\ approved' = approved
        /\ \/ resv' = resv
           \/ resv[s] = NoResv /\ resv' = [resv EXCEPT ![s] = [id |-> i, status |-> "PENDING"]]
    BY <1>3, ReserveFacts
  <2> HIDE DEF s, i
  <2>2. ASSUME resv[s] = NoResv, resv' = [resv EXCEPT ![s] = [id |-> i, status |-> "PENDING"]]
        PROVE  Decision!Decide(s)
    <3>1. resv'[s] = [id |-> i, status |-> "PENDING"]
      BY <1>0, <2>1, <2>2
    <3>2. resv'[s].id = i
      BY <3>1
    <3>3. resv[s] = Decision!Undecided
      BY <2>2 DEF Decision!Undecided, NoResv, None
    <3> QED
      BY <2>1, <2>2, <3>2, <3>3 DEF Decision!Decide, None
  <2> QED
    BY <2>1, <2>2 DEF Decision!Next
<1>4. ASSUME NEW c \in Loops, Publish(c) \/ PublishFails(c) PROVE [Decision!Next]_<<resv, approved>>
  <2> DEFINE s == p[c].sig
  <2>1. /\ p[c].pc = "publish" /\ resv' = resv
        /\ approved' = approved \/ approved' = approved \cup {<<s, p[c].id>>}
    BY <1>4 DEF Publish, PublishFails
  <2>2. s \in Signals /\ resv[s].status # "none" /\ resv[s].id = p[c].id
    BY <1>0, <2>1, HoldFacts DEF LoopsAgree, TypeInv, HoldTypes
  <2> HIDE DEF s
  <2>3. resv[s] # Decision!Undecided
    BY <2>2 DEF Decision!Undecided
  <2>4. ASSUME approved' = approved \cup {<<s, p[c].id>>} PROVE Decision!Approve(s)
    BY <2>1, <2>2, <2>3, <2>4 DEF Decision!Approve
  <2> QED
    BY <2>1, <2>2, <2>4 DEF Decision!Next
<1>5. ASSUME NEW c \in Loops, MarkPublished(c) PROVE [Decision!Next]_<<resv, approved>>
  <2> DEFINE s == p[c].sig
  <2>1. /\ p[c].pc = "mark" /\ approved' = approved
        /\ resv' = resv \/ resv' = [resv EXCEPT ![s].status = "PUBLISHED"]
    BY <1>5 DEF MarkPublished
  <2>2. /\ s \in Signals /\ resv[s].status # "none" /\ resv[s].id = p[c].id
        /\ <<s, p[c].id>> \in approved
    BY <1>0, <2>1, HoldFacts DEF LoopsAgree, TypeInv, HoldTypes
  <2> HIDE DEF s
  <2>3. resv[s].status \in {"PENDING", "PUBLISHED"}
    BY <1>0, <2>2 DEF Reservations
  <2>4. ASSUME resv' = [resv EXCEPT ![s].status = "PUBLISHED"], resv[s].status = "PENDING"
        PROVE  Decision!Close(s)
    BY <2>1, <2>2, <2>4 DEF Decision!Close
  <2>5. ASSUME resv' = [resv EXCEPT ![s].status = "PUBLISHED"], resv[s].status = "PUBLISHED"
        PROVE  resv' = resv
    BY <1>0, <2>2, <2>5 DEF Reservations
  <2> QED
    BY <2>1, <2>2, <2>3, <2>4, <2>5 DEF Decision!Next
<1> QED
  BY <1>1, <1>2, <1>3, <1>4, <1>5, QuietOrDecides DEF Decides

\* KafkaFailurePublisher, RiskEngineService and the AI engine keep a signal's decision
\* single: however often it is delivered, every approval carries the one reserved id, and
\* a reservation that silences later copies has been published.
THEOREM SingleDecision == Spec => []DecisionIsSingle
<1>1. Init => IInv
  BY InvInit
<1>2. IInv /\ [Next]_vars => IInv'
  BY InvStep
<1>3. IInv => DecisionIsSingle
  BY InvDecision
<1> QED
  BY <1>1, <1>2, <1>3, PTL DEF Spec

\* The pipeline implements SignalDecision: whichever loop takes whichever copy, and whatever fails,
\* a signal is decided for once, approved under that id only, and closed after its approval
\* (_reserve_risk_decision, KafkaApprovedPublisher.publish, _mark_risk_decision_published).
THEOREM ImplementsDecision == Spec => DecidesOnce
<1>1. Init => Decision!Init
  BY DEF Init, Decision!Init, Decision!Undecided, NoResv, None
<1>2. IInv /\ [Next]_vars => [Decision!Next]_<<resv, approved>>
  BY StepDecides DEF IInv
<1>3. IInv /\ [Next]_vars => IInv'
  BY InvStep
<1> QED
  BY <1>1, <1>2, <1>3, InvInit, PTL DEF Spec, DecidesOnce, Decision!Spec

\* No crash of the AI engine or of the risk engine and no failed request loses a signal
\* between signals.pending and its decision: it is settled or ahead of a committed offset.
THEOREM SignalsAreKept == Spec => []NothingLost
<1>1. Init => IInv
  BY InvInit
<1>2. IInv /\ [Next]_vars => IInv'
  BY InvStep
<1>3. IInv => NothingLost
  BY InvNotLost, InvDecision DEF NothingLost, DecisionIsSingle
<1> QED
  BY <1>1, <1>2, <1>3, PTL DEF Spec

=============================================================================
