------------------------------ MODULE TickFeed ------------------------------
(***************************************************************************)
(* Ticks of one symbol from the broker's websocket to the strategies:      *)
(* ZerodhaConnector and TickProcessor, KafkaTickPublisher with its outbox  *)
(* (data_ingestion), the topic, KafkaTickConsumer, the tick loop of the    *)
(* strategy engine and its KafkaRetryReplayer, which puts the ticks of the *)
(* retry topic back into the topic.                                        *)
(*                                                                         *)
(* Every tick is processed by a coroutine of its own, so that two ticks    *)
(* may overtake each other.  The unit of time is left open: what matters   *)
(* is that a row becomes due for replay only after it is too old for it.   *)
(***************************************************************************)
EXTENDS Naturals, Sequences, FiniteSets

CONSTANTS
  NTicks, MaxTime,
  GapTicks,              \* RECONNECT_GAP_TICKS
  Threshold,             \* _KILL_SWITCH_THRESHOLD
  MaxAge, ReplayAfter,   \* of a replayed tick, of an outbox row: 5 and 35 seconds
  BatchSize,             \* of the S3 writer
  MaxFaults

VARIABLES
  link, subscribed, gap, \* the connector; _gap_ticks_remaining
  fresh,                 \* history: ticks since the last attempt to reconnect
  tick,                  \* the ticks made: at, gap, born, early (history)
  buffer, pending, latest,   \* S3 buffer, latest price buffered and in its table
  row, queue,            \* the outbox; the producer's buffer
  production, failures, fired, halted,
  topic, pos, committed, hand, seen, signalled,
  retries, failed,       \* ticks in the retry topic; history: ticks the tick loop failed on
  now, faults

connector == <<link, subscribed, gap, fresh>>
store == <<buffer, pending, latest>>
publisher == <<row, queue, failures, fired>>
engine == <<pos, committed, hand, seen, signalled, retries, failed>>
vars == <<connector, tick, store, publisher, production, halted, topic, engine, now, faults>>

Ticks == 1..NTicks
NoRow == [is |-> "none", due |-> 0]
Idle == [tick |-> 0, at |-> "idle"]

Init ==
  /\ link = "off" /\ subscribed = FALSE /\ gap = 0 /\ fresh = GapTicks /\ tick = <<>>
  /\ buffer = 0 /\ pending = 0 /\ latest = 0
  /\ row = [i \in Ticks |-> NoRow] /\ queue = <<>>
  /\ production \in BOOLEAN /\ failures = 0 /\ fired = FALSE /\ halted = FALSE
  /\ topic = <<>> /\ pos = 0 /\ committed = 0 /\ hand = Idle /\ retries = {} /\ failed = {}
  /\ seen = [i \in Ticks |-> 0] /\ signalled = {} /\ now = 0 /\ faults = 0

Fault == faults < MaxFaults /\ faults' = faults + 1

----------------------------------------------------------------------------
(* The connector.                                                          *)

\* connect gives up after 30 seconds.
Connect == {"up", "down"}

\* _subscribe_to_instruments passes over a connector that did not connect, may
\* fail, and is never repeated.
Subscribe(to) == {FALSE, to = "up"}

Start ==
  /\ link = "off" /\ link' \in Connect /\ subscribed' \in Subscribe(link')
  /\ IF subscribed' THEN UNCHANGED faults ELSE Fault
  /\ UNCHANGED <<gap, fresh, tick, store, publisher, production, halted, topic, engine, now>>

OnClose ==
  /\ link = "up" /\ Fault /\ link' = "down"
  /\ UNCHANGED <<subscribed, gap, fresh, tick, store, publisher, production, halted, topic, engine, now>>

\* Called at every attempt, before the connection is there.
OnReconnect ==
  /\ link \in {"down", "trying"} /\ link' = "trying" /\ gap' = GapTicks /\ fresh' = 0
  /\ UNCHANGED <<subscribed, tick, store, publisher, production, halted, topic, engine, now, faults>>

\* on_connect subscribes again what was subscribed; on_noreconnect gives up.
OnConnect ==
  /\ link = "trying" /\ link' = "up"
  /\ UNCHANGED <<subscribed, gap, fresh, tick, store, publisher, production, halted, topic, engine, now, faults>>
OnNoReconnect ==
  /\ link = "trying" /\ Fault /\ link' = "dead"
  /\ UNCHANGED <<subscribed, gap, fresh, tick, store, publisher, production, halted, topic, engine, now>>

\* _on_ticks and _normalize_tick: the tick is marked and handed to the loop.
OnTick ==
  /\ link = "up" /\ subscribed /\ Len(tick) < NTicks
  /\ tick' = Append(tick, [at |-> "new", gap |-> gap > 0, born |-> now, early |-> fresh < GapTicks])
  /\ gap' = (IF gap > 0 THEN gap - 1 ELSE 0) /\ fresh' = (IF fresh < GapTicks THEN fresh + 1 ELSE fresh)
  /\ UNCHANGED <<link, subscribed, store, publisher, production, halted, topic, engine, now, faults>>

----------------------------------------------------------------------------
(* TickProcessor.process_tick.                                             *)

At(i, s) == tick' = [tick EXCEPT ![i].at = s]
Store(i) == pending' = i /\ At(i, "stored")

\* _validate_tick, the S3 buffer - a full one is uploaded first - and the
\* buffer of the latest price.
Process(i) ==
  /\ i \in DOMAIN tick /\ tick[i].at = "new"
  /\ \/ Fault /\ At(i, "invalid") /\ UNCHANGED <<buffer, pending>>
     \/ IF buffer + 1 >= BatchSize THEN At(i, "flushing") /\ buffer' = 0 /\ UNCHANGED <<pending, faults>>
        ELSE buffer' = buffer + 1 /\ Store(i) /\ UNCHANGED faults
  /\ UNCHANGED <<connector, latest, publisher, production, halted, topic, engine, now>>

\* The upload ends; what could not be uploaded goes back into the buffer.
Flushed(i) ==
  /\ i \in DOMAIN tick /\ tick[i].at = "flushing" /\ Store(i)
  /\ (UNCHANGED <<buffer, faults>>) \/ (Fault /\ buffer' = BatchSize - 1)
  /\ UNCHANGED <<connector, latest, publisher, production, halted, topic, engine, now>>

----------------------------------------------------------------------------
(* KafkaTickPublisher.                                                     *)

\* _record_failure and _write_kill_switch_dynamo; works says whether the write does.
RecordFailure(works) ==
  /\ failures' = IF failures < Threshold THEN failures + 1 ELSE failures
  /\ IF production /\ failures + 1 >= Threshold /\ ~fired
     THEN fired' = TRUE /\ halted' = (halted \/ works) ELSE UNCHANGED <<fired, halted>>

\* Mutant: a failed tick is due at once.
RetryableNow(i) == [row EXCEPT ![i] = [is |-> IF @.is = "none" THEN "shell" ELSE @.is, due |-> now]]

\* _mark_outbox_retryable: the update creates the row when it is gone, without
\* the event in it.
Retryable(i) ==
  IF ~production THEN row
  ELSE [row EXCEPT ![i] = [is |-> IF @.is = "none" THEN "shell" ELSE @.is, due |-> now + ReplayAfter]]

PutOutbox(i) ==
  IF production THEN [row EXCEPT ![i] = [is |-> "event", due |-> now + ReplayAfter]] ELSE row
DeleteOutbox(i) == [row EXCEPT ![i] = NoRow]

\* publish: the outbox row first, and a tick without one is not sent; then
\* produce, a full buffer being tried twice.
Publish(i) ==
  /\ i \in DOMAIN tick /\ tick[i].at = "stored"
  /\ \/ /\ At(i, "queued") /\ queue' = Append(queue, i) /\ UNCHANGED <<failures, fired, halted, faults>>
        /\ row' = PutOutbox(i)
     \/ /\ Fault /\ UNCHANGED queue /\ \E works \in BOOLEAN : RecordFailure(works)
        /\ \/ production /\ At(i, "lost") /\ UNCHANGED row
           \/ At(i, "failed") /\ row' = PutOutbox(i)
  /\ UNCHANGED <<connector, store, production, topic, engine, now>>

\* _poll_loop and _delivery_callback.  A delivery reported as failed may have
\* reached the topic; the deletion of the row may fail.
Delivery ==
  /\ queue # <<>> /\ queue' = Tail(queue)
  /\ LET i == Head(queue)
     IN  \/ /\ At(i, "delivered") /\ topic' = Append(topic, i) /\ failures' = 0 /\ UNCHANGED <<fired, halted>>
            /\ \/ row' = DeleteOutbox(i) /\ UNCHANGED faults
               \/ production /\ Fault /\ UNCHANGED row
         \/ /\ Fault /\ At(i, "failed") /\ row' = Retryable(i) /\ (\E w \in BOOLEAN : RecordFailure(w))
            /\ topic' \in {topic, Append(topic, i)}
  /\ UNCHANGED <<connector, store, production, engine, now>>

\* replay_pending_outbox for one row that is due: an old one is deleted, one
\* without an event is passed over.
Replay(i) ==
  /\ production /\ link # "off" /\ row[i].is = "event" /\ row[i].due <= now
  /\ IF now - tick[i].born > MaxAge THEN row' = DeleteOutbox(i) /\ UNCHANGED <<queue, tick>>
     ELSE queue' = Append(queue, i) /\ row' = Retryable(i) /\ At(i, "queued")
  /\ UNCHANGED <<connector, store, production, failures, fired, halted, topic, engine, now, faults>>

\* The service ends: by stop, which delivers what is queued and writes the
\* latest price, or by a crash.
RestartIngestion ==
  /\ link # "off" /\ Fault /\ link' = "off" /\ subscribed' = FALSE /\ gap' = 0 /\ fresh' = GapTicks
  /\ tick' = [i \in DOMAIN tick |->
                IF tick[i].at \in {"delivered", "failed", "invalid"} THEN tick[i] ELSE [tick[i] EXCEPT !.at = "lost"]]
  /\ buffer' = 0 /\ pending' = 0 /\ failures' = 0 /\ fired' = FALSE /\ queue' = <<>>
  /\ \/ queue = <<>> /\ latest' = (IF pending = 0 THEN latest ELSE pending)
     \/ UNCHANGED latest
  /\ UNCHANGED <<row, production, halted, topic, engine, now>>

----------------------------------------------------------------------------
(* The strategy engine.                                                    *)

\* _kafka_processing_loop and poll_tick.
PollTick ==
  /\ ~halted /\ hand = Idle /\ pos < Len(topic)
  /\ hand' = [tick |-> topic[pos + 1], at |-> "polled"] /\ pos' = pos + 1
  /\ UNCHANGED <<connector, tick, store, publisher, production, halted, topic, committed, seen, signalled,
                 retries, failed, now, faults>>

\* process_tick: a marked tick feeds the strategy but gives no signal.
Signals(i) == {signalled, IF tick[i].gap THEN signalled ELSE signalled \cup {i}}

\* publish_retry.  What is only enqueued may be lost on its way, and after
\* three attempts, counted in a header, it goes to the dead letters instead.
Route(i) ==
  /\ failed' = failed \cup {i}
  /\ \/ hand' = [hand EXCEPT !.at = "routed"] /\ retries' \in {retries, retries \cup {i}}
     \/ hand' = Idle /\ UNCHANGED retries

\* The rest of the loop and _handle_kafka_tick.  The kill switch is looked at
\* once more and discards the tick uncommitted.  When a strategy or the
\* publication of a signal fails, strategies have seen the tick or not.
Handle ==
  /\ hand.at = "polled"
  /\ LET i == hand.tick
     IN  \/ halted /\ hand' = Idle /\ UNCHANGED <<seen, signalled, retries, failed, faults>>
         \/ /\ ~halted /\ seen' = [seen EXCEPT ![i] = @ + 1] /\ hand' = [hand EXCEPT !.at = "handled"]
            /\ signalled' \in Signals(i) /\ UNCHANGED <<retries, failed, faults>>
         \/ /\ ~halted /\ Fault /\ seen' \in {seen, [seen EXCEPT ![i] = @ + 1]} /\ signalled' \in Signals(i)
            /\ Route(i)
  /\ UNCHANGED <<connector, tick, store, publisher, production, halted, topic, pos, committed, now>>

\* commit stands in the same try: a tick it fails for is retried as well.
Commit ==
  /\ hand.at \in {"handled", "routed"}
  /\ \/ hand' = Idle /\ committed' = pos /\ UNCHANGED <<retries, failed, faults>>
     \/ /\ Fault /\ committed' \in {committed, pos}
        /\ \/ hand.at = "handled" /\ Route(hand.tick)
           \/ hand.at = "routed" /\ hand' = Idle /\ UNCHANGED <<retries, failed>>
  /\ UNCHANGED <<connector, tick, store, publisher, production, halted, topic, pos, seen, signalled, now>>

\* KafkaRetryReplayer.poll_once: a stale tick goes to the dead letters.  When
\* the delivery or the commit fails, the record comes again.
ReplayRetry(i) ==
  /\ i \in retries
  /\ \/ now - tick[i].born > MaxAge /\ retries' = retries \ {i} /\ UNCHANGED <<topic, faults>>
     \/ /\ now - tick[i].born <= MaxAge
        /\ \/ topic' = Append(topic, i) /\ retries' = retries \ {i} /\ UNCHANGED faults
           \/ Fault /\ topic' = Append(topic, i) /\ UNCHANGED retries
  /\ UNCHANGED <<connector, tick, store, publisher, production, halted, pos, committed, hand, seen,
                 signalled, failed, now>>

\* The group without an offset starts at the end of the topic, that of the
\* retry topic at its beginning.
RestartEngine ==
  /\ Fault /\ hand' = Idle /\ seen' = [i \in Ticks |-> 0]
  /\ pos' = IF committed = 0 THEN Len(topic) ELSE committed
  /\ UNCHANGED <<connector, tick, store, publisher, production, halted, topic, committed, signalled,
                 retries, failed, now>>

KillSwitch ==
  /\ Fault /\ halted' = ~halted
  /\ UNCHANGED <<connector, tick, store, publisher, production, topic, engine, now>>

Clock ==
  /\ now < MaxTime /\ now' = now + 1
  /\ UNCHANGED <<connector, tick, store, publisher, production, halted, topic, engine, faults>>

Next ==
  \/ Start \/ OnClose \/ OnReconnect \/ OnConnect \/ OnNoReconnect \/ OnTick
  \/ \E i \in Ticks : Process(i) \/ Flushed(i) \/ Publish(i) \/ Replay(i) \/ ReplayRetry(i)
  \/ Delivery \/ RestartIngestion \/ PollTick \/ Handle \/ Commit \/ RestartEngine \/ KillSwitch \/ Clock

Spec == Init /\ [][Next]_vars

----------------------------------------------------------------------------
\* The first ticks after a reconnection give no signal, however often the
\* connection is lost again meanwhile and in whatever order the ticks arrive.
WarmUpIsSilent == \A i \in signalled : ~tick[i].early

\* Only a tick that the tick loop failed on comes back, through the retry
\* topic.  Any other is in the topic at most once and is fed to the strategies
\* at most once by a process, although a delivery reported as failed may have
\* succeeded: no row of the outbox is replayed, because it is too old by the
\* time it is due.
NoTickTwice ==
  /\ \A j, k \in DOMAIN topic : topic[j] = topic[k] /\ topic[j] \notin failed => j = k
  /\ \A i \in Ticks \ failed : seen[i] <= 1

\* "offset is committed only after tick processing and signal publish complete"
\* (KafkaTickConsumer).
CommittedIsProcessed == \A k \in 1..committed : seen[topic[k]] > 0
============================================================================
