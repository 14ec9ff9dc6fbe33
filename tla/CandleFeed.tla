----------------------------- MODULE CandleFeed -----------------------------
(***************************************************************************)
(* Candles from the broker to the strategies.  IntradayCandleStream        *)
(* (data_ingestion/candle_stream.py) fetches the last minutes of every     *)
(* instrument and interval in turn and writes each candle to the candle    *)
(* cache; DynamoCandleConsumer (strategy_engine/consumers) polls the cache *)
(* with an overlapping window and hands each candle once to the            *)
(* strategies.                                                             *)
(*                                                                         *)
(* One instrument and one interval of L minutes; a candle is named by the  *)
(* minute it opens.  The clock counts minutes, and everything happens      *)
(* between two of them.  The stream takes the pairs of an instrument and   *)
(* an interval in turn, so that a pair waits for its turn for as long as a *)
(* cycle takes.  Whether the broker returns the candle that is still       *)
(* running is not known from the code, so both are behaviours.             *)
(***************************************************************************)
EXTENDS Integers, FiniteSetsExt

CONSTANTS
  Intervals,   \* lengths in minutes
  Cycles,      \* how many minutes the stream may need for all its pairs
  NCandles,    \* candles of a behaviour
  MaxFaults    \* failed requests, restarts, pauses and blocks

VARIABLES
  L, running,      \* the interval; whether the broker returns the running candle
  cycle, waited,   \* the longest wait for the pair's turn; minutes since its last turn
  now,
  active,          \* the stream's phase is an active one
  last,            \* _last_candle_dt, -1 for none
  got,             \* fetched candles not dealt with yet
  row,             \* the cache: per candle "none", "forming" or "final"
  dedup,           \* the consumer: when a candle was returned, -1 for not known
  startup,         \* ~_startup_done
  batch,           \* candles returned by the poll, not dispatched yet
  bar,             \* what the strategies got: "none", "forming", "final" or "dropped"
  times,           \* how often, in this process
  halted, blocked, \* the kill switch, the entry block
  polled,          \* since the clock last moved
  faults

vars == <<L, running, cycle, waited, now, active, last, got, row, dedup, startup, batch, bar, times,
          halted, blocked, polled, faults>>
given == <<L, running, cycle>>
stream == <<active, last, got, waited>>
engine == <<dedup, startup, batch, bar, times, polled>>

Candles == {k * L : k \in 0..NCandles - 1}
End == L * NCandles + 4

Init ==
  /\ L \in Intervals /\ running \in BOOLEAN /\ now = 0 /\ active = TRUE /\ last = -1 /\ got = {}
  /\ row = [c \in Candles |-> "none"] /\ dedup = [c \in Candles |-> -1] /\ startup = TRUE
  /\ batch = {} /\ bar = [c \in Candles |-> "none"] /\ times = [c \in Candles |-> 0]
  /\ halted = FALSE /\ blocked = FALSE /\ polled = FALSE /\ faults = 0
  /\ cycle \in Cycles /\ waited \in 1..cycle

Fault == faults < MaxFaults /\ faults' = faults + 1

----------------------------------------------------------------------------
(* The stream.                                                             *)

Version(c) == IF c + L > now THEN "forming" ELSE "final"

\* get_historical_candles from seven minutes ago until now.
Historical == {c \in Candles : c <= now /\ c > now - 7 /\ (running \/ Version(c) = "final")}

\* _next_instrument_interval comes round and _fetch_candles asks the broker; a
\* failed request counts as an error and is retried the next time round.
FetchCandles ==
  /\ active /\ got = {} /\ waited > 0 /\ waited' = 0
  /\ (got' = Historical /\ UNCHANGED faults) \/ (Fault /\ UNCHANGED got)
  /\ UNCHANGED <<given, now, active, last, row, engine, halted, blocked>>

\* The rest of _fetch_candles: only the candle written last is skipped, so that
\* a window of several candles is written anew every time and a window of one
\* only once.
Written(c) == c = last

\* _write_candle, which swallows its errors, for the candles in the order they
\* opened; the clock stands still until all are written.
WriteCandle ==
  /\ got # {}
  /\ LET c == Min(got)
     IN  /\ got' = got \ {c}
         /\ IF Written(c) THEN UNCHANGED <<last, row, faults>>
            ELSE /\ last' = c
                 /\ \/ row' = [row EXCEPT ![c] = Version(c)] /\ UNCHANGED faults
                    \/ Fault /\ UNCHANGED row
  /\ UNCHANGED <<given, now, active, waited, engine, halted, blocked>>

\* on_phase_change.
OnPhaseChange ==
  /\ Fault /\ active' = ~active
  /\ UNCHANGED <<given, now, last, got, row, waited, engine, halted, blocked>>

\* _candle_stream_watchdog starts the same stream again, which knows its last
\* candle; that of a new process does not.
RestartStream ==
  /\ Fault /\ last' \in {last, -1} /\ got' = {}
  /\ UNCHANGED <<given, now, active, row, waited, engine, halted, blocked>>

----------------------------------------------------------------------------
(* The consumer and the candle loop of the strategy engine.                *)

\* Mutant: a window of one minute.
LookbackMinute == IF startup THEN 0 ELSE 1

\* As start() creates the consumer.
Lookback == IF startup THEN 0 ELSE 3

\* _evict_dedup: what was returned five minutes ago is forgotten.
Evicted == [c \in Candles |-> IF dedup[c] >= 0 /\ now - dedup[c] >= 5 THEN -1 ELSE dedup[c]]

\* _read_candle_cache: the rows that opened within the window.
Rows == {c \in Candles : row[c] # "none" /\ c > now - Lookback}

\* poll_new_candles: those of the rows that were not returned before.
\* A failed read returns nothing, but the first poll is over.
PollNewCandles ==
  /\ ~halted /\ batch = {} /\ ~polled /\ polled' = TRUE /\ startup' = FALSE
  /\ \/ /\ batch' = {c \in Rows : Evicted[c] < 0}
        /\ dedup' = [c \in Candles |-> IF c \in batch' THEN now ELSE Evicted[c]]
        /\ bar' = [c \in Candles |-> IF c \in batch' THEN row[c] ELSE bar[c]]
        /\ UNCHANGED faults
     \/ Fault /\ dedup' = Evicted /\ UNCHANGED <<batch, bar>>
  /\ UNCHANGED <<given, now, stream, row, times, halted, blocked>>

\* One candle of the batch reaches the runners, unless entries are blocked:
\* then the strategies never see it.
Dispatch ==
  /\ \E c \in batch :
       /\ batch' = batch \ {c} /\ times' = [times EXCEPT ![c] = @ + 1]
       /\ bar' = IF blocked THEN [bar EXCEPT ![c] = "dropped"] ELSE bar
  /\ UNCHANGED <<given, now, stream, row, dedup, startup, halted, blocked, polled, faults>>

\* An exception ends the round: the consumer has noted the rest of the batch
\* as returned, and nobody gets it.
LoopFails ==
  /\ batch # {} /\ Fault /\ batch' = {}
  /\ bar' = [c \in Candles |-> IF c \in batch THEN "dropped" ELSE bar[c]]
  /\ UNCHANGED <<given, now, stream, row, dedup, startup, times, halted, blocked, polled>>

KillSwitch ==
  /\ Fault /\ halted' = ~halted
  /\ UNCHANGED <<given, now, stream, row, engine, blocked>>
EntryBlock ==
  /\ Fault /\ blocked' = ~blocked
  /\ UNCHANGED <<given, now, stream, row, engine, halted>>

\* The strategy engine starts over with an empty memory.
RestartEngine ==
  /\ Fault /\ startup' = TRUE /\ batch' = {} /\ polled' = FALSE
  /\ dedup' = [c \in Candles |-> -1] /\ times' = [c \in Candles |-> 0]
  /\ bar' = [c \in Candles |-> IF c \in batch THEN "dropped" ELSE bar[c]]
  /\ UNCHANGED <<given, now, stream, row, halted, blocked>>

\* A minute passes: the stream has finished what it fetched and come round
\* within its cycle, the consumer, which polls twice a second, has polled.
Clock ==
  /\ now < End /\ now' = now + 1
  /\ got = {} /\ batch = {} /\ (waited < cycle \/ ~active) /\ (polled \/ halted)
  /\ waited' = (IF waited < cycle THEN waited + 1 ELSE waited) /\ polled' = FALSE
  /\ UNCHANGED <<given, active, last, got, row, dedup, startup, batch, bar, times, halted, blocked, faults>>

Next ==
  \/ FetchCandles \/ WriteCandle \/ OnPhaseChange \/ RestartStream
  \/ PollNewCandles \/ Dispatch \/ LoopFails \/ KillSwitch \/ EntryBlock \/ RestartEngine \/ Clock

Spec == Init /\ [][Next]_vars

----------------------------------------------------------------------------
\* "Each item is guaranteed to not have been returned in a previous call"
\* (poll_new_candles): no process dispatches a candle twice, which rests on
\* the window being shorter than the memory.
NoBarTwice == \A c \in Candles : times[c] <= 1

\* When nothing fails, a candle reaches the strategies within three minutes of
\* its opening, provided the broker offers it and the stream's turn comes in
\* less than the consumer's window: the turns, the rewriting of rows, the
\* window and the memory of the consumer fit together.
BarsArrive ==
  faults = 0 /\ cycle + (IF running THEN 0 ELSE L) < 3 =>
    \A c \in Candles : now > c + 2 /\ c > 0 => bar[c] # "none"

\* "3min was too narrow" (dynamo_candle_consumer.py, of cycles of four minutes,
\* which a window of ten was to cover): however long a cycle takes, a candle
\* that the broker offers reaches the strategies.
AnyCycleIsCovered ==
  faults = 0 /\ running => \A c \in Candles : now > c + cycle + 1 /\ c > 0 => bar[c] # "none"

\* "Returns new, confirmed candles not already dispatched in this session"
\* (DynamoCandleConsumer): when nothing failed, the finished candle has been
\* dispatched soon after its end.
ConfirmedBarsArrive ==
  faults = 0 => \A c \in Candles : c > 0 /\ now > c + L + 2 => bar[c] = "final"
============================================================================
