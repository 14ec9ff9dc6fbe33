----------------------------- MODULE StrategyDay -----------------------------
(***************************************************************************)
(* One strategy on one symbol through the days of a process                *)
(* (services/strategy_engine): the memory the strategies keep between bars,*)
(* the runner with its circuit breaker and its cap, the configuration that *)
(* is read again every minute, and the candle loop that publishes.         *)
(*                                                                         *)
(* What prices, volumes and indicators say is the setup of a bar; whether  *)
(* a signal of workable size comes out of it is sized.  A day is a row of  *)
(* slots, the windows in which the strategies differ.  Time passes between *)
(* any two bars, counted in parts of the breaker's five minutes.           *)
(***************************************************************************)
EXTENDS Integers, Sequences, FiniteSets, FiniteSetsExt

CONSTANTS
  Kinds,                \* of "orb", "scalp", "trend", "preclose", "vwap"
  MaxDays, BarsPerSlot,
  ScalpCap, Cooldown,   \* max_signals_per_day of scalp_1m, signal_cooldown_bars
  Consecutives, Rates, Successes,   \* thresholds of the circuit breaker
  Window,               \* rate_window_seconds and reset_seconds, in units of time
  Caps,                 \* max_signals_per_day in the configuration, 0 for none
  MaxFaults             \* failed publications, blocked bars, operator's changes, restarts

VARIABLES
  kind, day, slot, bars,
  range, confirmed, \* orb: days in the range, whether it is confirmed
  fired,                \* signals counted per direction
  since, session,       \* vwap: bars since the signal, days in the running sums
  cb, opened, errs, good,   \* the breaker: state, time since it opened, errors in a row, successes
  failures,             \* those of the last five minutes; counted: the breaker still knows it
  enabled, cap, limits, used,   \* the runner's configuration, _signals_today
  sent,                 \* history: signals published by this process: <<direction, day>>, counted
  runs, faults

memory == <<range, confirmed, fired, since, session>>
breaker == <<cb, opened, errs, good, failures>>
runner == <<enabled, cap, limits, used>>
vars == <<kind, day, slot, bars, memory, breaker, runner, sent, runs, faults>>

Slots == <<"preopen", "range", "or_end", "normal", "quarter", "fire">>
Now == Slots[slot]
Dirs == {"BUY", "SELL"}
Setups == Dirs \cup {"none"}
Thresholds == [consecutive : Consecutives, rate : Rates]

Fresh ==
  /\ range = {} /\ confirmed = FALSE /\ fired = [d \in Dirs |-> 0]
  /\ since = Cooldown /\ session = {}

Init ==
  /\ kind \in Kinds /\ day = 1 /\ slot = 1 /\ bars = 0 /\ Fresh
  /\ cb = "CLOSED" /\ opened = 0 /\ errs = 0 /\ good = 0 /\ failures = {}
  /\ enabled = TRUE /\ cap \in Caps /\ limits \in Thresholds /\ used = 0
  /\ sent = [d \in Dirs |-> [n \in 1..MaxDays |-> 0]] /\ runs = 0 /\ faults = 0

Fault == faults < MaxFaults /\ faults' = faults + 1
Fire(d) == fired' = [fired EXCEPT ![d] = @ + 1]

----------------------------------------------------------------------------
(* on_bar, then generate_signal: each strategy with the signal it returns. *)
(* Nothing calls the reset_daily that each of them has.                    *)

\* _build_signal of the opening range and of the scalping strategy: none when
\* the stop or the size is not workable.
OrbBuild(setup, sized) == IF sized THEN setup ELSE "none"
ScalpBuild(setup, sized) == IF sized THEN setup ELSE "none"

\* ORBStrategy: the range grows over all days, a bar of it takes the
\* confirmation back, the bar at its end may give it.
Orb(setup, sized, out) ==
  /\ UNCHANGED <<since, session>>
  /\ \/ /\ Now = "range" /\ range' = range \cup {day} /\ confirmed' = FALSE /\ out = "none"
        /\ UNCHANGED fired
     \/ /\ Now = "or_end" /\ ~confirmed /\ out = "none" /\ confirmed' \in {FALSE, range # {}}
        /\ UNCHANGED <<range, fired>>
     \/ /\ Now # "range" /\ ~(Now = "or_end" /\ ~confirmed) /\ UNCHANGED <<range, confirmed>>
        /\ IF confirmed /\ Now \in {"or_end", "normal", "quarter"} /\ OrbBuild(setup, sized) # "none"
              /\ fired[setup] = 0
           THEN out = setup /\ Fire(setup) ELSE out = "none" /\ UNCHANGED fired

\* Mutant: the count is not looked at.
ScalpUncounted(setup, sized, out) ==
  /\ UNCHANGED <<range, confirmed, since, session>>
  /\ IF Now \in {"or_end", "normal", "quarter"} /\ setup # "none"
     THEN Fire(setup) /\ out = ScalpBuild(setup, sized)
     ELSE out = "none" /\ UNCHANGED fired

\* Scalp1mStrategy: a signal that comes out too small counts as well.
Scalp(setup, sized, out) ==
  /\ UNCHANGED <<range, confirmed, since, session>>
  /\ IF Now \in {"or_end", "normal", "quarter"} /\ setup # "none" /\ fired[setup] < ScalpCap
     THEN Fire(setup) /\ out = ScalpBuild(setup, sized)
     ELSE out = "none" /\ UNCHANGED fired

\* IntradayTrend15mStrategy: so it does here, once per direction.
Trend(setup, sized, out) ==
  /\ UNCHANGED <<range, confirmed, since, session>>
  /\ IF Now \in {"or_end", "normal"} /\ setup # "none" /\ fired[setup] = 0
     THEN Fire(setup) /\ out = IF sized THEN setup ELSE "none"
     ELSE out = "none" /\ UNCHANGED fired

\* PreCloseMomentumStrategy: one signal, in either direction.
PreClose(setup, sized, out) ==
  /\ UNCHANGED <<range, confirmed, since>>
  /\ session' = IF Now = "preopen" THEN session ELSE session \cup {day}
  /\ IF Now = "fire" /\ setup # "none" /\ sized /\ \A d \in Dirs : fired[d] = 0
     THEN Fire(setup) /\ out = setup ELSE out = "none" /\ UNCHANGED fired

\* VWAPReversionStrategy: only a bar from before the opening empties the sums.
Vwap(setup, sized, out) ==
  /\ UNCHANGED <<range, confirmed, fired>>
  /\ session' = IF Now = "preopen" THEN {} ELSE session \cup {day}
  /\ IF Now \in {"or_end", "normal"} /\ setup # "none" /\ sized /\ since + 1 >= Cooldown
     THEN out = setup /\ since' = 0
     ELSE out = "none" /\ since' = IF since < Cooldown THEN since + 1 ELSE since

OnBar(setup, sized, out) ==
  \/ kind = "orb" /\ Orb(setup, sized, out)
  \/ kind = "scalp" /\ Scalp(setup, sized, out)
  \/ kind = "trend" /\ Trend(setup, sized, out)
  \/ kind = "preclose" /\ PreClose(setup, sized, out)
  \/ kind = "vwap" /\ Vwap(setup, sized, out)

----------------------------------------------------------------------------
(* CircuitBreaker.  A failure is recorded with the threshold then in force *)
(* (rate) and a number among those of its moment (nth).                    *)

\* _error_times; the failures of less than five minutes ago.
Counted == {f \in failures : f.counted}
Recent == {f \in failures : f.age < Window}

Forget(these) == {[f EXCEPT !.counted = f \notin these] : f \in failures}

\* _transition_to_closed.
Close == cb' = "CLOSED" /\ opened' = 0 /\ errs' = 0 /\ good' = 0

\* Mutant: a success empties the window.
RecordSuccessClears ==
  /\ failures' = Forget(failures)
  /\ IF cb = "HALF_OPEN" /\ good + 1 = Successes THEN Close
     ELSE /\ errs' = IF cb = "CLOSED" THEN 0 ELSE errs
          /\ good' = IF cb = "HALF_OPEN" THEN good + 1 ELSE good
          /\ UNCHANGED <<cb, opened>>

\* record_success.
RecordSuccess ==
  IF cb = "HALF_OPEN" /\ good + 1 = Successes THEN Close /\ failures' = Forget(failures)
  ELSE /\ errs' = IF cb = "CLOSED" THEN 0 ELSE errs
       /\ good' = IF cb = "HALF_OPEN" THEN good + 1 ELSE good
       /\ UNCHANGED <<cb, opened, failures>>

\* record_failure.
RecordFailure ==
  /\ errs' = errs + 1
  /\ failures' = failures \cup
       {[age |-> 0, nth |-> Cardinality({f \in failures : f.age = 0}), rate |-> limits.rate, counted |-> TRUE]}
  /\ IF cb = "HALF_OPEN" \/ Cardinality(Counted) + 1 >= limits.rate \/ errs + 1 >= limits.consecutive
     THEN cb' = "OPEN" /\ opened' = 0 /\ good' = 0 ELSE UNCHANGED <<cb, opened, good>>

\* Time passes: _evict_old_errors and _check_half_open_transition, which the
\* next bar would do.
Elapse ==
  /\ failures # {} /\ failures' = {[f EXCEPT !.age = @ + 1] : f \in Recent}
  /\ IF cb # "OPEN" THEN UNCHANGED <<cb, opened, good>>
     ELSE IF opened + 1 < Window THEN opened' = opened + 1 /\ UNCHANGED <<cb, good>>
     ELSE cb' = "HALF_OPEN" /\ opened' = 0 /\ good' = 0
  /\ UNCHANGED <<kind, day, slot, bars, memory, errs, runner, sent, runs, faults>>

----------------------------------------------------------------------------
(* The runner and the candle loop.                                         *)

\* _check_cap, _apply_paper_flag and _publish_signal: the cap is used up
\* whether or not the signal is published.
Emit(out) ==
  IF out = "none" \/ (cap > 0 /\ used >= cap) THEN UNCHANGED <<used, sent, faults>>
  ELSE /\ used' = used + 1
       /\ \/ sent' = [sent EXCEPT ![out][day] = @ + 1] /\ UNCHANGED faults
          \/ Fault /\ UNCHANGED sent

\* dispatch_bar; a bar that the strategy fails on changes no more than what it
\* had done before, taken here as nothing.
DispatchBar ==
  /\ bars < BarsPerSlot /\ bars' = bars + 1 /\ UNCHANGED <<kind, day, slot, enabled, cap, limits, runs>>
  /\ IF ~enabled \/ cb = "OPEN" THEN UNCHANGED <<memory, breaker, used, sent, faults>>
     ELSE \/ \E setup \in Setups, sized \in BOOLEAN, out \in Setups :
               OnBar(setup, sized, out) /\ RecordSuccess /\ Emit(out)
          \/ RecordFailure /\ UNCHANGED <<memory, used, sent, faults>>

\* The entry block: the bar does not reach the strategy.
BlockedBar ==
  /\ bars < BarsPerSlot /\ bars' = bars + 1 /\ Fault
  /\ UNCHANGED <<kind, day, slot, memory, breaker, runner, sent, runs>>

\* The next window, the next day: _check_cap starts a new count with the date.
NextSlot ==
  /\ IF slot < Len(Slots) THEN slot' = slot + 1 /\ UNCHANGED <<day, used>>
     ELSE day < MaxDays /\ day' = day + 1 /\ slot' = 1 /\ used' = 0
  /\ bars' = 0
  /\ UNCHANGED <<kind, memory, breaker, enabled, cap, limits, sent, runs, faults>>

\* CircuitBreaker.reset; the history starts anew with it.
Reset == Close /\ failures' = {}

\* apply_config and update_thresholds: what was counted stays.
ApplyConfig == enabled' \in BOOLEAN /\ cap' \in Caps /\ limits' \in Thresholds

\* refresh_all: the breaker is reset when the configuration asks for it.
RefreshAll ==
  /\ Fault /\ ApplyConfig /\ (UNCHANGED breaker \/ Reset)
  /\ UNCHANGED <<kind, day, slot, bars, memory, used, sent, runs>>

\* stop, or a crash, and start: _save_strategy_state writes a state in which no
\* strategy keeps anything, so that the memory is gone either way.
Restart ==
  /\ Fault /\ runs' = runs + 1
  /\ range' = {} /\ confirmed' = FALSE /\ fired' = [d \in Dirs |-> 0]
  /\ since' = Cooldown /\ session' = {}
  /\ Reset /\ used' = 0
  /\ sent' = [d \in Dirs |-> [n \in 1..MaxDays |-> IF n = day THEN sent[d][n] ELSE 0]]
  /\ UNCHANGED <<kind, day, slot, bars, enabled, cap, limits>>

Next == Elapse \/ DispatchBar \/ BlockedBar \/ NextSlot \/ RefreshAll \/ Restart

Spec == Init /\ [][Next]_vars

----------------------------------------------------------------------------
Total(d) == MapThenSumSet(LAMBDA n : sent[d][n], 1..MaxDays)
Limit == IF kind = "scalp" THEN ScalpCap ELSE 1

\* A process never sends more signals in one direction than the strategy's
\* limit for a day, over all its days: the memory is never reset, so that a
\* direction once used stays silent until the process restarts.
SignalsWithinLimits ==
  /\ runs = 0 /\ kind \in {"orb", "scalp", "trend"} => \A d \in Dirs : Total(d) <= Limit
  /\ runs = 0 /\ kind = "preclose" => Total("BUY") + Total("SELL") <= 1

\* A strategy that keeps failing is stopped: in any five minutes it fails no
\* more often than the highest of the rate thresholds in force at one of these
\* failures, with successes in between or not and however the configuration
\* changes.  Only the operator's reset and a new process start the count anew.
FailuresBounded == Recent # {} => \E f \in Recent : Cardinality(Recent) <= f.rate

\* "One signal per symbol per day (trend is a slower concept; no re-entry)"
\* (intraday_trend_15m_strategy.py).
OneTrendSignalPerDay ==
  kind = "trend" => \A n \in 1..MaxDays : sent["BUY"][n] + sent["SELL"][n] <= 1
============================================================================
