------------------------------- MODULE MCFeed -------------------------------
(***************************************************************************)
(* What feeds the risk engine, as machines of their own: candles           *)
(* (CandleFeed) and ticks (TickFeed) from the broker to the strategies, a  *)
(* strategy between its bars and its signals (StrategyDay), and the        *)
(* backtester that stands in for the rest (Backtest).  Any order of bars   *)
(* may reach a strategy, so that nothing is lost by running one of them    *)
(* (part) at a time; names that two machines share stand for one variable. *)
(***************************************************************************)
EXTENDS Integers, FiniteSets

CONSTANTS
  Intervals, Cycles, NCandles,
  Kinds, MaxDays, BarsPerSlot, ScalpCap, Cooldown, Consecutives, Rates, Successes, Window, Caps, DayFaults,
  NTicks, MaxTime, GapTicks, Threshold, MaxAge, ReplayAfter, BatchSize, MaxFaults,
  Symbols, Prices, Capital, NBars, BuyFee, SellFee, Slippage, None

\* Open positions of a backtest.
Holdings ==
  [buy : BOOLEAN, entry : Int, fee : Int, stop : Prices \cup {None}, target : Prices \cup {None},
   signalled : Int, at : Int]

ASSUME FeedAssumption ==
  /\ Intervals \subseteq Nat \ {0} /\ Cycles \subseteq Nat \ {0} /\ NCandles \in Nat
  /\ MaxDays \in Nat \ {0} /\ ScalpCap \in Nat /\ Rates \subseteq Nat \ {0} /\ Window \in Nat \ {0}
  /\ {NTicks, GapTicks, MaxAge, ReplayAfter} \subseteq Nat /\ MaxAge < ReplayAfter
  /\ IsFiniteSet(Symbols) /\ IsFiniteSet(Prices) /\ Prices # {} /\ Prices \subseteq Int
  /\ {Capital, BuyFee, SellFee, Slippage} \subseteq Int
  /\ None \notin Holdings

VARIABLES part, faults,
  L, running, cycle, waited, active, last, got, dedup, startup, batch, bar, times, blocked, polled,
  now, row, halted,
  kind, day, slot, bars, range, confirmed, since, session, cb, opened, errs, good,
  enabled, cap, limits, used, sent, runs,
  failures, fired,
  link, subscribed, gap, fresh, tick, buffer, pending, latest, queue, production, topic, pos,
  committed, hand, seen, signalled, retries, failed,
  allowShort, time, recent, close, cash, open, signal, pnl, left, ended

Candle == INSTANCE CandleFeed
Day == INSTANCE StrategyDay WITH MaxFaults <- DayFaults
Tick == INSTANCE TickFeed
Test == INSTANCE Backtest WITH seen <- recent

candleVars == <<L, running, cycle, waited, active, last, got, dedup, startup, batch, bar, times, blocked, polled>>
clockVars == <<now, row, halted>>
dayVars == <<kind, day, slot, bars, range, confirmed, since, session, cb, opened, errs, good,
             enabled, cap, limits, used, sent, runs>>
failVars == <<failures, fired>>
tickVars == <<link, subscribed, gap, fresh, tick, buffer, pending, latest, queue, production, topic, pos,
              committed, hand, seen, signalled, retries, failed>>
testVars == <<allowShort, time, recent, close, cash, open, signal, pnl, left, ended>>
vars == <<part, faults, testVars, candleVars, clockVars, dayVars, failVars, tickVars>>

Off == "off"
CandleOff ==
  /\ L = Off /\ running = Off /\ cycle = Off /\ waited = Off /\ active = Off /\ last = Off /\ got = Off /\ dedup = Off /\ startup = Off
  /\ batch = Off /\ bar = Off /\ times = Off /\ blocked = Off /\ polled = Off
DayOff ==
  /\ kind = Off /\ day = Off /\ slot = Off /\ bars = Off /\ range = Off /\ confirmed = Off
  /\ since = Off /\ session = Off /\ cb = Off /\ opened = Off /\ errs = Off /\ good = Off
  /\ enabled = Off /\ cap = Off /\ limits = Off /\ used = Off /\ sent = Off /\ runs = Off
TickOff ==
  /\ link = Off /\ subscribed = Off /\ gap = Off /\ fresh = Off /\ tick = Off /\ buffer = Off
  /\ pending = Off /\ latest = Off /\ queue = Off /\ production = Off /\ topic = Off /\ pos = Off
  /\ committed = Off /\ hand = Off /\ seen = Off /\ signalled = Off
  /\ retries = Off /\ failed = Off
ClockOff == now = Off /\ row = Off /\ halted = Off
FailOff == failures = Off /\ fired = Off

TestOff ==
  /\ allowShort = Off /\ time = Off /\ recent = Off /\ close = Off /\ cash = Off /\ open = Off
  /\ signal = Off /\ pnl = Off /\ left = Off /\ ended = Off

Init ==
  \/ part = "candle" /\ Candle!Init /\ DayOff /\ TickOff /\ FailOff /\ TestOff
  \/ part = "day" /\ Day!Init /\ CandleOff /\ TickOff /\ ClockOff /\ TestOff
  \/ part = "tick" /\ Tick!Init /\ CandleOff /\ DayOff /\ TestOff
  \/ part = "test" /\ Test!Init /\ CandleOff /\ DayOff /\ TickOff /\ ClockOff /\ FailOff /\ faults = 0

Next ==
  /\ UNCHANGED part
  /\ \/ part = "candle" /\ Candle!Next /\ UNCHANGED <<dayVars, tickVars, failVars, testVars>>
     \/ part = "day" /\ Day!Next /\ UNCHANGED <<candleVars, tickVars, clockVars, testVars>>
     \/ part = "tick" /\ Tick!Next /\ UNCHANGED <<candleVars, dayVars, testVars>>
     \/ part = "test" /\ Test!Next
        /\ UNCHANGED <<candleVars, dayVars, tickVars, clockVars, failVars, faults>>

Spec == Init /\ [][Next]_vars

----------------------------------------------------------------------------
\* No candle reaches the strategies of a process twice, no tick but one the tick loop
\* failed on, and the first ticks after a reconnection give no signal (CandleFeed,
\* TickFeed).
FeedIsClean ==
  /\ part = "candle" => Candle!NoBarTwice
  /\ part = "tick" => Tick!NoTickTwice /\ Tick!WarmUpIsSilent

\* Without failures a candle arrives soon after it opens (CandleFeed).
BarsArrive == part = "candle" => Candle!BarsArrive

\* A process stays within the limits of its strategy over all its days (StrategyDay).
SignalsWithinLimits == part = "day" => Day!SignalsWithinLimits

\* The breaker bounds the failures of a strategy (StrategyDay).
FailuresBounded == part = "day" => Day!FailuresBounded

\* The cash of a backtest is explained by its trades (Backtest).
CapitalIsPnl == part = "test" => Test!CapitalIsPnl
============================================================================
