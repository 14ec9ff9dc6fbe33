---------------------------- MODULE MCDecisions ----------------------------
(***************************************************************************)
(* The decisions taken before and beside trading, each a small machine of  *)
(* its own: the live gate, the status report, the universe gate, the check *)
(* of the position rows at startup and the rate limiter.  They share no    *)
(* state, so that a behaviour runs one of them (part) and leaves the       *)
(* others off.                                                             *)
(***************************************************************************)
EXTENDS Integers, FiniteSets

CONSTANTS
  Symbols, Ranks, MaxSymbols, MinSymbols, UniverseDays, Alterations, MaxEvents, StartupFaults,
  NoSnapshot, Burst, Reserved, Second, Minute, PerSecond, PerMinute, PerDay,
  MaxRequests, MaxTime, MaxDate

ASSUME DecisionsAssumption ==
  /\ IsFiniteSet(Symbols)
  /\ IsFiniteSet(Ranks) /\ Ranks \subseteq Int /\ MaxSymbols \in Nat /\ MinSymbols \in Nat
  /\ PerSecond \in Nat /\ PerMinute \in Nat /\ PerDay \in Nat /\ Second \in Nat /\ Minute \in Nat
  /\ Burst \in Nat \ {0} /\ Reserved \in Nat

VARIABLES part,
  fact, approval, seen, verdict, altered,
  position, quote, kill, block, mode, session, counters, unread, got, failed, overall, standing, events,
  universeDay, phase, live, api, yaml, csv, listed, files, up, snap, rebuilt,
  row, page, paper, strict, at, scanned, left, found, repaired, alerted, runs, lapses,
  clock, date, tokens, requests, waiters, cancelled, granted, orders, today

Gate == INSTANCE LiveGate WITH MaxChanges <- Alterations, changes <- altered
Status == INSTANCE StatusSnapshot
Universe == INSTANCE UniverseGate WITH
  Symbols <- Ranks, MaxDays <- UniverseDays, MaxChanges <- Alterations, None <- NoSnapshot,
  day <- universeDay, last <- rebuilt, changes <- altered
Startup == INSTANCE StartupReconciliation WITH
  MaxFaults <- StartupFaults, todo <- left, faults <- lapses
Limiter == INSTANCE RateLimiter

gateVars == <<fact, approval, seen, verdict>>
statusVars == <<position, quote, kill, block, mode, session, counters, unread, got, failed,
                overall, standing, events>>
universeVars == <<universeDay, phase, live, api, yaml, csv, listed, files, up, snap, rebuilt>>
startupVars == <<row, page, paper, strict, at, scanned, left, found, repaired, alerted, runs, lapses>>
limiterVars == <<clock, date, tokens, requests, waiters, cancelled, granted, orders, today>>
decisionsVars == <<part, gateVars, statusVars, universeVars, startupVars, limiterVars, altered>>

Off == "off"
GateOff == fact = Off /\ approval = Off /\ seen = Off /\ verdict = Off
StatusOff ==
  /\ position = Off /\ quote = Off /\ kill = Off /\ block = Off /\ mode = Off /\ session = Off
  /\ counters = Off /\ unread = Off /\ got = Off /\ failed = Off /\ overall = Off
  /\ standing = Off /\ events = Off
UniverseOff ==
  /\ universeDay = Off /\ phase = Off /\ live = Off /\ api = Off /\ yaml = Off /\ csv = Off
  /\ listed = Off /\ files = Off /\ up = Off /\ snap = Off /\ rebuilt = Off
StartupOff ==
  /\ row = Off /\ page = Off /\ paper = Off /\ strict = Off /\ at = Off /\ scanned = Off /\ left = Off /\ found = Off
  /\ repaired = Off /\ alerted = Off /\ runs = Off /\ lapses = Off
LimiterOff ==
  /\ clock = Off /\ date = Off /\ tokens = Off /\ requests = Off /\ waiters = Off /\ cancelled = Off
  /\ granted = Off /\ orders = Off /\ today = Off

DecisionsInit ==
  \/ part = "gate" /\ Gate!Init /\ StatusOff /\ UniverseOff /\ StartupOff /\ LimiterOff
  \/ part = "status" /\ Status!Init /\ GateOff /\ UniverseOff /\ StartupOff /\ LimiterOff /\ altered = Off
  \/ part = "universe" /\ Universe!Init /\ GateOff /\ StatusOff /\ StartupOff /\ LimiterOff
  \/ part = "startup" /\ Startup!Init /\ GateOff /\ StatusOff /\ UniverseOff /\ LimiterOff /\ altered = Off
  \/ part = "limiter" /\ Limiter!Init /\ GateOff /\ StatusOff /\ UniverseOff /\ StartupOff /\ altered = Off

DecisionsNext ==
  /\ UNCHANGED part
  /\ \/ part = "gate" /\ Gate!Next /\ UNCHANGED <<statusVars, universeVars, startupVars, limiterVars>>
     \/ part = "status" /\ Status!Next
        /\ UNCHANGED <<gateVars, universeVars, startupVars, limiterVars, altered>>
     \/ part = "universe" /\ Universe!Next
        /\ UNCHANGED <<gateVars, statusVars, startupVars, limiterVars>>
     \/ part = "startup" /\ Startup!Next
        /\ UNCHANGED <<gateVars, statusVars, universeVars, limiterVars, altered>>
     \/ part = "limiter" /\ Limiter!Next
        /\ UNCHANGED <<gateVars, statusVars, universeVars, startupVars, altered>>

DecisionsSpec == DecisionsInit /\ [][DecisionsNext]_decisionsVars

----------------------------------------------------------------------------
\* The live gate fails closed on what stood through its run (LiveGate).
GateFailsClosed == part = "gate" => Gate!GateFailsClosed

\* What was wrong for a whole cycle of the status report is red (StatusSnapshot).
StandingWrongIsRed == part = "status" => Status!StandingWrongIsRed

\* Live orders pass the universe on a snapshot of the day only (UniverseGate).
LiveOrdersNeedToday == part = "universe" => Universe!LiveOrdersNeedToday

\* The startup check alters empty rows only and never refuses (StartupReconciliation).
ReconciliationIsSafe == part = "startup" => Startup!ReconciliationIsSafe

\* Every grant is within the caps of every window and overtakes no request that waits
\* and comes before it (RateLimiter).
LawfulGrants == [][part = "limiter" => Limiter!OrdersWithinCaps' /\ Limiter!GrantsInOrder]_decisionsVars
============================================================================
