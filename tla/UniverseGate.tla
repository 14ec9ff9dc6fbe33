---------------------------- MODULE UniverseGate ----------------------------
(***************************************************************************)
(* The approved symbols of the day (services/shared/universe, and the      *)
(* refresh loop of the execution engine).  A snapshot is built at startup  *)
(* and once per calendar day of India; every order is validated against    *)
(* it.  The snapshot carries the UTC date of its build, which until 05:30  *)
(* in India is the day before.                                             *)
(***************************************************************************)
EXTENDS Integers, FiniteSets

CONSTANTS
  Symbols,      \* numbers: the order of the names
  MaxSymbols, MinSymbols,  \* max_symbols and min_symbols_to_trade of the mode
  MaxDays,
  MaxChanges,   \* lists, feeds and files that change, and restarts
  None

VARIABLES
  day,     \* the date in India
  phase,   \* "night" (before 05:30), "morning", "market" or "evening"
  live,    \* UNIVERSE_MODE is LIVE_ADVANCED
  api,     \* UNIVERSE_USE_LIVE_API
  yaml,    \* the index members in universe_modes.yaml
  csv,     \* ... in the archive of the exchange, {} while it cannot be fetched
  listed,  \* the symbols on an exclusion or surveillance list
  files,   \* the configuration files that can be read
  up,
  snap,    \* the validator's snapshot, None without one
  last,    \* _last_rebuild_date of the loop, 0 for none
  changes

vars == <<day, phase, live, api, yaml, csv, listed, files, up, snap, last, changes>>
config == <<live, api, yaml, csv, listed, files>>

Files == {"modes", "liquidity", "risk"}
Utc == IF phase = "night" THEN day - 1 ELSE day

Init ==
  /\ day = 1 /\ phase = "morning" /\ live \in BOOLEAN /\ api \in BOOLEAN
  /\ yaml \in (SUBSET Symbols) \ {{}} /\ csv \in (SUBSET Symbols) \ {{}}
  /\ listed \in SUBSET Symbols /\ files = Files
  /\ up = FALSE /\ snap = None /\ last = 0 /\ changes = 0

----------------------------------------------------------------------------
(* UniverseBuilder.build.                                                  *)

\* The index members as a data source returns them: the archive when it can
\* be fetched, the file otherwise.  A failed fetch is not cached, so that the
\* second call of one build may see another list than the first.
IndexSymbols == IF api THEN {csv, yaml} \ {{}} ELSE {yaml}

\* ExclusionListFilter and SurveillanceFilter; the master always says equity.
Excluded == listed
\* IndexMembershipFilter asks the data source again.
NotInIndex(members) == Symbols \ members
\* LiquidityFilter: neither source has figures, and the policy for that is
\* EXCLUDE in live mode and INCLUDE otherwise, or without the file.
Illiquid == IF live /\ "liquidity" \in files THEN Symbols ELSE {}
\* RiskFilter: the same.  CorporateActionFilter: neither source has actions.
Risky == IF live /\ "risk" \in files THEN Symbols ELSE {}

\* The first MaxSymbols of a set, in the order of their names.
Capped(S) == {s \in S : Cardinality({t \in S : t < s}) < MaxSymbols}

Failure(approved) ==
  IF approved = {} THEN "FAILED"
  ELSE IF Cardinality(approved) < MinSymbols THEN "PARTIAL"
  ELSE IF api THEN "none" ELSE "FALLBACK"

Snapshots ==
  {LET approved == Capped(c \ (Excluded \cup NotInIndex(m) \cup Illiquid \cup Risky))
   IN  [date |-> Utc, approved |-> approved, failure |-> Failure(approved)]
   : c \in IndexSymbols, m \in IndexSymbols}
Buildable == "modes" \in files

----------------------------------------------------------------------------
\* start: without a snapshot a live service does not come up, a paper service
\* runs with a validator that has none.
Start ==
  /\ ~up
  /\ \/ Buildable /\ snap' \in Snapshots /\ up' = TRUE
     \/ ~Buildable /\ ~live /\ snap' = None /\ up' = TRUE
     \/ ~Buildable /\ live /\ UNCHANGED <<snap, up>>
  /\ last' = 0
  /\ UNCHANGED <<day, phase, config, changes>>

\* _universe_snapshot_refresh_loop: compares the date in India.
Refresh ==
  /\ up /\ last # day
  /\ \/ Buildable /\ snap' \in Snapshots /\ last' = day
     \/ ~Buildable /\ ~live /\ snap' = None /\ last' = day
     \/ ~Buildable /\ live /\ UNCHANGED <<snap, last>>
  /\ UNCHANGED <<day, phase, config, up, changes>>

\* The loop checks every minute: no phase passes without it.
Clock ==
  /\ up => last = day \/ ~Buildable
  /\ \/ /\ phase # "evening" /\ UNCHANGED day
        /\ phase' = CASE phase = "night" -> "morning" [] phase = "morning" -> "market"
                      [] OTHER -> "evening"
     \/ phase = "evening" /\ day < MaxDays /\ day' = day + 1 /\ phase' = "night"
  /\ UNCHANGED <<config, up, snap, last, changes>>

\* The lists, the archive and the files change; the process restarts.
Change ==
  /\ changes < MaxChanges /\ changes' = changes + 1
  /\ \/ \E s \in Symbols : listed' = listed \cup {s} /\ UNCHANGED <<csv, files, up>>
     \/ csv # {} /\ csv' = {} /\ UNCHANGED <<listed, files, up>>
     \/ \E f \in files : files' = files \ {f} /\ UNCHANGED <<listed, csv, up>>
     \/ up /\ up' = FALSE /\ UNCHANGED <<listed, csv, files>>
  /\ UNCHANGED <<day, phase, live, api, yaml, snap, last>>

Next == Start \/ Refresh \/ Clock \/ Change

Spec == Init /\ [][Next]_vars

----------------------------------------------------------------------------
\* Mutant: the date of the snapshot is not looked at.
ApprovesStale(s) ==
  up /\ IF snap = None THEN ~live ELSE ~(live /\ snap.failure = "PARTIAL") /\ s \in snap.approved

\* UniverseOrderValidator.validate of an order on the NSE: a paper order is let
\* through without a snapshot and on an old or thin one.
Approves(s) ==
  /\ up
  /\ IF snap = None THEN ~live
     ELSE /\ live => snap.date = Utc /\ snap.failure # "PARTIAL"
          /\ s \in snap.approved

\* A live order passes only on a snapshot of today with enough symbols, which
\* none of the shipped configuration can produce: the live policy excludes a
\* symbol without figures and no data source has any, so that an approved
\* symbol means a configuration file that could not be read.  No order, live or
\* paper, passes on more symbols than the cap.
LiveOrdersNeedToday ==
  /\ \A s \in Symbols : live /\ Approves(s) =>
       /\ snap.date = Utc /\ Cardinality(snap.approved) >= MinSymbols
       /\ files # Files
  /\ snap # None => Cardinality(snap.approved) <= MaxSymbols

\* "This loop rebuilds at 00:01 IST each day so the validator always references
\* today's approved symbols" (_universe_snapshot_refresh_loop): once the loop
\* has run for the day, the snapshot in market hours is the one of the day.
MarketHoursSnapshotIsTodays ==
  up /\ phase = "market" /\ last = day /\ snap # None => snap.date = Utc
============================================================================
