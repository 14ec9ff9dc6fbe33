--------------------------- MODULE StatusSnapshot ---------------------------
(***************************************************************************)
(* The status report of a paper session (services/shared/monitoring,       *)
(* scripts/monitoring/paper_trading_monitor.py).  Each cycle reads the     *)
(* positions, the kill switch and the entry block at the same time, looks  *)
(* up a price for every open position, and folds what it found into RED,   *)
(* AMBER or GREEN.  The counters of the trading process come from a file   *)
(* that the monitor reads once, before the first cycle.                    *)
(***************************************************************************)
EXTENDS Naturals, FiniteSets

CONSTANTS
  Symbols,
  MaxEvents   \* changes of the session and failed reads

VARIABLES
  position,  \* each row: "none", "flat", "managed", "unmanaged" (no stop) or "mismatch"
  quote,     \* its price: "fresh", "stale", "fill" (no quote) or "none"
  kill,      \* the kill switch
  block,     \* the entry block
  mode,      \* "PAPER" or "LIVE"
  session,   \* the trading process: "clean", "recon" (mismatches at startup) or "alarm"
  counters,  \* ... as the monitor knows it: "none" without a file
  unread,    \* the tables this cycle has not read yet
  got,       \* what it has read
  failed,    \* the reads of this cycle that failed
  overall,   \* the colour, "none" while the cycle runs
  standing,  \* history: what has been wrong since the cycle began
  events

vars == <<position, quote, kill, block, mode, session, counters, unread, got, failed,
          overall, standing, events>>
world == <<position, quote, kill, block, mode, session>>

Rows == {"none", "flat", "managed", "unmanaged", "mismatch"}
Reads == {"positions", "kill", "block"}
Nothing == [s \in Symbols |-> "none"]
Empty == [positions |-> Nothing, kill |-> FALSE, block |-> FALSE]

----------------------------------------------------------------------------
(* What is wrong with the session, whether or not the report finds it.     *)
Wrong ==
  {<<"unmanaged", s>> : s \in {t \in Symbols : position[t] = "unmanaged"}}
  \cup {<<"stale", s>> : s \in {t \in Symbols : /\ position[t] \notin {"none", "flat"}
                                                /\ mode = "LIVE" /\ quote[t] \in {"stale", "fill"}}}
  \cup IF mode = "LIVE" THEN {<<"live", "mode">>} ELSE {}

Init ==
  /\ position \in [Symbols -> Rows] /\ quote = [s \in Symbols |-> "fresh"]
  /\ kill \in BOOLEAN /\ block = FALSE /\ mode \in {"PAPER", "LIVE"}
  /\ session \in {"clean", "recon", "alarm"} /\ counters \in {"none", session}
  /\ unread = Reads /\ got = Empty /\ failed = {} /\ overall = "none" /\ standing = Wrong /\ events = 0

Event == events < MaxEvents /\ events' = events + 1

\* The session goes on while the report is being put together.
Change ==
  /\ Event /\ UNCHANGED <<mode, counters, unread, got, failed, overall>>
  /\ \/ \E s \in Symbols, r \in Rows : position' = [position EXCEPT ![s] = r]
        /\ UNCHANGED <<quote, kill, block, session>>
     \/ \E s \in Symbols, q \in {"stale", "fill", "none"} : quote' = [quote EXCEPT ![s] = q]
        /\ UNCHANGED <<position, kill, block, session>>
     \/ kill' = ~kill /\ UNCHANGED <<position, quote, block, session>>
     \/ block' = ~block /\ UNCHANGED <<position, quote, kill, session>>
     \/ session' = "alarm" /\ UNCHANGED <<position, quote, kill, block>>
  /\ standing' = standing \cap Wrong'

----------------------------------------------------------------------------
(* The reads: a failed one looks like an empty table.                      *)

Read(r, value) ==
  /\ r \in unread /\ unread' = unread \ {r}
  /\ \/ got' = [got EXCEPT ![r] = value] /\ UNCHANGED <<failed, events>>
     \/ Event /\ failed' = failed \cup {r} /\ UNCHANGED got
  /\ UNCHANGED <<world, counters, overall, standing>>

\* _fetch_positions, all pages, and _parse_position.
FetchPositions == Read("positions", position)
\* _fetch_kill_switch.
FetchKillSwitch == Read("kill", kill)
\* _fetch_entry_block: a failed read is reported as such.
FetchEntryBlock == Read("block", block)

----------------------------------------------------------------------------
(* The fold.                                                               *)

\* A row that is not FLAT, whatever its quantity.
Open == {s \in Symbols : got.positions[s] \notin {"none", "flat"}}

\* LtpResolver.resolve: the quote, else the fill price (stale), else nothing.
Stale == {s \in Open : quote[s] \in {"stale", "fill"}}

\* Mutant: positions without a stop are listed but not counted as critical.
CriticalAlertsManaged ==
  \/ mode = "LIVE"
  \/ got.kill /\ Open # {}
  \/ counters = "alarm"

\* The critical alerts of build_snapshot.  The one on a failed read of the
\* entry block asks for an active block as well and cannot come.
CriticalAlerts ==
  \/ mode = "LIVE"
  \/ \E s \in Open : got.positions[s] = "unmanaged"
  \/ got.kill /\ Open # {}
  \/ counters = "alarm"
  \/ mode = "LIVE" /\ Stale # {}
  \/ "block" \in failed /\ got.block

\* The warnings.  Without counters the reconciliation is not known to have run.
Warnings ==
  \/ \E s \in Open : got.positions[s] = "mismatch"
  \/ counters = "recon" /\ ~CriticalAlerts
  \/ counters = "none"
  \/ got.block /\ "block" \notin failed
  \/ "block" \in failed /\ ~got.block

Overall == IF CriticalAlerts THEN "RED" ELSE IF Warnings THEN "AMBER" ELSE "GREEN"

\* build_snapshot ends.
Fold ==
  /\ overall = "none" /\ unread = {} /\ overall' = Overall
  /\ UNCHANGED <<world, counters, unread, got, failed, standing, events>>

\* --watch: the next cycle, with the counters of the first.
Refresh ==
  /\ overall # "none" /\ overall' = "none" /\ unread' = Reads /\ got' = Empty /\ failed' = {}
  /\ standing' = Wrong
  /\ UNCHANGED <<world, counters, events>>

Next == \/ Change \/ FetchPositions \/ FetchKillSwitch \/ FetchEntryBlock \/ Fold \/ Refresh

Spec == Init /\ [][Next]_vars

----------------------------------------------------------------------------
\* What is wrong from the beginning to the end of a cycle turns the report
\* red, unless the read that would have shown it failed; a failed read of the
\* entry block shows.  (A failed scan of the positions does not: the report is
\* then the one of a session without positions.  Nor do counters that went
\* stale after the monitor read them.)
StandingWrongIsRed ==
  overall # "none" =>
    /\ standing # {} /\ "positions" \notin failed => overall = "RED"
    /\ "block" \in failed => overall # "GREEN"
    /\ counters = "none" => overall # "GREEN"
============================================================================
