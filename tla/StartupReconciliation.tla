------------------------ MODULE StartupReconciliation ------------------------
(***************************************************************************)
(* The check of the positions table when the execution engine starts       *)
(* (services/execution_engine/reconciliation, and                          *)
(* _run_startup_position_reconciliation).  It reads the first page of the  *)
(* table, looks at its rows for five kinds of mismatch and, in paper mode, *)
(* repairs one of them; then the service starts.  The service may stop and *)
(* start again.                                                            *)
(***************************************************************************)
EXTENDS Integers, FiniteSets

CONSTANTS Symbols, MaxFaults

VARIABLES
  row,       \* each row: direction, quantity, stop (has a stop), lock (has exit_order_id)
  page,      \* the rows of the table's first page
  paper,     \* paper_trading
  strict,    \* reconciliation_strict_startup
  at,        \* "scan", "check", "report", "started" or "refused"
  scanned,   \* the rows as they were scanned
  todo,      \* the mismatches not dealt with yet
  found, repaired, alerted,  \* the report
  runs,      \* how often the service has started
  faults

vars == <<row, page, paper, strict, at, scanned, todo, found, repaired, alerted, runs, faults>>

Rows == [direction : {"FLAT", "LONG", "SHORT"}, quantity : -1..1, stop : BOOLEAN, lock : BOOLEAN]

Init ==
  /\ row \in [Symbols -> Rows] /\ page \in SUBSET Symbols /\ paper \in BOOLEAN /\ strict \in BOOLEAN
  /\ at = "scan" /\ scanned = row /\ todo = {} /\ found = 0 /\ repaired = 0 /\ alerted = 0
  /\ runs = 0 /\ faults = 0

Fault == faults < MaxFaults /\ faults' = faults + 1

QtyDirection(r) ==
  IF r.quantity = 0 THEN "FLAT" ELSE IF r.quantity > 0 THEN "LONG" ELSE "SHORT"

\* _detect_mismatches.
Mismatches(r) ==
  IF r.direction = "FLAT" THEN IF r.stop THEN {"FLAT_WITH_STOP"} ELSE {}
  ELSE (IF r.quantity = 0 THEN {"ZERO_QTY_OPEN"} ELSE {})
       \cup (IF QtyDirection(r) \notin {"FLAT", r.direction} THEN {"QTY_DIRECTION"} ELSE {})
       \cup (IF ~r.stop THEN {"UNMANAGED"} ELSE {})
       \cup (IF r.lock THEN {"STALE_EXIT_LOCK"} ELSE {})
PageMismatches(t) == UNION {{s} \X Mismatches(t[s]) : s \in page}

\* _scan_all_positions: one request, which returns a page of at most a megabyte; the
\* key to go on from is not followed.  A failed scan ends the check, and a strict start.
Scan ==
  /\ at = "scan"
  /\ \/ /\ at' = "check" /\ scanned' = row /\ todo' = PageMismatches(row)
        /\ found' = Cardinality(todo') /\ repaired' = 0 /\ alerted' = 0 /\ UNCHANGED faults
     \/ /\ Fault /\ at' = IF strict THEN "refused" ELSE "started"
        /\ todo' = {} /\ found' = 0 /\ repaired' = 0 /\ alerted' = 0 /\ UNCHANGED scanned
  /\ UNCHANGED <<row, page, paper, strict, runs>>

\* _repair of a ZERO_QTY_OPEN: an unconditional write of direction and quantity.
SetDirectionFlat(s) ==
  row' = [row EXCEPT ![s] = [direction |-> "FLAT", quantity |-> 0, stop |-> @.stop, lock |-> @.lock]]

\* One mismatch, from the row as it was scanned: repaired, or reported when it
\* is of another kind, the write fails, or the mode is live.
Treat ==
  /\ at = "check" /\ todo # {}
  /\ \E m \in todo :
       /\ todo' = todo \ {m}
       /\ \/ /\ paper /\ m[2] = "ZERO_QTY_OPEN" /\ SetDirectionFlat(m[1])
             /\ repaired' = repaired + 1 /\ UNCHANGED <<alerted, faults>>
          \/ /\ paper /\ m[2] = "ZERO_QTY_OPEN" /\ Fault
             /\ alerted' = alerted + 1 /\ UNCHANGED <<row, repaired>>
          \/ /\ ~paper \/ m[2] # "ZERO_QTY_OPEN"
             /\ alerted' = alerted + 1 /\ UNCHANGED <<row, repaired, faults>>
  /\ UNCHANGED <<page, paper, strict, at, scanned, found, runs>>

\* Mutant: an alert does not count as dealt with.
SafeRepaired == repaired = found

\* safe: everything was repaired or reported.
Safe == repaired + alerted = found

Report ==
  /\ at = "check" /\ todo = {} /\ at' = IF strict /\ ~Safe THEN "refused" ELSE "started"
  /\ UNCHANGED <<row, page, paper, strict, scanned, todo, found, repaired, alerted, runs, faults>>

\* The service starts over.
Restart ==
  /\ at \in {"started", "refused"} /\ runs < 2 /\ runs' = runs + 1 /\ at' = "scan"
  /\ UNCHANGED <<row, page, paper, strict, scanned, todo, found, repaired, alerted, faults>>

Next == Scan \/ Treat \/ Report \/ Restart

Spec == Init /\ [][Next]_vars

----------------------------------------------------------------------------
\* The check alters nothing but the direction of an empty row it has read, and only in
\* paper mode; with no failed request it leaves no such row on the page it reads,
\* repairs nothing when it runs again, and never keeps the service from starting: a
\* mismatch that is only reported counts as dealt with even in strict mode.
ReconciliationIsSafe ==
  /\ \A s \in Symbols : row[s] # scanned[s] =>
       /\ s \in page /\ paper /\ scanned[s].quantity = 0
       /\ row[s] = [scanned[s] EXCEPT !.direction = "FLAT"]
  /\ faults = 0 => /\ at # "refused"
                   /\ at = "started" /\ paper =>
                        \A s \in page : "ZERO_QTY_OPEN" \notin Mismatches(row[s])
                   /\ runs > 0 /\ at = "started" => repaired = 0 \/ ~paper

\* Three claims of the code's own comments about a check that meets no failed request;
\* none holds.  The scan is of the full table (reconciliation.py:147):
FullTableIsRepaired == faults = 0 /\ at = "started" /\ paper =>
  \A s \in Symbols : "ZERO_QTY_OPEN" \notin Mismatches(row[s])

\* a paper run gives a position without a stop a placeholder (reconciliation.py:16):
UnmanagedGetsAStop == faults = 0 /\ at = "started" /\ paper =>
  \A s \in page : "UNMANAGED" \notin Mismatches(row[s])

\* and a strict start is refused for mismatches nobody resolved (service.py:1732-1740):
StrictStartIsClean == faults = 0 /\ at = "started" /\ strict =>
  \A s \in page : Mismatches(row[s]) = {}
============================================================================
