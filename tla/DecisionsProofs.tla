--------------------------- MODULE DecisionsProofs ---------------------------
(***************************************************************************)
(* Proofs about what decides beside the order path: the machines of        *)
(* MCDecisions, for any symbols, lists, limits and numbers of changes and  *)
(* failures, each with an inductive invariant of its own that the machines *)
(* beside it leave alone; and MonitoringAgent, for any platform,           *)
(* observations and deployments.                                           *)
(***************************************************************************)
EXTENDS MCDecisions, MonitoringAgent, Sequences, Sums

-----------------------------------------------------------------------------
\* The machines count with operators of their own, which are the same.
LEMMA SameCount ==
  \A S : /\ Universe!Cardinality(S) = Cardinality(S)
         /\ Startup!Cardinality(S) = Cardinality(S)
         /\ Limiter!Cardinality(S) = Cardinality(S)
BY DEF Cardinality, Universe!Cardinality, Startup!Cardinality, Limiter!Cardinality

-----------------------------------------------------------------------------
(* The universe gate                                                       *)

\* A cap keeps at most MaxSymbols symbols: those it keeps have different numbers of
\* smaller symbols, all of them less than MaxSymbols.
LEMMA CapHolds ==
  ASSUME NEW S, S \subseteq Ranks
  PROVE  Universe!Capped(S) \subseteq S /\ Cardinality(Universe!Capped(S)) <= MaxSymbols
<1> DEFINE Below(s) == {t \in S : t < s}
           K == Universe!Capped(S)
           f == [s \in K |-> Cardinality(Below(s))]
<1>1. IsFiniteSet(S) /\ S \subseteq Int /\ MaxSymbols \in Nat
  BY DecisionsAssumption, FS_Subset DEF DecisionsAssumption
<1>2. K = {s \in S : Cardinality(Below(s)) < MaxSymbols}
  BY SameCount DEF Universe!Capped
<1>3. \A s \in S : IsFiniteSet(Below(s)) /\ Cardinality(Below(s)) \in Nat
  BY <1>1, FS_Subset, FS_CardinalityType
<1> HIDE DEF K
<1>4. f \in [K -> 0 .. MaxSymbols - 1]
  <2>1. \A s \in K : f[s] = Cardinality(Below(s))
    OBVIOUS
  <2>2. \A s \in K : Cardinality(Below(s)) \in 0 .. MaxSymbols - 1
    <3> HIDE DEF Below
    <3> QED
      BY <1>1, <1>2, <1>3
  <2> QED
    BY <2>1, <2>2
<1>5. \A s, u \in K : s < u => f[s] # f[u]
  <2> TAKE s, u \in K
  <2> HAVE s < u
  <2>1. s \in S /\ u \in S /\ s \in Int /\ u \in Int
    BY <1>1, <1>2
  <2>2. Below(s) \subseteq Below(u) /\ s \in Below(u) /\ s \notin Below(s)
    <3>1. \A t \in S : t \in Int /\ (t < s => t < u)
      BY <1>1, <2>1
    <3>2. ~(s < s)
      BY <2>1
    <3> QED
      BY <2>1, <3>1, <3>2, Zenon
  <2>3. Cardinality(Below(s)) < Cardinality(Below(u))
    <3> HIDE DEF Below
    <3>1. Cardinality(Below(s)) <= Cardinality(Below(u))
          /\ (Cardinality(Below(s)) = Cardinality(Below(u)) => Below(s) = Below(u))
      BY <1>3, <2>1, <2>2, FS_Subset
    <3> QED
      BY <1>3, <2>1, <2>2, <3>1
  <2> QED
    BY <1>3, <2>1, <2>3
<1>6. f \in Injection(K, 0 .. MaxSymbols - 1)
  <2>1. \A s, u \in K : f[s] = f[u] => s = u
    BY <1>1, <1>2, <1>5
  <2> QED
    BY <1>4, <2>1 DEF Injection, IsInjective
<1>7. IsFiniteSet(0 .. MaxSymbols - 1) /\ Cardinality(0 .. MaxSymbols - 1) = MaxSymbols
  BY <1>1, FS_Interval
<1>8. Cardinality(K) <= MaxSymbols
  BY <1>6, <1>7, FS_Injection
<1> QED
  BY <1>2, <1>8 DEF K

\* What a snapshot is, whenever it was built: its symbols are within the cap, it says
\* PARTIAL when they are few but some, and a live one has symbols only when a file of
\* the configuration could not be read, which then stays so.
SnapshotOf(sn) ==
  /\ sn.approved \subseteq Ranks /\ Cardinality(sn.approved) <= MaxSymbols
  /\ sn.approved # {} => Cardinality(sn.approved) >= MinSymbols \/ sn.failure = "PARTIAL"
  /\ live /\ sn.approved # {} => files # Universe!Files

UniverseInv ==
  part = "universe" =>
    /\ csv \subseteq Ranks /\ yaml \subseteq Ranks /\ files \subseteq Universe!Files
    /\ snap = NoSnapshot \/ SnapshotOf(snap)

\* Every snapshot that can be built is one.
LEMMA BuiltIsSnapshot ==
  ASSUME csv \subseteq Ranks, yaml \subseteq Ranks, files \subseteq Universe!Files,
         NEW sn \in Universe!Snapshots, MinSymbols \in Int
  PROVE  SnapshotOf(sn)
<1> DEFINE Kept(c, m) == c \ (Universe!Excluded \cup Universe!NotInIndex(m)
                              \cup Universe!Illiquid \cup Universe!Risky)
<1>1. PICK c \in Universe!IndexSymbols, m \in Universe!IndexSymbols :
        sn = [date |-> Universe!Utc, approved |-> Universe!Capped(Kept(c, m)),
              failure |-> Universe!Failure(Universe!Capped(Kept(c, m)))]
  BY DEF Universe!Snapshots
<1>2. c \subseteq Ranks
  BY DEF Universe!IndexSymbols
<1>3. Kept(c, m) \subseteq Ranks
  BY <1>2
<1>4. live /\ files = Universe!Files => Kept(c, m) = {}
  BY <1>2 DEF Universe!Illiquid, Universe!Files
<1> DEFINE K == Kept(c, m)
           A == Universe!Capped(K)
<1> HIDE DEF Kept
<1>5. A \subseteq K /\ Cardinality(A) <= MaxSymbols
  BY <1>3, CapHolds
<1>6. sn.approved = A /\ sn.failure = Universe!Failure(A)
  BY <1>1
<1>7. Cardinality(A) \in Nat
  <2>1. IsFiniteSet(A)
    BY <1>3, <1>5, FS_Subset, DecisionsAssumption DEF DecisionsAssumption
  <2> QED
    BY <2>1, FS_CardinalityType
<1> HIDE DEF A
<1>8. A # {} => Cardinality(A) >= MinSymbols \/ Universe!Failure(A) = "PARTIAL"
  BY <1>7, SameCount DEF Universe!Failure
<1> QED
  BY <1>3, <1>4, <1>5, <1>6, <1>8 DEF SnapshotOf

\* No day is rebuilt before the first rebuild.
LEMMA UniverseInit == DecisionsInit => UniverseInv
BY DEF DecisionsInit, UniverseInv, Universe!Init

\* Every step of the universe machine keeps the invariant: a rebuild writes the
\* snapshot of its own day, and the gate answers for the day it is asked about.
LEMMA UniverseStep ==
  UniverseInv /\ [DecisionsNext]_decisionsVars => UniverseInv'
<1> SUFFICES ASSUME UniverseInv, [DecisionsNext]_decisionsVars, part' = "universe" PROVE UniverseInv'
  BY DEF UniverseInv
<1>1. CASE UNCHANGED decisionsVars
  BY <1>1 DEF decisionsVars, universeVars, UniverseInv, SnapshotOf
<1>2. CASE DecisionsNext
  <2>1. part = "universe" /\ Universe!Next
    BY <1>2 DEF DecisionsNext
  <2>2. /\ csv \subseteq Ranks /\ yaml \subseteq Ranks /\ files \subseteq Universe!Files
        /\ snap = NoSnapshot \/ SnapshotOf(snap)
    BY <2>1 DEF UniverseInv
  <2>3. ASSUME snap' = NoSnapshot \/ snap' \in Universe!Snapshots \/ snap' = snap,
               UNCHANGED Universe!config
        PROVE  UniverseInv'
    <3>1. snap' \in Universe!Snapshots => SnapshotOf(snap')
      BY <2>2, BuiltIsSnapshot, DecisionsAssumption DEF DecisionsAssumption
    <3> QED
      BY <2>2, <2>3, <3>1 DEF UniverseInv, SnapshotOf, Universe!config
  <2>4. CASE Universe!Start
    BY <2>3, <2>4 DEF Universe!Start
  <2>5. CASE Universe!Refresh
    BY <2>3, <2>5 DEF Universe!Refresh
  <2>6. CASE Universe!Clock
    BY <2>3, <2>6 DEF Universe!Clock
  <2>7. CASE Universe!Change
    <3>1. /\ csv' \subseteq Ranks /\ yaml' = yaml /\ live' = live /\ snap' = snap
          /\ files' \subseteq files
      BY <2>2, <2>7 DEF Universe!Change
    <3> QED
      BY <2>2, <3>1 DEF UniverseInv, SnapshotOf, Universe!Files
  <2> QED
    BY <2>1, <2>4, <2>5, <2>6, <2>7 DEF Universe!Next
<1> QED
  BY <1>1, <1>2

\* A live order passes the universe only on a snapshot of the day with enough symbols, and
\* then only because a file of the configuration could not be read; no order passes on
\* more symbols than the cap (UniverseBuilder.build, UniverseOrderValidator.validate).
THEOREM OrdersNeedToday == DecisionsSpec => []LiveOrdersNeedToday
<1>1. UniverseInv => LiveOrdersNeedToday
  <2> SUFFICES ASSUME UniverseInv, part = "universe" PROVE Universe!LiveOrdersNeedToday
    BY DEF LiveOrdersNeedToday
  <2>1. snap = NoSnapshot \/ SnapshotOf(snap)
    BY DEF UniverseInv
  <2> QED
    BY <2>1, SameCount DEF Universe!LiveOrdersNeedToday, Universe!Approves, SnapshotOf
<1> QED
  BY <1>1, UniverseInit, UniverseStep, PTL DEF DecisionsSpec

-----------------------------------------------------------------------------
(* The check of the positions at startup                                   *)

Empty(r) == "ZERO_QTY_OPEN" \in Startup!Mismatches(r)
Repaired(r) == [direction |-> "FLAT", quantity |-> 0, stop |-> r.stop, lock |-> r.lock]

StartupTypes ==
  /\ row \in [Symbols -> Startup!Rows] /\ scanned \in [Symbols -> Startup!Rows]
  /\ page \subseteq Symbols /\ paper \in BOOLEAN /\ strict \in BOOLEAN
  /\ at \in {"scan", "check", "started", "refused"}
  /\ found \in Int /\ repaired \in Int /\ alerted \in Int /\ runs \in Nat /\ lapses \in Nat

\* The mismatches not dealt with are some of those scanned, and make up what the report
\* is short of.
Accounted ==
  /\ left \subseteq Startup!PageMismatches(scanned) /\ IsFiniteSet(left)
  /\ at # "check" => left = {}
  /\ at = "check" => repaired + alerted + Cardinality(left) = found

\* A row is as it was scanned, or an empty one that a paper run has repaired.
OnlyEmptyAltered ==
  \A s \in Symbols :
    \/ row[s] = scanned[s]
    \/ s \in page /\ paper /\ Empty(scanned[s]) /\ row[s] = Repaired(scanned[s])

\* Without a failed request an empty row of a paper run is among the mismatches left, and
\* there is none once the service has started.
EmptyIsRepaired ==
  /\ at # "scan" \/ runs > 0 => \A s \in page : Empty(row[s]) => <<s, "ZERO_QTY_OPEN">> \in left
  /\ runs > 0 => \A s \in page : ~Empty(row[s]) /\ <<s, "ZERO_QTY_OPEN">> \notin left
  /\ runs > 0 /\ at # "scan" => repaired = 0

StartupInv ==
  part = "startup" =>
    /\ StartupTypes /\ Accounted /\ OnlyEmptyAltered
    /\ lapses = 0 => at # "refused"
    /\ lapses = 0 /\ paper => EmptyIsRepaired

\* The mismatches of a page are finitely many.
LEMMA MismatchesFinite == ASSUME page \subseteq Symbols, NEW t PROVE IsFiniteSet(Startup!PageMismatches(t))
<1> DEFINE Kinds == {"FLAT_WITH_STOP", "ZERO_QTY_OPEN", "QTY_DIRECTION", "UNMANAGED", "STALE_EXIT_LOCK"}
<1>1. \A s : Startup!Mismatches(t[s]) \subseteq Kinds
  BY DEF Startup!Mismatches
<1> HIDE DEF Kinds
<1>2. Startup!PageMismatches(t) \subseteq Symbols \X Kinds
  BY <1>1 DEF Startup!PageMismatches
<1>3. IsFiniteSet(Kinds)
  <2>1. IsFiniteSet({"FLAT_WITH_STOP"} \cup {"ZERO_QTY_OPEN"} \cup {"QTY_DIRECTION"}
                    \cup {"UNMANAGED"} \cup {"STALE_EXIT_LOCK"})
    BY FS_Singleton, FS_Union
  <2>2. Kinds = {"FLAT_WITH_STOP"} \cup {"ZERO_QTY_OPEN"} \cup {"QTY_DIRECTION"}
                \cup {"UNMANAGED"} \cup {"STALE_EXIT_LOCK"}
    BY DEF Kinds
  <2> QED
    BY <2>1, <2>2
<1>4. IsFiniteSet(Symbols \X Kinds)
  BY <1>3, FS_Product, DecisionsAssumption DEF DecisionsAssumption
<1> QED
  BY <1>2, <1>4, FS_Subset

\* A repaired row is no longer empty, and has the direction and quantity of one.
LEMMA RepairMends ==
  ASSUME NEW r \in Startup!Rows
  PROVE  /\ Repaired(r) \in Startup!Rows /\ ~Empty(Repaired(r))
         /\ Empty(r) => r.quantity = 0 /\ Repaired(r) = [r EXCEPT !.direction = "FLAT"]
<1>1. PICK d \in {"FLAT", "LONG", "SHORT"}, q \in -1 .. 1, st \in BOOLEAN, lk \in BOOLEAN :
        r = [direction |-> d, quantity |-> q, stop |-> st, lock |-> lk]
  BY DEF Startup!Rows
<1>2. Repaired(r) = [direction |-> "FLAT", quantity |-> 0, stop |-> st, lock |-> lk]
  BY <1>1 DEF Repaired
<1>3. [r EXCEPT !.direction = "FLAT"] = [direction |-> "FLAT", quantity |-> q, stop |-> st, lock |-> lk]
  BY <1>1
<1>4. Repaired(r) \in Startup!Rows
  BY <1>2 DEF Startup!Rows
<1>5. ~Empty(Repaired(r))
  BY <1>2 DEF Empty, Startup!Mismatches
<1>6. Empty(r) => q = 0
  BY <1>1 DEF Empty, Startup!Mismatches
<1> QED
  BY <1>1, <1>2, <1>3, <1>4, <1>5, <1>6

\* At startup nothing is scanned, so that nothing is to be accounted for.
LEMMA StartupInit == DecisionsInit => StartupInv
<1> SUFFICES ASSUME DecisionsInit, part = "startup" PROVE StartupInv
  BY DEF StartupInv
<1>1. Startup!Init
  BY DEF DecisionsInit
<1> QED
  <2>1. StartupTypes
    BY <1>1 DEF Startup!Init, StartupTypes
  <2>2. Accounted
    BY <1>1, FS_EmptySet DEF Startup!Init, Accounted
  <2>3. OnlyEmptyAltered
    <3>1. scanned = row
      BY <1>1 DEF Startup!Init
    <3> QED
      BY <3>1 DEF OnlyEmptyAltered
  <2> QED
    BY <1>1, <2>1, <2>2, <2>3 DEF StartupInv, Startup!Init, EmptyIsRepaired

\* The scan takes the mismatches of the table, or refuses when a read fails.
LEMMA ScanStep ==
  ASSUME StartupTypes, Accounted, OnlyEmptyAltered, lapses = 0 => at # "refused",
         lapses = 0 /\ paper => EmptyIsRepaired, Startup!Scan
  PROVE  /\ StartupTypes' /\ Accounted' /\ OnlyEmptyAltered'
         /\ (lapses = 0 => at # "refused")'
         /\ (lapses = 0 /\ paper => EmptyIsRepaired)'
<1>1. CASE /\ at' = "check" /\ scanned' = row /\ left' = Startup!PageMismatches(row)
           /\ found' = Startup!Cardinality(left') /\ repaired' = 0 /\ alerted' = 0
           /\ UNCHANGED lapses
  <2>1. IsFiniteSet(left') /\ found' = Cardinality(left') /\ Cardinality(left') \in Nat
    BY <1>1, MismatchesFinite, SameCount, FS_CardinalityType DEF StartupTypes
  <2>2. \A s \in page : <<s, "ZERO_QTY_OPEN">> \in Startup!PageMismatches(row) <=> Empty(row[s])
    BY DEF Startup!PageMismatches, Empty
  <2>3. UNCHANGED <<row, page, paper, strict, runs>> /\ at = "scan"
    BY DEF Startup!Scan
  <2>4. StartupTypes' /\ Accounted'
    <3>1. left' = Startup!PageMismatches(scanned)'
      BY <1>1, <2>3 DEF Startup!PageMismatches
    <3> QED
      BY <1>1, <2>1, <2>3, <3>1 DEF StartupTypes, Accounted
  <2>5. OnlyEmptyAltered'
    <3>1. scanned' = row'
      BY <1>1, <2>3
    <3> QED
      BY <3>1, Zenon DEF OnlyEmptyAltered
  <2>6. (lapses = 0 /\ paper => EmptyIsRepaired)'
    BY <1>1, <2>2, <2>3 DEF EmptyIsRepaired, Empty
  <2> QED
    BY <1>1, <2>4, <2>5, <2>6
<1>2. CASE /\ Startup!Fault /\ at' = IF strict THEN "refused" ELSE "started"
           /\ left' = {} /\ found' = 0 /\ repaired' = 0 /\ alerted' = 0 /\ UNCHANGED scanned
  <2>1. UNCHANGED <<row, page, paper, strict, runs>> /\ lapses' # 0 /\ lapses' \in Nat
    BY <1>2 DEF Startup!Scan, Startup!Fault, StartupTypes
  <2> QED
    BY <1>2, <2>1, FS_EmptySet DEF StartupTypes, Accounted, OnlyEmptyAltered
<1> QED
  BY <1>1, <1>2 DEF Startup!Scan

\* One mismatch is repaired, or is alerted about, and is accounted for either way.
LEMMA TreatStep ==
  ASSUME StartupTypes, Accounted, OnlyEmptyAltered, lapses = 0 => at # "refused",
         lapses = 0 /\ paper => EmptyIsRepaired, Startup!Treat
  PROVE  /\ StartupTypes' /\ Accounted' /\ OnlyEmptyAltered'
         /\ (lapses = 0 => at # "refused")'
         /\ (lapses = 0 /\ paper => EmptyIsRepaired)'
<1>1. PICK m \in left :
        /\ left' = left \ {m}
        /\ \/ /\ paper /\ m[2] = "ZERO_QTY_OPEN" /\ Startup!SetDirectionFlat(m[1])
              /\ repaired' = repaired + 1 /\ UNCHANGED <<alerted, lapses>>
           \/ /\ paper /\ m[2] = "ZERO_QTY_OPEN" /\ Startup!Fault
              /\ alerted' = alerted + 1 /\ UNCHANGED <<row, repaired>>
           \/ /\ ~paper \/ m[2] # "ZERO_QTY_OPEN"
              /\ alerted' = alerted + 1 /\ UNCHANGED <<row, repaired, lapses>>
  BY DEF Startup!Treat
<1>2. UNCHANGED <<page, paper, strict, at, scanned, found, runs>> /\ at = "check"
  BY DEF Startup!Treat
<1>3. /\ IsFiniteSet(left') /\ Cardinality(left') = Cardinality(left) - 1
      /\ Cardinality(left) \in Int
  BY <1>1, FS_RemoveElement, FS_CardinalityType DEF Accounted
<1>4. PICK s \in page : m[1] = s /\ m = <<s, m[2]>> /\ m[2] \in Startup!Mismatches(scanned[s])
  BY <1>1 DEF Accounted, Startup!PageMismatches
<1>0. s \in Symbols
  BY <1>4 DEF StartupTypes
<1>5. left' \subseteq Startup!PageMismatches(scanned)'
  BY <1>1, <1>2 DEF Accounted, Startup!PageMismatches
<1>6. CASE /\ paper /\ m[2] = "ZERO_QTY_OPEN" /\ Startup!SetDirectionFlat(m[1])
           /\ repaired' = repaired + 1 /\ UNCHANGED <<alerted, lapses>>
  <2>1. /\ row' \in [Symbols -> Startup!Rows] /\ row'[s] = Repaired(row[s])
        /\ \A t \in Symbols \ {s} : row'[t] = row[t]
    <3>1. row' = [row EXCEPT ![s] = Repaired(row[s])]
      BY <1>0, <1>4, <1>6 DEF Startup!SetDirectionFlat, Repaired
    <3>2. row \in [Symbols -> Startup!Rows]
      BY DEF StartupTypes
    <3>3. row'[s] = Repaired(row[s])
      BY <1>0, <3>1, <3>2 DEF Repaired
    <3>4. row'[s] \in Startup!Rows
      BY <1>0, <3>2, <3>3, RepairMends
    <3> QED
      BY <1>0, <3>1, <3>2, <3>3, <3>4
  <2>2. Repaired(row[s]) = Repaired(scanned[s])
    BY <1>0, <1>4 DEF OnlyEmptyAltered, StartupTypes, Startup!Rows, Repaired
  <2>3. StartupTypes'
    BY <1>2, <1>6, <2>1 DEF StartupTypes
  <2>4. Accounted'
    BY <1>2, <1>3, <1>5, <1>6 DEF Accounted, StartupTypes
  <2>5. OnlyEmptyAltered'
    BY <1>0, <1>2, <1>4, <1>6, <2>1, <2>2 DEF OnlyEmptyAltered, Empty
  <2>6. (lapses = 0 /\ paper => EmptyIsRepaired)'
    <3>1. ~Empty(row'[s])
      BY <1>0, <2>1, RepairMends, <1>4 DEF StartupTypes
    <3>2. runs > 0 /\ lapses = 0 => FALSE
      BY <1>1, <1>2, <1>4, <1>6 DEF EmptyIsRepaired
    <3>3. \A t \in page \ {s} : <<t, "ZERO_QTY_OPEN">> \in left => <<t, "ZERO_QTY_OPEN">> \in left'
      BY <1>1, <1>4
    <3> QED
      BY <1>2, <1>6, <2>1, <3>1, <3>2, <3>3 DEF EmptyIsRepaired, StartupTypes
  <2> QED
    BY <1>2, <1>6, <2>3, <2>4, <2>5, <2>6
<1>7. CASE /\ paper /\ m[2] = "ZERO_QTY_OPEN" /\ Startup!Fault
           /\ alerted' = alerted + 1 /\ UNCHANGED <<row, repaired>>
  <2>1. lapses' # 0 /\ lapses' \in Nat
    BY <1>7 DEF Startup!Fault, StartupTypes
  <2> QED
    BY <1>2, <1>3, <1>5, <1>7, <2>1 DEF StartupTypes, Accounted, OnlyEmptyAltered
<1>8. CASE /\ ~paper \/ m[2] # "ZERO_QTY_OPEN"
           /\ alerted' = alerted + 1 /\ UNCHANGED <<row, repaired, lapses>>
  <2>1. paper => \A t \in page : <<t, "ZERO_QTY_OPEN">> \in left => <<t, "ZERO_QTY_OPEN">> \in left'
    BY <1>1, <1>8
  <2>2. (lapses = 0 /\ paper => EmptyIsRepaired)'
    BY <1>1, <1>2, <1>8, <2>1 DEF EmptyIsRepaired
  <2> QED
    BY <1>2, <1>3, <1>5, <1>8, <2>2 DEF StartupTypes, Accounted, OnlyEmptyAltered
<1> QED
  BY <1>1, <1>6, <1>7, <1>8

\* Every step of the startup check keeps its invariant.
LEMMA StartupStep == StartupInv /\ [DecisionsNext]_decisionsVars => StartupInv'
<1> SUFFICES ASSUME StartupInv, [DecisionsNext]_decisionsVars, part' = "startup" PROVE StartupInv'
  BY DEF StartupInv
<1>1. CASE UNCHANGED decisionsVars
  BY <1>1 DEF decisionsVars, startupVars, StartupInv, StartupTypes, Accounted,
     OnlyEmptyAltered,
     EmptyIsRepaired, Startup!PageMismatches
<1>2. CASE DecisionsNext
  <2>1. part = "startup" /\ Startup!Next
    BY <1>2 DEF DecisionsNext
  <2>2. /\ StartupTypes /\ Accounted /\ OnlyEmptyAltered
        /\ lapses = 0 => at # "refused"
        /\ lapses = 0 /\ paper => EmptyIsRepaired
    BY <2>1 DEF StartupInv
  <2>3. CASE Startup!Scan
    BY <2>2, <2>3, ScanStep DEF StartupInv
  <2>4. CASE Startup!Treat
    BY <2>2, <2>4, TreatStep DEF StartupInv
  <2>5. CASE Startup!Report
    <3>1. Startup!Safe
      BY <2>2, <2>5, FS_EmptySet DEF Startup!Report, Startup!Safe, Accounted, StartupTypes
    <3>2. /\ at' = "started" /\ at = "check" /\ left = {}
          /\ UNCHANGED <<row, page, paper, strict, scanned, left, found, repaired, alerted, runs, lapses>>
      BY <2>5, <3>1 DEF Startup!Report
    <3> QED
      BY <2>2, <3>2 DEF StartupInv, StartupTypes, Accounted, OnlyEmptyAltered,
         EmptyIsRepaired,
         Startup!PageMismatches
  <2>6. CASE Startup!Restart
    <3>1. /\ at' = "scan" /\ at \in {"started", "refused"} /\ runs' = runs + 1
          /\ UNCHANGED <<row, page, paper, strict, scanned, left, found, repaired, alerted, lapses>>
      BY <2>6 DEF Startup!Restart
    <3> QED
      BY <2>2, <3>1 DEF StartupInv, StartupTypes, Accounted, OnlyEmptyAltered,
         EmptyIsRepaired,
         Startup!PageMismatches
  <2> QED
    BY <2>1, <2>3, <2>4, <2>5, <2>6 DEF Startup!Next
<1> QED
  BY <1>1, <1>2

\* The check at startup alters only the direction of empty rows of paper runs, on the first
\* page of the table; with no failed request it lets the service start, leaves no empty row on
\* that page and repairs nothing the second time (_detect_mismatches, _repair, _run_startup_position_reconciliation).
THEOREM ReconciliationSafe == DecisionsSpec => []ReconciliationIsSafe
<1>1. StartupInv => ReconciliationIsSafe
  <2> SUFFICES ASSUME StartupInv, part = "startup" PROVE Startup!ReconciliationIsSafe
    BY DEF ReconciliationIsSafe
  <2>1. \A s \in Symbols : row[s] # scanned[s] =>
          s \in page /\ paper /\ scanned[s].quantity = 0 /\ row[s] = [scanned[s] EXCEPT !.direction = "FLAT"]
    BY RepairMends DEF StartupInv, StartupTypes, OnlyEmptyAltered
  <2>2. lapses = 0 => /\ at # "refused"
                      /\ at = "started" /\ paper =>
                           \A s \in page : "ZERO_QTY_OPEN" \notin Startup!Mismatches(row[s])
                      /\ runs > 0 /\ at = "started" => repaired = 0 \/ ~paper
    BY DEF StartupInv, Accounted, EmptyIsRepaired, Empty
  <2> QED
    BY <2>1, <2>2 DEF Startup!ReconciliationIsSafe
<1> QED
  BY <1>1, StartupInit, StartupStep, PTL DEF DecisionsSpec

-----------------------------------------------------------------------------
(* The status report                                                       *)

Unmanaged(s) == <<"unmanaged", s>>

StatusTypes ==
  /\ position \in [Symbols -> Status!Rows]
  /\ got \in [positions : [Symbols -> Status!Rows], kill : BOOLEAN, block : BOOLEAN]
  /\ kill \in BOOLEAN /\ block \in BOOLEAN
  /\ overall # "none" => unread = {}

\* What has stood since the cycle began is still wrong, and what of it the positions show is
\* among those read.
StandingIsRead ==
  /\ standing \subseteq Status!Wrong
  /\ "positions" \notin unread /\ "positions" \notin failed =>
       \A s \in Symbols : Unmanaged(s) \in standing => got.positions[s] = "unmanaged"

\* The colour of a finished report, from what it has read.
ColourFits ==
  overall # "none" =>
    /\ mode = "LIVE" \/ (\E s \in Symbols : got.positions[s] = "unmanaged") => overall = "RED"
    /\ "block" \in failed => overall # "GREEN"
    /\ counters = "none" => overall # "GREEN"

StatusInv == part = "status" => StatusTypes /\ StandingIsRead /\ ColourFits

\* Outside LIVE mode the only wrong thing is a position without a stop.
LEMMA WhatIsWrong ==
  ASSUME NEW w \in Status!Wrong
  PROVE  \/ mode = "LIVE"
         \/ \E s \in Symbols : w = Unmanaged(s) /\ position[s] = "unmanaged"
BY DEF Status!Wrong, Unmanaged

\* An unmanaged position is the one its symbol has.
LEMMA UnmanagedIsOne ==
  ASSUME NEW s \in Symbols, Unmanaged(s) \in Status!Wrong
  PROVE  position[s] = "unmanaged"
BY DEF Status!Wrong, Unmanaged

\* Wrong depends on the session only.
LEMMA WrongStays == UNCHANGED Status!world => UNCHANGED Status!Wrong
BY DEF Status!world, Status!Wrong

\* The counters start from an empty report.
LEMMA StatusInit == DecisionsInit => StatusInv
<1> SUFFICES ASSUME DecisionsInit, part = "status" PROVE StatusInv
  BY DEF StatusInv
<1>1. Status!Init
  BY DEF DecisionsInit
<1>2. StatusTypes
  BY <1>1 DEF Status!Init, StatusTypes, Status!Empty, Status!Nothing, Status!Rows
<1> QED
  BY <1>1, <1>2 DEF Status!Init, StatusInv, StandingIsRead, ColourFits, Status!Reads

\* One read of the status report, which may fail, keeps what is known of the others.
LEMMA ReadStep ==
  ASSUME StatusTypes, StandingIsRead, ColourFits, NEW r \in Status!Reads, NEW value,
         r = "positions" => value = position, r # "positions" => value \in BOOLEAN,
         Status!Read(r, value)
  PROVE  StatusTypes' /\ StandingIsRead' /\ ColourFits'
<1>1. /\ r \in unread /\ unread' = unread \ {r} /\ UNCHANGED Status!world
      /\ UNCHANGED <<counters, overall, standing>> /\ overall = "none"
  BY DEF Status!Read, StatusTypes
<1>2. UNCHANGED Status!Wrong
  BY <1>1, WrongStays
<1>3. UNCHANGED <<position, kill, block>>
  BY <1>1 DEF Status!world
<1>4. ColourFits'
  BY <1>1 DEF ColourFits
<1>5. CASE got' = [got EXCEPT ![r] = value] /\ UNCHANGED failed
  <2>1. CASE r = "positions"
    <3>1. /\ got'.positions = position
          /\ got' \in [positions : [Symbols -> Status!Rows], kill : BOOLEAN, block : BOOLEAN]
      BY <1>5, <2>1 DEF StatusTypes
    <3>2. \A s \in Symbols : Unmanaged(s) \in standing => position[s] = "unmanaged"
      BY UnmanagedIsOne DEF StandingIsRead
    <3> QED
      BY <1>1, <1>2, <1>3, <1>4, <3>1, <3>2 DEF StatusTypes, StandingIsRead, Unmanaged
  <2>2. CASE r \in {"kill", "block"}
    <3>1. /\ got'.positions = got.positions
          /\ got' \in [positions : [Symbols -> Status!Rows], kill : BOOLEAN, block : BOOLEAN]
      BY <1>5, <2>2 DEF StatusTypes
    <3> QED
      BY <1>1, <1>2, <1>3, <1>4, <1>5, <2>2, <3>1 DEF StatusTypes, StandingIsRead,
         Unmanaged
  <2> QED
    BY <2>1, <2>2 DEF Status!Reads
<1>6. CASE failed' = failed \cup {r} /\ UNCHANGED got
  BY <1>1, <1>2, <1>3, <1>4, <1>6 DEF StatusTypes, StandingIsRead, Unmanaged
<1> QED
  BY <1>5, <1>6 DEF Status!Read

\* Every step of the status report keeps its invariant.
LEMMA StatusStep == StatusInv /\ [DecisionsNext]_decisionsVars => StatusInv'
<1> SUFFICES ASSUME StatusInv, [DecisionsNext]_decisionsVars, part' = "status" PROVE StatusInv'
  BY DEF StatusInv
<1>1. CASE UNCHANGED decisionsVars
  <2>1. UNCHANGED statusVars /\ UNCHANGED part
    BY <1>1 DEF decisionsVars
  <2>2. UNCHANGED Status!Wrong
    BY <2>1, WrongStays DEF statusVars, Status!world
  <2> QED
    BY <2>1, <2>2 DEF statusVars, StatusInv, StatusTypes, StandingIsRead, ColourFits,
       Unmanaged
<1>2. CASE DecisionsNext
  <2>1. part = "status" /\ Status!Next
    BY <1>2 DEF DecisionsNext
  <2>2. StatusTypes /\ StandingIsRead /\ ColourFits
    BY <2>1 DEF StatusInv
  <2> SUFFICES StatusTypes' /\ StandingIsRead' /\ ColourFits'
    BY DEF StatusInv
  <2>3. CASE Status!Change
    <3>1. /\ UNCHANGED <<mode, counters, unread, got, failed, overall>>
          /\ standing' = standing \cap Status!Wrong'
      BY <2>3 DEF Status!Change
    <3>2. position' \in [Symbols -> Status!Rows] /\ kill' \in BOOLEAN /\ block' \in BOOLEAN
      BY <2>2, <2>3 DEF Status!Change, StatusTypes
    <3>3. StandingIsRead'
      BY <2>2, <3>1 DEF StandingIsRead, Unmanaged
    <3> QED
      BY <2>2, <3>1, <3>2, <3>3 DEF StatusTypes, ColourFits
  <2>4. CASE Status!FetchPositions
    BY <2>2, <2>4, ReadStep DEF Status!FetchPositions, Status!Reads
  <2>5. CASE Status!FetchKillSwitch
    BY <2>2, <2>5, ReadStep DEF Status!FetchKillSwitch, Status!Reads, StatusTypes
  <2>6. CASE Status!FetchEntryBlock
    BY <2>2, <2>6, ReadStep DEF Status!FetchEntryBlock, Status!Reads, StatusTypes
  <2>7. CASE Status!Fold
    <3>1. /\ unread = {} /\ overall' = Status!Overall /\ UNCHANGED Status!world
          /\ UNCHANGED <<counters, unread, got, failed, standing>>
      BY <2>7 DEF Status!Fold
    <3>2. UNCHANGED Status!Wrong
      BY <3>1, WrongStays
    <3>3. mode = "LIVE" \/ (\E s \in Symbols : got.positions[s] = "unmanaged") => Status!Overall = "RED"
      BY DEF Status!Overall, Status!CriticalAlerts, Status!Open
    <3>4. /\ "block" \in failed => Status!Overall # "GREEN"
          /\ counters = "none" => Status!Overall # "GREEN"
      BY <2>2 DEF Status!Overall, Status!CriticalAlerts, Status!Warnings, StatusTypes
    <3>5. UNCHANGED <<position, kill, block, mode>>
      BY <3>1 DEF Status!world
    <3> QED
      BY <2>2, <3>1, <3>2, <3>3, <3>4, <3>5 DEF StatusTypes, StandingIsRead, ColourFits,
         Unmanaged
  <2>8. CASE Status!Refresh
    <3>1. /\ overall' = "none" /\ unread' = Status!Reads /\ got' = Status!Empty
          /\ standing' = Status!Wrong /\ UNCHANGED Status!world
      BY <2>8 DEF Status!Refresh
    <3>2. UNCHANGED Status!Wrong
      BY <3>1, WrongStays
    <3>3. StatusTypes'
      BY <2>2, <3>1 DEF StatusTypes, Status!world, Status!Empty, Status!Nothing,
         Status!Rows
    <3> QED
      BY <3>1, <3>2, <3>3 DEF StandingIsRead, ColourFits, Status!Reads
  <2> QED
    BY <2>1, <2>3, <2>4, <2>5, <2>6, <2>7, <2>8 DEF Status!Next
<1> QED
  BY <1>1, <1>2

\* What is wrong throughout a cycle of the report makes it red, unless the scan of the
\* positions failed; a failed read of the entry block and missing counters keep it from being
\* green (build_snapshot over the three reads).
THEOREM WrongIsRed == DecisionsSpec => []StandingWrongIsRed
<1>1. StatusInv => StandingWrongIsRed
  <2> SUFFICES ASSUME StatusInv, part = "status", overall # "none"
               PROVE  /\ standing # {} /\ "positions" \notin failed => overall = "RED"
                      /\ "block" \in failed => overall # "GREEN"
                      /\ counters = "none" => overall # "GREEN"
    BY DEF StandingWrongIsRed, Status!StandingWrongIsRed
  <2>1. StatusTypes /\ StandingIsRead /\ ColourFits
    BY DEF StatusInv
  <2>2. ASSUME standing # {}, "positions" \notin failed PROVE overall = "RED"
    <3>1. PICK w \in standing : w \in Status!Wrong
      BY <2>1, <2>2 DEF StandingIsRead
    <3> QED
      BY <2>1, <2>2, <3>1, WhatIsWrong DEF StandingIsRead, ColourFits, StatusTypes
  <2> QED
    BY <2>1, <2>2 DEF ColourFits
<1> QED
  BY <1>1, StatusInit, StatusStep, PTL DEF DecisionsSpec

-----------------------------------------------------------------------------
(* The live gate                                                           *)

\* Check c fails on a record and the facts.
Fails(c, rec, now) == Gate!Results(rec, now)[c] = "FAIL"

\* The facts that forbid live trading, each with the check that fails on it.
LEMMA ChecksFail ==
  ASSUME NEW rec, NEW now
  PROVE
  /\ rec.token = "blank" => Fails(3, rec, now)
  /\ rec.stage # "stage 1" => Fails(4, rec, now)
  /\ rec.max_capital = "over" \/ now.portfolio # "within" => Fails(5, rec, now)
  /\ rec.sns # "true" => Fails(19, rec, now)
  /\ rec.rollback # "true" => Fails(23, rec, now)
  /\ rec.tag = "blank" => Fails(24, rec, now)
  /\ rec.human # "who and when" => Fails(25, rec, now)
  /\ now.enabled = "false" => Fails(2, rec, now)
  /\ now.order_value # "within" => Fails(6, rec, now)
  /\ now.daily_loss # "positive" => Fails(7, rec, now)
  /\ now.watchlist # "some" => Fails(8, rec, now)
  /\ now.strategies \in {"none", "disabled", "unreadable"} => Fails(9, rec, now)
  /\ now.strategies = "paper only" => Fails(26, rec, now)
  /\ now.kill \in {"active", "unreadable"} => Fails(10, rec, now)
  /\ now.recon \in {"required", "unreadable"} => Fails(13, rec, now)
  /\ now.ltp \in {"stale", "absent", "unreadable"} => Fails(14, rec, now)
  /\ now.session # "token" => Fails(15, rec, now)
  /\ now.margins = "raises" => Fails(16, rec, now)
  /\ now.orders # "reachable" => Fails(17, rec, now)
  /\ now.alarms = "insufficient" => Fails(18, rec, now)
  /\ now.alarms = "critical" => Fails(20, rec, now)
  /\ now.clock \in {"before open", "after close", "weekend"} => Fails(21, rec, now)
  /\ now.clock = "after cutoff" => Fails(22, rec, now)
<1>1. rec.token = "blank" => Fails(3, rec, now)
  BY DEF Fails, Gate!Results, Gate!PassIf, Gate!manual_approval_token
<1>2. rec.stage # "stage 1" => Fails(4, rec, now)
  BY DEF Fails, Gate!Results, Gate!PassIf, Gate!live_stage_approved
<1>3. rec.max_capital = "over" \/ now.portfolio # "within" => Fails(5, rec, now)
  BY DEF Fails, Gate!Results, Gate!PassIf, Gate!max_capital_within_stage_limit
<1>4. rec.sns # "true" => Fails(19, rec, now)
  BY DEF Fails, Gate!Results, Gate!PassIf, Gate!sns_alert_tested
<1>5. rec.rollback # "true" => Fails(23, rec, now)
  BY DEF Fails, Gate!Results, Gate!PassIf, Gate!rollback_plan_exists
<1>6. rec.tag = "blank" => Fails(24, rec, now)
  BY DEF Fails, Gate!Results, Gate!PassIf, Gate!release_tag_recorded
<1>7. rec.human # "who and when" => Fails(25, rec, now)
  BY DEF Fails, Gate!Results, Gate!PassIf, Gate!human_approval_recorded
<1>8. now.enabled = "false" => Fails(2, rec, now)
  BY DEF Fails, Gate!Results, Gate!PassIf, Gate!live_trading_enabled
<1>9. now.order_value # "within" => Fails(6, rec, now)
  BY DEF Fails, Gate!Results, Gate!PassIf, Gate!max_order_value_configured
<1>10. now.daily_loss # "positive" => Fails(7, rec, now)
  BY DEF Fails, Gate!Results, Gate!PassIf, Gate!max_daily_loss_configured
<1>11. now.watchlist # "some" => Fails(8, rec, now)
  BY DEF Fails, Gate!Results, Gate!PassIf, Gate!allowed_symbols_configured
<1>12. now.strategies \in {"none", "disabled", "unreadable"} => Fails(9, rec, now)
  BY DEF Fails, Gate!Results, Gate!PassIf, Gate!allowed_strategies_configured
<1>13. now.strategies = "paper only" => Fails(26, rec, now)
  BY DEF Fails, Gate!Results, Gate!PassIf, Gate!no_paper_only_strategy_in_live
<1>14. now.kill \in {"active", "unreadable"} => Fails(10, rec, now)
  BY DEF Fails, Gate!Results, Gate!PassIf, Gate!kill_switch_off
<1>15. now.recon \in {"required", "unreadable"} => Fails(13, rec, now)
  BY DEF Fails, Gate!Results, Gate!PassIf, Gate!reconciliation_clean
<1>16. now.ltp \in {"stale", "absent", "unreadable"} => Fails(14, rec, now)
  BY DEF Fails, Gate!Results, Gate!PassIf, Gate!ltp_fresh
<1>17. now.session # "token" => Fails(15, rec, now)
  BY DEF Fails, Gate!Results, Gate!PassIf, Gate!broker_session_valid
<1>18. now.margins = "raises" => Fails(16, rec, now)
  BY DEF Fails, Gate!Results, Gate!PassIf, Gate!margins_readable
<1>19. now.orders # "reachable" => Fails(17, rec, now)
  BY DEF Fails, Gate!Results, Gate!PassIf, Gate!dynamodb_live_table_reachable
<1>20. now.alarms = "insufficient" => Fails(18, rec, now)
  BY DEF Fails, Gate!Results, Gate!PassIf, Gate!cloudwatch_alarms_active
<1>21. now.alarms = "critical" => Fails(20, rec, now)
  BY DEF Fails, Gate!Results, Gate!PassIf, Gate!no_unresolved_critical_alerts
<1>22. now.clock \in {"before open", "after close", "weekend"} => Fails(21, rec, now)
  BY DEF Fails, Gate!Results, Gate!PassIf, Gate!trading_window
<1>23. now.clock = "after cutoff" => Fails(22, rec, now)
  BY DEF Fails, Gate!Results, Gate!PassIf, Gate!no_new_entry_cutoff
<1> QED
  BY <1>1, <1>2, <1>3, <1>4, <1>5, <1>6, <1>7, <1>8, <1>9, <1>10, <1>11, <1>12, <1>13,
     <1>14, <1>15, <1>16, <1>17, <1>18, <1>19, <1>20, <1>21, <1>22, <1>23

\* No one writes the heartbeat of the exit engine, so that its check always warns.
LEMMA EngineWarns ==
  ASSUME NEW rec, NEW now, now.tee # "fresh"
  PROVE  Gate!Results(rec, now)[11] = "WARN"
BY DEF Gate!Results, Gate!trade_exit_engine_running

\* What the facts can be, and what a record fetched from them has.
FactSpace == {now \in [Gate!Facts -> UNION {Gate!Values[f] : f \in Gate!Facts}] :
                \A f \in Gate!Facts : now[f] \in Gate!Values[f]}
RecordOf(now) ==
  IF now.record = "readable" THEN [f \in Gate!ApprovalFields |-> now[f]] ELSE Gate!Blank

\* Some fact that forbids live trading stood at every moment of the run.
StoodForbidden == \E p \in Gate!Unsafe(seen[1]) : \A i \in DOMAIN seen : p \in Gate!Unsafe(seen[i])

GateInv ==
  part = "gate" =>
    /\ fact \in FactSpace /\ seen \in Seq(FactSpace)
    /\ seen # <<>> => approval = RecordOf(seen[1])
    /\ seen = <<>> => verdict = "none"
    /\ verdict \in {"none", "BLOCKED", "DEGRADED"}
    /\ verdict = "DEGRADED" => ~StoodForbidden /\ Gate!Unsigned(approval) = {}

\* The healthy answers are answers.
LEMMA NominalIsFact == Gate!Nominal \in FactSpace
<1>1. DOMAIN Gate!Nominal = Gate!Facts
  BY DEF Gate!Nominal, Gate!Facts, Gate!Values
<1>2. Gate!Nominal = [f \in Gate!Facts |-> Gate!Nominal[f]]
  BY <1>1 DEF Gate!Nominal
<1>3. Gate!Facts = {"environment", "enabled", "record", "token", "stage",
                   "max_capital", "sns", "rollback", "tag", "human",
                   "portfolio", "order_value", "daily_loss", "watchlist", "strategies",
                   "kill", "tee", "engine", "recon", "ltp",
                   "session", "margins", "orders", "alarms", "clock"}
  BY DEF Gate!Facts, Gate!Values
<1>4. /\ Gate!Nominal["environment"] \in Gate!Values["environment"]
      /\ Gate!Nominal["enabled"] \in Gate!Values["enabled"]
      /\ Gate!Nominal["record"] \in Gate!Values["record"]
      /\ Gate!Nominal["token"] \in Gate!Values["token"]
      /\ Gate!Nominal["stage"] \in Gate!Values["stage"]
  BY DEF Gate!Nominal, Gate!Values
<1>5. /\ Gate!Nominal["max_capital"] \in Gate!Values["max_capital"]
      /\ Gate!Nominal["sns"] \in Gate!Values["sns"]
      /\ Gate!Nominal["rollback"] \in Gate!Values["rollback"]
      /\ Gate!Nominal["tag"] \in Gate!Values["tag"]
      /\ Gate!Nominal["human"] \in Gate!Values["human"]
  BY DEF Gate!Nominal, Gate!Values
<1>6. /\ Gate!Nominal["portfolio"] \in Gate!Values["portfolio"]
      /\ Gate!Nominal["order_value"] \in Gate!Values["order_value"]
      /\ Gate!Nominal["daily_loss"] \in Gate!Values["daily_loss"]
      /\ Gate!Nominal["watchlist"] \in Gate!Values["watchlist"]
      /\ Gate!Nominal["strategies"] \in Gate!Values["strategies"]
  BY DEF Gate!Nominal, Gate!Values
<1>7. /\ Gate!Nominal["kill"] \in Gate!Values["kill"]
      /\ Gate!Nominal["tee"] \in Gate!Values["tee"]
      /\ Gate!Nominal["engine"] \in Gate!Values["engine"]
      /\ Gate!Nominal["recon"] \in Gate!Values["recon"]
      /\ Gate!Nominal["ltp"] \in Gate!Values["ltp"]
  BY DEF Gate!Nominal, Gate!Values
<1>8. /\ Gate!Nominal["session"] \in Gate!Values["session"]
      /\ Gate!Nominal["margins"] \in Gate!Values["margins"]
      /\ Gate!Nominal["orders"] \in Gate!Values["orders"]
      /\ Gate!Nominal["alarms"] \in Gate!Values["alarms"]
      /\ Gate!Nominal["clock"] \in Gate!Values["clock"]
  BY DEF Gate!Nominal, Gate!Values
<1>9. \A f \in Gate!Facts : Gate!Nominal[f] \in Gate!Values[f]
  BY <1>3, <1>4, <1>5, <1>6, <1>7, <1>8
<1> QED
  BY <1>2, <1>9 DEF FactSpace

\* The values of the facts that the proof looks at.
LEMMA FactValues ==
  ASSUME NEW now \in FactSpace
  PROVE  /\ now.tee # "fresh"
         /\ now.token \in {"set", "blank"} /\ now.tag \in {"set", "blank"}
         /\ now.max_capital \in {"within", "over", "garbled", "absent"}
<1>1. {"tee", "token", "tag", "max_capital"} \subseteq Gate!Facts
  BY DEF Gate!Facts, Gate!Values
<1>2. /\ Gate!Values["tee"] = {"absent", "unreadable"}
      /\ Gate!Values["token"] = {"set", "blank"} /\ Gate!Values["tag"] = {"set", "blank"}
      /\ Gate!Values["max_capital"] = {"within", "over", "garbled", "absent"}
  BY DEF Gate!Values
<1> QED
  BY <1>1, <1>2 DEF FactSpace

\* A record without a signature fails a check, whatever the facts are.
LEMMA UnsignedFails ==
  ASSUME NEW now \in FactSpace, Gate!Unsigned(RecordOf(now)) # {}
  PROVE  \E c \in 1 .. 26 : \A g : Fails(c, RecordOf(now), g)
<1> DEFINE rec == RecordOf(now)
<1>1. CASE now.record = "readable"
  <2>1. rec = [f \in Gate!ApprovalFields |-> now[f]]
    BY <1>1 DEF RecordOf
  <2>2. /\ rec.token = now.token /\ rec.stage = now.stage /\ rec.max_capital = now.max_capital
        /\ rec.sns = now.sns /\ rec.rollback = now.rollback /\ rec.tag = now.tag
        /\ rec.human = now.human
    BY <2>1 DEF Gate!ApprovalFields
  <2>3. /\ rec.token \in {"set", "blank"} /\ rec.tag \in {"set", "blank"}
        /\ rec.max_capital \in {"within", "over", "garbled", "absent"}
    BY <2>2, FactValues
  <2> HIDE DEF rec
  <2>4. PICK f \in Gate!ApprovalFields :
          rec[f] \in {"blank", "other", "over", "false", "who", "when"}
    BY DEF Gate!Unsigned, rec
  <2>5. \/ rec.token = "blank" \/ rec.stage # "stage 1" \/ rec.max_capital = "over"
        \/ rec.sns # "true" \/ rec.rollback # "true" \/ rec.tag = "blank"
        \/ rec.human # "who and when"
    BY <2>3, <2>4 DEF Gate!ApprovalFields
  <2>6. \/ \A g : Fails(3, rec, g)
        \/ \A g : Fails(4, rec, g)
        \/ \A g : Fails(5, rec, g)
        \/ \A g : Fails(19, rec, g)
        \/ \A g : Fails(23, rec, g)
        \/ \A g : Fails(24, rec, g)
        \/ \A g : Fails(25, rec, g)
    BY <2>5, ChecksFail
  <2> QED
    BY <2>6 DEF rec
<1>2. CASE now.record # "readable"
  <2>1. rec.token = "blank"
    BY <1>2 DEF RecordOf, Gate!Blank, Gate!ApprovalFields
  <2>2. \A g : Fails(3, rec, g)
    BY <2>1, ChecksFail
  <2> QED
    BY <2>2
<1> QED
  BY <1>1, <1>2

\* A fact that forbids live trading fails a check wherever it stands.
LEMMA ForbiddenFails ==
  ASSUME NEW now \in FactSpace, NEW p \in Gate!Unsafe(now)
  PROVE  \E c \in 1 .. 26 : \A g : p \in Gate!Unsafe(g) => Fails(c, RecordOf(now), g)
<1> DEFINE rec == RecordOf(now)
<1>1. PICK f \in Gate!Facts \ Gate!ApprovalFields : now[f] \in Gate!Forbidden(f) /\ p = <<f, now[f]>>
  BY DEF Gate!Unsafe
<1>2. \A g : p \in Gate!Unsafe(g) => g[f] = now[f]
  BY <1>1 DEF Gate!Unsafe
<1> DEFINE v == now[f]
<1> SUFFICES \E c \in 1 .. 26 : \A g : g[f] = v => Fails(c, rec, g)
  BY <1>2
<1> HIDE DEF rec, v
<1>3. v \in Gate!Forbidden(f)
  BY <1>1 DEF v
<1>4. CASE f = "record"
  <2>1. now.record # "readable"
    BY <1>3, <1>4 DEF Gate!Forbidden, v
  <2>2. rec.token = "blank"
    BY <2>1 DEF RecordOf, Gate!Blank, Gate!ApprovalFields, rec
  <2> QED
    <3>1. \A g : Fails(3, rec, g)
      BY <2>2, ChecksFail
    <3> QED
      BY <3>1
<1>5. CASE f \in {"enabled", "portfolio", "order_value", "daily_loss", "watchlist"}
  <2>1. /\ f = "enabled" => v = "false"
        /\ f \in {"portfolio", "order_value"} => v # "within"
        /\ f = "daily_loss" => v # "positive"
        /\ f = "watchlist" => v # "some"
    BY <1>3, <1>5 DEF Gate!Forbidden
  <2>2. /\ f = "enabled" => \A g : g[f] = v => Fails(2, rec, g)
        /\ f = "portfolio" => \A g : g[f] = v => Fails(5, rec, g)
        /\ f = "order_value" => \A g : g[f] = v => Fails(6, rec, g)
        /\ f = "daily_loss" => \A g : g[f] = v => Fails(7, rec, g)
        /\ f = "watchlist" => \A g : g[f] = v => Fails(8, rec, g)
    BY <2>1, ChecksFail
  <2> QED
    BY <1>5, <2>2
<1>6. CASE f \in {"kill", "recon", "ltp", "session", "margins", "orders"}
  <2>1. /\ f = "kill" => v \in {"active", "unreadable"}
        /\ f = "recon" => v \in {"required", "unreadable"}
        /\ f = "ltp" => v \in {"stale", "absent", "unreadable"}
        /\ f = "session" => v # "token"
        /\ f = "margins" => v = "raises"
        /\ f = "orders" => v # "reachable"
    BY <1>3, <1>6 DEF Gate!Forbidden
  <2>2. /\ f = "kill" => \A g : g[f] = v => Fails(10, rec, g)
        /\ f = "recon" => \A g : g[f] = v => Fails(13, rec, g)
        /\ f = "ltp" => \A g : g[f] = v => Fails(14, rec, g)
        /\ f = "session" => \A g : g[f] = v => Fails(15, rec, g)
        /\ f = "margins" => \A g : g[f] = v => Fails(16, rec, g)
        /\ f = "orders" => \A g : g[f] = v => Fails(17, rec, g)
    BY <2>1, ChecksFail
  <2> QED
    BY <1>6, <2>2
<1>7. CASE f = "strategies"
  <2>1. v \in {"none", "disabled", "unreadable"} \/ v = "paper only"
    BY <1>3, <1>7 DEF Gate!Forbidden
  <2>2. \/ \A g : g[f] = v => Fails(9, rec, g)
        \/ \A g : g[f] = v => Fails(26, rec, g)
    BY <1>7, <2>1, ChecksFail
  <2> QED
    BY <2>2
<1>8. CASE f = "alarms"
  <2>1. v = "insufficient" \/ v = "critical"
    BY <1>3, <1>8 DEF Gate!Forbidden
  <2>2. \/ \A g : g[f] = v => Fails(18, rec, g)
        \/ \A g : g[f] = v => Fails(20, rec, g)
    BY <1>8, <2>1, ChecksFail
  <2> QED
    BY <2>2
<1>9. CASE f = "clock"
  <2>1. v \in {"before open", "after close", "weekend"} \/ v = "after cutoff"
    BY <1>3, <1>9 DEF Gate!Forbidden
  <2>2. \/ \A g : g[f] = v => Fails(21, rec, g)
        \/ \A g : g[f] = v => Fails(22, rec, g)
    BY <1>9, <2>1, ChecksFail
  <2> QED
    BY <2>2
<1>10. f \in {"record", "enabled", "portfolio", "order_value", "daily_loss", "watchlist", "kill",
               "recon", "ltp", "session", "margins", "orders", "strategies", "alarms", "clock"}
  BY <1>3 DEF Gate!Forbidden
<1> QED
  BY <1>4, <1>5, <1>6, <1>7, <1>8, <1>9, <1>10

\* Before the checks run there is no verdict.
LEMMA GateInit == DecisionsInit => GateInv
<1> SUFFICES ASSUME DecisionsInit, part = "gate" PROVE GateInv
  BY DEF GateInv
<1>1. Gate!Init
  BY DEF DecisionsInit
<1> QED
  BY <1>1, NominalIsFact DEF Gate!Init, GateInv

\* A verdict that is not BLOCKED has no check that can only fail.
LEMMA NoneFails ==
  ASSUME Gate!Conclude, verdict' # "BLOCKED"
  PROVE  \A c \in 1 .. 26 : Gate!Possible(c) # {"FAIL"}
BY DEF Gate!Conclude, Gate!Verdict, Gate!Certain, Gate!Checks

\* A verdict over failing facts is BLOCKED.
LEMMA ConcludeStep ==
  ASSUME part = "gate", GateInv, Gate!Conclude
  PROVE  /\ verdict' \in {"BLOCKED", "DEGRADED"}
         /\ verdict' = "DEGRADED" => ~StoodForbidden /\ Gate!Unsigned(approval) = {}
<1>1. /\ seen \in Seq(FactSpace) /\ seen # <<>> /\ approval = RecordOf(seen[1])
      /\ 1 \in DOMAIN seen /\ \A i \in DOMAIN seen : seen[i] \in FactSpace
  BY DEF GateInv, Gate!Conclude
<1>2. ASSUME NEW c \in 1 .. 26, NEW r,
             \A i \in DOMAIN seen : Gate!Results(approval, seen[i])[c] = r
      PROVE  Gate!Possible(c) = {r}
  BY <1>1, <1>2 DEF Gate!Possible
<1>3. verdict' \in {"BLOCKED", "DEGRADED"}
  <2>1. Gate!Possible(11) = {"WARN"}
    <3>1. \A i \in DOMAIN seen : Gate!Results(approval, seen[i])[11] = "WARN"
      BY <1>1, FactValues, EngineWarns
    <3> QED
      BY <1>1, <3>1 DEF Gate!Possible
  <2>2. 11 \in Gate!Certain("WARN")
    BY <2>1 DEF Gate!Certain, Gate!Checks
  <2> QED
    BY <2>2 DEF Gate!Conclude, Gate!Verdict
<1>4. ASSUME verdict' # "BLOCKED" PROVE ~StoodForbidden
  <2> SUFFICES ASSUME StoodForbidden PROVE FALSE
    OBVIOUS
  <2>1. PICK p \in Gate!Unsafe(seen[1]) : \A i \in DOMAIN seen : p \in Gate!Unsafe(seen[i])
    BY DEF StoodForbidden
  <2>2. PICK c \in 1 .. 26 : \A g : p \in Gate!Unsafe(g) => Fails(c, approval, g)
    BY <1>1, ForbiddenFails
  <2>3. Gate!Possible(c) = {"FAIL"}
    BY <1>2, <2>1, <2>2 DEF Fails
  <2> QED
    BY <1>4, <2>3, NoneFails
<1>5. ASSUME verdict' # "BLOCKED" PROVE Gate!Unsigned(approval) = {}
  <2> SUFFICES ASSUME Gate!Unsigned(approval) # {} PROVE FALSE
    OBVIOUS
  <2>1. PICK c \in 1 .. 26 : \A g : Fails(c, approval, g)
    BY <1>1, UnsignedFails
  <2>2. Gate!Possible(c) = {"FAIL"}
    BY <1>2, <2>1 DEF Fails
  <2> QED
    BY <1>5, <2>2, NoneFails
<1> QED
  BY <1>3, <1>4, <1>5

\* Every step of the gate keeps its invariant.
LEMMA GateStep == GateInv /\ [DecisionsNext]_decisionsVars => GateInv'
<1> SUFFICES ASSUME GateInv, [DecisionsNext]_decisionsVars, part' = "gate" PROVE GateInv'
  BY DEF GateInv
<1>1. CASE UNCHANGED decisionsVars
  BY <1>1 DEF decisionsVars, gateVars, GateInv, StoodForbidden
<1>2. CASE DecisionsNext
  <2>1. part = "gate" /\ Gate!Next
    BY <1>2 DEF DecisionsNext
  <2>2. fact \in FactSpace /\ seen \in Seq(FactSpace)
    BY <2>1 DEF GateInv
  <2>3. CASE Gate!Change
    <3>1. PICK f \in Gate!Facts : \E v \in Gate!Values[f] : fact' = [fact EXCEPT ![f] = v]
      BY <2>3 DEF Gate!Change
    <3>2. fact' \in FactSpace
      BY <2>2, <3>1 DEF FactSpace
    <3>3. verdict = "none" /\ verdict' = verdict /\ approval' = approval
          /\ seen' = IF seen = <<>> THEN seen ELSE Append(seen, fact')
      BY <2>3 DEF Gate!Change
    <3>4. seen' \in Seq(FactSpace) /\ (seen = <<>> <=> seen' = <<>>)
          /\ (seen # <<>> => seen'[1] = seen[1])
      BY <2>2, <3>2, <3>3
    <3> QED
      BY <2>1, <3>2, <3>3, <3>4 DEF GateInv
  <2>4. CASE Gate!FetchApproval
    <3>1. /\ seen = <<>> /\ seen' = <<fact>> /\ fact' = fact /\ verdict' = verdict
          /\ approval' = RecordOf(fact)
      BY <2>4 DEF Gate!FetchApproval, Gate!Fetched, RecordOf
    <3>2. verdict = "none"
      BY <2>1, <3>1 DEF GateInv
    <3> QED
      BY <2>2, <3>1, <3>2 DEF GateInv
  <2>5. CASE Gate!Conclude
    <3>1. seen # <<>> /\ UNCHANGED <<fact, approval, seen>>
      BY <2>5 DEF Gate!Conclude
    <3> QED
      BY <2>1, <2>2, <2>5, <3>1, ConcludeStep DEF GateInv, StoodForbidden
  <2> QED
    BY <2>1, <2>3, <2>4, <2>5 DEF Gate!Next
<1> QED
  BY <1>1, <1>2

\* The gate says other than BLOCKED only if the record carried every signature and no fact that
\* forbids live trading stood throughout its run; it never says APPROVED (check_all, its 26
\* checks and the fold of their results).
THEOREM GateClosed == DecisionsSpec => []GateFailsClosed
<1>1. GateInv => GateFailsClosed
  BY DEF GateInv, GateFailsClosed, Gate!GateFailsClosed, StoodForbidden
<1> QED
  BY <1>1, GateInit, GateStep, PTL DEF DecisionsSpec

-----------------------------------------------------------------------------
(* The rate limiter                                                        *)

Asking == [priority : Limiter!Priorities, endpoint : Limiter!Endpoints]

\* How many of the orders fall into the window that ends at t.
Placed(times, length, t) == Cardinality({i \in DOMAIN times : times[i] <= t /\ t - times[i] < length})

\* The caps hold at every moment so far.
CapsKept(times, count, now) ==
  /\ times \in Seq(Nat) /\ count \in Nat /\ count <= PerDay
  /\ \A i \in DOMAIN times : times[i] <= now
  /\ \A t \in 0 .. now : Placed(times, Second, t) <= PerSecond /\ Placed(times, Minute, t) <= PerMinute

LimiterInv ==
  part = "limiter" =>
    /\ clock \in Nat /\ requests \in Seq(Asking) /\ tokens \in [Limiter!Endpoints -> Int]
    /\ waiters \subseteq DOMAIN requests /\ CapsKept(orders, today, clock)

\* A state of the refill loop.
Refilling(s) ==
  /\ s.tokens \in [Limiter!Endpoints -> Int] /\ s.waiters \subseteq waiters
  /\ CapsKept(s.orders, s.today, clock)

\* The limits are numbers.
LEMMA LimitsAre ==
  /\ PerSecond \in Nat /\ PerMinute \in Nat /\ PerDay \in Nat /\ Second \in Nat /\ Minute \in Nat
  /\ Burst \in Nat /\ Burst > 0 /\ Reserved \in Nat
BY DecisionsAssumption DEF DecisionsAssumption

\* One more order now counts one more in the windows that end now, and in no other.
LEMMA OneMoreOrder ==
  ASSUME NEW o \in Seq(Nat), NEW now \in Nat, \A i \in DOMAIN o : o[i] <= now, NEW length \in Nat, NEW t \in 0 .. now
  PROVE  /\ Placed(o, length, t) \in Nat
         /\ t < now => Placed(Append(o, now), length, t) = Placed(o, length, t)
         /\ Placed(Append(o, now), length, now) <= Placed(o, length, now) + 1
<1> DEFINE In(q, e) == {i \in DOMAIN q : q[i] <= e /\ e - q[i] < length}
           p == Append(o, now)
           n == Len(o) + 1
<1>1. Len(o) \in Nat /\ DOMAIN o = 1 .. Len(o) /\ DOMAIN p = DOMAIN o \cup {n} /\ p[n] = now /\ n \notin DOMAIN o
      /\ \A i \in DOMAIN o : p[i] = o[i] /\ o[i] \in Nat
  OBVIOUS
<1>2. IsFiniteSet(DOMAIN o)
  BY <1>1, FS_Interval
<1> HIDE DEF p, n
<1>3. \A e \in 0 .. now : IsFiniteSet(In(o, e)) /\ Cardinality(In(o, e)) \in Nat
  <2> TAKE e \in 0 .. now
  <2>1. In(o, e) \subseteq DOMAIN o
    OBVIOUS
  <2> HIDE DEF In
  <2> QED
    BY <1>2, <2>1, FS_Subset, FS_CardinalityType
<1>4. ASSUME t < now PROVE In(p, t) = In(o, t)
  BY <1>1, <1>4
<1>5. now \in 0 .. now /\ (In(p, now) = In(o, now) \/ In(p, now) = In(o, now) \cup {n})
  BY <1>1
<1>6. n \notin In(o, now)
  BY <1>1
<1>7. Cardinality(In(p, now)) <= Cardinality(In(o, now)) + 1
  <2> HIDE DEF In
  <2>1. CASE In(p, now) = In(o, now)
    BY <1>3, <1>5, <2>1
  <2>2. CASE In(p, now) = In(o, now) \cup {n}
    <3>1. IsFiniteSet(In(o, now)) /\ Cardinality(In(o, now)) \in Nat
      BY <1>3, <1>5
    <3>2. Cardinality(In(o, now) \cup {n}) = Cardinality(In(o, now)) + 1
      BY <1>6, <3>1, FS_AddElement
    <3> QED
      BY <2>2, <3>1, <3>2
  <2> QED
    BY <1>5, <2>1, <2>2
<1> QED
  BY <1>3, <1>4, <1>7 DEF Placed, p

\* What may be acquired may be consumed: the caps hold with the new order.
LEMMA ConsumeKeeps ==
  ASSUME clock \in Nat, NEW s, s.tokens \in [Limiter!Endpoints -> Int], CapsKept(s.orders, s.today, clock),
         NEW r \in Asking, Limiter!CanAcquire(s, r), NEW n, NEW c, c = Limiter!Consume(s, n, r)
  PROVE  /\ c.tokens \in [Limiter!Endpoints -> Int] /\ CapsKept(c.orders, c.today, clock)
         /\ c.waiters = s.waiters \ {n} /\ c.granted = s.granted \cup {n}
<1>1. /\ c.tokens = [s.tokens EXCEPT ![r.endpoint] = @ - 1]
      /\ c.orders = IF r.endpoint = "ORDER_PLACE" THEN Append(s.orders, clock) ELSE s.orders
      /\ c.today = IF r.endpoint = "ORDER_PLACE" THEN s.today + 1 ELSE s.today
      /\ c.waiters = s.waiters \ {n} /\ c.granted = s.granted \cup {n}
  BY DEF Limiter!Consume
<1>2. r.endpoint \in Limiter!Endpoints
  BY DEF Asking
<1>3. c.tokens \in [Limiter!Endpoints -> Int]
  BY <1>1, <1>2
<1>4. CASE r.endpoint # "ORDER_PLACE"
  BY <1>1, <1>3, <1>4
<1>5. CASE r.endpoint = "ORDER_PLACE"
  <2>1. s.orders \in Seq(Nat) /\ s.today \in Nat /\ \A i \in DOMAIN s.orders : s.orders[i] <= clock /\ s.orders[i] \in Nat
    BY DEF CapsKept
  <2>2. Placed(s.orders, Second, clock) < PerSecond /\ Placed(s.orders, Minute, clock) < PerMinute /\ s.today < PerDay
    <3>1. \A length : Limiter!InWindow(s.orders, length) = Placed(s.orders, length, clock)
      <4> TAKE length
      <4>1. {i \in DOMAIN s.orders : clock - s.orders[i] < length}
              = {i \in DOMAIN s.orders : s.orders[i] <= clock /\ clock - s.orders[i] < length}
        BY <2>1
      <4> QED
        BY <4>1, SameCount DEF Limiter!InWindow, Placed
    <3>2. Limiter!OrderCapsAvailable(s)
      BY <1>5 DEF Limiter!CanAcquire
    <3> QED
      BY <3>1, <3>2 DEF Limiter!OrderCapsAvailable
  <2>3. c.orders = Append(s.orders, clock) /\ c.today = s.today + 1
    BY <1>1, <1>5
  <2>4. c.orders \in Seq(Nat) /\ (\A i \in DOMAIN c.orders : c.orders[i] <= clock) /\ c.today \in Nat /\ c.today <= PerDay
    <3>1. c.today \in Nat /\ c.today <= PerDay
      BY <2>1, <2>2, <2>3, LimitsAre
    <3>2. c.orders \in Seq(Nat) /\ DOMAIN c.orders = DOMAIN s.orders \cup {Len(s.orders) + 1}
          /\ c.orders[Len(s.orders) + 1] = clock /\ \A i \in DOMAIN s.orders : c.orders[i] = s.orders[i]
      BY <2>1, <2>3
    <3>3. clock <= clock
      OBVIOUS
    <3> QED
      BY <2>1, <3>1, <3>2, <3>3
  <2>5. ASSUME NEW t \in 0 .. clock
        PROVE  Placed(c.orders, Second, t) <= PerSecond /\ Placed(c.orders, Minute, t) <= PerMinute
    <3>1. Placed(s.orders, Second, t) <= PerSecond /\ Placed(s.orders, Minute, t) <= PerMinute
      BY DEF CapsKept
    <3>2. CASE t < clock
      <4>1. /\ Placed(c.orders, Second, t) = Placed(s.orders, Second, t)
            /\ Placed(c.orders, Minute, t) = Placed(s.orders, Minute, t)
        <5>1. s.orders \in Seq(Nat) /\ \A i \in DOMAIN s.orders : s.orders[i] <= clock
          BY <2>1
        <5>2. \A length \in Nat : Placed(Append(s.orders, clock), length, t) = Placed(s.orders, length, t)
          BY <3>2, <5>1, OneMoreOrder
        <5> QED
          BY <2>3, <5>2, LimitsAre
      <4> QED
        BY <3>1, <4>1
    <3>3. CASE t = clock
      <4>1. /\ Placed(s.orders, Second, clock) \in Nat
            /\ Placed(c.orders, Second, clock) <= Placed(s.orders, Second, clock) + 1
            /\ Placed(s.orders, Minute, clock) \in Nat
            /\ Placed(c.orders, Minute, clock) <= Placed(s.orders, Minute, clock) + 1
        BY <2>1, <2>3, <3>3, LimitsAre, OneMoreOrder
      <4>2. Placed(c.orders, Second, clock) \in Int /\ Placed(c.orders, Minute, clock) \in Int
        <5>1. \A i \in DOMAIN c.orders : c.orders[i] <= clock
          BY <2>4
        <5>2. c.orders \in Seq(Nat)
          BY <2>4
        <5>3. Placed(c.orders, Second, clock) \in Nat
          BY <3>3, <5>1, <5>2, LimitsAre, OneMoreOrder
        <5>4. Placed(c.orders, Minute, clock) \in Nat
          BY <3>3, <5>1, <5>2, LimitsAre, OneMoreOrder
        <5> QED
          BY <5>3, <5>4
      <4> QED
        BY <2>2, <3>3, <4>1, <4>2, LimitsAre
    <3> QED
      BY <3>2, <3>3
  <2>6. CapsKept(c.orders, c.today, clock)
    BY <2>4, <2>5 DEF CapsKept
  <2> QED
    BY <1>1, <1>3, <2>6
<1> QED
  BY <1>4, <1>5

\* Among requests one comes before all others: of the most urgent the oldest.
LEMMA FirstOf ==
  ASSUME requests \in Seq(Asking), NEW E \in SUBSET (DOMAIN requests), E # {}
  PROVE  \E x \in E : \A y \in E \ {x} : Limiter!Before(x, y)
<1>1. IsFiniteSet(E) /\ E \subseteq Int
  <2>1. IsFiniteSet(DOMAIN requests) /\ DOMAIN requests \subseteq Int
    BY FS_Interval
  <2> QED
    BY <2>1, FS_Subset
<1>2. \A w \in DOMAIN requests : requests[w].priority \in {0, 1, 2}
  <2>1. \A w \in DOMAIN requests : requests[w] \in Asking
    OBVIOUS
  <2> QED
    BY <2>1 DEF Asking, Limiter!Priorities
<1>3. PICK p \in {0, 1, 2} : /\ \E w \in E : requests[w].priority = p
                             /\ \A w \in E : requests[w].priority >= p
  <2>1. CASE \E w \in E : requests[w].priority = 0
    BY <1>2, <2>1
  <2>2. CASE (\A w \in E : requests[w].priority # 0) /\ \E w \in E : requests[w].priority = 1
    BY <1>2, <2>2
  <2>3. CASE \A w \in E : requests[w].priority = 2
    BY <1>2, <2>3
  <2> QED
    BY <1>2, <2>1, <2>2, <2>3
<1> DEFINE A == {w \in E : requests[w].priority = p}
<1>4. PICK x \in A : \A y \in A : x <= y
  <2>1. IsFiniteSet(A) /\ A \subseteq Int /\ A # {}
    BY <1>1, <1>3, FS_Subset
  <2> HIDE DEF A
  <2> QED
    BY <2>1, LeastExists
<1>5. ASSUME NEW y \in E \ {x} PROVE Limiter!Before(x, y)
  <2>1. x \in E /\ x \in Int /\ y \in Int /\ requests[x].priority = p /\ requests[y].priority >= p
        /\ requests[y].priority \in Int
    BY <1>1, <1>2, <1>3
  <2>2. CASE requests[y].priority = p
    <3>1. x <= y /\ x # y
      BY <1>4, <1>5, <2>2
    <3>2. x < y
      BY <2>1, <3>1
    <3> QED
      BY <2>1, <2>2, <3>2 DEF Limiter!Before
  <2>3. CASE requests[y].priority # p
    <3>1. requests[x].priority < requests[y].priority
      BY <2>1, <2>3
    <3> QED
      BY <3>1 DEF Limiter!Before
  <2> QED
    BY <2>2, <2>3
<1> QED
  BY <1>5

\* Who is more urgent may acquire whatever a less urgent request at the same endpoint may.
LEMMA UrgentMay ==
  ASSUME NEW s, s.tokens \in [Limiter!Endpoints -> Int], NEW a \in Asking, NEW b \in Asking,
         a.endpoint = b.endpoint, a.priority <= b.priority, Limiter!CanAcquire(s, b)
  PROVE  Limiter!CanAcquire(s, a)
<1>1. a.priority \in {0, 1, 2} /\ b.priority \in {0, 1, 2} /\ a.endpoint \in Limiter!Endpoints
  BY DEF Asking, Limiter!Priorities
<1>2. Limiter!ReservedFloor(a.priority) \in Int /\ Limiter!ReservedFloor(b.priority) \in Int
      /\ Limiter!ReservedFloor(a.priority) <= Limiter!ReservedFloor(b.priority)
  BY <1>1, LimitsAre DEF Limiter!ReservedFloor
<1>3. s.tokens[a.endpoint] \in Int
  BY <1>1
<1>4. s.tokens[a.endpoint] - 1 >= Limiter!ReservedFloor(a.priority)
  BY <1>2, <1>3 DEF Limiter!CanAcquire
<1> QED
  BY <1>4 DEF Limiter!CanAcquire

\* One turn of the loop: nothing happens any more, or a waiter leaves; who is granted comes before
\* everyone at its endpoint who goes on waiting.
LEMMA OneTurn ==
  ASSUME clock \in Nat, requests \in Seq(Asking), waiters \subseteq DOMAIN requests,
         NEW s, Refilling(s), NEW c, c = Limiter!Turn(s)
  PROVE  /\ Refilling(c)
         /\ (Limiter!MayLeave(s) = {} /\ c = s) \/ \E w \in s.waiters : c.waiters = s.waiters \ {w}
         /\ \A g \in c.granted \ s.granted :
              /\ g \in DOMAIN requests
              /\ \A w \in c.waiters \ cancelled :
                   requests[w].endpoint = requests[g].endpoint => Limiter!Before(g, w)
<1> DEFINE E == Limiter!MayLeave(s)
           x == CHOOSE w \in E : \A y \in E \ {w} : Limiter!Before(w, y)
<1>1. E = {w \in s.waiters : w \in cancelled \/ Limiter!CanAcquire(s, requests[w])}
  BY DEF Limiter!MayLeave
<1>2. c = IF E = {} THEN s
          ELSE IF x \in cancelled THEN [s EXCEPT !.waiters = @ \ {x}] ELSE Limiter!Consume(s, x, requests[x])
  BY DEF Limiter!Turn
<1> HIDE DEF E
<1>3. s.waiters \subseteq waiters /\ s.tokens \in [Limiter!Endpoints -> Int] /\ CapsKept(s.orders, s.today, clock)
  BY DEF Refilling
<1>4. CASE E = {}
  BY <1>2, <1>4 DEF E
<1>5. CASE E # {}
  <2>1. x \in E /\ \A y \in E \ {x} : Limiter!Before(x, y)
    <3>1. E \in SUBSET (DOMAIN requests)
      BY <1>1, <1>3
    <3>2. \E w \in E : \A y \in E \ {w} : Limiter!Before(w, y)
      BY <1>5, <3>1, FirstOf
    <3> QED
      BY <3>2
  <2> HIDE DEF x
  <2>2. x \in s.waiters /\ x \in DOMAIN requests
    BY <1>1, <1>3, <2>1
  <2>3. CASE x \in cancelled
    <3>1. c = [s EXCEPT !.waiters = @ \ {x}]
      BY <1>2, <1>5, <2>3
    <3>2. c.waiters = s.waiters \ {x} /\ c.tokens = s.tokens /\ c.orders = s.orders /\ c.today = s.today
          /\ c.granted = s.granted
      BY <3>1
    <3>3. Refilling(c)
      BY <1>3, <3>2 DEF Refilling
    <3> QED
      BY <2>2, <3>2, <3>3
  <2>4. CASE x \notin cancelled
    <3>1. c = Limiter!Consume(s, x, requests[x])
      BY <1>2, <1>5, <2>4
    <3>2. Limiter!CanAcquire(s, requests[x]) /\ requests[x] \in Asking
      BY <1>1, <2>1, <2>2, <2>4
    <3>3. /\ c.tokens \in [Limiter!Endpoints -> Int] /\ CapsKept(c.orders, c.today, clock)
          /\ c.waiters = s.waiters \ {x} /\ c.granted = s.granted \cup {x}
      BY <1>3, <3>1, <3>2, ConsumeKeeps
    <3>4. Refilling(c)
      BY <1>3, <3>3 DEF Refilling
    <3>5. ASSUME NEW w \in c.waiters \ cancelled, requests[w].endpoint = requests[x].endpoint
          PROVE  Limiter!Before(x, w)
      <4>1. w \in s.waiters /\ w # x /\ w \in DOMAIN requests
        BY <1>3, <3>3
      <4>2. requests[w] \in Asking
        BY <4>1
      <4>3. CASE w \in E
        BY <2>1, <4>1, <4>3
      <4>4. CASE w \notin E
        <5>1. ~Limiter!CanAcquire(s, requests[w])
          BY <1>1, <4>1, <4>4
        <5>2. ~(requests[w].priority <= requests[x].priority)
          BY <1>3, <3>2, <3>5, <4>2, <5>1, UrgentMay
        <5>3. requests[w].priority \in Int /\ requests[x].priority \in Int
          BY <3>2, <4>2 DEF Asking, Limiter!Priorities
        <5>4. requests[x].priority < requests[w].priority
          BY <5>2, <5>3
        <5> QED
          BY <5>4 DEF Limiter!Before
      <4> QED
        BY <4>3, <4>4
    <3>6. c.granted \ s.granted \subseteq {x}
      BY <3>3
    <3> QED
      BY <2>2, <3>3, <3>4, <3>5, <3>6
  <2> QED
    BY <2>3, <2>4
<1> QED
  BY <1>4, <1>5

\* The loop's turns follow one another.
LEMMA TurnsFollow ==
  ASSUME NEW N \in Nat, N = Cardinality(waiters)
  PROVE  /\ Limiter!Turns[0] = Limiter!Start
         /\ \A n \in 1 .. N : Limiter!Turns[n] = Limiter!Turn(Limiter!Turns[n - 1])
<1> DEFINE Rec(g, n) == g = [m \in 0 .. n |-> IF m = 0 THEN Limiter!Start ELSE Limiter!Turn(g[m - 1])]
           C == {n \in 0 .. N : ~\E g : Rec(g, n)}
<1>1. C = {}
  <2> SUFFICES ASSUME C # {} PROVE FALSE
    OBVIOUS
  <2>1. PICK n \in C : \A m \in C : n <= m
    <3>1. IsFiniteSet(0 .. N) /\ 0 .. N \subseteq Int
      BY FS_Interval
    <3>2. C \subseteq 0 .. N
      OBVIOUS
    <3>3. IsFiniteSet(C) /\ C \subseteq Int
      BY <3>1, <3>2, FS_Subset
    <3> HIDE DEF C
    <3> QED
      BY <3>3, LeastExists
  <2>2. n # 0
    <3>1. Rec([m \in 0 .. 0 |-> Limiter!Start], 0)
      OBVIOUS
    <3> QED
      BY <3>1
  <2>3. n - 1 \in 0 .. N /\ n - 1 \notin C
    BY <2>1, <2>2
  <2>4. PICK h : Rec(h, n - 1)
    BY <2>3
  <2> DEFINE g == [m \in 0 .. n |-> IF m = n THEN Limiter!Turn(h[n - 1]) ELSE h[m]]
  <2>5. n \in Nat /\ n > 0
    BY <2>2
  <2>6. \A m \in 0 .. n : g[m] = IF m = 0 THEN Limiter!Start ELSE Limiter!Turn(g[m - 1])
    <3> TAKE m \in 0 .. n
    <3>1. CASE m = n
      <4>1. m # 0 /\ m - 1 \in 0 .. n /\ m - 1 # n /\ g[m - 1] = h[m - 1]
        BY <2>5, <3>1
      <4> QED
        BY <3>1, <4>1
    <3>2. CASE m # n
      <4>1. m \in 0 .. n - 1 /\ g[m] = h[m]
        BY <2>5, <3>2
      <4>2. h[m] = IF m = 0 THEN Limiter!Start ELSE Limiter!Turn(h[m - 1])
        BY <2>4, <4>1
      <4>3. m # 0 => m - 1 \in 0 .. n /\ m - 1 # n /\ g[m - 1] = h[m - 1]
        BY <2>5, <3>2
      <4> QED
        BY <4>1, <4>2, <4>3
    <3> QED
      BY <3>1, <3>2
  <2>7. Rec(g, n)
    <3>1. g = [m \in 0 .. n |-> g[m]]
      OBVIOUS
    <3> HIDE DEF g
    <3> QED
      BY <2>6, <3>1
  <2> QED
    BY <2>1, <2>7
<1>2. \E g : Rec(g, N)
  BY <1>1
<1>3. Rec(Limiter!Turns, N)
  BY <1>2, SameCount DEF Limiter!Turns
<1> QED
  BY <1>3

\* A refill keeps the caps, leaves no one waiting who could be served, and grants in order.
LEMMA RefillKeeps ==
  ASSUME LimiterInv, part = "limiter", NEW s, s = Limiter!Refilled
  PROVE  /\ Refilling(s) /\ Limiter!MayLeave(s) = {}
         /\ \A g \in s.granted \ granted :
              /\ g \in DOMAIN requests
              /\ \A w \in s.waiters \ cancelled :
                   requests[w].endpoint = requests[g].endpoint => Limiter!Before(g, w)
<1>1. /\ clock \in Nat /\ requests \in Seq(Asking) /\ tokens \in [Limiter!Endpoints -> Int]
      /\ waiters \subseteq DOMAIN requests /\ CapsKept(orders, today, clock)
  BY DEF LimiterInv
<1> DEFINE N == Cardinality(waiters)
           T(n) == Limiter!Turns[n]
           InOrder(q) == \A g \in q.granted \ granted :
              /\ g \in DOMAIN requests
              /\ \A w \in q.waiters \ cancelled :
                   requests[w].endpoint = requests[g].endpoint => Limiter!Before(g, w)
           P(n) == /\ Refilling(T(n)) /\ InOrder(T(n))
                   /\ Limiter!MayLeave(T(n)) = {} \/ Cardinality(T(n).waiters) + n <= N
           C == {n \in 0 .. N : ~P(n)}
<1>2. IsFiniteSet(waiters) /\ N \in Nat
  <2>1. IsFiniteSet(DOMAIN requests)
    BY <1>1, FS_Interval
  <2> QED
    BY <1>1, <2>1, FS_Subset, FS_CardinalityType
<1>3. T(0) = Limiter!Start /\ \A n \in 1 .. N : T(n) = Limiter!Turn(T(n - 1))
  BY <1>2, TurnsFollow
<1>4. s = T(N)
  BY SameCount DEF Limiter!Refilled
<1> HIDE DEF N, T
<1>5. C = {}
  <2> SUFFICES ASSUME C # {} PROVE FALSE
    OBVIOUS
  <2>1. PICK n \in C : \A m \in C : n <= m
    <3>1. IsFiniteSet(0 .. N) /\ 0 .. N \subseteq Int
      BY <1>2, FS_Interval
    <3>2. C \subseteq 0 .. N
      OBVIOUS
    <3>3. IsFiniteSet(C) /\ C \subseteq Int
      BY <3>1, <3>2, FS_Subset
    <3> HIDE DEF C
    <3> QED
      BY <3>3, LeastExists
  <2>2. CASE n = 0
    <3>1. /\ T(0).tokens = tokens /\ T(0).orders = orders /\ T(0).today = today /\ T(0).waiters = waiters
          /\ T(0).granted = granted
      BY <1>3 DEF Limiter!Start
    <3>2. Refilling(T(0))
      BY <1>1, <3>1 DEF Refilling
    <3>3. InOrder(T(0))
      BY <3>1
    <3>4. Cardinality(T(0).waiters) + 0 <= N
      BY <1>2, <3>1 DEF N
    <3> QED
      BY <2>1, <2>2, <3>2, <3>3, <3>4
  <2>3. CASE n # 0
    <3>1. n - 1 \in 0 .. N /\ n - 1 \notin C /\ n \in 1 .. N
      BY <1>2, <2>1, <2>3
    <3> DEFINE a == T(n - 1)
               c == T(n)
    <3>2. P(n - 1)
      BY <3>1
    <3>3. Refilling(a) /\ InOrder(a) /\ (Limiter!MayLeave(a) = {} \/ Cardinality(a.waiters) + (n - 1) <= N)
      BY <3>2
    <3>4. c = Limiter!Turn(a)
      BY <1>3, <3>1
    <3> HIDE DEF a, c, InOrder
    <3>5. /\ Refilling(c)
          /\ (Limiter!MayLeave(a) = {} /\ c = a) \/ \E w \in a.waiters : c.waiters = a.waiters \ {w}
          /\ \A g \in c.granted \ a.granted :
               /\ g \in DOMAIN requests
               /\ \A w \in c.waiters \ cancelled :
                    requests[w].endpoint = requests[g].endpoint => Limiter!Before(g, w)
      BY <1>1, <3>3, <3>4, OneTurn
    <3>6. c.waiters \subseteq a.waiters
      BY <3>5
    <3>7. InOrder(c)
      BY <3>3, <3>5, <3>6 DEF InOrder
    <3>8. Limiter!MayLeave(c) = {} \/ Cardinality(c.waiters) + n <= N
      <4>1. CASE c = a /\ Limiter!MayLeave(a) = {}
        BY <4>1
      <4>2. CASE \E w \in a.waiters : c.waiters = a.waiters \ {w}
        <5>1. IsFiniteSet(a.waiters)
          BY <1>2, <3>3, FS_Subset DEF Refilling
        <5>2. Cardinality(a.waiters) \in Nat /\ Cardinality(c.waiters) = Cardinality(a.waiters) - 1
          BY <4>2, <5>1, FS_RemoveElement, FS_CardinalityType
        <5>3. CASE Limiter!MayLeave(a) = {}
          <6>1. c = a \/ c # a
            OBVIOUS
          <6>2. c = a
            BY <3>4, <5>3 DEF Limiter!Turn
          <6> QED
            BY <5>3, <6>2
        <5>4. CASE Cardinality(a.waiters) + (n - 1) <= N
          BY <1>2, <3>1, <5>2, <5>4
        <5> QED
          BY <3>3, <5>3, <5>4
      <4> QED
        BY <3>5, <4>1, <4>2
    <3>9. P(n)
      BY <3>5, <3>7, <3>8 DEF c
    <3> QED
      BY <2>1, <3>9
  <2> QED
    BY <2>2, <2>3
<1>6. P(N)
  BY <1>2, <1>5
<1>7. Refilling(s) /\ InOrder(s) /\ (Limiter!MayLeave(s) = {} \/ Cardinality(s.waiters) + N <= N)
  BY <1>4, <1>6
<1>8. Limiter!MayLeave(s) = {}
  <2>1. CASE Cardinality(s.waiters) + N <= N
    <3>1. IsFiniteSet(s.waiters)
      BY <1>2, <1>7, FS_Subset DEF Refilling
    <3>2. Cardinality(s.waiters) = 0
      BY <1>2, <2>1, <3>1, FS_CardinalityType
    <3>3. s.waiters = {}
      BY <3>1, <3>2, FS_EmptySet
    <3> QED
      BY <3>3 DEF Limiter!MayLeave
  <2> QED
    BY <1>7, <2>1
<1> QED
  BY <1>7, <1>8

\* At the start no order was placed.
LEMMA LimiterInit == DecisionsInit => LimiterInv
<1> SUFFICES ASSUME DecisionsInit, part = "limiter" PROVE LimiterInv
  BY DEF LimiterInv
<1>1. Limiter!Init
  BY DEF DecisionsInit
<1> USE <1>1 DEF Limiter!Init
<1>2. tokens \in [Limiter!Endpoints -> Int]
  BY LimitsAre
<1>3. \A length, t : Placed(orders, length, t) = 0
  <2> TAKE length, t
  <2>1. {i \in DOMAIN orders : orders[i] <= t /\ t - orders[i] < length} = {}
    OBVIOUS
  <2> QED
    BY <2>1, FS_EmptySet DEF Placed
<1>4. CapsKept(orders, today, clock)
  BY <1>3, LimitsAre DEF CapsKept
<1> QED
  BY <1>2, <1>4 DEF LimiterInv

\* What one step does: the caps hold after it, and who is granted comes before who goes on waiting.
GrantedInOrder ==
  \A g \in granted' \ granted : \A w \in (waiters \cap waiters') \ cancelled :
    requests'[w].endpoint = requests'[g].endpoint => Limiter!Before(g, w)'

\* acquire: a newcomer that is granted finds no one waiting who could have been.
LEMMA AcquireStep ==
  ASSUME LimiterInv, part = "limiter", part' = part, Limiter!Acquire
  PROVE  LimiterInv' /\ GrantedInOrder
<1>1. /\ clock \in Nat /\ requests \in Seq(Asking) /\ waiters \subseteq DOMAIN requests /\ clock' = clock
  BY DEF LimiterInv, Limiter!Acquire
<1> DEFINE s == Limiter!Refilled
           n == Len(requests) + 1
<1>2. PICK r \in Asking :
        /\ requests' = Append(requests, r)
        /\ \/ Limiter!Become(s)
           \/ Limiter!CanAcquire(s, r) /\ Limiter!Become(Limiter!Consume(s, n, r))
           \/ Limiter!Become([s EXCEPT !.waiters = @ \cup {n}])
  BY DEF Limiter!Acquire, Asking
<1>3. /\ Refilling(s) /\ Limiter!MayLeave(s) = {}
      /\ \A g \in s.granted \ granted :
           /\ g \in DOMAIN requests
           /\ \A w \in s.waiters \ cancelled :
                requests[w].endpoint = requests[g].endpoint => Limiter!Before(g, w)
  BY RefillKeeps
<1> HIDE DEF s
<1>4. s.tokens \in [Limiter!Endpoints -> Int] /\ s.waiters \subseteq waiters /\ CapsKept(s.orders, s.today, clock)
  BY <1>3 DEF Refilling
<1>5. /\ requests' \in Seq(Asking) /\ DOMAIN requests' = DOMAIN requests \cup {n} /\ requests'[n] = r
      /\ n \notin DOMAIN requests /\ \A i \in DOMAIN requests : requests'[i] = requests[i]
  BY <1>1, <1>2
<1>6. \A g \in DOMAIN requests : \A w \in DOMAIN requests : Limiter!Before(g, w) => Limiter!Before(g, w)'
  BY <1>5 DEF Limiter!Before
<1>7. \A g \in s.granted \ granted : \A w \in s.waiters \ cancelled :
        requests'[w].endpoint = requests'[g].endpoint => Limiter!Before(g, w)'
  <2> SUFFICES ASSUME NEW g \in s.granted \ granted, NEW w \in s.waiters \ cancelled,
                      requests'[w].endpoint = requests'[g].endpoint
               PROVE  Limiter!Before(g, w)'
    OBVIOUS
  <2>1. g \in DOMAIN requests /\ w \in DOMAIN requests
    BY <1>1, <1>3, <1>4
  <2> QED
    BY <1>3, <1>5, <1>6, <2>1
<1> HIDE DEF n
<1>8. CASE Limiter!Become(s)
  <2>1. tokens' = s.tokens /\ orders' = s.orders /\ today' = s.today /\ waiters' = s.waiters /\ granted' = s.granted
    BY <1>8 DEF Limiter!Become
  <2>2. LimiterInv'
    BY <1>1, <1>4, <1>5, <2>1 DEF LimiterInv
  <2>3. GrantedInOrder
    BY <1>7, <2>1 DEF GrantedInOrder
  <2> QED
    BY <2>2, <2>3
<1>9. CASE Limiter!CanAcquire(s, r) /\ Limiter!Become(Limiter!Consume(s, n, r))
  <2> DEFINE c == Limiter!Consume(s, n, r)
  <2>1. /\ c.tokens \in [Limiter!Endpoints -> Int] /\ CapsKept(c.orders, c.today, clock)
        /\ c.waiters = s.waiters \ {n} /\ c.granted = s.granted \cup {n}
    BY <1>1, <1>4, <1>9, ConsumeKeeps
  <2> HIDE DEF c
  <2>2. tokens' = c.tokens /\ orders' = c.orders /\ today' = c.today /\ waiters' = c.waiters /\ granted' = c.granted
    BY <1>9 DEF Limiter!Become, c
  <2>3. LimiterInv'
    BY <1>1, <1>4, <1>5, <2>1, <2>2 DEF LimiterInv
  <2>4. ASSUME NEW g, g = n, NEW w \in s.waiters \ cancelled, requests'[w].endpoint = requests'[g].endpoint
        PROVE  Limiter!Before(g, w)'
    <3>1. w \in DOMAIN requests /\ requests[w] \in Asking /\ requests'[w] = requests[w] /\ w \in s.waiters
      BY <1>1, <1>4, <1>5
    <3>2. ~Limiter!CanAcquire(s, requests[w])
      BY <1>3, <3>1 DEF Limiter!MayLeave
    <3>3. ~(requests[w].priority <= r.priority)
      BY <1>4, <1>5, <1>9, <2>4, <3>1, <3>2, UrgentMay
    <3>4. requests[w].priority \in Int /\ r.priority \in Int
      BY <3>1 DEF Asking, Limiter!Priorities
    <3>5. requests'[g].priority < requests'[w].priority
      BY <1>5, <2>4, <3>1, <3>3, <3>4
    <3> QED
      BY <3>5 DEF Limiter!Before
  <2>5. GrantedInOrder
    <3> SUFFICES ASSUME NEW g \in granted' \ granted, NEW w \in (waiters \cap waiters') \ cancelled,
                        requests'[w].endpoint = requests'[g].endpoint
                 PROVE  Limiter!Before(g, w)'
      BY DEF GrantedInOrder
    <3>1. w \in s.waiters \ cancelled /\ (g = n \/ g \in s.granted \ granted)
      BY <2>1, <2>2
    <3>2. CASE g = n
      BY <2>4, <3>1, <3>2
    <3>3. CASE g \in s.granted \ granted
      BY <1>7, <3>1, <3>3
    <3> QED
      BY <3>1, <3>2, <3>3
  <2> QED
    BY <2>3, <2>5
<1>10. CASE Limiter!Become([s EXCEPT !.waiters = @ \cup {n}])
  <2>1. /\ tokens' = s.tokens /\ orders' = s.orders /\ today' = s.today
        /\ waiters' = s.waiters \cup {n} /\ granted' = s.granted
    BY <1>10 DEF Limiter!Become
  <2>2. LimiterInv'
    BY <1>1, <1>4, <1>5, <2>1 DEF LimiterInv
  <2>3. waiters \cap waiters' \subseteq s.waiters
    BY <1>1, <1>5, <2>1
  <2>4. GrantedInOrder
    BY <1>7, <2>1, <2>3 DEF GrantedInOrder
  <2> QED
    BY <2>2, <2>4
<1> QED
  BY <1>2, <1>8, <1>9, <1>10

\* The drain loop refills and nothing else.
LEMMA DrainStep ==
  ASSUME LimiterInv, part = "limiter", part' = part, Limiter!Drain
  PROVE  LimiterInv' /\ GrantedInOrder
<1> DEFINE s == Limiter!Refilled
<1>1. Limiter!Become(s) /\ requests' = requests /\ clock' = clock
  BY DEF Limiter!Drain
<1>2. /\ Refilling(s)
      /\ \A g \in s.granted \ granted :
           /\ g \in DOMAIN requests
           /\ \A w \in s.waiters \ cancelled :
                requests[w].endpoint = requests[g].endpoint => Limiter!Before(g, w)
  BY RefillKeeps
<1> HIDE DEF s
<1>3. tokens' = s.tokens /\ orders' = s.orders /\ today' = s.today /\ waiters' = s.waiters /\ granted' = s.granted
  BY <1>1 DEF Limiter!Become
<1>4. LimiterInv'
  BY <1>1, <1>2, <1>3 DEF LimiterInv, Refilling
<1>5. \A g, w : Limiter!Before(g, w) => Limiter!Before(g, w)'
  BY <1>1 DEF Limiter!Before
<1>6. GrantedInOrder
  BY <1>1, <1>2, <1>3, <1>5 DEF GrantedInOrder
<1> QED
  BY <1>4, <1>6

\* Time only empties the windows, and a new date that of the day.
LEMMA LimiterTimeStep ==
  ASSUME LimiterInv, part = "limiter", part' = part, Limiter!Cancel \/ Limiter!Tick \/ Limiter!NextDate
  PROVE  LimiterInv' /\ GrantedInOrder
<1>1. /\ requests' = requests /\ waiters' = waiters /\ granted' = granted /\ orders' = orders
      /\ clock' = clock \/ clock' = clock + 1
      /\ today' = today \/ today' = 0
      /\ tokens' = tokens \/ tokens' = [e \in Limiter!Endpoints |-> IF tokens[e] < Burst THEN tokens[e] + 1 ELSE Burst]
  BY DEF Limiter!Cancel, Limiter!Tick, Limiter!NextDate
<1>2. /\ clock \in Nat /\ tokens \in [Limiter!Endpoints -> Int] /\ CapsKept(orders, today, clock)
      /\ requests \in Seq(Asking) /\ waiters \subseteq DOMAIN requests
  BY DEF LimiterInv
<1>3. tokens' \in [Limiter!Endpoints -> Int]
  BY <1>1, <1>2, LimitsAre
<1>4. orders \in Seq(Nat) /\ \A i \in DOMAIN orders : orders[i] <= clock /\ orders[i] \in Nat
  BY <1>2 DEF CapsKept
<1>5. ASSUME NEW length \in Nat
      PROVE  Placed(orders, length, clock + 1) <= Placed(orders, length, clock)
  <2> DEFINE In(e) == {i \in DOMAIN orders : orders[i] <= e /\ e - orders[i] < length}
  <2>1. IsFiniteSet(DOMAIN orders)
    BY <1>4, FS_Interval
  <2>2. In(clock) \subseteq DOMAIN orders /\ In(clock + 1) \subseteq In(clock)
    BY <1>2, <1>4
  <2> HIDE DEF In
  <2>3. IsFiniteSet(In(clock)) /\ Cardinality(In(clock + 1)) <= Cardinality(In(clock))
    BY <2>1, <2>2, FS_Subset
  <2> QED
    BY <2>3 DEF Placed, In
<1>6. ASSUME NEW length \in Nat
      PROVE  Placed(orders, length, clock + 1) \in Nat /\ Placed(orders, length, clock) \in Nat
  <2>1. clock + 1 \in 0 .. clock + 1 /\ clock \in 0 .. clock /\ \A i \in DOMAIN orders : orders[i] <= clock + 1
    BY <1>2, <1>4
  <2>2. Placed(orders, length, clock) \in Nat
    BY <1>2, <1>4, <2>1, OneMoreOrder
  <2>3. Placed(orders, length, clock + 1) \in Nat
    <3>1. \A now \in Nat : (\A i \in DOMAIN orders : orders[i] <= now) => Placed(orders, length, now) \in Nat
      <4> SUFFICES ASSUME NEW now \in Nat, \A i \in DOMAIN orders : orders[i] <= now
                   PROVE  Placed(orders, length, now) \in Nat
        OBVIOUS
      <4>1. now \in 0 .. now /\ orders \in Seq(Nat)
        BY <1>4
      <4> QED
        BY <4>1, OneMoreOrder
    <3>2. clock + 1 \in Nat
      BY <1>2
    <3> QED
      BY <2>1, <3>1, <3>2
  <2> QED
    BY <2>2, <2>3
<1>7. CapsKept(orders, today', clock')
  <2>1. today' \in Nat /\ today' <= PerDay
    BY <1>1, <1>2, LimitsAre DEF CapsKept
  <2>2. \A i \in DOMAIN orders : orders[i] <= clock'
    BY <1>1, <1>2, <1>4
  <2>3. ASSUME NEW t \in 0 .. clock'
        PROVE  Placed(orders, Second, t) <= PerSecond /\ Placed(orders, Minute, t) <= PerMinute
    <3>1. CASE t \in 0 .. clock
      BY <1>2, <3>1 DEF CapsKept
    <3>2. CASE t = clock + 1
      <4>1. Placed(orders, Second, clock) <= PerSecond /\ Placed(orders, Minute, clock) <= PerMinute
        BY <1>2 DEF CapsKept
      <4> QED
        BY <1>5, <1>6, <3>2, <4>1, LimitsAre
    <3> QED
      BY <1>1, <1>2, <3>1, <3>2
  <2> QED
    BY <1>4, <2>1, <2>2, <2>3 DEF CapsKept
<1>8. clock' \in Nat
  BY <1>1, <1>2
<1> QED
  BY <1>1, <1>2, <1>3, <1>7, <1>8 DEF LimiterInv, GrantedInOrder

\* Every step of the limiter keeps the invariant and grants in order.
LEMMA LimiterStep ==
  LimiterInv /\ [DecisionsNext]_decisionsVars => LimiterInv' /\ (part = "limiter" => GrantedInOrder)
<1> SUFFICES ASSUME LimiterInv, [DecisionsNext]_decisionsVars
             PROVE  LimiterInv' /\ (part = "limiter" => GrantedInOrder)
  OBVIOUS
<1>1. CASE UNCHANGED decisionsVars
  BY <1>1 DEF decisionsVars, limiterVars, LimiterInv, CapsKept, Placed, GrantedInOrder
<1>2. CASE DecisionsNext
  <2>1. CASE part # "limiter"
    BY <1>2, <2>1 DEF DecisionsNext, LimiterInv
  <2>2. CASE part = "limiter"
    <3>1. part' = part /\ Limiter!Next
      BY <1>2, <2>2 DEF DecisionsNext
    <3> QED
      BY <2>2, <3>1, AcquireStep, DrainStep, LimiterTimeStep DEF Limiter!Next
  <2> QED
    BY <2>1, <2>2
<1> QED
  BY <1>1, <1>2

\* Every grant is within the caps of every second, minute and day, and overtakes no request of its
\* endpoint that waits on and comes before it (acquire, _refill, _order_caps_available).
THEOREM GrantsAreLawful == DecisionsSpec => LawfulGrants
<1> DEFINE A == part = "limiter" => Limiter!OrdersWithinCaps' /\ Limiter!GrantsInOrder
<1>1. LimiterInv /\ [DecisionsNext]_decisionsVars => [A]_decisionsVars
  <2> SUFFICES ASSUME LimiterInv, DecisionsNext, part = "limiter"
               PROVE  Limiter!OrdersWithinCaps' /\ Limiter!GrantsInOrder
    OBVIOUS
  <2>1. LimiterInv' /\ GrantedInOrder /\ part' = "limiter"
    BY LimiterStep DEF DecisionsNext
  <2>2. CapsKept(orders', today', clock')
    BY <2>1 DEF LimiterInv
  <2>3. \A length, t : Limiter!Within(length, t)' = Placed(orders', length, t)
    BY SameCount DEF Limiter!Within, Placed
  <2>4. Limiter!OrdersWithinCaps'
    BY <2>2, <2>3 DEF Limiter!OrdersWithinCaps, CapsKept
  <2>5. Limiter!GrantsInOrder
    BY <2>1 DEF GrantedInOrder, Limiter!GrantsInOrder
  <2> QED
    BY <2>4, <2>5
<1> QED
  BY <1>1, LimiterInit, LimiterStep, PTL DEF DecisionsSpec, LawfulGrants

-----------------------------------------------------------------------------
(* The monitoring agent: what the collectors and the detectors say         *)

\* The worst of some statuses is one of them, and OK only if all are.
LEMMA WorstIs ==
  ASSUME NEW ss, ss \subseteq Statuses
  PROVE  Worst(ss) \in Statuses /\ (\A s \in ss : s # "ok" => Worst(ss) # "ok")
<1> DEFINE Top(s) == s \in ss /\ \A t \in ss : Rank(t) <= Rank(s)
<1>1. ss # {} => \E s \in ss : Top(s)
  <2>1. CASE "down" \in ss
    BY <2>1 DEF Statuses, Rank
  <2>2. CASE "down" \notin ss /\ "degraded" \in ss
    BY <2>2 DEF Statuses, Rank
  <2>3. CASE "down" \notin ss /\ "degraded" \notin ss /\ "unknown" \in ss
    BY <2>3 DEF Statuses, Rank
  <2>4. CASE "down" \notin ss /\ "degraded" \notin ss /\ "unknown" \notin ss
    BY <2>4 DEF Statuses, Rank
  <2> QED
    BY <2>1, <2>2, <2>3, <2>4
<1>2. ss # {} => Top(Worst(ss))
  BY <1>1 DEF Worst
<1>3. ss = {} => Worst(ss) = "ok"
  BY DEF Worst
<1> QED
  BY <1>2, <1>3 DEF Statuses, Rank

\* A service is OK, impaired or down.
LEMMA ServiceStatusIs == \A p : ServiceStatus(p) \in {"ok", "degraded", "down"}
BY DEF ServiceStatus

\* So is a table, or it is not known.
LEMMA TableStatusIs == \A o, t : TStatus(o, t) \in Statuses
BY DEF TStatus, TableStatus, Statuses

\* The services are OK only when each of them is.
LEMMA ServicesAre ==
  ASSUME NEW o
  PROVE  /\ ServicesResult(o) \in Statuses
         /\ \A s \in Services : o.looked /\ ServiceStatus(o.probe[s]) # "ok" => ServicesResult(o) # "ok"
<1> DEFINE Counted(s) == IF s \notin CriticalServices /\ ServiceStatus(o.probe[s]) = "down"
                         THEN "degraded" ELSE ServiceStatus(o.probe[s])
           ss == {Counted(s) : s \in Services}
<1>1. \A s \in Services : Counted(s) \in Statuses
                          /\ (ServiceStatus(o.probe[s]) # "ok" => Counted(s) # "ok")
  BY ServiceStatusIs DEF Statuses
<1>2. ServicesResult(o) = IF ~o.looked \/ Services = {} THEN "unknown" ELSE Worst(ss)
  BY DEF ServicesResult
<1> HIDE DEF Counted
<1>3. ss \subseteq Statuses
  BY <1>1
<1>4. \A s \in Services : Counted(s) \in ss
  OBVIOUS
<1> HIDE DEF ss
<1> QED
  BY <1>1, <1>2, <1>3, <1>4, WorstIs DEF Statuses

\* The tables are OK only when each of them is.
LEMMA TablesAre ==
  ASSUME NEW o
  PROVE  /\ DynamoDBResult(o) \in Statuses
         /\ \A t \in Tables : o.looked /\ TStatus(o, t) # "ok" => DynamoDBResult(o) # "ok"
<1> DEFINE Counted(t) == IF t \notin CriticalTables /\ TStatus(o, t) = "down"
                         THEN "degraded" ELSE TStatus(o, t)
           ss == {Counted(t) : t \in Tables}
<1>1. \A t \in Tables : Counted(t) \in Statuses /\ (TStatus(o, t) # "ok" => Counted(t) # "ok")
  BY TableStatusIs DEF Statuses
<1>2. DynamoDBResult(o) = IF ~o.looked \/ Tables = {} THEN "unknown" ELSE Worst(ss)
  BY DEF DynamoDBResult
<1> HIDE DEF Counted
<1>3. ss \subseteq Statuses
  BY <1>1
<1>4. \A t \in Tables : Counted(t) \in ss
  OBVIOUS
<1> HIDE DEF ss
<1> QED
  BY <1>1, <1>2, <1>3, <1>4, WorstIs DEF Statuses

\* The status of each component is that of its collector.
LEMMA StatusesAre ==
  \A obs : /\ StatusOf(obs)["services"] = ServicesResult(obs["services"])
           /\ StatusOf(obs)["kafka"] = KafkaResult(obs["kafka"])
           /\ StatusOf(obs)["dynamodb"] = DynamoDBResult(obs["dynamodb"])
           /\ StatusOf(obs)["broker"] = BrokerResult(obs["broker"])
           /\ StatusOf(obs)["docker"] = DockerResult(obs["docker"])
           /\ StatusOf(obs)["logs"] = LogResult(obs["logs"])
           /\ StatusOf(obs)["container_logs"] = ContainerLogResult(obs["container_logs"])
BY DEF StatusOf, Components

\* Every component has a status.
LEMMA StatusIs == \A obs : StatusOf(obs) \in [Components -> Statuses]
<1> TAKE obs
<1> DEFINE Of(c) == CASE c = "services" -> ServicesResult(obs[c])
                      [] c = "kafka" -> KafkaResult(obs[c])
                      [] c = "dynamodb" -> DynamoDBResult(obs[c])
                      [] c = "broker" -> BrokerResult(obs[c])
                      [] c = "docker" -> DockerResult(obs[c])
                      [] c = "logs" -> LogResult(obs[c])
                      [] c = "container_logs" -> ContainerLogResult(obs[c])
<1>1. \A o : /\ KafkaResult(o) \in Statuses /\ BrokerResult(o) \in Statuses
             /\ DockerResult(o) \in Statuses /\ LogResult(o) \in Statuses
             /\ ContainerLogResult(o) \in Statuses
  BY DEF KafkaResult, BrokerResult, DockerResult, ContainerStatus, LogResult,
         ContainerLogResult, Statuses
<1>2. \A o : ServicesResult(o) \in Statuses /\ DynamoDBResult(o) \in Statuses
  BY ServicesAre, TablesAre
<1>3. \A c \in Components : Of(c) \in Statuses
  BY <1>1, <1>2 DEF Components
<1>4. StatusOf(obs) = [c \in Components |-> Of(c)]
  BY DEF StatusOf
<1> HIDE DEF Of
<1> QED
  BY <1>3, <1>4

\* The observations a platform may be in.
Observed(obs) == \A c \in Components : obs[c] \in Raw[c]

\* A price feed that is very stale, or has no prices, is not OK.
LEMMA StaleIsVisible ==
  ASSUME NEW o \in Raw["broker"], NEW f \in BrokerFindings(o), f.severity = "critical"
  PROVE  BrokerResult(o) # "ok"
<1>1. o.open /\ BrokerResult(o) # "unknown"
  BY DEF BrokerFindings, Finding
<1>2. o.looked
  BY <1>1 DEF BrokerResult
<1>3. CASE NewestAge(o) = NoAge
  BY <1>1, <1>2, <1>3 DEF BrokerResult
<1>4. CASE NewestAge(o) # NoAge
  <2>1. o.ages \ {NoAge} # {} /\ NewestAge(o) = Min(o.ages \ {NoAge})
    BY <1>4 DEF NewestAge
  <2>2. IsFiniteSet(o.ages \ {NoAge}) /\ o.ages \ {NoAge} \subseteq Int
    BY <1>2, AgentAssumption, FS_Subset DEF AgentAssumption
  <2>3. NewestAge(o) \in Int
    BY <2>1, <2>2, LeastOf
  <2>4. MaxAge \in Nat
    BY DetectionAssumption DEF DetectionAssumption
  <2>5. NewestAge(o) > VeryStale * MaxAge
    BY <1>1, <1>4 DEF BrokerFindings, Finding
  <2>6. NewestAge(o) > MaxAge
    BY <2>3, <2>4, <2>5 DEF VeryStale
  <2> QED
    BY <1>1, <1>2, <1>4, <2>1, <2>6 DEF BrokerResult
<1> QED
  BY <1>3, <1>4

\* A serious finding is critical or a blocker.
LEMMA SeriousIs ==
  ASSUME NEW obs, NEW f \in Serious(obs),
         f.severity \in {"info", "warning", "critical", "blocker"}
  PROVE  f \in Evaluate(obs) /\ f.severity \in {"critical", "blocker"}
BY DEF Serious, SeverityRank

\* Every severity a status translates to is known, and not serious for what is not critical.
LEMMA SeverityIs ==
  \A A, x : \A s \in Statuses :
    /\ SeverityForStatus(s, x \in A) \in {"info", "warning", "critical", "blocker"}
    /\ x \notin A => SeverityForStatus(s, x \in A) \in {"info", "warning"}
BY DEF SeverityForStatus, Statuses

\* What the serious findings are: the subject of each, what it is about, and what
\* the status of its component says.
LEMMA SeriousFindings ==
  ASSUME NEW obs, Observed(obs), NEW f \in Serious(obs)
  PROVE  /\ f.component \in Components
         /\ f.subject \in Subjects
         /\ f.code \notin {"group_lag_critical", "restart_loop"} => StatusOf(obs)[f.component] # "ok"
         /\ f.component = "services" =>
              /\ f.subject \in CriticalServices /\ obs["services"].looked
              /\ f.code = ServiceStatus(obs["services"].probe[f.subject])
         /\ f.component = "kafka" /\ f.code = "unreachable" =>
              ~obs["kafka"].looked \/ ~obs["kafka"].reachable
         /\ f.component = "dynamodb" =>
              /\ f.subject \in CriticalTables /\ obs["dynamodb"].looked
              /\ f.code = TStatus(obs["dynamodb"], f.subject)
<1> DEFINE Known == f.severity \in {"info", "warning", "critical", "blocker"}
<1>1. f \in Evaluate(obs) /\ (Known => f.severity \in {"critical", "blocker"})
  BY SeriousIs DEF Serious
<1>2. \A s : s \in CriticalServices => s \in Services
  BY DetectionAssumption DEF DetectionAssumption
<1>3. \A s : s \in CriticalTables => s \in Tables
  BY DetectionAssumption DEF DetectionAssumption
<1>4. CASE f \in ServiceFindings(obs["services"])
  <2> DEFINE o == obs["services"]
  <2>1. PICK s \in Services :
          /\ o.looked /\ ServiceStatus(o.probe[s]) # "ok"
          /\ f = Finding("services", SeverityForStatus(ServiceStatus(o.probe[s]), s \in CriticalServices),
                         ServiceStatus(o.probe[s]), s)
    BY <1>4 DEF ServiceFindings
  <2>2. /\ f.component = "services" /\ f.code = ServiceStatus(o.probe[s]) /\ f.subject = s
        /\ f.severity = SeverityForStatus(ServiceStatus(o.probe[s]), s \in CriticalServices)
    BY <2>1 DEF Finding
  <2>3. s \in CriticalServices
    BY <1>1, <2>2, ServiceStatusIs, SeverityIs DEF Statuses
  <2>4. StatusOf(obs)["services"] # "ok"
    BY <2>1, ServicesAre, StatusesAre
  <2> QED
    BY <2>1, <2>2, <2>3, <2>4 DEF Components, Subjects
<1>5. CASE f \in DynamoDBFindings(obs["dynamodb"])
  <2> DEFINE o == obs["dynamodb"]
  <2>1. PICK s \in Tables :
          /\ o.looked /\ TStatus(o, s) # "ok"
          /\ f = Finding("dynamodb", SeverityForStatus(TStatus(o, s), s \in CriticalTables), TStatus(o, s), s)
    BY <1>5 DEF DynamoDBFindings
  <2>2. /\ f.component = "dynamodb" /\ f.code = TStatus(o, s) /\ f.subject = s
        /\ f.severity = SeverityForStatus(TStatus(o, s), s \in CriticalTables)
    BY <2>1 DEF Finding
  <2>3. s \in CriticalTables
    BY <1>1, <2>2, TableStatusIs, SeverityIs
  <2>4. StatusOf(obs)["dynamodb"] # "ok"
    BY <2>1, TablesAre, StatusesAre
  <2> QED
    BY <2>1, <2>2, <2>3, <2>4 DEF Components, Subjects
<1>6. CASE f \in KafkaFindings(obs["kafka"])
  <2> DEFINE o == obs["kafka"]
  <2>1. f.component = "kafka" /\ f.subject \in {"cluster", "topics", "group"} /\ Known
    BY <1>6 DEF KafkaFindings, KafkaGroupFindings, Finding
  <2>2. CASE ~o.looked \/ ~o.reachable
    BY <2>1, <2>2, StatusesAre DEF KafkaResult, Components, Subjects
  <2>3. CASE ~(~o.looked \/ ~o.reachable)
    <3>1. CASE o.missingTopics /\ f = Finding("kafka", "critical", "missing_topics", "topics")
      <4>1. KafkaResult(o) = "degraded"
        BY <2>3, <3>1 DEF KafkaResult
      <4> QED
        BY <2>1, <3>1, <4>1, StatusesAre DEF Components, Subjects, Finding
    <3>2. CASE f \in KafkaGroupFindings(o.group)
      <4>1. f.code # "unreachable"
        BY <3>2 DEF KafkaGroupFindings, Finding
      <4>2. f.code # "group_lag_critical" => KafkaResult(o) = "degraded"
        <5>1. CASE o.group.error
          BY <1>1, <2>1, <2>3, <3>2, <5>1 DEF KafkaGroupFindings, Finding, KafkaResult
        <5>2. CASE ~o.group.error /\ CriticalGroup /\ ~GroupFound(o.group)
          BY <2>3, <5>2 DEF KafkaResult
        <5>3. CASE ~o.group.error /\ ~(CriticalGroup /\ ~GroupFound(o.group))
          BY <1>1, <2>1, <3>2, <5>3 DEF KafkaGroupFindings, Finding
        <5> QED
          BY <5>1, <5>2, <5>3
      <4> QED
        BY <2>1, <4>1, <4>2, StatusesAre DEF Components, Subjects
    <3> QED
      BY <1>6, <2>3, <3>1, <3>2 DEF KafkaFindings
  <2> QED
    BY <2>2, <2>3
<1>7. CASE f \in BrokerFindings(obs["broker"])
  <2> DEFINE o == obs["broker"]
  <2>1. f.component = "broker" /\ f.subject = "feed" /\ f.severity \in {"warning", "critical"}
    BY <1>7 DEF BrokerFindings, Finding
  <2>2. o \in Raw["broker"]
    BY DEF Observed, Components
  <2>3. BrokerResult(o) # "ok"
    BY <1>1, <1>7, <2>1, <2>2, StaleIsVisible
  <2> QED
    BY <2>1, <2>3, StatusesAre DEF Components, Subjects
<1>8. CASE f \in DockerFindings(obs["docker"])
  <2> DEFINE o == obs["docker"]
  <2>1. /\ f.component = "docker" /\ f.subject = o.name /\ o.looked
        /\ f.severity = "warning" \/ (f.severity = "critical" /\ f.code = "restart_loop")
    BY <1>8 DEF DockerFindings, Finding
  <2>2. o.name \in Subjects
    BY <2>1 DEF Subjects, Observed, Components
  <2> QED
    BY <1>1, <2>1, <2>2 DEF Components
<1>9. CASE f \in LogFindings(obs["logs"])
  <2> DEFINE o == obs["logs"]
  <2>1. f.component = "logs" /\ f.subject = "logs" /\ o.looked /\ o.readable /\ o.matches # {}
    BY <1>9 DEF LogFindings, Finding
  <2> QED
    BY <2>1, StatusesAre DEF LogResult, Components, Subjects
<1>10. CASE f \in ContainerLogFindings(obs["container_logs"])
  <2> DEFINE o == obs["container_logs"]
  <2>1. f.component = "container_logs" /\ f.subject = "logs" /\ o.looked /\ o.hits # {}
    BY <1>10 DEF ContainerLogFindings, Finding
  <2> QED
    BY <2>1, StatusesAre DEF ContainerLogResult, Components, Subjects
<1> QED
  BY <1>1, <1>4, <1>5, <1>6, <1>7, <1>8, <1>9, <1>10 DEF Evaluate

\* A look at the platform has finitely many findings.
LEMMA FindingsFinite ==
  ASSUME NEW obs, Observed(obs)
  PROVE  IsFiniteSet(Serious(obs))
<1>1. IsFiniteSet(ServiceFindings(obs["services"]))
  <2> DEFINE o == obs["services"]
             A == {t \in Services : ServiceStatus(o.probe[t]) # "ok"}
             g == [s \in A |-> Finding("services",
                     SeverityForStatus(ServiceStatus(o.probe[s]), s \in CriticalServices),
                     ServiceStatus(o.probe[s]), s)]
  <2>1. IsFiniteSet(A)
    BY DetectionAssumption, FS_Subset DEF DetectionAssumption
  <2>2. ServiceFindings(o) = IF ~o.looked THEN {} ELSE {g[s] : s \in A}
    BY DEF ServiceFindings
  <2> HIDE DEF A, g
  <2> QED
    BY <2>1, <2>2, FiniteImage, FS_EmptySet
<1>2. IsFiniteSet(DynamoDBFindings(obs["dynamodb"]))
  <2> DEFINE o == obs["dynamodb"]
             A == {t \in Tables : TStatus(o, t) # "ok"}
             g == [s \in A |-> Finding("dynamodb",
                     SeverityForStatus(TStatus(o, s), s \in CriticalTables), TStatus(o, s), s)]
  <2>1. IsFiniteSet(A)
    BY DetectionAssumption, FS_Subset DEF DetectionAssumption
  <2>2. DynamoDBFindings(o) = IF ~o.looked THEN {} ELSE {g[s] : s \in A}
    BY DEF DynamoDBFindings
  <2> HIDE DEF A, g
  <2> QED
    BY <2>1, <2>2, FiniteImage, FS_EmptySet
<1>3. \A x : IsFiniteSet({x})
  BY FS_Singleton
<1>4. \A o : IsFiniteSet(BrokerFindings(o)) /\ IsFiniteSet(DockerFindings(o)) /\ IsFiniteSet(LogFindings(o))
  BY <1>3, FS_EmptySet DEF BrokerFindings, DockerFindings, LogFindings
<1>5. \A o : IsFiniteSet(KafkaFindings(o))
  <2>1. \A g : IsFiniteSet(KafkaGroupFindings(g))
    BY <1>3, FS_EmptySet DEF KafkaGroupFindings
  <2> QED
    BY <1>3, <2>1, FS_EmptySet, FS_Union DEF KafkaFindings
<1>6. IsFiniteSet(ContainerLogFindings(obs["container_logs"]))
  <2> DEFINE o == obs["container_logs"]
             g == [h \in o.hits |-> Finding("container_logs", h, h, "logs")]
  <2>1. IsFiniteSet({"blocker"} \cup {"critical"} \cup {"warning"})
    BY <1>3, FS_Union
  <2>2. o.looked => o.hits \in SUBSET ({"blocker"} \cup {"critical"} \cup {"warning"})
    BY AgentAssumption DEF AgentAssumption, Observed, Components
  <2>3. o.looked => IsFiniteSet(o.hits)
    BY <2>1, <2>2, FS_Subset
  <2>4. ContainerLogFindings(o) = IF ~o.looked THEN {} ELSE {g[h] : h \in o.hits}
    BY DEF ContainerLogFindings
  <2> HIDE DEF g
  <2> QED
    BY <2>3, <2>4, FiniteImage, FS_EmptySet
<1>7. IsFiniteSet(Evaluate(obs))
  BY <1>1, <1>2, <1>4, <1>5, <1>6, FS_Union DEF Evaluate
<1> QED
  BY <1>7, FS_Subset DEF Serious

\* What the classifier wants the kill switch for is an outage.
LEMMA KillMeansOutage ==
  ASSUME NEW obs, Observed(obs), NEW f \in Serious(obs), Classify(f) = "ACTIVATE_KILL_SWITCH"
  PROVE  KillOutage(obs)
<1>1. <<f.component, f.code>> \in KillCodes /\ ~Overridden(f)
  BY DEF Classify, CodeAction
<1>2. CASE f.component = "services" /\ f.code = "down"
  <2>1. /\ f.subject \in CriticalServices \ {AIEngine} /\ obs["services"].looked
        /\ ServiceStatus(obs["services"].probe[f.subject]) = "down"
    BY <1>1, <1>2, SeriousFindings DEF Overridden
  <2> QED
    BY <2>1 DEF ServiceStatus, KillOutage, KillSubjects
<1>3. CASE f.component = "kafka" /\ f.code = "unreachable"
  <2>1. ~obs["kafka"].looked \/ ~obs["kafka"].reachable
    BY <1>3, SeriousFindings
  <2>2. "cluster" \in KillSubjects(obs)
    BY <2>1 DEF KillSubjects
  <2> QED
    BY <2>2 DEF KillOutage
<1>4. CASE f.component = "dynamodb" /\ f.code = "down"
  <2>1. /\ f.subject \in CriticalTables /\ obs["dynamodb"].looked
        /\ TStatus(obs["dynamodb"], f.subject) = "down"
    BY <1>4, SeriousFindings
  <2>2. obs["dynamodb"].table[f.subject] \notin {"ACTIVE", "CREATING", "UPDATING", "", "error"}
    BY <2>1 DEF TStatus, TableStatus
  <2> QED
    BY <2>1, <2>2 DEF KillOutage, KillSubjects
<1> QED
  BY <1>1, <1>2, <1>3, <1>4 DEF KillCodes

\* The kill switch is allowed in every mode but the fully blocked one.
LEMMA KillAllowed ==
  Allowed("ACTIVATE_KILL_SWITCH") => TradingMode # "LIVE_FULL_BLOCKED"
BY DEF Allowed, Scope, WriteTypes, AllowedScopes

-----------------------------------------------------------------------------
(* The monitoring agent: its invariant and its steps                       *)

\* Slack knows of a component what the agent last recorded.
Reflects(c) ==
  /\ last[c] \in {"degraded", "down"} => told[c] = last[c]
  /\ last[c] \in {"ok", None} => told[c] \in {"ok", None}

\* What the agent is about to do comes from its observation; a marked key is being marked.
OnObservation ==
  /\ DOMAIN world = Components /\ todo \subseteq Serious(world)
  /\ pc \in {"acting", "marking"} => deployed.enabled
  /\ pc \notin {"acting", "marking"} => todo = {}
  /\ marking = None <=> pc # "marking"

\* A written key is remembered by the process, about to be, in the durable table,
\* or forgotten; and one written twice was forgotten.
Remembered ==
  /\ written \subseteq memory \cup {marking} \cup forgot \cup (IF deployed.durable THEN marked ELSE {})
  /\ twice \subseteq forgot

\* What is not about to be posted, and no post of it was missed, Slack knows; and Slack is
\* never told that a component is unknown.
Posted ==
  /\ pc # "posting" => posts = {}
  /\ \A c \in Components \ (missed \cup posts) : Reflects(c)
  /\ \A c \in Components : told[c] # "unknown"
  /\ \A c \in posts : last[c] # "unknown"

AgentInv == TypeOK /\ OnObservation /\ Remembered /\ Posted


\* A key of a finding under work is a key.
LEMMA KeyIs ==
  ASSUME TypeOK, OnObservation, NEW f \in todo
  PROVE  Key(f) \in Keys /\ Key(f) # None
         /\ Classify(f) \in {"SEND_ALERT", "BLOCK_NEW_ENTRIES", "ACTIVATE_KILL_SWITCH"}
         /\ (Classify(f) = "ACTIVATE_KILL_SWITCH" => KillOutage(world))
<1>1. f \in Serious(world) /\ Observed(world)
  BY DEF TypeOK, OnObservation, Observed
<1>2. f.subject \in Subjects
  BY <1>1, SeriousFindings
<1>3. Classify(f) \in {"SEND_ALERT", "BLOCK_NEW_ENTRIES", "ACTIVATE_KILL_SWITCH"}
  BY DEF Classify, CodeAction
<1>4. Key(f) \in Keys
  BY <1>2, <1>3 DEF Key, Keys, TypeOK
<1> QED
  BY <1>1, <1>3, <1>4, KillMeansOutage, NoneIsNoKey

\* Initially there is nothing to do, to remember or to tell.
LEMMA AgentInit == Init => AgentInv
<1> SUFFICES ASSUME Init PROVE AgentInv
  OBVIOUS
<1>1. PICK c \in Components : \E r \in Raw[c] : world = [Nominal EXCEPT ![c] = r]
  BY DEF Init
<1>2. DOMAIN world = Components /\ \A x \in Components : world[x] \in Raw[x]
  BY <1>1, AgentAssumption DEF AgentAssumption
<1>3. last = [x \in Components |-> None] /\ log = last /\ told = last
  BY DEF Init
<1>4. TypeOK
  <2>1. {last, log, told} \subseteq [Components -> Statuses \cup {None}]
    BY <1>3
  <2>2. {MaxChanges, MaxFaults, MaxClears, MaxDays} \subseteq Nat
    BY AgentAssumption DEF AgentAssumption
  <2>3. deployed \in Deployments /\ {halted, blocked} \subseteq BOOLEAN
    BY DEF Init
  <2>4. day \in 0..MaxDays /\ changes \in 0..MaxChanges /\ faults \in 0..MaxFaults /\ clears \in 0..MaxClears
    BY <2>2 DEF Init
  <2> QED
    BY <1>2, <2>1, <2>3, <2>4, FS_EmptySet DEF Init, TypeOK
<1>5. OnObservation
  BY <1>2 DEF Init, OnObservation
<1>6. Remembered
  BY DEF Init, Remembered
<1>7. Posted
  BY <1>3, AgentAssumption DEF Init, Posted, Reflects, AgentAssumption, Statuses
<1> QED
  BY <1>4, <1>5, <1>6, <1>7 DEF AgentInv

\* What an executed finding leaves behind: a write of it is neither repeated unless
\* forgotten nor made without a reason.
LEMMA ExecuteStep ==
  ASSUME AgentInv, NEW f \in todo, Execute(f)
  PROVE  AgentInv' /\ HaltsOnlyOnOutage
<1> DEFINE type == Classify(f)
           key == Key(f)
<1>1. /\ key \in Keys /\ key # None /\ type \in {"SEND_ALERT", "BLOCK_NEW_ENTRIES", "ACTIVATE_KILL_SWITCH"}
      /\ type = "ACTIVATE_KILL_SWITCH" => KillOutage(world)
  BY KeyIs DEF AgentInv
<1>2. PICK failure \in {"none", "read", "put", "answer"} :
        /\ failure # "none" => faults < MaxFaults /\ type \in WriteTypes /\ deployed.writer
        /\ failure = "read" => deployed.durable
        /\ failure \in {"put", "answer"} => ~Skip(type, key, TRUE)
        /\ faults' = IF failure = "none" THEN faults ELSE faults + 1
        /\ forgot' = IF failure \in {"read", "answer"} THEN forgot \cup {key} ELSE forgot
        /\ IF \/ Skip(type, key, failure # "read") \/ failure = "put"
              \/ type \in WriteTypes /\ ~deployed.writer
           THEN Dropped(key)
           ELSE IF failure = "answer" THEN Unanswered(type, key) ELSE Dispatch(type, key)
  BY Zenon DEF Execute
<1>3. /\ pc = "acting" /\ todo' = todo \ {f}
      /\ UNCHANGED <<deployed, world, marked, last, log, posts, slack, day, changes, clears>>
  BY DEF Execute
<1> HIDE DEF type, key
<1>4. faults' \in 0 .. MaxFaults
  BY <1>2, AgentAssumption DEF AgentInv, TypeOK, AgentAssumption
<1>5. IsFiniteSet(todo') /\ todo' \subseteq todo
  BY <1>3, FS_Subset DEF AgentInv, TypeOK
<1>6. forgot' \subseteq Keys /\ forgot \subseteq forgot'
  BY <1>1, <1>2 DEF AgentInv, TypeOK
<1>7. deployed.enabled /\ marking = None
  BY <1>3 DEF AgentInv, OnObservation
<1>8. \/ UNCHANGED <<pc, marking, memory, halted, blocked, written, twice>>
      \/ /\ memory' = memory \cup {key} /\ UNCHANGED <<halted, blocked, written, twice, marking, pc>>
      \/ /\ {halted', blocked'} \subseteq BOOLEAN
         /\ halted' # halted => halted' = TRUE /\ type = "ACTIVATE_KILL_SWITCH"
         /\ written' = written \cup {key}
         /\ twice' = IF key \in written THEN twice \cup {key} ELSE twice
         /\ marking' = key /\ pc' = "marking" /\ UNCHANGED memory
         /\ ~Skip(type, key, failure # "read") /\ type \in WriteTypes
      \/ /\ {halted', blocked'} \subseteq BOOLEAN
         /\ halted' # halted => halted' = TRUE /\ type = "ACTIVATE_KILL_SWITCH"
         /\ written' = written \cup {key}
         /\ twice' = IF key \in written THEN twice \cup {key} ELSE twice
         /\ UNCHANGED <<marking, pc, memory>> /\ key \in forgot'
         /\ ~Skip(type, key, failure # "read")
  <2>1. CASE Dropped(key)
    BY <2>1 DEF Dropped
  <2>2. CASE Dispatch(type, key) /\ ~Skip(type, key, failure # "read")
    <3>1. CASE type = "BLOCK_NEW_ENTRIES"
      BY <2>2, <3>1 DEF Dispatch, BlockNewEntries, Put, AgentInv, TypeOK, WriteTypes
    <3>2. CASE type = "ACTIVATE_KILL_SWITCH"
      BY <2>2, <3>2 DEF Dispatch, ActivateKillSwitch, Put, AgentInv, TypeOK, WriteTypes
    <3>3. CASE type = "SEND_ALERT"
      BY <2>2, <3>3 DEF Dispatch, SendAlert
    <3> QED
      BY <1>1, <3>1, <3>2, <3>3
  <2>3. CASE /\ Unanswered(type, key) /\ failure = "answer"
             /\ ~Skip(type, key, failure # "read")
    <3>1. halted \in BOOLEAN /\ blocked \in BOOLEAN
      BY DEF AgentInv, TypeOK
    <3>2. halted' \in BOOLEAN /\ blocked' \in BOOLEAN
      BY <2>3, Zenon DEF Unanswered
    <3>3. halted' # halted => halted' = TRUE /\ type = "ACTIVATE_KILL_SWITCH"
      BY <2>3, <3>1 DEF Unanswered
    <3>4. /\ written' = written \cup {key}
          /\ twice' = IF key \in written THEN twice \cup {key} ELSE twice
          /\ UNCHANGED <<marking, pc, memory>> /\ key \in forgot'
      BY <1>2, <2>3 DEF Unanswered
    <3> QED
      BY <2>3, <3>2, <3>3, <3>4
  <2> QED
    BY <1>2, <2>1, <2>2, <2>3
<1>9. Posted'
  BY <1>3, <1>8 DEF AgentInv, Posted, Reflects, slack
<1>10. ASSUME UNCHANGED <<pc, marking, memory, halted, blocked, written, twice>> PROVE AgentInv' /\ HaltsOnlyOnOutage
  <2>1. TypeOK'
    BY <1>3, <1>4, <1>5, <1>6, <1>10 DEF AgentInv, TypeOK, slack
  <2>2. OnObservation' /\ Remembered'
    BY <1>3, <1>5, <1>6, <1>10 DEF AgentInv, OnObservation, Remembered
  <2> QED
    BY <1>9, <1>10, <2>1, <2>2 DEF AgentInv, HaltsOnlyOnOutage
<1>11. ASSUME memory' = memory \cup {key}, UNCHANGED <<halted, blocked, written, twice, marking, pc>>
       PROVE  AgentInv' /\ HaltsOnlyOnOutage
  <2>1. TypeOK'
    BY <1>1, <1>3, <1>4, <1>5, <1>6, <1>11 DEF AgentInv, TypeOK, slack
  <2>2. OnObservation' /\ Remembered'
    BY <1>3, <1>5, <1>6, <1>11 DEF AgentInv, OnObservation, Remembered
  <2> QED
    BY <1>9, <1>11, <2>1, <2>2 DEF AgentInv, HaltsOnlyOnOutage
<1>12. ASSUME {halted', blocked'} \subseteq BOOLEAN,
              halted' # halted => halted' = TRUE /\ type = "ACTIVATE_KILL_SWITCH",
              written' = written \cup {key},
              twice' = IF key \in written THEN twice \cup {key} ELSE twice,
              marking' = key, pc' = "marking", UNCHANGED memory,
              ~Skip(type, key, failure # "read"), type \in WriteTypes
       PROVE  AgentInv' /\ HaltsOnlyOnOutage
  <2>1. Allowed(type) /\ ~FoundDurably(type, key, failure # "read") /\ key \notin memory
    BY <1>12 DEF Skip
  <2>2. key \in written => key \in forgot'
    <3>1. key \in written => key \in forgot \/ (deployed.durable /\ key \in marked)
      BY <1>1, <1>7, <2>1 DEF AgentInv, Remembered
    <3>2. deployed.durable /\ key \in marked => failure = "read"
      BY <1>12, <2>1 DEF FoundDurably
    <3> QED
      BY <1>2, <1>6, <3>1, <3>2
  <2>3. Remembered'
    <3>1. written \subseteq memory \cup forgot \cup (IF deployed.durable THEN marked ELSE {})
      BY <1>7, NoneIsNoKey DEF AgentInv, Remembered, TypeOK
    <3>2. twice' \subseteq forgot'
      BY <1>6, <1>12, <2>2 DEF AgentInv, Remembered
    <3> QED
      BY <1>3, <1>6, <1>12, <3>1, <3>2 DEF Remembered
  <2>4. OnObservation'
    BY <1>1, <1>3, <1>5, <1>12 DEF AgentInv, OnObservation
  <2>5. TypeOK'
    BY <1>1, <1>3, <1>4, <1>5, <1>6, <1>12 DEF AgentInv, TypeOK, slack
  <2>6. HaltsOnlyOnOutage
    BY <1>1, <1>7, <1>12, <2>1, KillAllowed DEF HaltsOnlyOnOutage
  <2> QED
    BY <1>9, <2>3, <2>4, <2>5, <2>6 DEF AgentInv
<1>13. ASSUME {halted', blocked'} \subseteq BOOLEAN,
              halted' # halted => halted' = TRUE /\ type = "ACTIVATE_KILL_SWITCH",
              written' = written \cup {key},
              twice' = IF key \in written THEN twice \cup {key} ELSE twice,
              UNCHANGED <<marking, pc, memory>>, key \in forgot',
              ~Skip(type, key, failure # "read")
       PROVE  AgentInv' /\ HaltsOnlyOnOutage
  <2>1. Remembered'
    BY <1>3, <1>6, <1>13 DEF AgentInv, Remembered
  <2>2. OnObservation'
    BY <1>3, <1>5, <1>13 DEF AgentInv, OnObservation
  <2>3. TypeOK'
    BY <1>1, <1>3, <1>4, <1>5, <1>6, <1>13 DEF AgentInv, TypeOK, slack
  <2>4. HaltsOnlyOnOutage
    BY <1>1, <1>7, <1>13, KillAllowed DEF HaltsOnlyOnOutage, Skip
  <2> QED
    BY <1>9, <2>1, <2>2, <2>3, <2>4 DEF AgentInv
<1> QED
  BY <1>8, <1>10, <1>11, <1>12, <1>13


\* The steps of a cycle before and between the executed findings.
LEMMA WorkStep ==
  ASSUME AgentInv, Collect \/ Mark \/ ActingDone
  PROVE  AgentInv' /\ (halted' => halted)
<1>1. Observed(world)
  BY DEF AgentInv, TypeOK, Observed
<1>2. CASE Collect
  <2>1. IsFiniteSet(todo')
    BY <1>1, <1>2, FindingsFinite, FS_EmptySet DEF Collect
  <2>2. TypeOK'
    BY <1>2, <2>1 DEF Collect, AgentInv, TypeOK, history, slack, budget
  <2>3. OnObservation'
    BY <1>2 DEF Collect, AgentInv, OnObservation
  <2>4. Remembered' /\ Posted'
    BY <1>2 DEF Collect, AgentInv, Remembered, Posted, Reflects, history, slack
  <2> QED
    BY <1>2, <2>2, <2>3, <2>4 DEF AgentInv, Collect
<1>3. CASE Mark
  <2>1. PICK ok \in BOOLEAN :
          /\ ~ok => deployed.durable /\ faults < MaxFaults
          /\ marked' = IF deployed.durable /\ ok THEN marked \cup {marking} ELSE marked
          /\ faults' = IF ok THEN faults ELSE faults + 1
    BY <1>3 DEF Mark
  <2>2. marking \in Keys
    BY <1>3 DEF Mark, AgentInv, TypeOK, OnObservation
  <2>3. faults' \in 0 .. MaxFaults
    BY <2>1, AgentAssumption DEF AgentInv, TypeOK, AgentAssumption
  <2>4. TypeOK'
    BY <1>3, <2>1, <2>2, <2>3 DEF Mark, AgentInv, TypeOK, history, slack
  <2>5. OnObservation'
    BY <1>3 DEF Mark, AgentInv, OnObservation
  <2>6. Remembered'
    BY <1>3, <2>1 DEF Mark, AgentInv, Remembered, history
  <2>7. Posted'
    BY <1>3 DEF Mark, AgentInv, Posted, Reflects, slack
  <2> QED
    BY <1>3, <2>4, <2>5, <2>6, <2>7 DEF AgentInv, Mark
<1>4. CASE ActingDone
  <2>1. TypeOK'
    BY <1>4 DEF ActingDone, AgentInv, TypeOK, history, slack, budget
  <2>2. OnObservation'
    BY <1>4 DEF ActingDone, AgentInv, OnObservation
  <2>3. Remembered' /\ Posted'
    BY <1>4 DEF ActingDone, AgentInv, Remembered, Posted, Reflects, history, slack
  <2> QED
    BY <1>4, <2>1, <2>2, <2>3 DEF AgentInv, ActingDone
<1> QED
  BY <1>2, <1>3, <1>4

\* What is recorded is posted, or needs no post, or counts as missed.
LEMMA RecordStep ==
  ASSUME AgentInv, Record
  PROVE  AgentInv' /\ (halted' => halted)
<1> DEFINE st == StatusOf(world)
           moved == {c \in Components : last[c] # st[c]}
<1>1. /\ pc = "recording" /\ last' = st
      /\ posts' = {c \in moved : Alertworthy(last[c], st[c])}
      /\ pc' = IF posts' = {} THEN "idle" ELSE "posting"
      /\ missed' = missed \cup {c \in moved : /\ last[c] = "unknown" /\ st[c] = "ok"
                                             /\ told[c] \in {"degraded", "down"}}
      /\ UNCHANGED <<deployed, world, todo, marking, memory, marked, halted, blocked,
                     history, told, day, changes, clears>>
  BY DEF Record
<1>2. PICK bad \in {{}, moved} :
        /\ bad # {} => faults < MaxFaults
        /\ log' = [c \in Components |-> IF c \in moved \ bad THEN st[c] ELSE log[c]]
        /\ faults' = IF bad = {} THEN faults ELSE faults + 1
  BY DEF Record
<1>3. st \in [Components -> Statuses]
  BY StatusIs
<1> HIDE DEF st
<1>4. faults' \in 0 .. MaxFaults
  BY <1>2, AgentAssumption DEF AgentInv, TypeOK, AgentAssumption
<1>5. log' \in [Components -> Statuses \cup {None}]
  BY <1>2, <1>3 DEF AgentInv, TypeOK
<1>6. TypeOK'
  BY <1>1, <1>3, <1>4, <1>5 DEF AgentInv, TypeOK, history
<1>7. OnObservation' /\ Remembered'
  BY <1>1 DEF AgentInv, OnObservation, Remembered, history
<1>8. ASSUME NEW c \in Components \ (missed' \cup posts') PROVE Reflects(c)'
  <2>1. Reflects(c) /\ posts = {}
    BY <1>1 DEF AgentInv, Posted
  <2>2. CASE c \notin moved
    BY <1>1, <2>1, <2>2 DEF Reflects
  <2>3. CASE c \in moved
    <3>1. ~Alertworthy(last[c], st[c])
      BY <1>1, <2>3
    <3>2. st[c] \in {"ok", "unknown"} /\ (st[c] = "ok" => last[c] \notin {"degraded", "down"})
      BY <1>3, <3>1 DEF Alertworthy, Alerting, MinRank, Rank, Statuses
    <3>3. last[c] \in {"unknown", "ok", None} \/ st[c] # "ok"
      BY <3>2 DEF AgentInv, TypeOK, Statuses
    <3>4. last[c] = "unknown" /\ st[c] = "ok" => told[c] \notin {"degraded", "down"}
      BY <1>1, <2>3
    <3>5. told[c] \in Statuses \cup {None} /\ told[c] # "unknown"
      BY DEF AgentInv, TypeOK, Posted
    <3>6. st[c] = "ok" => told[c] \in {"ok", None}
      BY <2>1, <3>3, <3>4, <3>5 DEF Reflects, Statuses
    <3>7. st[c] # None
      BY <1>3, AgentAssumption DEF AgentAssumption
    <3> QED
      BY <1>1, <3>2, <3>6, <3>7 DEF Reflects
  <2> QED
    BY <2>2, <2>3
<1>9. \A c \in posts' : last'[c] # "unknown"
  BY <1>1 DEF Alertworthy, Alerting, MinRank, Rank
<1>10. Posted'
  BY <1>1, <1>8, <1>9 DEF AgentInv, Posted
<1> QED
  BY <1>1, <1>6, <1>7, <1>10 DEF AgentInv

\* A post tells Slack what was recorded; one that fails is missed.
LEMMA PostStep ==
  ASSUME AgentInv, Post
  PROVE  AgentInv' /\ (halted' => halted)
<1>1. /\ pc = "posting" /\ pc' = "idle" /\ posts' = {}
      /\ UNCHANGED <<deployed, world, todo, marking, memory, marked, halted, blocked,
                     history, last, log, day, changes, clears>>
  BY DEF Post
<1>2. PICK ok \in BOOLEAN :
        /\ ~ok => faults < MaxFaults
        /\ told' = [c \in Components |-> IF ok /\ c \in posts THEN last[c] ELSE told[c]]
        /\ missed' = IF ok THEN missed \ posts ELSE missed \cup posts
        /\ faults' = IF ok THEN faults ELSE faults + 1
  BY DEF Post
<1>3. faults' \in 0 .. MaxFaults
  BY <1>2, AgentAssumption DEF AgentInv, TypeOK, AgentAssumption
<1>4. told' \in [Components -> Statuses \cup {None}]
  BY <1>2 DEF AgentInv, TypeOK
<1>5. missed' \subseteq Components
  BY <1>2 DEF AgentInv, TypeOK
<1>6. TypeOK'
  BY <1>1, <1>3, <1>4, <1>5 DEF AgentInv, TypeOK, history
<1>7. OnObservation' /\ Remembered'
  BY <1>1 DEF AgentInv, OnObservation, Remembered, history
<1>8. ASSUME NEW c \in Components PROVE (c \notin missed' => Reflects(c)') /\ told'[c] # "unknown"
  <2>1. told'[c] = IF ok /\ c \in posts THEN last[c] ELSE told[c]
    BY <1>2
  <2>2. CASE ok /\ c \in posts
    BY <1>1, <2>1, <2>2 DEF AgentInv, Posted, Reflects
  <2>3. CASE ~ok \/ c \notin posts
    BY <1>1, <1>2, <2>1, <2>3 DEF AgentInv, Posted, Reflects
  <2> QED
    BY <2>2, <2>3
<1>9. Posted'
  BY <1>1, <1>8 DEF Posted
<1> QED
  BY <1>1, <1>6, <1>7, <1>9 DEF AgentInv

\* The platform, the operator and the clock move only between two cycles.
LEMMA SurroundingsStep ==
  ASSUME AgentInv, WorldChanges \/ OperatorClears \/ NextDay
  PROVE  AgentInv' /\ (halted' => halted)
<1> USE AgentAssumption DEF AgentAssumption
<1>1. CASE WorldChanges
  <2>1. PICK c \in Components : \E r \in Moves[c] : world' = [world EXCEPT ![c] = r]
    BY <1>1 DEF WorldChanges
  <2>2. DOMAIN world' = Components /\ \A x \in Components : world'[x] \in Raw[x]
    BY <2>1 DEF AgentInv, TypeOK, OnObservation
  <2>3. changes' \in 0 .. MaxChanges
    BY <1>1 DEF WorldChanges, AgentInv, TypeOK
  <2>4. TypeOK'
    BY <1>1, <2>2, <2>3 DEF WorldChanges, AgentInv, TypeOK, history, slack
  <2>5. OnObservation' /\ Remembered' /\ Posted'
    BY <1>1, <2>2 DEF WorldChanges, AgentInv, OnObservation, Remembered, Posted,
       Reflects, history, slack
  <2> QED
    BY <1>1, <2>4, <2>5 DEF AgentInv, WorldChanges
<1>2. CASE OperatorClears
  <2>1. clears' \in 0 .. MaxClears
    BY <1>2 DEF OperatorClears, AgentInv, TypeOK
  <2>2. TypeOK'
    BY <1>2, <2>1 DEF OperatorClears, AgentInv, TypeOK, history, slack
  <2>3. OnObservation' /\ Remembered' /\ Posted'
    BY <1>2 DEF OperatorClears, AgentInv, OnObservation, Remembered, Posted, Reflects,
       history, slack
  <2> QED
    BY <1>2, <2>2, <2>3 DEF AgentInv, OperatorClears
<1>3. CASE NextDay
  <2>1. day' \in 0 .. MaxDays
    BY <1>3 DEF NextDay, AgentInv, TypeOK
  <2>2. TypeOK'
    BY <1>3, <2>1 DEF NextDay, AgentInv, TypeOK, history, slack, budget
  <2>3. OnObservation' /\ Remembered' /\ Posted'
    BY <1>3 DEF NextDay, AgentInv, OnObservation, Remembered, Posted, Reflects, history,
       slack
  <2> QED
    BY <1>3, <2>2, <2>3 DEF AgentInv, NextDay
<1> QED
  BY <1>1, <1>2, <1>3

\* A crash forgets what the process remembered and misses what it was about to post.
LEMMA CrashStep ==
  ASSUME AgentInv, Crash
  PROVE  AgentInv' /\ (halted' => halted)
<1>1. faults' \in 0 .. MaxFaults
  BY AgentAssumption DEF Crash, AgentInv, TypeOK, AgentAssumption
<1>2. forgot' \subseteq Keys /\ missed' \subseteq Components /\ IsFiniteSet(todo')
  BY FS_EmptySet DEF Crash, AgentInv, TypeOK
<1>3. TypeOK'
  <2>1. last' \in [Components -> Statuses \cup {None}]
    BY DEF Crash, AgentInv, TypeOK
  <2> QED
    BY <1>1, <1>2, <2>1 DEF Crash, AgentInv, TypeOK
<1>4. OnObservation'
  BY DEF Crash, AgentInv, OnObservation
<1>5. Remembered'
  <2>1. written \subseteq memory \cup ({marking} \ {None}) \cup forgot \cup (IF deployed.durable THEN marked ELSE {})
    BY NoneIsNoKey DEF AgentInv, Remembered, TypeOK
  <2> QED
    BY <2>1 DEF Crash, AgentInv, Remembered
<1>6. ASSUME NEW c \in Components \ (missed' \cup posts') PROVE Reflects(c)'
  <2>1. c \notin missed /\ c \notin posts /\ last'[c] = last[c]
    BY DEF Crash, AgentInv, TypeOK
  <2> QED
    BY <2>1 DEF Crash, AgentInv, Posted, Reflects
<1>7. Posted'
  BY <1>6 DEF Crash, AgentInv, Posted
<1> QED
  BY <1>3, <1>4, <1>5, <1>7 DEF AgentInv, Crash

\* Every step keeps the invariant, and a halt has its reason.
LEMMA AgentStep == AgentInv /\ [Next]_vars => AgentInv' /\ [HaltsOnlyOnOutage /\ RepeatsOnlyWhatItForgot']_vars
<1> SUFFICES ASSUME AgentInv, [Next]_vars
             PROVE  AgentInv' /\ [HaltsOnlyOnOutage /\ RepeatsOnlyWhatItForgot']_vars
  OBVIOUS
<1>1. AgentInv' => RepeatsOnlyWhatItForgot'
  BY DEF AgentInv, Remembered, RepeatsOnlyWhatItForgot
<1>2. (halted' => halted) => HaltsOnlyOnOutage
  BY DEF HaltsOnlyOnOutage
<1>3. CASE UNCHANGED vars
  BY <1>3 DEF vars, history, slack, budget, AgentInv, TypeOK, OnObservation, Remembered,
     Posted, Reflects
<1>4. CASE ExecuteNext
  BY <1>1, <1>4, ExecuteStep DEF ExecuteNext
<1>5. CASE Collect \/ Mark \/ ActingDone
  BY <1>1, <1>2, <1>5, WorkStep
<1>6. CASE Record
  BY <1>1, <1>2, <1>6, RecordStep
<1>7. CASE Post
  BY <1>1, <1>2, <1>7, PostStep
<1>8. CASE WorldChanges \/ OperatorClears \/ NextDay
  BY <1>1, <1>2, <1>8, SurroundingsStep
<1>9. CASE Crash
  BY <1>1, <1>2, <1>9, CrashStep
<1> QED
  BY <1>3, <1>4, <1>5, <1>6, <1>7, <1>8, <1>9 DEF Next, Agent

-----------------------------------------------------------------------------
\* The state has its types, a serious finding shows in a status of its component but for lag
\* and restart loops, and between two cycles Slack knows every status whose transition was not
\* lost (run_once with its collectors, IncidentLog, SlackNotifier).
THEOREM ReportsTrue == Spec => []ReportsAreTrue
<1>1. AgentInv => ReportsAreTrue
  <2> SUFFICES ASSUME AgentInv PROVE ReportsAreTrue
    OBVIOUS
  <2>1. Observed(world)
    BY DEF AgentInv, TypeOK, Observed
  <2>2. SeriousIsVisible
    BY <2>1, SeriousFindings DEF SeriousIsVisible
  <2>3. SlackReflects
    BY DEF AgentInv, Posted, Reflects, SlackReflects
  <2> QED
    BY <2>2, <2>3 DEF AgentInv, ReportsAreTrue
<1> QED
  BY <1>1, AgentInit, AgentStep, PTL DEF Spec

\* The agent halts trading only on an observed outage of what is critical, where it may, and
\* repeats a write only if it forgot it (SafeActionExecutor.execute, the classifier, the policy
\* and the idempotency stores).
THEOREM WritesJustified == Spec => WritesAreJustified
<1> QED
  BY AgentInit, AgentStep, PTL DEF Spec, WritesAreJustified

=============================================================================
