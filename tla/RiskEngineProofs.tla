-------------------------- MODULE RiskEngineProofs --------------------------
(***************************************************************************)
(* Proofs about the three state machines of the risk engine.  RiskGate: how *)
(* long a cache can hide an entry block, and that the limit of the symbol   *)
(* holds outside the named windows.  LossAccounting: that the book of the   *)
(* day balances, and that a loss at the limit trips the switch.             *)
(* KillSwitch: that a trip stays in the row until an operator clears it.    *)
(* All for any values of the constants.                                     *)
(***************************************************************************)
EXTENDS RiskGate, LossAccounting, KillSwitch, Sums, SequenceTheorems

Steps == {"idle", "block", "blockread", "recon", "context", "position", "market"}
Validations ==
  [pc : Steps, sig : Signals \cup {"none"}, start : Int, got : BOOLEAN, read : Int, conf : SUBSET Int,
   pend : Nat, todo : SUBSET InFlight, data : {"none", "approve", "trip", "reject"}, fits : BOOLEAN]

ClockTypes ==
  /\ now \in 0 .. MaxTime /\ blockSince \in 0 .. MaxTime /\ blockSince <= now /\ blockRow \in BOOLEAN
  /\ eb \in [blocked : BOOLEAN, ok : BOOLEAN, at : Int] /\ eb.at <= now
  /\ rc.at \in Int /\ rc.at <= now

BookTypes ==
  /\ order \in [Signals -> Statuses] /\ pos \in Int
  /\ shown \in [order : [Signals -> Statuses], pos : Int]
  /\ decided \in [Signals -> {"none", "approved", "rejected"}]
  /\ \A s \in Signals : order[s] # "none" <=> decided[s] = "approved"

ValidationTypes ==
  /\ v \in Validations
  /\ v.pc # "idle" => v.sig \in Signals /\ decided[v.sig] = "none" /\ v.start <= now
  /\ v.pc = "context" => v.conf = {}

TypeInv == ClockTypes /\ BookTypes /\ ValidationTypes

\* A cache that says "not blocked" is not much younger than the block it does not know,
\* and what a read under way is about to store is no older than a read may be.
BlockInv ==
  /\ eb.ok /\ ~eb.blocked /\ blockRow => eb.at <= blockSince + ReadTime
  /\ v.pc = "blockread" =>
       /\ v.read <= now /\ now <= v.read + ReadTime
       /\ ~v.got /\ blockRow => v.read <= blockSince
  /\ BlockTakesEffect

-----------------------------------------------------------------------------
(* Types *)

\* The validation goes on with the same signal.
LEMMA GotoFacts ==
  ASSUME ValidationTypes, NEW pc \in Steps, Goto(pc)
  PROVE  /\ v' \in Validations /\ v'.pc = pc /\ v'.sig = v.sig /\ v'.start = v.start /\ v'.conf = {}
         /\ decided' = decided
<1>1. v' = [pc |-> pc, sig |-> v.sig, start |-> v.start, got |-> FALSE, read |-> 0, conf |-> {},
            pend |-> 0, todo |-> {}, data |-> v.data, fits |-> v.fits]
  BY DEF Goto, Idle
<1>2. /\ v.sig \in Signals \cup {"none"} /\ v.start \in Int
      /\ v.data \in {"none", "approve", "trip", "reject"} /\ v.fits \in BOOLEAN
  BY DEF ValidationTypes, Validations
<1>3. v' \in Validations
  BY <1>1, <1>2 DEF Validations
<1>4. v'.pc = pc /\ v'.sig = v.sig /\ v'.start = v.start /\ v'.conf = {}
  BY <1>1
<1>5. decided' = decided
  BY DEF Goto
<1> QED
  BY <1>3, <1>4, <1>5

\* Nothing is validated at first.
LEMMA IdleFacts == Idle \in Validations /\ Idle.pc = "idle" /\ Idle.conf = {}
  BY DEF Idle, Validations, Steps

\* The verdict and its history have their types.
LEMMA VerdictTypes ==
  ASSUME NEW s, NEW d
  PROVE  Verdict(s, d) \in {"none", "approve", "trip", "reject"} /\ Fits(s, d) \in BOOLEAN
<1>1. Verdict(s, d) \in {"none", "approve", "trip", "reject"}
  BY DEF Verdict
<1>2. Fits(s, d) \in BOOLEAN
  BY Zenon DEF Fits
<1> QED
  BY <1>1, <1>2

\* The read of the block is noted.
LEMMA UpdatedRead ==
  ASSUME v \in Validations, NEW g \in BOOLEAN, NEW t \in Int,
         v' = [v EXCEPT !.pc = "blockread", !.got = g, !.read = t]
  PROVE  /\ v' \in Validations /\ v'.pc = "blockread" /\ v'.sig = v.sig /\ v'.start = v.start
         /\ v'.got = g /\ v'.read = t
  BY DEF Validations, Steps

\* The validators' data is noted.
LEMMA UpdatedContext ==
  ASSUME v \in Validations, NEW x \in {"none", "approve", "trip", "reject"}, NEW y \in BOOLEAN,
         v' = [v EXCEPT !.pc = "position", !.data = x, !.fits = y, !.todo = InFlight, !.start = 0]
  PROVE  /\ v' \in Validations /\ v'.pc = "position" /\ v'.sig = v.sig /\ v'.start = 0
         /\ v'.conf = v.conf /\ v'.todo = InFlight /\ v'.pend = v.pend
<1>1. v' = [pc |-> "position", sig |-> v.sig, start |-> 0, got |-> v.got, read |-> v.read,
            conf |-> v.conf, pend |-> v.pend, todo |-> InFlight, data |-> x, fits |-> y]
  BY DEF Validations
<1>2. /\ v.sig \in Signals \cup {"none"} /\ v.got \in BOOLEAN /\ v.read \in Int /\ v.conf \in SUBSET Int
      /\ v.pend \in Nat
  BY DEF Validations
<1> HIDE DEF InFlight
<1>3. v' \in Validations
  BY <1>1, <1>2 DEF Validations, Steps
<1> QED
  BY <1>1, <1>3

\* The types hold at first.
LEMMA InitTypes == Init => TypeInv
<1> SUFFICES ASSUME Init PROVE TypeInv
  OBVIOUS
<1>1. ClockTypes
  <2>1. eb \in [blocked : BOOLEAN, ok : BOOLEAN, at : Int] /\ eb.at = -BlockTTL /\ rc.at = -ReconTTL
    BY GateAssumption DEF Init
  <2>2. now = 0 /\ blockSince = 0 /\ blockRow \in BOOLEAN
    BY DEF Init
  <2> QED
    BY <2>1, <2>2, GateAssumption DEF ClockTypes
<1>3. BookTypes
  BY DEF Init, BookTypes, Statuses, InFlight, Unasked
<1>2. ValidationTypes
  BY IdleFacts DEF Init, ValidationTypes
<1> QED
  BY <1>1, <1>2, <1>3 DEF TypeInv

\* The validation goes on or ends with a rejection: what it is about keeps its type.
LEMMA GoOrRejectTypes ==
  ASSUME TypeInv, v.pc # "idle", NEW pc \in Steps, Goto(pc) \/ Reject, UNCHANGED <<now, book>>
  PROVE  BookTypes' /\ ValidationTypes'
<1>1. v.sig \in Signals /\ v.start <= now /\ decided[v.sig] = "none"
  BY DEF TypeInv, ValidationTypes
<1>2. order' = order /\ pos' = pos /\ shown' = shown /\ now' = now
  BY DEF book
<1>3. CASE Goto(pc)
  <2>1. /\ v' \in Validations /\ v'.pc = pc /\ v'.sig = v.sig /\ v'.start = v.start /\ v'.conf = {}
        /\ decided' = decided
    BY <1>3, GotoFacts DEF TypeInv
  <2> QED
    BY <1>1, <1>2, <2>1 DEF TypeInv, BookTypes, ValidationTypes
<1>4. CASE Reject
  <2>1. decided' = [decided EXCEPT ![v.sig] = "rejected"] /\ v' = Idle
    BY <1>4 DEF Reject
  <2>2. BookTypes'
    BY <1>1, <1>2, <2>1 DEF TypeInv, BookTypes
  <2>3. ValidationTypes'
    <3>1. v' \in Validations /\ v'.pc = "idle" /\ v'.conf = {}
      BY <2>1, IdleFacts
    <3> QED
      BY <3>1 DEF ValidationTypes
  <2> QED
    BY <2>2, <2>3
<1> QED
  BY <1>3, <1>4

\* Nothing of the clock and the caches changes.
LEMMA ClockKept == ASSUME ClockTypes, UNCHANGED <<now, tables, eb, rc>> PROVE ClockTypes'
  BY DEF ClockTypes, tables

\* The execution engine moves an order of an approved signal on.
LEMMA OrderMoves ==
  ASSUME TypeInv, NEW s \in Signals, NEW st \in Statuses \ {"none"}, order[s] # "none",
         order' = [order EXCEPT ![s] = st], pos' \in Int,
         UNCHANGED <<now, tables, eb, rc, shown, v, decided>>
  PROVE  TypeInv'
<1>1. BookTypes'
  BY DEF TypeInv, BookTypes
<1>2. ValidationTypes'
  BY DEF TypeInv, ValidationTypes
<1> QED
  BY <1>1, <1>2, ClockKept DEF TypeInv

\* Every step keeps the types.
LEMMA NextTypes == TypeInv /\ [Next]_vars => TypeInv'
<1> SUFFICES ASSUME TypeInv, [Next]_vars PROVE TypeInv'
  OBVIOUS
<1> USE GateAssumption DEF TypeInv
<1>1. CASE UNCHANGED vars
  BY <1>1 DEF vars, tables, book, ClockTypes, BookTypes, ValidationTypes
<1>2. CASE Tick
  <2>1. now < MaxTime /\ now' = now + 1 /\ UNCHANGED <<tables, eb, rc, book, v, decided>>
    BY <1>2 DEF Tick
  <2>2. ClockTypes'
    BY <2>1 DEF ClockTypes, tables
  <2>3. BookTypes' /\ ValidationTypes'
    BY <2>1 DEF BookTypes, ValidationTypes, Validations, ClockTypes, book
  <2> QED
    BY <2>2, <2>3
<1>3. CASE SetBlock \/ SetRecon
  <2>1. UNCHANGED <<now, eb, rc, book, v, decided>>
    BY <1>3 DEF SetBlock, SetRecon
  <2>2. blockRow' \in BOOLEAN
    BY <1>3 DEF SetBlock, SetRecon, ClockTypes
  <2>3. blockSince' \in {blockSince, now}
    BY <1>3, Zenon DEF SetBlock, SetRecon
  <2>4. ClockTypes' /\ BookTypes' /\ ValidationTypes'
    BY <2>1, <2>2, <2>3 DEF ClockTypes, BookTypes, ValidationTypes, book
  <2> QED
    BY <2>4
<1>4. ASSUME NEW s \in Signals, Submit(s) \/ Place(s) \/ MarkAckUnknown(s) \/ Fill(s) \/ Book(s) \/ Cancel(s) PROVE TypeInv'
  <2>1. UNCHANGED <<now, tables, eb, rc, shown, v, decided>>
    BY <1>4 DEF Submit, Place, MarkAckUnknown, Fill, Book, Cancel
  <2>2. order[s] # "none" /\ pos' \in Int
    BY <1>4 DEF Submit, Place, MarkAckUnknown, Fill, Book, Cancel, BookTypes
  <2>3. PICK st \in Statuses \ {"none"} : order' = [order EXCEPT ![s] = st]
    BY <1>4 DEF Submit, Place, MarkAckUnknown, Fill, Book, Cancel, Statuses, InFlight, Unasked
  <2> QED
    BY <2>1, <2>2, <2>3, OrderMoves
<1>5. ASSUME NEW s \in Signals, Begin(s) PROVE TypeInv'
  <2>1. v.pc = "idle" /\ decided[s] = "none" /\ UNCHANGED <<now, tables, eb, rc, book>>
    BY <1>5 DEF Begin
  <2>2. \/ v' = [Idle EXCEPT !.pc = "block", !.sig = s, !.start = now] /\ decided' = decided
        \/ decided' = [decided EXCEPT ![s] = "rejected"] /\ v' = v
    BY <1>5 DEF Begin
  <2>3. BookTypes'
    BY <2>1, <2>2 DEF BookTypes, book
  <2>4. ValidationTypes'
    <3>1. CASE v' = [Idle EXCEPT !.pc = "block", !.sig = s, !.start = now] /\ decided' = decided
      <4>1. v' = [pc |-> "block", sig |-> s, start |-> now, got |-> FALSE, read |-> 0, conf |-> {},
                  pend |-> 0, todo |-> {}, data |-> "none", fits |-> FALSE]
        BY <3>1 DEF Idle
      <4>2. v' \in Validations /\ v'.pc = "block" /\ v'.sig = s /\ v'.start = now
        BY <4>1 DEF Validations, Steps, ClockTypes
      <4> QED
        BY <2>1, <3>1, <4>2 DEF ValidationTypes, ClockTypes
    <3>2. CASE v' = v
      BY <2>1, <3>2 DEF ValidationTypes
    <3> QED
      BY <2>2, <3>1, <3>2
  <2> QED
    BY <2>1, <2>3, <2>4, ClockKept
<1>6. CASE BlockCached
  <2>1. v.pc = "block" /\ (Goto("recon") \/ Reject) /\ UNCHANGED <<now, tables, eb, rc, book>>
    BY <1>6 DEF BlockCached
  <2> QED
    BY <2>1, ClockKept, GoOrRejectTypes DEF Steps
<1>7. CASE BlockRead
  <2>1. PICK g \in BOOLEAN, t \in Int : v' = [v EXCEPT !.pc = "blockread", !.got = g, !.read = t]
    <3>1. blockRow \in BOOLEAN /\ now \in Int /\ blockSince \in Int
      BY DEF ClockTypes
    <3>2. \/ v' = [v EXCEPT !.pc = "blockread", !.got = blockRow, !.read = now]
          \/ v' = [v EXCEPT !.pc = "blockread", !.got = FALSE, !.read = blockSince]
      BY <1>7 DEF BlockRead
    <3> QED
      BY <3>1, <3>2
  <2>2. v.pc = "block" /\ UNCHANGED <<now, tables, eb, rc, book, decided>>
    BY <1>7 DEF BlockRead
  <2>3. v' \in Validations /\ v'.pc = "blockread" /\ v'.sig = v.sig /\ v'.start = v.start
    BY <2>1, UpdatedRead DEF ValidationTypes
  <2>4. BookTypes' /\ ValidationTypes'
    BY <2>2, <2>3 DEF BookTypes, ValidationTypes, book
  <2> QED
    BY <2>2, <2>4, ClockKept
<1>8. CASE BlockStore
  <2>1. v.pc = "blockread" /\ (Goto("recon") \/ Reject) /\ UNCHANGED <<now, tables, rc, book>>
    BY <1>8 DEF BlockStore
  <2>2. eb' \in [blocked : BOOLEAN, ok : BOOLEAN, at : Int] /\ eb'.at <= now
    <3>1. v.got \in BOOLEAN /\ now \in Int
      BY DEF ValidationTypes, Validations, ClockTypes
    <3>2. CASE eb' = [blocked |-> v.got, ok |-> TRUE, at |-> now]
      BY <3>1, <3>2
    <3>3. CASE eb' = [eb EXCEPT !.ok = FALSE]
      BY <3>3 DEF ClockTypes
    <3> QED
      BY <1>8, <3>2, <3>3 DEF BlockStore
  <2>3. ClockTypes'
    BY <2>1, <2>2 DEF ClockTypes, tables
  <2> QED
    BY <2>1, <2>3, GoOrRejectTypes DEF Steps
<1>9. CASE ReconCached
  <2>1. v.pc = "recon" /\ (Goto("context") \/ Reject) /\ UNCHANGED <<now, tables, eb, rc, book>>
    BY <1>9 DEF ReconCached
  <2> QED
    BY <2>1, ClockKept, GoOrRejectTypes DEF Steps
<1>10. CASE ReconRefresh
  <2>1. v.pc = "recon" /\ (Goto("context") \/ Reject) /\ UNCHANGED <<now, tables, eb, book>>
    BY <1>10 DEF ReconRefresh
  <2>2. rc'.at = now
    BY <1>10 DEF ReconRefresh
  <2>3. ClockTypes'
    BY <2>1, <2>2 DEF ClockTypes, tables
  <2> QED
    BY <2>1, <2>3, GoOrRejectTypes DEF Steps
<1>11. CASE BuildContext
  <2>1. v.pc = "context" /\ UNCHANGED <<now, tables, eb, rc, book>>
    BY <1>11 DEF BuildContext
  <2>2. CASE Reject
    BY <2>1, <2>2, ClockKept, GoOrRejectTypes DEF Steps
  <2>3. ASSUME NEW d \in Market, decided' = decided,
               v' = [v EXCEPT !.pc = "position", !.data = Verdict(v.sig, d), !.fits = Fits(v.sig, d),
                              !.todo = InFlight, !.start = 0]
        PROVE  TypeInv'
    <3> DEFINE x == Verdict(v.sig, d)
               y == Fits(v.sig, d)
    <3>1. x \in {"none", "approve", "trip", "reject"} /\ y \in BOOLEAN
      BY VerdictTypes
    <3>2. v' = [v EXCEPT !.pc = "position", !.data = x, !.fits = y, !.todo = InFlight, !.start = 0]
      BY <2>3
    <3> HIDE DEF x, y
    <3>3. v' \in Validations /\ v'.pc = "position" /\ v'.sig = v.sig /\ v'.start = 0
      BY <3>1, <3>2, UpdatedContext DEF ValidationTypes
    <3>4. BookTypes' /\ ValidationTypes'
      BY <2>1, <2>3, <3>3 DEF BookTypes, ValidationTypes, ClockTypes, book
    <3> QED
      BY <2>1, <3>4, ClockKept
  <2> QED
    BY <1>11, <2>2, <2>3 DEF BuildContext
<1>12. CASE ReadConfirmed
  <2>1. /\ v.pc = "position" /\ v' = [v EXCEPT !.conf = {shown.pos}]
        /\ UNCHANGED <<now, tables, eb, rc, book, decided>>
    BY <1>12 DEF ReadConfirmed, Reading
  <2>2. v' \in Validations /\ v'.pc = "position" /\ v'.sig = v.sig /\ v'.start = v.start
    BY <2>1 DEF Validations, ValidationTypes, BookTypes
  <2>3. BookTypes' /\ ValidationTypes'
    BY <2>1, <2>2 DEF BookTypes, ValidationTypes, book
  <2> QED
    BY <2>1, <2>3, ClockKept
<1>13. CASE QueryStatus
  <2> DEFINE found == {s \in Signals : shown.order[s] = NextStatus}
             more == SumOver(Qty, found)
             left == v.todo \ {NextStatus}
  <2>1. /\ v.pc = "position" /\ v' = [v EXCEPT !.todo = left, !.pend = v.pend + more]
        /\ UNCHANGED <<now, tables, eb, rc, book, decided>>
    BY <1>13 DEF QueryStatus, Reading, SumOver
  <2>2. more \in Nat
    <3>1. found \subseteq Signals
      OBVIOUS
    <3> HIDE DEF found
    <3> QED
      BY <3>1, SumPart
  <2>3. left \in SUBSET InFlight /\ v.pend + more \in Nat
    BY <2>2 DEF ValidationTypes, Validations
  <2> HIDE DEF left, more
  <2>4. v' \in Validations /\ v'.pc = "position" /\ v'.sig = v.sig /\ v'.start = v.start
    BY <2>1, <2>3 DEF Validations, ValidationTypes
  <2>5. BookTypes' /\ ValidationTypes'
    BY <2>1, <2>4 DEF BookTypes, ValidationTypes, book
  <2> QED
    BY <2>1, <2>5, ClockKept
<1>14. CASE ReadFails \/ CheckPosition
  <2>1. v.pc = "position" /\ (Goto("market") \/ Reject) /\ UNCHANGED <<now, tables, eb, rc, book>>
    BY <1>14 DEF ReadFails, CheckPosition, Reading
  <2> QED
    BY <2>1, ClockKept, GoOrRejectTypes DEF Steps
<1>15. CASE Decide
  <2>1. v.pc = "market" /\ v' = Idle /\ UNCHANGED <<now, tables, eb, rc, pos, shown>> /\ v.sig \in Signals
        /\ order[v.sig] = "none"
    BY <1>15 DEF Decide, ValidationTypes, BookTypes
  <2>2. \/ decided' = [decided EXCEPT ![v.sig] = "approved"] /\ order' = [order EXCEPT ![v.sig] = "approved"]
        \/ decided' = [decided EXCEPT ![v.sig] = "rejected"] /\ order' = order
    BY <1>15 DEF Decide
  <2>3. BookTypes'
    BY <2>1, <2>2 DEF BookTypes, Statuses, Unasked
  <2>4. ValidationTypes'
    <3>1. v' \in Validations /\ v'.pc = "idle" /\ v'.conf = {}
      BY <2>1, IdleFacts
    <3> QED
      BY <3>1 DEF ValidationTypes
  <2> QED
    BY <2>1, <2>3, <2>4, ClockKept
<1>16. CASE Replicate
  <2>1. UNCHANGED <<now, tables, eb, rc, order, pos, v, decided>>
    BY <1>16 DEF Replicate
  <2>2. shown' \in [order : [Signals -> Statuses], pos : Int]
    BY <1>16 DEF Replicate, BookTypes
  <2>3. BookTypes' /\ ValidationTypes'
    BY <2>1, <2>2 DEF BookTypes, ValidationTypes
  <2> QED
    BY <2>1, <2>3, ClockKept
<1> QED
  BY <1>1, <1>2, <1>3, <1>4, <1>5, <1>6, <1>7, <1>8, <1>9, <1>10, <1>11, <1>12, <1>13,
     <1>14, <1>15, <1>16
     DEF Next, Validation

-----------------------------------------------------------------------------
(* The entry block *)

\* No block is set at first.
LEMMA InitBlock == Init => BlockInv
  BY GateAssumption DEF Init, BlockInv, BlockTakesEffect, Idle

\* Every step keeps what the caches may hide.
LEMMA NextBlock == TypeInv /\ TypeInv' /\ BlockInv /\ [Next]_vars => BlockInv'
<1> SUFFICES ASSUME TypeInv, TypeInv', BlockInv, [Next]_vars PROVE BlockInv'
  OBVIOUS
<1>0. /\ BlockTTL \in Nat /\ BlockTTL > 0 /\ ReadTime \in Nat
      /\ now \in Int /\ blockSince \in Int /\ eb.at \in Int /\ eb.at <= now /\ v.start \in Int /\ v.read \in Int
      /\ (v.pc # "idle" => v.start <= now)
  BY GateAssumption DEF TypeInv, ClockTypes, ValidationTypes, Validations
<1>1. ASSUME UNCHANGED <<now, tables, eb>>, v'.pc \notin {"recon", "blockread"} \/ v' = v
      PROVE  BlockInv'
  BY <1>1 DEF BlockInv, BlockTakesEffect, BlockExempt, tables
<1>2. ASSUME UNCHANGED <<now, tables, v>>, UNCHANGED eb PROVE BlockInv'
  BY <1>1, <1>2
<1>3. CASE UNCHANGED vars \/ Replicate
  BY <1>2, <1>3 DEF vars, Replicate
<1>4. CASE Tick
  <2>1. now' = now + 1 /\ (v.pc = "blockread" => now - v.read < ReadTime) /\ UNCHANGED <<tables, eb, v>>
    BY <1>4 DEF Tick
  <2> QED
    BY <1>0, <2>1 DEF BlockInv, BlockTakesEffect, BlockExempt, tables
<1>5. CASE SetBlock
  <2>1. UNCHANGED <<now, live, eb, v>>
    BY <1>5 DEF SetBlock
  <2>2. blockRow' => blockSince' = now
    <3>1. blockRow' = ~blockRow /\ blockSince' = IF blockRow THEN blockSince ELSE now
      BY <1>5 DEF SetBlock
    <3> QED
      BY <3>1, Zenon
  <2>3. v.pc = "blockread" => v.read <= now /\ now <= v.read + ReadTime
    BY DEF BlockInv
  <2>4. blockRow' => eb'.at <= blockSince' + ReadTime
    BY <1>0, <2>1, <2>2
  <2>5. v'.pc = "blockread" =>
          /\ v'.read <= now' /\ now' <= v'.read + ReadTime
          /\ blockRow' => v'.read <= blockSince'
    BY <1>0, <2>1, <2>2, <2>3
  <2>6. v'.pc = "recon" /\ blockRow' => v'.start < blockSince' + BlockTTL + ReadTime
    BY <1>0, <2>1, <2>2
  <2> QED
    BY <2>4, <2>5, <2>6 DEF BlockInv, BlockTakesEffect
<1>6. CASE SetRecon
  <2>1. UNCHANGED <<now, live, blockRow, blockSince, eb, v>>
    BY <1>6 DEF SetRecon
  <2> QED
    BY <2>1 DEF BlockInv, BlockTakesEffect, BlockExempt
<1>7. ASSUME NEW s \in Signals, Submit(s) \/ Place(s) \/ MarkAckUnknown(s) \/ Fill(s) \/ Book(s) \/ Cancel(s) PROVE BlockInv'
  BY <1>2, <1>7 DEF Submit, Place, MarkAckUnknown, Fill, Book, Cancel
<1>8. ASSUME NEW s \in Signals, Begin(s) PROVE BlockInv'
  <2>1. UNCHANGED <<now, tables, eb>> /\ (v'.pc = "block" \/ v' = v)
    BY <1>8 DEF Begin, Idle
  <2> QED
    BY <1>1, <2>1
<1>9. CASE BlockCached
  <2>1. v.pc = "block" /\ UNCHANGED <<now, tables, eb>> /\ (BlockExempt(v.sig) \/ BlockFresh)
    BY <1>9 DEF BlockCached
  <2>2. CASE Reject
    BY <1>1, <2>1, <2>2, IdleFacts DEF Reject
  <2>3. CASE (BlockExempt(v.sig) \/ BlockPasses(eb)) /\ Goto("recon")
    <3>1. v'.pc = "recon" /\ v'.sig = v.sig /\ v'.start = v.start
      BY <2>3, GotoFacts DEF TypeInv, Steps
    <3>2. UNCHANGED <<live, blockRow, blockSince>>
      BY <2>1 DEF tables
    <3>3. ASSUME blockRow, ~BlockExempt(v.sig), Profile = "live"
          PROVE  v.start < blockSince + BlockTTL + ReadTime
      <4>1. eb.ok /\ ~eb.blocked
        BY <2>3, <3>3 DEF BlockPasses
      <4>2. eb.at <= blockSince + ReadTime
        BY <3>3, <4>1 DEF BlockInv
      <4>3. now - eb.at < BlockTTL
        BY <2>1, <3>3 DEF BlockFresh
      <4> QED
        BY <1>0, <2>1, <4>2, <4>3
    <3>4. BlockTakesEffect'
      BY <3>1, <3>2, <3>3 DEF BlockTakesEffect, BlockExempt
    <3> QED
      BY <2>1, <3>1, <3>2, <3>4 DEF BlockInv
  <2> QED
    BY <1>9, <2>2, <2>3 DEF BlockCached
<1>10. CASE BlockRead
  <2>1. v.pc = "block" /\ UNCHANGED <<now, tables, eb>>
    BY <1>10 DEF BlockRead
  <2>2. PICK g \in BOOLEAN, t \in Int :
          /\ v' = [v EXCEPT !.pc = "blockread", !.got = g, !.read = t]
          /\ \/ g = blockRow /\ t = now
             \/ t = blockSince /\ now - blockSince < ReadTime
    <3>1. blockRow \in BOOLEAN
      BY DEF TypeInv, ClockTypes
    <3>2. \/ v' = [v EXCEPT !.pc = "blockread", !.got = blockRow, !.read = now]
          \/ /\ v' = [v EXCEPT !.pc = "blockread", !.got = FALSE, !.read = blockSince]
             /\ now - blockSince < ReadTime
      BY <1>10 DEF BlockRead
    <3> QED
      BY <1>0, <3>1, <3>2
  <2>3. v'.pc = "blockread" /\ v'.got = g /\ v'.read = t
    BY <2>2, UpdatedRead DEF TypeInv, ValidationTypes
  <2>4. eb'.ok /\ ~eb'.blocked /\ blockRow' => eb'.at <= blockSince' + ReadTime
    BY <2>1 DEF BlockInv, tables
  <2>5. t <= now /\ now <= t + ReadTime
    BY <1>0, <2>2 DEF TypeInv, ClockTypes
  <2>6. ~g /\ blockRow => t <= blockSince
    <3>1. CASE g = blockRow
      BY <3>1, Zenon
    <3>2. CASE t = blockSince
      BY <1>0, <3>2
    <3> QED
      BY <2>2, <3>1, <3>2
  <2> QED
    BY <2>1, <2>3, <2>4, <2>5, <2>6 DEF BlockInv, BlockTakesEffect, tables
<1>11. CASE BlockStore
  <2>1. v.pc = "blockread" /\ UNCHANGED <<now, tables>>
    BY <1>11 DEF BlockStore
  <2>2. /\ v.read <= now /\ now <= v.read + ReadTime
        /\ ~v.got /\ blockRow => v.read <= blockSince
    BY <2>1 DEF BlockInv
  <2>3. \/ eb'.blocked = v.got /\ eb'.ok = TRUE /\ eb'.at = now
        \/ eb'.ok = FALSE
    <3>1. CASE eb' = [blocked |-> v.got, ok |-> TRUE, at |-> now]
      BY <3>1
    <3>2. CASE eb' = [eb EXCEPT !.ok = FALSE]
      BY <3>2 DEF TypeInv, ClockTypes
    <3> QED
      BY <1>11, <3>1, <3>2 DEF BlockStore
  <2>4. eb'.ok /\ ~eb'.blocked => ~v.got /\ eb'.at = now
    BY <2>3, Zenon
  <2>5. eb'.ok /\ ~eb'.blocked /\ blockRow' => eb'.at <= blockSince' + ReadTime
    BY <1>0, <2>1, <2>2, <2>4 DEF tables
  <2>6. CASE Reject
    <3>1. v'.pc = "idle"
      BY <2>6, IdleFacts DEF Reject
    <3> QED
      BY <2>5, <3>1 DEF BlockInv, BlockTakesEffect
  <2>7. CASE BlockPasses(eb') /\ Goto("recon")
    <3>1. v'.pc = "recon" /\ v'.sig = v.sig /\ v'.start = v.start
      BY <2>7, GotoFacts DEF TypeInv, Steps
    <3>2. ASSUME blockRow', Profile = "live"
          PROVE  v'.start < blockSince' + BlockTTL + ReadTime
      <4>1. eb'.ok /\ ~eb'.blocked
        BY <2>7, <3>2 DEF BlockPasses
      <4>2. v.read <= blockSince
        BY <2>1, <2>2, <2>4, <3>2, <4>1 DEF tables
      <4> QED
        BY <1>0, <2>1, <2>2, <3>1, <4>2 DEF tables
    <3> QED
      BY <2>5, <3>1, <3>2 DEF BlockInv, BlockTakesEffect
  <2> QED
    BY <1>11, <2>6, <2>7 DEF BlockStore
<1>12. CASE ReconCached \/ ReconRefresh
  <2>1. UNCHANGED <<now, tables, eb>> /\ (Goto("context") \/ Reject)
    BY <1>12 DEF ReconCached, ReconRefresh
  <2>2. v'.pc \in {"context", "idle"}
    BY <2>1, GotoFacts, IdleFacts DEF TypeInv, Steps, Reject
  <2> QED
    BY <1>1, <2>1, <2>2
<1>13. CASE BuildContext \/ ReadConfirmed \/ QueryStatus
  <2>1. UNCHANGED <<now, tables, eb>> /\ v \in Validations
    BY <1>13 DEF BuildContext, ReadConfirmed, QueryStatus, TypeInv, ValidationTypes
  <2>2. v'.pc \in {"position", "idle"}
    <3>1. CASE BuildContext
      BY <2>1, <3>1, IdleFacts DEF BuildContext, Reject, Validations
    <3>2. CASE ReadConfirmed \/ QueryStatus
      BY <2>1, <3>2 DEF ReadConfirmed, QueryStatus, Reading, Validations
    <3> QED
      BY <1>13, <3>1, <3>2
  <2> QED
    BY <1>1, <2>1, <2>2
<1>14. CASE ReadFails \/ CheckPosition \/ Decide
  <2>1. UNCHANGED <<now, tables, eb>> /\ (Goto("market") \/ v' = Idle)
    BY <1>14 DEF ReadFails, CheckPosition, Decide, Reject
  <2>2. v'.pc \in {"market", "idle"}
    BY <2>1, GotoFacts, IdleFacts DEF TypeInv, Steps
  <2> QED
    BY <1>1, <2>1, <2>2
<1> QED
  BY <1>3, <1>4, <1>5, <1>6, <1>7, <1>8, <1>9, <1>10, <1>11, <1>12, <1>13, <1>14 DEF
     Next, Validation

\* An entry block is felt by every live signal whose validation begins a cache lifetime and
\* one read after it was set, whatever reads fail meanwhile (EntryBlockValidator).
THEOREM BlockIsFelt == Spec => []BlockTakesEffect
<1>1. TypeInv /\ BlockInv => BlockTakesEffect
  BY DEF BlockInv
<1> QED
  BY <1>1, InitTypes, NextTypes, InitBlock, NextBlock, PTL DEF Spec

-----------------------------------------------------------------------------
(* The limit of the symbol *)

Way == InFlight \cup Unasked
OnTheWay == {s \in Buys : order[s] \in Way}

\* The orders of the statuses that were already queried, as they are now: one whose
\* placement was not acknowledged had been PENDING.
Covered == (InFlight \ v.todo) \cup (IF "PENDING" \in v.todo THEN {} ELSE {"ACK_UNKNOWN"})
Counted == {s \in Signals : order[s] \in Covered}
Stages == {InFlight, {"PLACED", "PARTIALLY_FILLED"}, {"PARTIALLY_FILLED"}, {}}

\* What the running validation read of the book is what is there, or more.
ReadingInv ==
  v.pc = "position" /\ ~window =>
    /\ v.todo \in Stages /\ v.conf \subseteq {pos}
    /\ v.conf # {} \/ v.todo # InFlight => \A s \in Signals : order[s] \notin {"approved", "FILLED"}
    /\ SumOver(Qty, Counted) <= v.pend

\* A signal that passed the check still fits, and what was approved stays within the limit.
MarketInv == v.pc = "market" /\ ~window => Committed + Qty[v.sig] <= Limits.maxPerSymbol
LimitInv == ReadingInv /\ MarketInv /\ (window \/ Committed <= Limits.maxPerSymbol)

\* Parts of the signals are finite, and their quantities add up.
LEMMA Quantities ==
  ASSUME NEW A, A \subseteq Signals
  PROVE  /\ IsFiniteSet(A) /\ SumOver(Qty, A) \in Nat
         /\ \A x \in A : Qty[x] \in Nat /\ Qty[x] \in Int
         /\ \A B : B \subseteq A => SumOver(Qty, B) \in Nat /\ SumOver(Qty, B) <= SumOver(Qty, A)
<1>1. IsFiniteSet(A) /\ \A x \in A : Qty[x] \in Nat
  BY GateAssumption, FS_Subset
<1> QED
  BY <1>1, SumPart

\* What is committed, as a sum.
LEMMA CommittedSum == Committed = pos + SumOver(Qty, OnTheWay)
  BY DEF Committed, SumOver, OnTheWay, Way

\* The same after a step.
LEMMA CommittedNext == Committed' = pos' + SumOver(Qty, OnTheWay')
<1>1. (Committed = pos + SumOver(Qty, OnTheWay))'
  BY CommittedSum, PTL
<1> QED
  BY <1>1

\* What is committed is the position and the sum of what is on its way to it.
LEMMA CommittedIs ==
  ASSUME BookTypes
  PROVE  /\ Committed = pos + SumOver(Qty, OnTheWay) /\ SumOver(Qty, OnTheWay) \in Nat
         /\ OnTheWay \subseteq Signals /\ Committed \in Int
<1>1. Committed = pos + SumOver(Qty, OnTheWay)
  BY CommittedSum
<1>2. OnTheWay \subseteq Signals
  BY GateAssumption DEF OnTheWay
<1> HIDE DEF OnTheWay
<1>3. SumOver(Qty, OnTheWay) \in Nat
  BY <1>2, Quantities
<1> QED
  BY <1>1, <1>2, <1>3 DEF BookTypes

\* An order that was on its way and changes its status commits no more than before.
LEMMA MovesCommit ==
  ASSUME BookTypes, BookTypes', NEW s \in Signals, NEW st, order[s] \in Way,
         order' = [order EXCEPT ![s] = st], pos' = pos
  PROVE  Committed' <= Committed
<1>1. OnTheWay' \subseteq OnTheWay
  BY DEF OnTheWay, BookTypes
<1>2. Committed = pos + SumOver(Qty, OnTheWay) /\ OnTheWay \subseteq Signals
  BY CommittedIs
<1>3. Committed' = pos' + SumOver(Qty, OnTheWay')
  BY CommittedNext
<1> HIDE DEF OnTheWay
<1> DEFINE A == OnTheWay
           B == OnTheWay'
<1>4. SumOver(Qty, A) \in Nat /\ SumOver(Qty, B) \in Nat /\ SumOver(Qty, B) <= SumOver(Qty, A)
  BY <1>1, <1>2, Quantities
<1> QED
  BY <1>2, <1>3, <1>4 DEF BookTypes

\* A fill that is booked moves its quantity from the one to the other.
LEMMA BookCommits ==
  ASSUME BookTypes, BookTypes', NEW s \in Signals, Book(s)
  PROVE  Committed' <= Committed
<1>1. /\ order[s] = "FILLED" /\ order' = [order EXCEPT ![s] = "booked"] /\ pos \in Int
      /\ pos' = IF s \in Buys THEN pos + Qty[s] ELSE pos - Qty[s]
  BY DEF Book, BookTypes
<1>2. Committed = pos + SumOver(Qty, OnTheWay) /\ OnTheWay \subseteq Signals
  BY CommittedIs
<1>3. Committed' = pos' + SumOver(Qty, OnTheWay')
  BY CommittedNext
<1>4. OnTheWay' = OnTheWay \ {s} /\ (s \in OnTheWay <=> s \in Buys)
  BY <1>1, GateAssumption DEF OnTheWay, BookTypes, Way, InFlight, Unasked
<1> HIDE DEF OnTheWay
<1> DEFINE A == OnTheWay
           B == OnTheWay'
<1>5. SumOver(Qty, A) \in Nat /\ SumOver(Qty, B) \in Nat /\ SumOver(Qty, B) <= SumOver(Qty, A)
      /\ IsFiniteSet(A) /\ (\A x \in A : Qty[x] \in Int) /\ Qty[s] \in Nat
  BY <1>2, <1>4, Quantities, GateAssumption
<1>6. CASE s \in Buys
  <2>1. SumOver(Qty, A) = Qty[s] + SumOver(Qty, A \ {s})
    BY <1>4, <1>5, <1>6, SumSplit
  <2>2. SumOver(Qty, A) = Qty[s] + SumOver(Qty, B)
    BY <1>4, <2>1
  <2> QED
    BY <1>1, <1>2, <1>3, <1>5, <1>6, <2>2
<1>7. CASE s \notin Buys
  BY <1>1, <1>2, <1>3, <1>5, <1>7
<1> QED
  BY <1>6, <1>7

\* An approval commits at most its quantity.
LEMMA ApprovalCommits ==
  ASSUME BookTypes, BookTypes', NEW s \in Signals, order[s] = "none",
         order' = [order EXCEPT ![s] = "approved"], pos' = pos
  PROVE  Committed' <= Committed + Qty[s]
<1>1. Committed = pos + SumOver(Qty, OnTheWay) /\ OnTheWay \subseteq Signals
  BY CommittedIs
<1>2. Committed' = pos' + SumOver(Qty, OnTheWay')
  BY CommittedNext
<1>3. OnTheWay' \subseteq OnTheWay \cup {s} /\ s \notin OnTheWay
  BY DEF OnTheWay, BookTypes, Way, InFlight, Unasked
<1> HIDE DEF OnTheWay
<1> DEFINE A == OnTheWay
           B == OnTheWay'
           C == A \cup {s}
<1>4. C \subseteq Signals /\ IsFiniteSet(A) /\ (\A x \in A : Qty[x] \in Int) /\ Qty[s] \in Nat
  BY <1>1, Quantities, GateAssumption
<1>5. SumOver(Qty, C) = SumOver(Qty, A) + Qty[s]
  BY <1>3, <1>4, SumAdd
<1>6. SumOver(Qty, A) \in Nat /\ SumOver(Qty, B) \in Nat /\ SumOver(Qty, B) <= SumOver(Qty, C)
  BY <1>1, <1>3, <1>4, Quantities
<1> QED
  BY <1>1, <1>2, <1>4, <1>5, <1>6 DEF BookTypes

\* Nothing is committed at first.
LEMMA InitLimit == Init => LimitInv
<1> SUFFICES ASSUME Init PROVE LimitInv
  OBVIOUS
<1>1. v.pc = "idle" /\ pos = 0 /\ BookTypes
  BY InitTypes, IdleFacts DEF Init, TypeInv
<1>2. OnTheWay = {}
  BY GateAssumption DEF Init, OnTheWay, Way, InFlight, Unasked
<1>3. Committed = 0
  <2>1. Committed = pos + SumOver(Qty, OnTheWay)
    BY <1>1, CommittedIs
  <2> HIDE DEF OnTheWay
  <2> QED
    BY <1>1, <1>2, <2>1, SumEmpty
<1> QED
  BY <1>1, <1>3, GateAssumption DEF LimitInv, ReadingInv, MarketInv

\* The book is as before: as much is committed.
LEMMA BookKept == ASSUME UNCHANGED <<order, pos>> PROVE Committed' = Committed
<1>1. OnTheWay' = OnTheWay
  BY DEF OnTheWay
<1> HIDE DEF OnTheWay
<1> QED
  BY <1>1, CommittedSum, CommittedNext

\* An order that moves within the statuses not queried yet, or out of those that were,
\* takes nothing away from what was counted.
LEMMA CountKept ==
  ASSUME BookTypes, NEW s \in Signals, NEW st, order' = [order EXCEPT ![s] = st], v' = v,
         st \in Covered => order[s] \in Covered
  PROVE  SumOver(Qty, Counted') <= SumOver(Qty, Counted) /\ SumOver(Qty, Counted') \in Nat
         /\ SumOver(Qty, Counted) \in Nat
<1>1. Counted' \subseteq Counted /\ Counted \subseteq Signals
  BY DEF Counted, Covered, BookTypes
<1> HIDE DEF Counted
<1> QED
  BY <1>1, Quantities

\* The statuses are queried in their order.
LEMMA StatusOrder ==
  ASSUME v.todo \in Stages, v.todo # {}
  PROVE  NextStatus \in v.todo /\ v.todo \ {NextStatus} \in Stages
<1>1. CASE v.todo = InFlight
  <2>1. NextStatus = "PENDING"
    BY <1>1 DEF NextStatus, InFlight
  <2> QED
    BY <1>1, <2>1 DEF Stages, InFlight
<1>2. CASE v.todo = {"PLACED", "PARTIALLY_FILLED"}
  <2>1. NextStatus = "PLACED"
    BY <1>2 DEF NextStatus
  <2> QED
    BY <1>2, <2>1 DEF Stages
<1>3. CASE v.todo = {"PARTIALLY_FILLED"}
  <2>1. NextStatus = "PARTIALLY_FILLED"
    BY <1>3 DEF NextStatus
  <2> QED
    BY <1>3, <2>1 DEF Stages
<1> QED
  BY <1>1, <1>2, <1>3 DEF Stages

\* A query adds the orders of its status to those that are counted.
LEMMA QueryCounts ==
  ASSUME TypeInv, v.todo \in Stages, v.todo # {}, order' = order,
         v'.todo = v.todo \ {NextStatus}, SumOver(Qty, Counted) <= v.pend,
         \A s \in Signals : order[s] # "ACK_UNKNOWN",
         v'.pend = v.pend + SumOver(Qty, {s \in Signals : order[s] = NextStatus})
  PROVE  SumOver(Qty, Counted') <= v'.pend
<1> DEFINE found == {s \in Signals : order[s] = NextStatus}
           A == Counted
           B == Counted'
<1>1. NextStatus \in v.todo /\ v.todo \subseteq InFlight /\ v.pend \in Nat
  BY StatusOrder DEF TypeInv, ValidationTypes, Validations
<1>2. B = A \cup found
  <2>1. v'.todo = v.todo \ {NextStatus}
    OBVIOUS
  <2> HIDE DEF NextStatus
  <2> QED
    BY <1>1, <2>1 DEF Counted, Covered
<1>3. A \cap found = {} /\ A \subseteq Signals /\ found \subseteq Signals
  <2> HIDE DEF NextStatus
  <2> QED
    BY <1>1 DEF Counted, Covered
<1> HIDE DEF found, A, B
<1>4. /\ IsFiniteSet(A) /\ IsFiniteSet(found) /\ (\A x \in A \cup found : Qty[x] \in Int)
      /\ SumOver(Qty, A) \in Nat /\ SumOver(Qty, found) \in Nat
  BY <1>3, Quantities
<1>5. SumOver(Qty, A \cup found) = SumOver(Qty, A) + SumOver(Qty, found)
  BY <1>3, <1>4, SumUnion
<1>6. SumOver(Qty, B) = SumOver(Qty, A) + SumOver(Qty, found)
  BY <1>2, <1>5
<1>7. v'.pend = v.pend + SumOver(Qty, found) /\ SumOver(Qty, A) <= v.pend
  BY DEF found, A
<1>8. SumOver(Qty, B) <= v'.pend
  BY <1>1, <1>4, <1>6, <1>7
<1> QED
  BY <1>8 DEF B

\* What the whole of the reads found is at least what is on its way.
LEMMA ReadsCover ==
  ASSUME TypeInv, ReadingInv, v.pc = "position", ~window, v.todo = {}
  PROVE  Committed <= pos + v.pend /\ Committed \in Int /\ v.pend \in Nat /\ v.conf \subseteq {pos}
<1>1. /\ v.todo # InFlight /\ v.conf \subseteq {pos} /\ SumOver(Qty, Counted) <= v.pend /\ v.pend \in Nat
      /\ \A s \in Signals : order[s] \notin {"approved", "FILLED"}
  BY DEF ReadingInv, InFlight, TypeInv, ValidationTypes, Validations
<1>2. OnTheWay \subseteq Counted /\ Counted \subseteq Signals
  BY <1>1, GateAssumption DEF OnTheWay, Counted, Covered, Way, Unasked
<1>3. Committed = pos + SumOver(Qty, OnTheWay) /\ Committed \in Int /\ pos \in Int
  BY CommittedIs DEF TypeInv, BookTypes
<1> HIDE DEF OnTheWay, Counted
<1>4. /\ SumOver(Qty, OnTheWay) <= SumOver(Qty, Counted) /\ SumOver(Qty, OnTheWay) \in Nat
      /\ SumOver(Qty, Counted) \in Nat
  BY <1>2, Quantities
<1> QED
  BY <1>1, <1>3, <1>4

\* Nothing is read and no signal is about to be decided: only what is committed counts.
LEMMA LimitKept ==
  ASSUME LimitInv, TypeInv, TypeInv', Committed' <= Committed, window' = window,
         v'.pc \notin {"position", "market"}
  PROVE  LimitInv'
<1>1. Committed \in Int /\ Committed' \in Int /\ Limits.maxPerSymbol \in Nat
  <2>1. Committed \in Int
    BY CommittedIs DEF TypeInv
  <2>2. (BookTypes => Committed \in Int)'
    BY CommittedIs, PTL
  <2> QED
    BY <2>1, <2>2, GateAssumption DEF TypeInv
<1>2. window' \/ Committed' <= Limits.maxPerSymbol
  <2>1. CASE window
    BY <2>1, Zenon
  <2>2. CASE Committed <= Limits.maxPerSymbol
    BY <1>1, <2>2
  <2> QED
    BY <2>1, <2>2 DEF LimitInv
<1> QED
  BY <1>2 DEF LimitInv, ReadingInv, MarketInv

\* An order moves while the validation stands still: submitted, placed, filled or cancelled.
LEMMA OrderKeepsLimit ==
  ASSUME LimitInv, TypeInv, TypeInv', NEW s \in Signals,
         Submit(s) \/ Place(s) \/ MarkAckUnknown(s) \/ Fill(s) \/ Book(s) \/ Cancel(s)
  PROVE  LimitInv'
<1>1. v' = v /\ v \in Validations /\ (v.pc # "idle" => v.sig \in Signals)
  BY DEF Submit, Place, MarkAckUnknown, Fill, Book, Cancel, TypeInv, ValidationTypes
<1>2. Committed' <= Committed /\ Committed \in Int /\ Committed' \in Int /\ Limits.maxPerSymbol \in Nat
  <2>1. ASSUME Book(s) PROVE Committed' <= Committed
    BY <2>1, BookCommits DEF TypeInv
  <2>2. ASSUME Submit(s) \/ Place(s) \/ MarkAckUnknown(s) \/ Fill(s) \/ Cancel(s)
        PROVE  Committed' <= Committed
    <3>1. order[s] \in Way /\ pos' = pos
      BY <2>2 DEF Submit, Place, MarkAckUnknown, Fill, Cancel, Way, InFlight, Unasked
    <3>2. PICK st : order' = [order EXCEPT ![s] = st]
      BY <2>2 DEF Submit, Place, MarkAckUnknown, Fill, Cancel
    <3> QED
      BY <3>1, <3>2, MovesCommit DEF TypeInv
  <2>3. Committed \in Int
    BY CommittedIs DEF TypeInv
  <2>4. (BookTypes => Committed \in Int)'
    BY CommittedIs, PTL
  <2> QED
    BY <2>1, <2>2, <2>3, <2>4, GateAssumption DEF TypeInv
<1>3. window => window'
  BY Zenon DEF Submit, Place, MarkAckUnknown, Fill, Book, Cancel
<1>4. window' \/ Committed' <= Limits.maxPerSymbol
  <2>1. CASE window
    BY <1>3, <2>1, Zenon
  <2>2. CASE Committed <= Limits.maxPerSymbol
    BY <1>2, <2>2
  <2> QED
    BY <2>1, <2>2 DEF LimitInv
<1>5. MarketInv'
  <2>1. SUFFICES ASSUME v.pc = "market", ~window' PROVE Committed' + Qty[v.sig] <= Limits.maxPerSymbol
    BY <1>1 DEF MarketInv
  <2>2. ~window
    BY <1>3, <2>1, Zenon
  <2>3. Committed + Qty[v.sig] <= Limits.maxPerSymbol /\ Qty[v.sig] \in Nat
    BY <1>1, <2>1, <2>2, GateAssumption DEF LimitInv, MarketInv
  <2> QED
    BY <1>2, <2>3
<1>6. ReadingInv'
  <2>1. SUFFICES ASSUME v.pc = "position", ~window'
        PROVE  /\ v.todo \in Stages /\ v.conf \subseteq {pos'}
               /\ v.conf # {} \/ v.todo # InFlight
                    => \A x \in Signals : order'[x] \notin {"approved", "FILLED"}
               /\ SumOver(Qty, Counted') <= v.pend
    BY <1>1 DEF ReadingInv
  <2>2. ~window
    BY <1>3, <2>1, Zenon
  <2>3. /\ v.todo \in Stages /\ v.conf \subseteq {pos} /\ SumOver(Qty, Counted) <= v.pend
        /\ v.conf # {} \/ v.todo # InFlight => \A x \in Signals : order[x] \notin {"approved", "FILLED"}
    BY <2>1, <2>2 DEF LimitInv, ReadingInv
  <2>4. Submit(s) \/ Place(s) \/ MarkAckUnknown(s) \/ Cancel(s)
    <3>1. ~Fill(s) /\ ~Book(s)
      BY <2>1, Zenon DEF Fill, Book, Reading
    <3> QED
      BY <3>1
  <2>5. PICK st \in {"PENDING", "PLACED", "ACK_UNKNOWN", "CANCELLED"} :
          /\ order' = [order EXCEPT ![s] = st]
          /\ st = "PENDING" => order[s] = "approved"
          /\ st = "PLACED" => order[s] \in {"PENDING", "ACK_UNKNOWN"}
          /\ st = "ACK_UNKNOWN" => order[s] = "PENDING"
    BY <2>4 DEF Submit, Place, MarkAckUnknown, Cancel
  <2>6. pos' = pos /\ order \in [Signals -> Statuses]
    BY <2>4 DEF Submit, Place, MarkAckUnknown, Cancel, TypeInv, BookTypes
  <2>7. st \in Covered => order[s] \in Covered
    <3>1. st = "PENDING" => v.todo = InFlight
      BY <2>3, <2>5
    <3>2. "PLACED" \notin v.todo => "PENDING" \notin v.todo
      BY <2>3 DEF Stages, InFlight
    <3> QED
      BY <2>5, <3>1, <3>2 DEF Covered, InFlight
  <2>8. SumOver(Qty, Counted') <= v.pend
    <3>1. SumOver(Qty, Counted') <= SumOver(Qty, Counted) /\ SumOver(Qty, Counted') \in Nat
          /\ SumOver(Qty, Counted) \in Nat
      BY <1>1, <2>5, <2>7, CountKept DEF TypeInv
    <3> QED
      BY <1>1, <2>3, <3>1 DEF Validations
  <2>9. v.conf # {} \/ v.todo # InFlight
          => \A x \in Signals : order'[x] \notin {"approved", "FILLED"}
    BY <2>3, <2>5, <2>6
  <2> QED
    BY <2>3, <2>6, <2>8, <2>9
<1> QED
  BY <1>4, <1>5, <1>6 DEF LimitInv

\* Every step keeps the limit.
LEMMA NextLimit == TypeInv /\ TypeInv' /\ LimitInv /\ [Next]_vars => LimitInv'
<1> SUFFICES ASSUME TypeInv, TypeInv', LimitInv, [Next]_vars PROVE LimitInv'
  OBVIOUS
<1>0. /\ Committed \in Int /\ Committed' \in Int /\ Limits.maxPerSymbol \in Nat /\ pos \in Int
      /\ v \in Validations /\ (v.pc # "idle" => v.sig \in Signals) /\ Qty \in [Signals -> Nat]
  <2>1. Committed \in Int
    BY CommittedIs DEF TypeInv
  <2>2. (BookTypes => Committed \in Int)'
    BY CommittedIs, PTL
  <2> QED
    BY <2>1, <2>2, GateAssumption DEF TypeInv, BookTypes, ValidationTypes
<1>1. ASSUME UNCHANGED <<order, pos, window>>, v' = v \/ v'.pc \notin {"position", "market"}
      PROVE  LimitInv'
  <2>1. Committed' = Committed
    BY <1>1, BookKept
  <2>2. CASE v' = v
    <3>1. SumOver(Qty, Counted') = SumOver(Qty, Counted)
      <4>1. Counted' = Counted
        BY <1>1, <2>2 DEF Counted, Covered
      <4> HIDE DEF Counted
      <4> QED
        BY <4>1
    <3> QED
      BY <1>1, <2>1, <2>2, <3>1 DEF LimitInv, ReadingInv, MarketInv
  <2>3. CASE v'.pc \notin {"position", "market"}
    BY <1>0, <1>1, <2>1, <2>3, LimitKept
  <2> QED
    BY <1>1, <2>2, <2>3
<1>2. CASE UNCHANGED vars \/ Tick \/ SetBlock \/ SetRecon \/ Replicate
  BY <1>1, <1>2 DEF vars, book, Tick, SetBlock, SetRecon, Replicate
<1>3. ASSUME NEW s \in Signals, Submit(s) \/ Place(s) \/ MarkAckUnknown(s) \/ Fill(s) \/ Book(s) \/ Cancel(s) PROVE LimitInv'
  BY <1>3, OrderKeepsLimit
<1>4. ASSUME NEW s \in Signals, Begin(s) PROVE LimitInv'
  <2>1. UNCHANGED <<order, pos, window>> /\ (v'.pc = "block" \/ v' = v)
    BY <1>4 DEF Begin, Idle, book
  <2> QED
    BY <1>1, <2>1
<1>5. CASE BlockCached \/ BlockRead \/ BlockStore \/ ReconCached \/ ReconRefresh
  <2>1. UNCHANGED <<order, pos, window>>
    BY <1>5 DEF BlockCached, BlockRead, BlockStore, ReconCached, ReconRefresh, book
  <2>2. Goto("recon") \/ Goto("context") \/ v' = Idle \/ BlockRead
    BY <1>5 DEF BlockCached, BlockRead, BlockStore, ReconCached, ReconRefresh, Reject
  <2>3. v'.pc \in {"recon", "context", "idle", "blockread"}
    <3>1. BlockRead => v'.pc = "blockread"
      BY <1>0 DEF BlockRead, Validations
    <3> QED
      BY <2>2, <3>1, GotoFacts, IdleFacts DEF TypeInv, Steps
  <2> QED
    BY <1>1, <2>1, <2>3
<1>6. CASE BuildContext
  <2>1. v.pc = "context" /\ v.conf = {} /\ UNCHANGED <<order, pos, window>>
    BY <1>6 DEF BuildContext, book, TypeInv, ValidationTypes
  <2>2. CASE Reject
    BY <1>1, <2>1, <2>2, IdleFacts DEF Reject
  <2>3. ASSUME NEW d \in Market,
               v' = [v EXCEPT !.pc = "position", !.data = Verdict(v.sig, d), !.fits = Fits(v.sig, d),
                              !.todo = InFlight, !.start = 0]
        PROVE  LimitInv'
    <3> DEFINE x == Verdict(v.sig, d)
               y == Fits(v.sig, d)
    <3>1. x \in {"none", "approve", "trip", "reject"} /\ y \in BOOLEAN
      BY VerdictTypes
    <3>2. v' = [v EXCEPT !.pc = "position", !.data = x, !.fits = y, !.todo = InFlight, !.start = 0]
      BY <2>3
    <3> HIDE DEF x, y
    <3>3. v'.pc = "position" /\ v'.conf = {} /\ v'.todo = InFlight /\ v'.pend = v.pend /\ v.pend \in Nat
      BY <1>0, <2>1, <3>1, <3>2, UpdatedContext DEF Validations
    <3>4. SumOver(Qty, Counted') = 0
      <4>1. Counted' = {}
        BY <3>3 DEF Counted, Covered, InFlight
      <4> HIDE DEF Counted
      <4> QED
        BY <4>1, SumEmpty
    <3>5. Committed' = Committed
      BY <2>1, BookKept
    <3> QED
      BY <2>1, <3>3, <3>4, <3>5 DEF LimitInv, ReadingInv, MarketInv, Stages
  <2> QED
    BY <1>6, <2>2, <2>3 DEF BuildContext
<1>7. CASE ReadConfirmed \/ QueryStatus
  <2>1. /\ v.pc = "position" /\ UNCHANGED <<order, pos>>
        /\ window' = (window \/ Unsettled)
    BY <1>7 DEF ReadConfirmed, QueryStatus, Reading, book
  <2>2. ~window' => /\ ~window /\ shown.order = order /\ shown.pos = pos
                    /\ \A s \in Signals : order[s] \notin {"approved", "ACK_UNKNOWN", "FILLED"}
    <3>1. ~window' => ~window /\ ~Unsettled
      BY <2>1, Zenon
    <3>2. ~Unsettled => /\ shown.order = order /\ shown.pos = pos
                        /\ \A s \in Signals : order[s] \notin {"approved", "ACK_UNKNOWN", "FILLED"}
      BY DEF Unsettled, Unasked
    <3> QED
      BY <3>1, <3>2
  <2>3. Committed' = Committed
    BY <2>1, BookKept
  <2>4. v'.pc = "position"
    BY <1>7, <2>1, <1>0 DEF ReadConfirmed, QueryStatus, Validations
  <2>5. ASSUME ~window', ReadConfirmed PROVE ReadingInv'
    <3>1. v'.conf = {pos} /\ v'.todo = v.todo /\ v'.pend = v.pend
      BY <1>0, <2>2, <2>5 DEF ReadConfirmed, Validations
    <3>2. v.todo \in Stages /\ SumOver(Qty, Counted) <= v.pend
      BY <2>1, <2>2, <2>5 DEF LimitInv, ReadingInv
    <3>3. SumOver(Qty, Counted') = SumOver(Qty, Counted)
      <4>1. Counted' = Counted
        BY <2>1, <3>1 DEF Counted, Covered
      <4> HIDE DEF Counted
      <4> QED
        BY <4>1
    <3> QED
      BY <2>1, <2>2, <2>5, <3>1, <3>2, <3>3 DEF ReadingInv
  <2>6. ASSUME ~window', QueryStatus PROVE ReadingInv'
    <3>1. v.todo \in Stages /\ SumOver(Qty, Counted) <= v.pend /\ v.conf \subseteq {pos} /\ v.todo # {}
      BY <2>1, <2>2, <2>6 DEF LimitInv, ReadingInv, QueryStatus
    <3> DEFINE more == SumOver(Qty, {s \in Signals : order[s] = NextStatus})
               left == v.todo \ {NextStatus}
    <3>2. v' = [v EXCEPT !.todo = left, !.pend = v.pend + more]
      BY <2>2, <2>6 DEF QueryStatus, SumOver
    <3> HIDE DEF more, left
    <3>3. v'.todo = left /\ v'.pend = v.pend + more /\ v'.conf = v.conf
      BY <1>0, <3>2 DEF Validations
    <3>4. SumOver(Qty, Counted') <= v'.pend
      BY <2>1, <2>2, <2>6, <3>1, <3>3, QueryCounts DEF more, left
    <3>5. v'.todo \in Stages
      BY <3>1, <3>3, StatusOrder DEF left
    <3> QED
      BY <2>1, <2>2, <2>6, <3>1, <3>3, <3>4, <3>5 DEF ReadingInv
  <2>7. ReadingInv'
    BY <1>7, <2>5, <2>6 DEF ReadingInv
  <2>8. window' \/ Committed' <= Limits.maxPerSymbol
    BY <2>2, <2>3 DEF LimitInv
  <2> QED
    BY <2>4, <2>7, <2>8 DEF LimitInv, MarketInv
<1>8. CASE ReadFails
  <2>1. window' = TRUE
    BY <1>8 DEF ReadFails
  <2>2. ReadingInv' /\ MarketInv' /\ window'
    BY <2>1, Zenon DEF ReadingInv, MarketInv
  <2> QED
    BY <2>2 DEF LimitInv
<1>9. CASE CheckPosition
  <2>1. v.pc = "position" /\ v.todo = {} /\ UNCHANGED <<order, pos, window>>
    BY <1>9 DEF CheckPosition, Reading, book
  <2>2. CASE Reject
    BY <1>1, <2>1, <2>2, IdleFacts DEF Reject
  <2>3. ASSUME NEW conf \in v.conf, PositionOK(v.sig, conf, v.pend), Goto("market") PROVE LimitInv'
    <3>1. v'.pc = "market" /\ v'.sig = v.sig
      BY <2>3, GotoFacts DEF TypeInv, Steps
    <3>2. Committed' = Committed
      BY <2>1, BookKept
    <3>3. ~window => Committed + Qty[v.sig] <= Limits.maxPerSymbol
      <4> SUFFICES ASSUME ~window PROVE Committed + Qty[v.sig] <= Limits.maxPerSymbol
        OBVIOUS
      <4>1. Committed <= pos + v.pend /\ v.pend \in Nat /\ v.conf \subseteq {pos}
        BY <2>1, ReadsCover DEF LimitInv
      <4>2. conf = pos /\ Qty[v.sig] \in Nat
        BY <1>0, <2>1, <2>3, <4>1
      <4>3. conf + v.pend + Qty[v.sig] <= Limits.maxPerSymbol
        BY <2>3 DEF PositionOK
      <4> QED
        BY <1>0, <4>1, <4>2, <4>3
    <3>4. MarketInv'
      BY <2>1, <3>1, <3>2, <3>3 DEF MarketInv
    <3> QED
      BY <2>1, <3>1, <3>2, <3>4 DEF LimitInv, ReadingInv
  <2> QED
    BY <1>9, <2>2, <2>3 DEF CheckPosition
<1>10. CASE Decide
  <2>1. v.pc = "market" /\ v' = Idle /\ pos' = pos /\ window' = window /\ v.sig \in Signals
        /\ order[v.sig] = "none"
    BY <1>10 DEF Decide, TypeInv, ValidationTypes, BookTypes
  <2>2. v'.pc = "idle"
    BY <2>1, IdleFacts
  <2>3. CASE order' = order
    BY <1>1, <2>1, <2>2, <2>3
  <2>4. CASE order' = [order EXCEPT ![v.sig] = "approved"]
    <3>1. Committed' <= Committed + Qty[v.sig] /\ Qty[v.sig] \in Nat
      BY <1>0, <2>1, <2>4, ApprovalCommits DEF TypeInv
    <3>2. ~window => Committed + Qty[v.sig] <= Limits.maxPerSymbol
      BY <2>1 DEF LimitInv, MarketInv
    <3>3. window' \/ Committed' <= Limits.maxPerSymbol
      BY <1>0, <2>1, <3>1, <3>2
    <3> QED
      BY <2>2, <3>3 DEF LimitInv, ReadingInv, MarketInv
  <2> QED
    BY <1>10, <2>3, <2>4 DEF Decide
<1> QED
  BY <1>2, <1>3, <1>4, <1>5, <1>6, <1>7, <1>8, <1>9, <1>10 DEF Next, Validation

\* The types of the run's property follow from those of the proof.
LEMMA TypesImply == TypeInv => TypeOK
  BY GateAssumption DEF TypeInv, ClockTypes, BookTypes, ValidationTypes, TypeOK, Statuses

\* The position and all that is on its way to it stay within the symbol's limit, unless a
\* validation read the book in the middle of a change (PositionValidator).
THEOREM LimitIsKept == Spec => []LimitOutsideWindows
<1>1. TypeInv /\ LimitInv => LimitOutsideWindows
  BY TypesImply DEF LimitInv, LimitOutsideWindows
<1> QED
  BY <1>1, InitTypes, NextTypes, InitLimit, NextLimit, PTL DEF Spec

-----------------------------------------------------------------------------
(* LossAccounting: the book of the day and the loss limit *)

LossSteps == {"idle", "reserve", "symbol", "day", "nav", "check", "commit", "failed"}
SymbolItems == [qty : Int, avg : Nat, realized : Int]

NavItems == [nav : Int, flow : Int]
Tellers == [pc : {"rest", "read", "write"}, delta : Int, read : Int]

\* The topic: an event tells of the fill of the first event of its origin, and only a fill
\* whose event was routed to retry has a second one, or a copy waiting.
TopicInv ==
  /\ events \in Seq(Fills) /\ Len(events) <= MaxEvents
  /\ origin \in Seq(Nat) /\ Len(origin) = Len(events)
  /\ copies \in [1 .. MaxEvents -> Nat]
  /\ \A i \in 1 .. Len(events) : origin[i] \in 1 .. i
  /\ \A i, j \in 1 .. Len(events) : origin[i] = origin[j] => i = j \/ origin[i] \in again
  /\ \A i \in 1 .. MaxEvents : copies[i] > 0 => i \in again

ConsumerInv ==
  /\ offset \in Nat /\ com \in Nat /\ com <= offset /\ offset <= Len(events)
  /\ p \in [pc : LossSteps, delta : Int, total : Int]
  /\ p.pc # "idle" => offset > 0

\* An event whose cost is still to be recorded was not applied.
ToRecord(i) == i \notin fillItem \/ (p.pc = "symbol" /\ i = offset)
RecordInv ==
  /\ fillItem \subseteq 1 .. Len(events)
  /\ applied \in [1 .. MaxEvents -> Nat]
  /\ p.pc = "symbol" => offset \in fillItem
  /\ \A i \in 1 .. MaxEvents : applied[i] <= 1 /\ (ToRecord(i) => applied[i] = 0)

AccountTypes ==
  /\ sym \in SymbolItems /\ (sym.qty = 0 <=> sym.avg = 0)
  /\ day \in Int /\ cash \in Int /\ missed \in Int
Balance == AccountTypes /\ CostBasisBalances /\ DayMatchesSymbol

\* The portfolio the limits have is a NAV of the item, or the configured one.
LimitTypes ==
  /\ navItem \subseteq NavItems /\ teller \in Tellers
  /\ nav \in {i.nav : i \in navItem} \cup {OpeningNav} /\ nav \in Nat \ {0}
  /\ cache \in Int /\ mark \in Marks \cup {0}

LossInv == TopicInv /\ ConsumerInv /\ RecordInv /\ Balance /\ LimitTypes /\ LossHalts

-----------------------------------------------------------------------------
(* The cost basis: arithmetic *)

\* A whole average: what it is worth is the sum of both parts, and it is positive.
LEMMA WholeAverage ==
  ASSUME NEW n \in Nat \ {0}, NEW d \in Nat \ {0}, n % d = 0
  PROVE  (n \div d) \in Nat \ {0} /\ d * (n \div d) = n
<1>1. n \div d \in Int /\ n = d * (n \div d) + (n % d)
  OBVIOUS
<1>2. d * (n \div d) = n
  BY <1>1
<1> DEFINE k == n \div d
<1> HIDE DEF k
<1>3. k \in Int /\ d * k = n
  BY <1>1, <1>2 DEF k
<1>4. k > 0
  <2>1. CASE k <= 0
    <3>1. d * k <= 0
      BY <1>3, <2>1
    <3> QED
      BY <1>3, <3>1
  <2> QED
    BY <1>3, <2>1
<1> QED
  BY <1>3, <1>4 DEF k

\* The balance of a fill on the side of the position.
LEMMA GrowIdentity ==
  ASSUME NEW q \in Int, NEW a \in Int, NEW n \in Int, NEW x \in Int, NEW c \in Int, NEW b \in Int
  PROVE  /\ (q + n) * b = q * a + n * x => c + q * a = c - n * x + (q + n) * b
         /\ (n - q) * b = (-q) * a + n * x => c + q * a = c + n * x + (q - n) * b
  OBVIOUS

\* Of a close that leaves the position on its side.
LEMMA CloseIdentity ==
  ASSUME NEW q \in Int, NEW a \in Int, NEW n \in Int, NEW x \in Int, NEW c \in Int
  PROVE  /\ c + q * a + (a - x) * n = c - n * x + (q + n) * a
         /\ c + q * a + (x - a) * n = c + n * x + (q - n) * a
  OBVIOUS

\* Of a close that takes the position through zero.
LEMMA ReverseIdentity ==
  ASSUME NEW q \in Int, NEW a \in Int, NEW n \in Int, NEW x \in Int, NEW c \in Int
  PROVE  /\ c + q * a + (x - a) * q = c - n * x + (q + n) * x
         /\ c + q * a + (x - a) * q = c + n * x + (q - n) * x
  OBVIOUS

Paid(f) == (IF f.buy THEN -1 ELSE 1) * f.qty * f.price

\* What a recorded fill makes of the symbol's item: its types, and the balance.
LEMMA FillFacts ==
  ASSUME AccountTypes, NEW f \in Fills, Whole(f)
  PROVE  /\ NewQty(f) \in Int /\ NewAverage(f) \in Nat /\ RealizedDelta(f) \in Int /\ Paid(f) \in Int
         /\ NewQty(f) = 0 <=> NewAverage(f) = 0
         /\ CostBasisBalances =>
              sym.realized + RealizedDelta(f) = cash + Paid(f) + NewQty(f) * NewAverage(f)
<1> DEFINE q == sym.qty
           a == sym.avg
           n == f.qty
           x == f.price
           r == sym.realized
<1>0. /\ q \in Int /\ a \in Nat /\ r \in Int /\ n \in Nat \ {0} /\ x \in Nat \ {0} /\ f.buy \in BOOLEAN
      /\ cash \in Int /\ (q = 0 <=> a = 0)
  BY LossAssumption DEF AccountTypes, SymbolItems
<1>1. CASE f.buy /\ q >= 0
  <2> DEFINE d == q + n
             N == q * a + n * x
             b == N \div d
  <2>1. NewQty(f) = q + n /\ Grows(f) /\ Abs(q) = q /\ Abs(q + n) = q + n
    BY <1>0, <1>1 DEF NewQty, Grows, Abs
  <2>2. RealizedDelta(f) = 0 /\ Paid(f) = -(n * x) /\ NewAverage(f) = b
    BY <1>0, <1>1, <2>1 DEF RealizedDelta, Paid, NewAverage, Averaged
  <2>3. N % d = 0
    BY <2>1 DEF Whole
  <2>4. d \in Nat \ {0} /\ N \in Nat \ {0}
    <3>1. q * a \in Nat
      BY <1>0, <1>1
    <3>2. n * x \in Nat \ {0}
      BY <1>0
    <3> QED
      BY <1>0, <1>1, <3>1, <3>2
  <2>5. b \in Nat \ {0} /\ d * b = N
    <3> HIDE DEF d, N
    <3> QED
      BY <2>3, <2>4, WholeAverage
  <2> HIDE DEF b
  <2>6. cash + q * a = cash - n * x + (q + n) * b
    BY <1>0, <2>5
  <2> QED
    BY <1>0, <1>1, <2>1, <2>2, <2>4, <2>5, <2>6 DEF CostBasisBalances
<1>2. CASE ~f.buy /\ q <= 0
  <2> DEFINE d == n - q
             N == (-q) * a + n * x
             b == N \div d
  <2>1. NewQty(f) = q - n /\ Grows(f) /\ Abs(q) = -q /\ Abs(q - n) = n - q
    BY <1>0, <1>2 DEF NewQty, Grows, Abs
  <2>2. RealizedDelta(f) = 0 /\ Paid(f) = n * x /\ NewAverage(f) = b
    BY <1>0, <1>2, <2>1 DEF RealizedDelta, Paid, NewAverage, Averaged
  <2>3. N % d = 0
    BY <2>1 DEF Whole
  <2>4. d \in Nat \ {0} /\ N \in Nat \ {0}
    <3>1. (-q) * a \in Nat
      BY <1>0, <1>2
    <3>2. n * x \in Nat \ {0}
      BY <1>0
    <3> QED
      BY <1>0, <1>2, <3>1, <3>2
  <2>5. b \in Nat \ {0} /\ d * b = N
    <3> HIDE DEF d, N
    <3> QED
      BY <2>3, <2>4, WholeAverage
  <2> HIDE DEF b
  <2>6. cash + q * a = cash + n * x + (q - n) * b
    BY <1>0, <2>5
  <2> QED
    BY <1>0, <1>2, <2>1, <2>2, <2>4, <2>5, <2>6 DEF CostBasisBalances
<1>3. CASE f.buy /\ q < 0
  <2>1. NewQty(f) = q + n /\ ~Grows(f) /\ Paid(f) = -(n * x)
    BY <1>0, <1>3 DEF NewQty, Grows, Paid
  <2>2. CASE q + n < 0
    <3>1. RealizedDelta(f) = (a - x) * n /\ NewAverage(f) = a
      BY <1>0, <1>3, <2>1, <2>2 DEF RealizedDelta, NewAverage, Lesser
    <3>2. cash + q * a + (a - x) * n = cash - n * x + (q + n) * a
      BY <1>0, CloseIdentity
    <3> QED
      BY <1>0, <1>3, <2>1, <2>2, <3>1, <3>2 DEF CostBasisBalances
  <2>3. CASE q + n = 0
    <3>1. RealizedDelta(f) = (a - x) * n /\ NewAverage(f) = 0
      BY <1>0, <1>3, <2>1, <2>3 DEF RealizedDelta, NewAverage, Lesser
    <3>2. cash + q * a + (a - x) * n = cash - n * x + (q + n) * a
      BY <1>0, CloseIdentity
    <3> QED
      BY <1>0, <2>1, <2>3, <3>1, <3>2 DEF CostBasisBalances
  <2>4. CASE q + n > 0
    <3>1. RealizedDelta(f) = (a - x) * (-q) /\ NewAverage(f) = x
      BY <1>0, <1>3, <2>1, <2>4 DEF RealizedDelta, NewAverage, Lesser
    <3>2. (a - x) * (-q) = (x - a) * q /\ (x - a) * q \in Int
      BY <1>0
    <3>3. cash + q * a + (x - a) * q = cash - n * x + (q + n) * x
      BY <1>0, ReverseIdentity
    <3> QED
      BY <1>0, <2>1, <2>4, <3>1, <3>2, <3>3 DEF CostBasisBalances
  <2> QED
    BY <1>0, <2>2, <2>3, <2>4
<1>4. CASE ~f.buy /\ q > 0
  <2>1. NewQty(f) = q - n /\ ~Grows(f) /\ Paid(f) = n * x
    BY <1>0, <1>4 DEF NewQty, Grows, Paid
  <2>2. CASE q - n > 0
    <3>1. RealizedDelta(f) = (x - a) * n /\ NewAverage(f) = a
      BY <1>0, <1>4, <2>1, <2>2 DEF RealizedDelta, NewAverage, Lesser
    <3>2. cash + q * a + (x - a) * n = cash + n * x + (q - n) * a
      BY <1>0, CloseIdentity
    <3> QED
      BY <1>0, <1>4, <2>1, <2>2, <3>1, <3>2 DEF CostBasisBalances
  <2>3. CASE q - n = 0
    <3>1. RealizedDelta(f) = (x - a) * n /\ NewAverage(f) = 0
      BY <1>0, <1>4, <2>1, <2>3 DEF RealizedDelta, NewAverage, Lesser
    <3>2. cash + q * a + (x - a) * n = cash + n * x + (q - n) * a
      BY <1>0, CloseIdentity
    <3>3. (x - a) * n \in Int /\ (q - n) * a = 0 /\ n * x \in Int
      BY <1>0, <2>3
    <3>4. cash + q * a + (x - a) * n = cash + n * x + 0
      BY <3>2, <3>3
    <3>5. /\ NewQty(f) = 0 /\ NewAverage(f) = 0 /\ Paid(f) \in Int /\ RealizedDelta(f) \in Int
          /\ NewQty(f) * NewAverage(f) = 0
      BY <1>0, <2>1, <2>3, <3>1, <3>3
    <3>6. CostBasisBalances => r + RealizedDelta(f) = cash + Paid(f)
      BY <1>0, <2>1, <3>1, <3>3, <3>4 DEF CostBasisBalances
    <3> QED
      BY <1>0, <3>5, <3>6
  <2>4. CASE q - n < 0
    <3>1. RealizedDelta(f) = (x - a) * q
      BY <1>0, <1>4, <2>1, <2>4 DEF RealizedDelta, Lesser
    <3>2. NewQty(f) < 0 /\ ~(q < 0) /\ NewQty(f) # 0
      BY <1>0, <1>4, <2>1, <2>4
    <3>3. NewAverage(f) = x
      <4>1. NewAverage(f) = IF (NewQty(f) < 0) = (q < 0) THEN a ELSE x
        BY <2>1, <3>2 DEF NewAverage
      <4> QED
        BY <3>2, <4>1, Zenon
    <3>4. cash + q * a + (x - a) * q = cash + n * x + (q - n) * x
      BY <1>0, ReverseIdentity
    <3> QED
      BY <1>0, <2>1, <2>4, <3>1, <3>3, <3>4 DEF CostBasisBalances
  <2> QED
    BY <1>0, <2>2, <2>3, <2>4
<1> QED
  BY <1>0, <1>1, <1>2, <1>3, <1>4

-----------------------------------------------------------------------------
(* The steps *)

\* The book is empty when the day opens.
LEMMA LossInvInit == LossInit => LossInv
<1> SUFFICES ASSUME LossInit PROVE LossInv
  OBVIOUS
<1>1. MaxEvents \in Nat /\ OpeningNav \in Nat \ {0}
  BY LossAssumption
<1>2. /\ events = <<>> /\ Len(events) = 0 /\ events \in Seq(Fills)
      /\ origin = <<>> /\ Len(origin) = 0 /\ origin \in Seq(Nat)
  BY DEF LossInit
<1>3. TopicInv
  BY <1>1, <1>2 DEF LossInit, TopicInv
<1>4. ConsumerInv /\ RecordInv
  BY <1>1, <1>2 DEF LossInit, ConsumerInv, RecordInv, ToRecord, Resting, LossSteps
<1>5. Balance
  BY <1>1 DEF LossInit, Balance, AccountTypes, CostBasisBalances, DayMatchesSymbol, Resting,
     Flat, SymbolItems
<1>6. LimitTypes
  BY <1>1 DEF LossInit, LimitTypes, NavItem, NavItems, AtRest, Tellers
<1>7. LossHalts
  BY DEF LossInit, LossHalts, Resting
<1> QED
  BY <1>3, <1>4, <1>5, <1>6, <1>7 DEF LossInv

\* An event is published: of a fill of its own, or of one that waits in the retry topic.
LEMMA PublishKeeps ==
  ASSUME TopicInv, ConsumerInv, RecordInv, NEW f \in Fills, NEW k \in 1 .. Len(events) + 1,
         Publish(f, k), k = Len(events) + 1 \/ k \in again,
         copies' \in [1 .. MaxEvents -> Nat], \A i \in 1 .. MaxEvents : copies'[i] <= copies[i],
         UNCHANGED <<again, offset, com, p, fillItem, applied>>
  PROVE  TopicInv' /\ ConsumerInv' /\ RecordInv'
<1> DEFINE n == Len(events)
<1>1. /\ n \in Nat /\ n < MaxEvents /\ MaxEvents \in Nat
      /\ events' = Append(events, f) /\ origin' = Append(origin, k)
  BY LossAssumption DEF Publish, TopicInv
<1>2. /\ k \in 1 .. n + 1 /\ (k = n + 1 \/ k \in again)
      /\ \A i \in 1 .. n : origin[i] \in 1 .. i
      /\ \A i, j \in 1 .. n : origin[i] = origin[j] => i = j \/ origin[i] \in again
  BY DEF TopicInv
<1>3. /\ events' \in Seq(Fills) /\ Len(events') = n + 1
      /\ origin' \in Seq(Nat) /\ Len(origin') = n + 1
      /\ \A i \in 1 .. n : origin'[i] = origin[i]
      /\ origin'[n + 1] = k
  BY <1>1 DEF TopicInv
<1>4. ConsumerInv' /\ RecordInv'
  <2>1. offset' <= Len(events') /\ fillItem' \subseteq 1 .. Len(events')
    <3>1. offset \in Nat /\ offset <= n /\ offset' = offset
      BY DEF ConsumerInv
    <3>2. fillItem \subseteq 1 .. n /\ fillItem' = fillItem
      BY DEF RecordInv
    <3>3. Len(events') = n + 1 /\ n \in Nat
      BY <1>1, <1>3
    <3> HIDE DEF n
    <3> QED
      BY <3>1, <3>2, <3>3
  <2>2. \A i \in 1 .. MaxEvents : applied'[i] <= 1 /\ (ToRecord(i)' => applied'[i] = 0)
    BY DEF RecordInv, ToRecord
  <2> QED
    BY <2>1, <2>2 DEF ConsumerInv, RecordInv
<1> HIDE DEF n
<1>5. \A i \in 1 .. n + 1 : origin'[i] \in 1 .. i
  BY <1>1, <1>2, <1>3
<1>6. \A i, j \in 1 .. n + 1 : origin'[i] = origin'[j] => i = j \/ origin'[i] \in again
  <2> TAKE i, j \in 1 .. n + 1
  <2>1. CASE i \in 1 .. n /\ j \in 1 .. n
    BY <1>2, <1>3, <2>1
  <2>2. CASE i = n + 1 /\ j \in 1 .. n
    <3>1. origin'[j] < n + 1
      BY <1>1, <1>2, <1>3, <2>2
    <3> QED
      BY <1>1, <1>2, <1>3, <2>2, <3>1
  <2>3. CASE i \in 1 .. n /\ j = n + 1
    <3>1. origin'[i] < n + 1
      BY <1>1, <1>2, <1>3, <2>3
    <3> QED
      BY <1>1, <1>2, <1>3, <2>3, <3>1
  <2>4. CASE i = n + 1 /\ j = n + 1
    BY <2>4
  <2>5. (i \in 1 .. n \/ i = n + 1) /\ (j \in 1 .. n \/ j = n + 1)
    BY <1>1
  <2> QED
    BY <2>1, <2>2, <2>3, <2>4, <2>5
<1>7. \A i \in 1 .. MaxEvents : copies'[i] > 0 => i \in again'
  <2> TAKE i \in 1 .. MaxEvents
  <2>1. copies'[i] \in Nat /\ copies[i] \in Nat /\ copies'[i] <= copies[i]
    BY DEF TopicInv
  <2>2. copies[i] > 0 => i \in again
    BY DEF TopicInv
  <2> QED
    BY <2>1, <2>2
<1>8. TopicInv'
  <2>1. again' = again /\ Len(events') = n + 1 /\ Len(events') <= MaxEvents
    BY <1>1, <1>3
  <2> QED
    BY <1>3, <1>5, <1>6, <1>7, <2>1 DEF TopicInv
<1> QED
  BY <1>4, <1>8

\* A loss at the limit of every NAV of the day is over the limit of the one the limits have.
LEMMA AtTheLimit ==
  ASSUME LimitTypes, day \in Int, LossAt(OpeningNav), \A i \in navItem : LossAt(i.nav)
  PROVE  OverLimit(day + mark)
<1>1. LossAt(nav)
  BY DEF LimitTypes
<1> QED
  BY <1>1 DEF LossAt, LimitTypes, OverLimit

\* A step that is no check keeps LossHalts: the total and the switch stay, and the NAV item
\* gets versions and loses none.
LEMMA HaltsKept ==
  ASSUME LossHalts, p'.pc = "commit" => p' = p /\ day' = day, stopped => stopped',
         navItem \subseteq navItem'
  PROVE  LossHalts'
  BY DEF LossHalts, LossAt

\* What a check of the limit reads.
LEMMA CacheFacts == LimitTypes /\ day \in Int /\ RefreshCache => cache' \in Int
  BY DEF LimitTypes, RefreshCache

LEMMA FailedCheck == ASSUME LimitTypes, day \in Int, CheckFails PROVE cache' \in Int /\ stopped' = stopped
  BY CacheFacts DEF CheckFails, LimitTypes

\* Every step keeps the invariant.
LEMMA LossInvStep == LossInv /\ [LossNext]_lossVars => LossInv'
<1> SUFFICES ASSUME LossInv, [LossNext]_lossVars PROVE LossInv'
  OBVIOUS
<1> USE DEF LossInv, topics, rows, engine
<1>0. MaxEvents \in Nat /\ OpeningNav \in Nat \ {0}
  BY LossAssumption
<1>1. ASSUME NEW f \in Fills, Report(f) PROVE LossInv'
  <2>1. /\ Publish(f, Len(events) + 1)
        /\ teller' = [AtRest EXCEPT !.pc = "read", !.delta = Paid(f)]
        /\ UNCHANGED <<copies, offset, com, p, rows, navItem, nav, cache, mark, stopped, cash, applied,
                       again, missed>>
    BY <1>1 DEF Report, Paid
  <2>2. TopicInv' /\ ConsumerInv' /\ RecordInv'
    <3>1. Len(events) + 1 \in 1 .. Len(events) + 1 /\ \A i \in 1 .. MaxEvents : copies'[i] <= copies[i]
      BY <2>1 DEF TopicInv
    <3>2. copies' \in [1 .. MaxEvents -> Nat]
      BY <2>1 DEF TopicInv
    <3> QED
      BY <2>1, <3>1, <3>2, PublishKeeps
  <2>3. Balance'
    BY <2>1 DEF Balance, AccountTypes, CostBasisBalances, DayMatchesSymbol
  <2>4. LimitTypes'
    <3>1. Paid(f) \in Int
      BY LossAssumption DEF Paid
    <3> QED
      <4>1. teller' = [pc |-> "read", delta |-> Paid(f), read |-> 0]
        BY <2>1 DEF AtRest
      <4>2. teller' \in Tellers
        BY <3>1, <4>1 DEF Tellers
      <4> QED
        BY <2>1, <4>2 DEF LimitTypes
  <2>5. LossHalts'
    BY <2>1, HaltsKept
  <2> QED
    BY <2>2, <2>3, <2>4, <2>5
<1>2. ASSUME NEW m \in Marks, MarkMoves(m) PROVE LossInv'
  <2>1. /\ UNCHANGED <<topics, offset, com, p, rows, engine, nav, cache, stopped, cash, applied, again, missed>>
        /\ mark' = m
    BY <1>2 DEF MarkMoves
  <2>2. TopicInv' /\ ConsumerInv' /\ RecordInv'
    BY <2>1 DEF TopicInv, ConsumerInv, RecordInv, ToRecord
  <2>3. Balance' /\ LimitTypes'
    BY <2>1 DEF Balance, AccountTypes, CostBasisBalances, DayMatchesSymbol, LimitTypes
  <2>4. LossHalts'
    BY <2>1, HaltsKept
  <2> QED
    BY <2>2, <2>3, <2>4
<1>3. ASSUME NEW i \in 1 .. MaxEvents, ReplayRetry(i) PROVE LossInv'
  <2>1. /\ i \in 1 .. Len(events) /\ copies[origin[i]] > 0 /\ Publish(events[i], origin[i])
        /\ copies' = [copies EXCEPT ![origin[i]] = @ - 1]
        /\ UNCHANGED <<offset, com, p, rows, engine, nav, cache, mark, stopped, cash, applied, again, missed>>
    BY <1>3 DEF ReplayRetry, TopicInv
  <2>2. TopicInv' /\ ConsumerInv' /\ RecordInv'
    <3>1. origin[i] \in 1 .. Len(events) + 1 /\ origin[i] \in 1 .. MaxEvents /\ events[i] \in Fills
      BY <1>0, <2>1 DEF TopicInv
    <3>2. origin[i] \in again
      BY <2>1, <3>1 DEF TopicInv
    <3>3. copies' \in [1 .. MaxEvents -> Nat] /\ \A j \in 1 .. MaxEvents : copies'[j] <= copies[j]
      <4>1. PICK k \in 1 .. MaxEvents : k = origin[i]
        BY <3>1
      <4>2. /\ copies \in [1 .. MaxEvents -> Nat] /\ copies[k] > 0
            /\ copies' = [copies EXCEPT ![k] = @ - 1]
        BY <2>1, <4>1 DEF TopicInv
      <4> QED
        BY <4>2
    <3> QED
      BY <2>1, <3>1, <3>2, <3>3, PublishKeeps
  <2>3. Balance' /\ LimitTypes'
    BY <2>1 DEF Balance, AccountTypes, CostBasisBalances, DayMatchesSymbol, LimitTypes
  <2>4. LossHalts'
    BY <2>1, HaltsKept
  <2> QED
    BY <2>2, <2>3, <2>4
<1>4. CASE ReadFlow \/ WriteNavSnapshot
  <2>1. UNCHANGED <<topics, offset, com, p, rows, nav, cache, mark, stopped, cash, applied, again, missed>>
    BY <1>4 DEF ReadFlow, WriteNavSnapshot
  <2>2. TopicInv' /\ ConsumerInv' /\ RecordInv'
    BY <2>1 DEF TopicInv, ConsumerInv, RecordInv, ToRecord
  <2>3. Balance'
    BY <2>1 DEF Balance, AccountTypes, CostBasisBalances, DayMatchesSymbol
  <2>4. navItem \subseteq navItem' /\ navItem' \subseteq NavItems /\ teller' \in Tellers
    <3>1. CASE ReadFlow
      BY <3>1 DEF ReadFlow, LimitTypes, NavItems, Tellers
    <3>2. CASE WriteNavSnapshot
      <4>1. NavItem(teller.read + teller.delta, teller.read + teller.delta) \in NavItems
        BY <1>0 DEF LimitTypes, NavItem, NavItems, Tellers
      <4>2. AtRest \in Tellers
        BY DEF AtRest, Tellers
      <4> QED
        BY <3>2, <4>1, <4>2 DEF WriteNavSnapshot, LimitTypes
    <3> QED
      BY <1>4, <3>1, <3>2
  <2>5. LimitTypes'
    BY <2>1, <2>4 DEF LimitTypes
  <2>6. LossHalts'
    BY <2>1, <2>4, HaltsKept
  <2> QED
    BY <2>2, <2>3, <2>5, <2>6
<1>5. CASE Poll
  <2>1. /\ p.pc = "idle" /\ offset' = offset + 1 /\ offset < Len(events)
        /\ p' = [pc |-> "reserve", delta |-> 0, total |-> 0]
        /\ UNCHANGED <<topics, com, rows, engine, nav, cache, stopped, mark, cash, applied, again, missed>>
    BY <1>5 DEF Poll, Resting
  <2>2. TopicInv' /\ ConsumerInv' /\ RecordInv'
    BY <2>1 DEF TopicInv, ConsumerInv, RecordInv, ToRecord, LossSteps
  <2>3. Balance' /\ LimitTypes'
    BY <2>1 DEF Balance, AccountTypes, CostBasisBalances, DayMatchesSymbol, LimitTypes
  <2>4. LossHalts'
    BY <2>1, HaltsKept
  <2> QED
    BY <2>2, <2>3, <2>4
<1>6. CASE Reserve
  <2>1. /\ p.pc = "reserve"
        /\ UNCHANGED <<topics, offset, com, sym, day, engine, nav, cache, stopped, mark, cash, applied,
                       again, missed>>
        /\ \/ offset \in fillItem /\ p' = [p EXCEPT !.pc = "check"] /\ fillItem' = fillItem
           \/ offset \notin fillItem /\ p' = [p EXCEPT !.pc = "symbol"] /\ fillItem' = fillItem \cup {offset}
    BY <1>6 DEF Reserve
  <2>2. offset \in 1 .. Len(events)
    BY <2>1 DEF ConsumerInv
  <2>3. /\ p'.pc \in {"check", "symbol"} /\ p'.delta = p.delta
        /\ p' \in [pc : LossSteps, delta : Int, total : Int]
    BY <2>1 DEF ConsumerInv, LossSteps
  <2>4. TopicInv' /\ ConsumerInv'
    BY <2>1, <2>2, <2>3 DEF TopicInv, ConsumerInv
  <2>5. RecordInv'
    BY <2>1, <2>2 DEF RecordInv, ToRecord, ConsumerInv
  <2>6. Balance' /\ LimitTypes'
    BY <2>1, <2>3 DEF Balance, AccountTypes, CostBasisBalances, DayMatchesSymbol, LimitTypes
  <2>7. LossHalts'
    BY <2>1, <2>3, HaltsKept
  <2> QED
    BY <2>4, <2>5, <2>6, <2>7
<1>7. CASE UpdateSymbol
  <2>1. /\ p.pc = "symbol" /\ Whole(Event)
        /\ sym' = [qty |-> NewQty(Event), avg |-> NewAverage(Event),
                   realized |-> sym.realized + RealizedDelta(Event)]
        /\ cash' = cash + Paid(Event)
        /\ applied' = [applied EXCEPT ![offset] = @ + 1]
        /\ p' = [p EXCEPT !.pc = "day", !.delta = RealizedDelta(Event)]
        /\ UNCHANGED <<topics, offset, com, fillItem, day, engine, nav, cache, stopped, mark, again, missed>>
    BY <1>7 DEF UpdateSymbol, Paid
  <2>2. offset \in 1 .. Len(events) /\ offset \in 1 .. MaxEvents /\ Event \in Fills
    BY <1>0, <2>1 DEF ConsumerInv, TopicInv, Event
  <2>3. /\ NewQty(Event) \in Int /\ NewAverage(Event) \in Nat /\ RealizedDelta(Event) \in Int
        /\ Paid(Event) \in Int /\ (NewQty(Event) = 0 <=> NewAverage(Event) = 0)
        /\ sym.realized + RealizedDelta(Event) = cash + Paid(Event) + NewQty(Event) * NewAverage(Event)
    BY <2>1, <2>2, FillFacts DEF Balance
  <2>4. /\ p' \in [pc : LossSteps, delta : Int, total : Int] /\ p'.pc = "day"
        /\ p'.delta = RealizedDelta(Event)
    BY <2>1, <2>3 DEF ConsumerInv, LossSteps
  <2>5. TopicInv' /\ ConsumerInv'
    BY <2>1, <2>2, <2>4 DEF TopicInv, ConsumerInv
  <2>6. RecordInv'
    BY <2>1, <2>2, <2>4 DEF RecordInv, ToRecord
  <2>7. CostBasisBalances' /\ AccountTypes'
    BY <2>1, <2>3 DEF CostBasisBalances, Balance, AccountTypes, SymbolItems
  <2>8. DayMatchesSymbol'
    BY <2>1, <2>3, <2>4 DEF DayMatchesSymbol, Balance, AccountTypes, SymbolItems
  <2>9. LimitTypes'
    BY <2>1 DEF LimitTypes
  <2>10. LossHalts'
    BY <2>1, <2>4, HaltsKept
  <2> QED
    BY <2>5, <2>6, <2>7, <2>8, <2>9, <2>10 DEF Balance
<1>8. CASE AddToDay
  <2>1. /\ p.pc = "day" /\ day' = day + p.delta /\ p' = [p EXCEPT !.pc = "nav"]
        /\ UNCHANGED <<topics, offset, com, fillItem, sym, engine, nav, cache, stopped, mark, cash, applied,
                       again, missed>>
    BY <1>8 DEF AddToDay
  <2>2. p' \in [pc : LossSteps, delta : Int, total : Int] /\ p'.pc = "nav" /\ p.delta \in Int
    BY <2>1 DEF ConsumerInv, LossSteps
  <2>3. TopicInv' /\ ConsumerInv' /\ RecordInv'
    BY <2>1, <2>2 DEF TopicInv, ConsumerInv, RecordInv, ToRecord
  <2>4. Balance'
    BY <2>1, <2>2 DEF Balance, AccountTypes, SymbolItems, CostBasisBalances, DayMatchesSymbol
  <2>5. LimitTypes'
    BY <2>1 DEF LimitTypes
  <2>6. LossHalts'
    BY <2>1, <2>2, HaltsKept
  <2> QED
    BY <2>3, <2>4, <2>5, <2>6
<1>9. CASE PutNav
  <2>1. /\ p.pc = "nav" /\ navItem' = navItem \cup {NavItem(day, 0)} /\ cache' = day
        /\ p' = [p EXCEPT !.pc = "check"]
        /\ nav' = (IF OpeningNav + day > 0 THEN OpeningNav + day ELSE nav)
        /\ UNCHANGED <<topics, offset, com, rows, teller, stopped, mark, cash, applied, again, missed>>
    BY <1>9 DEF PutNav
  <2>2. p' \in [pc : LossSteps, delta : Int, total : Int] /\ p'.pc = "check"
    BY <2>1 DEF ConsumerInv, LossSteps
  <2>3. TopicInv' /\ ConsumerInv' /\ RecordInv'
    BY <2>1, <2>2 DEF TopicInv, ConsumerInv, RecordInv, ToRecord
  <2>4. Balance'
    BY <2>1, <2>2 DEF Balance, AccountTypes, CostBasisBalances, DayMatchesSymbol
  <2>5. LimitTypes'
    <3>1. NavItem(day, 0) \in NavItems /\ NavItem(day, 0).nav = OpeningNav + day /\ day \in Int
      BY <1>0 DEF NavItem, NavItems, Balance, AccountTypes
    <3>2. nav' \in {i.nav : i \in navItem'} \cup {OpeningNav}
      BY <2>1, <3>1 DEF LimitTypes
    <3>3. nav' \in Nat \ {0}
      BY <1>0, <2>1, <3>1 DEF LimitTypes
    <3> QED
      BY <2>1, <3>1, <3>2, <3>3 DEF LimitTypes
  <2>6. LossHalts'
    BY <2>1, <2>2, HaltsKept
  <2> QED
    BY <2>3, <2>4, <2>5, <2>6
<1>10. CASE RecordFails
  <2>1. /\ p.pc \in {"reserve", "symbol", "day", "nav"} /\ p' = [p EXCEPT !.pc = "failed"]
        /\ missed' = missed + (IF p.pc = "day" THEN p.delta ELSE 0)
        /\ UNCHANGED <<topics, offset, com, rows, engine, nav, cache, stopped, mark, cash, applied, again>>
    BY <1>10 DEF RecordFails
  <2>2. p' \in [pc : LossSteps, delta : Int, total : Int] /\ p'.pc = "failed" /\ p.delta \in Int
    BY <2>1 DEF ConsumerInv, LossSteps
  <2>3. TopicInv' /\ ConsumerInv' /\ RecordInv'
    BY <2>1, <2>2 DEF TopicInv, ConsumerInv, RecordInv, ToRecord
  <2>4. Balance'
    BY <2>1, <2>2 DEF Balance, AccountTypes, SymbolItems, CostBasisBalances, DayMatchesSymbol
  <2>5. LimitTypes'
    BY <2>1 DEF LimitTypes
  <2>6. LossHalts'
    BY <2>1, <2>2, HaltsKept
  <2> QED
    BY <2>3, <2>4, <2>5, <2>6
<1>11. CASE CheckLoss
  <2>1. /\ p.pc = "check"
        /\ UNCHANGED <<topics, offset, com, rows, engine, nav, mark, cash, applied, again, missed>>
        /\ \/ RefreshCache /\ stopped' = (stopped \/ OverLimit(cache' + mark))
              /\ p' = [p EXCEPT !.pc = "commit", !.total = cache']
           \/ CheckFails /\ p' = [p EXCEPT !.pc = "failed"]
    BY <1>11 DEF CheckLoss
  <2>2. cache' \in Int
    <3>1. LimitTypes /\ day \in Int
      BY DEF Balance, AccountTypes
    <3> QED
      BY <2>1, <3>1, CacheFacts, FailedCheck
  <2>3. p' \in [pc : LossSteps, delta : Int, total : Int] /\ p'.pc \in {"commit", "failed"}
    BY <2>1, <2>2 DEF ConsumerInv, LossSteps
  <2>4. TopicInv' /\ ConsumerInv' /\ RecordInv'
    BY <2>1, <2>3 DEF TopicInv, ConsumerInv, RecordInv, ToRecord
  <2>5. Balance'
    BY <2>1, <2>3 DEF Balance, AccountTypes, CostBasisBalances, DayMatchesSymbol
  <2>6. LimitTypes'
    BY <2>1, <2>2 DEF LimitTypes
  <2>7. LossHalts'
    <3>1. CASE p'.pc = "failed"
      BY <3>1 DEF LossHalts
    <3>2. CASE p'.pc = "commit"
      <4>1. p'.total = cache' /\ stopped' = (stopped \/ OverLimit(cache' + mark))
        BY <2>1, <3>2 DEF ConsumerInv
      <4> SUFFICES ASSUME cache' = day', LossAt(OpeningNav)', \A i \in navItem' : LossAt(i.nav)'
                   PROVE  stopped'
        BY <4>1 DEF LossHalts
      <4>2. LossAt(OpeningNav) /\ \A i \in navItem : LossAt(i.nav)
        BY <2>1 DEF LossAt
      <4>3. OverLimit(cache' + mark)
        BY <2>1, <4>2, AtTheLimit DEF Balance, AccountTypes
      <4> QED
        BY <4>1, <4>3, Zenon
    <3> QED
      BY <2>3, <3>1, <3>2
  <2> QED
    BY <2>4, <2>5, <2>6, <2>7
<1>12. CASE Validate
  <2>1. /\ UNCHANGED <<topics, offset, com, p, rows, engine, nav, mark, cash, applied, again, missed>>
        /\ \/ RefreshCache /\ stopped' = (stopped \/ OverLimit(cache' + mark))
           \/ CheckFails
    BY <1>12 DEF Validate
  <2>2. cache' \in Int /\ (stopped => stopped')
    <3>1. LimitTypes /\ day \in Int
      BY DEF Balance, AccountTypes
    <3>2. CASE RefreshCache /\ stopped' = (stopped \/ OverLimit(cache' + mark))
      <4>1. cache' \in Int
        BY <3>1, <3>2, CacheFacts
      <4> QED
        BY <3>2, <4>1, Zenon
    <3>3. CASE CheckFails
      BY <3>1, <3>3, FailedCheck
    <3> QED
      BY <2>1, <3>2, <3>3
  <2>3. TopicInv' /\ ConsumerInv' /\ RecordInv'
    BY <2>1 DEF TopicInv, ConsumerInv, RecordInv, ToRecord
  <2>4. Balance' /\ LimitTypes'
    BY <2>1, <2>2 DEF Balance, AccountTypes, CostBasisBalances, DayMatchesSymbol, LimitTypes
  <2>5. LossHalts'
    BY <2>1, <2>2, HaltsKept
  <2> QED
    BY <2>3, <2>4, <2>5
<1>13. CASE CommitEvent \/ CommitFails
  <2>1. /\ com' \in {com, offset} /\ p' = [pc |-> "idle", delta |-> 0, total |-> 0] /\ p.pc # "idle"
        /\ p.pc # "day"
        /\ UNCHANGED <<events, origin, offset, rows, engine, nav, cache, stopped, mark, cash, applied, missed>>
    BY <1>13 DEF CommitEvent, CommitFails, Resting
  <2>2. ConsumerInv' /\ RecordInv'
    BY <2>1 DEF ConsumerInv, RecordInv, ToRecord, LossSteps
  <2>3. TopicInv'
    <3>1. CASE UNCHANGED <<copies, again>>
      BY <2>1, <3>1 DEF TopicInv
    <3>2. CASE copies' = [copies EXCEPT ![origin[offset]] = @ + 1] /\ again' = again \cup {origin[offset]}
      <4>1. origin[offset] \in 1 .. MaxEvents
        BY <1>0, <2>1 DEF ConsumerInv, TopicInv
      <4> QED
        BY <2>1, <3>2, <4>1 DEF TopicInv
    <3> QED
      BY <1>13, <3>1, <3>2 DEF CommitEvent, CommitFails
  <2>4. Balance' /\ LimitTypes'
    BY <2>1 DEF Balance, AccountTypes, CostBasisBalances, DayMatchesSymbol, LimitTypes
  <2>5. LossHalts'
    BY <2>1, HaltsKept
  <2> QED
    BY <2>2, <2>3, <2>4, <2>5
<1>14. CASE CacheExpires \/ RefreshNav \/ UNCHANGED lossVars
  <2>1. /\ UNCHANGED <<topics, offset, com, p, rows, engine, cache, mark, stopped, cash, applied, again, missed>>
        /\ nav' = nav \/ \E i \in navItem : i.nav > 0 /\ nav' = i.nav
    BY <1>14 DEF CacheExpires, RefreshNav, lossVars
  <2>2. TopicInv' /\ ConsumerInv' /\ RecordInv'
    BY <2>1 DEF TopicInv, ConsumerInv, RecordInv, ToRecord
  <2>3. Balance'
    BY <2>1 DEF Balance, AccountTypes, CostBasisBalances, DayMatchesSymbol
  <2>4. LimitTypes'
    BY <2>1 DEF LimitTypes, NavItems
  <2>5. LossHalts'
    BY <2>1, HaltsKept
  <2> QED
    BY <2>2, <2>3, <2>4, <2>5
<1>15. CASE Restart
  <2>1. /\ offset' = com /\ p' = [pc |-> "idle", delta |-> 0, total |-> 0]
        /\ nav' = OpeningNav /\ cache' = day
        /\ missed' = missed + (IF p.pc = "day" THEN p.delta ELSE 0)
        /\ UNCHANGED <<topics, com, rows, engine, mark, stopped, cash, applied, again>>
    BY <1>15 DEF Restart, Resting
  <2>2. TopicInv' /\ ConsumerInv' /\ RecordInv'
    BY <2>1 DEF TopicInv, ConsumerInv, RecordInv, ToRecord, LossSteps
  <2>3. Balance'
    BY <2>1 DEF Balance, AccountTypes, SymbolItems, CostBasisBalances, DayMatchesSymbol, ConsumerInv
  <2>4. LimitTypes'
    BY <1>0, <2>1 DEF LimitTypes, Balance, AccountTypes
  <2>5. LossHalts'
    BY <2>1, HaltsKept
  <2> QED
    BY <2>2, <2>3, <2>4, <2>5
<1> QED
  BY <1>1, <1>2, <1>3, <1>4, <1>5, <1>6, <1>7, <1>8, <1>9, <1>10, <1>11, <1>12, <1>13,
     <1>14, <1>15
     DEF LossNext, Loop

\* The invariant holds of every behaviour.
LEMMA LossInvAlways == LossSpec => []LossInv
<1> QED
  BY LossInvInit, LossInvStep, PTL DEF LossSpec

\* The book of the day balances: every payment of the recorded fills is in the realized P&L
\* or in the cost of the position, the daily total is the symbol's short of what broke off
\* between the two writes, no event is counted twice, whatever is delivered again, and no
\* fill, unless the commit of its event failed and routed it to retry (record_fill).
THEOREM BookBalances == LossSpec => []AccountsBalance
<1>1. LossInv => AccountsBalance
  <2> SUFFICES ASSUME LossInv PROVE AccountsBalance
    OBVIOUS
  <2>1. LossTypeOK
    BY DEF LossInv, LossTypeOK, TopicInv, ConsumerInv, RecordInv, Balance, AccountTypes, LimitTypes
  <2>2. FillsCountedOnce
    BY LossAssumption DEF LossInv, FillsCountedOnce, TopicInv, RecordInv
  <2> QED
    BY <2>1, <2>2 DEF LossInv, Balance, AccountsBalance
<1> QED
  BY <1>1, LossInvAlways, PTL

\* A loss at the limit of the configured portfolio and of every NAV the NAV item had today
\* trips the switch before the event whose check compared it is committed (the check behind
\* record_fill in _handle_fill, and validate()).
THEOREM LimitHalts == LossSpec => []LossHalts
<1>1. LossInv => LossHalts
  BY DEF LossInv
<1> QED
  BY <1>1, LossInvAlways, PTL

-----------------------------------------------------------------------------
(* KillSwitch: the trip *)

\* Only a running engine holds the lock or has a read in flight.
DownIsQuiet == ~up => op = "free" /\ poll = "idle"

\* The lag watchdog has readings left as long as it has not fired.
LagBelow == ~lagFired => breaches < LagChecks

\* Why a trip is kept.  With the lock free it is in the row.  With the lock held it is
\* in memory, the put carries it, and no poll that read an older row is in flight.
TripHeld ==
  tripped /\ ~excused =>
    /\ op = "free" => row = "on"
    /\ op # "free" => active /\ poll = "idle"
    /\ op \in Puts => op = "put_on"

\* The two-valued part of the types.
Flags ==
  /\ up \in BOOLEAN /\ active \in BOOLEAN /\ cached \in BOOLEAN
  /\ wasActive \in BOOLEAN /\ lagFired \in BOOLEAN /\ inbox \in BOOLEAN
  /\ tripped \in BOOLEAN /\ excused \in BOOLEAN

SwitchTypes == SwitchTypeOK /\ DownIsQuiet /\ LagBelow
SwitchInv == SwitchTypes /\ TripHeld

-----------------------------------------------------------------------------
(* Types *)

\* There are five conditions.
LEMMA ConditionsFinite == IsFiniteSet(Conditions)
<1>1. IsFiniteSet({"order_rate"})
  BY FS_Singleton
<1>2. IsFiniteSet({"order_rate"} \cup {"broker"})
  BY <1>1, FS_AddElement
<1>3. IsFiniteSet({"order_rate"} \cup {"broker"} \cup {"consumer"})
  BY <1>2, FS_AddElement
<1>4. IsFiniteSet({"order_rate"} \cup {"broker"} \cup {"consumer"} \cup {"producer"})
  BY <1>3, FS_AddElement
<1>5. IsFiniteSet({"order_rate"} \cup {"broker"} \cup {"consumer"} \cup {"producer"}
                  \cup {"strategy"})
  BY <1>4, FS_AddElement
<1>6. Conditions = {"order_rate"} \cup {"broker"} \cup {"consumer"} \cup {"producer"}
                   \cup {"strategy"}
  BY DEF Conditions
<1> QED
  BY <1>5, <1>6

\* Sets of alarm conditions are finite, and taking some away leaves no more of them.
LEMMA AlarmsShrink ==
  ASSUME NEW A \in SUBSET Conditions, NEW B \in SUBSET A
  PROVE  Cardinality(B) \in Nat /\ Cardinality(B) <= Cardinality(A)
<1>1. IsFiniteSet(Conditions)
  BY ConditionsFinite
<1>2. IsFiniteSet(A) /\ IsFiniteSet(B)
  BY <1>1, FS_Subset
<1> QED
  BY <1>2, FS_Subset, FS_CardinalityType

\* A condition is raised while there is room for it; one that settles makes room.
LEMMA AlarmsMove ==
  ASSUME alarms \subseteq Conditions, Cardinality(alarms) <= MaxAlarms,
         NEW a \in Conditions, Raise(a) \/ Settle(a)
  PROVE  alarms' \subseteq Conditions /\ Cardinality(alarms') <= MaxAlarms
<1>1. IsFiniteSet(alarms)
  BY ConditionsFinite, FS_Subset
<1>2. /\ Cardinality(alarms) \in Nat
      /\ Cardinality(alarms \cup {a}) \in {Cardinality(alarms), Cardinality(alarms) + 1}
  BY <1>1, FS_AddElement, FS_CardinalityType
<1>3. CASE Raise(a)
  <2>1. alarms' = alarms \cup {a} /\ Cardinality(alarms) < MaxAlarms
    BY <1>3 DEF Raise
  <2> QED
    BY <1>2, <2>1, KillSwitchAssumption DEF KillSwitchAssumption
<1>4. CASE Settle(a)
  <2>1. alarms' \subseteq alarms
    BY <1>4 DEF Settle
  <2> QED
    BY <2>1, AlarmsShrink, KillSwitchAssumption,
       Cardinality(alarms) \in Nat, Cardinality(alarms') \in Nat,
       <1>2
       DEF KillSwitchAssumption
<1> QED
  BY <1>3, <1>4

\* Nothing is wrong with the types when the engine starts.
LEMMA TypeInit == SwitchInit => SwitchTypes
<1> USE KillSwitchAssumption DEF KillSwitchAssumption
<1>1. Cardinality({}) = 0
  BY FS_EmptySet
<1>2. SwitchInit => Flags
  BY Zenon DEF SwitchInit, Flags
<1>3. SwitchInit => SwitchTypes
  <2> SUFFICES ASSUME SwitchInit
               PROVE  SwitchTypes
    OBVIOUS
  <2> QED
    BY <1>1, <1>2 DEF SwitchInit, SwitchTypes, SwitchTypeOK, Flags, DownIsQuiet,
       LagBelow, Rows, Puts
<1> QED
  BY <1>3

\* Every assignment to a flag is a truth value.
LEMMA FlagsStep == Flags /\ [SwitchNext]_switchVars => Flags'
<1> SUFFICES ASSUME Flags, [SwitchNext]_switchVars
             PROVE  Flags'
  OBVIOUS
<1> USE DEF Flags
<1>1. CASE PersistState
  BY <1>1, Zenon DEF PersistState
<1>2. CASE PersistDone
  BY <1>2, Zenon DEF PersistDone
<1>3. CASE ApiActivate
  BY <1>3, Zenon DEF ApiActivate, Activate
<1>4. CASE ApiDeactivate
  BY <1>4, Zenon DEF ApiDeactivate, Deactivate
<1>5. CASE PollRead
  BY <1>5, Zenon DEF PollRead
<1>6. CASE PollApply
  BY <1>6, Zenon DEF PollApply
<1>7. CASE PollFail
  BY <1>7, Zenon DEF PollFail
<1>8. CASE CliActivate
  BY <1>8, Zenon DEF CliActivate
<1>9. CASE CliDeactivate
  BY <1>9, Zenon DEF CliDeactivate
<1>10. CASE CliPut
  BY <1>10, Zenon DEF CliPut
<1>11. CASE Monitors
  BY <1>11, Zenon DEF Monitors, MonitorOrderRate, MonitorBrokerConnectivity,
     MonitorProducerHeartbeat, MonitorStrategyLoss, MonitorConsumerLag, Watch, Activate
<1>12. CASE LagWatchdog
  BY <1>12, Zenon DEF LagWatchdog, LagOver, LagUnder, Activate
<1>13. CASE Send
  BY <1>13, Zenon DEF Send
<1>14. CASE ListenActive
  BY <1>14, Zenon DEF ListenActive, Activate
<1>15. CASE ListenCommit
  BY <1>15, Zenon DEF ListenCommit
<1>16. CASE Crash
  BY <1>16, Zenon DEF Crash
<1>17. CASE Boot
  BY <1>17, Zenon DEF Boot
<1>18. CASE \E a \in Conditions : Raise(a) \/ Settle(a)
  BY <1>18, Zenon DEF Raise, Settle
<1>19. CASE UNCHANGED switchVars
  BY <1>19, Zenon DEF switchVars
<1> QED
  BY <1>1, <1>2, <1>3, <1>4, <1>5, <1>6, <1>7, <1>8, <1>9, <1>10, <1>11, <1>12, <1>13,
     <1>14, <1>15, <1>16, <1>17, <1>18, <1>19 DEF SwitchNext

\* No step breaks the types: a held lock and a read in flight end with the engine, and
\* the watchdog fires at its last reading.
LEMMA TypeStep == SwitchTypes /\ [SwitchNext]_switchVars => SwitchTypes'
<1> SUFFICES ASSUME SwitchTypes, [SwitchNext]_switchVars
             PROVE  SwitchTypes'
  OBVIOUS
<1>0. Flags'
  BY FlagsStep DEF SwitchTypes, SwitchTypeOK, Flags
<1> USE <1>0 DEF Flags
<1> USE KillSwitchAssumption DEF KillSwitchAssumption, SwitchTypes, SwitchTypeOK,
   DownIsQuiet,
   LagBelow, Rows, Puts
<1>1. CASE PersistState
  BY <1>1 DEF PersistState, Put
<1>2. CASE PersistDone
  BY <1>2 DEF PersistDone, RowOf
<1>3. CASE ApiActivate
  BY <1>3 DEF ApiActivate, Activate, Overlapping, Busy
<1>4. CASE ApiDeactivate
  BY <1>4 DEF ApiDeactivate, Deactivate, Overlapping, Busy
<1>5. CASE PollRead
  BY <1>5 DEF PollRead, Overlapping, Busy
<1>6. CASE PollApply
  BY <1>6 DEF PollApply
<1>7. CASE PollFail
  BY <1>7 DEF PollFail
<1>8. CASE CliActivate
  BY <1>8 DEF CliActivate
<1>9. CASE CliDeactivate
  BY <1>9 DEF CliDeactivate
<1>10. CASE CliPut
  BY <1>10 DEF CliPut, RowOf
<1>11. CASE Monitors
  <2>1. alarms' \subseteq alarms
    BY <1>11 DEF Monitors, MonitorOrderRate, MonitorBrokerConnectivity,
       MonitorProducerHeartbeat, MonitorStrategyLoss, MonitorConsumerLag, Watch,
       Activate, Overlapping, Busy
  <2>2. alarms' \subseteq Conditions /\ Cardinality(alarms') <= MaxAlarms
    BY <2>1, AlarmsShrink
  <2> QED
    BY <1>11, <2>2 DEF Monitors, MonitorOrderRate, MonitorBrokerConnectivity,
       MonitorProducerHeartbeat, MonitorStrategyLoss, MonitorConsumerLag, Watch,
       Activate, Overlapping, Busy
<1>12. CASE LagWatchdog
  BY <1>12 DEF LagWatchdog, LagOver, LagUnder, Activate, Overlapping, Busy
<1>13. CASE Send
  BY <1>13 DEF Send
<1>14. CASE ListenActive
  BY <1>14 DEF ListenActive, Activate, Overlapping, Busy
<1>15. CASE ListenCommit
  BY <1>15 DEF ListenCommit
<1>16. CASE Crash
  <2>1. Cardinality({}) = 0
    BY FS_EmptySet
  <2> QED
    BY <1>16, <2>1 DEF Crash
<1>17. CASE Boot
  BY <1>17 DEF Boot
<1>18. ASSUME NEW a \in Conditions, Raise(a) \/ Settle(a)
      PROVE  SwitchTypes'
  <2>1. alarms' \subseteq Conditions /\ Cardinality(alarms') <= MaxAlarms
    BY <1>18, AlarmsMove
  <2> QED
    BY <1>18, <2>1 DEF Raise, Settle
<1>19. CASE UNCHANGED switchVars
  BY <1>19 DEF switchVars
<1> QED
  BY <1>1, <1>2, <1>3, <1>4, <1>5, <1>6, <1>7, <1>8, <1>9, <1>10, <1>11, <1>12, <1>13,
     <1>14, <1>15, <1>16, <1>17, <1>18, <1>19 DEF SwitchNext

-----------------------------------------------------------------------------
(* The trip *)

\* A switch found on is in the row, and nothing is in flight.
LEMMA TripInit == SwitchInit => TripHeld
BY DEF SwitchInit, TripHeld, Puts

\* activate() leaves the trip in memory with the lock held, or finds it in the row; when
\* something was in flight, or memory and row differ, it is excused.
LEMMA ActivateKeepsTrip ==
  ASSUME SwitchInv, Activate, poll' = poll, row' = row
  PROVE  TripHeld'
<1> USE DEF SwitchInv, SwitchTypes, SwitchTypeOK, TripHeld, Puts
<1>1. CASE active
  BY <1>1 DEF Activate, Busy
<1>2. CASE ~active
  BY <1>2 DEF Activate, Busy
<1> QED
  BY <1>1, <1>2

\* No step loses a trip that is not excused.
LEMMA TripStep == SwitchInv /\ [SwitchNext]_switchVars => TripHeld'
<1> SUFFICES ASSUME SwitchInv, [SwitchNext]_switchVars
             PROVE  TripHeld'
  OBVIOUS
<1> USE DEF TripHeld, SwitchInv
<1>1. CASE PersistState
  BY <1>1 DEF PersistState, Put, Puts
<1>2. CASE PersistDone
  BY <1>2 DEF PersistDone, RowOf, Puts
<1>3. CASE ApiActivate
  BY <1>3, ActivateKeepsTrip DEF ApiActivate
<1>4. CASE ApiDeactivate
  BY <1>4 DEF ApiDeactivate, Deactivate
<1>5. CASE PollRead
  BY <1>5 DEF PollRead
<1>6. CASE PollApply
  BY <1>6 DEF PollApply
<1>7. CASE PollFail
  BY <1>7 DEF PollFail
<1>8. CASE CliActivate
  BY <1>8 DEF CliActivate
<1>9. CASE CliDeactivate
  BY <1>9 DEF CliDeactivate
<1>10. CASE CliPut
  <2>1. CASE UNCHANGED <<row, tripped, excused>>
    BY <1>10, <2>1 DEF CliPut
  <2>2. CASE row' = RowOf(cli) /\ tripped' = (cli = "put_on") /\ excused' = (op # "free")
    BY <1>10, <2>2, Zenon DEF CliPut, RowOf, Puts
  <2> QED
    BY <1>10, <2>1, <2>2 DEF CliPut
<1>11. CASE Monitors
  <2>1. CASE \E c \in Conditions : Watch(c)
    BY <2>1, ActivateKeepsTrip DEF Watch
  <2>2. CASE MonitorConsumerLag
    <3>1. CASE Activate
      BY <2>2, <3>1, ActivateKeepsTrip DEF MonitorConsumerLag
    <3>2. CASE UNCHANGED <<active, op, overlaps, tripped, excused>>
      BY <2>2, <3>2 DEF MonitorConsumerLag
    <3> QED
      BY <2>2, <3>1, <3>2 DEF MonitorConsumerLag
  <2> QED
    BY <1>11, <2>1, <2>2 DEF Monitors, MonitorOrderRate, MonitorBrokerConnectivity,
       MonitorProducerHeartbeat, MonitorStrategyLoss, Conditions
<1>12. CASE LagWatchdog
  <2>1. CASE LagOver /\ Activate
    BY <2>1, ActivateKeepsTrip DEF LagOver
  <2>2. CASE LagOver /\ ~Activate
    BY <2>2 DEF LagOver
  <2>3. CASE LagUnder
    BY <2>3 DEF LagUnder
  <2> QED
    BY <1>12, <2>1, <2>2, <2>3 DEF LagWatchdog
<1>13. CASE Send
  BY <1>13 DEF Send
<1>14. CASE ListenActive
  BY <1>14, ActivateKeepsTrip DEF ListenActive
<1>15. CASE ListenCommit
  BY <1>15 DEF ListenCommit
<1>16. CASE Crash
  BY <1>16 DEF Crash, Puts
<1>17. CASE Boot
  BY <1>17 DEF Boot, SwitchInv, SwitchTypes, DownIsQuiet, Puts
<1>18. ASSUME NEW a \in Conditions, Raise(a) \/ Settle(a)
      PROVE  TripHeld'
  <2>1. UNCHANGED <<row, op, active, poll, tripped, excused>>
    BY <1>18 DEF Raise, Settle
  <2> QED
    BY <2>1
<1>19. CASE UNCHANGED switchVars
  BY <1>19 DEF switchVars
<1> QED
  BY <1>1, <1>2, <1>3, <1>4, <1>5, <1>6, <1>7, <1>8, <1>9, <1>10, <1>11, <1>12, <1>13,
     <1>14, <1>15, <1>16, <1>17, <1>18, <1>19 DEF SwitchNext

-----------------------------------------------------------------------------
(* The theorem *)

\* A trip that no operator cleared, whose put did not fail and that no poll crossed, is
\* in the row once activate() has returned and in memory until then, whatever crashes
\* and polls come after it.
THEOREM TripIsKept == SwitchSpec => []TripKept
<1>1. SwitchInit => SwitchInv
  BY TypeInit, TripInit DEF SwitchInv
<1>2. SwitchInv /\ [SwitchNext]_switchVars => SwitchInv'
  BY TypeStep, TripStep DEF SwitchInv
<1>3. SwitchInv => TripKept
  BY DEF SwitchInv, SwitchTypes, TripHeld, TripKept
<1> QED
  BY <1>1, <1>2, <1>3, PTL DEF SwitchSpec

=============================================================================
