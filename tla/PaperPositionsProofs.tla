----------------------- MODULE PaperPositionsProofs -----------------------
(***************************************************************************)
(* Proofs about PaperPositions, for any orders, prices and faults: types;  *)
(* that the optimistic read and conditional write of                       *)
(* apply_fill_to_position loses no fill; that the exit engine closes what  *)
(* it scanned and loosens no stop; and, with the three attempts of the     *)
(* code, that every signal counts once and the book balances.              *)
(***************************************************************************)
EXTENDS PaperPositions, TLAPS

\* A consumer at work has a signal in hand.
Busy == c.pc \notin {"idle", "boot"} => c.s \in Signals

\* An update about to write holds the book of the version it read: if the row
\* still has that version, its book is the one that was read.
Snapshot ==
  \A a \in Actors :
    w[a].pc = "write" /\ w[a].ver = pos.ver => w[a].book = Book(pos)

\* No update holds a version the row has not reached.
NotAhead == \A a \in Actors : w[a].ver <= pos.ver

TypeInv == TypeOK /\ Busy
BookInv == NotAhead /\ Snapshot /\ NoLostFill

-----------------------------------------------------------------------------
(* Operators                                                               *)

\* Quotient is a whole number whenever the divisor is not zero.
LEMMA QuotientInt ==
  ASSUME NEW n \in Int, NEW d \in Int, d # 0
  PROVE  Quotient(n, d) \in Int
BY DEF Quotient

\* The arithmetic of a fill stays in the integers, and moves the quantity by
\* the signed size of the fill.
LEMMA NewBookFacts ==
  ASSUME NEW old \in BookType, NEW side \in {"BUY", "SELL"}, NEW q \in Nat,
         NEW price \in Int
  PROVE  /\ NewBook(old, side, q, price) \in BookType
         /\ NewBook(old, side, q, price).qty = old.qty + Signed(side, q)
<1>1. CASE side = "BUY"
  <2> DEFINE qty == old.qty + q  cost == old.cost + q * price
  <2>1. qty \in Int /\ cost \in Int
    BY DEF BookType
  <2>2. (IF qty = 0 THEN 0 ELSE Quotient(cost, qty)) \in Int
    BY <2>1, QuotientInt
  <2>3. (IF old.qty < 0 THEN old.real + (old.avg - price) * Least(q, -old.qty)
         ELSE old.real) \in Int
    BY DEF BookType, Least
  <2> QED
    BY <1>1, <2>1, <2>2, <2>3 DEF NewBook, Bought, BookType, Signed
<1>2. CASE side = "SELL"
  <2> DEFINE qty == old.qty - q
             avg == CASE qty > 0 -> old.avg [] qty < 0 -> price [] OTHER -> 0
  <2>1. qty \in Int
    BY DEF BookType
  <2>2. avg \in Int
    BY <2>1 DEF BookType
  <2>3. avg * qty \in Int
    BY <2>1, <2>2
  <2>4. old.real + (price - old.avg) * Least(q, Most(old.qty, 0)) \in Int
    BY DEF BookType, Least, Most
  <2> HIDE DEF avg
  <2>5. Sold(old, q, price) =
          [qty |-> qty, cost |-> avg * qty, avg |-> avg,
           real |-> old.real + (price - old.avg) * Least(q, Most(old.qty, 0))]
    BY DEF Sold, avg
  <2>6. Sold(old, q, price) \in BookType
    BY <2>1, <2>2, <2>3, <2>4, <2>5 DEF BookType
  <2>7. Sold(old, q, price).qty = old.qty + Signed(side, q)
    BY <1>2, <2>5 DEF Signed, BookType
  <2> QED
    BY <1>2, <2>6, <2>7 DEF NewBook
<1> QED
  BY <1>1, <1>2

\* The book of a typed row is a typed book.
LEMMA BookOfRow ==
  ASSUME pos \in PosType
  PROVE  Book(pos) \in BookType
BY DEF Book, PosType, BookType

\* The row after an update is typed, has the next version, and its quantity
\* is the one that was read moved by the fill.
LEMMA UpdatedFacts ==
  ASSUME pos \in PosType, NEW a \in Actors, w[a] \in UpdateType
  PROVE  /\ Updated(a) \in PosType
         /\ Updated(a).ver = pos.ver + 1
         /\ Updated(a).qty = w[a].book.qty + Signed(w[a].side, w[a].qty)
<1> DEFINE u == w[a]
           book == NewBook(u.book, u.side, u.qty, u.price)
<1>1. /\ u.book \in BookType /\ u.side \in {"BUY", "SELL"}
      /\ u.qty \in Nat /\ u.price \in Int
  BY DEF UpdateType
<1>2. book \in BookType /\ book.qty = u.book.qty + Signed(u.side, u.qty)
  BY <1>1, NewBookFacts
<1> HIDE DEF book
<1>3. Updated(a) =
        [ver |-> pos.ver + 1, qty |-> book.qty, cost |-> book.cost, avg |-> book.avg,
         real |-> book.real, last |-> u.price, stop |-> pos.stop, tp |-> pos.tp,
         locked |-> ~(book.qty # 0) /\ pos.locked,
         state |-> IF book.qty # 0 THEN "NONE" ELSE pos.state]
  BY DEF Updated, book
<1>4. (~(book.qty # 0) /\ pos.locked) \in BOOLEAN
  OBVIOUS
<1>5. (IF book.qty # 0 THEN "NONE" ELSE pos.state) \in ExitState
  BY DEF PosType, ExitState
<1>6. Updated(a) \in PosType
  BY <1>1, <1>2, <1>3, <1>4, <1>5 DEF PosType, BookType
<1> QED
  BY <1>2, <1>3, <1>6

\* Adding one to a value of a function into Nat keeps it one.
LEMMA Increment ==
  ASSUME NEW S, NEW f \in [S -> Nat], NEW x
  PROVE  [f EXCEPT ![x] = @ + 1] \in [S -> Nat]
<1>1. CASE x \in S
  BY <1>1
<1>2. CASE x \notin S
  <2>1. [f EXCEPT ![x] = @ + 1] = f
    BY <1>2
  <2> QED
    BY <2>1
<1> QED
  BY <1>1, <1>2

\* The history stays typed, and records the signed size of the fill.
LEMMA WitnessedFacts ==
  ASSUME truth \in TruthType, NEW a \in Actors, w[a] \in UpdateType, Witnessed(a)
  PROVE  /\ truth' \in TruthType
         /\ truth'.qty = truth.qty + Signed(w[a].side, w[a].qty)
<1> DEFINE u == w[a]
           new == truth.qty + Signed(u.side, u.qty)
           times == IF a = "entry" THEN [truth.times EXCEPT ![c.s] = @ + 1]
                    ELSE truth.times
<1>1. /\ new \in Int /\ u.price \in Int
      /\ truth.cash - Signed(u.side, u.qty) * u.price \in Int
  BY DEF UpdateType, TruthType, Signed
<1>2. PaidAfter(truth.qty, new, u.price) \in SUBSET Int
  BY <1>1 DEF PaidAfter, TruthType
<1>3. times \in [Signals -> Nat]
  BY Increment DEF TruthType
<1>4. (truth.short \/ new < 0) \in BOOLEAN
  OBVIOUS
<1> HIDE DEF times
<1>5. truth' = [qty |-> new, cash |-> truth.cash - Signed(u.side, u.qty) * u.price,
                short |-> truth.short \/ new < 0,
                paid |-> PaidAfter(truth.qty, new, u.price), times |-> times]
  BY DEF Witnessed, times
<1> QED
  BY <1>1, <1>2, <1>3, <1>4, <1>5 DEF TruthType

\* Whatever the price, the engine's decision is one of its states.
LEMMA DecisionType ==
  ASSUME t \in EngineType, NEW last \in Int
  PROVE  Decision(last) \in EngineType
<1> DEFINE stop == ComputeTrailingStop(Direction(t.qty), last, t.stop)
<1>1. stop \in Int
  BY PricesAssumption DEF ComputeTrailingStop, Most, Least, EngineType
<1> HIDE DEF stop
<1>2. IdleEngine \in EngineType
  BY DEF IdleEngine, EngineType, None, ExitState
<1>3. \A price \in Int :
        [IdleEngine EXCEPT !.pc = "lock", !.ver = t.ver, !.qty = t.qty,
                           !.level = price] \in EngineType
  BY <1>2 DEF EngineType
<1>4. [IdleEngine EXCEPT !.pc = "trail", !.ver = t.ver, !.stop = t.stop,
                         !.level = stop] \in EngineType
  BY <1>1, <1>2 DEF EngineType
<1>5. t.tp \in Int
  BY DEF EngineType
<1>6. \/ Decision(last) = IdleEngine
      \/ \E price \in Int :
           Decision(last) = [IdleEngine EXCEPT !.pc = "lock", !.ver = t.ver,
                                               !.qty = t.qty, !.level = price]
      \/ Decision(last) = [IdleEngine EXCEPT !.pc = "trail", !.ver = t.ver,
                                             !.stop = t.stop, !.level = stop]
  BY <1>5 DEF Decision, stop
<1> QED
  BY <1>2, <1>3, <1>4, <1>6

\* The idle states are typed.
LEMMA IdleTypes ==
  /\ IdleEngine \in EngineType
  /\ IdleUpdate \in UpdateType
  /\ IdleConsumer \in ConsumerType
<1>1. IdleEngine \in EngineType
  BY DEF IdleEngine, EngineType, None, ExitState
<1>2. IdleUpdate \in UpdateType
  BY BoundsAssumption DEF IdleUpdate, UpdateType, BookType
<1>3. IdleConsumer \in ConsumerType
  BY PlansAssumption DEF IdleConsumer, ConsumerType, NoSignal
<1> QED
  BY <1>1, <1>2, <1>3

\* An update that is started, continued or retried is typed.
LEMMA UpdateTypes ==
  ASSUME NEW pc \in {"read", "navread"}, NEW side \in {"BUY", "SELL"}, NEW q \in Nat,
         NEW price \in Int, NEW n \in 0..(Attempts - 1)
  PROVE  /\ [IdleUpdate EXCEPT !.pc = pc, !.side = side, !.qty = q,
                               !.price = price] \in UpdateType
         /\ [IdleUpdate EXCEPT !.pc = pc, !.side = side, !.qty = q,
                               !.price = price, !.tries = n] \in UpdateType
<1>1. \A u \in UpdateType :
        [u EXCEPT !.pc = pc, !.side = side, !.qty = q, !.price = price] \in UpdateType
  BY DEF UpdateType
<1>2. \A u \in UpdateType :
        [u EXCEPT !.pc = pc, !.side = side, !.qty = q, !.price = price, !.tries = n]
          \in UpdateType
  BY DEF UpdateType
<1> QED
  BY <1>1, <1>2, IdleTypes

\* A fault only lowers the budget.
LEMMA FaultType ==
  ASSUME budget \in [FaultKinds -> Nat], NEW kind \in FaultKinds,
         Fault(kind) \/ UNCHANGED budget
  PROVE  budget' \in [FaultKinds -> Nat]
BY DEF Fault

-----------------------------------------------------------------------------
(* Types                                                                   *)

\* The initial state is typed.
LEMMA InitType == Init => TypeInv
<1> SUFFICES ASSUME Init PROVE TypeInv
  OBVIOUS
<1>1. budget \in [FaultKinds -> Nat]
  BY BoundsAssumption DEF Init, Allowance, FaultKinds
<1>2. pos \in PosType /\ truth \in TruthType
  BY DEF Init, PosType, TruthType, None, ExitState
<1>3. c \in ConsumerType /\ t \in EngineType /\ w \in [Actors -> UpdateType]
  BY IdleTypes DEF Init
<1>4. Busy
  BY DEF Init, Busy, IdleConsumer
<1> QED
  BY <1>1, <1>2, <1>3, <1>4 DEF Init, TypeInv, TypeOK, None, RowStatus

\* Every step keeps the types.
LEMMA NextType == TypeInv /\ [Next]_vars => TypeInv'
<1> SUFFICES ASSUME TypeInv, [Next]_vars PROVE TypeInv'
  OBVIOUS
<1> USE DEF TypeInv
<1>0. /\ "db" \in FaultKinds /\ "crash" \in FaultKinds
      /\ "entry" \in Actors /\ "exit" \in Actors
  BY DEF FaultKinds, Actors
<1>u. \A a \in Actors : w[a] \in UpdateType
  BY DEF TypeOK
<1>d. UNCHANGED budget \/ Fault("db") => budget' \in [FaultKinds -> Nat]
  BY <1>0, FaultType DEF TypeOK
<1>1. ASSUME NEW a \in Actors, FillStep(a) PROVE TypeInv'
  <2>1. \A pc \in {"read", "navread"} : Continue(a, pc) => w' \in [Actors -> UpdateType]
    <3>1. /\ w[a].side \in {"BUY", "SELL"} /\ w[a].qty \in Nat
          /\ w[a].price \in Int /\ w[a].tries \in 0..(Attempts - 1)
      BY <1>u DEF UpdateType
    <3>2. \A pc \in {"read", "navread"} :
            [IdleUpdate EXCEPT !.pc = pc, !.side = w[a].side, !.qty = w[a].qty,
                               !.price = w[a].price] \in UpdateType
      BY <3>1, UpdateTypes
    <3> QED
      BY <3>2 DEF Continue, TypeOK
  <2>2. Finish(a) => w' \in [Actors -> UpdateType]
    BY <1>u, IdleTypes DEF Finish, TypeOK, UpdateType
  <2>3. CASE FillRead(a)
    <3>1. w' \in [Actors -> UpdateType]
      BY <2>2, <2>3, <1>u, BookOfRow DEF FillRead, TypeOK, UpdateType, PosType
    <3>2. budget' \in [FaultKinds -> Nat]
      BY <2>3, <1>d DEF FillRead
    <3> QED
      BY <2>3, <3>1, <3>2 DEF FillRead, tables, TypeOK, Busy
  <2>4. CASE FillWrite(a)
    <3>1. w[a].tries < Attempts - 1 =>
            [IdleUpdate EXCEPT !.pc = "read", !.side = w[a].side, !.qty = w[a].qty,
               !.price = w[a].price, !.tries = w[a].tries + 1] \in UpdateType
      <4>1. /\ w[a].side \in {"BUY", "SELL"} /\ w[a].qty \in Nat
            /\ w[a].price \in Int /\ w[a].tries \in 0..(Attempts - 1)
        BY <1>u DEF UpdateType
      <4>2. w[a].tries < Attempts - 1 => w[a].tries + 1 \in 0..(Attempts - 1)
        BY <4>1, BoundsAssumption
      <4> QED
        BY <4>1, <4>2, UpdateTypes
    <3>2. w' \in [Actors -> UpdateType]
      BY <2>1, <2>2, <2>4, <3>1 DEF FillWrite, TypeOK
    <3>3. pos' \in PosType /\ truth' \in TruthType
      BY <2>4, <1>u, UpdatedFacts, WitnessedFacts DEF FillWrite, TypeOK
    <3>4. budget' \in [FaultKinds -> Nat]
      BY <2>4, <1>d DEF FillWrite
    <3> QED
      BY <2>4, <3>2, <3>3, <3>4 DEF FillWrite, TypeOK, Busy
  <2>5. CASE NavRead(a)
    <3>1. w' \in [Actors -> UpdateType]
      BY <2>2, <2>5, <1>u DEF NavRead, TypeOK, UpdateType
    <3>2. budget' \in [FaultKinds -> Nat]
      BY <2>5, <1>d DEF NavRead
    <3> QED
      BY <2>5, <3>1, <3>2 DEF NavRead, tables, TypeOK, Busy
  <2>6. CASE NavWrite(a)
    <3>1. nav' \in Int
      BY <2>6, <1>u DEF NavWrite, TypeOK, UpdateType, Signed
    <3>2. budget' \in [FaultKinds -> Nat]
      BY <2>6, <1>d DEF NavWrite
    <3> QED
      BY <2>2, <2>6, <3>1, <3>2 DEF NavWrite, TypeOK, Busy
  <2> QED
    BY <1>1, <2>3, <2>4, <2>5, <2>6 DEF FillStep
<1>2. ASSUME NEW s \in Signals, ConsumerReceive(s) PROVE TypeInv'
  <2>1. c' \in ConsumerType /\ Busy'
    BY <1>2, PlansAssumption DEF ConsumerReceive, ConsumerType, Signals, Busy
  <2> QED
    BY <1>2, <2>1 DEF ConsumerReceive, tables, TypeOK
<1>3. CASE ConsumerStep
  <2>1. CASE PaperLookup
    <3>1. c' \in ConsumerType /\ Busy'
      BY <2>1 DEF PaperLookup, TypeOK, ConsumerType, Busy
    <3>2. budget' \in [FaultKinds -> Nat]
      BY <2>1, <1>d DEF PaperLookup
    <3> QED
      BY <2>1, <3>1, <3>2 DEF PaperLookup, tables, TypeOK
  <2>2. CASE PaperSubmit
    <3>1. c' \in ConsumerType /\ Busy'
      BY <2>2 DEF PaperSubmit, TypeOK, ConsumerType, Busy
    <3>2. budget' \in [FaultKinds -> Nat]
      BY <2>2, <1>d DEF PaperSubmit
    <3>3. order' \in [Signals -> RowStatus]
      BY <2>2 DEF PaperSubmit, TypeOK, Busy, RowStatus
    <3> QED
      BY <2>2, <3>1, <3>2, <3>3 DEF PaperSubmit, TypeOK
  <2>3. CASE PaperRecord
    <3>1. c' \in ConsumerType /\ Busy'
      BY <2>3 DEF PaperRecord, TypeOK, ConsumerType, Busy
    <3>2. budget' \in [FaultKinds -> Nat]
      BY <2>3, <1>d DEF PaperRecord
    <3>3. order' \in [Signals -> RowStatus]
      BY <2>3 DEF PaperRecord, PaperStatus, TypeOK, Busy, RowStatus
    <3> QED
      BY <2>3, <3>1, <3>2, <3>3 DEF PaperRecord, TypeOK
  <2>4. CASE PaperFill
    <3> DEFINE o == sig[c.s]
    <3>1. c' \in ConsumerType /\ Busy'
      BY <2>4 DEF PaperFill, TypeOK, ConsumerType, Busy
    <3>2. o \in OrderType
      BY <2>4, PlansAssumption DEF PaperFill, TypeOK, Busy
    <3>3. PaperFillPrice(o) \in Int
      BY <3>2, PricesAssumption DEF PaperFillPrice, OrderType, Signed
    <3>4. o.side \in {"BUY", "SELL"} /\ o.fill \in Nat
      BY <3>2 DEF OrderType
    <3>5. [IdleUpdate EXCEPT !.pc = "read", !.side = o.side, !.qty = o.fill,
                             !.price = PaperFillPrice(o)] \in UpdateType
      <4>1. 0 \in 0..(Attempts - 1)
        BY BoundsAssumption
      <4> QED
        BY <3>3, <3>4, <4>1, UpdateTypes
    <3>6. w' \in [Actors -> UpdateType]
      BY <2>4, <3>5 DEF PaperFill, StartUpdate, TypeOK
    <3> QED
      BY <2>4, <3>1, <3>6 DEF PaperFill, tables, TypeOK
  <2>5. CASE AttachExitPolicy
    <3>1. c' \in ConsumerType /\ Busy'
      BY <2>5 DEF AttachExitPolicy, TypeOK, ConsumerType, Busy
    <3>2. budget' \in [FaultKinds -> Nat]
      BY <2>5, <1>d DEF AttachExitPolicy
    <3>3. sig[c.s] \in OrderType
      BY <2>5, PlansAssumption DEF AttachExitPolicy, TypeOK, Busy
    <3>4. pos' \in PosType
      <4> DEFINE o == sig[c.s]
                 stop == IF o.stop # None THEN o.stop ELSE pos.stop
                 tp == IF o.tp # None THEN o.tp ELSE pos.tp
      <4>1. stop \in Int /\ tp \in Int
        BY <3>3 DEF OrderType, TypeOK, PosType
      <4> HIDE DEF stop, tp
      <4>2. \/ pos' = [pos EXCEPT !.state = "ATTACHED", !.stop = stop, !.tp = tp]
            \/ pos' = pos
        BY <2>5 DEF AttachExitPolicy, stop, tp
      <4> QED
        BY <4>1, <4>2 DEF TypeOK, PosType, ExitState
    <3>5. w' \in [Actors -> UpdateType]
      BY <2>5, IdleTypes DEF AttachExitPolicy, TypeOK
    <3> QED
      BY <2>5, <3>1, <3>2, <3>4, <3>5 DEF AttachExitPolicy, TypeOK
  <2>6. CASE ConsumerCommit
    <3>1. c' \in ConsumerType /\ Busy'
      BY <2>6, IdleTypes DEF ConsumerCommit, IdleConsumer, Busy
    <3>2. msg' \in [Signals -> {"ready", "done"}]
      BY <2>6 DEF ConsumerCommit, TypeOK
    <3> QED
      BY <2>6, <3>1, <3>2 DEF ConsumerCommit, tables, TypeOK
  <2>7. CASE Boot
    <3>1. c' \in ConsumerType /\ Busy'
      BY <2>7, IdleTypes DEF Boot, IdleConsumer, Busy
    <3>2. order' \in [Signals -> RowStatus]
      BY <2>7 DEF Boot, TypeOK, RowStatus
    <3> QED
      BY <2>7, <3>1, <3>2 DEF Boot, TypeOK
  <2> QED
    BY <1>3, <2>1, <2>2, <2>3, <2>4, <2>5, <2>6, <2>7 DEF ConsumerStep
<1>4. CASE TeeStep
  <2>1. CASE TeeScan
    <3>1. t' \in EngineType
      BY <2>1 DEF TeeScan, TypeOK, PosType, EngineType, None
    <3> QED
      BY <2>1, <3>1 DEF TeeScan, tables, TypeOK, Busy
  <2>2. CASE TeePrice
    <3>1. quote \in Int /\ t.last \in Int
      BY DEF TypeOK, EngineType
    <3>2. t' \in EngineType
      BY <2>2, <3>1, DecisionType DEF TeePrice, TypeOK
    <3>3. budget' \in [FaultKinds -> Nat]
      BY <2>2, <1>d DEF TeePrice
    <3> QED
      BY <2>2, <3>2, <3>3 DEF TeePrice, tables, TypeOK, Busy
  <2>3. CASE TeeTrail
    <3>1. pos' \in PosType
      BY <2>3 DEF TeeTrail, TypeOK, PosType, EngineType, ExitState
    <3>2. budget' \in [FaultKinds -> Nat]
      BY <2>3, <1>d DEF TeeTrail
    <3> QED
      BY <2>3, <3>1, <3>2, IdleTypes DEF TeeTrail, TypeOK, Busy
  <2>4. CASE TeeLock
    <3>1. pos' \in PosType
      BY <2>4 DEF TeeLock, TypeOK, PosType
    <3>2. budget' \in [FaultKinds -> Nat]
      BY <2>4, <1>d DEF TeeLock
    <3>3. t' \in EngineType
      BY <2>4, IdleTypes DEF TeeLock, TypeOK, EngineType
    <3>4. [IdleUpdate EXCEPT !.pc = "read", !.side = CloseSide(t.qty),
             !.qty = Size(t.qty), !.price = t.level] \in UpdateType
      <4>1. /\ CloseSide(t.qty) \in {"BUY", "SELL"} /\ Size(t.qty) \in Nat
            /\ t.level \in Int /\ 0 \in 0..(Attempts - 1)
        BY BoundsAssumption DEF CloseSide, Size, TypeOK, EngineType
      <4> QED
        BY <4>1, UpdateTypes
    <3>5. w' \in [Actors -> UpdateType]
      BY <2>4, <3>4 DEF TeeLock, StartUpdate, TypeOK
    <3> QED
      BY <2>4, <3>1, <3>2, <3>3, <3>5 DEF TeeLock, TypeOK, Busy
  <2>5. CASE TeeDone
    BY <2>5, IdleTypes DEF TeeDone, tables, TypeOK, Busy
  <2> QED
    BY <1>4, <2>1, <2>2, <2>3, <2>4, <2>5 DEF TeeStep
<1>5. ASSUME NEW p \in Prices, StoreQuote(p) PROVE TypeInv'
  BY <1>5, PricesAssumption DEF StoreQuote, tables, TypeOK, Busy
<1>6. CASE Crash
  <2>1. budget' \in [FaultKinds -> Nat]
    BY <1>0, <1>6, FaultType DEF Crash, TypeOK
  <2>2. c' \in ConsumerType /\ Busy'
    BY <1>6, PlansAssumption DEF Crash, ConsumerType, NoSignal, Busy
  <2>3. t' \in EngineType /\ w' \in [Actors -> UpdateType]
    BY <1>6, IdleTypes DEF Crash
  <2> QED
    BY <1>6, <2>1, <2>2, <2>3 DEF Crash, tables, TypeOK
<1>7. CASE UNCHANGED vars
  BY <1>7 DEF vars, TypeOK, Busy
<1> QED
  BY <1>1, <1>2, <1>3, <1>4, <1>5, <1>6, <1>7 DEF Next

\* Every variable keeps its type, whatever the orders, prices and faults.
THEOREM PaperTypeCorrect == Spec => []TypeOK
<1>1. TypeInv => TypeOK
  BY DEF TypeInv
<1> QED
  BY <1>1, InitType, NextType, PTL DEF Spec

-----------------------------------------------------------------------------
(* No fill is lost                                                         *)

\* Initially nothing is read and nothing was filled.
LEMMA InitBook == Init => BookInv
BY DEF Init, BookInv, NotAhead, Snapshot, NoLostFill, IdleUpdate, Actors

\* Every step keeps the snapshots and the quantity.  Only FillWrite changes
\* the version or the book of the row, and it does both; only FillRead enters
\* "write", with the row's own version and book.
LEMMA NextBook == TypeInv /\ BookInv /\ [Next]_vars => BookInv'
<1> SUFFICES ASSUME TypeInv, BookInv, [Next]_vars PROVE BookInv'
  OBVIOUS
<1>u. (\A a \in Actors : w[a] \in UpdateType) /\ w \in [Actors -> UpdateType]
  BY DEF TypeInv, TypeOK
<1>p. pos \in PosType /\ truth \in TruthType
  BY DEF TypeInv, TypeOK
<1>0. "entry" \in Actors /\ "exit" \in Actors
  BY DEF Actors
<1>i. IdleUpdate.pc = "idle" /\ IdleUpdate.ver = 0
  BY DEF IdleUpdate
\* A step that leaves version, book and history alone and gives no update a
\* snapshot keeps the invariant.
<1>k. ASSUME pos'.ver = pos.ver, Book(pos)' = Book(pos), truth' = truth,
             \A b \in Actors : \/ w'[b] = w[b]
                               \/ w'[b].pc # "write" /\ w'[b].ver = 0
      PROVE  BookInv'
  <2>1. pos'.qty = pos.qty
    BY <1>k DEF Book
  <2>2. pos.ver \in Nat
    BY <1>p DEF PosType
  <2>3. NotAhead'
    BY <1>k, <2>2 DEF BookInv, NotAhead
  <2>4. Snapshot'
    BY <1>k DEF BookInv, Snapshot
  <2>5. NoLostFill'
    BY <1>k, <2>1 DEF BookInv, NoLostFill
  <2> QED
    BY <2>3, <2>4, <2>5 DEF BookInv
<1>1. ASSUME NEW a \in Actors, FillStep(a) PROVE BookInv'
  <2>1. Finish(a) => \A b \in Actors : \/ w'[b] = w[b]
                                       \/ w'[b].pc # "write" /\ w'[b].ver = 0
    BY <1>u DEF Finish, IdleUpdate
  <2>2. CASE FillRead(a)
    <3>1. CASE Finish(a)
      BY <2>1, <2>2, <3>1, <1>k DEF FillRead, tables, Book
    <3>2. CASE w' = [w EXCEPT ![a].pc = "write", ![a].ver = pos.ver, ![a].book = Book(pos)]
      <4>1. pos' = pos /\ truth' = truth
        BY <2>2 DEF FillRead, tables
      <4>2. w'[a].ver = pos.ver /\ w'[a].book = Book(pos)
        BY <3>2, <1>u DEF UpdateType
      <4>3. \A b \in Actors : b # a => w'[b] = w[b]
        BY <3>2, <1>u
      <4>4. pos.ver \in Nat
        BY <1>p DEF PosType
      <4>5. Book(pos)' = Book(pos)
        BY <4>1 DEF Book
      <4> QED
        BY <4>1, <4>2, <4>3, <4>4, <4>5 DEF BookInv, NotAhead, Snapshot, NoLostFill
    <3> QED
      BY <2>2, <3>1, <3>2 DEF FillRead
  <2>3. CASE FillWrite(a)
    <3>1. CASE pos' = Updated(a) /\ Witnessed(a) /\ pos.ver = w[a].ver
      <4>1. /\ pos'.ver = pos.ver + 1
            /\ pos'.qty = w[a].book.qty + Signed(w[a].side, w[a].qty)
        BY <3>1, <1>u, <1>p, UpdatedFacts
      <4>2. truth'.qty = truth.qty + Signed(w[a].side, w[a].qty)
        BY <3>1, <1>u, <1>p, WitnessedFacts
      <4>3. w[a].book = Book(pos)
        BY <2>3, <3>1 DEF FillWrite, BookInv, Snapshot
      <4>4. NoLostFill'
        BY <4>1, <4>2, <4>3 DEF BookInv, NoLostFill, Book
      <4>5. \A b \in Actors : b # a => w'[b] = w[b]
        BY <2>3, <1>u DEF FillWrite, Continue, Finish
      <4>6. w'[a].ver = 0 /\ w'[a].pc # "write"
        BY <2>3, <3>1, <1>u DEF FillWrite, Continue, Finish, IdleUpdate
      <4>7. pos.ver \in Nat /\ \A b \in Actors : w[b].ver \in Nat /\ w[b].ver <= pos.ver
        BY <1>p, <1>u DEF PosType, UpdateType, BookInv, NotAhead
      <4>8. NotAhead' /\ Snapshot'
        BY <4>1, <4>5, <4>6, <4>7 DEF NotAhead, Snapshot
      <4> QED
        BY <4>4, <4>8 DEF BookInv
    <3>2. CASE pos' = pos /\ truth' = truth
      <4>1. \A b \in Actors : \/ w'[b] = w[b]
                              \/ w'[b].pc # "write" /\ w'[b].ver = 0
        BY <2>1, <2>3, <3>2, <1>u DEF FillWrite, Continue, IdleUpdate
      <4> QED
        BY <3>2, <4>1, <1>k DEF Book
    <3> QED
      BY <2>3, <3>1, <3>2 DEF FillWrite
  <2>4. CASE NavRead(a)
    <3>1. CASE Finish(a)
      BY <2>1, <2>4, <3>1, <1>k DEF NavRead, tables, Book
    <3>2. CASE w' = [w EXCEPT ![a].pc = "navwrite", ![a].cash = nav]
      <4>1. pos' = pos /\ truth' = truth
        BY <2>4 DEF NavRead, tables
      <4>2. w'[a].ver = w[a].ver /\ w'[a].pc = "navwrite"
        BY <3>2, <1>u DEF UpdateType
      <4>3. \A b \in Actors : b # a => w'[b] = w[b]
        BY <3>2, <1>u
      <4>4. Book(pos)' = Book(pos)
        BY <4>1 DEF Book
      <4> QED
        BY <4>1, <4>2, <4>3, <4>4 DEF BookInv, NotAhead, Snapshot, NoLostFill
    <3> QED
      BY <2>4, <3>1, <3>2 DEF NavRead
  <2>5. CASE NavWrite(a)
    BY <2>1, <2>5, <1>k DEF NavWrite, Book
  <2> QED
    BY <1>1, <2>2, <2>3, <2>4, <2>5 DEF FillStep
<1>2. ASSUME NEW s \in Signals, ConsumerReceive(s) PROVE BookInv'
  BY <1>2, <1>k DEF ConsumerReceive, tables, Book
<1>3. CASE ConsumerStep
  <2>1. CASE Boot \/ PaperLookup \/ PaperSubmit \/ PaperRecord \/ ConsumerCommit
    BY <2>1, <1>k DEF Boot, PaperLookup, PaperSubmit, PaperRecord, ConsumerCommit,
       tables, Book
  <2>2. CASE PaperFill
    <3>1. \A b \in Actors : \/ w'[b] = w[b]
                            \/ w'[b].pc # "write" /\ w'[b].ver = 0
      BY <2>2, <1>u DEF PaperFill, StartUpdate, IdleUpdate
    <3> QED
      BY <2>2, <3>1, <1>k DEF PaperFill, tables, Book
  <2>3. CASE AttachExitPolicy
    <3>1. \A b \in Actors : \/ w'[b] = w[b]
                            \/ w'[b].pc # "write" /\ w'[b].ver = 0
      BY <2>3, <1>u, <1>i DEF AttachExitPolicy
    <3>2. pos'.ver = pos.ver /\ Book(pos)' = Book(pos)
      BY <2>3, <1>p DEF AttachExitPolicy, Book, PosType
    <3> QED
      BY <2>3, <3>1, <3>2, <1>k DEF AttachExitPolicy
  <2> QED
    BY <1>3, <2>1, <2>2, <2>3 DEF ConsumerStep
<1>4. CASE TeeStep
  <2>1. CASE TeeScan \/ TeePrice
    BY <2>1, <1>k DEF TeeScan, TeePrice, tables, Book
  <2>2. CASE TeeTrail
    <3>1. pos'.ver = pos.ver /\ Book(pos)' = Book(pos)
      BY <2>2, <1>p DEF TeeTrail, Book, PosType
    <3> QED
      BY <2>2, <3>1, <1>k DEF TeeTrail
  <2>3. CASE TeeLock
    <3>1. \A b \in Actors : \/ w'[b] = w[b]
                            \/ w'[b].pc # "write" /\ w'[b].ver = 0
      <4> DEFINE u == [IdleUpdate EXCEPT !.pc = "read", !.side = CloseSide(t.qty),
                                         !.qty = Size(t.qty), !.price = t.level]
      <4>1. u.pc = "read" /\ u.ver = 0
        BY DEF IdleUpdate
      <4> HIDE DEF u
      <4>2. w' = w \/ w' = [w EXCEPT !["exit"] = u]
        BY <2>3 DEF TeeLock, StartUpdate, u
      <4> QED
        BY <1>u, <4>1, <4>2
    <3>2. pos'.ver = pos.ver /\ Book(pos)' = Book(pos)
      BY <2>3, <1>p DEF TeeLock, Book, PosType
    <3> QED
      BY <2>3, <3>1, <3>2, <1>k DEF TeeLock
  <2>4. CASE TeeDone
    <3>1. \A b \in Actors : \/ w'[b] = w[b]
                            \/ w'[b].pc # "write" /\ w'[b].ver = 0
      BY <2>4, <1>u, <1>i DEF TeeDone
    <3> QED
      BY <2>4, <3>1, <1>k DEF TeeDone, tables, Book
  <2> QED
    BY <1>4, <2>1, <2>2, <2>3, <2>4 DEF TeeStep
<1>5. ASSUME NEW p \in Prices, StoreQuote(p) PROVE BookInv'
  BY <1>5, <1>k DEF StoreQuote, tables, Book
<1>6. CASE Crash
  <2>1. \A b \in Actors : w'[b].pc # "write" /\ w'[b].ver = 0
    BY <1>6, <1>i DEF Crash
  <2> QED
    BY <1>6, <2>1, <1>k DEF Crash, tables, Book
<1>7. CASE UNCHANGED vars
  BY <1>7, <1>k DEF vars, Book
<1> QED
  BY <1>1, <1>2, <1>3, <1>4, <1>5, <1>6, <1>7 DEF Next

\* However consumer and exit engine interleave, crash or fail, the quantity of
\* the positions row is the sum of the fills written to it.
THEOREM PaperNoLostFill == Spec => []NoLostFill
<1>1. TypeInv /\ BookInv => NoLostFill
  BY DEF BookInv
<1> QED
  BY <1>1, InitType, NextType, InitBook, NextBook, PTL DEF Spec

-----------------------------------------------------------------------------
(* The exit engine against the position it scanned                         *)

\* What the engine has in hand is about the version it scanned: as long as the
\* row still has it, an exit is of the size and side of the row's position and
\* a new stop does not loosen.
Exiting == t.pc = "filling" /\ w["exit"].pc \in {"read", "write"}

EngineInv ==
  /\ t.ver <= pos.ver
  /\ w["exit"].pc # "idle" <=> t.pc = "filling"
  /\ w["entry"].pc # "idle" <=> c.pc = "filling"
  /\ t.ver = pos.ver =>
       /\ t.pc \in {"price", "lock"} => t.qty = pos.qty /\ t.qty # 0
       /\ t.pc = "trail" => IF pos.qty > 0 THEN t.level >= t.stop ELSE t.level <= t.stop
       /\ Exiting => /\ w["exit"].qty = Size(pos.qty) /\ pos.qty # 0
                     /\ w["exit"].side = CloseSide(pos.qty)

-----------------------------------------------------------------------------
(* Every signal counts once                                                *)

BudgetInv == \A kind \in FaultKinds : budget[kind] <= Allowance[kind]

NoFault == ~Struck("db") /\ ~Struck("crash")

Applying == c.pc = "filling" /\ w["entry"].pc \in {"read", "write"}
Applied  == c.pc = "commit" \/ (c.pc = "filling" /\ w["entry"].pc \in {"navread", "navwrite", "done"})

\* The signal in hand has not been committed.
InHand == c.pc \notin {"idle", "boot"} => msg[c.s] = "ready"

\* Without a crash a message is handled once ...
CrashFree ==
  ~Struck("crash") =>
    /\ c.pc # "boot"
    /\ \A s \in Signals :
         /\ truth.times[s] <= 1
         /\ truth.times[s] > 0 => msg[s] = "done" \/ (c.s = s /\ Applied)

\* ... and without a failed call every fill has its row, which is found again.
ErrorFree ==
  ~Struck("db") =>
    /\ \A s \in Signals :
         /\ truth.times[s] <= 1
         /\ truth.times[s] > 0 => order[s] \in {"FILLED", "PARTIALLY_FILLED"}
    /\ c.pc = "submit" => order[c.s] = "NONE"
    /\ c.pc = "record" => order[c.s] = "PENDING"
    /\ c.pc = "fill" => order[c.s] = PaperStatus(sig[c.s]) /\ truth.times[c.s] = 0
    /\ c.pc = "filling" => order[c.s] \in {"FILLED", "PARTIALLY_FILLED"}
    /\ Applying => truth.times[c.s] = 0

\* How often the exit engine can still write before the consumer's update does:
\* with a stale scan once to miss and once to close, with a fresh one once.
Ahead ==
  IF t.pc \in {"price", "lock"} \/ Exiting
    THEN IF t.ver = pos.ver THEN 1 ELSE 2
    ELSE IF pos.qty = 0 THEN 0 ELSE 1

Missed == IF w["entry"].pc = "write" /\ w["entry"].ver # pos.ver THEN 1 ELSE 0

\* Without any fault a recorded fill is applied ...
RecordedInv ==
  NoFault =>
    \A s \in Signals :
      order[s] \in {"FILLED", "PARTIALLY_FILLED"} =>
        truth.times[s] = 1 \/ (c.s = s /\ (c.pc = "fill" \/ Applying))

\* ... because the consumer's update has attempts left ...
RetryInv == NoFault /\ Applying => w["entry"].tries + Missed + Ahead <= 2

\* ... and a lock has its exit, which will succeed.
LockInv ==
  NoFault /\ pos.locked /\ pos.qty # 0 =>
    w["exit"].pc = "read" \/ (w["exit"].pc = "write" /\ w["exit"].ver = pos.ver)

OnceInv ==
  /\ BudgetInv /\ InHand /\ CrashFree /\ ErrorFree
  /\ RecordedInv /\ RetryInv /\ LockInv

-----------------------------------------------------------------------------
(* The book balances                                                       *)

\* The average price was a whole number so far, as it is in the runs' plans.
WholeAverage == ~truth.short => pos.cost = pos.avg * pos.qty

LongInv == LongBookBalances /\ (~truth.short => truth.qty >= 0)

-----------------------------------------------------------------------------
(* Who moves what                                                          *)

\* a's fill reaches the row.
Fills(a) == FillWrite(a) /\ pos.ver = w[a].ver /\ pos' = Updated(a) /\ Witnessed(a)

\* The row's book and version change by a fill and by nothing else; beside the
\* fills, the lock is set by the exit engine, the stop moved by it or attached.
LEMMA RowMoves ==
  ASSUME TypeInv, [Next]_vars
  PROVE  \/ \E a \in Actors : Fills(a)
         \/ /\ UNCHANGED truth /\ Book(pos)' = Book(pos) /\ pos'.ver = pos.ver /\ pos'.qty = pos.qty
            /\ pos' = pos \/ AttachExitPolicy \/ TeeTrail \/ TeeLock
<1>p. pos \in PosType
  BY DEF TypeInv, TypeOK
<1>k. UNCHANGED <<pos, truth>> =>
        UNCHANGED truth /\ Book(pos)' = Book(pos) /\ pos'.ver = pos.ver /\ pos'.qty = pos.qty /\ pos' = pos
  BY DEF Book
<1>1. ASSUME NEW a \in Actors, FillStep(a) PROVE Fills(a) \/ UNCHANGED <<pos, truth>>
  BY <1>1 DEF FillStep, FillRead, FillWrite, NavRead, NavWrite, Fills, tables
<1>2. ASSUME NEW s \in Signals, ConsumerReceive(s) PROVE UNCHANGED <<pos, truth>>
  BY <1>2 DEF ConsumerReceive, tables
<1>3. CASE ConsumerStep /\ ~AttachExitPolicy
  <2>1. UNCHANGED <<pos, truth>>
    BY <1>3 DEF ConsumerStep, Boot, PaperLookup, PaperSubmit, PaperRecord, PaperFill,
       ConsumerCommit, tables
  <2> QED
    BY <2>1, <1>k
<1>4. CASE TeeScan \/ TeePrice \/ TeeDone
  <2>1. UNCHANGED <<pos, truth>>
    BY <1>4 DEF TeeScan, TeePrice, TeeDone, tables
  <2> QED
    BY <2>1, <1>k
<1>5. CASE AttachExitPolicy \/ TeeTrail \/ TeeLock
  <2>1. UNCHANGED truth /\ pos'.ver = pos.ver /\ pos'.qty = pos.qty /\ pos'.cost = pos.cost
        /\ pos'.avg = pos.avg /\ pos'.real = pos.real
    <3>1. CASE AttachExitPolicy
      BY <3>1, <1>p DEF AttachExitPolicy, PosType
    <3>2. CASE TeeTrail
      BY <3>2, <1>p DEF TeeTrail, PosType
    <3>3. CASE TeeLock
      BY <3>3, <1>p DEF TeeLock, PosType
    <3> QED
      BY <1>5, <3>1, <3>2, <3>3
  <2> QED
    BY <2>1, <1>5 DEF Book
<1>6. CASE Crash \/ UNCHANGED vars \/ \E p \in Prices : StoreQuote(p)
  <2>1. UNCHANGED <<pos, truth>>
    BY <1>6 DEF Crash, vars, StoreQuote, tables
  <2> QED
    BY <2>1, <1>k
<1> QED
  BY <1>k, <1>1, <1>2, <1>3, <1>4, <1>5, <1>6 DEF Next, TeeStep

\* The engine, the consumer and their updates are moved by their own steps only.
LEMMA ActorMoves ==
  ASSUME TypeInv, [Next]_vars
  PROVE  /\ UNCHANGED t \/ TeeStep \/ Crash
         /\ \/ w'["exit"] = w["exit"]
            \/ FillStep("exit") \/ TeeLock \/ TeeDone \/ Crash
         /\ \/ UNCHANGED c
            \/ ConsumerStep \/ Crash \/ \E s \in Signals : ConsumerReceive(s)
         /\ \/ w'["entry"] = w["entry"]
            \/ FillStep("entry") \/ PaperFill \/ AttachExitPolicy \/ Crash
<1>w. w \in [Actors -> UpdateType] /\ "entry" \in Actors /\ "exit" \in Actors
  BY DEF TypeInv, TypeOK, Actors
<1>1. ASSUME NEW a \in Actors, FillStep(a)
      PROVE  UNCHANGED <<t, c>> /\ \A b \in Actors \ {a} : w'[b] = w[b]
  <2>1. CASE FillRead(a)
    BY <2>1, <1>w DEF FillRead, Finish
  <2>2. CASE FillWrite(a)
    BY <2>2, <1>w DEF FillWrite, Finish, Continue
  <2>3. CASE NavRead(a)
    BY <2>3, <1>w DEF NavRead, Finish
  <2>4. CASE NavWrite(a)
    BY <2>4, <1>w DEF NavWrite, Finish
  <2> QED
    BY <1>1, <2>1, <2>2, <2>3, <2>4 DEF FillStep
<1>2. ASSUME NEW s \in Signals, ConsumerReceive(s) PROVE UNCHANGED <<t, w>>
  BY <1>2 DEF ConsumerReceive
<1>3. CASE ConsumerStep
  <2>1. UNCHANGED t /\ (UNCHANGED w \/ PaperFill \/ AttachExitPolicy)
    BY <1>3 DEF ConsumerStep, Boot, PaperLookup, PaperSubmit, PaperRecord, PaperFill,
       AttachExitPolicy, ConsumerCommit
  <2>2. w'["exit"] = w["exit"]
    <3>1. CASE PaperFill
      BY <3>1, <1>w DEF PaperFill, StartUpdate
    <3>2. CASE AttachExitPolicy
      BY <3>2, <1>w DEF AttachExitPolicy
    <3> QED
      BY <2>1, <3>1, <3>2
  <2> QED
    BY <1>3, <2>1, <2>2
<1>4. CASE TeeStep
  <2>1. UNCHANGED c /\ (UNCHANGED w \/ TeeLock \/ TeeDone)
    BY <1>4 DEF TeeStep, TeeScan, TeePrice, TeeTrail, TeeLock, TeeDone
  <2>2. w'["entry"] = w["entry"]
    <3>1. CASE TeeLock
      BY <3>1, <1>w DEF TeeLock, StartUpdate
    <3>2. CASE TeeDone
      BY <3>2, <1>w DEF TeeDone
    <3> QED
      BY <2>1, <3>1, <3>2
  <2> QED
    BY <1>4, <2>1, <2>2
<1>5. CASE UNCHANGED vars \/ \E p \in Prices : StoreQuote(p)
  BY <1>5 DEF vars, StoreQuote
<1>6. \A a \in Actors : a = "entry" \/ a = "exit"
  BY DEF Actors
<1> QED
  BY <1>1, <1>2, <1>3, <1>4, <1>5, <1>6, <1>w DEF Next

\* What a fill leaves behind: the next version, the book of the fill, no lock on
\* an open position, and an update that is not about to write.
LEMMA Filled ==
  ASSUME TypeInv, BookInv, NEW a \in Actors, Fills(a)
  PROVE  /\ w[a].pc = "write" /\ w'[a].pc \in {"navread", "done"}
         /\ \A b \in Actors \ {a} : w'[b] = w[b]
         /\ UNCHANGED <<sig, msg, order, c, t>>
         /\ pos'.ver = pos.ver + 1 /\ pos'.qty = pos.qty + Signed(w[a].side, w[a].qty)
         /\ Book(pos)' = NewBook(Book(pos), w[a].side, w[a].qty, w[a].price)
         /\ pos'.stop = pos.stop
         /\ pos'.qty # 0 => ~pos'.locked
         /\ truth'.qty = truth.qty + Signed(w[a].side, w[a].qty)
<1>t. w \in [Actors -> UpdateType] /\ pos \in PosType /\ truth \in TruthType /\ w[a] \in UpdateType
  BY DEF TypeInv, TypeOK
<1>1. w[a].pc = "write" /\ w[a].book = Book(pos)
  BY DEF Fills, FillWrite, BookInv, Snapshot
<1>2. \/ Continue(a, "navread") \/ Finish(a)
  <2>1. CASE Continue(a, "navread") \/ Finish(a)
    BY <2>1
  <2>2. CASE ~(Continue(a, "navread") \/ Finish(a))
    BY <2>2, <1>t DEF Fills, FillWrite
  <2> QED
    BY <2>1, <2>2
<1>3. w'[a].pc \in {"navread", "done"} /\ \A b \in Actors \ {a} : w'[b] = w[b]
  BY <1>2, <1>t DEF Continue, Finish, IdleUpdate
<1>4. pos'.ver = pos.ver + 1 /\ pos'.qty = w[a].book.qty + Signed(w[a].side, w[a].qty)
  BY <1>t, UpdatedFacts DEF Fills
<1>5. w[a].book.qty = pos.qty
  BY <1>1 DEF Book
<1>6. Book(pos)' = NewBook(w[a].book, w[a].side, w[a].qty, w[a].price)
  <2> DEFINE nb == NewBook(w[a].book, w[a].side, w[a].qty, w[a].price)
  <2>1. nb \in BookType
    BY <1>t, NewBookFacts DEF UpdateType
  <2>2. pos'.qty = nb.qty /\ pos'.cost = nb.cost /\ pos'.avg = nb.avg /\ pos'.real = nb.real
    BY DEF Fills, Updated
  <2> HIDE DEF nb
  <2>3. Book(pos)' = [qty |-> nb.qty, cost |-> nb.cost, avg |-> nb.avg, real |-> nb.real]
    BY <2>2 DEF Book
  <2> QED
    BY <2>1, <2>3 DEF BookType, nb
<1>7. pos'.stop = pos.stop /\ (pos'.qty # 0 => ~pos'.locked)
  BY DEF Fills, Updated
<1>8. truth'.qty = truth.qty + Signed(w[a].side, w[a].qty)
  BY <1>t, WitnessedFacts DEF Fills
<1> QED
  BY <1>1, <1>3, <1>4, <1>5, <1>6, <1>7, <1>8 DEF Fills, FillWrite

\* The decision for a scanned position: nothing, an exit of its size, or a
\* stop that does not loosen.
LEMMA Decided ==
  ASSUME t \in EngineType, NEW last \in Int, NEW d, d = Decision(last)
  PROVE  \/ d.pc = "idle" /\ d.ver = 0
         \/ d.pc = "lock" /\ d.ver = t.ver /\ d.qty = t.qty
         \/ /\ d.pc = "trail" /\ d.ver = t.ver /\ d.stop = t.stop
            /\ t.qty > 0 => d.level >= t.stop
            /\ t.qty < 0 => d.level <= t.stop
<1> DEFINE stop == ComputeTrailingStop(Direction(t.qty), last, t.stop)
<1>1. stop \in Int /\ (t.qty > 0 => stop >= t.stop) /\ (t.qty < 0 => stop <= t.stop)
  BY PricesAssumption DEF ComputeTrailingStop, Direction, Most, Least, EngineType
<1> HIDE DEF stop
<1>2. \/ d = IdleEngine
      \/ \E price \in Int :
           d = [IdleEngine EXCEPT !.pc = "lock", !.ver = t.ver, !.qty = t.qty, !.level = price]
      \/ d = [IdleEngine EXCEPT !.pc = "trail", !.ver = t.ver, !.stop = t.stop, !.level = stop]
  <2>1. t.tp \in Int
    BY DEF EngineType
  <2> QED
    BY <2>1 DEF Decision, stop
<1>3. CASE d = IdleEngine
  BY <1>3 DEF IdleEngine
<1>4. ASSUME NEW price \in Int,
             d = [IdleEngine EXCEPT !.pc = "lock", !.ver = t.ver, !.qty = t.qty, !.level = price]
      PROVE  d.pc = "lock" /\ d.ver = t.ver /\ d.qty = t.qty
  BY <1>4 DEF IdleEngine
<1>5. CASE d = [IdleEngine EXCEPT !.pc = "trail", !.ver = t.ver, !.stop = t.stop, !.level = stop]
  <2>1. d.pc = "trail" /\ d.ver = t.ver /\ d.stop = t.stop /\ d.level = stop
    BY <1>5 DEF IdleEngine
  <2> QED
    BY <2>1, <1>1
<1> QED
  BY <1>2, <1>3, <1>4, <1>5

\* What any step of an update leaves alone: the actors, the orders, and as long
\* as the fill is not written its side, size and price.
LEMMA Worked ==
  ASSUME TypeInv, NEW a \in Actors, FillStep(a)
  PROVE  /\ w[a].pc # "idle" /\ w'[a].pc # "idle"
         /\ \A b \in Actors \ {a} : w'[b] = w[b]
         /\ UNCHANGED <<sig, msg, order, c, t>>
         /\ w'[a].pc \in {"read", "write"} =>
              /\ w[a].pc \in {"read", "write"} /\ w'[a].side = w[a].side
              /\ w'[a].qty = w[a].qty /\ w'[a].price = w[a].price
<1>t. w \in [Actors -> UpdateType] /\ w[a] \in UpdateType
  BY DEF TypeInv, TypeOK
<1>1. CASE FillRead(a)
  BY <1>1, <1>t DEF FillRead, Finish, IdleUpdate, tables, UpdateType
<1>2. CASE FillWrite(a)
  <2>1. UNCHANGED <<sig, msg, order, c, t>> /\ w[a].pc = "write"
    BY <1>2 DEF FillWrite
  <2>2. \/ Finish(a) \/ Continue(a, "navread")
        \/ w' = [w EXCEPT ![a] = [IdleUpdate EXCEPT
                     !.pc = "read", !.side = w[a].side, !.qty = w[a].qty,
                     !.price = w[a].price, !.tries = w[a].tries + 1]]
    <3>1. CASE Finish(a) \/ Continue(a, "navread")
      BY <3>1
    <3>2. CASE ~(Finish(a) \/ Continue(a, "navread"))
      BY <3>2, <1>2 DEF FillWrite
    <3> QED
      BY <3>1, <3>2
  <2> QED
    BY <2>1, <2>2, <1>t DEF Finish, Continue, IdleUpdate
<1>3. CASE NavRead(a)
  BY <1>3, <1>t DEF NavRead, Finish, IdleUpdate, tables, UpdateType
<1>4. CASE NavWrite(a)
  BY <1>4, <1>t DEF NavWrite, Finish, IdleUpdate
<1> QED
  BY <1>1, <1>2, <1>3, <1>4 DEF FillStep

\* At the start nothing is under way.
LEMMA InitEngine == Init => EngineInv
BY DEF Init, EngineInv, Exiting, IdleEngine, IdleConsumer, IdleUpdate, Actors

\* Every step keeps the engine's view in step with the row.
LEMMA NextEngine == TypeInv /\ BookInv /\ EngineInv /\ [Next]_vars => EngineInv'
<1> SUFFICES ASSUME TypeInv, BookInv, EngineInv, [Next]_vars PROVE EngineInv'
  OBVIOUS
<1>t. /\ w \in [Actors -> UpdateType] /\ pos \in PosType /\ t \in EngineType
      /\ "entry" \in Actors /\ "exit" \in Actors /\ pos.ver \in Nat /\ t.ver \in Nat
  BY DEF TypeInv, TypeOK, Actors, PosType, EngineType
<1>i. IdleEngine.pc = "idle" /\ IdleEngine.ver = 0 /\ IdleUpdate.pc = "idle" /\ IdleConsumer.pc = "idle"
  BY DEF IdleEngine, IdleUpdate, IdleConsumer
\* The position, its engine and the engine's update stay as they are.
<1>k. ASSUME pos'.ver = pos.ver, pos'.qty = pos.qty, UNCHANGED t, w'["exit"] = w["exit"],
             w'["entry"].pc # "idle" <=> c'.pc = "filling"
      PROVE  EngineInv'
  BY <1>k DEF EngineInv, Exiting
\* The engine goes idle.
<1>z. ASSUME pos'.ver = pos.ver, t'.pc = "idle", t'.ver = 0, w'["exit"].pc = "idle",
             w'["entry"].pc # "idle" <=> c'.pc = "filling"
      PROVE  EngineInv'
  BY <1>z, <1>t DEF EngineInv, Exiting
<1>1. ASSUME NEW a \in Actors, FillStep(a) PROVE EngineInv'
  <2>w. /\ w[a].pc # "idle" /\ w'[a].pc # "idle"
        /\ \A b \in Actors \ {a} : w'[b] = w[b]
        /\ UNCHANGED <<c, t>>
        /\ w'[a].pc \in {"read", "write"} =>
              /\ w[a].pc \in {"read", "write"} /\ w'[a].side = w[a].side
              /\ w'[a].qty = w[a].qty
    BY <1>1, Worked
  <2>e. /\ w'["exit"].pc # "idle" <=> t'.pc = "filling"
        /\ w'["entry"].pc # "idle" <=> c'.pc = "filling"
    BY <2>w, <1>t DEF EngineInv
  <2>1. CASE \E b \in Actors : Fills(b)
    <3>1. pos'.ver = pos.ver + 1
      BY <2>1, Filled
    <3>2. t'.ver < pos'.ver
      BY <3>1, <2>w, <1>t DEF EngineInv
    <3>3. t'.ver <= pos'.ver /\ t'.ver # pos'.ver
      BY <3>1, <3>2, <2>w, <1>t
    <3> QED
      BY <3>3, <2>e DEF EngineInv
  <2>2. CASE pos'.ver = pos.ver /\ pos'.qty = pos.qty
    <3>1. Exiting' => Exiting /\ w'["exit"].side = w["exit"].side /\ w'["exit"].qty = w["exit"].qty
      BY <2>w, <1>t DEF Exiting
    <3> QED
      BY <3>1, <2>2, <2>e, <2>w DEF EngineInv
  <2>3. Fills(a) \/ UNCHANGED pos
    BY <1>1 DEF FillStep, FillRead, FillWrite, NavRead, NavWrite, Fills, tables
  <2> QED
    BY <2>1, <2>2, <2>3
<1>2. ASSUME NEW s \in Signals, ConsumerReceive(s) PROVE EngineInv'
  <2>1. c'.pc # "filling" /\ c.pc # "filling"
    BY <1>2 DEF ConsumerReceive
  <2> QED
    BY <1>2, <2>1, <1>k DEF ConsumerReceive, tables, EngineInv
<1>3. CASE ConsumerStep
  <2>c. c \in ConsumerType
    BY DEF TypeInv, TypeOK
  <2>1. CASE Boot \/ PaperLookup \/ PaperSubmit \/ PaperRecord \/ ConsumerCommit
    <3>1. c'.pc # "filling" /\ c.pc # "filling"
      BY <2>1, <2>c, <1>i DEF Boot, PaperLookup, PaperSubmit, PaperRecord,
         ConsumerCommit, ConsumerType
    <3>2. UNCHANGED <<pos, t, w>>
      BY <2>1 DEF Boot, PaperLookup, PaperSubmit, PaperRecord, ConsumerCommit, tables
    <3> QED
      BY <3>1, <3>2, <1>k DEF EngineInv
  <2>2. CASE PaperFill
    <3>1. w'["exit"] = w["exit"]
      BY <2>2, <1>t DEF PaperFill, StartUpdate
    <3>2. w'["entry"].pc # "idle" <=> c'.pc = "filling"
      <4>1. ASSUME NEW side, NEW q, NEW price, StartUpdate("entry", side, q, price),
                   c' = [c EXCEPT !.pc = "filling"]
            PROVE  w'["entry"].pc # "idle" <=> c'.pc = "filling"
        BY <4>1, <2>c, <1>t DEF StartUpdate, IdleUpdate, ConsumerType
      <4>2. CASE UNCHANGED w /\ c' = [c EXCEPT !.pc = "commit"]
        BY <4>2, <2>2, <2>c, <1>t DEF PaperFill, ConsumerType, EngineInv
      <4> QED
        BY <4>1, <4>2, <2>2 DEF PaperFill
    <3>3. UNCHANGED <<pos, t>>
      BY <2>2 DEF PaperFill, tables
    <3> QED
      BY <3>1, <3>2, <3>3, <1>k
  <2>3. CASE AttachExitPolicy
    <3>1. w'["exit"] = w["exit"] /\ w'["entry"].pc = "idle"
      BY <2>3, <1>t, <1>i DEF AttachExitPolicy
    <3>2. c'.pc # "filling" /\ UNCHANGED t
      BY <2>3, <2>c DEF AttachExitPolicy, ConsumerType
    <3>3. pos'.ver = pos.ver /\ pos'.qty = pos.qty
      BY <2>3, <1>t DEF AttachExitPolicy, PosType
    <3> QED
      BY <3>1, <3>2, <3>3, <1>k
  <2> QED
    BY <1>3, <2>1, <2>2, <2>3 DEF ConsumerStep
<1>4. CASE TeeStep
  <2>u. UNCHANGED c /\ w'["entry"] = w["entry"]
    <3>1. w'["entry"] = w["entry"]
      <4>1. CASE TeeLock
        BY <4>1, <1>t DEF TeeLock, StartUpdate
      <4>2. CASE TeeDone
        BY <4>2, <1>t DEF TeeDone
      <4> QED
        BY <4>1, <4>2, <1>4 DEF TeeStep, TeeScan, TeePrice, TeeTrail
    <3> QED
      BY <3>1, <1>4 DEF TeeStep, TeeScan, TeePrice, TeeTrail, TeeLock, TeeDone
  <2>e. w'["entry"].pc # "idle" <=> c'.pc = "filling"
    BY <2>u DEF EngineInv
  <2>1. CASE TeeScan
    <3>1. t'.pc = "price" /\ t'.ver = pos.ver /\ t'.qty = pos.qty /\ pos.qty # 0 /\ UNCHANGED <<pos, w>>
      BY <2>1 DEF TeeScan, tables
    <3>2. w["exit"].pc = "idle"
      BY <2>1 DEF TeeScan, EngineInv
    <3> QED
      BY <3>1, <3>2, <2>e, <1>t DEF EngineInv, Exiting
  <2>2. CASE TeePrice
    <3>1. /\ t.pc = "price" /\ UNCHANGED <<pos, w>> /\ w["exit"].pc = "idle"
          /\ \E last \in Int : t' = Decision(last)
      BY <2>2, <1>t DEF TeePrice, tables, EngineInv, TypeInv, TypeOK, EngineType
    <3>2. PICK last \in Int : t' = Decision(last)
      BY <3>1
    <3>3. \/ t'.pc = "idle" /\ t'.ver = 0
          \/ t'.pc = "lock" /\ t'.ver = t.ver /\ t'.qty = t.qty
          \/ /\ t'.pc = "trail" /\ t'.ver = t.ver /\ t'.stop = t.stop
             /\ t.qty > 0 => t'.level >= t.stop
             /\ t.qty < 0 => t'.level <= t.stop
      <4>1. \A d : d = Decision(last) =>
              \/ d.pc = "idle" /\ d.ver = 0
              \/ d.pc = "lock" /\ d.ver = t.ver /\ d.qty = t.qty
              \/ /\ d.pc = "trail" /\ d.ver = t.ver /\ d.stop = t.stop
                 /\ t.qty > 0 => d.level >= t.stop
                 /\ t.qty < 0 => d.level <= t.stop
        BY <1>t, Decided
      <4> QED
        BY <4>1, <3>2
    <3>4. t.ver = pos.ver => t.qty = pos.qty /\ t.qty # 0 /\ t.qty \in Int
      BY <3>1, <1>t DEF EngineInv, EngineType
    <3>5. CASE t'.pc = "idle" /\ t'.ver = 0
      BY <3>5, <3>1, <2>e, <1>z
    <3>6. CASE t'.pc = "lock" /\ t'.ver = t.ver /\ t'.qty = t.qty
      BY <3>6, <3>1, <3>4, <2>e DEF EngineInv, Exiting
    <3>7. CASE /\ t'.pc = "trail" /\ t'.ver = t.ver /\ t'.stop = t.stop
               /\ t.qty > 0 => t'.level >= t.stop
               /\ t.qty < 0 => t'.level <= t.stop
      BY <3>7, <3>1, <3>4, <2>e DEF EngineInv, Exiting
    <3> QED
      BY <3>3, <3>5, <3>6, <3>7
  <2>3. CASE TeeTrail
    <3>1. pos'.ver = pos.ver
      BY <2>3, <1>t DEF TeeTrail, PosType
    <3>2. UNCHANGED w /\ w["exit"].pc = "idle" /\ t' = IdleEngine
      BY <2>3 DEF TeeTrail, EngineInv
    <3> QED
      BY <3>1, <3>2, <2>e, <1>i, <1>z
  <2>4. CASE TeeLock
    <3>1. pos'.ver = pos.ver /\ pos'.qty = pos.qty
      BY <2>4, <1>t DEF TeeLock, PosType
    <3>2. t.pc = "lock" /\ w["exit"].pc = "idle"
      BY <2>4 DEF TeeLock, EngineInv
    <3>3. CASE t' = IdleEngine /\ UNCHANGED w
      BY <3>1, <3>2, <3>3, <2>e, <1>i, <1>z
    <3>4. CASE /\ t' = [IdleEngine EXCEPT !.pc = "filling", !.ver = t.ver]
               /\ StartUpdate("exit", CloseSide(t.qty), Size(t.qty), t.level)
      <4>1. t'.pc = "filling" /\ t'.ver = t.ver
        BY <3>4 DEF IdleEngine
      <4>2. w'["exit"].pc = "read" /\ w'["exit"].side = CloseSide(t.qty) /\ w'["exit"].qty = Size(t.qty)
        BY <3>4, <1>t DEF StartUpdate, IdleUpdate
      <4> HIDE <3>4
      <4>3. t.ver = pos.ver => t.qty = pos.qty /\ pos.qty # 0
        BY <3>2 DEF EngineInv
      <4> QED
        BY <3>1, <4>1, <4>2, <4>3, <2>e DEF EngineInv, Exiting
    <3> QED
      BY <2>4, <3>3, <3>4 DEF TeeLock
  <2>5. CASE TeeDone
    <3>1. w'["exit"].pc = "idle" /\ t' = IdleEngine /\ UNCHANGED pos
      BY <2>5, <1>t, <1>i DEF TeeDone, tables
    <3> QED
      BY <3>1, <2>e, <1>i, <1>z
  <2> QED
    BY <1>4, <2>1, <2>2, <2>3, <2>4, <2>5 DEF TeeStep
<1>5. CASE Crash
  <2>1. /\ w'["exit"].pc = "idle" /\ w'["entry"].pc = "idle" /\ c'.pc = "boot" /\ t' = IdleEngine
        /\ UNCHANGED pos
    BY <1>5, <1>t, <1>i DEF Crash, tables
  <2> QED
    BY <2>1, <1>i, <1>z
<1>6. CASE UNCHANGED vars \/ \E p \in Prices : StoreQuote(p)
  <2>1. UNCHANGED <<pos, t, w, c>>
    BY <1>6 DEF vars, StoreQuote, tables
  <2> QED
    BY <2>1, <1>k DEF EngineInv
<1> QED
  BY <1>1, <1>2, <1>3, <1>4, <1>5, <1>6 DEF Next

\* An exit that is written moves the quantity it was scanned with to zero.
LEMMA ExitClosesScanned ==
  ASSUME NEW q \in Int
  PROVE  q # 0 => q + Signed(CloseSide(q), Size(q)) = 0
BY DEF Signed, CloseSide, Direction, Size

\* What the exit engine writes fits the position it scanned: an exit of the
\* version it scanned closes exactly, and its trailing stop never loosens.
THEOREM ExitEngineKept == Spec => ExitEngineIsSound
<1>1. TypeInv /\ BookInv /\ EngineInv /\ [Next]_vars => [ExitFlattens /\ StopNeverLoosens]_vars
  <2> SUFFICES ASSUME TypeInv, BookInv, EngineInv, [Next]_vars PROVE ExitFlattens /\ StopNeverLoosens
    OBVIOUS
  <2>t. /\ pos \in PosType /\ pos.qty \in Int /\ pos.stop \in Int /\ pos.ver \in Nat
        /\ t \in EngineType /\ t.level \in Int /\ w \in [Actors -> UpdateType]
        /\ "exit" \in Actors /\ "entry" \in Actors
    BY DEF TypeInv, TypeOK, PosType, EngineType, Actors
  <2>1. ExitFlattens
    <3> SUFFICES ASSUME pos.ver = t.ver, w["exit"].pc = "write", pos'.ver # pos.ver,
                        w'["exit"].pc # "write"
                 PROVE  pos'.qty = 0
      BY DEF ExitFlattens
    <3>1. PICK a \in Actors : Fills(a)
      BY RowMoves
    <3>2. \A b \in Actors \ {a} : w'[b] = w[b]
      BY <3>1, Filled
    <3>3. a = "exit"
      BY <3>2, <2>t
    <3>4. pos'.qty = pos.qty + Signed(w["exit"].side, w["exit"].qty)
      BY <3>1, <3>3, Filled
    <3>5. /\ w["exit"].qty = Size(pos.qty) /\ w["exit"].side = CloseSide(pos.qty) /\ pos.qty # 0
      BY DEF EngineInv, Exiting
    <3> QED
      BY <3>4, <3>5, <2>t, ExitClosesScanned
  <2>2. StopNeverLoosens
    <3> SUFFICES ASSUME t.pc = "trail", pos.ver = t.ver, pos.stop = t.stop, pos'.state = "TRAILING"
                 PROVE  IF pos.qty > 0 THEN pos'.stop >= pos.stop ELSE pos'.stop <= pos.stop
      BY DEF StopNeverLoosens
    <3>1. pos'.stop = pos.stop \/ pos'.stop = t.level
      <4>1. CASE \E a \in Actors : Fills(a)
        BY <4>1, Filled
      <4>2. CASE pos' = pos
        BY <4>2
      <4>3. CASE AttachExitPolicy
        <5>1. CASE UNCHANGED pos
          BY <5>1
        <5>2. CASE ~UNCHANGED pos
          <6>1. pos'.state = "ATTACHED"
            BY <4>3, <5>2, <2>t DEF AttachExitPolicy, PosType
          <6> QED
            BY <6>1
        <5> QED
          BY <5>1, <5>2
      <4>4. CASE TeeTrail
        BY <4>4, <2>t DEF TeeTrail, PosType
      <4>5. CASE TeeLock
        BY <4>5 DEF TeeLock
      <4> QED
        BY <4>1, <4>2, <4>3, <4>4, <4>5, RowMoves
    <3>2. IF pos.qty > 0 THEN t.level >= pos.stop ELSE t.level <= pos.stop
      BY DEF EngineInv
    <3> QED
      BY <3>1, <3>2, <2>t
  <2> QED
    BY <2>1, <2>2
<1> QED
  BY <1>1, InitType, NextType, InitBook, NextBook, InitEngine, NextEngine, PTL DEF Spec,
     ExitEngineIsSound

-----------------------------------------------------------------------------
(* Once each                                                               *)

\* Faults are only ever used up, and a step that uses one leaves its mark.
LEMMA NextBudget ==
  ASSUME TypeInv, BudgetInv, [Next]_vars
  PROVE  /\ BudgetInv'
         /\ ~Struck("db")' => ~Struck("db") /\ ~Fault("db")
         /\ ~Struck("crash")' => ~Struck("crash") /\ ~Crash
         /\ NoFault' => NoFault
<1>t. budget \in [FaultKinds -> Nat] /\ \A kind \in FaultKinds : Allowance[kind] \in Nat
  BY BoundsAssumption DEF TypeInv, TypeOK, Allowance
<1>f. "db" \in FaultKinds /\ "crash" \in FaultKinds
  BY DEF FaultKinds
<1>1. UNCHANGED budget \/ Fault("db") \/ (Crash /\ Fault("crash"))
  <2>1. ASSUME NEW a \in Actors, FillStep(a) PROVE UNCHANGED budget \/ Fault("db")
    BY <2>1 DEF FillStep, FillRead, FillWrite, NavRead, NavWrite
  <2>2. CASE ConsumerStep
    BY <2>2 DEF ConsumerStep, Boot, PaperLookup, PaperSubmit, PaperRecord, PaperFill,
       AttachExitPolicy, ConsumerCommit
  <2>3. CASE TeeStep
    BY <2>3 DEF TeeStep, TeeScan, TeePrice, TeeTrail, TeeLock, TeeDone
  <2>4. CASE Crash
    BY <2>4 DEF Crash
  <2> QED
    BY <2>1, <2>2, <2>3, <2>4 DEF Next, ConsumerReceive, StoreQuote, vars
<1>2. ASSUME NEW kind \in FaultKinds, Fault(kind)
      PROVE  BudgetInv' /\ Struck(kind)' /\ \A k \in FaultKinds : Struck(k) => Struck(k)'
  <2>1. /\ \A k \in FaultKinds : budget'[k] <= budget[k] /\ budget'[k] \in Int
        /\ budget'[kind] < budget[kind]
    BY <1>2, <1>t DEF Fault
  <2> QED
    BY <2>1, <1>2, <1>t DEF BudgetInv, Struck
<1>3. CASE UNCHANGED budget
  <2>1. ~Fault("db") /\ ~Crash
    BY <1>2, <1>3, <1>f, <1>t DEF Fault, Crash
  <2> QED
    BY <1>3, <2>1 DEF BudgetInv, Struck, NoFault
<1>4. CASE Fault("db")
  <2>1. ~Crash \/ Struck("crash")'
    BY <1>2, <1>f DEF Crash
  <2> QED
    BY <1>2, <1>4, <1>f, <2>1 DEF NoFault
<1>5. CASE Crash /\ Fault("crash")
  <2>1. ~Fault("db") \/ Struck("db")'
    BY <1>2, <1>f
  <2> QED
    BY <1>2, <1>5, <1>f, <2>1 DEF NoFault
<1> QED
  BY <1>1, <1>3, <1>4, <1>5

\* Only the consumer's own fill adds to how often a signal was applied.
LEMMA Counted ==
  ASSUME TypeInv, BookInv, EngineInv, [Next]_vars
  PROVE  \/ truth'.times = truth.times
         \/ /\ Fills("entry") /\ c.pc = "filling" /\ c.s \in Signals /\ UNCHANGED c
            /\ truth'.times = [truth.times EXCEPT ![c.s] = @ + 1]
<1>1. CASE UNCHANGED truth
  BY <1>1
<1>2. ASSUME NEW a \in Actors, Fills(a)
      PROVE  \/ truth'.times = truth.times
             \/ /\ Fills("entry") /\ c.pc = "filling" /\ c.s \in Signals /\ UNCHANGED c
                /\ truth'.times = [truth.times EXCEPT ![c.s] = @ + 1]
  <2>1. truth'.times = IF a = "entry" THEN [truth.times EXCEPT ![c.s] = @ + 1] ELSE truth.times
    BY <1>2 DEF Fills, Witnessed
  <2>2. a = "entry" => c.pc = "filling"
    BY <1>2, Filled DEF EngineInv
  <2>3. c.pc = "filling" => c.s \in Signals
    BY DEF TypeInv, Busy
  <2>4. UNCHANGED c
    BY <1>2, Filled
  <2> QED
    BY <1>2, <2>1, <2>2, <2>3, <2>4
<1> QED
  BY <1>1, <1>2, RowMoves

\* The signal in hand stays uncommitted until the consumer commits it.
LEMMA NextInHand == TypeInv /\ InHand /\ [Next]_vars => InHand'
<1> SUFFICES ASSUME TypeInv, InHand, [Next]_vars PROVE InHand'
  OBVIOUS
<1>t. c \in ConsumerType
  BY DEF TypeInv, TypeOK
<1>1. CASE UNCHANGED <<c, msg>>
  BY <1>1 DEF InHand
<1>2. ASSUME NEW s \in Signals, ConsumerReceive(s) PROVE InHand'
  BY <1>2 DEF ConsumerReceive, InHand
<1>3. CASE ConsumerStep
  <2>1. CASE Boot \/ ConsumerCommit
    BY <2>1 DEF Boot, ConsumerCommit, IdleConsumer, InHand
  <2>2. CASE PaperLookup \/ PaperSubmit \/ PaperRecord \/ PaperFill \/ AttachExitPolicy
    <3>1. c'.s = c.s /\ UNCHANGED msg /\ c.pc \notin {"idle", "boot"}
      BY <2>2, <1>t DEF PaperLookup, PaperSubmit, PaperRecord, PaperFill,
         AttachExitPolicy, ConsumerType
    <3> QED
      BY <3>1 DEF InHand
  <2> QED
    BY <1>3, <2>1, <2>2 DEF ConsumerStep
<1>4. CASE Crash
  BY <1>4 DEF Crash, InHand
<1>5. CASE TeeStep
  BY <1>5, <1>1 DEF TeeStep, TeeScan, TeePrice, TeeTrail, TeeLock, TeeDone
<1>6. ASSUME NEW a \in Actors, FillStep(a) PROVE InHand'
  BY <1>6, <1>1, Worked
<1>7. CASE UNCHANGED vars \/ \E p \in Prices : StoreQuote(p)
  BY <1>7, <1>1 DEF vars, StoreQuote
<1> QED
  BY <1>2, <1>3, <1>4, <1>5, <1>6, <1>7 DEF Next

\* What a step of the others leaves alone.
LEMMA OthersMove ==
  ASSUME TypeInv, [Next]_vars
  PROVE  \/ UNCHANGED <<msg, order, c>> /\ w'["entry"] = w["entry"]
         \/ FillStep("entry") \/ ConsumerStep \/ Crash
         \/ \E s \in Signals : ConsumerReceive(s)
<1>w. w \in [Actors -> UpdateType] /\ "entry" \in Actors /\ "exit" \in Actors
  BY DEF TypeInv, TypeOK, Actors
<1>1. ASSUME NEW a \in Actors, FillStep(a), a # "entry"
      PROVE  UNCHANGED <<msg, order, c>> /\ w'["entry"] = w["entry"]
  BY <1>1, <1>w, Worked
<1>2. CASE TeeStep
  <2>1. UNCHANGED <<msg, order, c>>
    BY <1>2 DEF TeeStep, TeeScan, TeePrice, TeeTrail, TeeLock, TeeDone, tables
  <2>2. w'["entry"] = w["entry"]
    <3>1. CASE TeeLock
      BY <3>1, <1>w DEF TeeLock, StartUpdate
    <3>2. CASE TeeDone
      BY <3>2, <1>w DEF TeeDone
    <3> QED
      BY <1>2, <3>1, <3>2 DEF TeeStep, TeeScan, TeePrice, TeeTrail
  <2> QED
    BY <2>1, <2>2
<1>3. CASE UNCHANGED vars \/ \E p \in Prices : StoreQuote(p)
  BY <1>3 DEF vars, StoreQuote, tables
<1> QED
  BY <1>1, <1>2, <1>3 DEF Next

\* Without a crash every signal is applied at most once.
LEMMA NextCrashFree ==
  ASSUME TypeInv, BookInv, EngineInv, BudgetInv, InHand, CrashFree, [Next]_vars
  PROVE  CrashFree'
<1> SUFFICES ASSUME ~Struck("crash")' PROVE /\ c'.pc # "boot"
       /\ \A s \in Signals :
            /\ truth'.times[s] <= 1
            /\ truth'.times[s] > 0 => msg'[s] = "done" \/ (c'.s = s /\ Applied')
  BY DEF CrashFree
<1>t. /\ c \in ConsumerType /\ msg \in [Signals -> {"ready", "done"}]
      /\ truth.times \in [Signals -> Nat] /\ w \in [Actors -> UpdateType]
      /\ "entry" \in Actors
  BY DEF TypeInv, TypeOK, TruthType, Actors
<1>f. ~Struck("crash") /\ ~Crash
  BY NextBudget
<1>h. /\ c.pc # "boot"
      /\ \A s \in Signals :
           /\ truth.times[s] <= 1
           /\ truth.times[s] > 0 => msg[s] = "done" \/ (c.s = s /\ Applied)
  BY <1>f DEF CrashFree
<1>1. CASE /\ Fills("entry") /\ c.pc = "filling" /\ c.s \in Signals /\ UNCHANGED c
           /\ truth'.times = [truth.times EXCEPT ![c.s] = @ + 1]
  <2>1. w["entry"].pc = "write" /\ w'["entry"].pc \in {"navread", "done"} /\ UNCHANGED msg
    BY <1>1, <1>t, Filled
  <2>2. ~Applied /\ Applied'
    BY <1>1, <2>1 DEF Applied
  <2>3. truth.times[c.s] = 0
    BY <1>1, <1>h, <1>t, <2>2 DEF InHand
  <2> QED
    BY <1>1, <1>h, <1>t, <2>1, <2>2, <2>3
<1>2. CASE truth'.times = truth.times
  <2>1. c'.pc # "boot" /\ \A s \in Signals : \/ msg[s] = "done" => msg'[s] = "done"
    <3>1. CASE ConsumerStep
      BY <3>1, <1>t DEF ConsumerStep, Boot, PaperLookup, PaperSubmit, PaperRecord,
         PaperFill,
         AttachExitPolicy, ConsumerCommit, IdleConsumer, ConsumerType
    <3>2. CASE \E s \in Signals : ConsumerReceive(s)
      BY <3>2 DEF ConsumerReceive
    <3>3. CASE FillStep("entry")
      BY <3>3, <1>h, <1>t, Worked
    <3> QED
      BY <1>h, <1>f, <3>1, <3>2, <3>3, OthersMove
  <2>2. ASSUME Applied, c.s \in Signals PROVE msg'[c.s] = "done" \/ (c'.s = c.s /\ Applied')
    <3>1. CASE ConsumerStep
      <4>1. CASE AttachExitPolicy
        BY <4>1, <1>t DEF AttachExitPolicy, Applied, ConsumerType
      <4>2. CASE ConsumerCommit
        BY <4>2, <1>t, <2>2 DEF ConsumerCommit
      <4>3. CASE Boot \/ PaperLookup \/ PaperSubmit \/ PaperRecord \/ PaperFill
        BY <4>3, <2>2 DEF Applied, Boot, PaperLookup, PaperSubmit, PaperRecord, PaperFill
      <4> QED
        BY <3>1, <4>1, <4>2, <4>3 DEF ConsumerStep
    <3>2. CASE \E s \in Signals : ConsumerReceive(s)
      BY <3>2, <2>2 DEF ConsumerReceive, Applied
    <3>3. CASE FillStep("entry")
      <4>1. /\ w'["entry"].pc # "idle" /\ UNCHANGED c
            /\ w'["entry"].pc \in {"read", "write"} => w["entry"].pc \in {"read", "write"}
            /\ w'["entry"] \in UpdateType
        <5>1. TypeInv'
          BY NextType
        <5> QED
          BY <3>3, <1>t, <5>1, Worked DEF TypeInv, TypeOK
      <4>2. c.pc = "filling"
        BY <3>3, <1>t, Worked DEF EngineInv
      <4> QED
        BY <4>1, <4>2, <2>2 DEF Applied, UpdateType
    <3>4. CASE UNCHANGED <<msg, order, c>> /\ w'["entry"] = w["entry"]
      BY <3>4, <2>2 DEF Applied
    <3> QED
      BY <1>f, <3>1, <3>2, <3>3, <3>4, OthersMove
  <2> QED
    BY <1>2, <1>h, <2>1, <2>2
<1> QED
  BY <1>1, <1>2, Counted

\* The recorded fills.
Recorded == {"FILLED", "PARTIALLY_FILLED"}

\* Without a failed call every signal is applied at most once, and its row is
\* there to say so.
LEMMA NextErrorFree ==
  ASSUME TypeInv, BookInv, EngineInv, BudgetInv, ErrorFree, [Next]_vars
  PROVE  ErrorFree'
<1> SUFFICES ASSUME ~Struck("db")' PROVE ErrorFree'
  BY DEF ErrorFree
<1>t. /\ c \in ConsumerType /\ order \in [Signals -> RowStatus]
      /\ truth.times \in [Signals -> Nat] /\ w \in [Actors -> UpdateType]
      /\ w["entry"] \in UpdateType /\ w'["entry"] \in UpdateType
      /\ c.pc \notin {"idle", "boot"} => c.s \in Signals
  <2>1. TypeInv'
    BY NextType
  <2> QED
    BY <2>1 DEF TypeInv, TypeOK, TruthType, Actors, Busy
<1>f. ~Struck("db") /\ ~Fault("db")
  BY NextBudget
<1>h. /\ \A s \in Signals :
           /\ truth.times[s] <= 1
           /\ truth.times[s] > 0 => order[s] \in Recorded
      /\ c.pc = "submit" => order[c.s] = "NONE"
      /\ c.pc = "record" => order[c.s] = "PENDING"
      /\ c.pc = "fill" => order[c.s] = PaperStatus(sig[c.s]) /\ truth.times[c.s] = 0
      /\ c.pc = "filling" => order[c.s] \in Recorded
      /\ Applying => truth.times[c.s] = 0
  BY <1>f DEF ErrorFree, Recorded
\* What has to be shown of the state after the step.
<1>g. ASSUME \A s \in Signals :
               /\ truth'.times[s] <= 1
               /\ truth'.times[s] > 0 => order'[s] \in Recorded,
             c'.pc = "submit" => order'[c'.s] = "NONE",
             c'.pc = "record" => order'[c'.s] = "PENDING",
             c'.pc = "fill" => order'[c'.s] = PaperStatus(sig'[c'.s]) /\ truth'.times[c'.s] = 0,
             c'.pc = "filling" => order'[c'.s] \in Recorded,
             Applying' => truth'.times[c'.s] = 0
      PROVE  ErrorFree'
  BY <1>g DEF ErrorFree, Recorded
<1>n. "NONE" \notin Recorded /\ "PENDING" \notin Recorded
  BY DEF Recorded
<1>s. UNCHANGED sig
  <2>1. ASSUME NEW a \in Actors, FillStep(a) PROVE UNCHANGED sig
    BY <2>1, Worked
  <2> QED
    BY <2>1 DEF Next, ConsumerReceive, ConsumerStep, Boot, PaperLookup, PaperSubmit,
       PaperRecord,
       PaperFill, AttachExitPolicy, ConsumerCommit, TeeStep, TeeScan, TeePrice, TeeTrail, TeeLock,
       TeeDone, StoreQuote, Crash, vars
<1>1. CASE /\ Fills("entry") /\ c.pc = "filling" /\ c.s \in Signals /\ UNCHANGED c
           /\ truth'.times = [truth.times EXCEPT ![c.s] = @ + 1]
  <2>1. w["entry"].pc = "write" /\ w'["entry"].pc \in {"navread", "done"} /\ UNCHANGED order
    BY <1>1, <1>t, Filled DEF Actors
  <2>2. Applying /\ ~Applying'
    BY <1>1, <2>1 DEF Applying
  <2> QED
    BY <1>1, <1>h, <1>t, <1>g, <2>1, <2>2
<1>2. CASE truth'.times = truth.times
  <2>1. CASE FillStep("entry")
    <3>1. UNCHANGED <<c, order>> /\ (Applying' => Applying)
      BY <2>1, Worked DEF Applying, Actors
    <3> QED
      BY <3>1, <1>2, <1>h, <1>g, <1>s
  <2>2. CASE UNCHANGED <<msg, order, c>> /\ w'["entry"] = w["entry"]
    <3>1. Applying' => Applying
      BY <2>2 DEF Applying
    <3> QED
      BY <3>1, <2>2, <1>2, <1>h, <1>g, <1>s
  <2>3. CASE Crash
    <3>1. c'.pc = "boot" /\ UNCHANGED order /\ ~Applying'
      BY <2>3 DEF Crash, tables, Applying
    <3> QED
      BY <3>1, <1>2, <1>h, <1>g
  <2>4. ASSUME NEW s \in Signals, ConsumerReceive(s) PROVE ErrorFree'
    <3>1. c'.pc \in {"lookup", "commit"} /\ UNCHANGED order /\ ~Applying'
      BY <2>4 DEF ConsumerReceive, tables, Applying
    <3> QED
      BY <3>1, <1>2, <1>h, <1>g
  <2>5. CASE Boot
    <3>1. c'.pc = "idle" /\ ~Applying'
      BY <2>5 DEF Boot, IdleConsumer, Applying
    <3>2. \A s \in Signals : order[s] \in Recorded => order'[s] = order[s]
      BY <2>5, <1>n DEF Boot, Pending
    <3> QED
      BY <3>1, <3>2, <1>2, <1>h, <1>g
  <2>6. CASE PaperLookup
    <3>1. /\ c'.pc = IF order[c.s] = "NONE" THEN "submit" ELSE "commit"
          /\ c'.s = c.s /\ UNCHANGED order
      BY <2>6, <1>f, <1>t DEF PaperLookup, tables, ConsumerType
    <3>2. ~Applying'
      BY <3>1 DEF Applying
    <3> QED
      BY <3>1, <3>2, <1>2, <1>h, <1>g
  <2>7. CASE PaperSubmit
    <3>1. /\ c.s \in Signals /\ order[c.s] = "NONE" /\ c'.pc = "record" /\ c'.s = c.s
          /\ order' = [order EXCEPT ![c.s] = "PENDING"]
      BY <2>7, <1>f, <1>t, <1>h DEF PaperSubmit, ConsumerType
    <3>2. ~Applying'
      BY <3>1 DEF Applying
    <3> QED
      BY <3>1, <3>2, <1>2, <1>h, <1>g, <1>t, <1>n
  <2>8. CASE PaperRecord
    <3>1. /\ c.s \in Signals /\ order[c.s] = "PENDING" /\ c'.pc = "fill" /\ c'.s = c.s
          /\ order' = [order EXCEPT ![c.s] = PaperStatus(sig[c.s])]
      BY <2>8, <1>f, <1>t, <1>h DEF PaperRecord, ConsumerType
    <3>2. ~Applying'
      BY <3>1 DEF Applying
    <3>3. truth.times[c.s] = 0
      BY <3>1, <1>h, <1>n, <1>t
    <3> QED
      BY <3>1, <3>2, <3>3, <1>2, <1>h, <1>g, <1>t, <1>s
  <2>9. CASE PaperFill
    <3>1. c.pc = "fill" /\ c.s \in Signals /\ c'.s = c.s /\ UNCHANGED order
      BY <2>9, <1>t DEF PaperFill, tables, ConsumerType
    <3>2. (c'.pc = "filling" /\ sig[c.s].fill > 0) \/ c'.pc = "commit"
      BY <2>9, <1>t DEF PaperFill, ConsumerType
    <3>3. sig[c.s].fill > 0 => order[c.s] \in Recorded
      <4>1. sig[c.s] \in OrderType
        BY <3>1, PlansAssumption DEF TypeInv, TypeOK
      <4> QED
        BY <3>1, <4>1, <1>h DEF PaperStatus, Recorded, OrderType
    <3> QED
      BY <3>1, <3>2, <3>3, <1>2, <1>h, <1>g
  <2>10. CASE AttachExitPolicy \/ ConsumerCommit
    <3>1. c'.pc \in {"idle", "commit"} /\ UNCHANGED order
      BY <2>10, <1>t DEF AttachExitPolicy, ConsumerCommit, IdleConsumer, tables,
         ConsumerType
    <3>2. ~Applying'
      BY <3>1 DEF Applying
    <3> QED
      BY <3>1, <3>2, <1>2, <1>h, <1>g
  <2> QED
    BY <2>1, <2>2, <2>3, <2>4, <2>5, <2>6, <2>7, <2>8, <2>9, <2>10, OthersMove DEF
       ConsumerStep
<1> QED
  BY <1>1, <1>2, Counted

\* An update that is under way without a fault either succeeds, misses and tries
\* again, or was the last attempt.
LEMMA Attempted ==
  ASSUME TypeInv, BookInv, NEW a \in Actors, FillStep(a), w[a].pc \in {"read", "write"},
         ~Fault("db")
  PROVE  \/ Fills(a)
         \/ /\ w[a].pc = "read" /\ w'[a].pc = "write" /\ w'[a].ver = pos.ver
            /\ w'[a].tries = w[a].tries /\ UNCHANGED pos
         \/ /\ w[a].pc = "write" /\ w[a].ver # pos.ver /\ UNCHANGED pos
            /\ \/ w'[a].pc = "read" /\ w'[a].tries = w[a].tries + 1
               \/ w'[a].pc = "done" /\ w[a].tries >= Attempts - 1
<1>t. w \in [Actors -> UpdateType] /\ w[a] \in UpdateType
  BY DEF TypeInv, TypeOK
<1>1. CASE FillRead(a)
  BY <1>1, <1>t DEF FillRead, tables, UpdateType
<1>2. CASE FillWrite(a)
  <2>1. CASE pos.ver = w[a].ver
    BY <1>2, <2>1 DEF FillWrite, Fills
  <2>2. CASE pos.ver # w[a].ver
    BY <1>2, <2>2, <1>t DEF FillWrite, Finish, IdleUpdate
  <2> QED
    BY <2>1, <2>2
<1>3. ~NavRead(a) /\ ~NavWrite(a)
  BY DEF NavRead, NavWrite
<1> QED
  BY <1>1, <1>2, <1>3 DEF FillStep

\* The exit engine's next writes are numbered.
LEMMA AheadType == Ahead \in {0, 1, 2} /\ Missed \in {0, 1}
BY DEF Ahead, Missed

\* A fill of the exit engine uses up one of the writes it has ahead.
LEMMA ExitUsesUp ==
  ASSUME TypeInv, BookInv, EngineInv, Fills("exit")
  PROVE  Ahead' + 1 <= Ahead /\ Missed' <= Missed + 1
<1>t. /\ w \in [Actors -> UpdateType] /\ pos.qty \in Int /\ pos.ver \in Nat
      /\ "entry" \in Actors /\ "exit" \in Actors /\ t.ver \in Nat
  BY DEF TypeInv, TypeOK, PosType, Actors, EngineType
<1>1. /\ w["exit"].pc = "write" /\ w'["exit"].pc \in {"navread", "done"}
      /\ w'["entry"] = w["entry"] /\ UNCHANGED t
      /\ pos'.ver = pos.ver + 1
      /\ pos'.qty = pos.qty + Signed(w["exit"].side, w["exit"].qty)
  BY <1>t, Filled
<1>2. t.pc = "filling" /\ Exiting /\ ~Exiting'
  BY <1>1 DEF EngineInv, Exiting
<1>3. Ahead = IF t.ver = pos.ver THEN 1 ELSE 2
  BY <1>2 DEF Ahead
<1>4. Ahead' = IF pos'.qty = 0 THEN 0 ELSE 1
  BY <1>1, <1>2 DEF Ahead
<1>5. t.ver = pos.ver => pos'.qty = 0
  <2>1. t.ver = pos.ver => /\ w["exit"].qty = Size(pos.qty) /\ w["exit"].side = CloseSide(pos.qty)
                           /\ pos.qty # 0
    BY <1>2 DEF EngineInv
  <2> QED
    BY <1>1, <1>t, <2>1, ExitClosesScanned
<1>6. Missed' <= Missed + 1
  BY DEF Missed
<1> QED
  BY <1>3, <1>4, <1>5, <1>6

\* A step that writes no fill adds nothing to what the engine has ahead.
LEMMA AheadStays ==
  ASSUME TypeInv, BookInv, EngineInv, [Next]_vars, pos'.ver = pos.ver, pos'.qty = pos.qty
  PROVE  Ahead' <= Ahead
<1>t. /\ w \in [Actors -> UpdateType] /\ "entry" \in Actors /\ "exit" \in Actors /\ t \in EngineType
      /\ \A a \in Actors : a = "entry" \/ a = "exit"
  BY DEF TypeInv, TypeOK, Actors
<1>i. IdleEngine.pc = "idle" /\ IdleUpdate.pc = "idle"
  BY DEF IdleEngine, IdleUpdate
<1>z. ASSUME t'.pc \notin {"price", "lock", "filling"} PROVE Ahead' <= Ahead
  BY <1>z DEF Ahead, Exiting
<1>1. CASE UNCHANGED t /\ (Exiting' => Exiting)
  BY <1>1 DEF Ahead
<1>2. ASSUME NEW a \in Actors, FillStep(a) PROVE UNCHANGED t /\ (Exiting' => Exiting)
  BY <1>2, <1>t, Worked DEF Exiting
<1>3. CASE ConsumerStep
  <2>1. UNCHANGED t /\ w'["exit"] = w["exit"]
    <3>1. CASE PaperFill
      BY <3>1, <1>t DEF PaperFill, StartUpdate
    <3>2. CASE AttachExitPolicy
      BY <3>2, <1>t DEF AttachExitPolicy
    <3> QED
      BY <1>3, <3>1, <3>2 DEF ConsumerStep, Boot, PaperLookup, PaperSubmit, PaperRecord,
         ConsumerCommit
  <2> QED
    BY <2>1, <1>1 DEF Exiting
<1>4. CASE TeeStep
  <2>1. CASE TeeScan
    <3>1. t.pc = "idle" /\ pos.qty # 0 /\ t'.pc = "price" /\ t'.ver = pos.ver
      BY <2>1 DEF TeeScan
    <3> QED
      BY <3>1 DEF Ahead, Exiting
  <2>2. CASE TeePrice
    <3>1. t.pc = "price" /\ \E last \in Int : t' = Decision(last)
      BY <2>2, <1>t DEF TeePrice, TypeInv, TypeOK, EngineType
    <3>2. PICK last \in Int : t' = Decision(last)
      BY <3>1
    <3>3. t'.pc \in {"idle", "trail"} \/ (t'.pc = "lock" /\ t'.ver = t.ver)
      <4>1. \A d : d = Decision(last) => d.pc \in {"idle", "trail"} \/ (d.pc = "lock" /\ d.ver = t.ver)
        BY <1>t, Decided
      <4> QED
        BY <4>1, <3>2
    <3>4. CASE t'.pc \in {"idle", "trail"}
      BY <3>4, <1>z
    <3>5. CASE t'.pc = "lock" /\ t'.ver = t.ver
      BY <3>5, <3>1 DEF Ahead
    <3> QED
      BY <3>3, <3>4, <3>5
  <2>3. CASE t' = IdleEngine
    BY <2>3, <1>i, <1>z
  <2>4. CASE t.pc = "lock" /\ t' = [IdleEngine EXCEPT !.pc = "filling", !.ver = t.ver]
    <3>1. t'.ver = t.ver /\ t'.pc = "filling"
      BY <2>4 DEF IdleEngine
    <3>2. Ahead = IF t.ver = pos.ver THEN 1 ELSE 2
      BY <2>4 DEF Ahead
    <3>3. Ahead' <= IF t.ver = pos.ver THEN 1 ELSE 2
      BY <3>1 DEF Ahead
    <3> QED
      BY <3>2, <3>3, AheadType
  <2> QED
    BY <1>4, <2>1, <2>2, <2>3, <2>4 DEF TeeStep, TeeTrail, TeeLock, TeeDone
<1>5. CASE Crash
  BY <1>5, <1>i, <1>z DEF Crash
<1>6. CASE UNCHANGED vars \/ (\E p \in Prices : StoreQuote(p)) \/ \E s \in Signals : ConsumerReceive(s)
  BY <1>6, <1>1 DEF vars, StoreQuote, ConsumerReceive, Exiting
<1> QED
  BY <1>1, <1>2, <1>3, <1>4, <1>5, <1>6 DEF Next

\* Without a fault a lock on an open position has an exit that will succeed.
LEMMA NextLock ==
  ASSUME TypeInv, BookInv, EngineInv, BudgetInv, LockInv, [Next]_vars
  PROVE  LockInv'
<1> SUFFICES ASSUME NoFault', pos'.locked, pos'.qty # 0
             PROVE  \/ w'["exit"].pc = "read"
                    \/ w'["exit"].pc = "write" /\ w'["exit"].ver = pos'.ver
  BY DEF LockInv
<1>t. /\ w \in [Actors -> UpdateType] /\ "entry" \in Actors /\ "exit" \in Actors /\ pos \in PosType
      /\ w["exit"] \in UpdateType
  BY DEF TypeInv, TypeOK, Actors
<1>f. NoFault /\ ~Fault("db") /\ ~Crash
  BY NextBudget DEF NoFault
<1>1. ~\E a \in Actors : Fills(a)
  BY Filled
<1>2. pos'.ver = pos.ver /\ pos'.qty = pos.qty
  BY <1>1, RowMoves
<1>k. ASSUME pos.locked, w'["exit"] = w["exit"]
      PROVE  \/ w'["exit"].pc = "read"
             \/ w'["exit"].pc = "write" /\ w'["exit"].ver = pos'.ver
  BY <1>k, <1>2, <1>f DEF LockInv
<1>3. CASE FillStep("exit")
  <2>1. UNCHANGED pos
    BY <1>1, <1>3, <1>t DEF FillStep, FillRead, FillWrite, NavRead, NavWrite, Fills,
       tables
  <2>2. w["exit"].pc = "read" \/ (w["exit"].pc = "write" /\ w["exit"].ver = pos.ver)
    BY <2>1, <1>f DEF LockInv
  <2> QED
    BY <2>1, <2>2, <1>1, <1>3, <1>f, <1>t, Attempted
<1>4. CASE TeeLock
  <2>1. CASE /\ t' = [IdleEngine EXCEPT !.pc = "filling", !.ver = t.ver]
             /\ StartUpdate("exit", CloseSide(t.qty), Size(t.qty), t.level)
    BY <2>1, <1>t DEF StartUpdate, IdleUpdate
  <2>2. CASE UNCHANGED w /\ pos.locked
    BY <2>2, <1>k
  <2> QED
    BY <2>1, <2>2, <1>f, <1>2, <1>4 DEF TeeLock
<1>5. CASE TeeDone
  <2>1. UNCHANGED pos /\ w["exit"].pc = "done"
    BY <1>5 DEF TeeDone, tables
  <2> QED
    BY <2>1, <1>f DEF LockInv
<1>6. CASE w'["exit"] = w["exit"] /\ ~TeeLock
  <2>1. pos'.locked = pos.locked
    <3>1. CASE AttachExitPolicy
      BY <3>1, <1>t DEF AttachExitPolicy, PosType
    <3>2. CASE TeeTrail
      BY <3>2, <1>t DEF TeeTrail, PosType
    <3> QED
      BY <1>1, <1>6, <3>1, <3>2, RowMoves
  <2> QED
    BY <2>1, <1>6, <1>k
<1> QED
  BY <1>3, <1>4, <1>5, <1>6, <1>f, ActorMoves

\* Without a fault the consumer's update never runs out of attempts.
LEMMA NextRetry ==
  ASSUME TypeInv, BookInv, EngineInv, BudgetInv, RetryInv, [Next]_vars
  PROVE  RetryInv'
<1> SUFFICES ASSUME NoFault', Applying' PROVE w'["entry"].tries + Missed' + Ahead' <= 2
  BY DEF RetryInv
<1>t. /\ w \in [Actors -> UpdateType] /\ "entry" \in Actors /\ "exit" \in Actors
      /\ w["entry"].tries \in Nat /\ pos.ver \in Nat /\ c \in ConsumerType
      /\ \A a \in Actors : a = "entry" \/ a = "exit"
  BY BoundsAssumption DEF TypeInv, TypeOK, UpdateType, Actors, PosType
<1>f. NoFault /\ ~Fault("db") /\ ~Crash
  BY NextBudget DEF NoFault
<1>a. /\ Ahead \in Nat /\ Ahead <= 2 /\ Ahead' \in Nat /\ Ahead' <= 2
      /\ Missed \in Nat /\ Missed <= 1 /\ Missed' \in Nat /\ Missed' <= 1
  BY DEF Ahead, Missed
<1>1. CASE Fills("exit")
  <2>1. UNCHANGED c /\ w'["entry"] = w["entry"]
    BY <1>1, <1>t, Filled
  <2>2. w["entry"].tries + Missed + Ahead <= 2
    BY <2>1, <1>f DEF RetryInv, Applying
  <2>3. Ahead' + 1 <= Ahead /\ Missed' <= Missed + 1
    BY <1>1, ExitUsesUp
  <2>4. \A n, m, h, m1, h1 \in Nat :
          n + m + h <= 2 /\ h1 + 1 <= h /\ m1 <= m + 1 => n + m1 + h1 <= 2
    OBVIOUS
  <2>5. w["entry"].tries + Missed' + Ahead' <= 2
    BY <2>2, <2>3, <2>4, <1>a, <1>t, Zenon
  <2> QED
    BY <2>1, <2>5, Zenon
<1>2. ~Fills("entry")
  <2>1. Fills("entry") => w'["entry"].pc \in {"navread", "done"}
    BY <1>t, Filled
  <2> QED
    BY <2>1 DEF Applying
<1>3. CASE ~Fills("exit")
  <2>1. pos'.ver = pos.ver /\ pos'.qty = pos.qty
    BY <1>2, <1>3, <1>t, RowMoves
  <2>2. Ahead' <= Ahead
    BY <2>1, AheadStays
  <2>3. CASE FillStep("entry")
    <3>1. UNCHANGED c /\ Applying
      BY <2>3, <1>t, Worked DEF Applying
    <3>2. w["entry"].tries + Missed + Ahead <= 2
      BY <3>1, <1>f DEF RetryInv
    <3>3. w'["entry"].tries + Missed' <= w["entry"].tries + Missed
      <4>1. CASE /\ w["entry"].pc = "read" /\ w'["entry"].pc = "write" /\ w'["entry"].ver = pos.ver
                 /\ w'["entry"].tries = w["entry"].tries /\ UNCHANGED pos
        BY <4>1, <1>a, <1>t DEF Missed
      <4>2. CASE /\ w["entry"].pc = "write" /\ w["entry"].ver # pos.ver /\ UNCHANGED pos
                 /\ w'["entry"].pc = "read" /\ w'["entry"].tries = w["entry"].tries + 1
        BY <4>2, <1>t DEF Missed
      <4>3. w["entry"].pc \in {"read", "write"} /\ w'["entry"].pc \in {"read", "write"}
        BY <3>1 DEF Applying
      <4> QED
        BY <4>1, <4>2, <4>3, <2>3, <1>2, <1>f, <1>t, Attempted
    <3>4. w'["entry"].tries \in Nat
      BY NextType, BoundsAssumption, <1>t DEF TypeInv, TypeOK, UpdateType
    <3> QED
      BY <3>2, <3>3, <3>4, <2>2, <1>a, <1>t
  <2>4. CASE PaperFill
    <3>1. w'["entry"].tries = 0 /\ w'["entry"].pc = "read"
      <4>1. c'.pc = "filling"
        BY DEF Applying
      <4>2. c' # [c EXCEPT !.pc = "commit"]
        BY <4>1, <1>t DEF ConsumerType
      <4>3. ASSUME NEW side, NEW q, NEW price, StartUpdate("entry", side, q, price)
            PROVE  w'["entry"].tries = 0 /\ w'["entry"].pc = "read"
        BY <4>3, <1>t DEF StartUpdate, IdleUpdate
      <4> QED
        BY <2>4, <4>2, <4>3 DEF PaperFill
    <3>2. Missed' = 0
      BY <3>1 DEF Missed
    <3>3. \A n, m, h \in Nat : n = 0 /\ m = 0 /\ h <= 2 => n + m + h <= 2
      OBVIOUS
    <3> QED
      BY <3>1, <3>2, <3>3, <1>a, Zenon
  <2>5. CASE w'["entry"] = w["entry"] /\ ~PaperFill /\ ~AttachExitPolicy
    <3>1. Applying /\ Missed' = Missed
      <4>1. c.pc = "filling"
        <5>1. w["entry"].pc # "idle"
          BY <2>5 DEF Applying
        <5> QED
          BY <5>1 DEF EngineInv
      <4> QED
        BY <4>1, <2>1, <2>5 DEF Applying, Missed
    <3> QED
      BY <3>1, <2>2, <2>5, <1>a, <1>f, <1>t DEF RetryInv
  <2>6. ~AttachExitPolicy
    BY <1>t DEF AttachExitPolicy, Applying, ConsumerType
  <2> QED
    BY <2>3, <2>4, <2>5, <2>6, <1>f, ActorMoves
<1> QED
  BY <1>1, <1>3

\* Without a fault a recorded fill is on its way or has been applied.
LEMMA NextRecorded ==
  ASSUME TypeInv, BookInv, EngineInv, BudgetInv, CrashFree, ErrorFree, RetryInv, RecordedInv,
         Attempts >= 3, [Next]_vars
  PROVE  RecordedInv'
<1> SUFFICES ASSUME NoFault', NEW s \in Signals, order'[s] \in Recorded
             PROVE  truth'.times[s] = 1 \/ (c'.s = s /\ (c'.pc = "fill" \/ Applying'))
  BY DEF RecordedInv, Recorded
<1>t. /\ c \in ConsumerType /\ order \in [Signals -> RowStatus]
      /\ truth.times \in [Signals -> Nat] /\ w \in [Actors -> UpdateType]
      /\ "entry" \in Actors /\ w["entry"].tries \in Nat
      /\ c.pc \notin {"idle", "boot"} => c.s \in Signals
  BY BoundsAssumption DEF TypeInv, TypeOK, TruthType, UpdateType, Actors, Busy
<1>f. NoFault /\ ~Fault("db") /\ ~Crash
  BY NextBudget DEF NoFault
<1>c. c.pc # "boot"
  BY <1>f DEF CrashFree, NoFault
<1>n. "NONE" \notin Recorded /\ "PENDING" \notin Recorded /\ "LIVE" \notin Recorded
      /\ "REJECTED" \notin Recorded
  BY DEF Recorded
\* Of a signal that was recorded before.
<1>h. order[s] \in Recorded =>
        truth.times[s] = 1 \/ (c.s = s /\ (c.pc = "fill" \/ Applying))
  BY <1>f DEF RecordedInv, Recorded
<1>e. /\ c.pc = "fill" => order[c.s] = PaperStatus(sig[c.s])
      /\ Applying => truth.times[c.s] = 0
      /\ c.pc = "record" => order[c.s] = "PENDING"
  BY <1>f DEF ErrorFree, NoFault
<1>1. CASE /\ Fills("entry") /\ c.pc = "filling" /\ c.s \in Signals /\ UNCHANGED c
           /\ truth'.times = [truth.times EXCEPT ![c.s] = @ + 1]
  <2>1. w["entry"].pc = "write" /\ UNCHANGED order
    BY <1>1, <1>t, Filled
  <2>2. truth.times[c.s] = 0
    BY <1>1, <2>1, <1>e DEF Applying
  <2>3. CASE s = c.s
    BY <1>1, <2>2, <2>3, <1>t
  <2>4. CASE s # c.s
    BY <1>1, <2>1, <2>4, <1>h, <1>t
  <2> QED
    BY <2>3, <2>4
<1>2. CASE truth'.times = truth.times /\ ~Fills("entry")
  <2>1. CASE FillStep("entry")
    <3>1. UNCHANGED <<c, order>>
      BY <2>1, <1>t, Worked
    <3>2. Applying => Applying'
      <4> SUFFICES ASSUME Applying PROVE w'["entry"].pc \in {"read", "write"}
        BY <3>1 DEF Applying
      <4>1. w["entry"].pc \in {"read", "write"}
        BY DEF Applying
      <4>2. w["entry"].pc = "write" /\ w["entry"].ver # pos.ver => w["entry"].tries < Attempts - 1
        <5>1. w["entry"].tries + Missed + Ahead <= 2
          BY <1>f DEF RetryInv
        <5>2. w["entry"].pc = "write" /\ w["entry"].ver # pos.ver => Missed = 1
          BY DEF Missed
        <5> QED
          BY <5>1, <5>2, <1>t, AheadType, BoundsAssumption
      <4> QED
        BY <4>1, <4>2, <2>1, <1>2, <1>f, <1>t, BoundsAssumption, Attempted
    <3> QED
      BY <3>1, <3>2, <1>2, <1>h
  <2>2. CASE UNCHANGED <<msg, order, c>> /\ w'["entry"] = w["entry"]
    <3>1. Applying => Applying'
      BY <2>2 DEF Applying
    <3> QED
      BY <3>1, <2>2, <1>2, <1>h
  <2>3. ASSUME NEW r \in Signals, ConsumerReceive(r)
        PROVE  truth'.times[s] = 1
    <3>1. UNCHANGED order /\ c.pc = "idle"
      BY <2>3 DEF ConsumerReceive, tables
    <3> QED
      BY <3>1, <1>2, <1>h DEF Applying
  <2>4. CASE PaperLookup \/ ConsumerCommit
    <3>1. UNCHANGED order /\ c.pc \in {"lookup", "commit"}
      BY <2>4 DEF PaperLookup, ConsumerCommit, tables
    <3> QED
      BY <3>1, <1>2, <1>h DEF Applying
  <2>5. CASE PaperSubmit
    <3>1. c.pc = "submit" /\ (order' = order \/ order' = [order EXCEPT ![c.s] = "PENDING"])
      BY <2>5 DEF PaperSubmit
    <3>2. order[s] \in Recorded
      BY <3>1, <1>t, <1>n
    <3> QED
      BY <3>1, <3>2, <1>2, <1>h DEF Applying
  <2>6. CASE PaperRecord
    <3>1. c.pc = "record" /\ c'.pc = "fill" /\ c'.s = c.s
          /\ order' = [order EXCEPT ![c.s] = PaperStatus(sig[c.s])]
      BY <2>6, <1>f, <1>t DEF PaperRecord, ConsumerType
    <3>2. s # c.s => order[s] \in Recorded
      BY <3>1, <1>t
    <3> QED
      BY <3>1, <3>2, <1>2, <1>h DEF Applying
  <2>7. CASE PaperFill
    <3>1. c.pc = "fill" /\ c'.s = c.s /\ UNCHANGED order
      BY <2>7, <1>t DEF PaperFill, tables, ConsumerType
    <3>2. CASE s # c.s
      BY <3>1, <3>2, <1>2, <1>h DEF Applying
    <3>3. CASE s = c.s
      <4>0. sig[s] \in OrderType
        BY PlansAssumption DEF TypeInv, TypeOK
      <4>1. sig[s].fill # 0
        BY <3>1, <3>3, <4>0, <1>e, <1>n DEF PaperStatus, OrderType
      <4>2. c' = [c EXCEPT !.pc = "filling"]
            /\ \E side, q, price : StartUpdate("entry", side, q, price)
        BY <2>7, <3>3, <4>1 DEF PaperFill
      <4>3. ASSUME NEW side, NEW q, NEW price, StartUpdate("entry", side, q, price)
            PROVE  w'["entry"].pc = "read"
        BY <4>3, <1>t DEF StartUpdate, IdleUpdate
      <4>4. c'.pc = "filling" /\ w'["entry"].pc = "read"
        BY <4>2, <4>3, <1>t DEF ConsumerType
      <4> QED
        BY <4>4, <3>1, <3>3 DEF Applying
    <3> QED
      BY <3>2, <3>3
  <2>8. CASE AttachExitPolicy
    <3>1. c.pc = "filling" /\ w["entry"].pc = "done" /\ UNCHANGED order
      BY <2>8 DEF AttachExitPolicy
    <3> QED
      BY <3>1, <1>2, <1>h DEF Applying
  <2>9. ~Boot
    BY <1>c DEF Boot
  <2> QED
    BY <1>f, <2>1, <2>2, <2>3, <2>4, <2>5, <2>6, <2>7, <2>8, <2>9, OthersMove DEF
       ConsumerStep
<1>3. CASE truth'.times = truth.times /\ Fills("entry")
  <2>1. truth'.times = [truth.times EXCEPT ![c.s] = @ + 1] /\ c.s \in Signals
    <3>1. c.pc = "filling"
      BY <1>3, <1>t, Filled DEF EngineInv
    <3> QED
      BY <3>1, <1>3, <1>t DEF Fills, Witnessed
  <2> QED
    BY <2>1, <1>3, <1>t
<1> QED
  BY <1>1, <1>2, <1>3, Counted

\* At the start nothing has been applied.
LEMMA InitOnce == Init => OnceInv
<1> SUFFICES ASSUME Init PROVE OnceInv
  OBVIOUS
<1>1. c.pc = "idle" /\ w["entry"].pc = "idle" /\ ~pos.locked
      /\ \A s \in Signals : truth.times[s] = 0 /\ order[s] = "NONE"
  BY DEF Init, IdleConsumer, IdleUpdate, Actors
<1>2. BudgetInv
  BY BoundsAssumption DEF Init, BudgetInv, Allowance
<1> QED
  BY <1>1, <1>2 DEF OnceInv, InHand, CrashFree, ErrorFree, RecordedInv, RetryInv,
     LockInv, Applying

\* Every step keeps the account of what was applied, given the three attempts
\* of the code.
LEMMA NextOnce ==
  ASSUME Attempts >= 3
  PROVE  TypeInv /\ BookInv /\ EngineInv /\ OnceInv /\ [Next]_vars => OnceInv'
<1> SUFFICES ASSUME TypeInv, BookInv, EngineInv, OnceInv, [Next]_vars PROVE OnceInv'
  OBVIOUS
<1>h. BudgetInv /\ InHand /\ CrashFree /\ ErrorFree /\ RecordedInv /\ RetryInv /\ LockInv
  BY DEF OnceInv
<1>1. BudgetInv'
  BY <1>h, NextBudget
<1>2. InHand'
  BY <1>h, NextInHand
<1>3. CrashFree'
  BY <1>h, NextCrashFree
<1>4. ErrorFree'
  BY <1>h, NextErrorFree
<1>5. RecordedInv'
  BY <1>h, NextRecorded
<1>6. RetryInv'
  BY <1>h, NextRetry
<1>7. LockInv'
  BY <1>h, NextLock
<1> QED
  BY <1>1, <1>2, <1>3, <1>4, <1>5, <1>6, <1>7 DEF OnceInv

\* What the account says of the signals and of the lock.
LEMMA OnceIsSound ==
  TypeInv /\ OnceInv => PaperFillsCounted /\ NotBothPaperAndLive /\ LockHasOwner
<1> SUFFICES ASSUME TypeInv, OnceInv
             PROVE  PaperFillsCounted /\ NotBothPaperAndLive /\ LockHasOwner
  OBVIOUS
<1>t. truth.times \in [Signals -> Nat]
  BY DEF TypeInv, TypeOK, TruthType
<1>f. (\A kind \in FaultKinds : ~Struck(kind)) => NoFault
  BY DEF FaultKinds, NoFault
<1>1. PaperFillsCounted
  <2> SUFFICES ASSUME NEW s \in Signals
               PROVE  /\ truth.times[s] > 1 => Struck("db") /\ Struck("crash")
                      /\ msg[s] = "done" /\ order[s] \in Recorded /\ NoFault => truth.times[s] = 1
    BY <1>f DEF PaperFillsCounted, Recorded
  <2>1. truth.times[s] > 1 => Struck("db") /\ Struck("crash")
    BY <1>t DEF OnceInv, CrashFree, ErrorFree
  <2>2. msg[s] = "done" /\ order[s] \in Recorded /\ NoFault => truth.times[s] = 1
    BY DEF OnceInv, RecordedInv, InHand, Applying, Recorded
  <2> QED
    BY <2>1, <2>2
<1>2. NotBothPaperAndLive
  BY DEF NotBothPaperAndLive, OnceInv, ErrorFree
<1>3. LockHasOwner
  BY <1>f DEF LockHasOwner, OnceInv, LockInv
<1> QED
  BY <1>1, <1>2, <1>3

\* With the three attempts of the code, whatever is redelivered, retried or
\* interleaved: a paper signal is applied once, not shared with the broker, and
\* its position is not parked behind a lock.
THEOREM PaperOnceEach ==
  ASSUME Attempts >= 3
  PROVE  Spec => [](PaperFillsCounted /\ NotBothPaperAndLive /\ LockHasOwner)
<1>1. TypeInv /\ BookInv /\ EngineInv /\ OnceInv /\ [Next]_vars => OnceInv'
  BY NextOnce
<1> QED
  BY <1>1, InitType, NextType, InitBook, NextBook, InitEngine, NextEngine, InitOnce,
     OnceIsSound,
     PTL DEF Spec

-----------------------------------------------------------------------------
(* The book of a long position                                             *)

\* A mean of two prices lies between them.
LEMMA MeanBetween ==
  ASSUME NEW m \in Nat, m > 0, NEW q \in Nat, NEW a \in Int, NEW p \in Int, NEW b \in Int,
         b * (m + q) = a * m + q * p
  PROVE  (a <= b \/ (p <= b /\ q > 0)) /\ (b <= a \/ (b <= p /\ q > 0))
<1>1. (b - a) * m = (p - b) * q
  OBVIOUS
<1>2. CASE b < a
  <2>1. (b - a) * m < 0
    BY <1>2
  <2>2. (p - b) * q < 0
    BY <2>1, <1>1
  <2>3. p < b /\ q > 0
    BY <2>2
  <2> QED
    BY <1>2, <2>3
<1>3. CASE b > a
  <2>1. (b - a) * m > 0
    BY <1>3
  <2>2. (p - b) * q > 0
    BY <2>1, <1>1
  <2>3. p > b /\ q > 0
    BY <2>2
  <2> QED
    BY <1>3, <2>3
<1> QED
  BY <1>2, <1>3

\* A factor other than zero can be cancelled.
LEMMA Cancel ==
  ASSUME NEW a \in Int, NEW b \in Int, NEW q \in Int, q # 0, a * q = b * q
  PROVE  a = b
OBVIOUS

\* A sale out of a long position realizes what the cash gains beyond the cost.
LEMMA SaleBalances ==
  ASSUME NEW m \in Int, NEW q \in Int, NEW a \in Int, NEW p \in Int
  PROVE  (p - a) * q - a * (m - q) = q * p - a * m
OBVIOUS

\* A fill into a book that was never short, as arithmetic: m units at average a
\* and cost a * m, cash k and realized r, become the next book.
LongBefore(old, m, k) ==
  old.qty = m /\ old.cost = old.avg * m /\ old.real - old.cost = k

\* A buy adds to the cost what it takes from the cash, and its average lies
\* between the old one and its price.
LEMMA BuyKeeps ==
  ASSUME NEW old \in BookType, NEW m \in Nat, NEW k \in Int, NEW q \in Nat, NEW p \in Int,
         LongBefore(old, m, k), NEW new \in BookType, new = Bought(old, q, p),
         new.cost = new.avg * new.qty
  PROVE  /\ new.qty = m + q /\ new.real - new.cost = k - q * p
         /\ m = 0 /\ q > 0 => new.avg = p
         /\ m > 0 => /\ old.avg <= new.avg \/ (p <= new.avg /\ q > 0)
                     /\ new.avg <= old.avg \/ (new.avg <= p /\ q > 0)
<1>t. /\ old.qty \in Int /\ old.cost \in Int /\ old.avg \in Int /\ old.real \in Int
      /\ new.qty \in Int /\ new.cost \in Int /\ new.avg \in Int /\ new.real \in Int
  BY DEF BookType
<1>0. old.qty = m /\ old.cost = old.avg * m /\ old.real - old.cost = k
  BY DEF LongBefore
<1>1. new.qty = m + q /\ new.cost = old.avg * m + q * p /\ new.real = old.real
  BY <1>0, <1>t DEF Bought
<1>2. new.avg * (m + q) = old.avg * m + q * p
  BY <1>1
<1>3. new.real - new.cost = k - q * p
  <2>1. q * p \in Int /\ old.avg * m \in Int
    BY <1>t
  <2> QED
    BY <2>1, <1>0, <1>1, <1>t
<1>4. ASSUME m = 0, q > 0 PROVE new.avg = p
  <2>1. new.avg * q = p * q
    BY <1>2, <1>4, <1>t
  <2>2. q \in Int /\ q # 0 /\ new.avg \in Int
    BY <1>4, <1>t
  <2> QED
    BY <2>1, <2>2, Cancel, Zenon
<1>5. ASSUME m > 0
      PROVE  /\ old.avg <= new.avg \/ (p <= new.avg /\ q > 0)
             /\ new.avg <= old.avg \/ (new.avg <= p /\ q > 0)
  BY <1>2, <1>5, <1>t, MeanBetween
<1> QED
  BY <1>1, <1>3, <1>4, <1>5

\* A sale that does not cross zero keeps the average and realizes the rest.
LEMMA SaleKeeps ==
  ASSUME NEW old \in BookType, NEW m \in Nat, NEW k \in Int, NEW q \in Nat, NEW p \in Int,
         LongBefore(old, m, k), q <= m, NEW new \in BookType, new = Sold(old, q, p)
  PROVE  /\ new.qty = m - q /\ new.real - new.cost = k + q * p
         /\ m - q > 0 => new.avg = old.avg
<1>t. /\ old.qty \in Int /\ old.cost \in Int /\ old.avg \in Int /\ old.real \in Int
  BY DEF BookType
<1>0. old.qty = m /\ old.cost = old.avg * m /\ old.real - old.cost = k
  BY DEF LongBefore
<1>1. /\ new.qty = m - q
      /\ new.avg = IF m - q > 0 THEN old.avg ELSE 0
      /\ new.cost = new.avg * new.qty
      /\ new.real = old.real + (p - old.avg) * q
  BY <1>0, <1>t DEF Sold, Least, Most
<1>2. new.cost = old.avg * (m - q)
  <2>1. CASE m - q > 0
    BY <2>1, <1>1
  <2>2. CASE m - q = 0
    BY <2>2, <1>1, <1>t
  <2> QED
    BY <2>1, <2>2
<1>3. (p - old.avg) * q - old.avg * (m - q) = q * p - old.avg * m
  BY <1>t, SaleBalances
<1>4. new.real - new.cost = k + q * p
  <2> DEFINE x == (p - old.avg) * q  y == old.avg * (m - q)  z == q * p  v == old.avg * m
  <2>1. x \in Int /\ y \in Int /\ z \in Int /\ v \in Int
    BY <1>t
  <2>2. x - y = z - v /\ new.real = old.real + x /\ new.cost = y /\ old.real - v = k
    BY <1>0, <1>1, <1>2, <1>3
  <2> HIDE DEF x, y, z, v
  <2>3. new.real - new.cost = k + z
    BY <2>1, <2>2, <1>t
  <2> QED
    BY <2>3 DEF z
<1> QED
  BY <1>1, <1>4

\* At the start the book is empty.
LEMMA InitLong == Init => LongInv
BY DEF Init, LongInv, LongBookBalances

\* What a fill does to the history.
LEMMA History ==
  ASSUME TypeInv, BookInv, NEW a \in Actors, Fills(a)
  PROVE  /\ truth'.short = (truth.short \/ truth'.qty < 0)
         /\ truth'.cash = truth.cash - Signed(w[a].side, w[a].qty) * w[a].price
         /\ truth'.paid = PaidAfter(truth.qty, truth'.qty, w[a].price)
<1> DEFINE new == truth.qty + Signed(w[a].side, w[a].qty)
<1>1. /\ truth'.qty = new /\ truth'.short = (truth.short \/ new < 0)
      /\ truth'.cash = truth.cash - Signed(w[a].side, w[a].qty) * w[a].price
      /\ truth'.paid = PaidAfter(truth.qty, new, w[a].price)
  BY DEF Fills, Witnessed
<1> HIDE DEF new
<1> QED
  BY <1>1

\* As long as the average comes out whole, every step keeps the balance.
LEMMA NextLong ==
  TypeInv /\ BookInv /\ LongInv /\ WholeAverage /\ WholeAverage' /\ [Next]_vars => LongInv'
<1> SUFFICES ASSUME TypeInv, BookInv, LongInv, WholeAverage, WholeAverage', [Next]_vars
             PROVE  LongInv'
  OBVIOUS
<1>t. /\ pos \in PosType /\ pos.qty \in Int /\ pos.avg \in Int /\ pos.cost \in Int /\ pos.real \in Int
      /\ truth.paid \subseteq Int /\ truth.cash \in Int /\ truth.qty \in Int
  BY DEF TypeInv, TypeOK, PosType, TruthType
<1>n. pos.qty = truth.qty
  BY DEF BookInv, NoLostFill
<1>1. CASE UNCHANGED truth /\ Book(pos)' = Book(pos)
  <2>1. pos'.qty = pos.qty /\ pos'.cost = pos.cost /\ pos'.avg = pos.avg /\ pos'.real = pos.real
    BY <1>1 DEF Book
  <2> QED
    BY <1>1, <2>1 DEF LongInv, LongBookBalances
<1>2. ASSUME NEW a \in Actors, Fills(a) PROVE LongInv'
  <2> DEFINE q == w[a].qty  p == w[a].price  old == Book(pos)  new == Book(pos)'
  <2>u. w[a].side \in {"BUY", "SELL"} /\ q \in Nat /\ p \in Int
    BY DEF TypeInv, TypeOK, UpdateType
  <2>f. /\ new = NewBook(old, w[a].side, q, p) /\ truth'.qty = truth.qty + Signed(w[a].side, q)
    BY <1>2, Filled
  <2>b. old \in BookType /\ new \in BookType
    <3>1. old \in BookType
      BY <1>t, BookOfRow
    <3>2. NewBook(old, w[a].side, q, p) \in BookType
      BY <3>1, <2>u, NewBookFacts
    <3> QED
      BY <3>1, <3>2, <2>f
  <2>h. /\ truth'.short = (truth.short \/ truth'.qty < 0)
        /\ truth'.cash = truth.cash - Signed(w[a].side, q) * p
        /\ truth'.paid = PaidAfter(truth.qty, truth'.qty, p)
    BY <1>2, History
  <2>e. /\ new.qty = pos'.qty /\ new.cost = pos'.cost /\ new.avg = pos'.avg /\ new.real = pos'.real
        /\ old.qty = pos.qty /\ old.cost = pos.cost /\ old.avg = pos.avg /\ old.real = pos.real
    BY DEF Book
  <2> SUFFICES ASSUME ~truth'.short
               PROVE  /\ truth'.qty >= 0
                      /\ new.real - new.cost = truth'.cash
                      /\ new.qty > 0 => /\ \E x \in truth'.paid : x <= new.avg
                                        /\ \E x \in truth'.paid : new.avg <= x
    BY <2>e DEF LongInv, LongBookBalances
  <2> HIDE DEF q, p, old, new
  <2>1. ~truth.short /\ truth'.qty >= 0
    <3>1. ~truth.short /\ ~(truth'.qty < 0)
      BY <2>h, Zenon
    <3>2. truth'.qty \in Int
      BY <2>f, <2>u, <1>t DEF Signed
    <3> QED
      BY <3>1, <3>2
  <2>2. /\ truth.qty \in Nat /\ pos.cost = pos.avg * pos.qty
        /\ pos.real - pos.cost = truth.cash
        /\ pos.qty > 0 => /\ \E x \in truth.paid : x <= pos.avg
                          /\ \E x \in truth.paid : pos.avg <= x
    BY <2>1, <1>t DEF LongInv, LongBookBalances, WholeAverage
  <2>3. LongBefore(old, truth.qty, truth.cash)
    BY <2>2, <2>e, <1>n DEF LongBefore
  <2>4. CASE w[a].side = "BUY"
    <3>1. new = Bought(old, q, p) /\ truth'.qty = truth.qty + q /\ truth'.cash = truth.cash - q * p
      BY <2>4, <2>f, <2>h DEF NewBook, Signed
    <3>2. new.cost = new.avg * new.qty
      BY <2>e DEF WholeAverage
    <3>3. /\ new.qty = truth.qty + q /\ new.real - new.cost = truth.cash - q * p
          /\ truth.qty = 0 /\ q > 0 => new.avg = p
          /\ truth.qty > 0 => /\ old.avg <= new.avg \/ (p <= new.avg /\ q > 0)
                              /\ new.avg <= old.avg \/ (new.avg <= p /\ q > 0)
      <4>1. truth.qty \in Nat /\ truth.cash \in Int
        BY <2>2, <1>t
      <4> QED
        BY <3>1, <3>2, <2>3, <2>b, <2>u, <4>1, BuyKeeps, SMTT(30)
    <3>a. old.avg \in Int /\ new.avg \in Int
      BY <2>b DEF BookType
    <3>4. CASE truth.qty = 0
      <4>1. q > 0 => truth'.paid = {p}
        BY <3>1, <3>4, <2>h, <2>u DEF PaidAfter
      <4>2. CASE q > 0
        <5>1. p \in truth'.paid /\ p <= new.avg /\ new.avg <= p
          BY <3>3, <3>4, <4>1, <4>2, <2>u
        <5> QED
          BY <5>1, <3>1, <3>3, <2>1, Zenon
      <4>3. CASE q = 0
        <5>1. ~(new.qty > 0)
          BY <3>3, <3>4, <4>3
        <5> QED
          BY <5>1, <3>1, <3>3, <2>1, Zenon
      <4> QED
        BY <4>2, <4>3, <2>u
    <3>5. CASE truth.qty > 0
      <4>1. truth'.paid = IF q > 0 THEN truth.paid \cup {p} ELSE truth.paid
        BY <3>1, <3>5, <2>h, <2>u, <2>2 DEF PaidAfter, Size
      <4>2. PICK x \in truth.paid : x <= old.avg
        BY <2>2, <2>e, <3>5, <1>n
      <4>3. PICK y \in truth.paid : old.avg <= y
        BY <2>2, <2>e, <3>5, <1>n
      <4>4. \E z \in truth'.paid : z <= new.avg
        BY <3>3, <3>5, <3>a, <4>1, <4>2, <1>t, <2>u
      <4>5. \E z \in truth'.paid : new.avg <= z
        BY <3>3, <3>5, <3>a, <4>1, <4>3, <1>t, <2>u
      <4> QED
        BY <3>1, <3>3, <4>4, <4>5, <2>1
    <3> QED
      BY <3>4, <3>5, <2>2
  <2>5. CASE w[a].side = "SELL"
    <3>1. new = Sold(old, q, p) /\ truth'.qty = truth.qty - q /\ truth'.cash = truth.cash - (-q) * p
      BY <2>5, <2>f, <2>h, <2>u, <1>t DEF NewBook, Signed
    <3>2. truth'.cash = truth.cash + q * p
      BY <3>1, <2>u, <1>t
    <3>3. /\ new.qty = truth.qty - q /\ new.real - new.cost = truth.cash + q * p
          /\ truth.qty - q > 0 => new.avg = old.avg
      BY <3>1, <2>1, <2>2, <2>3, <2>b, <2>u, <1>t, SaleKeeps
    <3>4. ASSUME truth.qty - q > 0 PROVE truth'.paid = truth.paid
      BY <3>1, <3>4, <2>h, <2>u, <2>2 DEF PaidAfter, Size
    <3> QED
      BY <3>1, <3>2, <3>3, <3>4, <2>1, <2>2, <2>e, <2>u, <1>n
  <2> QED
    BY <2>4, <2>5, <2>u
<1> QED
  BY <1>1, <1>2, RowMoves

\* The book of paper trading is sound with the three attempts of the code, as
\* long as the averages it computes are exact: it balances with the cash, counts
\* every signal once, shares none with the broker and parks nothing behind a lock.
THEOREM PaperBookKept ==
  ASSUME Attempts >= 3
  PROVE  Spec /\ []WholeAverage => []PaperBookIsSound
<1>1. LongInv /\ PaperFillsCounted /\ NotBothPaperAndLive /\ LockHasOwner => PaperBookIsSound
  BY DEF LongInv, PaperBookIsSound
<1> QED
  BY <1>1, PaperOnceEach, InitType, NextType, InitBook, NextBook, InitLong, NextLong,
     PTL DEF Spec
=============================================================================
