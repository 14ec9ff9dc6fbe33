----------------------- MODULE OrderExecutionProofs -----------------------
(***************************************************************************)
(* Theorems about OrderExecution, for any set of signals, any quantity and *)
(* any number of faults.                                                   *)
(***************************************************************************)
EXTENDS OrderExecution, TLAPS

\* A handler about to apply a slice holds one that is not negative; a row
\* that is only listed has no handler of its own yet.
HandlerInv ==
  \A s \in Signals :
    /\ f[s].pc = "apply" \/ (f[s].pc = "gate" /\ f[s].kind = "terminal")
         => f[s].qty >= f[s].prior
    /\ f[s].pc = "listed" => f[s].kind = "fill"

\* A busy consumer works on a signal.
ConsumerInv == c.pc # "idle" => c.s \in Signals

TypeInv == TypeOK /\ HandlerInv /\ ConsumerInv

\* The initial state is typed.
LEMMA InitType == Init => TypeInv
<1> SUFFICES ASSUME Init PROVE TypeInv
  OBVIOUS
<1> USE QtyAssumption, BoundAssumption DEF RowStatus, OrderStatus, NoRow
<1>1. TablesOK
  <2>1. [st |-> NoRow, bid |-> FALSE, filled |-> 0]
          \in [st : RowStatus, bid : BOOLEAN, filled : 0..Qty]
    OBVIOUS
  <2>2. row \in [Signals -> [st : RowStatus, bid : BOOLEAN, filled : 0..Qty]]
    BY <2>1, Zenon DEF Init
  <2>3. gate \subseteq Signals \X (0..Qty) /\ applied \in [Signals -> Nat]
    BY DEF Init
  <2>4. dks \in BOOLEAN
    BY DEF Init
  <2> QED
    BY <2>2, <2>3, <2>4 DEF TablesOK
<1>7. KafkaOK
  BY DEF Init, KafkaOK
<1>8. ProcessOK
  BY DEF Init, ProcessOK
<1>6. BrokerOK
  BY DEF Init, BrokerOK
<1>2. ConsumerOK /\ ConsumerInv
  BY DEF Init, ConsumerOK, ConsumerInv, IdleConsumer, ConsumerRecord, ConsumerPC
<1>3. HandlersOK /\ HandlerInv
  BY DEF Init, HandlersOK, HandlerInv, IdleHandler, HandlerRecord
<1>4. CancelsOK
  BY DEF Init, CancelsOK, IdleCancel, CancelRecord
<1>5. BudgetOK
  BY DEF Init, BudgetOK, Allowance, FaultKinds
<1> QED
  BY <1>1, <1>2, <1>3, <1>4, <1>5, <1>6, <1>7, <1>8 DEF TypeInv, TypeOK

\* Parts of the state a step leaves alone keep their type.
LEMMA Untouched ==
  /\ TablesOK /\ UNCHANGED tables => TablesOK'
  /\ BrokerOK /\ UNCHANGED broker => BrokerOK'
  /\ KafkaOK /\ UNCHANGED kafka => KafkaOK'
  /\ ProcessOK /\ UNCHANGED <<up, todo, ks, scan>> => ProcessOK'
  /\ ConsumerOK /\ ConsumerInv /\ UNCHANGED c => ConsumerOK' /\ ConsumerInv'
  /\ HandlersOK /\ HandlerInv /\ UNCHANGED f => HandlersOK' /\ HandlerInv'
  /\ CancelsOK /\ UNCHANGED k => CancelsOK'
  /\ BudgetOK /\ UNCHANGED budget => BudgetOK'
<1>1. TablesOK /\ UNCHANGED tables => TablesOK'
  BY DEF TablesOK, tables
<1>2. BrokerOK /\ UNCHANGED broker => BrokerOK'
  BY DEF BrokerOK, broker
<1>3. KafkaOK /\ UNCHANGED kafka => KafkaOK'
  BY DEF KafkaOK, kafka
<1>4. ProcessOK /\ UNCHANGED <<up, todo, ks, scan>> => ProcessOK'
  BY DEF ProcessOK
<1>5. ConsumerOK /\ ConsumerInv /\ UNCHANGED c => ConsumerOK' /\ ConsumerInv'
  BY DEF ConsumerOK, ConsumerInv
<1>6. HandlersOK /\ HandlerInv /\ UNCHANGED f => HandlersOK' /\ HandlerInv'
  BY DEF HandlersOK, HandlerInv
<1>7. CancelsOK /\ UNCHANGED k => CancelsOK'
  BY DEF CancelsOK
<1>8. BudgetOK /\ UNCHANGED budget => BudgetOK'
  BY DEF BudgetOK
<1> QED
  BY <1>1, <1>2, <1>3, <1>4, <1>5, <1>6, <1>7, <1>8

\* An idle consumer or handler is well typed.
LEMMA IdleType ==
  /\ IdleConsumer \in ConsumerRecord
  /\ IdleConsumer.pc = "idle"
  /\ IdleHandler \in HandlerRecord
  /\ IdleHandler.pc = "idle"
  /\ IdleCancel \in CancelRecord
  BY QtyAssumption DEF IdleConsumer, IdleHandler, IdleCancel, ConsumerRecord,
     HandlerRecord,
     CancelRecord, ConsumerPC, RowStatus, NoRow

\* A fault only lowers the budget.
LEMMA FaultType ==
  ASSUME BudgetOK, NEW kind \in FaultKinds, Fault(kind)
  PROVE  BudgetOK'
  BY DEF BudgetOK, Fault

\* Whatever word Kite uses, its translation is a status of the table.
LEMMA TranslateType == \A kite : TranslateStatus(kite) \in OrderStatus
  BY DEF TranslateStatus, OrderStatus

\* What a step of the consumer may do to c itself
LEMMA GotoType ==
  ASSUME ConsumerOK, ConsumerInv, NEW pc \in ConsumerPC, c.pc # "idle", Goto(pc)
  PROVE  ConsumerOK' /\ ConsumerInv'
  BY DEF ConsumerOK, ConsumerInv, Goto, ConsumerRecord

\* A consumer that takes a response in hand stays typed.
LEMMA ResponseType ==
  ASSUME ConsumerOK, ConsumerInv, c.pc # "idle",
         NEW pc \in ConsumerPC, NEW st \in RowStatus, NEW qty \in 0..Qty,
         c' = [c EXCEPT !.pc = pc, !.st = st, !.qty = qty]
  PROVE  ConsumerOK' /\ ConsumerInv'
  BY DEF ConsumerOK, ConsumerInv, ConsumerRecord

\* The write half of _transition_order_status keeps row and budget typed.
LEMMA TransitionType ==
  ASSUME TablesOK, BudgetOK, NEW s \in Signals, NEW prev, NEW new,
         NEW filled \in 0..Qty, NEW hasBid \in BOOLEAN, NEW ok,
         Transition(s, prev, new, filled, hasBid, ok)
  PROVE  /\ row' \in [Signals -> [st : RowStatus, bid : BOOLEAN, filled : 0..Qty]]
         /\ BudgetOK'
  BY DEF TablesOK, BudgetOK, Transition, IsValidStatusTransition, Fault, FaultKinds,
     RowStatus

\* Every step of the consumer keeps the types.
LEMMA ConsumerStepType == TypeInv /\ ConsumerStep => TypeInv'
<1> SUFFICES ASSUME TypeInv, ConsumerStep PROVE TypeInv'
  OBVIOUS
<1> USE DEF TypeInv, TypeOK, switch
<1>1. CASE ConsumerEntry
  <2>1. \E pc \in ConsumerPC : Goto(pc)
    BY <1>1 DEF ConsumerEntry, ConsumerPC
  <2>2. c.pc # "idle"
    BY <1>1 DEF ConsumerEntry
  <2> QED
    BY <1>1, <2>1, <2>2, GotoType, Untouched DEF ConsumerEntry
<1>2. CASE ConsumerLookup
  <2>1. c.pc # "idle"
    BY <1>2 DEF ConsumerLookup
  <2>2. BudgetOK'
    BY <1>2, FaultType, Untouched DEF ConsumerLookup, FaultKinds
  <2>3. ConsumerOK' /\ ConsumerInv'
    <3>1. CASE \E pc \in ConsumerPC : Goto(pc)
      BY <3>1, <2>1, GotoType
    <3>2. CASE c' = [c EXCEPT !.pc = "settle", !.st = row[c.s].st, !.qty = row[c.s].filled]
      BY <3>2, <2>1, ResponseType DEF ConsumerPC, TablesOK, ConsumerInv
    <3> QED
      BY <1>2, <3>1, <3>2 DEF ConsumerLookup, ConsumerPC
  <2> QED
    BY <1>2, <2>2, <2>3, Untouched DEF ConsumerLookup
<1>3. CASE ConsumerSubmit
  <2>1. c.pc # "idle" /\ c.s \in Signals
    BY <1>3 DEF ConsumerSubmit, ConsumerInv
  <2>2. BudgetOK'
    BY <1>3, FaultType, Untouched DEF ConsumerSubmit, FaultKinds
  <2>3. ConsumerOK' /\ ConsumerInv'
    BY <1>3, <2>1, GotoType DEF ConsumerSubmit, ConsumerPC
  <2>4. TablesOK'
    BY <1>3, <2>1 DEF ConsumerSubmit, TablesOK, RowStatus, OrderStatus
  <2> QED
    BY <1>3, <2>2, <2>3, <2>4, Untouched DEF ConsumerSubmit
<1>4. CASE ConsumerRelookup
  <2>1. c.pc # "idle" /\ c.s \in Signals
    BY <1>4 DEF ConsumerRelookup, ConsumerInv
  <2>2. BudgetOK'
    BY <1>4, FaultType, Untouched DEF ConsumerRelookup, FaultKinds
  <2>3. ConsumerOK' /\ ConsumerInv'
    <3>1. CASE Goto("fail")
      BY <3>1, <2>1, GotoType DEF ConsumerPC
    <3>2. CASE c' = [c EXCEPT !.pc = "settle", !.st = row[c.s].st, !.qty = row[c.s].filled]
      BY <3>2, <2>1, ResponseType DEF ConsumerPC, TablesOK
    <3> QED
      BY <1>4, <3>1, <3>2 DEF ConsumerRelookup
  <2> QED
    BY <1>4, <2>2, <2>3, Untouched DEF ConsumerRelookup
<1>5. CASE ConsumerCheck
  <2>1. c.pc # "idle"
    BY <1>5 DEF ConsumerCheck
  <2>2. ConsumerOK' /\ ConsumerInv'
    BY <1>5, <2>1, GotoType DEF ConsumerCheck, ConsumerPC
  <2> QED
    BY <1>5, <2>2, Untouched DEF ConsumerCheck
<1>6. CASE ConsumerFind \/ ConsumerRecover
  <2>1. c.pc # "idle" /\ c.s \in Signals
    BY <1>6 DEF ConsumerFind, ConsumerRecover, ConsumerInv
  <2>2. BudgetOK'
    BY <1>6, FaultType, Untouched DEF ConsumerFind, ConsumerRecover, FaultKinds
  <2>3. \/ \E pc \in ConsumerPC : Goto(pc)
        \/ c' = Found(c.s)
    BY <1>6 DEF ConsumerFind, ConsumerRecover, Goto, ConsumerPC
  <2>4. ConsumerOK' /\ ConsumerInv'
    <3>1. CASE \E pc \in ConsumerPC : Goto(pc)
      BY <3>1, <2>1, GotoType
    <3>2. CASE c' = Found(c.s)
      <4>1. TranslateStatus(bro[c.s].st) \in RowStatus /\ bro[c.s].qty \in 0..Qty
        BY <2>1, TranslateType DEF BrokerOK, RowStatus
      <4> QED
        BY <3>2, <4>1, <2>1, ResponseType DEF Found, ConsumerPC
    <3> QED
      BY <2>3, <3>1, <3>2
  <2> QED
    BY <1>6, <2>2, <2>4, Untouched DEF ConsumerFind, ConsumerRecover
<1>7. CASE ConsumerPlace
  <2>1. c.pc # "idle" /\ c.s \in Signals
    BY <1>7 DEF ConsumerPlace, ConsumerInv
  <2>2. ConsumerOK' /\ ConsumerInv'
    BY <1>7, <2>1, GotoType DEF ConsumerPlace, ConsumerPC
  <2>3. BrokerOK'
    BY <1>7, <2>1 DEF ConsumerPlace, BrokerOK
  <2> QED
    BY <1>7, <2>2, <2>3, Untouched DEF ConsumerPlace
<1>8. CASE ConsumerAwait
  <2>1. c.pc # "idle" /\ c.s \in Signals
    BY <1>8 DEF ConsumerAwait, ConsumerInv
  <2>2. BudgetOK'
    BY <1>8, FaultType, Untouched DEF ConsumerAwait, FaultKinds
  <2>3. ConsumerOK' /\ ConsumerInv'
    <3>1. CASE \E pc \in ConsumerPC : Goto(pc)
      BY <3>1, <2>1, GotoType
    <3>2. CASE c' = [c EXCEPT !.pc = "record", !.st = "PLACED", !.qty = 0]
      <4>1. "record" \in ConsumerPC /\ "PLACED" \in RowStatus /\ 0 \in 0..Qty
        BY QtyAssumption DEF ConsumerPC, RowStatus, OrderStatus
      <4> QED
        BY <3>2, <4>1, <2>1, ResponseType
    <3> QED
      BY <1>8, <3>1, <3>2 DEF ConsumerAwait, ConsumerPC
  <2>4. BrokerOK'
    BY <1>8, <2>1 DEF ConsumerAwait, BrokerOK
  <2> QED
    BY <1>8, <2>2, <2>3, <2>4, Untouched DEF ConsumerAwait
<1>9. CASE ConsumerRead
  <2>1. c.pc # "idle" /\ c.s \in Signals
    BY <1>9 DEF ConsumerRead, ConsumerInv
  <2>2. ConsumerOK' /\ ConsumerInv'
    BY <1>9, <2>1 DEF ConsumerRead, ConsumerOK, ConsumerInv, ConsumerRecord, ConsumerPC,
       TablesOK
  <2> QED
    BY <1>9, <2>2, Untouched DEF ConsumerRead
<1>10. CASE ConsumerSettle
  <2>1. c.pc # "idle" /\ c.s \in Signals
    BY <1>10 DEF ConsumerSettle, ConsumerInv
  <2>2. ConsumerOK' /\ ConsumerInv'
    BY <1>10, <2>1, GotoType, IdleType DEF ConsumerSettle, ConsumerPC, ConsumerOK,
       ConsumerInv
  <2>3. TablesOK' /\ BudgetOK'
    <3>1. c.qty \in Nat
      BY QtyAssumption DEF ConsumerOK, ConsumerRecord
    <3>2. CASE ApplyFill(c.s, c.qty)
      BY <1>10, <2>1, <3>1, <3>2, FaultType DEF ConsumerSettle, ApplyFill, TablesOK,
         FaultKinds, BudgetOK
    <3>3. CASE UNCHANGED <<applied, budget>>
      BY <1>10, <3>3 DEF ConsumerSettle, TablesOK, BudgetOK
    <3> QED
      BY <1>10, <3>2, <3>3 DEF ConsumerSettle
  <2> QED
    BY <1>10, <2>2, <2>3, Untouched DEF ConsumerSettle
<1>11. CASE ConsumerCommit \/ ConsumerFail
  <2>1. c.s \in Signals
    BY <1>11 DEF ConsumerCommit, ConsumerFail, ConsumerInv
  <2>2. ConsumerOK' /\ ConsumerInv'
    BY <1>11, IdleType DEF ConsumerCommit, ConsumerFail, ConsumerOK, ConsumerInv
  <2>3. KafkaOK'
    BY <1>11, <2>1, BoundAssumption DEF ConsumerCommit, ConsumerFail, KafkaOK
  <2> QED
    BY <1>11, <2>2, <2>3, Untouched DEF ConsumerCommit, ConsumerFail
<1>12. CASE ConsumerWrite
  <2>1. c.pc # "idle" /\ c.s \in Signals
    BY <1>12 DEF ConsumerWrite, ConsumerInv
  <2>2. ConsumerOK' /\ ConsumerInv'
    BY <1>12, <2>1, GotoType DEF ConsumerWrite, ConsumerPC
  <2>3. c.qty \in 0..Qty /\ 0 \in 0..Qty
    BY QtyAssumption DEF ConsumerOK, ConsumerRecord
  <2>4. PICK ok \in BOOLEAN :
          Transition(c.s, c.prev, JobStatus,
                     IF c.job = "record" THEN c.qty ELSE 0, c.job = "record", ok)
    BY <1>12 DEF ConsumerWrite
  <2>5. /\ row' \in [Signals -> [st : RowStatus, bid : BOOLEAN, filled : 0..Qty]]
        /\ BudgetOK'
    <3> DEFINE filled == IF c.job = "record" THEN c.qty ELSE 0
    <3>1. filled \in 0..Qty /\ (c.job = "record") \in BOOLEAN
      BY <2>3
    <3> QED
      BY <2>1, <2>4, <3>1, TransitionType
  <2> QED
    BY <1>12, <2>2, <2>5, Untouched DEF ConsumerWrite, TablesOK
<1> QED
  BY <1>1, <1>2, <1>3, <1>4, <1>5, <1>6, <1>7, <1>8, <1>9, <1>10, <1>11, <1>12
  DEF ConsumerStep

\* Every step of the poller and of its handlers keeps the types.
LEMMA PollerStepType ==
  TypeInv /\ (PollList \/ PollBroker \/ \E s \in Signals : HandlerStep(s)) => TypeInv'
<1> SUFFICES ASSUME TypeInv, PollList \/ PollBroker \/ \E s \in Signals : HandlerStep(s)
             PROVE TypeInv'
  OBVIOUS
<1> USE DEF TypeInv, TypeOK, switch
<1>1. CASE PollList
  <2>1. \A s \in Signals :
          [IdleHandler EXCEPT !.pc = "listed", !.prior = row[s].filled] \in HandlerRecord
    BY IdleType DEF TablesOK, HandlerRecord
  <2>2. HandlersOK'
    BY <1>1, <2>1, IdleType DEF PollList, HandlersOK
  <2>3. \A s \in Signals : f'[s].pc \in {"idle", "listed"} /\ f'[s].kind = "fill"
    BY <1>1, IdleType DEF PollList, IdleHandler
  <2>4. HandlerInv'
    BY <2>3 DEF HandlerInv
  <2> QED
    BY <1>1, <2>2, <2>4, Untouched DEF PollList
<1>2. CASE PollBroker
  <2>1. ASSUME NEW s \in Signals, f[s].pc = "listed"
        PROVE  /\ Dispatch(s) \in HandlerRecord
               /\ Dispatch(s).pc \notin {"apply", "listed"}
               /\ Dispatch(s).pc = "gate" /\ Dispatch(s).kind = "terminal"
                    => Dispatch(s).qty >= Dispatch(s).prior
    <3>1. f[s] \in HandlerRecord /\ bro[s].qty \in 0..Qty
      BY <2>1 DEF HandlersOK, BrokerOK
    <3>2. f[s].prior \in Nat /\ bro[s].qty \in Nat
      BY <3>1, QtyAssumption DEF HandlerRecord
    <3> DEFINE h == [f[s] EXCEPT !.qty = bro[s].qty]
    <3>h. /\ h \in HandlerRecord /\ h.qty = bro[s].qty /\ h.prior = f[s].prior
          /\ h.kind = "fill"
      BY <2>1, <3>1 DEF HandlerRecord, HandlerInv
    <3>g. ASSUME NEW pc \in {"gate", "update"}, NEW new \in OrderStatus,
                 Dispatch(s) = [h EXCEPT !.pc = pc, !.new = new]
          PROVE  Dispatch(s) \in HandlerRecord /\ Dispatch(s).pc = pc /\ Dispatch(s).kind = "fill"
      BY <3>h, <3>g DEF HandlerRecord, RowStatus
    <3>e. ASSUME NEW pc \in {"gate", "update"}, NEW new \in OrderStatus,
                 Dispatch(s) = [h EXCEPT !.pc = pc, !.kind = "terminal", !.new = new]
          PROVE  /\ Dispatch(s) \in HandlerRecord /\ Dispatch(s).pc = pc
                 /\ Dispatch(s).qty = bro[s].qty /\ Dispatch(s).prior = f[s].prior
      BY <3>h, <3>e DEF HandlerRecord, RowStatus
    <3>3. CASE bro[s].st = "COMPLETE"
      <4>1. Dispatch(s) = [h EXCEPT !.pc = "gate", !.new = "FILLED"]
        BY <3>3 DEF Dispatch
      <4> HIDE DEF h
      <4> QED
        BY <4>1, <3>g DEF OrderStatus
    <3>4. CASE bro[s].st = "PARTIALLY" /\ bro[s].qty > f[s].prior
      <4>1. Dispatch(s) = [h EXCEPT !.pc = "gate", !.new = "PARTIALLY_FILLED"]
        BY <3>4 DEF Dispatch
      <4> HIDE DEF h
      <4> QED
        BY <4>1, <3>g DEF OrderStatus
    <3>5. CASE bro[s].st \in {"CANCELLED", "REJECTED"}
      <4> DEFINE pc == IF bro[s].qty > f[s].prior THEN "gate" ELSE "update"
      <4>1. Dispatch(s) = [h EXCEPT !.pc = pc, !.kind = "terminal", !.new = bro[s].st]
        BY <3>5 DEF Dispatch
      <4>2. pc \in {"gate", "update"} /\ (pc = "gate" => bro[s].qty >= f[s].prior)
        BY <3>2
      <4> HIDE DEF h, pc
      <4> QED
        BY <4>1, <4>2, <3>5, <3>e DEF OrderStatus
    <3>6. CASE /\ bro[s].st \notin {"COMPLETE", "CANCELLED", "REJECTED"}
               /\ ~(bro[s].st = "PARTIALLY" /\ bro[s].qty > f[s].prior)
      BY <3>6, IdleType DEF Dispatch
    <3> QED
      BY <3>3, <3>4, <3>5, <3>6
  <2>2. HandlersOK'
    BY <1>2, <2>1, IdleType DEF PollBroker, HandlersOK
  <2>3. HandlerInv'
    BY <1>2, <2>1, IdleType DEF PollBroker, HandlerInv, HandlersOK, IdleHandler
  <2>4. BudgetOK'
    BY <1>2, FaultType, Untouched DEF PollBroker, FaultKinds
  <2> QED
    BY <1>2, <2>2, <2>3, <2>4, Untouched DEF PollBroker
<1>3. ASSUME NEW s \in Signals, HandlerGate(s) PROVE TypeInv'
  <2>1. f[s] \in HandlerRecord
    BY DEF HandlersOK
  <2>2. HandlersOK'
    BY <1>3, <2>1, IdleType DEF HandlerGate, HandlersOK, HandlerRecord
  <2>3. HandlerInv'
    BY <1>3, <2>1, IdleType DEF HandlerGate, HandlerInv, HandlersOK, HandlerRecord
  <2>4. TablesOK'
    BY <1>3, <2>1 DEF HandlerGate, TablesOK, HandlerRecord
  <2>5. BudgetOK'
    BY <1>3, FaultType, Untouched DEF HandlerGate, FaultKinds
  <2> QED
    BY <1>3, <2>2, <2>3, <2>4, <2>5, Untouched DEF HandlerGate
<1>4. ASSUME NEW s \in Signals, HandlerRead(s) PROVE TypeInv'
  <2>1. f[s] \in HandlerRecord /\ row[s].st \in RowStatus
    BY DEF HandlersOK, TablesOK
  <2>2. HandlersOK'
    BY <1>4, <2>1 DEF HandlerRead, HandlersOK, HandlerRecord
  <2>3. HandlerInv'
    BY <1>4, <2>1 DEF HandlerRead, HandlerInv, HandlersOK, HandlerRecord
  <2> QED
    BY <1>4, <2>2, <2>3, Untouched DEF HandlerRead
<1>5. ASSUME NEW s \in Signals, HandlerWrite(s) PROVE TypeInv'
  <2>1. f[s] \in HandlerRecord
    BY DEF HandlersOK
  <2>2. HandlersOK'
    BY <1>5, <2>1, IdleType DEF HandlerWrite, HandlersOK, HandlerRecord
  <2>3. f[s].qty \in 0..Qty /\ f[s].prior \in 0..Qty
    BY <2>1 DEF HandlerRecord
  <2>4. HandlerInv'
    BY <1>5, <2>1, <2>3, IdleType, QtyAssumption DEF HandlerWrite, HandlerInv,
       HandlersOK, HandlerRecord
  <2>5. PICK filled \in 0..Qty, ok \in BOOLEAN :
           Transition(s, f[s].prev, f[s].new, filled, FALSE, ok)
    BY <1>5, <2>3 DEF HandlerWrite
  <2>6. /\ row' \in [Signals -> [st : RowStatus, bid : BOOLEAN, filled : 0..Qty]]
        /\ BudgetOK'
    BY <2>5, TransitionType
  <2> QED
    BY <1>5, <2>2, <2>4, <2>6, Untouched DEF HandlerWrite, TablesOK
<1>6. ASSUME NEW s \in Signals, HandlerApply(s) PROVE TypeInv'
  <2>1. f[s] \in HandlerRecord
    BY DEF HandlersOK
  <2>2. HandlersOK'
    BY <1>6, <2>1, IdleType DEF HandlerApply, HandlersOK, HandlerRecord
  <2>3. HandlerInv'
    BY <1>6, <2>1, IdleType DEF HandlerApply, HandlerInv, HandlersOK, HandlerRecord
  <2>4. f[s].qty - f[s].prior \in Nat
    BY <1>6, <2>1, QtyAssumption DEF HandlerApply, HandlerInv, HandlerRecord
  <2>5. TablesOK' /\ BudgetOK'
    BY <1>6, <2>4, FaultType DEF HandlerApply, ApplyFill, TablesOK, FaultKinds, BudgetOK
  <2> QED
    BY <1>6, <2>2, <2>3, <2>5, Untouched DEF HandlerApply
<1> QED
  BY <1>1, <1>2, <1>3, <1>4, <1>5, <1>6 DEF HandlerStep

\* Every step of the kill switch and of its cancel tasks keeps the types.
LEMMA SwitchStepType ==
  TypeInv /\ (DurableRefresh \/ HaltEvent \/ ClearEvent \/ CancelScan
               \/ \E s \in Signals : CancelStep(s)) => TypeInv'
<1> SUFFICES ASSUME TypeInv,
                    DurableRefresh \/ HaltEvent \/ ClearEvent \/ CancelScan
                      \/ \E s \in Signals : CancelStep(s)
             PROVE TypeInv'
  OBVIOUS
<1> USE DEF TypeInv, TypeOK, switch
<1>1. CASE DurableRefresh \/ HaltEvent \/ ClearEvent
  <2>1. ProcessOK'
    BY <1>1 DEF DurableRefresh, HaltEvent, ClearEvent, ProcessOK
  <2>2. BudgetOK'
    BY <1>1, FaultType, Untouched DEF DurableRefresh, HaltEvent, ClearEvent, FaultKinds
  <2> QED
    BY <1>1, <2>1, <2>2, Untouched DEF DurableRefresh, HaltEvent, ClearEvent
<1>2. CASE CancelScan
  <2>1. ProcessOK'
    BY <1>2 DEF CancelScan, ProcessOK
  <2>2. BudgetOK'
    BY <1>2, FaultType, Untouched DEF CancelScan, FaultKinds
  <2>3. \A s \in Signals : CancelTask(s) \in CancelRecord
    BY IdleType DEF CancelTask, CancelRecord, TablesOK
  <2>4. CancelsOK'
    BY <1>2, <2>3 DEF CancelScan, CancelsOK
  <2> QED
    BY <1>2, <2>1, <2>2, <2>4, Untouched DEF CancelScan
<1>3. ASSUME NEW s \in Signals, CancelAtBroker(s) PROVE TypeInv'
  <2>1. k[s] \in CancelRecord
    BY DEF CancelsOK
  <2>2. CancelsOK'
    BY <1>3, <2>1, IdleType DEF CancelAtBroker, CancelsOK, CancelRecord
  <2>3. BudgetOK'
    BY <1>3, FaultType, Untouched DEF CancelAtBroker, FaultKinds
  <2>4. BrokerOK'
    BY <1>3 DEF CancelAtBroker, BrokerOK, KiteStatus
  <2> QED
    BY <1>3, <2>2, <2>3, <2>4, Untouched DEF CancelAtBroker
<1>4. ASSUME NEW s \in Signals, CancelRead(s) PROVE TypeInv'
  <2>1. k[s] \in CancelRecord /\ row[s].st \in RowStatus
    BY DEF CancelsOK, TablesOK
  <2>2. CancelsOK'
    BY <1>4, <2>1 DEF CancelRead, CancelsOK, CancelRecord
  <2> QED
    BY <1>4, <2>2, Untouched DEF CancelRead
<1>5. ASSUME NEW s \in Signals, CancelWrite(s) PROVE TypeInv'
  <2>1. k[s] \in CancelRecord
    BY DEF CancelsOK
  <2>2. CancelsOK'
    BY <1>5, IdleType DEF CancelWrite, CancelsOK
  <2>3. PICK filled \in 0..Qty, ok \in BOOLEAN :
           Transition(s, k[s].prev, "CANCELLED", filled, FALSE, ok)
    BY <1>5, <2>1 DEF CancelWrite, CancelRecord
  <2>4. /\ row' \in [Signals -> [st : RowStatus, bid : BOOLEAN, filled : 0..Qty]]
        /\ BudgetOK'
    BY <2>3, TransitionType
  <2> QED
    BY <1>5, <2>2, <2>4, Untouched DEF CancelWrite, TablesOK
<1> QED
  BY <1>1, <1>2, <1>3, <1>4, <1>5 DEF CancelStep

\* A crash, a restart and the startup reconciliation keep the types.
LEMMA BootStepType ==
  TypeInv /\ (Crash \/ Restart \/ BootList \/ BootDone \/ \E t \in todo : BootOrder(t))
    => TypeInv'
<1> SUFFICES ASSUME TypeInv,
                    Crash \/ Restart \/ BootList \/ BootDone \/ \E t \in todo : BootOrder(t)
             PROVE TypeInv'
  OBVIOUS
<1> USE DEF TypeInv, TypeOK, switch
<1>1. CASE Crash
  <2>1. ProcessOK'
    BY <1>1 DEF Crash, ProcessOK
  <2>2. ConsumerOK' /\ ConsumerInv'
    BY <1>1, IdleType DEF Crash, ConsumerOK, ConsumerInv
  <2>3. HandlersOK' /\ HandlerInv'
    BY <1>1, IdleType DEF Crash, HandlersOK, HandlerInv
  <2>4. CancelsOK'
    BY <1>1, IdleType DEF Crash, CancelsOK
  <2>5. BudgetOK'
    BY <1>1, FaultType DEF Crash, FaultKinds
  <2> QED
    BY <1>1, <2>1, <2>2, <2>3, <2>4, <2>5, Untouched DEF Crash
<1>2. CASE Restart \/ BootDone
  <2>1. ProcessOK'
    BY <1>2 DEF Restart, BootDone, ProcessOK, TablesOK
  <2> QED
    BY <1>2, <2>1, Untouched DEF Restart, BootDone
<1>3. CASE BootList
  <2>1. {[s |-> s, st |-> row[s].st, filled |-> row[s].filled] :
            s \in {x \in Signals : row[x].st \in OpenStatus}}
          \subseteq [s : Signals, st : OpenStatus, filled : 0..Qty]
    BY DEF TablesOK
  <2>2. ProcessOK'
    BY <1>3, <2>1 DEF BootList, ProcessOK
  <2>3. BudgetOK'
    BY <1>3, FaultType, Untouched DEF BootList, FaultKinds
  <2> QED
    BY <1>3, <2>2, <2>3, Untouched DEF BootList
<1>4. ASSUME NEW t \in todo, BootOrder(t) PROVE TypeInv'
  <2>1. t.s \in Signals /\ t.filled \in 0..Qty /\ bro[t.s].qty \in 0..Qty
    BY DEF ProcessOK, BrokerOK
  <2>2. ProcessOK'
    BY <1>4 DEF BootOrder, ProcessOK
  <2>3. ConsumerOK' /\ ConsumerInv'
    <3>1. \A pc \in ConsumerPC :
            [IdleConsumer EXCEPT !.pc = pc, !.s = t.s, !.src = "boot"] \in ConsumerRecord
      BY <2>1, IdleType DEF ConsumerRecord
    <3>2. \A pc \in ConsumerPC :
            [IdleConsumer EXCEPT !.pc = pc, !.s = t.s, !.src = "boot"].s = t.s
      BY <2>1, IdleType DEF ConsumerRecord
    <3>3. CASE UNCHANGED c
      BY <3>3, Untouched
    <3>4. CASE c' \in {[IdleConsumer EXCEPT !.pc = pc, !.s = t.s, !.src = "boot"] : pc \in ConsumerPC}
      BY <3>4, <3>1, <3>2, <2>1 DEF ConsumerOK, ConsumerInv
    <3> QED
      BY <1>4, <3>3, <3>4 DEF BootOrder, ConsumerPC
  <2>4. HandlersOK' /\ HandlerInv'
    <3> DEFINE new == TranslateStatus(bro[t.s].st)
               h == [IdleHandler EXCEPT !.pc = "update", !.kind = "boot", !.new = new,
                                        !.prior = t.filled, !.qty = bro[t.s].qty]
    <3>1. new \in RowStatus
      BY TranslateType DEF RowStatus
    <3> HIDE DEF new
    <3>2. h \in HandlerRecord /\ h.pc = "update"
      BY <3>1, <2>1, IdleType DEF HandlerRecord
    <3> HIDE DEF h
    <3>3. CASE UNCHANGED f
      BY <3>3, Untouched
    <3>4. CASE \E v \in {h, IdleHandler} : f' = [f EXCEPT ![t.s] = v]
      BY <3>4, <3>2, <2>1, IdleType DEF HandlersOK, HandlerInv
    <3> QED
      BY <1>4, <3>3, <3>4 DEF BootOrder, h, new
  <2>5. BudgetOK'
    BY <1>4, FaultType, Untouched DEF BootOrder, FaultKinds
  <2> QED
    BY <1>4, <2>2, <2>3, <2>4, <2>5, Untouched DEF BootOrder
<1> QED
  BY <1>1, <1>2, <1>3, <1>4

\* Kite, Kafka, time and the durable switch keep the types.
LEMMA EnvironmentType == TypeInv /\ Environment => TypeInv'
<1> SUFFICES ASSUME TypeInv, Environment PROVE TypeInv'
  OBVIOUS
<1> USE DEF TypeInv, TypeOK, process
<1>1. CASE HaltRecorded \/ ClearRecorded
  <2>1. TablesOK'
    BY <1>1 DEF HaltRecorded, ClearRecorded, TablesOK
  <2>2. BudgetOK'
    BY <1>1, FaultType, Untouched DEF HaltRecorded, ClearRecorded, FaultKinds
  <2> QED
    BY <1>1, <2>1, <2>2, Untouched DEF HaltRecorded, ClearRecorded
<1>2. ASSUME NEW s \in Signals, BrokerAccept(s) \/ BrokerDrop(s) PROVE TypeInv'
  <2>1. BrokerOK'
    BY <1>2 DEF BrokerAccept, BrokerDrop, BrokerOK, KiteStatus
  <2> QED
    BY <1>2, <2>1, Untouched DEF BrokerAccept, BrokerDrop
<1>3. ASSUME NEW s \in Signals, BrokerFill(s) PROVE TypeInv'
  <2>1. PICK q \in bro[s].qty + 1 .. Qty, st \in {"OPEN", "PARTIALLY", "COMPLETE"} :
           bro' = [bro EXCEPT ![s] = [st |-> st, qty |-> q]]
    BY <1>3 DEF BrokerFill
  <2>2. q \in 0..Qty
    BY <2>1, QtyAssumption DEF BrokerOK
  <2>3. BrokerOK'
    BY <1>3, <2>1, <2>2 DEF BrokerFill, BrokerOK, KiteStatus
  <2> QED
    BY <1>3, <2>3, Untouched DEF BrokerFill
<1>4. ASSUME NEW s \in Signals, BrokerEnd(s) PROVE TypeInv'
  <2>1. BrokerOK'
    BY <1>4 DEF BrokerEnd, BrokerOK, KiteStatus
  <2> QED
    BY <1>4, <2>1, Untouched DEF BrokerEnd
<1>5. ASSUME NEW s \in Signals, Expire(s) \/ Redeliver(s) PROVE TypeInv'
  <2>1. KafkaOK'
    BY <1>5 DEF Expire, Redeliver, KafkaOK
  <2>2. BudgetOK'
    BY <1>5, FaultType, Untouched DEF Expire, Redeliver, FaultKinds
  <2> QED
    BY <1>5, <2>1, <2>2, Untouched DEF Expire, Redeliver
<1> QED
  BY <1>1, <1>2, <1>3, <1>4, <1>5 DEF Environment

\* Every step keeps the types.
LEMMA NextType == TypeInv /\ [Next]_vars => TypeInv'
<1> SUFFICES ASSUME TypeInv, [Next]_vars PROVE TypeInv'
  OBVIOUS
<1>1. CASE UNCHANGED vars
  BY <1>1, Untouched DEF vars, process, TypeInv, TypeOK
<1>2. ASSUME NEW s \in Signals, ConsumerReceive(s) PROVE TypeInv'
  <2> USE DEF TypeInv, TypeOK, switch
  <2>1. KafkaOK'
    BY <1>2 DEF ConsumerReceive, KafkaOK
  <2>2. ConsumerOK' /\ ConsumerInv'
    <3>1. CASE UNCHANGED c
      BY <3>1, Untouched
    <3>2. CASE c' = [IdleConsumer EXCEPT !.pc = "entry", !.s = s]
      BY <3>2, IdleType DEF ConsumerOK, ConsumerInv, ConsumerRecord, ConsumerPC
    <3> QED
      BY <1>2, <3>1, <3>2 DEF ConsumerReceive
  <2> QED
    BY <1>2, <2>1, <2>2, Untouched DEF ConsumerReceive
<1> QED
  BY <1>1, <1>2, ConsumerStepType, PollerStepType, SwitchStepType, BootStepType,
     EnvironmentType DEF Next

\* Type correctness of the whole engine, for every set of signals and every
\* number of crashes, database errors, timeouts, halts and redeliveries.
THEOREM TypeCorrect == Spec => []TypeOK
<1>1. TypeInv => TypeOK
  BY DEF TypeInv
<1> QED
  BY <1>1, InitType, NextType, PTL DEF Spec

-----------------------------------------------------------------------------
(* Every write of a status follows the transition table, from the status    *)
(* the row has at the time of the write.                                    *)

RowMove(s) ==
  \/ UNCHANGED row
  \/ /\ row[s].st \in OrderStatus
     /\ \E new \in ValidTransitions[row[s].st] \cup {row[s].st}, b \in BOOLEAN, q \in 0..Qty :
           row' = [row EXCEPT ![s] = [st |-> new, bid |-> b, filled |-> q]]
  \/ row[s].st = NoRow /\ row' = [row EXCEPT ![s].st = "PENDING"]

\* A conditional status write is a move of one row along the table.
LEMMA TransitionMove ==
  ASSUME TablesOK, NEW s \in Signals, NEW prev, NEW new, NEW filled \in 0..Qty,
         NEW hasBid \in BOOLEAN, NEW ok, Transition(s, prev, new, filled, hasBid, ok)
  PROVE  RowMove(s)
<1>1. CASE /\ IsValidStatusTransition(prev, new) /\ row[s].st = prev
           /\ row' = [row EXCEPT ![s] = [st |-> new, bid |-> @.bid \/ hasBid, filled |-> filled]]
  <2>1. /\ row[s].st \in OrderStatus
        /\ new \in ValidTransitions[row[s].st] \cup {row[s].st}
    BY <1>1 DEF IsValidStatusTransition
  <2>2. PICK b \in BOOLEAN : b = (row[s].bid \/ hasBid)
    OBVIOUS
  <2>3. row' = [row EXCEPT ![s] = [st |-> new, bid |-> b, filled |-> filled]]
    BY <1>1, <2>2
  <2> QED
    BY <2>1, <2>3 DEF RowMove
<1>2. CASE UNCHANGED row
  BY <1>2 DEF RowMove
<1> QED
  BY <1>1, <1>2 DEF Transition

\* Every step leaves the orders table alone or moves one row.
LEMMA NextMove == TypeInv /\ Next => UNCHANGED row \/ \E s \in Signals : RowMove(s)
<1> SUFFICES ASSUME TypeInv, Next PROVE UNCHANGED row \/ \E s \in Signals : RowMove(s)
  OBVIOUS
<1> USE DEF TypeInv, TypeOK
<1>1. CASE ConsumerSubmit
  <2>1. c.s \in Signals
    BY <1>1 DEF ConsumerSubmit, ConsumerInv
  <2> QED
    BY <1>1, <2>1 DEF ConsumerSubmit, RowMove
<1>2. CASE ConsumerWrite
  <2>1. c.s \in Signals /\ c.qty \in 0..Qty /\ 0 \in 0..Qty
    BY <1>2, QtyAssumption DEF ConsumerWrite, ConsumerInv, ConsumerOK, ConsumerRecord
  <2>2. PICK filled \in 0..Qty, b \in BOOLEAN, ok \in BOOLEAN :
           Transition(c.s, c.prev, JobStatus, filled, b, ok)
    BY <1>2, <2>1 DEF ConsumerWrite
  <2> QED
    BY <2>1, <2>2, TransitionMove
<1>3. ASSUME NEW s \in Signals, HandlerWrite(s) PROVE RowMove(s)
  <2>1. f[s].qty \in 0..Qty /\ f[s].prior \in 0..Qty
    BY DEF HandlersOK, HandlerRecord
  <2>2. PICK filled \in 0..Qty, ok \in BOOLEAN :
           Transition(s, f[s].prev, f[s].new, filled, FALSE, ok)
    BY <1>3, <2>1 DEF HandlerWrite
  <2> QED
    BY <2>2, TransitionMove
<1>4. ASSUME NEW s \in Signals, CancelWrite(s) PROVE RowMove(s)
  <2>1. k[s].filled \in 0..Qty
    BY DEF CancelsOK, CancelRecord
  <2>2. PICK filled \in 0..Qty, ok \in BOOLEAN :
           Transition(s, k[s].prev, "CANCELLED", filled, FALSE, ok)
    BY <1>4, <2>1 DEF CancelWrite
  <2> QED
    BY <2>2, TransitionMove
<1>5. CASE ConsumerStep /\ ~ConsumerSubmit /\ ~ConsumerWrite
  BY <1>5 DEF ConsumerStep, ConsumerEntry, ConsumerLookup, ConsumerRelookup,
     ConsumerCheck,
     ConsumerFind, ConsumerPlace, ConsumerAwait, ConsumerRecover, ConsumerRead, ConsumerSettle,
     ConsumerCommit, ConsumerFail, tables
<1>6. ASSUME NEW s \in Signals, HandlerGate(s) \/ HandlerRead(s) \/ HandlerApply(s)
                                 \/ CancelAtBroker(s) \/ CancelRead(s) \/ ConsumerReceive(s)
      PROVE UNCHANGED row
  BY <1>6 DEF HandlerGate, HandlerRead, HandlerApply, CancelAtBroker, CancelRead,
     ConsumerReceive, tables
<1>7. CASE PollList \/ PollBroker \/ DurableRefresh \/ HaltEvent \/ ClearEvent \/ CancelScan
  BY <1>7 DEF PollList, PollBroker, DurableRefresh, HaltEvent, ClearEvent, CancelScan,
     tables
<1>8. CASE Crash \/ Restart \/ BootList \/ BootDone \/ \E t \in todo : BootOrder(t)
  BY <1>8 DEF Crash, Restart, BootList, BootDone, BootOrder, tables
<1>9. CASE Environment
  BY <1>9 DEF Environment, HaltRecorded, ClearRecorded, BrokerAccept, BrokerDrop,
     BrokerFill,
     BrokerEnd, Expire, Redeliver, tables
<1> QED
  BY <1>1, <1>2, <1>3, <1>4, <1>5, <1>6, <1>7, <1>8, <1>9 DEF Next, HandlerStep,
     CancelStep

\* The vocabulary of the abstract specification is this one.
LEMMA SameTable ==
  /\ Lifecycle!OrderStatus = OrderStatus
  /\ Lifecycle!NoRow = NoRow
  /\ Lifecycle!ValidTransitions = ValidTransitions
  BY DEF Lifecycle!OrderStatus, OrderStatus, Lifecycle!NoRow, NoRow,
     Lifecycle!ValidTransitions, ValidTransitions, Lifecycle!TerminalStatus, TerminalStatus

\* The engine implements OrderLifecycle: consumer, poller, kill switch and
\* reconciliation together, with every stale read, move each row only along
\* the transition table, so no terminal order is ever moved again.
THEOREM ImplementsLifecycle == Spec => LifecycleSpec
<1> DEFINE status == [s \in Signals |-> row[s].st]
<1>1. Init => Lifecycle!Init
  BY SameTable DEF Init, Lifecycle!Init
<1>2. TypeInv /\ [Next]_vars => [Lifecycle!Next]_status
  <2> SUFFICES ASSUME TypeInv, [Next]_vars PROVE [Lifecycle!Next]_status
    OBVIOUS
  <2>1. CASE UNCHANGED row
    BY <2>1
  <2>2. ASSUME NEW s \in Signals, RowMove(s) PROVE [Lifecycle!Next]_status
    <3> USE DEF TypeInv, TypeOK, TablesOK
    <3>1. CASE row[s].st = NoRow /\ row' = [row EXCEPT ![s].st = "PENDING"]
      <4>1. status' = [status EXCEPT ![s] = "PENDING"]
        BY <3>1
      <4> QED
        BY <3>1, <4>1, SameTable DEF Lifecycle!Next, Lifecycle!Submit
    <3>2. CASE row[s].st \in OrderStatus /\
               \E new \in ValidTransitions[row[s].st] \cup {row[s].st},
                  b \in BOOLEAN, q \in 0..Qty :
                 row' = [row EXCEPT ![s] = [st |-> new, bid |-> b, filled |-> q]]
      <4>4. PICK new \in ValidTransitions[row[s].st] \cup {row[s].st}, b \in BOOLEAN, q \in 0..Qty :
               row' = [row EXCEPT ![s] = [st |-> new, bid |-> b, filled |-> q]]
        BY <3>2
      <4>1. status' = [status EXCEPT ![s] = new]
        <5>1. \A x \in Signals : row'[x].st = IF x = s THEN new ELSE row[x].st
          BY <4>4
        <5> QED
          BY <5>1
      <4>2. CASE new = row[s].st
        BY <4>1, <4>2
      <4>3. CASE new \in ValidTransitions[row[s].st]
        <5>1. status[s] = row[s].st
          OBVIOUS
        <5> HIDE DEF status
        <5>2. /\ status[s] \in Lifecycle!OrderStatus
              /\ new \in Lifecycle!ValidTransitions[status[s]]
          BY <3>2, <4>3, <5>1, SameTable
        <5>3. Lifecycle!Move(s)
          BY <4>1, <5>2 DEF Lifecycle!Move, status
        <5> QED
          BY <5>3 DEF Lifecycle!Next
      <4> QED
        BY <4>1, <4>2, <4>3
    <3> QED
      BY <2>1, <2>2, <3>1, <3>2 DEF RowMove
  <2> QED
    BY <2>1, <2>2, NextMove DEF vars, tables
<1> QED
  BY <1>1, <1>2, InitType, NextType, PTL DEF Spec, LifecycleSpec, Lifecycle!Spec

-----------------------------------------------------------------------------
(* At most one broker order per signal.                                     *)

\* What a row write may do to the facts PlacementInv is about
LEMMA MoveKeeps ==
  ASSUME TablesOK, NEW s \in Signals, RowMove(s), NEW x \in Signals
  PROVE  /\ row[x].st # NoRow => row'[x].st # NoRow
         /\ row'[x].st = "PENDING" => row[x].st \in {"PENDING", NoRow}
<1> USE DEF TablesOK, NoRow
<1>1. CASE UNCHANGED row
  BY <1>1
<1>2. CASE row[s].st = NoRow /\ row' = [row EXCEPT ![s].st = "PENDING"]
  BY <1>2
<1>3. CASE row[s].st \in OrderStatus /\
           \E new \in ValidTransitions[row[s].st] \cup {row[s].st}, b \in BOOLEAN, q \in 0..Qty :
             row' = [row EXCEPT ![s] = [st |-> new, bid |-> b, filled |-> q]]
  <2>1. ValidTransitions[row[s].st] \subseteq OrderStatus \ {"PENDING"}
    BY <1>3 DEF ValidTransitions, OrderStatus, TerminalStatus
  <2>2. PICK new \in ValidTransitions[row[s].st] \cup {row[s].st}, b \in BOOLEAN, q \in 0..Qty :
           row' = [row EXCEPT ![s] = [st |-> new, bid |-> b, filled |-> q]]
    BY <1>3
  <2>3. CASE x = s
    BY <1>3, <2>1, <2>2, <2>3 DEF OrderStatus
  <2>4. CASE x # s
    BY <2>2, <2>4
  <2> QED
    BY <2>3, <2>4
<1> QED
  BY <1>1, <1>2, <1>3 DEF RowMove

\* The two halves of PlacementInv: what it says of each signal, and what it
\* says of the signal the consumer works on.
PerSignal ==
  \A s \in Signals : /\ sent[s] + accepted[s] <= 1
                     /\ sent[s] + accepted[s] > 0 => row[s].st # NoRow
                     /\ accepted[s] > 0 => Visible(s)

PerConsumer ==
  /\ c.pc \in {"entry", "lookup"} /\ row[c.s].st = "PENDING" => sent[c.s] = 0
  /\ c.pc \in {"check", "find", "place"} => row[c.s].st # NoRow /\ sent[c.s] = 0
  /\ c.pc = "place" => accepted[c.s] = 0

\* The two halves are PlacementInv.
LEMMA Halves == PlacementInv <=> PerSignal /\ PerConsumer
  BY DEF PlacementInv, PerSignal, PerConsumer, RowBeforeBroker

\* A row write alone disturbs neither half.
LEMMA WriteKeeps ==
  ASSUME TypeInv, PerSignal, PerConsumer, UNCHANGED <<sent, accepted, bro>>,
         UNCHANGED row \/ \E s \in Signals : RowMove(s)
  PROVE  /\ PerSignal'
         /\ UNCHANGED c => PerConsumer'
<1>1. \A x \in Signals : /\ row[x].st # NoRow => row'[x].st # NoRow
                         /\ row'[x].st = "PENDING" => row[x].st \in {"PENDING", NoRow}
  BY MoveKeeps DEF TypeInv, TypeOK
<1>2. PerSignal'
  BY <1>1 DEF PerSignal, Visible
<1>3. ASSUME UNCHANGED c PROVE PerConsumer'
  <2>1. CASE c.pc \notin {"entry", "lookup", "check", "find", "place"}
    BY <1>3, <2>1 DEF PerConsumer
  <2>2. CASE c.pc \in {"entry", "lookup", "check", "find", "place"}
    <3>1. c.s \in Signals
      BY <2>2 DEF TypeInv, ConsumerInv
    <3>2. row[c.s].st = NoRow => sent[c.s] = 0
      BY <3>1 DEF PerSignal, TypeInv, TypeOK, BrokerOK
    <3> QED
      BY <1>1, <1>3, <3>1, <3>2 DEF PerConsumer, NoRow
  <2> QED
    BY <2>1, <2>2
<1> QED
  BY <1>2, <1>3

\* A step of the consumer keeps both halves: it sends a request only for a row
\* that has neither a request nor an order.
LEMMA ConsumerPlacement ==
  ASSUME TypeInv, PerSignal, PerConsumer, ConsumerStep
  PROVE  PerSignal' /\ PerConsumer'
<1> USE DEF switch
<1>0. UNCHANGED row \/ \E s \in Signals : RowMove(s)
  BY NextMove DEF Next
<1>c. c \in ConsumerRecord
  BY DEF TypeInv, TypeOK, ConsumerOK
<1>1. CASE ConsumerPlace
  <2>1. c.s \in Signals /\ sent[c.s] = 0 /\ accepted[c.s] = 0 /\ row[c.s].st # NoRow
    BY <1>1 DEF ConsumerPlace, TypeInv, ConsumerInv, PerConsumer
  <2>2. PerSignal'
    BY <1>1, <2>1 DEF ConsumerPlace, PerSignal, TypeInv, TypeOK, BrokerOK, tables, Visible
  <2>3. c'.pc = "await"
    BY <1>1, <1>c DEF ConsumerPlace, Goto, ConsumerRecord
  <2> QED
    BY <2>2, <2>3 DEF PerConsumer
<1>2. CASE ConsumerAwait
  <2>1. c.s \in Signals
    BY <1>2 DEF ConsumerAwait, TypeInv, ConsumerInv
  <2>2. PerSignal'
    BY <1>2, <2>1 DEF ConsumerAwait, PerSignal, TypeInv, TypeOK, BrokerOK, tables, Visible
  <2>3. c'.pc \in {"record", "reject", "ack_unknown"}
    BY <1>2, <1>c DEF ConsumerAwait, Goto, ConsumerRecord
  <2> QED
    BY <2>2, <2>3 DEF PerConsumer
<1>3. CASE ConsumerStep /\ ~ConsumerPlace /\ ~ConsumerAwait
  <2>1. UNCHANGED <<sent, accepted, bro>>
    BY <1>3 DEF ConsumerStep, ConsumerEntry, ConsumerLookup, ConsumerSubmit,
       ConsumerRelookup,
       ConsumerCheck, ConsumerFind, ConsumerRecover, ConsumerRead, ConsumerWrite,
       ConsumerSettle, ConsumerCommit, ConsumerFail, broker
  <2>2. PerSignal'
    BY <2>1, <1>0, WriteKeeps
  <2>3. PerConsumer'
    <3>1. CASE ConsumerEntry
      <4>1. c'.pc \in {"commit", "fail", "lookup"} /\ c'.s = c.s /\ row' = row
        BY <3>1, <1>c DEF ConsumerEntry, Goto, ConsumerRecord, tables
      <4>2. c.pc = "entry"
        BY <3>1 DEF ConsumerEntry
      <4> QED
        BY <4>1, <4>2, <2>1 DEF PerConsumer
    <3>2. CASE ConsumerLookup
      <4>1. /\ c'.pc \in {"submit", "check", "recover", "settle"} /\ c'.s = c.s /\ row' = row
            /\ c'.pc = "check" => row[c.s].st = "PENDING"
        BY <3>2, <1>c DEF ConsumerLookup, Goto, ConsumerRecord, tables
      <4>2. c.pc = "lookup"
        BY <3>2 DEF ConsumerLookup
      <4> QED
        BY <4>1, <4>2, <2>1 DEF PerConsumer, NoRow
    <3>3. CASE ConsumerSubmit
      <4>1. c.s \in Signals
        BY <3>3 DEF ConsumerSubmit, TypeInv, ConsumerInv
      <4>2. /\ c'.pc \in {"check", "relookup", "fail"} /\ c'.s = c.s
            /\ c'.pc = "check" => row[c.s].st = NoRow /\ row' = [row EXCEPT ![c.s].st = "PENDING"]
        BY <3>3, <1>c DEF ConsumerSubmit, Goto, ConsumerRecord
      <4>3. CASE c'.pc = "check"
        <5>1. sent[c.s] = 0
          BY <4>1, <4>2, <4>3 DEF PerSignal, TypeInv, TypeOK, BrokerOK
        <5>2. row'[c.s].st = "PENDING"
          BY <4>1, <4>2, <4>3 DEF TypeInv, TypeOK, TablesOK
        <5> QED
          BY <4>2, <4>3, <5>1, <5>2, <2>1 DEF PerConsumer, NoRow
      <4> QED
        BY <4>2, <4>3 DEF PerConsumer
    <3>4. CASE ConsumerCheck
      <4>1. c'.pc \in {"fail", "find"} /\ c'.s = c.s /\ row' = row /\ c.pc = "check"
        BY <3>4, <1>c DEF ConsumerCheck, Goto, ConsumerRecord, tables
      <4> QED
        BY <4>1, <2>1 DEF PerConsumer
    <3>5. CASE ConsumerFind
      <4>1. /\ c'.pc \in {"record", "place", "fail"} /\ c'.s = c.s /\ row' = row /\ c.pc = "find"
            /\ c'.pc = "place" => ~Visible(c.s)
        BY <3>5, <1>c DEF ConsumerFind, Found, Goto, ConsumerRecord, tables
      <4>2. c.s \in Signals /\ accepted[c.s] \in Nat
        BY <4>1 DEF TypeInv, TypeOK, ConsumerInv, BrokerOK
      <4> QED
        BY <4>1, <4>2, <2>1 DEF PerConsumer, PerSignal
    <3>6. CASE ConsumerRelookup \/ ConsumerRecover \/ ConsumerRead \/ ConsumerWrite \/ ConsumerSettle
      <4>1. c'.pc \in {"settle", "fail", "record", "write", "recover", "commit", "idle"}
        BY <3>6, <1>c, IdleType
        DEF ConsumerRelookup, ConsumerRecover, ConsumerRead, ConsumerWrite,
           ConsumerSettle,
            Found, Goto, ConsumerRecord
      <4> QED
        BY <4>1 DEF PerConsumer
    <3>7. CASE ConsumerCommit \/ ConsumerFail
      <4>1. c'.pc = "idle"
        BY <3>7, IdleType DEF ConsumerCommit, ConsumerFail
      <4> QED
        BY <4>1 DEF PerConsumer
    <3> QED
      BY <1>3, <3>1, <3>2, <3>3, <3>4, <3>5, <3>6, <3>7 DEF ConsumerStep
  <2> QED
    BY <2>2, <2>3
<1> QED
  BY <1>1, <1>2, <1>3

\* Whatever happens to the order at Kite, and a cancel there, keeps both halves.
LEMMA BrokerPlacement ==
  ASSUME TypeInv, PerSignal, PerConsumer, NEW s \in Signals,
         BrokerAccept(s) \/ BrokerDrop(s) \/ BrokerFill(s) \/ BrokerEnd(s) \/ CancelAtBroker(s)
  PROVE  PerSignal' /\ PerConsumer'
<1> USE DEF TypeInv, TypeOK, BrokerOK
<1>0. UNCHANGED <<row, c>>
  BY DEF BrokerAccept, BrokerDrop, BrokerFill, BrokerEnd, CancelAtBroker, tables, process
<1>1. CASE BrokerAccept(s)
  <2>1. PerSignal'
    BY <1>0, <1>1 DEF BrokerAccept, PerSignal, Visible, KiteStatus
  <2>2. c.pc \in {"entry", "lookup", "check", "find", "place"} => c.s \in Signals
    BY DEF ConsumerInv
  <2>3. sent[s] > 0 /\ sent' = [sent EXCEPT ![s] = @ - 1] /\ accepted' = [accepted EXCEPT ![s] = @ + 1]
    BY <1>1 DEF BrokerAccept
  <2>4. PerConsumer'
    BY <1>0, <2>2, <2>3 DEF PerConsumer
  <2> QED
    BY <2>1, <2>4
<1>2. CASE BrokerDrop(s)
  <2>1. PerSignal'
    BY <1>0, <1>2 DEF BrokerDrop, PerSignal, Visible
  <2>2. c.pc \in {"entry", "lookup", "check", "find", "place"} => c.s \in Signals
    BY DEF ConsumerInv
  <2>3. PerConsumer'
    BY <1>0, <1>2, <2>2 DEF BrokerDrop, PerConsumer
  <2> QED
    BY <2>1, <2>3
<1>3. CASE BrokerFill(s) \/ BrokerEnd(s) \/ CancelAtBroker(s)
  <2>1. UNCHANGED <<sent, accepted>>
    BY <1>3 DEF BrokerFill, BrokerEnd, CancelAtBroker
  <2>2. \A x \in Signals : Visible(x) => Visible(x)'
    BY <1>3 DEF BrokerFill, BrokerEnd, CancelAtBroker, Visible, KiteStatus
  <2> QED
    BY <1>0, <2>1, <2>2 DEF PerSignal, PerConsumer
<1> QED
  BY <1>1, <1>2, <1>3

\* Under PendingSettles every step keeps PlacementInv.
LEMMA NextPlacement ==
  ASSUME PendingSettles, TypeInv, PlacementInv, [Next]_vars
  PROVE  PlacementInv'
<1>h. PerSignal' /\ PerConsumer' => PlacementInv'
  BY DEF PlacementInv, PerSignal, PerConsumer, RowBeforeBroker
<1>i. PerSignal /\ PerConsumer
  BY Halves
<1>1. CASE UNCHANGED <<row, sent, accepted, bro, c>>
  BY <1>1, <1>i, <1>h, WriteKeeps DEF PerConsumer
<1>2. CASE ConsumerStep
  BY <1>2, <1>i, <1>h, ConsumerPlacement
<1>3. ASSUME NEW s \in Signals, ConsumerReceive(s) PROVE PlacementInv'
  <2>1. UNCHANGED <<row, sent, accepted, bro>>
    BY <1>3 DEF ConsumerReceive, tables, broker
  <2>2. CASE UNCHANGED c
    BY <2>1, <2>2, <1>1
  <2>3. CASE c' = [IdleConsumer EXCEPT !.pc = "entry", !.s = s]
    <3>1. c'.pc = "entry" /\ c'.s = s
      BY <2>3, IdleType DEF ConsumerRecord
    <3>2. row[s].st = "PENDING" => sent[s] = 0
      BY <1>3 DEF ConsumerReceive, MayAttempt
    <3>3. PerConsumer'
      BY <2>1, <3>1, <3>2 DEF PerConsumer
    <3> QED
      BY <2>1, <3>3, <1>i, <1>h, WriteKeeps
  <2> QED
    BY <1>3, <2>2, <2>3 DEF ConsumerReceive
<1>4. ASSUME NEW s \in Signals,
             BrokerAccept(s) \/ BrokerDrop(s) \/ BrokerFill(s) \/ BrokerEnd(s) \/ CancelAtBroker(s)
      PROVE PlacementInv'
  BY <1>4, <1>i, <1>h, BrokerPlacement
<1>5. ASSUME NEW s \in Signals, HandlerStep(s) \/ CancelRead(s) \/ CancelWrite(s)
      PROVE PlacementInv'
  <2>1. UNCHANGED <<sent, accepted, bro, c>>
    BY <1>5 DEF HandlerStep, HandlerGate, HandlerRead, HandlerWrite, HandlerApply,
       CancelRead,
       CancelWrite, broker
  <2>2. UNCHANGED row \/ \E x \in Signals : RowMove(x)
    BY <1>5, NextMove DEF Next, CancelStep
  <2> QED
    BY <1>i, <1>h, <2>1, <2>2, WriteKeeps
<1>6. CASE Crash
  <2>1. c'.pc = "idle" /\ UNCHANGED <<row, sent, accepted, bro>>
    BY <1>6, IdleType DEF Crash, tables, broker
  <2>2. PerConsumer'
    BY <2>1 DEF PerConsumer
  <2> QED
    BY <1>i, <1>h, <2>1, <2>2, WriteKeeps
<1>7. ASSUME NEW t \in todo, BootOrder(t) PROVE PlacementInv'
  <2>1. UNCHANGED <<row, sent, accepted, bro>>
    BY <1>7 DEF BootOrder, tables, broker
  <2>2. CASE UNCHANGED c
    BY <2>1, <2>2, <1>1
  <2>3. CASE /\ MayAttempt(t.s)
             /\ c' = [IdleConsumer EXCEPT !.pc = "entry", !.s = t.s, !.src = "boot"]
    <3>1. c'.pc = "entry" /\ c'.s = t.s
      BY <2>3, IdleType DEF ConsumerRecord
    <3>2. PerConsumer'
      BY <2>1, <2>3, <3>1 DEF PerConsumer, MayAttempt
    <3> QED
      BY <1>i, <1>h, <2>1, <3>2, WriteKeeps
  <2>4. CASE c' = [IdleConsumer EXCEPT !.pc = "recover", !.s = t.s, !.src = "boot"]
    <3>1. c'.pc = "recover"
      BY <2>4, IdleType DEF ConsumerRecord
    <3>2. PerConsumer'
      BY <3>1 DEF PerConsumer
    <3> QED
      BY <1>i, <1>h, <2>1, <3>2, WriteKeeps
  <2> QED
    BY <1>7, <2>2, <2>3, <2>4 DEF BootOrder
<1>8. CASE \/ PollList \/ PollBroker \/ DurableRefresh \/ HaltEvent \/ ClearEvent \/ CancelScan
           \/ Restart \/ BootList \/ BootDone
  BY <1>1, <1>8 DEF PollList, PollBroker, DurableRefresh, HaltEvent, ClearEvent,
     CancelScan,
     Restart, BootList, BootDone, tables, broker
<1>9. CASE \/ HaltRecorded \/ ClearRecorded \/ \E s \in Signals : Expire(s) \/ Redeliver(s)
           \/ UNCHANGED vars
  BY <1>1, <1>9 DEF HaltRecorded, ClearRecorded, Expire, Redeliver, tables, broker,
     process, vars
<1> QED
  BY <1>2, <1>3, <1>4, <1>5, <1>6, <1>7, <1>8, <1>9 DEF Next, CancelStep, Environment

\* Nothing has been placed initially.
LEMMA InitPlacement == Init => PlacementInv
  BY DEF Init, PlacementInv, RowBeforeBroker, IdleConsumer

\* As long as no request of a PENDING row is still in flight when the row is
\* tried again, no sequence of crashes, restarts, lost acknowledgements,
\* kill-switch cancels, failed writes and redeliveries makes the engine put
\* two orders for one signal on Kite's book.
THEOREM ExactlyOncePlacement ==
  ASSUME PendingSettles
  PROVE  Spec => []AtMostOneBrokerOrder
<1>1. TypeInv /\ PlacementInv => AtMostOneBrokerOrder
  BY DEF TypeInv, TypeOK, BrokerOK, PlacementInv, AtMostOneBrokerOrder
<1> QED
  BY <1>1, InitType, NextType, InitPlacement, NextPlacement, PTL DEF Spec

\* No request leaves for the broker, and no order exists there, without a row
\* in the orders table, so a restart can always find what was placed.
THEOREM NothingUnrecorded ==
  ASSUME PendingSettles
  PROVE  Spec => []RowBeforeBroker
<1>1. PlacementInv => RowBeforeBroker
  BY DEF PlacementInv
<1> QED
  BY <1>1, InitType, NextType, InitPlacement, NextPlacement, PTL DEF Spec

-----------------------------------------------------------------------------
(* What the table and every copy on its way into it say is what Kite said.  *)

Reportable == {"PLACED", "PARTIALLY_FILLED"} \cup TerminalStatus

BudgetInv == \A kind \in FaultKinds : budget[kind] <= Allowance[kind]

BrokerInv(s) ==
  /\ bro[s].st = "COMPLETE" <=> bro[s].qty = Qty
  /\ bro[s].st \in {NoRow, "REJECTED"} => bro[s].qty = 0
  /\ Visible(s) => accepted[s] > 0

\* Kite has said so of the order at some time, and what is final still holds.
Tells(s, st, qty) ==
  /\ st \in Reportable
  /\ qty <= bro[s].qty
  /\ st = "FILLED" => bro[s].st = "COMPLETE" /\ qty = Qty
  /\ st = "REJECTED" => bro[s].st = "REJECTED"
  /\ st = "CANCELLED" => bro[s].st = "CANCELLED" /\ qty = bro[s].qty
  /\ st \in {"PLACED", "PARTIALLY_FILLED"} => qty < Qty
  /\ st = "PARTIALLY_FILLED" => qty > 0

\* A row without a broker id has not been reported by Kite.
RowInv(s) ==
  /\ row[s].st \in {NoRow, "PENDING", "ACK_UNKNOWN"} => ~row[s].bid
  /\ row[s].st \in {"PLACED", "PARTIALLY_FILLED", "FILLED"} => row[s].bid
  /\ ~row[s].bid => row[s].filled = 0
  /\ row[s].filled <= bro[s].qty
  /\ row[s].st \in {"PLACED", "PARTIALLY_FILLED"} => row[s].filled < Qty
  /\ row[s].st = "PARTIALLY_FILLED" => row[s].filled > 0
  /\ row[s].st = "FILLED" => bro[s].st = "COMPLETE" /\ row[s].filled = Qty
  /\ row[s].st = "REJECTED" /\ row[s].bid => bro[s].st = "REJECTED"

Recording == c.pc = "record" \/ (c.pc = "write" /\ c.job = "record")

\* The consumer records what Kite said, over a row Kite has not reported.
ConsumerTells ==
  /\ Recording => Tells(c.s, c.st, c.qty) /\ c.st # "PARTIALLY_FILLED"
  /\ c.pc \in {"check", "find", "place", "await", "recover", "record", "reject", "ack_unknown", "write"}
       => ~row[c.s].bid

\* A handler works on a reported row; it never brings less than it listed.
HandlerTells(s) ==
  /\ f[s].pc # "idle" => row[s].bid /\ f[s].prior <= bro[s].qty
  /\ f[s].kind = "terminal" => f[s].new \in {"CANCELLED", "REJECTED"}
  /\ f[s].pc \in {"gate", "update", "write", "apply"} =>
       /\ Tells(s, f[s].new, f[s].qty) /\ f[s].qty >= f[s].prior
       /\ f[s].new = "PLACED" => f[s].kind = "boot"

CancelTells(s) ==
  k[s].pc # "idle" => k[s].filled <= bro[s].qty /\ (~row[s].bid => k[s].filled = 0)

\* The handlers of a poll cycle start together.
CycleInv == \A s, x \in Signals : f[s].pc = "listed" => f[x].pc \in {"idle", "listed"}

\* Startup works alone, on one entry for each open row.
BootInv ==
  /\ up \in {"down", "listing"} => c.pc = "idle" /\ FillsIdle
  /\ up # "boot" => todo = {}
  /\ \A t, u \in todo : t.s = u.s => t = u
  /\ \A t \in todo :
       /\ f[t.s].pc = "idle"
       /\ c.pc # "idle" => c.s # t.s
       /\ t.st \in {"PLACED", "PARTIALLY_FILLED"} => row[t.s].bid /\ t.filled <= bro[t.s].qty
       /\ t.st \notin {"PLACED", "PARTIALLY_FILLED"} => ~row[t.s].bid

TellInv ==
  /\ BudgetInv /\ ConsumerTells /\ CycleInv /\ BootInv
  /\ \A s \in Signals : BrokerInv(s) /\ RowInv(s) /\ HandlerTells(s) /\ CancelTells(s)

\* Until a kill switch is engaged, nothing cancels, and every handler that
\* still has the row to write listed the quantity the row has now.
NoHalt == Untroubled({"halt"})

\* Where a handler stands between its two writes: the terminal handler
\* applies first and writes the row last, the others the other way round.
Unwritten(s) ==
  f[s].pc \in {"listed", "gate", "update", "write"} \/ (f[s].pc = "apply" /\ f[s].kind = "terminal")
Unapplied(s) ==
  f[s].pc \in {"listed", "gate", "apply"} \/ (f[s].pc \in {"update", "write"} /\ f[s].kind # "terminal")
WrittenFirst(s) == f[s].pc = "apply" /\ f[s].kind # "terminal"
AppliedFirst(s) == f[s].pc \in {"update", "write"} /\ f[s].kind = "terminal"

HaltInv ==
  NoHalt =>
    /\ ~dks /\ ~ks /\ CancelsIdle
    /\ \A s \in Signals : row[s].st = "CANCELLED" => bro[s].st = "CANCELLED"
    /\ \A s \in Signals : Unwritten(s) => f[s].prior = row[s].filled
    /\ \A t \in todo : t.filled = row[t.s].filled

\* Without crash, failed write and redelivery no unit is counted twice: until
\* the row is final, what is applied is what was listed or is being written.
CountedInv(s) ==
  /\ row[s].bid => msg[s] = "done" \/ (c.s = s /\ c.pc \in {"settle", "commit"})
  /\ ~row[s].bid => applied[s] = 0
  /\ f[s].kind # "boot"
  /\ applied[s] <= bro[s].qty
  /\ Unapplied(s) => applied[s] <= f[s].prior
  /\ AppliedFirst(s) => applied[s] <= f[s].qty
  /\ Tracked(s) =>
       /\ f[s].pc = "idle" => applied[s] <= row[s].filled
       /\ Unwritten(s) => row[s].filled = f[s].prior
       /\ WrittenFirst(s) => row[s].filled = f[s].qty
       /\ f[s].pc = "write" => f[s].prev = row[s].st

Smooth == Untroubled({"crash", "db", "redeliver"})

CountInv ==
  Smooth =>
    /\ up = "run" /\ c.src = "kafka" /\ (c.pc # "idle" => msg[c.s] = "ready")
    /\ c.pc = "settle" /\ c.st \in {"FILLED", "PARTIALLY_FILLED"} =>
         applied[c.s] = 0 /\ c.qty <= bro[c.s].qty /\ f[c.s].pc = "idle" /\ row[c.s].st = "FILLED"
    /\ \A s \in Signals : CountedInv(s)

\* Without any fault the consumer holds its row from reservation to record,
\* and every quantity is gated, written and applied exactly once.
AtWork == {"check", "find", "place", "await", "record", "reject", "write"}

CalmConsumer ==
  /\ c.pc \notin {"ack_unknown", "recover"}
  /\ c.pc = "settle" => c.st \notin {"FILLED", "PARTIALLY_FILLED"}
  /\ c.pc \in AtWork => row[c.s].st = "PENDING"
  /\ c.pc \in {"check", "find", "place"} => sent[c.s] = 0 /\ ~Visible(c.s)
  /\ c.pc = "await" => (sent[c.s] = 1 /\ ~Visible(c.s)) \/ (sent[c.s] = 0 /\ Visible(c.s))
  /\ c.pc = "reject" \/ (c.pc = "write" /\ c.job = "reject") => sent[c.s] = 0 /\ ~Visible(c.s)
  /\ c.pc = "write" => c.job \in {"record", "reject"} /\ c.prev = "PENDING"
  /\ Recording => c.st = "PLACED" /\ c.qty = 0 /\ Visible(c.s) /\ sent[c.s] = 0

CalmRow(s) ==
  /\ row[s].st = "PENDING" => c.s = s /\ c.pc \in AtWork
  /\ row[s].st \in {NoRow, "REJECTED"} /\ ~row[s].bid => sent[s] = 0 /\ ~Visible(s)
  /\ row[s].bid => sent[s] = 0 /\ Visible(s)
  /\ ~row[s].bid => row[s].st \in {NoRow, "PENDING", "REJECTED"}
  /\ row[s].st = "CANCELLED" => row[s].filled = bro[s].qty

CalmHandler(s) ==
  /\ Unwritten(s) => Tracked(s)
  /\ f[s].pc = "idle" => applied[s] = row[s].filled
  /\ Unapplied(s) => applied[s] = f[s].prior
  /\ WrittenFirst(s) => row[s].filled = f[s].qty
  /\ AppliedFirst(s) => applied[s] = f[s].qty
  /\ f[s].pc = "gate" => f[s].qty > f[s].prior
  /\ f[s].pc \in {"gate", "update", "write"} /\ f[s].new \in {"CANCELLED", "REJECTED"}
       => f[s].kind = "terminal"
  /\ \A q \in 0..Qty : <<s, q>> \in gate =>
       q <= row[s].filled \/ (f[s].pc \in {"update", "write", "apply"} /\ q = f[s].qty)

Calm == Untroubled(FaultKinds)

CalmInv ==
  Calm => CalmConsumer /\ \A s \in Signals : CalmRow(s) /\ CalmHandler(s)

-----------------------------------------------------------------------------
(* Which steps touch which part of the state.                               *)

\* Only four writers touch the orders table, and four steps the order at Kite.
LEMMA TableWriters ==
  ASSUME [Next]_vars
  PROVE  /\ \/ UNCHANGED row
            \/ ConsumerSubmit \/ ConsumerWrite
            \/ \E s \in Signals : HandlerWrite(s) \/ CancelWrite(s)
         /\ \/ UNCHANGED bro
            \/ \E s \in Signals : CancelAtBroker(s) \/ BrokerAccept(s) \/ BrokerFill(s) \/ BrokerEnd(s)
         /\ \/ UNCHANGED <<sent, accepted>>
            \/ ConsumerPlace \/ ConsumerAwait \/ \E s \in Signals : BrokerAccept(s) \/ BrokerDrop(s)
         /\ UNCHANGED applied \/ ConsumerSettle \/ \E s \in Signals : HandlerApply(s)
         /\ UNCHANGED gate \/ \E s \in Signals : HandlerGate(s)
<1> SUFFICES ASSUME Next
             PROVE  /\ \/ UNCHANGED row
                       \/ ConsumerSubmit \/ ConsumerWrite
                       \/ \E s \in Signals : HandlerWrite(s) \/ CancelWrite(s)
                    /\ \/ UNCHANGED bro
                       \/ \E s \in Signals : CancelAtBroker(s) \/ BrokerAccept(s) \/ BrokerFill(s) \/ BrokerEnd(s)
                    /\ \/ UNCHANGED <<sent, accepted>>
                       \/ ConsumerPlace \/ ConsumerAwait
                       \/ \E s \in Signals : BrokerAccept(s) \/ BrokerDrop(s)
                    /\ UNCHANGED applied \/ ConsumerSettle \/ \E s \in Signals : HandlerApply(s)
                    /\ UNCHANGED gate \/ \E s \in Signals : HandlerGate(s)
  BY DEF vars, tables, broker
<1> USE DEF tables, broker
<1>1. CASE ConsumerStep
  BY <1>1 DEF ConsumerStep, ConsumerEntry, ConsumerLookup, ConsumerSubmit,
     ConsumerRelookup,
     ConsumerCheck, ConsumerFind, ConsumerPlace, ConsumerAwait, ConsumerRecover, ConsumerRead,
     ConsumerWrite, ConsumerSettle, ConsumerCommit, ConsumerFail
<1>2. ASSUME NEW s \in Signals, ConsumerReceive(s) \/ HandlerStep(s) \/ CancelStep(s)
      PROVE  /\ UNCHANGED row \/ HandlerWrite(s) \/ CancelWrite(s)
             /\ UNCHANGED bro \/ CancelAtBroker(s)
             /\ UNCHANGED <<sent, accepted>>
             /\ UNCHANGED applied \/ HandlerApply(s)
             /\ UNCHANGED gate \/ HandlerGate(s)
  BY <1>2 DEF ConsumerReceive, HandlerStep, CancelStep, HandlerGate, HandlerRead,
     HandlerWrite,
     HandlerApply, CancelAtBroker, CancelRead, CancelWrite
<1>3. CASE \/ PollList \/ PollBroker \/ DurableRefresh \/ HaltEvent \/ ClearEvent \/ CancelScan
           \/ Crash \/ Restart \/ BootList \/ BootDone \/ \E t \in todo : BootOrder(t)
  BY <1>3 DEF PollList, PollBroker, DurableRefresh, HaltEvent, ClearEvent, CancelScan,
     Crash,
     Restart, BootList, BootDone, BootOrder
<1>4. CASE Environment
  BY <1>4 DEF Environment, HaltRecorded, ClearRecorded, BrokerAccept, BrokerDrop,
     BrokerFill,
     BrokerEnd, Expire, Redeliver
<1> QED
  BY <1>1, <1>2, <1>3, <1>4 DEF Next

\* Who moves the consumer, the handlers, the cancel tasks and the startup.
LEMMA ProcessWriters ==
  ASSUME [Next]_vars
  PROVE  /\ \/ UNCHANGED c
            \/ ConsumerStep \/ Crash
            \/ \E s \in Signals : ConsumerReceive(s)
            \/ \E t \in todo : BootOrder(t)
         /\ \/ UNCHANGED f
            \/ PollList \/ PollBroker \/ Crash
            \/ \E s \in Signals : HandlerStep(s)
            \/ \E t \in todo : BootOrder(t)
         /\ UNCHANGED k \/ CancelScan \/ Crash \/ \E s \in Signals : CancelStep(s)
         /\ \/ UNCHANGED <<up, todo>>
            \/ Crash \/ Restart \/ BootList \/ BootDone
            \/ \E t \in todo : BootOrder(t)
         /\ \/ UNCHANGED msg
            \/ ConsumerCommit \/ ConsumerFail
            \/ \E s \in Signals : ConsumerReceive(s) \/ Redeliver(s)
<1> USE DEF kafka, switch, process
<1>0. CASE UNCHANGED vars
  BY <1>0 DEF vars
<1>1. CASE ConsumerStep
  <2>1. UNCHANGED <<f, k, up, todo>> /\ (UNCHANGED msg \/ ConsumerCommit \/ ConsumerFail)
    BY <1>1 DEF ConsumerStep, ConsumerEntry, ConsumerLookup, ConsumerSubmit,
       ConsumerRelookup,
       ConsumerCheck, ConsumerFind, ConsumerPlace, ConsumerAwait, ConsumerRecover, ConsumerRead,
       ConsumerWrite, ConsumerSettle, ConsumerCommit, ConsumerFail
  <2> QED
    BY <1>1, <2>1
<1>2. ASSUME NEW s \in Signals, ConsumerReceive(s)
      PROVE  UNCHANGED <<f, k, up, todo>>
  BY <1>2 DEF ConsumerReceive
<1>3. ASSUME NEW s \in Signals, HandlerStep(s)
      PROVE  UNCHANGED <<c, k, up, todo, msg>>
  BY <1>3 DEF HandlerStep, HandlerGate, HandlerRead, HandlerWrite, HandlerApply
<1>4. ASSUME NEW s \in Signals, CancelStep(s)
      PROVE  UNCHANGED <<c, f, up, todo, msg>>
  BY <1>4 DEF CancelStep, CancelAtBroker, CancelRead, CancelWrite
<1>5. CASE PollList \/ PollBroker
  BY <1>5 DEF PollList, PollBroker
<1>6. CASE DurableRefresh \/ HaltEvent \/ ClearEvent \/ CancelScan
  BY <1>6 DEF DurableRefresh, HaltEvent, ClearEvent, CancelScan
<1>7. CASE Crash \/ Restart \/ BootList \/ BootDone \/ \E t \in todo : BootOrder(t)
  BY <1>7 DEF Crash, Restart, BootList, BootDone, BootOrder
<1>8. CASE Environment
  BY <1>8 DEF Environment, HaltRecorded, ClearRecorded, BrokerAccept, BrokerDrop,
     BrokerFill,
     BrokerEnd, Expire, Redeliver
<1> QED
  BY <1>0, <1>1, <1>2, <1>3, <1>4, <1>5, <1>6, <1>7, <1>8 DEF Next

\* A fault spends budget, and nothing gives it back.
LEMMA BudgetFalls ==
  ASSUME TypeInv, BudgetInv, [Next]_vars
  PROVE  /\ BudgetInv'
         /\ \A kind \in FaultKinds : budget'[kind] <= budget[kind]
<1>t. budget \in [FaultKinds -> Nat]
  BY DEF TypeInv, TypeOK, BudgetOK
<1>1. UNCHANGED budget \/ \E kind \in FaultKinds : Fault(kind)
  <2> USE DEF FaultKinds
  <2>0. CASE UNCHANGED vars
    BY <2>0 DEF vars
  <2>1. CASE ConsumerStep
    BY <2>1 DEF ConsumerStep, ConsumerEntry, ConsumerLookup, ConsumerSubmit,
       ConsumerRelookup,
       ConsumerCheck, ConsumerFind, ConsumerPlace, ConsumerAwait, ConsumerRecover, ConsumerRead,
       ConsumerWrite, ConsumerSettle, ConsumerCommit, ConsumerFail, Transition, ApplyFill
  <2>2. ASSUME NEW s \in Signals, ConsumerReceive(s) \/ HandlerStep(s) \/ CancelStep(s)
        PROVE  UNCHANGED budget \/ \E kind \in FaultKinds : Fault(kind)
    BY <2>2 DEF ConsumerReceive, HandlerStep, CancelStep, HandlerGate, HandlerRead,
       HandlerWrite,
       HandlerApply, CancelAtBroker, CancelRead, CancelWrite, Transition, ApplyFill
  <2>3. CASE \/ PollList \/ PollBroker \/ DurableRefresh \/ HaltEvent \/ ClearEvent \/ CancelScan
             \/ Crash \/ Restart \/ BootList \/ BootDone \/ \E t \in todo : BootOrder(t)
    BY <2>3 DEF PollList, PollBroker, DurableRefresh, HaltEvent, ClearEvent, CancelScan,
       Crash,
       Restart, BootList, BootDone, BootOrder
  <2>4. CASE Environment
    BY <2>4 DEF Environment, HaltRecorded, ClearRecorded, BrokerAccept, BrokerDrop,
       BrokerFill,
       BrokerEnd, Expire, Redeliver
  <2> QED
    BY <2>0, <2>1, <2>2, <2>3, <2>4 DEF Next
<1>2. \A kind \in FaultKinds : budget'[kind] <= budget[kind]
  BY <1>1, <1>t DEF Fault
<1>3. \A kind \in FaultKinds : budget[kind] \in Nat /\ budget'[kind] \in Nat /\ Allowance[kind] \in Nat
  BY <1>t, NextType, BoundAssumption DEF TypeInv, TypeOK, BudgetOK, Allowance
<1>4. BudgetInv'
  BY <1>2, <1>3 DEF BudgetInv
<1> QED
  BY <1>2, <1>4

\* A state no fault of these kinds has led to comes from such a state, and
\* by a step that is none of these faults.
LEMMA UntroubledBefore ==
  ASSUME TypeInv, BudgetInv, [Next]_vars, NEW kinds \in SUBSET FaultKinds, Untroubled(kinds)'
  PROVE  Untroubled(kinds) /\ \A kind \in kinds : ~Fault(kind)
<1>1. \A kind \in kinds : budget'[kind] <= budget[kind] /\ budget[kind] <= Allowance[kind]
  BY BudgetFalls DEF BudgetInv
<1>2. \A kind \in kinds : budget'[kind] = Allowance[kind]
  BY DEF Untroubled, Allowance
<1>3. \A kind \in kinds : budget[kind] \in Nat /\ Allowance[kind] \in Nat
  BY BoundAssumption DEF TypeInv, TypeOK, BudgetOK, Allowance
<1>4. \A kind \in kinds : budget[kind] = Allowance[kind] /\ budget'[kind] = budget[kind]
  BY <1>1, <1>2, <1>3
<1>5. ASSUME NEW kind \in kinds, Fault(kind) PROVE FALSE
  BY <1>3, <1>4, <1>5 DEF Fault, TypeInv, TypeOK, BudgetOK
<1> QED
  BY <1>4, <1>5 DEF Untroubled

-----------------------------------------------------------------------------
(* TellInv is inductive.                                                    *)

\* What the types say of one order.
LEMMA Values ==
  ASSUME TypeInv, NEW s \in Signals
  PROVE  /\ row[s].st \in RowStatus /\ row[s].bid \in BOOLEAN /\ row[s].filled \in 0..Qty
         /\ bro[s].st \in KiteStatus \cup {NoRow} /\ bro[s].qty \in 0..Qty
         /\ f[s] \in HandlerRecord /\ f[s].prior \in 0..Qty /\ f[s].qty \in 0..Qty
         /\ k[s] \in CancelRecord /\ k[s].filled \in 0..Qty
         /\ applied[s] \in Nat /\ sent[s] \in Nat /\ accepted[s] \in Nat
  BY DEF TypeInv, TypeOK, TablesOK, BrokerOK, HandlersOK, CancelsOK, HandlerRecord,
     CancelRecord

\* What the order at Kite may do: fill further, until it is final.
Onward(s) ==
  /\ bro'[s].qty >= bro[s].qty
  /\ bro[s].st \in {"COMPLETE", "CANCELLED", "REJECTED"} => bro'[s] = bro[s]

\* Every step takes the order at Kite onward.
LEMMA BrokerOnward ==
  ASSUME TypeInv, NEW s \in Signals, BrokerInv(s), [Next]_vars
  PROVE  BrokerInv(s)' /\ Onward(s)
<1>t. /\ bro \in [Signals -> [st : KiteStatus \cup {NoRow}, qty : 0..Qty]]
      /\ accepted \in [Signals -> Nat]
  BY DEF TypeInv, TypeOK, BrokerOK
<1>q. Qty \in Nat /\ Qty # 0 /\ bro[s].qty \in Nat /\ bro[s].qty <= Qty
  BY <1>t, QtyAssumption
<1>a. accepted[s] > 0 => accepted'[s] > 0
  <2>1. CASE UNCHANGED accepted
    BY <2>1
  <2>2. CASE ConsumerPlace \/ ConsumerAwait
    BY <2>2 DEF ConsumerPlace, ConsumerAwait
  <2>3. ASSUME NEW x \in Signals, BrokerAccept(x) PROVE accepted[s] > 0 => accepted'[s] > 0
    BY <2>3, <1>t DEF BrokerAccept
  <2>4. ASSUME NEW x \in Signals, BrokerDrop(x) PROVE UNCHANGED accepted
    BY <2>4 DEF BrokerDrop
  <2> QED
    BY <2>1, <2>2, <2>3, <2>4, <1>t, TableWriters
<1>1. CASE bro'[s] = bro[s]
  BY <1>1, <1>a, <1>q DEF BrokerInv, Onward, Visible
<1>2. CASE BrokerAccept(s)
  <2>1. bro'[s] = bro[s] \/ (~Visible(s) /\ bro'[s].st = "OPEN" /\ bro'[s].qty = bro[s].qty)
    BY <1>2, <1>t DEF BrokerAccept
  <2>2. accepted'[s] > 0
    BY <1>2, <1>t DEF BrokerAccept
  <2>3. ~Visible(s) => bro[s].st = NoRow
    BY <1>t DEF Visible
  <2> QED
    BY <1>1, <1>q, <2>1, <2>2, <2>3 DEF BrokerInv, Onward, Visible, NoRow
<1>3. CASE BrokerFill(s)
  <2>1. PICK q \in bro[s].qty + 1 .. Qty, st \in {"OPEN", "PARTIALLY", "COMPLETE"} :
           (st = "COMPLETE" <=> q = Qty) /\ bro'[s] = [st |-> st, qty |-> q]
    BY <1>3, <1>t DEF BrokerFill
  <2>2. bro[s].st \in LiveKite /\ UNCHANGED accepted
    BY <1>3 DEF BrokerFill
  <2> QED
    BY <1>q, <2>1, <2>2 DEF BrokerInv, Onward, Visible, LiveKite, KiteStatus, NoRow
<1>4. CASE BrokerEnd(s) \/ CancelAtBroker(s)
  <2>1. bro'[s] = bro[s] \/ (/\ bro[s].st \in LiveKite /\ bro'[s].st \in {"CANCELLED", "REJECTED"}
                             /\ bro'[s].qty = bro[s].qty
                             /\ bro'[s].st = "REJECTED" => bro[s].qty = 0)
    BY <1>4, <1>t DEF BrokerEnd, CancelAtBroker
  <2>2. UNCHANGED accepted
    BY <1>4 DEF BrokerEnd, CancelAtBroker
  <2> QED
    BY <1>1, <1>q, <2>1, <2>2 DEF BrokerInv, Onward, Visible, LiveKite, KiteStatus, NoRow
<1>5. ASSUME NEW x \in Signals, x # s,
             CancelAtBroker(x) \/ BrokerAccept(x) \/ BrokerFill(x) \/ BrokerEnd(x)
      PROVE  bro'[s] = bro[s]
  BY <1>5, <1>t DEF CancelAtBroker, BrokerAccept, BrokerFill, BrokerEnd
<1> QED
  BY <1>1, <1>2, <1>3, <1>4, <1>5, TableWriters

\* What a status write leaves behind: the new contents, over the status that
\* was read, or the old ones.
LEMMA WriteResult ==
  ASSUME TypeInv, NEW s \in Signals, NEW prev, NEW new, NEW filled, NEW hasBid \in BOOLEAN, NEW ok,
         Transition(s, prev, new, filled, hasBid, ok)
  PROVE  /\ \A x \in Signals \ {s} : row'[x] = row[x]
         /\ \/ row'[s] = row[s]
            \/ /\ row[s].st = prev /\ IsValidStatusTransition(prev, new)
               /\ row'[s].st = new /\ row'[s].filled = filled
               /\ row'[s].bid <=> (row[s].bid \/ hasBid)
  BY DEF TypeInv, TypeOK, TablesOK, Transition

\* The three writers of a status, and what each of them writes.
LEMMA ConsumerWrites ==
  ASSUME TypeInv, ConsumerWrite
  PROVE  /\ c.s \in Signals
         /\ \A x \in Signals \ {c.s} : row'[x] = row[x]
         /\ \/ row'[c.s] = row[c.s]
            \/ /\ row[c.s].st = c.prev /\ IsValidStatusTransition(c.prev, JobStatus)
               /\ row'[c.s].st = JobStatus
               /\ row'[c.s].filled = IF c.job = "record" THEN c.qty ELSE 0
               /\ row'[c.s].bid <=> (row[c.s].bid \/ c.job = "record")
<1>1. c.s \in Signals
  BY DEF ConsumerWrite, TypeInv, ConsumerInv
<1>2. PICK ok \in BOOLEAN :
        Transition(c.s, c.prev, JobStatus,
                   IF c.job = "record" THEN c.qty ELSE 0, c.job = "record", ok)
  BY DEF ConsumerWrite
<1>3. (c.job = "record") \in BOOLEAN
  OBVIOUS
<1> QED
  BY <1>1, <1>2, <1>3, WriteResult

\* The poller's write.
LEMMA HandlerWrites ==
  ASSUME TypeInv, NEW s \in Signals, HandlerTells(s), HandlerWrite(s)
  PROVE  /\ \A x \in Signals \ {s} : row'[x] = row[x]
         /\ \/ row'[s] = row[s]
            \/ /\ row[s].st = f[s].prev /\ IsValidStatusTransition(f[s].prev, f[s].new)
               /\ row'[s].st = f[s].new /\ row'[s].filled = f[s].qty
               /\ row'[s].bid <=> row[s].bid
<1>1. PICK ok \in BOOLEAN :
        Transition(s, f[s].prev, f[s].new,
                   IF f[s].kind = "terminal" /\ f[s].prior > f[s].qty
                     THEN f[s].prior ELSE f[s].qty, FALSE, ok)
  BY DEF HandlerWrite
<1>2. f[s].qty >= f[s].prior /\ f[s].qty \in Int /\ f[s].prior \in Int
  BY Values DEF HandlerWrite, HandlerTells
<1>3. (IF f[s].kind = "terminal" /\ f[s].prior > f[s].qty THEN f[s].prior ELSE f[s].qty) = f[s].qty
  BY <1>2
<1>4. Transition(s, f[s].prev, f[s].new, f[s].qty, FALSE, ok)
  BY <1>1, <1>3
<1> QED
  BY <1>4, WriteResult

\* The cancel task's write.
LEMMA CancelWrites ==
  ASSUME TypeInv, NEW s \in Signals, CancelWrite(s)
  PROVE  /\ \A x \in Signals \ {s} : row'[x] = row[x]
         /\ \/ row'[s] = row[s]
            \/ /\ row'[s].st = "CANCELLED" /\ row'[s].filled = k[s].filled
               /\ row'[s].bid <=> row[s].bid
<1>1. PICK ok \in BOOLEAN : Transition(s, k[s].prev, "CANCELLED", k[s].filled, FALSE, ok)
  BY DEF CancelWrite
<1> QED
  BY <1>1, WriteResult

\* A reservation fills a place that was empty.
LEMMA SubmitWrites ==
  ASSUME TypeInv, ConsumerSubmit
  PROVE  /\ c.s \in Signals
         /\ \A x \in Signals \ {c.s} : row'[x] = row[x]
         /\ \/ row'[c.s] = row[c.s]
            \/ /\ row[c.s].st = NoRow /\ row'[c.s].st = "PENDING"
               /\ row'[c.s].filled = row[c.s].filled /\ row'[c.s].bid = row[c.s].bid
<1>1. c.s \in Signals
  BY DEF ConsumerSubmit, TypeInv, ConsumerInv
<1> QED
  BY <1>1 DEF ConsumerSubmit, TypeInv, TypeOK, TablesOK

\* Only the recording consumer gives a row a broker id, and nobody takes it away.
LEMMA BidStays ==
  ASSUME TypeInv, \A s \in Signals : HandlerTells(s), [Next]_vars, NEW x \in Signals
  PROVE  /\ row[x].bid => row'[x].bid
         /\ row'[x].bid => row[x].bid \/ (ConsumerWrite /\ c.job = "record" /\ c.s = x)
<1>1. CASE UNCHANGED row
  BY <1>1
<1>2. CASE ConsumerSubmit
  BY <1>2, SubmitWrites
<1>3. CASE ConsumerWrite
  BY <1>3, ConsumerWrites
<1>4. ASSUME NEW s \in Signals, HandlerWrite(s) PROVE row'[x].bid <=> row[x].bid
  BY <1>4, HandlerWrites
<1>5. ASSUME NEW s \in Signals, CancelWrite(s) PROVE row'[x].bid <=> row[x].bid
  BY <1>5, CancelWrites
<1> QED
  BY <1>1, <1>2, <1>3, <1>4, <1>5, TableWriters

\* Whoever writes a row writes what Kite said.
LEMMA RowTold ==
  ASSUME TypeInv, TellInv, [Next]_vars, NEW x \in Signals
  PROVE  RowInv(x)'
<1>i. RowInv(x) /\ BrokerInv(x) /\ HandlerTells(x) /\ CancelTells(x) /\ ConsumerTells
  BY DEF TellInv
<1>o. Onward(x)
  BY <1>i, BrokerOnward
<1>v. /\ row[x].filled \in Nat /\ bro[x].qty \in Nat /\ bro'[x].qty \in Nat
      /\ row[x].filled <= Qty /\ bro[x].qty <= Qty
      /\ f[x].qty \in Nat /\ k[x].filled \in Nat
  <2>1. TypeInv'
    BY NextType
  <2>2. bro'[x].qty \in 0..Qty
    BY <2>1 DEF TypeInv, TypeOK, BrokerOK
  <2> QED
    BY <2>2, Values, QtyAssumption
<1>q. Qty \in Nat /\ Qty > 0
  BY QtyAssumption
<1>k. ASSUME row'[x] = row[x] PROVE RowInv(x)'
  BY <1>k, <1>i, <1>o, <1>v DEF RowInv, Onward
<1>1. CASE UNCHANGED row
  BY <1>1, <1>k
<1>2. CASE ConsumerSubmit
  <2>1. CASE row'[x] = row[x]
    BY <2>1, <1>k
  <2>2. CASE /\ row[x].st = NoRow /\ row'[x].st = "PENDING"
             /\ row'[x].filled = row[x].filled /\ row'[x].bid = row[x].bid
    BY <2>2, <1>i, <1>o, <1>v DEF RowInv, Onward, NoRow
  <2> QED
    BY <1>2, <2>1, <2>2, SubmitWrites
<1>3. CASE ConsumerWrite
  <2>1. CASE row'[x] = row[x]
    BY <2>1, <1>k
  <2>2. CASE c.s = x /\ row'[x] # row[x]
    <3>1. /\ row'[x].st = JobStatus
          /\ row'[x].filled = IF c.job = "record" THEN c.qty ELSE 0
          /\ row'[x].bid <=> (row[x].bid \/ c.job = "record")
      BY <1>3, <2>2, ConsumerWrites
    <3>2. ~row[x].bid /\ c.pc = "write"
      BY <1>3, <1>i, <2>2 DEF ConsumerWrite, ConsumerTells
    <3>3. CASE c.job = "record"
      <4>1. Tells(x, c.st, c.qty)
        BY <3>2, <3>3, <2>2, <1>i DEF ConsumerTells, Recording
      <4>2. c.qty \in Nat
        BY QtyAssumption DEF TypeInv, TypeOK, ConsumerOK, ConsumerRecord
      <4>3. row'[x].st = c.st /\ row'[x].filled = c.qty /\ row'[x].bid
        BY <3>1, <3>3 DEF JobStatus
      <4> QED
        BY <4>1, <4>2, <4>3, <1>o, <1>v, <1>q
        DEF RowInv, Onward, Tells, Reportable, TerminalStatus, NoRow
    <3>4. CASE c.job # "record"
      <4>1. row'[x].st \in {"REJECTED", "ACK_UNKNOWN"} /\ row'[x].filled = 0 /\ ~row'[x].bid
        BY <3>1, <3>2, <3>4 DEF JobStatus
      <4> QED
        BY <4>1, <1>v DEF RowInv, NoRow
    <3> QED
      BY <3>3, <3>4
  <2> QED
    BY <1>3, <2>1, <2>2, ConsumerWrites
<1>4. ASSUME NEW s \in Signals, HandlerWrite(s) PROVE RowInv(x)'
  <2>h. HandlerTells(s)
    BY DEF TellInv
  <2>1. CASE row'[x] = row[x]
    BY <2>1, <1>k
  <2>2. CASE s = x /\ row'[x] # row[x]
    <3>1. /\ row'[x].st = f[x].new /\ row'[x].filled = f[x].qty
          /\ row'[x].bid <=> row[x].bid
      BY <1>4, <2>h, <2>2, HandlerWrites
    <3>2. Tells(x, f[x].new, f[x].qty) /\ row[x].bid
      BY <1>4, <1>i, <2>2 DEF HandlerWrite, HandlerTells
    <3> QED
      BY <3>1, <3>2, <1>o, <1>v, <1>q DEF RowInv, Onward, Tells, Reportable,
         TerminalStatus, NoRow
  <2> QED
    BY <1>4, <2>h, <2>1, <2>2, HandlerWrites
<1>5. ASSUME NEW s \in Signals, CancelWrite(s) PROVE RowInv(x)'
  <2>1. CASE row'[x] = row[x]
    BY <2>1, <1>k
  <2>2. CASE s = x /\ row'[x] # row[x]
    <3>1. /\ row'[x].st = "CANCELLED" /\ row'[x].filled = k[x].filled
          /\ row'[x].bid <=> row[x].bid
      BY <1>5, <2>2, CancelWrites
    <3>2. k[x].filled <= bro[x].qty /\ (~row[x].bid => k[x].filled = 0)
      BY <1>5, <1>i, <2>2 DEF CancelWrite, CancelTells
    <3> QED
      BY <3>1, <3>2, <1>o, <1>v DEF RowInv, Onward, NoRow
  <2> QED
    BY <1>5, <2>1, <2>2, CancelWrites
<1> QED
  BY <1>1, <1>2, <1>3, <1>4, <1>5, TableWriters

\* The consumer's record stays true, and nobody reports the row before it does.
LEMMA ConsumerTold ==
  ASSUME TypeInv, TellInv, [Next]_vars
  PROVE  ConsumerTells'
<1> DEFINE Busy(pc) == pc \in {"check", "find", "place", "await", "recover", "record", "reject",
                               "ack_unknown", "write"}
<1>i. ConsumerTells /\ BootInv /\ \A s \in Signals : BrokerInv(s) /\ RowInv(s) /\ HandlerTells(s)
  BY DEF TellInv
<1>o. \A s \in Signals : Onward(s)
  BY <1>i, BrokerOnward
<1>t. /\ c \in ConsumerRecord /\ (c.pc # "idle" => c.s \in Signals)
      /\ c.qty \in Nat /\ Qty \in Nat /\ Qty > 0
      /\ \A s \in Signals : bro[s].qty \in Nat /\ bro[s].qty <= Qty /\ bro'[s].qty \in Nat
  <2>1. TypeInv'
    BY NextType
  <2> QED
    BY <2>1, QtyAssumption DEF TypeInv, TypeOK, ConsumerOK, ConsumerInv, ConsumerRecord,
       BrokerOK
<1>k. ASSUME c'.s = c.s, c.pc # "idle",
             Recording' => Recording /\ c'.st = c.st /\ c'.qty = c.qty,
             Busy(c'.pc) => Busy(c.pc), ~(ConsumerWrite /\ c.job = "record")
      PROVE  ConsumerTells'
  <2>1. Recording' => Tells(c.s, c.st, c.qty)' /\ c'.st # "PARTIALLY_FILLED"
    <3> SUFFICES ASSUME Recording' PROVE Tells(c.s, c.st, c.qty)' /\ c'.st # "PARTIALLY_FILLED"
      OBVIOUS
    <3>1. /\ Tells(c.s, c.st, c.qty) /\ c.st # "PARTIALLY_FILLED"
          /\ c'.st = c.st /\ c'.qty = c.qty /\ c.s \in Signals
      BY <1>k, <1>i, <1>t DEF ConsumerTells
    <3>2. Onward(c.s) /\ bro[c.s].qty \in Nat /\ bro'[c.s].qty \in Nat
      BY <3>1, <1>o, <1>t
    <3> QED
      BY <3>1, <3>2, <1>k, <1>t DEF Tells, Onward
  <2>2. Busy(c'.pc) => ~row'[c'.s].bid
    <3> SUFFICES ASSUME Busy(c'.pc) PROVE ~row'[c.s].bid
      BY <1>k
    <3>1. ~row[c.s].bid /\ c.s \in Signals
      BY <1>k, <1>i, <1>t DEF ConsumerTells
    <3> QED
      BY <3>1, <1>k, <1>i, BidStays
  <2> QED
    BY <2>1, <2>2 DEF ConsumerTells
<1>r. ASSUME c'.s = c.s, c'.pc = "record", c.s \in Signals, Visible(c.s), ~row[c.s].bid, UNCHANGED <<row, bro>>,
             \/ c'.st = TranslateStatus(bro[c.s].st) /\ c'.qty = bro[c.s].qty
             \/ c'.st = "PLACED" /\ c'.qty = 0
      PROVE  ConsumerTells'
  <2>1. BrokerInv(c.s) /\ bro[c.s].qty \in Nat /\ bro[c.s].qty <= Qty
    BY <1>r, <1>i, <1>t
  <2>2. Tells(c.s, c.st, c.qty)' /\ c'.st # "PARTIALLY_FILLED"
    BY <1>r, <2>1, <1>t
    DEF Tells, BrokerInv, TranslateStatus, Visible, KiteStatus, Reportable, TerminalStatus
  <2> QED
    BY <1>r, <2>2 DEF ConsumerTells
<1>1. CASE UNCHANGED c
  <2>1. CASE c.pc = "idle"
    BY <1>1, <2>1 DEF ConsumerTells, Recording
  <2>2. CASE c.pc # "idle"
    <3>1. ~ConsumerWrite
      BY <1>1, <1>t DEF ConsumerWrite, Goto, ConsumerRecord
    <3> QED
      BY <1>1, <2>2, <3>1, <1>k DEF Recording
  <2> QED
    BY <2>1, <2>2
<1>2. CASE c'.pc \in {"idle", "entry", "lookup", "submit", "relookup", "settle", "commit", "fail"}
  BY <1>2 DEF ConsumerTells, Recording
<1>3. CASE ConsumerStep
  <2>1. CASE ConsumerLookup
    <3>1. /\ c'.s = c.s /\ UNCHANGED row /\ c.s \in Signals
          /\ \/ c'.pc \in {"submit", "settle"}
             \/ c'.pc \in {"check", "recover"} /\ row[c.s].st \in {"PENDING", "ACK_UNKNOWN"}
      BY <2>1, <1>t DEF ConsumerLookup, Goto, ConsumerRecord, tables
    <3>2. CASE c'.pc \in {"check", "recover"}
      <4>1. ~row[c.s].bid
        BY <3>1, <3>2, <1>i DEF RowInv
      <4> QED
        BY <3>1, <3>2, <4>1 DEF ConsumerTells, Recording
    <3> QED
      BY <3>1, <3>2, <1>2
  <2>2. CASE ConsumerSubmit
    <3>1. /\ c'.s = c.s /\ c.s \in Signals
          /\ \/ c'.pc \in {"relookup", "fail"}
             \/ c'.pc = "check" /\ row[c.s].st = NoRow
      BY <2>2, <1>t DEF ConsumerSubmit, Goto, ConsumerRecord
    <3>2. CASE c'.pc = "check" /\ row[c.s].st = NoRow
      <4>1. ~row[c.s].bid /\ ~ConsumerWrite
        BY <2>2, <3>1, <3>2, <1>i DEF RowInv, ConsumerSubmit, ConsumerWrite
      <4>2. ~row'[c.s].bid
        BY <4>1, <3>1, <1>i, BidStays
      <4> QED
        BY <3>1, <3>2, <4>2 DEF ConsumerTells, Recording
    <3> QED
      BY <3>1, <3>2, <1>2
  <2>3. CASE ConsumerCheck \/ ConsumerPlace
    <3>1. /\ c'.s = c.s /\ c.pc \in {"check", "place"} /\ c'.pc \in {"fail", "find", "await"}
          /\ ~ConsumerWrite
      BY <2>3, <1>t DEF ConsumerCheck, ConsumerPlace, ConsumerWrite, Goto, ConsumerRecord
    <3> QED
      BY <3>1, <1>k DEF Recording
  <2>4. CASE ConsumerFind \/ ConsumerRecover \/ ConsumerAwait
    <3>1. /\ c'.s = c.s /\ c.s \in Signals /\ c.pc \in {"find", "recover", "await"}
          /\ UNCHANGED <<row, bro>> /\ ~ConsumerWrite
          /\ \/ c'.pc \in {"fail", "place", "reject", "ack_unknown"}
             \/ /\ c'.pc = "record" /\ Visible(c.s)
                /\ \/ c'.st = TranslateStatus(bro[c.s].st) /\ c'.qty = bro[c.s].qty
                   \/ c'.st = "PLACED" /\ c'.qty = 0
      BY <2>4, <1>t DEF ConsumerFind, ConsumerRecover, ConsumerAwait, ConsumerWrite,
         Found, Goto,
         ConsumerRecord, tables, broker
    <3>2. CASE c'.pc = "record"
      <4>1. ~row[c.s].bid
        BY <3>1, <1>i DEF ConsumerTells
      <4> QED
        BY <3>1, <3>2, <4>1, <1>r
    <3>3. CASE c'.pc # "record"
      BY <3>1, <3>3, <1>k DEF Recording
    <3> QED
      BY <3>2, <3>3
  <2>5. CASE ConsumerRead
    <3>1. /\ c'.s = c.s /\ c.pc \in {"record", "reject", "ack_unknown"} /\ c'.pc = "write"
          /\ c'.job = c.pc /\ c'.st = c.st /\ c'.qty = c.qty /\ ~ConsumerWrite
      BY <2>5, <1>t DEF ConsumerRead, ConsumerWrite, ConsumerRecord
    <3> QED
      BY <3>1, <1>k DEF Recording
  <2>6. CASE ConsumerWrite
    <3>1. /\ c'.s = c.s /\ c.pc = "write"
          /\ c'.pc \in {"settle", "fail"} \/ (c'.pc = "recover" /\ c.job # "record")
      BY <2>6, <1>t DEF ConsumerWrite, Goto, ConsumerRecord
    <3> QED
      BY <3>1, <1>2, <1>k DEF Recording
  <2>7. CASE ConsumerEntry \/ ConsumerRelookup \/ ConsumerSettle \/ ConsumerCommit \/ ConsumerFail
    <3>1. c'.pc \in {"commit", "fail", "lookup", "settle", "idle"}
      BY <2>7, <1>t, IdleType DEF ConsumerEntry, ConsumerRelookup, ConsumerSettle,
         ConsumerCommit,
         ConsumerFail, Goto, ConsumerRecord
    <3> QED
      BY <3>1, <1>2
  <2> QED
    BY <1>3, <2>1, <2>2, <2>3, <2>4, <2>5, <2>6, <2>7 DEF ConsumerStep
<1>4. CASE Crash
  BY <1>4, <1>2, IdleType DEF Crash
<1>5. ASSUME NEW s \in Signals, ConsumerReceive(s) PROVE ConsumerTells'
  <2>1. UNCHANGED c \/ c'.pc = "entry"
    BY <1>5, IdleType DEF ConsumerReceive, ConsumerRecord
  <2> QED
    BY <2>1, <1>1, <1>2
<1>6. ASSUME NEW t \in todo, BootOrder(t) PROVE ConsumerTells'
  <2>1. CASE UNCHANGED c
    BY <2>1, <1>1
  <2>2. CASE c' = [IdleConsumer EXCEPT !.pc = "entry", !.s = t.s, !.src = "boot"]
    BY <2>2, <1>2, IdleType DEF ConsumerRecord
  <2>3. CASE /\ t.st = "ACK_UNKNOWN"
             /\ c' = [IdleConsumer EXCEPT !.pc = "recover", !.s = t.s, !.src = "boot"]
    <3>1. c'.pc = "recover" /\ c'.s = t.s
      BY <2>3, IdleType DEF ConsumerRecord
    <3>2. ~row[t.s].bid
      BY <2>3, <1>i DEF BootInv
    <3>3. UNCHANGED row
      BY <1>6 DEF BootOrder, tables
    <3> QED
      BY <3>1, <3>2, <3>3 DEF ConsumerTells, Recording
  <2> QED
    BY <1>6, <2>1, <2>2, <2>3 DEF BootOrder
<1> QED
  BY <1>1, <1>3, <1>4, <1>5, <1>6, ProcessWriters

\* A step of a handler ends it, or takes it on with what it holds.
LEMMA HandlerMoves ==
  ASSUME TypeInv, NEW s \in Signals, HandlerStep(s)
  PROVE  /\ \A x \in Signals \ {s} : f'[x] = f[x]
         /\ f[s].pc \in {"gate", "update", "write", "apply"}
         /\ \/ f'[s] = IdleHandler
            \/ /\ f'[s].pc \in {"update", "write", "apply"}
               /\ f'[s].kind = f[s].kind /\ f'[s].new = f[s].new
               /\ f'[s].prior = f[s].prior /\ f'[s].qty = f[s].qty
<1>1. f \in [Signals -> HandlerRecord]
  BY DEF TypeInv, TypeOK, HandlersOK
<1>2. CASE HandlerGate(s)
  BY <1>1, <1>2 DEF HandlerGate, HandlerRecord
<1>3. CASE HandlerRead(s)
  BY <1>1, <1>3 DEF HandlerRead, HandlerRecord
<1>4. CASE HandlerWrite(s)
  BY <1>1, <1>4 DEF HandlerWrite, HandlerRecord
<1>5. CASE HandlerApply(s)
  BY <1>1, <1>5 DEF HandlerApply, HandlerRecord
<1> QED
  BY <1>2, <1>3, <1>4, <1>5 DEF HandlerStep

\* What the bulk snapshot makes of a listed row.
LEMMA Dispatched ==
  ASSUME TypeInv, NEW s \in Signals, f[s].pc = "listed", BrokerInv(s), f[s].prior <= bro[s].qty
  PROVE  \/ Dispatch(s) = IdleHandler
         \/ /\ Dispatch(s).pc \in {"gate", "update"}
            /\ Dispatch(s).prior = f[s].prior /\ Dispatch(s).qty = bro[s].qty
            /\ Dispatch(s).kind = "terminal" <=> Dispatch(s).new \in {"CANCELLED", "REJECTED"}
            /\ Dispatch(s).kind # "boot" /\ Dispatch(s).new # "PLACED"
            /\ Dispatch(s).pc = "update" =>
                 Dispatch(s).kind = "terminal" /\ bro[s].qty <= f[s].prior
            /\ Dispatch(s).kind = "terminal" /\ Dispatch(s).pc = "gate" => bro[s].qty > f[s].prior
            /\ Dispatch(s).new = "PARTIALLY_FILLED" => bro[s].qty > f[s].prior
            /\ Tells(s, Dispatch(s).new, bro[s].qty)
<1>t. /\ f[s] \in HandlerRecord /\ f[s].kind = "fill"
      /\ bro[s].qty \in Nat /\ bro[s].qty <= Qty /\ f[s].prior \in Nat /\ Qty \in Nat
  BY Values, QtyAssumption DEF TypeInv, HandlerInv
<1> DEFINE h == [f[s] EXCEPT !.qty = bro[s].qty]
<1>h. h \in HandlerRecord /\ h.qty = bro[s].qty /\ h.prior = f[s].prior /\ h.kind = "fill"
  BY <1>t, Values DEF HandlerRecord
<1>1. CASE bro[s].st = "COMPLETE"
  <2>1. Dispatch(s) = [h EXCEPT !.pc = "gate", !.new = "FILLED"]
    BY <1>1 DEF Dispatch
  <2> HIDE DEF h
  <2>2. /\ Dispatch(s).pc = "gate" /\ Dispatch(s).new = "FILLED" /\ Dispatch(s).kind = "fill"
        /\ Dispatch(s).prior = f[s].prior /\ Dispatch(s).qty = bro[s].qty
    BY <2>1, <1>h DEF HandlerRecord
  <2> QED
    BY <2>2, <1>1, <1>t DEF BrokerInv, Tells, Reportable, TerminalStatus
<1>2. CASE bro[s].st = "PARTIALLY" /\ bro[s].qty > f[s].prior
  <2>1. Dispatch(s) = [h EXCEPT !.pc = "gate", !.new = "PARTIALLY_FILLED"]
    BY <1>2 DEF Dispatch
  <2> HIDE DEF h
  <2>2. /\ Dispatch(s).pc = "gate" /\ Dispatch(s).new = "PARTIALLY_FILLED"
        /\ Dispatch(s).kind = "fill"
        /\ Dispatch(s).prior = f[s].prior /\ Dispatch(s).qty = bro[s].qty
    BY <2>1, <1>h DEF HandlerRecord
  <2> QED
    BY <2>2, <1>2, <1>t DEF BrokerInv, Tells, Reportable
<1>3. CASE bro[s].st \in {"CANCELLED", "REJECTED"}
  <2> DEFINE pc == IF bro[s].qty > f[s].prior THEN "gate" ELSE "update"
  <2>1. Dispatch(s) = [h EXCEPT !.pc = pc, !.kind = "terminal", !.new = bro[s].st]
    BY <1>3 DEF Dispatch
  <2>p. \/ pc = "gate" /\ bro[s].qty > f[s].prior
        \/ pc = "update" /\ bro[s].qty <= f[s].prior
    BY <1>t
  <2> HIDE DEF h, pc
  <2>2. /\ Dispatch(s).pc = pc /\ Dispatch(s).new = bro[s].st /\ Dispatch(s).kind = "terminal"
        /\ Dispatch(s).prior = f[s].prior /\ Dispatch(s).qty = bro[s].qty
    BY <2>1, <1>h DEF HandlerRecord
  <2> QED
    BY <2>2, <2>p, <1>3, <1>t DEF BrokerInv, Tells, Reportable, TerminalStatus
<1>4. CASE /\ bro[s].st \notin {"COMPLETE", "CANCELLED", "REJECTED"}
           /\ ~(bro[s].st = "PARTIALLY" /\ bro[s].qty > f[s].prior)
  BY <1>4 DEF Dispatch
<1> QED
  BY <1>1, <1>2, <1>3, <1>4

\* What the startup comparison makes of a row known to the broker.
LEMMA Compared ==
  ASSUME TypeInv, NEW t \in todo, BootOrder(t), UNCHANGED c
  PROVE  /\ t.s \in Signals /\ t.st \in {"PLACED", "PARTIALLY_FILLED"}
         /\ \A x \in Signals \ {t.s} : f'[x] = f[x]
         /\ \/ f'[t.s] = f[t.s] \/ f'[t.s] = IdleHandler
            \/ /\ f'[t.s].pc = "update" /\ f'[t.s].kind = "boot"
               /\ f'[t.s].new = TranslateStatus(bro[t.s].st)
               /\ f'[t.s].prior = t.filled /\ f'[t.s].qty = bro[t.s].qty
<1>1. t.s \in Signals /\ f \in [Signals -> HandlerRecord]
  BY DEF TypeInv, TypeOK, ProcessOK, HandlersOK
<1>2. c.pc = "idle"
  BY DEF BootOrder
<1>3. t.st \in {"PLACED", "PARTIALLY_FILLED"}
  <2>1. \A pc \in {"entry", "recover"} : [IdleConsumer EXCEPT !.pc = pc, !.s = t.s, !.src = "boot"].pc = pc
    BY IdleType DEF ConsumerRecord
  <2> QED
    BY <1>2, <2>1 DEF BootOrder
<1>n. PICK new : new = TranslateStatus(bro[t.s].st)
  OBVIOUS
<1> DEFINE h == [IdleHandler EXCEPT !.pc = "update", !.kind = "boot", !.new = new,
                                    !.prior = t.filled, !.qty = bro[t.s].qty]
<1>4. f' = f \/ f' = [f EXCEPT ![t.s] = IdleHandler] \/ f' = [f EXCEPT ![t.s] = h]
  BY <1>3, <1>n DEF BootOrder
<1>5. /\ h.pc = "update" /\ h.kind = "boot" /\ h.new = new
      /\ h.prior = t.filled /\ h.qty = bro[t.s].qty
  BY DEF IdleHandler
<1> HIDE DEF h
<1> QED
  BY <1>1, <1>3, <1>4, <1>5, <1>n

\* A handler brings what Kite said.
LEMMA HandlerTold ==
  ASSUME TypeInv, TellInv, [Next]_vars, NEW x \in Signals
  PROVE  HandlerTells(x)'
<1>i. HandlerTells(x) /\ BrokerInv(x) /\ RowInv(x) /\ BootInv
  BY DEF TellInv
<1>o. Onward(x)
  BY <1>i, BrokerOnward
<1>b. row[x].bid => row'[x].bid
  BY BidStays DEF TellInv
<1>v. /\ bro[x].qty \in Nat /\ bro[x].qty <= Qty /\ bro'[x].qty \in Nat /\ Qty \in Nat /\ Qty > 0
      /\ f[x].qty \in Nat /\ f[x].prior \in Nat /\ row[x].filled \in Nat
  <2>1. TypeInv'
    BY NextType
  <2>2. bro'[x].qty \in 0..Qty
    BY <2>1 DEF TypeInv, TypeOK, BrokerOK
  <2> QED
    BY <2>2, Values, QtyAssumption
<1>f. f \in [Signals -> HandlerRecord]
  BY DEF TypeInv, TypeOK, HandlersOK
<1>k. ASSUME f'[x].kind = f[x].kind, f'[x].new = f[x].new, f'[x].prior = f[x].prior, f'[x].qty = f[x].qty,
             f'[x].pc # "idle" => f[x].pc # "idle",
             f'[x].pc \in {"gate", "update", "write", "apply"}
               => f[x].pc \in {"gate", "update", "write", "apply"}
      PROVE  HandlerTells(x)'
  <2>1. f'[x].pc # "idle" => row'[x].bid /\ f'[x].prior <= bro'[x].qty
    BY <1>k, <1>i, <1>o, <1>b, <1>v DEF HandlerTells, Onward
  <2>2. f'[x].kind = "terminal" => f'[x].new \in {"CANCELLED", "REJECTED"}
    BY <1>k, <1>i DEF HandlerTells
  <2>3. ASSUME f'[x].pc \in {"gate", "update", "write", "apply"}
        PROVE  /\ Tells(x, f[x].new, f[x].qty)' /\ f'[x].qty >= f'[x].prior
               /\ f'[x].new = "PLACED" => f'[x].kind = "boot"
    <3>1. /\ Tells(x, f[x].new, f[x].qty) /\ f[x].qty >= f[x].prior
          /\ f[x].new = "PLACED" => f[x].kind = "boot"
      BY <1>k, <2>3, <1>i DEF HandlerTells
    <3> QED
      BY <3>1, <1>k, <1>o, <1>v DEF Tells, Onward
  <2> QED
    BY <2>1, <2>2, <2>3 DEF HandlerTells
<1>z. ASSUME f'[x] = IdleHandler PROVE HandlerTells(x)'
  BY <1>z DEF HandlerTells, IdleHandler
<1>1. CASE f'[x] = f[x]
  BY <1>1, <1>k
<1>2. CASE PollList
  <2>1. CASE Tracked(x)
    <3>1. /\ f'[x].pc = "listed" /\ f'[x].prior = row[x].filled /\ f'[x].kind = "fill"
          /\ UNCHANGED <<row, bro>>
      BY <1>2, <2>1, IdleType DEF PollList, HandlerRecord, IdleHandler, tables, broker
    <3> QED
      BY <3>1, <2>1, <1>i DEF HandlerTells, Tracked, RowInv
  <2>2. CASE ~Tracked(x)
    BY <1>2, <2>2, <1>z DEF PollList
  <2> QED
    BY <2>1, <2>2
<1>3. CASE PollBroker
  <2>1. UNCHANGED <<row, bro>>
    BY <1>3 DEF PollBroker, tables, broker
  <2>2. CASE f[x].pc = "listed" /\ f'[x] = Dispatch(x)
    <3>1. f[x].prior <= bro[x].qty /\ row[x].bid
      BY <2>2, <1>i DEF HandlerTells
    <3>2. CASE Dispatch(x) # IdleHandler
      <4>1. /\ f'[x].prior = f[x].prior /\ f'[x].qty = bro[x].qty
            /\ f'[x].kind = "terminal" <=> f'[x].new \in {"CANCELLED", "REJECTED"}
            /\ Tells(x, f'[x].new, bro[x].qty) /\ f'[x].new # "PLACED"
        BY <3>1, <3>2, <2>2, <1>i, Dispatched
      <4>2. Tells(x, f[x].new, f[x].qty)'
        BY <4>1, <2>1 DEF Tells
      <4> QED
        BY <4>1, <4>2, <3>1, <2>1, <1>v DEF HandlerTells
    <3> QED
      BY <3>2, <2>2, <1>z
  <2> QED
    BY <1>3, <2>2, <1>1, <1>z DEF PollBroker
<1>4. ASSUME NEW s \in Signals, HandlerStep(s) PROVE HandlerTells(x)'
  <2>1. CASE s = x
    BY <1>4, <2>1, <1>k, <1>z, HandlerMoves
  <2>2. CASE s # x
    BY <1>4, <2>2, <1>1, HandlerMoves
  <2> QED
    BY <2>1, <2>2
<1>5. CASE Crash
  BY <1>5, <1>z DEF Crash
<1>6. ASSUME NEW t \in todo, BootOrder(t) PROVE HandlerTells(x)'
  <2>0. UNCHANGED <<row, bro>>
    BY <1>6 DEF BootOrder, tables, broker
  <2>1. CASE f'[x] = f[x]
    BY <2>1, <1>1
  <2>2. CASE UNCHANGED c /\ x = t.s /\ f'[x] # f[x] /\ f'[x] # IdleHandler
    <3>1. /\ t.st \in {"PLACED", "PARTIALLY_FILLED"}
          /\ f'[x].pc = "update" /\ f'[x].kind = "boot" /\ f'[x].new = TranslateStatus(bro[x].st)
          /\ f'[x].prior = t.filled /\ f'[x].qty = bro[x].qty
      BY <1>6, <2>2, Compared
    <3>2. row[x].bid /\ t.filled <= bro[x].qty
      BY <3>1, <2>2, <1>i DEF BootInv
    <3>3. Tells(x, f[x].new, f[x].qty)'
      BY <3>1, <2>0, <1>i, <1>v
      DEF Tells, BrokerInv, TranslateStatus, Reportable, TerminalStatus
    <3> QED
      BY <3>1, <3>2, <3>3, <2>0 DEF HandlerTells
  <2>3. UNCHANGED f \/ UNCHANGED c
    BY <1>6 DEF BootOrder
  <2> QED
    BY <1>6, <2>1, <2>2, <2>3, <1>z, Compared
<1> QED
  BY <1>1, <1>2, <1>3, <1>4, <1>5, <1>6, ProcessWriters

\* A cancel task holds a quantity the row has had.
LEMMA CancelTold ==
  ASSUME TypeInv, TellInv, [Next]_vars, NEW x \in Signals
  PROVE  CancelTells(x)'
<1>i. CancelTells(x) /\ RowInv(x)
  BY DEF TellInv
<1>o. Onward(x)
  BY BrokerOnward DEF TellInv
<1>b. row[x].bid => row'[x].bid
  BY BidStays DEF TellInv
<1>v. /\ bro[x].qty \in Nat /\ bro'[x].qty \in Nat /\ k[x].filled \in Nat /\ row[x].filled \in Nat
  <2>1. TypeInv'
    BY NextType
  <2>2. bro'[x].qty \in 0..Qty
    BY <2>1 DEF TypeInv, TypeOK, BrokerOK
  <2> QED
    BY <2>2, Values, QtyAssumption
<1>f. k \in [Signals -> CancelRecord]
  BY DEF TypeInv, TypeOK, CancelsOK
<1>k. ASSUME k'[x].filled = k[x].filled, k'[x].pc # "idle" => k[x].pc # "idle"
      PROVE  CancelTells(x)'
  BY <1>k, <1>i, <1>o, <1>b, <1>v DEF CancelTells, Onward
<1>z. ASSUME k'[x] = IdleCancel PROVE CancelTells(x)'
  BY <1>z DEF CancelTells, IdleCancel
<1>1. CASE k'[x] = k[x]
  BY <1>1, <1>k
<1>2. CASE CancelScan
  <2>1. CASE k'[x] = CancelTask(x) /\ k'[x] # IdleCancel
    <3>1. k'[x].filled = row[x].filled
      BY <2>1, IdleType DEF CancelTask, CancelRecord
    <3>2. UNCHANGED <<row, bro>>
      BY <1>2 DEF CancelScan, tables, broker
    <3> QED
      BY <3>1, <3>2, <1>i DEF CancelTells, RowInv
  <2> QED
    BY <1>2, <2>1, <1>1, <1>z DEF CancelScan
<1>3. ASSUME NEW s \in Signals, CancelStep(s) PROVE CancelTells(x)'
  <2>1. CASE s = x
    <3>1. k'[x] = IdleCancel \/ (k'[x].filled = k[x].filled /\ k[x].pc # "idle")
      <4>1. CASE CancelAtBroker(x)
        BY <4>1, <1>f DEF CancelAtBroker, CancelRecord
      <4>2. CASE CancelRead(x)
        BY <4>2, <1>f DEF CancelRead, CancelRecord
      <4>3. CASE CancelWrite(x)
        BY <4>3, <1>f DEF CancelWrite, CancelRecord
      <4> QED
        BY <1>3, <2>1, <4>1, <4>2, <4>3 DEF CancelStep
    <3> QED
      BY <3>1, <1>k, <1>z
  <2>2. CASE s # x
    BY <1>3, <2>2, <1>f, <1>1 DEF CancelStep, CancelAtBroker, CancelRead, CancelWrite
  <2> QED
    BY <2>1, <2>2
<1>4. CASE Crash
  BY <1>4, <1>z DEF Crash
<1> QED
  BY <1>1, <1>2, <1>3, <1>4, ProcessWriters

\* Startup keeps working alone.
LEMMA BootTold ==
  ASSUME TypeInv, TellInv, [Next]_vars
  PROVE  BootInv'
<1>i. BootInv /\ \A s \in Signals : BrokerInv(s) /\ RowInv(s) /\ HandlerTells(s)
  BY DEF TellInv
<1>t. /\ \A t \in todo : t.s \in Signals /\ t.st \in OpenStatus /\ t.filled \in Nat
      /\ \A s \in Signals : bro[s].qty \in Nat /\ bro'[s].qty \in Nat
      /\ f \in [Signals -> HandlerRecord] /\ c \in ConsumerRecord
  <2>1. TypeInv'
    BY NextType
  <2>2. \A s \in Signals : bro'[s].qty \in 0..Qty
    BY <2>1 DEF TypeInv, TypeOK, BrokerOK
  <2>3. \A t \in todo : t.s \in Signals /\ t.st \in OpenStatus /\ t.filled \in 0..Qty
    BY DEF TypeInv, TypeOK, ProcessOK
  <2> QED
    BY <2>2, <2>3, Values, QtyAssumption DEF TypeInv, TypeOK, HandlersOK, ConsumerOK
<1>o. \A s \in Signals : bro'[s].qty >= bro[s].qty
  BY <1>i, BrokerOnward DEF Onward
<1>b. ASSUME NEW t \in todo
      PROVE  /\ t.st \in {"PLACED", "PARTIALLY_FILLED"} => row'[t.s].bid /\ t.filled <= bro'[t.s].qty
             /\ t.st \notin {"PLACED", "PARTIALLY_FILLED"} => ~row'[t.s].bid
  <2>1. t.s \in Signals /\ bro'[t.s].qty >= bro[t.s].qty
    BY <1>b, <1>t, <1>o
  <2>2. ~(ConsumerWrite /\ c.s = t.s)
    BY <1>b, <1>i DEF BootInv, ConsumerWrite
  <2>3. row'[t.s].bid <=> row[t.s].bid
    BY <1>i, <2>1, <2>2, BidStays
  <2>4. /\ t.st \in {"PLACED", "PARTIALLY_FILLED"} => row[t.s].bid /\ t.filled <= bro[t.s].qty
        /\ t.st \notin {"PLACED", "PARTIALLY_FILLED"} => ~row[t.s].bid
    BY <1>b, <1>i DEF BootInv
  <2> QED
    BY <2>1, <2>3, <2>4, <1>b, <1>t
\* nothing the startup looks at moves
<1>k. ASSUME up' = up, todo' = todo,
             up # "run" => /\ c'.pc # "idle" => c.pc # "idle" /\ c'.s = c.s
                           /\ \A s \in Signals : f'[s].pc # "idle" => f[s].pc # "idle"
      PROVE  BootInv'
  <2>1. CASE up = "run"
    <3>1. todo' = {}
      BY <2>1, <1>k, <1>i DEF BootInv
    <3> QED
      BY <2>1, <3>1, <1>k DEF BootInv
  <2>2. CASE up # "run"
    BY <2>2, <1>k, <1>i, <1>b, <1>t DEF BootInv, FillsIdle
  <2> QED
    BY <2>1, <2>2
<1>1. CASE Crash
  <2>1. /\ up' = "down" /\ todo' = {} /\ c'.pc = "idle"
        /\ \A s \in Signals : f'[s].pc = "idle"
    BY <1>1, IdleType DEF Crash
  <2> QED
    BY <2>1 DEF BootInv, FillsIdle
<1>2. CASE Restart
  BY <1>2, <1>i DEF Restart, BootInv, FillsIdle
<1>3. CASE BootList
  <2>1. /\ up = "listing" /\ up' = "boot" /\ UNCHANGED <<c, f, row, bro>>
        /\ \/ todo' = {[s |-> s, st |-> row[s].st, filled |-> row[s].filled] :
                          s \in {x \in Signals : row[x].st \in OpenStatus}}
           \/ todo' = {}
    BY <1>3 DEF BootList, tables, broker
  <2>2. c.pc = "idle" /\ FillsIdle
    BY <2>1, <1>i DEF BootInv
  <2>3. \A t \in todo' : \E s \in Signals :
           t.s = s /\ t.st = row[s].st /\ t.filled = row[s].filled /\ row[s].st \in OpenStatus
             /\ t = [s |-> s, st |-> row[s].st, filled |-> row[s].filled]
    BY <2>1
  <2>4. \A t, u \in todo' : t.s = u.s => t = u
    BY <2>3
  <2>5. ASSUME NEW t \in todo'
        PROVE  /\ f'[t.s].pc = "idle"
               /\ t.st \in {"PLACED", "PARTIALLY_FILLED"} => row'[t.s].bid /\ t.filled <= bro'[t.s].qty
               /\ t.st \notin {"PLACED", "PARTIALLY_FILLED"} => ~row'[t.s].bid
    BY <2>1, <2>2, <2>3, <2>5, <1>i DEF RowInv, FillsIdle, OpenStatus, OrderStatus,
       TerminalStatus
  <2> QED
    BY <2>1, <2>2, <2>4, <2>5 DEF BootInv
<1>4. ASSUME NEW t \in todo, BootOrder(t) PROVE BootInv'
  <2>1. /\ up = "boot" /\ up' = "boot" /\ c.pc = "idle" /\ todo' = todo \ {t}
        /\ UNCHANGED <<row, bro>> /\ t.s \in Signals
    BY <1>4, <1>t DEF BootOrder, tables, broker
  <2>2. \A u \in todo' : u \in todo /\ u.s # t.s
    BY <2>1, <1>i DEF BootInv
  <2>3. c'.pc # "idle" => c'.s = t.s
    <3>1. \A pc \in {"entry", "recover"} :
             [IdleConsumer EXCEPT !.pc = pc, !.s = t.s, !.src = "boot"].s = t.s
      BY IdleType DEF ConsumerRecord
    <3> QED
      BY <1>4, <2>1, <3>1 DEF BootOrder
  <2>4. \A x \in Signals \ {t.s} : f'[x] = f[x]
    BY <1>4, <1>t DEF BootOrder
  <2>5. ASSUME NEW u \in todo'
        PROVE  /\ f'[u.s].pc = "idle" /\ (c'.pc # "idle" => c'.s # u.s)
               /\ u.st \in {"PLACED", "PARTIALLY_FILLED"} => row'[u.s].bid /\ u.filled <= bro'[u.s].qty
               /\ u.st \notin {"PLACED", "PARTIALLY_FILLED"} => ~row'[u.s].bid
    BY <2>2, <2>3, <2>4, <2>5, <1>b, <1>i, <1>t DEF BootInv
  <2>6. \A u, w \in todo' : u.s = w.s => u = w
    BY <2>2, <1>i DEF BootInv
  <2> QED
    BY <2>1, <2>5, <2>6 DEF BootInv
<1>5. CASE BootDone
  BY <1>5 DEF BootDone, BootInv
<1>6. CASE UNCHANGED <<up, todo>>
  <2>1. ASSUME up # "run", c'.pc # "idle" PROVE c.pc # "idle" /\ c'.s = c.s
    <3>1. CASE UNCHANGED c
      BY <2>1, <3>1
    <3>2. CASE ConsumerStep
      BY <2>1, <3>2, <1>t, IdleType DEF ConsumerStep, ConsumerEntry, ConsumerLookup,
         ConsumerSubmit,
         ConsumerRelookup, ConsumerCheck, ConsumerFind, ConsumerPlace, ConsumerAwait, ConsumerRecover,
         ConsumerRead, ConsumerWrite, ConsumerSettle, ConsumerCommit, ConsumerFail, Goto, Found,
         ConsumerRecord
    <3>3. ASSUME NEW s \in Signals, ConsumerReceive(s) PROVE FALSE
      BY <2>1, <3>3 DEF ConsumerReceive
    <3>4. CASE Crash
      BY <2>1, <3>4, IdleType DEF Crash
    <3>5. ASSUME NEW t \in todo, BootOrder(t) PROVE FALSE
      BY <1>6, <3>5 DEF BootOrder
    <3> QED
      BY <3>1, <3>2, <3>3, <3>4, <3>5, ProcessWriters
  <2>2. ASSUME up # "run", NEW s \in Signals, f'[s].pc # "idle" PROVE f[s].pc # "idle"
    <3>1. CASE UNCHANGED f
      BY <2>2, <3>1
    <3>2. CASE PollList \/ PollBroker
      BY <2>2, <3>2 DEF PollList, PollBroker
    <3>3. ASSUME NEW x \in Signals, HandlerStep(x) PROVE f[s].pc # "idle"
      BY <2>2, <3>3, HandlerMoves
    <3>4. CASE Crash
      BY <2>2, <3>4, IdleType DEF Crash
    <3>5. ASSUME NEW t \in todo, BootOrder(t) PROVE FALSE
      BY <1>6, <3>5 DEF BootOrder
    <3> QED
      BY <3>1, <3>2, <3>3, <3>4, <3>5, ProcessWriters
  <2> QED
    BY <1>6, <2>1, <2>2, <1>k
<1> QED
  BY <1>1, <1>2, <1>3, <1>4, <1>5, <1>6, ProcessWriters

\* A poll cycle starts when the handlers of the last one have ended.
LEMMA CycleTold ==
  ASSUME TypeInv, TellInv, [Next]_vars
  PROVE  CycleInv'
<1>i. CycleInv
  BY DEF TellInv
<1>t. f \in [Signals -> HandlerRecord]
  BY DEF TypeInv, TypeOK, HandlersOK
<1>1. CASE UNCHANGED f
  BY <1>1, <1>i DEF CycleInv
<1>2. CASE PollList
  BY <1>2, <1>t, IdleType DEF PollList, CycleInv, HandlerRecord
<1>3. CASE PollBroker
  <2>1. \A s \in Signals : f'[s].pc # "listed"
    <3> SUFFICES ASSUME NEW s \in Signals PROVE f'[s].pc # "listed"
      OBVIOUS
    <3>1. CASE f'[s] = IdleHandler
      BY <3>1, IdleType
    <3>2. CASE f[s].pc = "listed" /\ f'[s] = Dispatch(s)
      <4>1. BrokerInv(s) /\ f[s].prior <= bro[s].qty
        BY <3>2 DEF TellInv, HandlerTells
      <4> QED
        BY <3>2, <4>1, IdleType, Dispatched
    <3>3. CASE f[s].pc # "listed" /\ f'[s] = f[s]
      BY <3>3
    <3> QED
      BY <1>3, <3>1, <3>2, <3>3 DEF PollBroker
  <2> QED
    BY <2>1 DEF CycleInv
<1>4. ASSUME NEW x \in Signals, HandlerStep(x) PROVE CycleInv'
  <2>1. \A s \in Signals : f[s].pc # "listed"
    BY <1>4, <1>i, HandlerMoves DEF CycleInv
  <2>2. \A s \in Signals : f'[s].pc # "listed"
    BY <1>4, <2>1, IdleType, HandlerMoves
  <2> QED
    BY <2>2 DEF CycleInv
<1>5. CASE Crash
  BY <1>5, IdleType DEF Crash, CycleInv
<1>6. ASSUME NEW t \in todo, BootOrder(t) PROVE CycleInv'
  <2>1. CASE UNCHANGED c
    <3>1. \A s \in Signals : f[s].pc = "idle"
      BY <1>6 DEF BootOrder, FillsIdle
    <3>2. \A s \in Signals : f'[s].pc \in {"idle", "update"}
      BY <1>6, <2>1, <3>1, IdleType, Compared
    <3> QED
      BY <3>2 DEF CycleInv
  <2>2. UNCHANGED c \/ UNCHANGED f
    BY <1>6 DEF BootOrder
  <2> QED
    BY <2>1, <2>2, <1>1
<1> QED
  BY <1>1, <1>2, <1>3, <1>4, <1>5, <1>6, ProcessWriters

\* Nothing has been said initially.
LEMMA InitTell == Init => TellInv
<1> SUFFICES ASSUME Init PROVE TellInv
  OBVIOUS
<1>1. BudgetInv
  <2>1. \A kind \in FaultKinds : Allowance[kind] \in Nat
    BY BoundAssumption DEF Allowance
  <2> QED
    BY <2>1 DEF BudgetInv, Init
<1>2. ConsumerTells
  BY DEF Init, IdleConsumer, ConsumerTells, Recording
<1>3. BootInv
  BY DEF Init, IdleConsumer, BootInv
<1>4. ASSUME NEW s \in Signals PROVE BrokerInv(s) /\ RowInv(s)
  BY QtyAssumption DEF Init, BrokerInv, RowInv, Visible, NoRow, KiteStatus
<1>5. ASSUME NEW s \in Signals PROVE HandlerTells(s) /\ CancelTells(s)
  BY DEF Init, HandlerTells, CancelTells, IdleHandler, IdleCancel
<1>6. CycleInv
  BY DEF Init, CycleInv, IdleHandler
<1> QED
  BY <1>1, <1>2, <1>3, <1>4, <1>5, <1>6 DEF TellInv

\* TellInv is inductive.
LEMMA NextTell == TypeInv /\ TellInv /\ [Next]_vars => TellInv'
<1> SUFFICES ASSUME TypeInv, TellInv, [Next]_vars PROVE TellInv'
  OBVIOUS
<1>1. BudgetInv'
  BY BudgetFalls DEF TellInv
<1>2. \A s \in Signals : BrokerInv(s)'
  BY BrokerOnward DEF TellInv
<1> QED
  BY <1>1, <1>2, RowTold, ConsumerTold, HandlerTold, CancelTold, CycleTold, BootTold DEF
     TellInv

-----------------------------------------------------------------------------
(* Until a kill switch is engaged, every writer knows the latest quantity.  *)

\* Who turns the switch and its scan.
LEMMA SwitchWriters ==
  ASSUME [Next]_vars
  PROVE  /\ UNCHANGED dks \/ HaltRecorded \/ ClearRecorded
         /\ UNCHANGED <<ks, scan>> \/ DurableRefresh \/ HaltEvent \/ ClearEvent \/ CancelScan \/ Crash \/ Restart
<1> USE DEF tables, switch, process
<1>0. CASE UNCHANGED vars
  BY <1>0 DEF vars
<1>1. CASE ConsumerStep
  <2>1. UNCHANGED <<dks, ks, scan>>
    BY <1>1 DEF ConsumerStep, ConsumerEntry, ConsumerLookup, ConsumerSubmit,
       ConsumerRelookup,
       ConsumerCheck, ConsumerFind, ConsumerPlace, ConsumerAwait, ConsumerRecover, ConsumerRead,
       ConsumerWrite, ConsumerSettle, ConsumerCommit, ConsumerFail
  <2> QED
    BY <2>1
<1>2. ASSUME NEW s \in Signals, ConsumerReceive(s) \/ HandlerStep(s) \/ CancelStep(s)
      PROVE  UNCHANGED <<dks, ks, scan>>
  BY <1>2 DEF ConsumerReceive, HandlerStep, CancelStep, HandlerGate, HandlerRead,
     HandlerWrite,
     HandlerApply, CancelAtBroker, CancelRead, CancelWrite
<1>3. CASE PollList \/ PollBroker \/ BootList \/ BootDone \/ \E t \in todo : BootOrder(t)
  BY <1>3 DEF PollList, PollBroker, BootList, BootDone, BootOrder
<1>4. CASE \/ DurableRefresh \/ HaltEvent \/ ClearEvent \/ CancelScan \/ Crash \/ Restart
  BY <1>4 DEF DurableRefresh, HaltEvent, ClearEvent, CancelScan, Crash, Restart
<1>5. CASE Environment
  BY <1>5 DEF Environment, HaltRecorded, ClearRecorded, BrokerAccept, BrokerDrop,
     BrokerFill,
     BrokerEnd, Expire, Redeliver
<1> QED
  BY <1>0, <1>1, <1>2, <1>3, <1>4, <1>5 DEF Next

\* A row is written by the consumer before Kite has reported it, by its own
\* handler afterwards, or by its cancel task.
LEMMA RowWriters ==
  ASSUME TypeInv, TellInv, [Next]_vars, NEW x \in Signals, row'[x] # row[x]
  PROVE  \/ /\ ~row[x].bid /\ f[x].pc = "idle" /\ c.s = x /\ c.pc # "idle"
            /\ ConsumerSubmit \/ ConsumerWrite
         \/ HandlerWrite(x) /\ row[x].bid
         \/ CancelWrite(x)
<1>i. HandlerTells(x) /\ RowInv(x) /\ ConsumerTells
  BY DEF TellInv
<1>1. CASE ConsumerSubmit
  <2>1. c.s = x /\ c.pc # "idle" /\ row[x].st = NoRow
    BY <1>1, SubmitWrites DEF ConsumerSubmit
  <2> QED
    BY <1>1, <2>1, <1>i DEF RowInv, HandlerTells
<1>2. CASE ConsumerWrite
  <2>1. c.s = x /\ c.pc = "write"
    BY <1>2, ConsumerWrites DEF ConsumerWrite
  <2> QED
    BY <1>2, <2>1, <1>i DEF ConsumerTells, HandlerTells
<1>3. ASSUME NEW s \in Signals, HandlerWrite(s) PROVE HandlerWrite(x) /\ row[x].bid
  <2>1. s = x
    BY <1>3, HandlerWrites DEF TellInv
  <2> QED
    BY <1>3, <2>1, <1>i DEF HandlerTells, HandlerWrite
<1>4. ASSUME NEW s \in Signals, CancelWrite(s) PROVE CancelWrite(x)
  <2>1. s = x
    BY <1>4, CancelWrites
  <2> QED
    BY <1>4, <2>1
<1>5. ~UNCHANGED row
  OBVIOUS
<1> QED
  BY <1>1, <1>2, <1>3, <1>4, <1>5, TableWriters

\* Without a halt a row is written by the consumer before Kite has reported
\* it, and afterwards by its own handler only.
LEMMA WriterIsAlone ==
  ASSUME TypeInv, TellInv, HaltInv, NoHalt, [Next]_vars, NEW x \in Signals, row'[x] # row[x]
  PROVE  \/ ~row[x].bid /\ f[x].pc = "idle" /\ (ConsumerSubmit \/ ConsumerWrite) /\ c.s = x /\ c.pc # "idle"
         \/ HandlerWrite(x) /\ row[x].bid
<1>1. ~CancelWrite(x)
  BY DEF HaltInv, CancelsIdle, CancelWrite
<1> QED
  BY <1>1, RowWriters

\* Without a halt no filled quantity goes back.
LEMMA FilledGrows ==
  ASSUME TypeInv, TellInv, HaltInv, NoHalt, [Next]_vars, NEW x \in Signals
  PROVE  row'[x].filled >= row[x].filled
<1>v. row[x].filled \in Nat /\ row'[x].filled \in Nat
  <2>1. TypeInv'
    BY NextType
  <2>2. row'[x].filled \in 0..Qty
    BY <2>1 DEF TypeInv, TypeOK, TablesOK
  <2> QED
    BY <2>2, Values
<1>1. CASE row'[x] = row[x]
  BY <1>1, <1>v
<1>2. CASE ~row[x].bid
  BY <1>2, <1>v DEF TellInv, RowInv
<1>3. CASE HandlerWrite(x) /\ row'[x] # row[x]
  <2>1. HandlerTells(x)
    BY DEF TellInv
  <2>2. row'[x].filled = f[x].qty
    BY <1>3, <2>1, HandlerWrites
  <2>3. f[x].prior = row[x].filled
    BY <1>3 DEF HaltInv, Unwritten, HandlerWrite
  <2>4. f[x].qty >= f[x].prior
    BY <1>3, <2>1 DEF HandlerTells, HandlerWrite
  <2> QED
    BY <2>2, <2>3, <2>4
<1> QED
  BY <1>1, <1>2, <1>3, WriterIsAlone

\* Nobody is halted initially.
LEMMA InitHalt == Init => HaltInv
  BY DEF Init, HaltInv, CancelsIdle, Unwritten, IdleCancel, IdleHandler, NoRow

\* Every step keeps HaltInv.
LEMMA NextHalt == TypeInv /\ TellInv /\ HaltInv /\ [Next]_vars => HaltInv'
<1> SUFFICES ASSUME TypeInv, TellInv, HaltInv, [Next]_vars, NoHalt'
             PROVE  /\ ~dks' /\ ~ks' /\ CancelsIdle'
                    /\ \A s \in Signals : row'[s].st = "CANCELLED" => bro'[s].st = "CANCELLED"
                    /\ \A s \in Signals : Unwritten(s)' => f'[s].prior = row'[s].filled
                    /\ \A t \in todo' : t.filled = row'[t.s].filled
  BY DEF HaltInv
<1>n. NoHalt /\ ~Fault("halt")
  <2>1. {"halt"} \in SUBSET FaultKinds
    BY DEF FaultKinds
  <2> QED
    BY <2>1, UntroubledBefore DEF NoHalt, TellInv
<1>h. /\ ~dks /\ ~ks /\ ~scan /\ \A s \in Signals : k[s].pc = "idle"
      /\ \A s \in Signals : row[s].st = "CANCELLED" => bro[s].st = "CANCELLED"
      /\ \A s \in Signals : Unwritten(s) => f[s].prior = row[s].filled
      /\ \A t \in todo : t.filled = row[t.s].filled
  BY <1>n DEF HaltInv, CancelsIdle
<1>1. ~dks'
  <2>1. ~HaltRecorded
    BY <1>n DEF HaltRecorded
  <2>2. ~ClearRecorded
    BY <1>h DEF ClearRecorded
  <2> QED
    BY <2>1, <2>2, <1>h, SwitchWriters
<1>2. ~ks' /\ ~scan'
  <2>1. ~HaltEvent
    BY <1>n DEF HaltEvent
  <2>2. ~DurableRefresh /\ ~ClearEvent /\ ~CancelScan
    BY <1>h DEF DurableRefresh, ClearEvent, CancelScan
  <2>3. Crash \/ Restart => ~ks' /\ ~scan'
    BY <1>h DEF Crash, Restart
  <2> QED
    BY <2>1, <2>2, <2>3, <1>h, SwitchWriters
<1>3. CancelsIdle'
  <2>1. ~CancelScan
    BY <1>h DEF CancelScan
  <2>2. ASSUME NEW s \in Signals, CancelStep(s) PROVE FALSE
    BY <2>2, <1>h DEF CancelStep, CancelAtBroker, CancelRead, CancelWrite
  <2>3. Crash => \A s \in Signals : k'[s].pc = "idle"
    BY IdleType DEF Crash, IdleCancel
  <2>4. \A s \in Signals : k'[s].pc = "idle"
    BY <2>1, <2>2, <2>3, <1>h, ProcessWriters
  <2> QED
    BY <1>2, <2>4 DEF CancelsIdle
<1>4. ASSUME NEW x \in Signals, row'[x].st = "CANCELLED" PROVE bro'[x].st = "CANCELLED"
  <2>o. Onward(x)
    BY BrokerOnward DEF TellInv
  <2>1. CASE row'[x] = row[x]
    BY <2>1, <1>4, <1>h, <2>o DEF Onward
  <2>2. CASE HandlerWrite(x) /\ row'[x] # row[x]
    <3>1. HandlerTells(x)
      BY DEF TellInv
    <3>2. f[x].new = "CANCELLED"
      BY <1>4, <2>2, <3>1, HandlerWrites
    <3>3. bro[x].st = "CANCELLED"
      BY <2>2, <3>1, <3>2 DEF HandlerTells, HandlerWrite, Tells
    <3> QED
      BY <3>3, <2>o DEF Onward
  <2>3. CASE ConsumerWrite /\ c.s = x /\ row'[x] # row[x]
    <3>1. JobStatus = "CANCELLED" /\ c.pc = "write"
      BY <1>4, <2>3, ConsumerWrites DEF ConsumerWrite
    <3>2. c.job = "record" /\ c.st = "CANCELLED"
      BY <3>1 DEF JobStatus
    <3>3. Tells(x, c.st, c.qty)
      BY <3>1, <3>2, <2>3 DEF TellInv, ConsumerTells, Recording
    <3> QED
      BY <3>2, <3>3, <2>o DEF Tells, Onward
  <2>4. CASE ConsumerSubmit /\ c.s = x /\ row'[x] # row[x]
    BY <1>4, <2>4, SubmitWrites
  <2> QED
    BY <2>1, <2>2, <2>3, <2>4, <1>n, WriterIsAlone
<1>5. ASSUME NEW x \in Signals, Unwritten(x)' PROVE f'[x].prior = row'[x].filled
  <2>f. f \in [Signals -> HandlerRecord] /\ c \in ConsumerRecord
    BY DEF TypeInv, TypeOK, HandlersOK, ConsumerOK
  <2>r. f[x].pc # "idle" => row[x].bid
    BY DEF TellInv, HandlerTells
  <2>k. ASSUME Unwritten(x), f'[x].prior = f[x].prior, ~HandlerWrite(x)
        PROVE  f'[x].prior = row'[x].filled
    <3>1. row[x].bid
      BY <2>k, <2>r DEF Unwritten
    <3>2. row'[x] = row[x]
      BY <3>1, <2>k, <1>n, WriterIsAlone
    <3> QED
      BY <3>2, <2>k, <1>h
  <2>1. CASE f'[x] = f[x]
    <3>1. ~HandlerWrite(x)
      BY <2>1, <2>f, IdleType DEF HandlerWrite, HandlerRecord
    <3> QED
      BY <2>1, <3>1, <1>5, <2>k DEF Unwritten
  <2>2. CASE PollList
    <3>1. f'[x].prior = row[x].filled /\ UNCHANGED row
      BY <2>2, <1>5, IdleType DEF PollList, HandlerRecord, IdleHandler, Unwritten, tables
    <3> QED
      BY <3>1
  <2>3. CASE PollBroker
    <3>1. UNCHANGED row
      BY <2>3 DEF PollBroker, tables
    <3>2. CASE f[x].pc = "listed" /\ f'[x] = Dispatch(x) /\ Dispatch(x) # IdleHandler
      <4>1. f[x].prior <= bro[x].qty /\ BrokerInv(x)
        BY <3>2 DEF TellInv, HandlerTells
      <4>2. f'[x].prior = f[x].prior
        BY <3>2, <4>1, Dispatched
      <4> QED
        BY <3>1, <3>2, <4>2, <1>h DEF Unwritten
    <3>3. CASE f'[x] = IdleHandler
      BY <3>3, <1>5 DEF Unwritten, IdleHandler
    <3> QED
      BY <2>3, <3>2, <3>3, <2>1 DEF PollBroker
  <2>4. ASSUME NEW s \in Signals, HandlerStep(s) PROVE f'[x].prior = row'[x].filled
    <3>1. CASE s # x
      BY <2>4, <3>1, <2>1, HandlerMoves
    <3>2. CASE s = x
      <4>1. f'[x] # IdleHandler
        BY <1>5 DEF Unwritten, IdleHandler
      <4>2. f'[x].prior = f[x].prior /\ f'[x].kind = f[x].kind
        BY <2>4, <3>2, <4>1, HandlerMoves
      <4>3. ~HandlerWrite(x)
        <5>1. HandlerWrite(x) => f'[x] = IdleHandler \/ (f'[x].pc = "apply" /\ f'[x].kind # "terminal")
          BY <2>f DEF HandlerWrite, HandlerRecord
        <5> QED
          BY <5>1, <4>1, <1>5 DEF Unwritten
      <4>4. Unwritten(x)
        <5>1. CASE HandlerGate(x)
          BY <5>1 DEF HandlerGate, Unwritten
        <5>2. CASE HandlerRead(x)
          BY <5>2 DEF HandlerRead, Unwritten
        <5>3. CASE HandlerApply(x)
          <6>1. f[x].kind = "terminal"
            BY <5>3, <4>1, <2>f DEF HandlerApply
          <6> QED
            BY <5>3, <6>1 DEF HandlerApply, Unwritten
        <5> QED
          BY <2>4, <3>2, <4>3, <5>1, <5>2, <5>3 DEF HandlerStep
      <4> QED
        BY <4>2, <4>3, <4>4, <2>k
    <3> QED
      BY <3>1, <3>2
  <2>5. CASE Crash
    BY <2>5, <1>5 DEF Crash, Unwritten, IdleHandler
  <2>6. ASSUME NEW t \in todo, BootOrder(t), f'[x] # f[x] PROVE f'[x].prior = row'[x].filled
    <3>1. UNCHANGED c /\ UNCHANGED row
      BY <2>6 DEF BootOrder, tables
    <3>2. f'[x] # IdleHandler
      BY <1>5 DEF Unwritten, IdleHandler
    <3>3. x = t.s /\ f'[x].prior = t.filled
      BY <2>6, <3>1, <3>2, Compared
    <3> QED
      BY <3>1, <3>3, <1>h
  <2> QED
    BY <2>1, <2>2, <2>3, <2>4, <2>5, <2>6, ProcessWriters
<1>6. ASSUME NEW t \in todo' PROVE t.filled = row'[t.s].filled
  <2>1. CASE t \in todo
    <3>1. t.s \in Signals /\ f[t.s].pc = "idle" /\ (c.pc # "idle" => c.s # t.s)
      BY <2>1 DEF TellInv, BootInv, TypeInv, TypeOK, ProcessOK
    <3>2. row'[t.s] = row[t.s]
      BY <3>1, <1>n, WriterIsAlone DEF HandlerWrite
    <3> QED
      BY <2>1, <3>2, <1>h
  <2>2. CASE BootList
    BY <2>2, <1>6 DEF BootList, tables
  <2>3. CASE Crash \/ Restart \/ BootDone \/ \E u \in todo : BootOrder(u)
    BY <2>1, <2>3, <1>6 DEF Crash, Restart, BootDone, BootOrder
  <2> QED
    BY <2>1, <2>2, <2>3, <1>6, ProcessWriters
<1> QED
  BY <1>1, <1>2, <1>3, <1>4, <1>5, <1>6

\* The orders table is true and stays true: from any interleaving of
\* consumer, poller, cancel tasks, crashes and restarts, no row is called
\* FILLED or REJECTED against Kite; and as long as no kill switch has been
\* engaged no live order hides behind CANCELLED and no filled quantity is
\* ever set back, however old the snapshot it is written from.
THEOREM TableIsTrue ==
  ASSUME PendingSettles
  PROVE  Spec => RowsStayTrue
<1> DEFINE IInv == TypeInv /\ TellInv /\ HaltInv /\ PlacementInv
<1>1. Init => IInv
  BY InitType, InitTell, InitHalt, InitPlacement
<1>2. IInv /\ [Next]_vars => IInv'
  BY NextType, NextTell, NextHalt, NextPlacement
<1>3. IInv => FillsAreReal
  BY DEF TellInv, RowInv, FillsAreReal
<1>4. IInv => OnlyHaltsCancelLive
  <2> SUFFICES ASSUME IInv, NoHalt, NEW s \in Signals, row[s].st = "CANCELLED"
               PROVE  bro[s].st \notin LiveKite /\ sent[s] = 0
    BY DEF OnlyHaltsCancelLive, CancelledIsNotLive, NoHalt
  <2>1. bro[s].st = "CANCELLED"
    BY DEF HaltInv
  <2>2. accepted[s] > 0
    BY <2>1 DEF TellInv, BrokerInv, Visible, KiteStatus
  <2>3. sent[s] + accepted[s] <= 1 /\ sent[s] \in Nat /\ accepted[s] \in Nat
    BY Values DEF PlacementInv
  <2> QED
    BY <2>1, <2>2, <2>3 DEF LiveKite
<1>5. IInv /\ [Next]_vars
        => (Untroubled({"halt"}) => \A s \in Signals : row'[s].filled >= row[s].filled)
  BY FilledGrows DEF NoHalt
<1> HIDE DEF IInv
<1>6. IInv /\ IInv' /\ [Next]_vars
        => [/\ FillsAreReal' /\ OnlyHaltsCancelLive'
            /\ Untroubled({"halt"}) => \A s \in Signals : row'[s].filled >= row[s].filled]_vars
  <2>1. IInv' => FillsAreReal' /\ OnlyHaltsCancelLive'
    BY <1>3, <1>4, PTL
  <2> QED
    BY <2>1, <1>5
<1> QED
  BY <1>1, <1>2, <1>6, PTL DEF Spec, RowsStayTrue

-----------------------------------------------------------------------------
(* Without crash, failed write and redelivery no unit is counted twice.     *)

\* What is final in the table stays.
LEMMA FinalStays ==
  ASSUME TypeInv, [Next]_vars, NEW x \in Signals, row[x].st \in TerminalStatus
  PROVE  row'[x].st = row[x].st
<1>1. CASE UNCHANGED row
  BY <1>1
<1>2. ASSUME NEW s \in Signals, RowMove(s) PROVE row'[x].st = row[x].st
  <2>1. ValidTransitions[row[x].st] = {}
    BY DEF ValidTransitions, OrderStatus, TerminalStatus
  <2> QED
    BY <1>2, <2>1 DEF RowMove, TypeInv, TypeOK, TablesOK, TerminalStatus, NoRow
<1> QED
  BY <1>1, <1>2, NextMove DEF vars, tables

\* What the smooth course of things rules out.
LEMMA SmoothSteps ==
  ASSUME TypeInv, TellInv, CountInv, [Next]_vars, Smooth'
  PROVE  /\ Smooth /\ ~Fault("db") /\ ~Crash
         /\ \A s \in Signals : ~Redeliver(s)
         /\ up = "run" /\ up' = "run"
         /\ \A t \in todo : ~BootOrder(t)
<1>1. Smooth /\ ~Fault("db") /\ ~Fault("crash") /\ ~Fault("redeliver")
  <2>1. {"crash", "db", "redeliver"} \in SUBSET FaultKinds
    BY DEF FaultKinds
  <2> QED
    BY <2>1, UntroubledBefore DEF Smooth, TellInv
<1>2. ~Crash /\ \A s \in Signals : ~Redeliver(s)
  BY <1>1 DEF Crash, Redeliver
<1>3. up = "run"
  BY <1>1 DEF CountInv
<1>4. \A t \in todo : ~BootOrder(t)
  BY <1>3 DEF BootOrder
<1>5. ~Restart /\ ~BootList /\ ~BootDone
  BY <1>3 DEF Restart, BootList, BootDone
<1>6. up' = "run"
  BY <1>2, <1>3, <1>4, <1>5, ProcessWriters
<1> QED
  BY <1>1, <1>2, <1>3, <1>4, <1>6

\* The consumer works on messages that are to be worked on.
LEMMA CountConsumer ==
  ASSUME TypeInv, TellInv, CountInv, [Next]_vars, Smooth'
  PROVE  c'.src = "kafka" /\ (c'.pc # "idle" => msg'[c'.s] = "ready")
<1>s. /\ Smooth /\ ~Crash /\ (\A s \in Signals : ~Redeliver(s))
      /\ \A t \in todo : ~BootOrder(t)
  BY SmoothSteps
<1>i. c.src = "kafka" /\ (c.pc # "idle" => msg[c.s] = "ready")
  BY <1>s DEF CountInv
<1>t. c \in ConsumerRecord
  BY DEF TypeInv, TypeOK, ConsumerOK
<1>1. CASE UNCHANGED <<c, msg>>
  BY <1>1, <1>i
<1>2. CASE ConsumerCommit \/ ConsumerFail
  BY <1>2 DEF ConsumerCommit, ConsumerFail, IdleConsumer
<1>3. ASSUME NEW s \in Signals, ConsumerReceive(s)
      PROVE  c'.src = "kafka" /\ (c'.pc # "idle" => msg'[c'.s] = "ready")
  BY <1>3, <1>i, <1>t DEF ConsumerReceive, IdleConsumer
<1>4. CASE ConsumerStep /\ ~ConsumerCommit /\ ~ConsumerFail
  <2>1. c'.src = "kafka" /\ (c' = IdleConsumer \/ (c'.s = c.s /\ c.pc # "idle"))
    BY <1>4, <1>i, <1>t DEF ConsumerStep, ConsumerEntry, ConsumerLookup, ConsumerSubmit,
       ConsumerRelookup, ConsumerCheck, ConsumerFind, ConsumerPlace, ConsumerAwait, ConsumerRecover,
       ConsumerRead, ConsumerWrite, ConsumerSettle, Goto, Found, ConsumerRecord, IdleConsumer
  <2>2. UNCHANGED msg
    BY <1>4 DEF ConsumerStep, ConsumerEntry, ConsumerLookup, ConsumerSubmit,
       ConsumerRelookup, ConsumerCheck, ConsumerFind, ConsumerPlace, ConsumerAwait, ConsumerRecover,
       ConsumerRead, ConsumerWrite, ConsumerSettle, kafka
  <2> QED
    BY <2>1, <2>2, <1>i, IdleType
<1> QED
  BY <1>s, <1>1, <1>2, <1>3, <1>4, ProcessWriters

\* A fill the consumer is about to apply is that of the row it has just written.
LEMMA CountSettle ==
  ASSUME TypeInv, TellInv, CountInv, [Next]_vars, Smooth',
         c'.pc = "settle", c'.st \in {"FILLED", "PARTIALLY_FILLED"}
  PROVE  /\ applied'[c'.s] = 0 /\ c'.qty <= bro'[c'.s].qty
         /\ f'[c'.s].pc = "idle" /\ row'[c'.s].st = "FILLED"
<1>s. /\ Smooth /\ ~Fault("db") /\ ~Crash
      /\ \A t \in todo : ~BootOrder(t)
  BY SmoothSteps
<1>i. /\ c.pc # "idle" => msg[c.s] = "ready"
      /\ \A s \in Signals : CountedInv(s)
      /\ c.pc = "settle" /\ c.st \in {"FILLED", "PARTIALLY_FILLED"} =>
           applied[c.s] = 0 /\ c.qty <= bro[c.s].qty /\ f[c.s].pc = "idle" /\ row[c.s].st = "FILLED"
  BY <1>s DEF CountInv
<1>t. /\ c \in ConsumerRecord /\ c.qty \in Nat /\ (c.pc # "idle" => c.s \in Signals)
      /\ \A s \in Signals : bro[s].qty \in Nat /\ bro'[s].qty \in Nat
      /\ f \in [Signals -> HandlerRecord]
  <2>1. TypeInv'
    BY NextType
  <2> QED
    BY <2>1, QtyAssumption DEF TypeInv, TypeOK, ConsumerOK, ConsumerRecord, ConsumerInv,
       BrokerOK, HandlersOK
<1>o. \A s \in Signals : bro'[s].qty >= bro[s].qty
  BY BrokerOnward DEF TellInv, Onward
<1>b. \A s \in Signals : (f[s].pc # "idle" => row[s].bid) /\ RowInv(s)
  BY DEF TellInv, HandlerTells
<1>1. CASE UNCHANGED c
  <2>1. c.pc = "settle" /\ c.s \in Signals /\ f[c.s].pc = "idle" /\ row[c.s].st = "FILLED"
    BY <1>1, <1>t, <1>i
  <2>2. row'[c.s].st = "FILLED"
    BY <2>1, FinalStays DEF TerminalStatus
  <2>3. applied'[c.s] = applied[c.s]
    <3>1. ~ConsumerSettle
      BY <1>1, <2>1, <1>t, IdleType DEF ConsumerSettle, Goto, ConsumerRecord
    <3>2. ASSUME NEW s \in Signals, HandlerApply(s) PROVE applied'[c.s] = applied[c.s]
      <4>1. s # c.s
        BY <3>2, <2>1 DEF HandlerApply
      <4> QED
        BY <3>2, <4>1, <2>1 DEF HandlerApply, ApplyFill, TypeInv, TypeOK, TablesOK
    <3> QED
      BY <3>1, <3>2, TableWriters
  <2>4. f'[c.s].pc = "idle"
    <3>1. CASE UNCHANGED f
      BY <3>1, <2>1
    <3>2. CASE PollList \/ PollBroker
      BY <3>2, <2>1, IdleType DEF PollList, PollBroker, Tracked
    <3>3. ASSUME NEW s \in Signals, HandlerStep(s) PROVE f'[c.s] = f[c.s]
      BY <3>3, <2>1, HandlerMoves
    <3> QED
      BY <3>1, <3>2, <3>3, <2>1, <1>s, ProcessWriters
  <2> QED
    BY <2>1, <2>2, <2>3, <2>4, <1>1, <1>i, <1>o, <1>t
<1>2. CASE ConsumerWrite
  <2>1. c.pc = "write" /\ c.s \in Signals /\ c'.s = c.s /\ c'.st = c.st /\ c'.qty = c.qty
    BY <1>2, <1>t DEF ConsumerWrite, Goto, ConsumerRecord
  <2>2. PICK ok \in BOOLEAN :
          /\ Transition(c.s, c.prev, JobStatus,
                        IF c.job = "record" THEN c.qty ELSE 0, c.job = "record", ok)
          /\ Goto(CASE c.job = "record" -> (IF ok THEN "settle" ELSE "fail")
                    [] c.job = "reject" -> "fail"
                    [] OTHER            -> "recover")
    BY <1>2 DEF ConsumerWrite
  <2>3. c.job = "record" /\ ok
    BY <2>2, <1>t DEF Goto, ConsumerRecord
  <2>4. c.st = "FILLED" /\ Tells(c.s, c.st, c.qty) /\ ~row[c.s].bid /\ JobStatus = c.st
    BY <2>1, <2>3 DEF TellInv, ConsumerTells, Recording, JobStatus
  <2>5. row'[c.s].st = "FILLED"
    <3>1. Transition(c.s, c.prev, "FILLED", c.qty, TRUE, TRUE)
      <4>1. c.job = "record" /\ (c.job = "record") = TRUE /\ ok = TRUE /\ JobStatus = "FILLED"
        BY <2>3, <2>4
      <4> QED
        BY <2>2, <4>1
    <3> QED
      BY <2>1, <3>1, <1>s DEF Transition, TypeInv, TypeOK, TablesOK
  <2>6. applied[c.s] = 0 /\ f[c.s].pc = "idle"
    BY <2>1, <2>4, <1>i, <1>b DEF CountedInv
  <2>7. UNCHANGED <<applied, f, bro>>
    BY <1>2 DEF ConsumerWrite, broker
  <2> QED
    BY <2>1, <2>4, <2>5, <2>6, <2>7 DEF Tells
<1>3. CASE ConsumerLookup \/ ConsumerRelookup
  <2>1. c.pc \in {"lookup", "relookup"} /\ c.s \in Signals /\ c'.st = row[c.s].st
    BY <1>3, <1>t DEF ConsumerLookup, ConsumerRelookup, Goto, ConsumerRecord
  <2>2. row[c.s].bid
    BY <2>1, <1>b DEF RowInv
  <2> QED
    BY <2>1, <2>2, <1>i DEF CountedInv
<1>4. CASE ConsumerStep /\ ~ConsumerWrite /\ ~ConsumerLookup /\ ~ConsumerRelookup
  <2>1. c'.pc # "settle"
    BY <1>4, <1>t, IdleType DEF ConsumerStep, ConsumerEntry, ConsumerSubmit,
       ConsumerCheck,
       ConsumerFind, ConsumerPlace, ConsumerAwait, ConsumerRecover, ConsumerRead, ConsumerSettle,
       ConsumerCommit, ConsumerFail, Goto, Found, ConsumerRecord
  <2> QED
    BY <2>1
<1>5. ASSUME NEW s \in Signals, ConsumerReceive(s) PROVE UNCHANGED c
  BY <1>5, IdleType DEF ConsumerReceive, ConsumerRecord
<1> QED
  BY <1>s, <1>1, <1>2, <1>3, <1>4, <1>5, ProcessWriters

\* A row Kite has reported belongs to a message that is done, or about to be.
LEMMA CountMessages ==
  ASSUME TypeInv, TellInv, CountInv, [Next]_vars, Smooth', NEW x \in Signals, row'[x].bid
  PROVE  msg'[x] = "done" \/ (c'.s = x /\ c'.pc \in {"settle", "commit"})
<1>s. /\ Smooth /\ ~Fault("db") /\ ~Crash /\ (\A s \in Signals : ~Redeliver(s))
      /\ \A t \in todo : ~BootOrder(t)
  BY SmoothSteps
<1>i. /\ c.src = "kafka" /\ (c.pc # "idle" => msg[c.s] = "ready")
      /\ row[x].bid => msg[x] = "done" \/ (c.s = x /\ c.pc \in {"settle", "commit"})
  BY <1>s DEF CountInv, CountedInv
<1>t. c \in ConsumerRecord /\ (c.pc # "idle" => c.s \in Signals) /\ msg \in [Signals -> {"ready", "done", "dlq"}]
  BY DEF TypeInv, TypeOK, ConsumerOK, ConsumerInv, KafkaOK
<1>1. CASE row[x].bid /\ msg[x] = "done"
  <2>1. c.s = x => c.pc = "idle"
    BY <1>1, <1>i
  <2>2. CASE ConsumerCommit \/ ConsumerFail
    BY <2>1, <2>2, <1>1, <1>t DEF ConsumerCommit, ConsumerFail
  <2>3. ASSUME NEW s \in Signals, ConsumerReceive(s) PROVE msg'[x] = "done"
    BY <2>3, <1>1, <1>t DEF ConsumerReceive
  <2> QED
    BY <2>2, <2>3, <1>1, <1>s, ProcessWriters
<1>2. CASE row[x].bid /\ c.s = x /\ c.pc \in {"settle", "commit"}
  <2>1. CASE UNCHANGED c
    BY <2>1, <1>2
  <2>2. CASE ConsumerCommit
    BY <2>2, <1>2, <1>t DEF ConsumerCommit
  <2>3. CASE ConsumerSettle
    <3>1. c.pc = "settle" /\ Goto("commit")
      BY <2>3, <1>i DEF ConsumerSettle
    <3> QED
      BY <3>1, <1>2, <1>t DEF Goto, ConsumerRecord
  <2>4. CASE ConsumerStep /\ ~ConsumerCommit /\ ~ConsumerSettle
    BY <2>4, <1>2 DEF ConsumerStep, ConsumerEntry, ConsumerLookup, ConsumerSubmit,
       ConsumerRelookup, ConsumerCheck, ConsumerFind, ConsumerPlace, ConsumerAwait, ConsumerRecover,
       ConsumerRead, ConsumerWrite, ConsumerFail
  <2>5. ASSUME NEW s \in Signals, ConsumerReceive(s) PROVE FALSE
    BY <2>5, <1>2 DEF ConsumerReceive
  <2> QED
    BY <2>1, <2>2, <2>3, <2>4, <2>5, <1>s, ProcessWriters
<1>3. CASE ~row[x].bid
  <2>1. ConsumerWrite /\ c.job = "record" /\ c.s = x
    BY <1>3, BidStays DEF TellInv
  <2>2. PICK ok \in BOOLEAN :
          /\ Transition(c.s, c.prev, JobStatus,
                        IF c.job = "record" THEN c.qty ELSE 0, c.job = "record", ok)
          /\ Goto(CASE c.job = "record" -> (IF ok THEN "settle" ELSE "fail")
                    [] c.job = "reject" -> "fail"
                    [] OTHER            -> "recover")
    BY <2>1 DEF ConsumerWrite
  <2>3. ~UNCHANGED row
    BY <1>3
  <2>4. ok
    BY <2>2, <2>3, <1>s DEF Transition
  <2>5. Goto("settle")
    BY <2>1, <2>2, <2>4
  <2> QED
    BY <2>1, <2>5, <1>t DEF Goto, ConsumerRecord
<1> QED
  BY <1>1, <1>2, <1>3, <1>i

\* A step of the count: the handler of x does not move.
LEMMA CountedAside ==
  ASSUME TypeInv, TellInv, CountInv, [Next]_vars, Smooth', NEW x \in Signals,
         ~HandlerStep(x), f'[x] = f[x]
  PROVE  CountedInv(x)'
<1>s. Smooth /\ ~Fault("db")
  BY SmoothSteps
<1>i. /\ CountedInv(x) /\ c.src = "kafka"
      /\ c.pc = "settle" /\ c.st \in {"FILLED", "PARTIALLY_FILLED"} =>
           applied[c.s] = 0 /\ c.qty <= bro[c.s].qty /\ f[c.s].pc = "idle" /\ row[c.s].st = "FILLED"
  BY <1>s DEF CountInv
<1>m. row'[x].bid => msg'[x] = "done" \/ (c'.s = x /\ c'.pc \in {"settle", "commit"})
  BY CountMessages
<1>r. RowInv(x) /\ RowInv(x)' /\ HandlerTells(x) /\ Onward(x)
  BY NextTell, BrokerOnward DEF TellInv
<1>v. /\ applied[x] \in Nat /\ bro[x].qty \in Nat /\ bro'[x].qty \in Nat
      /\ row[x].filled \in Nat /\ row'[x].filled \in Nat /\ f[x].prior \in Nat /\ f[x].qty \in Nat
  <2>1. TypeInv'
    BY NextType
  <2>2. bro'[x].qty \in 0..Qty /\ row'[x].filled \in 0..Qty
    BY <2>1 DEF TypeInv, TypeOK, BrokerOK, TablesOK
  <2> QED
    BY <2>2, Values
<1>o. bro'[x].qty >= bro[x].qty
  BY <1>r DEF Onward
<1>1. CASE applied'[x] = applied[x] /\ row'[x] = row[x]
  <2>1. bro'[x].qty >= applied'[x]
    BY <1>1, <1>i, <1>o, <1>v DEF CountedInv
  <2> QED
    BY <1>1, <2>1, <1>i, <1>m DEF CountedInv, Unapplied, AppliedFirst, Tracked,
       Unwritten, WrittenFirst
<1>2. CASE applied'[x] # applied[x]
  <2>1. ConsumerSettle /\ c.s = x
    <3>1. ASSUME NEW s \in Signals, HandlerApply(s) PROVE applied'[x] = applied[x]
      <4>1. s # x
        BY <3>1 DEF HandlerStep
      <4> QED
        BY <3>1, <4>1 DEF HandlerApply, ApplyFill, TypeInv, TypeOK, TablesOK
    <3>2. ~UNCHANGED applied
      BY <1>2
    <3>3. ConsumerSettle
      BY <3>1, <3>2, <1>2, TableWriters
    <3> QED
      BY <3>3, <1>2 DEF ConsumerSettle, ApplyFill, TypeInv, TypeOK, TablesOK
  <2>2. /\ c.pc = "settle" /\ c.st \in {"FILLED", "PARTIALLY_FILLED"} /\ ApplyFill(x, c.qty)
        /\ UNCHANGED row
    BY <2>1, <1>2 DEF ConsumerSettle
  <2>3. applied'[x] = applied[x] + c.qty
    BY <2>2, <1>s DEF ApplyFill, TypeInv, TypeOK, TablesOK
  <2>4. c.qty \in Nat
    BY DEF TypeInv, TypeOK, ConsumerOK, ConsumerRecord
  <2>5. applied'[x] <= bro'[x].qty /\ row'[x].st = "FILLED" /\ f'[x].pc = "idle"
    BY <2>1, <2>2, <2>3, <2>4, <1>i, <1>o, <1>v
  <2>6. row'[x].bid
    BY <2>5, <1>r DEF RowInv
  <2> QED
    BY <2>5, <2>6, <1>i, <1>m DEF CountedInv, Unapplied, AppliedFirst, Tracked
<1>3. CASE applied'[x] = applied[x] /\ row'[x] # row[x]
  <2>0. ~HandlerWrite(x)
    BY DEF HandlerStep
  <2>1. CASE ~row[x].bid /\ f[x].pc = "idle"
    <3>1. applied'[x] = 0
      BY <1>3, <2>1, <1>i DEF CountedInv
    <3> QED
      BY <3>1, <2>1, <1>i, <1>m, <1>v DEF CountedInv, Unapplied, AppliedFirst,
         Unwritten, WrittenFirst
  <2>2. CASE CancelWrite(x)
    <3>1. row'[x].st = "CANCELLED" /\ (row'[x].bid <=> row[x].bid)
      BY <1>3, <2>2, CancelWrites
    <3>2. bro'[x].qty >= applied'[x]
      BY <1>3, <1>i, <1>o, <1>v DEF CountedInv
    <3> QED
      BY <1>3, <3>1, <3>2, <1>i, <1>m DEF CountedInv, Unapplied, AppliedFirst, Tracked
  <2> QED
    BY <1>3, <2>0, <2>1, <2>2, RowWriters
<1> QED
  BY <1>1, <1>2, <1>3

\* A step of the count: the poller lists the rows or sends out the handlers.
LEMMA CountedPoll ==
  ASSUME TypeInv, TellInv, CountInv, [Next]_vars, Smooth', NEW x \in Signals,
         PollList \/ PollBroker, f'[x] # f[x]
  PROVE  CountedInv(x)'
<1>s. Smooth
  BY SmoothSteps
<1>i. CountedInv(x)
  BY <1>s DEF CountInv
<1>m. row'[x].bid => msg'[x] = "done" \/ (c'.s = x /\ c'.pc \in {"settle", "commit"})
  BY CountMessages
<1>u. UNCHANGED <<row, applied, bro>>
  BY DEF PollList, PollBroker, tables, broker
<1>v. /\ applied[x] \in Nat /\ bro[x].qty \in Nat /\ row[x].filled \in Nat
      /\ f[x].prior \in Nat /\ f[x].qty \in Nat /\ f \in [Signals -> HandlerRecord]
  BY Values DEF TypeInv, TypeOK, HandlersOK
<1>1. CASE PollList
  <2>1. f[x].pc = "idle" /\ f'[x] = IF Tracked(x) THEN [IdleHandler EXCEPT !.pc = "listed", !.prior = row[x].filled]
                                                  ELSE IdleHandler
    BY <1>1 DEF PollList, FillsIdle
  <2>2. CASE Tracked(x)
    <3>1. f'[x].pc = "listed" /\ f'[x].kind = "fill" /\ f'[x].prior = row[x].filled
      BY <2>1, <2>2 DEF IdleHandler
    <3> QED
      BY <2>1, <2>2, <3>1, <1>u, <1>i, <1>m DEF CountedInv, Unapplied, AppliedFirst,
         Tracked, Unwritten, WrittenFirst
  <2>3. CASE ~Tracked(x)
    <3>1. f'[x].pc = "idle" /\ f'[x].kind = "fill"
      BY <2>1, <2>3 DEF IdleHandler
    <3> QED
      BY <2>3, <3>1, <1>u, <1>i, <1>m DEF CountedInv, Unapplied, AppliedFirst, Tracked
  <2> QED
    BY <2>2, <2>3
<1>2. CASE PollBroker
  <2>0. f[x].pc \in {"idle", "listed"}
    BY <1>2 DEF PollBroker, TellInv, CycleInv
  <2>1. CASE f'[x] = IdleHandler
    <3>1. f'[x].pc = "idle" /\ f'[x].kind = "fill"
      BY <2>1 DEF IdleHandler
    <3>2. Tracked(x) => applied[x] <= row[x].filled
      BY <2>0, <1>i DEF CountedInv, Unapplied, Unwritten
    <3> QED
      BY <3>1, <3>2, <1>u, <1>i, <1>m DEF CountedInv, Unapplied, AppliedFirst, Tracked,
         Unwritten, WrittenFirst
  <2>2. CASE f'[x] # IdleHandler
    <3>1. f[x].pc = "listed" /\ f'[x] = Dispatch(x) /\ Dispatch(x) # IdleHandler
      BY <1>2, <2>2 DEF PollBroker
    <3>2. f[x].prior <= bro[x].qty /\ BrokerInv(x)
      BY <3>1 DEF TellInv, HandlerTells
    <3>3. /\ f'[x].pc \in {"gate", "update"} /\ f'[x].kind # "boot"
          /\ f'[x].prior = f[x].prior /\ f'[x].qty = bro[x].qty
          /\ f'[x].pc = "update" => f'[x].kind = "terminal"
      BY <3>1, <3>2, Dispatched
    <3>4. /\ applied[x] <= f[x].prior /\ applied[x] <= bro[x].qty
          /\ Tracked(x) => row[x].filled = f[x].prior
      BY <3>1, <1>i DEF CountedInv, Unapplied, Unwritten
    <3> QED
      BY <3>3, <3>4, <1>u, <1>i, <1>m DEF CountedInv, Unapplied, AppliedFirst, Tracked,
         Unwritten, WrittenFirst
  <2> QED
    BY <2>1, <2>2
<1> QED
  BY <1>1, <1>2

\* A handler's write to a row that is still open is carried out.
LEMMA HandlerWriteLands ==
  ASSUME TypeInv, TellInv, CountInv, [Next]_vars, Smooth', NEW x \in Signals, HandlerWrite(x), Tracked(x)
  PROVE  /\ row'[x].st = f[x].new /\ row'[x].filled = f[x].qty
         /\ row[x].filled = f[x].prior
<1>s. Smooth /\ ~Fault("db")
  BY SmoothSteps
<1>i. CountedInv(x) /\ HandlerTells(x) /\ RowInv(x) /\ f[x].pc = "write"
  BY <1>s DEF CountInv, TellInv, HandlerWrite
<1>v. /\ bro[x].qty \in Nat /\ row[x].filled \in Nat /\ f[x].prior \in Nat /\ f[x].qty \in Nat
  BY Values
<1>1. row[x].st \in {"PLACED", "PARTIALLY_FILLED"}
  BY DEF Tracked
<1>2. f[x].prev = row[x].st /\ row[x].filled = f[x].prior
  BY <1>i DEF CountedInv, Unwritten
<1>3. Tells(x, f[x].new, f[x].qty) /\ f[x].new # "PLACED" /\ f[x].prior <= f[x].qty
  BY <1>i DEF HandlerTells, CountedInv
<1>4. IsValidStatusTransition(f[x].prev, f[x].new)
  <2>1. ~(row[x].st = "PARTIALLY_FILLED" /\ f[x].new = "REJECTED")
    <3>1. f[x].new = "REJECTED" => bro[x].qty = 0
      BY <1>3 DEF Tells, TellInv, BrokerInv
    <3>2. row[x].st = "PARTIALLY_FILLED" => row[x].filled > 0 /\ row[x].filled <= bro[x].qty
      BY <1>i DEF RowInv
    <3> QED
      BY <3>1, <3>2, <1>v
  <2>2. f[x].new \in {"PARTIALLY_FILLED", "FILLED", "CANCELLED", "REJECTED"}
    BY <1>3 DEF Tells, Reportable, TerminalStatus
  <2> QED
    BY <1>1, <1>2, <2>1, <2>2 DEF IsValidStatusTransition, ValidTransitions,
       OrderStatus, TerminalStatus
<1>5. PICK ok \in BOOLEAN :
        Transition(x, f[x].prev, f[x].new,
                   IF f[x].kind = "terminal" /\ f[x].prior > f[x].qty
                     THEN f[x].prior ELSE f[x].qty, FALSE, ok)
  BY DEF HandlerWrite
<1>6. (IF f[x].kind = "terminal" /\ f[x].prior > f[x].qty THEN f[x].prior ELSE f[x].qty) = f[x].qty
  BY <1>3, <1>v
<1>7. Transition(x, f[x].prev, f[x].new, f[x].qty, FALSE, ok)
  BY <1>5, <1>6
<1> QED
  BY <1>2, <1>4, <1>7, <1>s DEF Transition, TypeInv, TypeOK, TablesOK

\* A step of the count: the handler of x gates, reads, writes or applies.
LEMMA CountedHandler ==
  ASSUME TypeInv, TellInv, CountInv, [Next]_vars, Smooth', NEW x \in Signals, HandlerStep(x)
  PROVE  CountedInv(x)'
<1>s. Smooth /\ ~Fault("db")
  BY SmoothSteps
<1>i. CountedInv(x)
  BY <1>s DEF CountInv
<1>h. HandlerTells(x) /\ RowInv(x) /\ RowInv(x)'
  BY NextTell DEF TellInv
<1>m. row'[x].bid => msg'[x] = "done" \/ (c'.s = x /\ c'.pc \in {"settle", "commit"})
  BY CountMessages
<1>v. /\ applied[x] \in Nat /\ bro[x].qty \in Nat /\ row[x].filled \in Nat
      /\ f[x].prior \in Nat /\ f[x].qty \in Nat
      /\ f \in [Signals -> HandlerRecord] /\ applied \in [Signals -> Nat]
  BY Values DEF TypeInv, TypeOK, HandlersOK, TablesOK
<1>b. /\ row[x].bid /\ f[x].pc # "idle" /\ f[x].kind # "boot"
      /\ f[x].pc \in {"gate", "update", "write", "apply"}
      /\ applied[x] <= bro[x].qty /\ f[x].prior <= f[x].qty /\ f[x].qty <= bro[x].qty
  BY <1>i, <1>h, HandlerMoves DEF CountedInv, HandlerTells, Tells
<1>1. CASE HandlerGate(x)
  <2>u. f[x].pc = "gate" /\ UNCHANGED <<row, applied, bro>>
    BY <1>1 DEF HandlerGate, broker
  <2>p. applied[x] <= f[x].prior /\ (Tracked(x) => row[x].filled = f[x].prior)
    BY <2>u, <1>i DEF CountedInv, Unapplied, Unwritten
  <2>1. \/ f'[x] = IdleHandler
        \/ /\ f'[x].kind = f[x].kind /\ f'[x].prior = f[x].prior /\ f'[x].qty = f[x].qty
           /\ \/ f'[x].pc = "apply" /\ f'[x].kind = "terminal"
              \/ f'[x].pc = "update"
    BY <1>1, <1>s, <1>v DEF HandlerGate, HandlerRecord
  <2>2. CASE f'[x] = IdleHandler
    <3>1. f'[x].pc = "idle" /\ f'[x].kind = "fill"
      BY <2>2 DEF IdleHandler
    <3> QED
      BY <3>1, <2>u, <2>p, <1>i, <1>m DEF CountedInv, Unapplied, AppliedFirst, Tracked,
         Unwritten, WrittenFirst
  <2>3. CASE f'[x] # IdleHandler
    <3>1. /\ applied[x] <= f'[x].prior /\ applied[x] <= f'[x].qty
          /\ Tracked(x) => row[x].filled = f'[x].prior
      BY <2>1, <2>3, <2>p, <1>b, <1>v
    <3> QED
      BY <3>1, <2>1, <2>3, <2>u, <1>b, <1>i, <1>m
         DEF CountedInv, Unapplied, AppliedFirst, Tracked, Unwritten, WrittenFirst
  <2> QED
    BY <2>2, <2>3
<1>2. CASE HandlerRead(x)
  <2>1. /\ f[x].pc = "update" /\ f'[x].pc = "write" /\ f'[x].prev = row[x].st
        /\ f'[x].kind = f[x].kind /\ f'[x].prior = f[x].prior /\ f'[x].qty = f[x].qty
    BY <1>2, <1>v DEF HandlerRead, HandlerRecord
  <2>2. UNCHANGED <<row, applied, bro>>
    BY <1>2 DEF HandlerRead, tables, broker
  <2> QED
    BY <2>1, <2>2, <1>i, <1>m DEF CountedInv, Unapplied, AppliedFirst, Tracked,
       Unwritten, WrittenFirst
<1>3. CASE HandlerApply(x)
  <2>1. f[x].pc = "apply" /\ UNCHANGED <<row, bro>> /\ applied'[x] = applied[x] + (f[x].qty - f[x].prior)
    BY <1>3, <1>s, <1>v DEF HandlerApply, ApplyFill, broker
  <2>2. applied'[x] <= f[x].qty
    BY <2>1, <1>i, <1>v DEF CountedInv, Unapplied
  <2>3. applied'[x] <= bro'[x].qty
    <3>1. applied'[x] \in Int
      BY <2>1, <1>v
    <3> QED
      BY <3>1, <2>1, <2>2, <1>b, <1>v
  <2>4. CASE f[x].kind = "terminal"
    <3>1. f'[x].pc = "update" /\ f'[x].kind = "terminal" /\ f'[x].prior = f[x].prior /\ f'[x].qty = f[x].qty
      BY <1>3, <2>4, <1>v DEF HandlerApply, HandlerRecord
    <3>2. Tracked(x) => row[x].filled = f[x].prior
      BY <2>1, <2>4, <1>i DEF CountedInv, Unwritten
    <3> QED
      BY <3>1, <3>2, <2>1, <2>2, <2>3, <1>b, <1>m
         DEF CountedInv, Unapplied, AppliedFirst, Tracked, Unwritten, WrittenFirst
  <2>5. CASE f[x].kind # "terminal"
    <3>1. f'[x].pc = "idle" /\ f'[x].kind = "fill"
      BY <1>3, <2>5, <1>v DEF HandlerApply, IdleHandler
    <3>2. Tracked(x) => row[x].filled = f[x].qty
      BY <2>1, <2>5, <1>i DEF CountedInv, WrittenFirst
    <3> QED
      BY <3>1, <3>2, <2>1, <2>2, <2>3, <1>b, <1>m
         DEF CountedInv, Unapplied, AppliedFirst, Tracked, Unwritten, WrittenFirst
  <2> QED
    BY <2>4, <2>5
<1>4. CASE HandlerWrite(x)
  <2>u. f[x].pc = "write" /\ UNCHANGED <<applied, bro>>
    BY <1>4 DEF HandlerWrite, broker
  <2>1. \/ f'[x] = IdleHandler
        \/ /\ f'[x].pc = "apply" /\ f[x].kind # "terminal"
           /\ f'[x].kind = f[x].kind /\ f'[x].prior = f[x].prior /\ f'[x].qty = f[x].qty
    BY <1>4, <1>v DEF HandlerWrite, HandlerRecord
  <2>2. row'[x].bid
    BY <1>4, <1>h, <1>b, HandlerWrites
  <2>3. Tracked(x)' => row'[x].filled = f[x].qty /\ applied[x] <= f[x].prior
    <3> SUFFICES ASSUME Tracked(x)' PROVE row'[x].filled = f[x].qty /\ applied[x] <= f[x].prior
      OBVIOUS
    <3>1. row[x].st \in {"PLACED", "PARTIALLY_FILLED"}
      <4>1. row[x].st \notin TerminalStatus
        BY FinalStays DEF Tracked, TerminalStatus
      <4>2. row[x].st \in RowStatus
        BY Values
      <4> QED
        BY <4>1, <4>2, <1>h, <1>b DEF RowInv, RowStatus, OrderStatus, TerminalStatus
    <3>2. Tracked(x)
      BY <3>1, <1>b DEF Tracked
    <3>8. row'[x].filled = f[x].qty /\ row'[x].st = f[x].new
      BY <1>4, <3>2, HandlerWriteLands
    <3>9. f[x].kind # "terminal"
      BY <3>8, <1>h DEF HandlerTells, Tracked
    <3> QED
      BY <3>8, <3>9, <2>u, <1>i DEF CountedInv, Unapplied
  <2>4. CASE f'[x] = IdleHandler
    <3>1. f'[x].pc = "idle" /\ f'[x].kind = "fill"
      BY <2>4 DEF IdleHandler
    <3>2. Tracked(x)' => applied[x] <= row'[x].filled
      BY <2>3, <1>b, <1>v
    <3> QED
      BY <3>1, <3>2, <2>u, <2>2, <1>b, <1>m
         DEF CountedInv, Unapplied, AppliedFirst, Unwritten, WrittenFirst
  <2>5. CASE f'[x] # IdleHandler
    <3>1. applied[x] <= f[x].prior
      BY <2>1, <2>5, <2>u, <1>i DEF CountedInv, Unapplied
    <3> QED
      BY <3>1, <2>1, <2>3, <2>5, <2>u, <2>2, <1>b, <1>m
         DEF CountedInv, Unapplied, AppliedFirst, Unwritten, WrittenFirst
  <2> QED
    BY <2>4, <2>5
<1> QED
  BY <1>1, <1>2, <1>3, <1>4 DEF HandlerStep

\* Nothing is counted initially.
LEMMA InitCount == Init => CountInv
  BY QtyAssumption DEF Init, CountInv, CountedInv, IdleConsumer, IdleHandler, Unapplied,
     AppliedFirst,
     Tracked, Unwritten, WrittenFirst

\* Every step keeps the count.
LEMMA NextCount == TypeInv /\ TellInv /\ CountInv /\ [Next]_vars => CountInv'
<1> SUFFICES ASSUME TypeInv, TellInv, CountInv, [Next]_vars, Smooth'
             PROVE  /\ up' = "run" /\ c'.src = "kafka" /\ (c'.pc # "idle" => msg'[c'.s] = "ready")
                    /\ c'.pc = "settle" /\ c'.st \in {"FILLED", "PARTIALLY_FILLED"} =>
                         /\ applied'[c'.s] = 0 /\ c'.qty <= bro'[c'.s].qty
                         /\ f'[c'.s].pc = "idle" /\ row'[c'.s].st = "FILLED"
                    /\ \A s \in Signals : CountedInv(s)'
  BY DEF CountInv
<1>s. up' = "run" /\ ~Crash /\ \A t \in todo : ~BootOrder(t)
  BY SmoothSteps
<1>1. c'.src = "kafka" /\ (c'.pc # "idle" => msg'[c'.s] = "ready")
  BY CountConsumer
<1>2. c'.pc = "settle" /\ c'.st \in {"FILLED", "PARTIALLY_FILLED"} =>
         /\ applied'[c'.s] = 0 /\ c'.qty <= bro'[c'.s].qty
         /\ f'[c'.s].pc = "idle" /\ row'[c'.s].st = "FILLED"
  BY CountSettle
<1>3. ASSUME NEW x \in Signals PROVE CountedInv(x)'
  <2>1. CASE HandlerStep(x)
    BY <2>1, CountedHandler
  <2>2. CASE ~HandlerStep(x) /\ f'[x] = f[x]
    BY <2>2, CountedAside
  <2>3. CASE (PollList \/ PollBroker) /\ f'[x] # f[x]
    BY <2>3, CountedPoll
  <2>4. ASSUME NEW s \in Signals, HandlerStep(s), s # x PROVE f'[x] = f[x]
    BY <2>4, HandlerMoves
  <2> QED
    BY <2>1, <2>2, <2>3, <2>4, <1>s, ProcessWriters
<1> QED
  BY <1>s, <1>1, <1>2, <1>3

-----------------------------------------------------------------------------
(* Without any fault the position is what Kite has filled.                  *)

\* The quiet course of things is a smooth one without halts.
LEMMA CalmSteps ==
  ASSUME TypeInv, TellInv, [Next]_vars, Calm'
  PROVE  /\ Calm /\ NoHalt /\ NoHalt' /\ Smooth /\ Smooth'
         /\ \A kind \in FaultKinds : ~Fault(kind)
         /\ ~Fault("db") /\ ~Fault("timeout") /\ ~Crash
<1>1. Calm /\ \A kind \in FaultKinds : ~Fault(kind)
  <2>1. FaultKinds \in SUBSET FaultKinds
    OBVIOUS
  <2> QED
    BY <2>1, UntroubledBefore DEF Calm, TellInv
<1>2. NoHalt /\ Smooth
  BY <1>1 DEF Calm, NoHalt, Smooth, Untroubled, FaultKinds
<1>3. NoHalt' /\ Smooth'
  BY DEF Calm, NoHalt, Smooth, Untroubled, FaultKinds
<1>4. ~Fault("db") /\ ~Fault("timeout") /\ ~Crash
  BY <1>1 DEF FaultKinds, Crash
<1> QED
  BY <1>1, <1>2, <1>3, <1>4

\* A step of the quiet course, for the facts that the lemmas below share.
CalmStep ==
  /\ TypeInv /\ TellInv /\ HaltInv /\ CountInv /\ CalmInv
  /\ [Next]_vars /\ Calm'

\* A request on its way is one the consumer awaits.
LEMMA SentIsAwaited ==
  ASSUME TypeInv, CalmInv, Calm, NEW x \in Signals, sent[x] > 0
  PROVE  c.s = x /\ c.pc = "await" /\ sent[x] = 1 /\ ~Visible(x)
<1>1. CalmConsumer /\ CalmRow(x)
  BY DEF CalmInv
<1>2. row[x].st = "PENDING"
  BY <1>1, Values DEF CalmRow
<1>3. c.s = x /\ c.pc \in AtWork
  BY <1>1, <1>2 DEF CalmRow
<1>4. c.pc = "write" => c.job \in {"record", "reject"}
  BY <1>1 DEF CalmConsumer
<1>5. c.pc = "await"
  BY <1>1, <1>3, <1>4, Values DEF CalmConsumer, AtWork, Recording
<1> QED
  BY <1>1, <1>3, <1>5, Values DEF CalmConsumer

\* An order Kite has accepted stays in sight.
LEMMA InSight ==
  ASSUME TypeInv, [Next]_vars, NEW x \in Signals
  PROVE  /\ Visible(x) => Visible(x)'
         /\ Visible(x)' => Visible(x) \/ BrokerAccept(x)
<1>t. bro \in [Signals -> [st : KiteStatus \cup {NoRow}, qty : 0..Qty]]
  BY DEF TypeInv, TypeOK, BrokerOK
<1>1. CASE UNCHANGED bro
  BY <1>1 DEF Visible
<1>2. ASSUME NEW s \in Signals, CancelAtBroker(s)
      PROVE  bro'[x].st = bro[x].st \/ (bro[x].st \in KiteStatus /\ bro'[x].st \in KiteStatus)
  BY <1>2, <1>t DEF CancelAtBroker, LiveKite, KiteStatus
<1>3. ASSUME NEW s \in Signals, BrokerFill(s)
      PROVE  bro'[x].st = bro[x].st \/ (bro[x].st \in KiteStatus /\ bro'[x].st \in KiteStatus)
  BY <1>3, <1>t DEF BrokerFill, LiveKite, KiteStatus
<1>4. ASSUME NEW s \in Signals, BrokerEnd(s)
      PROVE  bro'[x].st = bro[x].st \/ (bro[x].st \in KiteStatus /\ bro'[x].st \in KiteStatus)
  BY <1>4, <1>t DEF BrokerEnd, LiveKite, KiteStatus
<1>5. ASSUME NEW s \in Signals, BrokerAccept(s)
      PROVE  (bro'[x].st = bro[x].st) \/ (s = x /\ ~Visible(x))
  BY <1>5, <1>t DEF BrokerAccept
<1> QED
  BY <1>1, <1>2, <1>3, <1>4, <1>5, TableWriters DEF Visible

\* The ways in which a request comes to or leaves Kite.
LEMMA Delivered ==
  ASSUME CalmStep, NEW x \in Signals
  PROVE  \/ sent'[x] = sent[x] /\ (Visible(x)' <=> Visible(x))
         \/ ConsumerPlace /\ c.s = x /\ sent'[x] = sent[x] + 1 /\ (Visible(x)' <=> Visible(x))
         \/ /\ ConsumerAwait /\ c.s = x /\ Goto("reject")
            /\ ~Visible(x) /\ ~Visible(x)' /\ sent[x] = 1 /\ sent'[x] = 0
         \/ /\ UNCHANGED c /\ c.s = x /\ c.pc = "await"
            /\ ~Visible(x) /\ Visible(x)' /\ sent[x] = 1 /\ sent'[x] = 0
<1>c. /\ TypeInv /\ CalmInv /\ Calm /\ [Next]_vars /\ ~Fault("timeout")
      /\ sent \in [Signals -> Nat] /\ c \in ConsumerRecord
  BY CalmSteps DEF CalmStep, TypeInv, TypeOK, BrokerOK, ConsumerOK
<1>w. sent[x] > 0 => c.s = x /\ c.pc = "await" /\ sent[x] = 1 /\ ~Visible(x)
  BY <1>c, SentIsAwaited
<1>v. (Visible(x) => Visible(x)') /\ (Visible(x)' => Visible(x) \/ BrokerAccept(x))
  BY <1>c, InSight
<1>1. CASE UNCHANGED <<sent, accepted>>
  <2>1. ~BrokerAccept(x)
    BY <1>1, <1>c DEF BrokerAccept
  <2> QED
    BY <1>1, <2>1, <1>v
<1>2. CASE ConsumerPlace
  <2>1. ~BrokerAccept(x)
    BY <1>2, <1>c DEF ConsumerPlace, BrokerAccept, Goto, process, ConsumerRecord
  <2> QED
    BY <1>2, <2>1, <1>v, <1>c DEF ConsumerPlace
<1>3. CASE ConsumerAwait
  <2>1. ~BrokerAccept(x)
    BY <1>3, <1>c DEF ConsumerAwait, BrokerAccept, Goto, process, ConsumerRecord
  <2>2. sent'[x] = sent[x] \/ (c.s = x /\ sent[x] > 0 /\ sent'[x] = sent[x] - 1 /\ Goto("reject"))
    BY <1>3, <1>c DEF ConsumerAwait
  <2> QED
    BY <1>3, <2>1, <2>2, <1>v, <1>w
<1>4. ASSUME NEW s \in Signals, BrokerAccept(s) PROVE
         \/ sent'[x] = sent[x] /\ (Visible(x)' <=> Visible(x))
         \/ /\ UNCHANGED c /\ c.s = x /\ c.pc = "await"
            /\ ~Visible(x) /\ Visible(x)' /\ sent[x] = 1 /\ sent'[x] = 0
  <2>1. CASE s = x
    <3>1. UNCHANGED c /\ sent[x] > 0 /\ sent'[x] = sent[x] - 1
      BY <1>4, <2>1, <1>c DEF BrokerAccept, process
    <3>2. Visible(x)'
      BY <1>4, <2>1, <1>c DEF BrokerAccept, Visible, KiteStatus, TypeInv, TypeOK, BrokerOK
    <3> QED
      BY <3>1, <3>2, <1>w
  <2>2. CASE s # x
    <3>1. sent'[x] = sent[x]
      BY <1>4, <2>2, <1>c DEF BrokerAccept
    <3>2. bro'[x] = bro[x]
      BY <1>4, <2>2 DEF BrokerAccept, CalmStep, TypeInv, TypeOK, BrokerOK
    <3> QED
      BY <3>1, <3>2 DEF Visible
  <2> QED
    BY <2>1, <2>2
<1>5. ASSUME NEW s \in Signals, BrokerDrop(s) PROVE sent'[x] = sent[x] /\ (Visible(x)' <=> Visible(x))
  <2>1. s # x
    BY <1>5, <1>w DEF BrokerDrop
  <2> QED
    BY <1>5, <2>1, <1>c DEF BrokerDrop, Visible
<1> QED
  BY <1>c, <1>1, <1>2, <1>3, <1>4, <1>5, TableWriters

\* In the quiet course the consumer's writes are carried out.
LEMMA CalmWrites ==
  ASSUME CalmStep, ConsumerWrite
  PROVE  /\ c.s \in Signals /\ row'[c.s].filled = 0
         /\ \/ c.job = "record" /\ row'[c.s].st = "PLACED" /\ row'[c.s].bid /\ Goto("settle")
            \/ c.job = "reject" /\ row'[c.s].st = "REJECTED" /\ ~row'[c.s].bid /\ Goto("fail")
<1>c. CalmConsumer /\ ~Fault("db") /\ TypeInv /\ TellInv
  BY CalmSteps DEF CalmStep, CalmInv
<1>1. /\ c.pc = "write" /\ c.s \in Signals /\ row[c.s].st = "PENDING" /\ c.prev = "PENDING"
      /\ c.job \in {"record", "reject"} /\ ~row[c.s].bid
  BY <1>c DEF ConsumerWrite, CalmConsumer, AtWork, TypeInv, ConsumerInv, TellInv,
     ConsumerTells
<1>2. PICK ok \in BOOLEAN :
        /\ Transition(c.s, c.prev, JobStatus,
                      IF c.job = "record" THEN c.qty ELSE 0, c.job = "record", ok)
        /\ Goto(CASE c.job = "record" -> (IF ok THEN "settle" ELSE "fail")
                  [] c.job = "reject" -> "fail"
                  [] OTHER            -> "recover")
  BY DEF ConsumerWrite
<1>3. CASE c.job = "record"
  <2>1. c.st = "PLACED" /\ c.qty = 0 /\ JobStatus = "PLACED"
    BY <1>1, <1>3, <1>c DEF CalmConsumer, Recording, JobStatus
  <2>2. (c.job = "record") = TRUE
    BY <1>3
  <2>3. Transition(c.s, "PENDING", "PLACED", 0, TRUE, ok)
    BY <1>1, <1>2, <1>3, <2>1, <2>2
  <2>4. IsValidStatusTransition("PENDING", "PLACED")
    BY DEF IsValidStatusTransition, ValidTransitions, OrderStatus
  <2>5. /\ ok = TRUE
        /\ row' = [row EXCEPT ![c.s] = [st |-> "PLACED", bid |-> @.bid \/ TRUE, filled |-> 0]]
    BY <2>3, <2>4, <1>1, <1>c DEF Transition
  <2>6. row'[c.s].st = "PLACED" /\ row'[c.s].filled = 0 /\ row'[c.s].bid
    BY <2>5, <1>1, <1>c DEF TypeInv, TypeOK, TablesOK
  <2>7. Goto("settle")
    BY <1>2, <1>3, <2>5
  <2> QED
    BY <1>1, <1>3, <2>6, <2>7
<1>4. CASE c.job = "reject"
  <2>1. JobStatus = "REJECTED" /\ c.job # "record"
    BY <1>4 DEF JobStatus
  <2>2. (c.job = "record") = FALSE
    BY <1>4
  <2>3. Transition(c.s, "PENDING", "REJECTED", 0, FALSE, ok)
    BY <1>1, <1>2, <2>1, <2>2
  <2>4. IsValidStatusTransition("PENDING", "REJECTED")
    BY DEF IsValidStatusTransition, ValidTransitions, OrderStatus
  <2>5. row' = [row EXCEPT ![c.s] = [st |-> "REJECTED", bid |-> @.bid \/ FALSE, filled |-> 0]]
    BY <2>3, <2>4, <1>1, <1>c DEF Transition
  <2>6. row'[c.s].st = "REJECTED" /\ row'[c.s].filled = 0 /\ ~row'[c.s].bid
    BY <2>5, <1>1, <1>c DEF TypeInv, TypeOK, TablesOK
  <2>7. Goto("fail")
    BY <1>2, <1>4
  <2> QED
    BY <1>1, <1>4, <2>6, <2>7
<1> QED
  BY <1>1, <1>3, <1>4

\* What the quiet course gives the lemmas that follow.
LEMMA CalmFacts ==
  ASSUME CalmStep
  PROVE  /\ TypeInv /\ TellInv /\ HaltInv /\ CountInv /\ [Next]_vars
         /\ Calm /\ NoHalt /\ Smooth /\ Smooth'
         /\ CalmConsumer /\ (\A s \in Signals : CalmRow(s) /\ CalmHandler(s))
         /\ ~Fault("db") /\ ~Fault("timeout") /\ ~Crash /\ ~ks
         /\ c.src = "kafka" /\ (\A t \in todo : ~BootOrder(t))
         /\ c \in ConsumerRecord /\ (c.pc # "idle" => c.s \in Signals)
         /\ f \in [Signals -> HandlerRecord]
<1>1. TypeInv /\ TellInv /\ HaltInv /\ CountInv /\ CalmInv /\ [Next]_vars /\ Calm'
  BY DEF CalmStep
<1>2. /\ Calm /\ NoHalt /\ Smooth /\ Smooth'
      /\ ~Fault("db") /\ ~Fault("timeout") /\ ~Crash
  BY <1>1, CalmSteps
<1>3. c.src = "kafka" /\ ~ks
  BY <1>1, <1>2 DEF CountInv, HaltInv
<1>4. \A t \in todo : ~BootOrder(t)
  BY <1>1, <1>2, SmoothSteps
<1>5. /\ c \in ConsumerRecord /\ (c.pc # "idle" => c.s \in Signals)
      /\ f \in [Signals -> HandlerRecord]
  BY <1>1 DEF TypeInv, TypeOK, ConsumerOK, ConsumerInv, HandlersOK
<1> QED
  BY <1>1, <1>2, <1>3, <1>4, <1>5 DEF CalmInv

\* A message that is worked on has a row Kite has not reported.
LEMMA CalmMessage ==
  ASSUME CalmStep, c.pc \in {"lookup", "submit", "relookup"}
  PROVE  /\ ~row[c.s].bid /\ row[c.s].st \in {NoRow, "REJECTED"} /\ sent[c.s] = 0 /\ ~Visible(c.s)
<1>1. msg[c.s] = "ready" /\ CountedInv(c.s) /\ CalmRow(c.s)
  BY CalmFacts DEF CountInv
<1>2. ~row[c.s].bid
  BY <1>1 DEF CountedInv
<1> QED
  BY <1>1, <1>2 DEF CalmRow, AtWork

\* The quiet course keeps the consumer's part.
LEMMA CalmConsumerStep ==
  ASSUME CalmStep
  PROVE  CalmConsumer'
<1>f. /\ TypeInv /\ TellInv /\ HaltInv /\ [Next]_vars /\ NoHalt
      /\ CalmConsumer /\ (\A s \in Signals : CalmRow(s))
      /\ ~Fault("db") /\ ~Fault("timeout") /\ ~Crash /\ ~ks /\ c.src = "kafka"
      /\ c \in ConsumerRecord /\ (c.pc # "idle" => c.s \in Signals)
  BY CalmFacts
<1>i. /\ c.pc \notin {"ack_unknown", "recover"}
      /\ c.pc = "settle" => c.st \notin {"FILLED", "PARTIALLY_FILLED"}
      /\ c.pc \in AtWork => row[c.s].st = "PENDING" /\ ~row[c.s].bid
      /\ c.pc \in {"check", "find", "place"} => sent[c.s] = 0 /\ ~Visible(c.s)
      /\ c.pc = "await" => (sent[c.s] = 1 /\ ~Visible(c.s)) \/ (sent[c.s] = 0 /\ Visible(c.s))
      /\ c.pc = "reject" \/ (c.pc = "write" /\ c.job = "reject") => sent[c.s] = 0 /\ ~Visible(c.s)
      /\ c.pc = "write" => c.job \in {"record", "reject"} /\ c.prev = "PENDING"
      /\ Recording => c.st = "PLACED" /\ c.qty = 0 /\ Visible(c.s) /\ sent[c.s] = 0
  BY <1>f DEF CalmConsumer, AtWork, TellInv, ConsumerTells
<1>1. CASE UNCHANGED c
  <2>1. c.pc \in AtWork => row'[c.s].st = "PENDING"
    <3> SUFFICES ASSUME c.pc \in AtWork PROVE row'[c.s].st = "PENDING"
      OBVIOUS
    <3>1. c.s \in Signals /\ row[c.s].st = "PENDING" /\ ~row[c.s].bid
      BY <1>f, <1>i DEF AtWork
    <3>2. ~ConsumerSubmit
      BY <1>1, <1>f DEF ConsumerSubmit, Goto, ConsumerRecord
    <3>3. ~ConsumerWrite
      <4>1. ConsumerWrite => Goto("settle") \/ Goto("fail")
        BY CalmWrites
      <4> QED
        BY <4>1, <1>1, <1>f DEF ConsumerWrite, Goto, ConsumerRecord
    <3>4. row'[c.s] = row[c.s]
      BY <3>1, <3>2, <3>3, <1>f, WriterIsAlone
    <3> QED
      BY <3>1, <3>4
  <2>2. CASE c.pc \in AtWork
    <3>0. PICK x \in Signals : x = c.s
      BY <2>2, <1>f DEF AtWork
    <3>1. ~ConsumerPlace /\ ~ConsumerAwait
      BY <1>1, <1>f DEF ConsumerPlace, ConsumerAwait, Goto, ConsumerRecord
    <3>2. c'.s = x
      BY <1>1, <3>0
    <3>3. \/ sent'[x] = sent[x] /\ (Visible(x)' <=> Visible(x))
          \/ c.pc = "await" /\ Visible(x)' /\ sent'[x] = 0
      BY <3>1, Delivered
    <3> QED
      BY <1>1, <1>i, <2>1, <2>2, <3>0, <3>2, <3>3 DEF CalmConsumer, AtWork, Recording,
         Visible
  <2>3. CASE c.pc \notin AtWork
    BY <1>1, <1>i, <2>3 DEF CalmConsumer, AtWork, Recording
  <2> QED
    BY <2>2, <2>3
<1>2. CASE ConsumerWrite
  <2>1. (Goto("settle") /\ c.job = "record") \/ Goto("fail")
    BY <1>2, CalmWrites
  <2>2. c'.pc \in {"settle", "fail"} /\ (c'.pc = "settle" => c'.st = "PLACED")
    BY <2>1, <1>2, <1>i, <1>f DEF Goto, ConsumerRecord, ConsumerWrite, Recording
  <2> QED
    BY <2>2 DEF CalmConsumer, AtWork, Recording
<1>3. CASE ConsumerLookup \/ ConsumerSubmit \/ ConsumerRelookup
  <2>0. /\ ~row[c.s].bid /\ row[c.s].st \in {NoRow, "REJECTED"} /\ sent[c.s] = 0 /\ ~Visible(c.s)
        /\ c.s \in Signals
    BY <1>3, <1>f, CalmMessage DEF ConsumerLookup, ConsumerSubmit, ConsumerRelookup
  <2>1. CASE ConsumerLookup \/ ConsumerRelookup
    <3>1. c'.pc = "submit" \/ (c'.pc = "settle" /\ c'.st \in {NoRow, "REJECTED"})
      <4>1. row[c.s].st # "PENDING" /\ row[c.s].st # "ACK_UNKNOWN"
        BY <2>0 DEF NoRow
      <4>2. CASE ConsumerLookup
        BY <4>1, <4>2, <2>0, <1>f DEF ConsumerLookup, Goto, ConsumerRecord
      <4>3. CASE ConsumerRelookup
        BY <4>3, <2>0, <1>f DEF ConsumerRelookup, Goto, ConsumerRecord
      <4> QED
        BY <2>1, <4>2, <4>3
    <3> QED
      BY <3>1 DEF CalmConsumer, AtWork, Recording, NoRow
  <2>2. CASE ConsumerSubmit
    <3>1. \/ c'.pc = "relookup"
          \/ c'.pc = "check" /\ c'.s = c.s /\ row'[c.s].st = "PENDING"
      BY <2>2, <2>0, <1>f DEF ConsumerSubmit, Goto, ConsumerRecord, TypeInv, TypeOK,
         TablesOK
    <3>2. UNCHANGED <<sent, bro>>
      BY <2>2 DEF ConsumerSubmit, broker
    <3> QED
      BY <3>1, <3>2, <2>0 DEF CalmConsumer, AtWork, Recording, Visible
  <2> QED
    BY <1>3, <2>1, <2>2
<1>4. CASE ConsumerCheck \/ ConsumerFind \/ ConsumerPlace
  <2>1. c.s \in Signals /\ c.pc \in {"check", "find", "place"} /\ UNCHANGED <<row, bro>>
    BY <1>4, <1>f DEF ConsumerCheck, ConsumerFind, ConsumerPlace, tables, broker
  <2>2. row[c.s].st = "PENDING" /\ sent[c.s] = 0 /\ ~Visible(c.s)
    BY <2>1, <1>i DEF AtWork
  <2>3. /\ c'.s = c.s
        /\ \/ c'.pc \in {"find", "place"} /\ sent'[c.s] = sent[c.s]
           \/ c'.pc = "await" /\ sent'[c.s] = sent[c.s] + 1
    BY <1>4, <2>1, <2>2, <1>f DEF ConsumerCheck, ConsumerFind, ConsumerPlace, Goto,
       ConsumerRecord,
       broker, TypeInv, TypeOK, BrokerOK
  <2> QED
    BY <2>1, <2>2, <2>3 DEF CalmConsumer, AtWork, Recording, Visible
<1>5. CASE ConsumerAwait
  <2>1. c.s \in Signals /\ c.pc = "await" /\ UNCHANGED <<row, bro>> /\ row[c.s].st = "PENDING"
    BY <1>5, <1>f, <1>i DEF ConsumerAwait, tables, AtWork
  <2>2. /\ c'.s = c.s
        /\ \/ c'.pc = "record" /\ c'.st = "PLACED" /\ c'.qty = 0 /\ Visible(c.s)
              /\ sent[c.s] = 0 /\ sent'[c.s] = 0
           \/ c'.pc = "reject" /\ sent[c.s] > 0 /\ sent'[c.s] = sent[c.s] - 1
    BY <1>5, <2>1, <1>f DEF ConsumerAwait, Goto, ConsumerRecord, TypeInv, TypeOK, BrokerOK
  <2>3. c'.pc = "reject" => sent'[c.s] = 0 /\ ~Visible(c.s)
    BY <2>1, <2>2, <1>i
  <2> QED
    BY <2>1, <2>2, <2>3 DEF CalmConsumer, AtWork, Recording, Visible
<1>6. CASE ConsumerRead
  <2>1. /\ c.pc \in {"record", "reject"} /\ c.s \in Signals /\ UNCHANGED <<row, bro, sent>>
        /\ c'.pc = "write" /\ c'.job = c.pc /\ c'.prev = row[c.s].st
        /\ c'.s = c.s /\ c'.st = c.st /\ c'.qty = c.qty
    BY <1>6, <1>f, <1>i DEF ConsumerRead, tables, broker, ConsumerRecord
  <2>2. row[c.s].st = "PENDING"
    BY <2>1, <1>i DEF AtWork
  <2> QED
    BY <2>1, <2>2, <1>i DEF CalmConsumer, AtWork, Recording, Visible
<1>7. CASE ConsumerEntry \/ ConsumerSettle \/ ConsumerCommit \/ ConsumerFail
  <2>1. c'.pc \in {"commit", "fail", "lookup", "idle"}
    BY <1>7, <1>f DEF ConsumerEntry, ConsumerSettle, ConsumerCommit, ConsumerFail, Goto,
       IdleConsumer,
       ConsumerRecord
  <2> QED
    BY <2>1 DEF CalmConsumer, AtWork, Recording
<1>8. CASE ConsumerRecover
  BY <1>8, <1>i DEF ConsumerRecover
<1>9. ASSUME NEW s \in Signals, ConsumerReceive(s) PROVE CalmConsumer'
  <2>1. UNCHANGED c \/ c'.pc = "entry"
    BY <1>9 DEF ConsumerReceive, IdleConsumer
  <2> QED
    BY <1>1, <2>1 DEF CalmConsumer, AtWork, Recording
<1> QED
  BY <1>f, <1>1, <1>2, <1>3, <1>4, <1>5, <1>6, <1>7, <1>8, <1>9, CalmFacts,
     ProcessWriters DEF ConsumerStep

\* The quiet course keeps the table's part.
LEMMA CalmRowStep ==
  ASSUME CalmStep, NEW x \in Signals
  PROVE  CalmRow(x)'
<1>f. /\ TypeInv /\ TellInv /\ HaltInv /\ [Next]_vars /\ NoHalt
      /\ CalmConsumer /\ CalmRow(x) /\ CalmHandler(x)
      /\ ~Fault("db") /\ ~Fault("timeout") /\ ~Crash /\ ~ks
      /\ c \in ConsumerRecord /\ (c.pc # "idle" => c.s \in Signals)
      /\ HandlerTells(x) /\ BrokerInv(x) /\ Onward(x) /\ RowInv(x) /\ RowInv(x)'
  BY CalmFacts, BrokerOnward, NextTell DEF TellInv
<1>d. \/ sent'[x] = sent[x] /\ (Visible(x)' <=> Visible(x))
      \/ row[x].st = "PENDING" /\ c.s = x /\ c.pc \in {"place", "await"}
  <2>1. ConsumerPlace => c.pc = "place"
    BY DEF ConsumerPlace
  <2>2. ConsumerAwait => c.pc = "await"
    BY DEF ConsumerAwait
  <2>3. c.s = x /\ c.pc \in {"place", "await"} => row[x].st = "PENDING"
    BY <1>f DEF CalmConsumer, AtWork
  <2> QED
    BY <2>1, <2>2, <2>3, Delivered
<1>1. CASE row'[x] = row[x]
  <2>1. row[x].st = "PENDING" => c'.s = x /\ c'.pc \in AtWork
    <3> SUFFICES ASSUME row[x].st = "PENDING" PROVE c'.s = x /\ c'.pc \in AtWork
      OBVIOUS
    <3>1. c.s = x /\ c.pc \in AtWork
      BY <1>f DEF CalmRow
    <3>2. CASE UNCHANGED c
      BY <3>1, <3>2
    <3>3. CASE ConsumerWrite
      BY <1>1, <3>1, <3>3, CalmWrites
    <3>4. CASE ConsumerStep /\ ~ConsumerWrite
      BY <3>1, <3>4, <1>f DEF ConsumerStep, ConsumerEntry, ConsumerLookup, ConsumerSubmit,
         ConsumerRelookup, ConsumerCheck, ConsumerFind, ConsumerPlace, ConsumerAwait, ConsumerRecover,
         ConsumerRead, ConsumerSettle, ConsumerCommit, ConsumerFail, Goto, Found, ConsumerRecord, AtWork
    <3>5. ASSUME NEW s \in Signals, ConsumerReceive(s) PROVE FALSE
      BY <3>1, <3>5 DEF ConsumerReceive, AtWork
    <3> QED
      BY <3>2, <3>3, <3>4, <3>5, <1>f, CalmFacts, ProcessWriters
  <2>2. row[x].st = "CANCELLED" => bro'[x] = bro[x]
    BY <1>f DEF HaltInv, Onward
  <2> QED
    BY <1>1, <1>d, <1>f, <2>1, <2>2 DEF CalmRow, RowInv, NoRow
<1>2. CASE ConsumerSubmit /\ c.s = x /\ row'[x] # row[x]
  <2>1. row[x].st = NoRow /\ row'[x].st = "PENDING" /\ row'[x].bid = row[x].bid
    BY <1>2, <1>f, SubmitWrites
  <2>2. c'.s = x /\ c'.pc = "check"
    <3>1. Goto("check")
      BY <1>2, <2>1, <1>f DEF ConsumerSubmit
    <3> QED
      BY <3>1, <1>2, <1>f DEF Goto, ConsumerRecord
  <2>3. ~row[x].bid
    BY <2>1, <1>f DEF RowInv
  <2> QED
    BY <2>1, <2>2, <2>3 DEF CalmRow, AtWork, NoRow
<1>3. CASE ConsumerWrite /\ c.s = x
  <2>1. /\ c.pc = "write"
        /\ \/ c.job = "record" /\ row'[x].st = "PLACED" /\ row'[x].bid
           \/ c.job = "reject" /\ row'[x].st = "REJECTED" /\ ~row'[x].bid
    BY <1>3, CalmWrites DEF ConsumerWrite
  <2>2. sent'[x] = sent[x] /\ (Visible(x)' <=> Visible(x))
    BY <1>d, <1>3, <2>1
  <2>3. sent[x] = 0 /\ (c.job = "record" => Visible(x)) /\ (c.job = "reject" => ~Visible(x))
    BY <1>3, <2>1, <1>f DEF CalmConsumer, Recording
  <2> QED
    BY <2>1, <2>2, <2>3 DEF CalmRow, NoRow
<1>4. CASE HandlerWrite(x) /\ row[x].bid /\ row'[x] # row[x]
  <2>1. row'[x].st = f[x].new /\ row'[x].filled = f[x].qty /\ row'[x].bid
    BY <1>4, <1>f, HandlerWrites
  <2>2. Tells(x, f[x].new, f[x].qty)
    BY <1>4, <1>f DEF HandlerTells, HandlerWrite
  <2>3. sent[x] = 0 /\ Visible(x) /\ row[x].st # "PENDING"
    BY <1>4, <1>f DEF CalmRow, RowInv
  <2>4. f[x].new = "CANCELLED" => f[x].qty = bro'[x].qty
    BY <2>2, <1>f DEF Tells, Onward
  <2>5. f[x].new # "PENDING"
    BY <2>2 DEF Tells, Reportable, TerminalStatus
  <2> QED
    BY <1>d, <2>1, <2>3, <2>4, <2>5 DEF CalmRow
<1> QED
  BY <1>f, <1>1, <1>2, <1>3, <1>4, WriterIsAlone

\* The quiet course keeps the part of a handler that does not move.
LEMMA CalmAside ==
  ASSUME CalmStep, NEW x \in Signals, ~HandlerStep(x), f'[x] = f[x]
  PROVE  CalmHandler(x)'
<1>f. /\ TypeInv /\ TellInv /\ HaltInv /\ [Next]_vars /\ NoHalt
      /\ CalmConsumer /\ CalmHandler(x) /\ CountedInv(x)
  BY CalmFacts DEF CountInv
<1>a. applied'[x] = applied[x]
  <2>1. ~ConsumerSettle \/ UNCHANGED applied
    BY <1>f DEF CalmConsumer, ConsumerSettle
  <2>2. ASSUME NEW s \in Signals, HandlerApply(s) PROVE applied'[x] = applied[x]
    <3>1. s # x
      BY <2>2 DEF HandlerStep
    <3> QED
      BY <2>2, <3>1, <1>f DEF HandlerApply, ApplyFill, TypeInv, TypeOK, TablesOK
  <2> QED
    BY <2>1, <2>2, <1>f, TableWriters
<1>g. \A q \in 0..Qty : <<x, q>> \in gate' => <<x, q>> \in gate
  <2>1. ASSUME NEW s \in Signals, HandlerGate(s) PROVE \A q \in 0..Qty : <<x, q>> \in gate' => <<x, q>> \in gate
    <3>1. s # x
      BY <2>1 DEF HandlerStep
    <3> QED
      BY <2>1, <3>1 DEF HandlerGate
  <2> QED
    BY <2>1, <1>f, TableWriters
<1>1. CASE row'[x] = row[x]
  BY <1>1, <1>a, <1>g, <1>f
     DEF CalmHandler, Unwritten, Unapplied, WrittenFirst, AppliedFirst, Tracked
<1>2. CASE row'[x] # row[x]
  <2>0. ~HandlerWrite(x)
    BY DEF HandlerStep
  <2>1. /\ ~row[x].bid /\ f[x].pc = "idle" /\ c.s = x
        /\ ConsumerSubmit \/ ConsumerWrite
    BY <1>2, <2>0, <1>f, WriterIsAlone
  <2>2. applied[x] = 0 /\ row[x].filled = 0
    BY <2>1, <1>f DEF CountedInv, TellInv, RowInv
  <2>3. row'[x].filled = 0
    BY <2>1, <2>2, <1>f, CalmWrites, SubmitWrites
  <2> QED
    BY <2>1, <2>2, <2>3, <1>a, <1>g, <1>f
       DEF CalmHandler, Unwritten, Unapplied, WrittenFirst, AppliedFirst
<1> QED
  BY <1>1, <1>2

\* The quiet course keeps the part of a handler that is listed or sent out.
LEMMA CalmPoll ==
  ASSUME CalmStep, NEW x \in Signals, PollList \/ PollBroker, f'[x] # f[x]
  PROVE  CalmHandler(x)'
<1>f. /\ TypeInv /\ TellInv /\ HaltInv /\ NoHalt /\ CalmHandler(x) /\ ~Fault("timeout")
      /\ f \in [Signals -> HandlerRecord]
  BY CalmFacts
<1>u. UNCHANGED <<row, applied, gate>>
  BY DEF PollList, PollBroker, tables
<1>v. row[x].filled \in Nat /\ f[x].prior \in Nat /\ bro[x].qty \in Nat /\ Qty \in Nat
  BY Values, QtyAssumption, <1>f
<1>1. CASE PollList
  <2>1. f[x].pc = "idle" /\ f'[x] = IF Tracked(x) THEN [IdleHandler EXCEPT !.pc = "listed", !.prior = row[x].filled]
                                                  ELSE IdleHandler
    BY <1>1 DEF PollList, FillsIdle
  <2>3. applied[x] = row[x].filled /\ \A q \in 0..Qty : <<x, q>> \in gate => q <= row[x].filled
    BY <2>1, <1>f DEF CalmHandler
  <2>4. \/ Tracked(x) /\ f'[x].pc = "listed" /\ f'[x].prior = row[x].filled
        \/ f'[x].pc = "idle"
    BY <2>1 DEF IdleHandler
  <2> QED
    BY <2>3, <2>4, <1>u DEF CalmHandler, Unwritten, Unapplied, WrittenFirst,
       AppliedFirst, Tracked
<1>2. CASE PollBroker
  <2>1. f[x].pc = "listed" /\ f'[x] = Dispatch(x)
    BY <1>2, <1>f DEF PollBroker
  <2>2. /\ Tracked(x) /\ applied[x] = f[x].prior /\ f[x].prior = row[x].filled
        /\ \A q \in 0..Qty : <<x, q>> \in gate => q <= row[x].filled
    BY <2>1, <1>f DEF CalmHandler, HaltInv, Unwritten, Unapplied
  <2>3. f[x].prior <= bro[x].qty /\ BrokerInv(x) /\ RowInv(x)
    BY <2>1, <1>f DEF TellInv, HandlerTells
  <2>4. CASE Dispatch(x) = IdleHandler
    <3>1. f'[x].pc = "idle"
      BY <2>1, <2>4 DEF IdleHandler
    <3> QED
      BY <3>1, <2>2, <1>u DEF CalmHandler, Unwritten, Unapplied, WrittenFirst,
         AppliedFirst
  <2>5. CASE Dispatch(x) # IdleHandler
    <3>1. /\ f'[x].pc \in {"gate", "update"}
          /\ f'[x].prior = f[x].prior /\ f'[x].qty = bro[x].qty
          /\ f'[x].kind = "terminal" <=> f'[x].new \in {"CANCELLED", "REJECTED"}
          /\ f'[x].new # "PLACED"
          /\ f'[x].pc = "update" => f'[x].kind = "terminal" /\ bro[x].qty <= f[x].prior
          /\ f'[x].kind = "terminal" /\ f'[x].pc = "gate" => bro[x].qty > f[x].prior
          /\ f'[x].new = "PARTIALLY_FILLED" => bro[x].qty > f[x].prior
          /\ Tells(x, f'[x].new, bro[x].qty)
      BY <2>1, <2>3, <2>5, <1>f, Dispatched
    <3>2. f'[x].pc = "update" => f'[x].qty = f[x].prior
      BY <3>1, <2>3, <1>v
    <3>3. f'[x].pc = "gate" => f'[x].qty > f'[x].prior
      <4>1. CASE f'[x].new = "FILLED"
        <5>1. bro[x].qty = Qty
          BY <3>1, <4>1 DEF Tells
        <5>2. row[x].filled < Qty
          BY <2>2, <2>3 DEF Tracked, RowInv
        <5> QED
          BY <5>1, <5>2, <3>1, <2>2, <1>v
      <4>2. CASE f'[x].new # "FILLED"
        BY <3>1, <4>2 DEF Tells, Reportable, TerminalStatus
      <4> QED
        BY <4>1, <4>2
    <3> QED
      BY <3>1, <3>2, <3>3, <2>2, <1>u DEF CalmHandler, Unwritten, Unapplied,
         WrittenFirst, AppliedFirst, Tracked
  <2> QED
    BY <2>4, <2>5
<1> QED
  BY <1>1, <1>2

\* The quiet course keeps the part of a handler that gates, reads, writes or applies.
LEMMA CalmHandlerStep ==
  ASSUME CalmStep, NEW x \in Signals, HandlerStep(x)
  PROVE  CalmHandler(x)'
<1>f. /\ TypeInv /\ TellInv /\ HaltInv /\ CountInv /\ [Next]_vars /\ NoHalt /\ Smooth'
      /\ CalmHandler(x) /\ ~Fault("db") /\ f \in [Signals -> HandlerRecord]
      /\ HandlerTells(x) /\ CountedInv(x)
  BY CalmFacts DEF CountInv, TellInv
<1>v. /\ row[x].filled \in Nat /\ f[x].prior \in Nat /\ f[x].qty \in 0..Qty /\ applied[x] \in Nat
      /\ applied \in [Signals -> Nat]
  BY Values, <1>f DEF TypeInv, TypeOK, TablesOK
<1>b. f[x].pc \in {"gate", "update", "write", "apply"} /\ f[x].prior <= f[x].qty /\ f[x].kind # "boot"
  BY <1>f, HandlerMoves DEF HandlerTells, CountedInv
<1>1. CASE HandlerGate(x)
  <2>1. /\ f[x].pc = "gate" /\ UNCHANGED <<row, applied>> /\ gate' = gate \cup {<<x, f[x].qty>>}
        /\ f' = [f EXCEPT ![x] =
             IF <<x, f[x].qty>> \notin gate
               THEN [@ EXCEPT !.pc = IF f[x].kind = "terminal" THEN "apply" ELSE "update"]
               ELSE IF @.kind = "terminal" THEN [@ EXCEPT !.pc = "update"] ELSE IdleHandler]
    BY <1>1, <1>f DEF HandlerGate
  <2>2. /\ f[x].qty > f[x].prior /\ applied[x] = f[x].prior /\ f[x].prior = row[x].filled /\ Tracked(x)
        /\ \A q \in 0..Qty : <<x, q>> \in gate => q <= row[x].filled
    BY <2>1, <1>f DEF CalmHandler, HaltInv, Unwritten, Unapplied
  <2>3. <<x, f[x].qty>> \notin gate
    <3>1. f[x].qty \in Nat
      BY <1>v
    <3>2. ~(f[x].qty <= row[x].filled)
      BY <3>1, <2>2, <1>v
    <3> QED
      BY <3>2, <2>2, <1>v
  <2>4. /\ f'[x].pc = IF f[x].kind = "terminal" THEN "apply" ELSE "update"
        /\ f'[x].kind = f[x].kind /\ f'[x].new = f[x].new
        /\ f'[x].prior = f[x].prior /\ f'[x].qty = f[x].qty
    BY <2>1, <2>3, <1>f DEF HandlerRecord
  <2>5. f[x].new \in {"CANCELLED", "REJECTED"} => f[x].kind = "terminal"
    BY <2>1, <1>f DEF CalmHandler
  <2>6. \A q \in 0..Qty : <<x, q>> \in gate' => q <= row[x].filled \/ q = f[x].qty
    BY <2>1, <2>2
  <2>7. Tracked(x)' /\ row'[x].filled = row[x].filled /\ applied'[x] = f[x].prior
    BY <2>1, <2>2 DEF Tracked
  <2> QED
    BY <2>4, <2>5, <2>6, <2>7
       DEF CalmHandler, Unwritten, Unapplied, WrittenFirst, AppliedFirst
<1>2. CASE HandlerRead(x)
  <2>1. /\ f[x].pc = "update" /\ f'[x].pc = "write" /\ f'[x].kind = f[x].kind /\ f'[x].new = f[x].new
        /\ f'[x].prior = f[x].prior /\ f'[x].qty = f[x].qty
    BY <1>2, <1>f DEF HandlerRead, HandlerRecord
  <2>2. UNCHANGED <<row, applied, gate>>
    BY <1>2 DEF HandlerRead, tables
  <2> QED
    BY <2>1, <2>2, <1>f DEF CalmHandler, Unwritten, Unapplied, WrittenFirst,
       AppliedFirst, Tracked
<1>3. CASE HandlerApply(x)
  <2>1. f[x].pc = "apply" /\ UNCHANGED <<row, gate>> /\ applied'[x] = applied[x] + (f[x].qty - f[x].prior)
    BY <1>3, <1>f, <1>v DEF HandlerApply, ApplyFill
  <2>2. applied'[x] = f[x].qty
    <3>1. applied[x] = f[x].prior
      BY <2>1, <1>f DEF CalmHandler, Unapplied
    <3> QED
      BY <3>1, <2>1, <1>v
  <2>3. \A q \in 0..Qty : <<x, q>> \in gate' => q <= row'[x].filled \/ q = f[x].qty
    BY <2>1, <1>f DEF CalmHandler
  <2>4. CASE f[x].kind = "terminal"
    <3>1. f'[x].pc = "update" /\ f'[x].kind = "terminal" /\ f'[x].qty = f[x].qty
      BY <1>3, <2>4, <1>f DEF HandlerApply, HandlerRecord
    <3>2. Tracked(x)'
      BY <2>1, <2>4, <1>f DEF CalmHandler, Unwritten, Tracked
    <3> QED
      BY <3>1, <3>2, <2>2, <2>3 DEF CalmHandler, Unwritten, Unapplied, WrittenFirst,
         AppliedFirst
  <2>5. CASE f[x].kind # "terminal"
    <3>1. f'[x].pc = "idle"
      BY <1>3, <2>5, <1>f DEF HandlerApply, IdleHandler
    <3>2. row'[x].filled = f[x].qty
      BY <2>1, <2>5, <1>f DEF CalmHandler, WrittenFirst
    <3>3. \A q \in 0..Qty : <<x, q>> \in gate' => q <= row'[x].filled
      BY <2>3, <3>2, <1>v
    <3> QED
      BY <3>1, <3>2, <3>3, <2>2 DEF CalmHandler, Unwritten, Unapplied, WrittenFirst,
         AppliedFirst
  <2> QED
    BY <2>4, <2>5
<1>4. CASE HandlerWrite(x)
  <2>0. f[x].pc = "write" /\ UNCHANGED <<applied, gate>>
    BY <1>4 DEF HandlerWrite
  <2>1. Tracked(x)
    BY <2>0, <1>f DEF CalmHandler, Unwritten
  <2>2. row'[x].st = f[x].new /\ row'[x].filled = f[x].qty /\ row[x].filled = f[x].prior
    BY <1>4, <2>1, <1>f, HandlerWriteLands
  <2>3. \A q \in 0..Qty : <<x, q>> \in gate' => q <= row'[x].filled
    <3>1. \A q \in 0..Qty : <<x, q>> \in gate => q <= row[x].filled \/ q = f[x].qty
      BY <1>f DEF CalmHandler
    <3> QED
      BY <3>1, <2>0, <2>2, <1>b, <1>v
  <2>4. CASE f[x].kind = "terminal"
    <3>1. f'[x].pc = "idle"
      BY <1>4, <2>4, <1>f DEF HandlerWrite, IdleHandler
    <3>2. applied[x] = f[x].qty
      BY <2>0, <2>4, <1>f DEF CalmHandler, AppliedFirst
    <3> QED
      BY <3>1, <3>2, <2>0, <2>2, <2>3 DEF CalmHandler, Unwritten, Unapplied,
         WrittenFirst, AppliedFirst
  <2>5. CASE f[x].kind # "terminal"
    <3>1. f[x].new \in {"FILLED", "PARTIALLY_FILLED"}
      BY <2>0, <2>5, <1>b, <1>f DEF CalmHandler, HandlerTells, Tells, Reportable,
         TerminalStatus
    <3>2. applied[x] = f[x].prior
      BY <2>0, <2>5, <1>f DEF CalmHandler, Unapplied
    <3>3. CASE f[x].qty > f[x].prior
      <4>1. /\ f'[x].pc = "apply" /\ f'[x].kind = f[x].kind
            /\ f'[x].prior = f[x].prior /\ f'[x].qty = f[x].qty
        BY <1>4, <2>5, <3>1, <3>3, <1>f DEF HandlerWrite, HandlerRecord
      <4> QED
        BY <4>1, <2>5, <3>2, <2>0, <2>2, <2>3 DEF CalmHandler, Unwritten, Unapplied,
           WrittenFirst, AppliedFirst
    <3>4. CASE ~(f[x].qty > f[x].prior)
      <4>1. f'[x].pc = "idle"
        BY <1>4, <3>4, <1>f DEF HandlerWrite, IdleHandler
      <4>2. applied[x] = f[x].qty
        BY <3>2, <3>4, <1>b, <1>v
      <4> QED
        BY <4>1, <4>2, <2>0, <2>2, <2>3 DEF CalmHandler, Unwritten, Unapplied,
           WrittenFirst, AppliedFirst
    <3> QED
      BY <3>3, <3>4
  <2> QED
    BY <2>4, <2>5
<1> QED
  BY <1>1, <1>2, <1>3, <1>4 DEF HandlerStep

\* All is quiet initially.
LEMMA InitCalm == Init => CalmInv
  BY QtyAssumption DEF Init, CalmInv, CalmConsumer, CalmRow, CalmHandler, IdleConsumer,
     IdleHandler,
     AtWork, Recording, Visible, KiteStatus, NoRow, Unapplied, AppliedFirst, Tracked, Unwritten, WrittenFirst

\* Every step keeps the quiet course.
LEMMA NextCalm ==
  TypeInv /\ TellInv /\ HaltInv /\ CountInv /\ CalmInv /\ [Next]_vars => CalmInv'
<1> SUFFICES ASSUME CalmStep PROVE CalmConsumer' /\ \A s \in Signals : CalmRow(s)' /\ CalmHandler(s)'
  BY DEF CalmStep, CalmInv
<1>1. CalmConsumer'
  BY CalmConsumerStep
<1>2. ASSUME NEW x \in Signals PROVE CalmRow(x)' /\ CalmHandler(x)'
  <2>1. CalmHandler(x)'
    <3>1. CASE HandlerStep(x)
      BY <3>1, CalmHandlerStep
    <3>2. CASE ~HandlerStep(x) /\ f'[x] = f[x]
      BY <3>2, CalmAside
    <3>3. CASE (PollList \/ PollBroker) /\ f'[x] # f[x]
      BY <3>3, CalmPoll
    <3>4. ASSUME NEW s \in Signals, HandlerStep(s), s # x PROVE f'[x] = f[x]
      BY <3>4, HandlerMoves, CalmFacts
    <3> QED
      BY <3>1, <3>2, <3>3, <3>4, CalmFacts, ProcessWriters
  <2> QED
    BY <2>1, CalmRowStep
<1> QED
  BY <1>1, <1>2

\* The position is true: in every interleaving of consumer, poller, timeouts,
\* kill switch and its cancel tasks no filled unit is counted twice, and
\* without any fault a settled order is in the position with exactly the
\* quantity Kite filled.
THEOREM PositionHolds == Spec => []PositionIsTrue
<1> DEFINE IInv == TypeInv /\ TellInv /\ HaltInv /\ CountInv /\ CalmInv
<1>1. Init => IInv
  BY InitType, InitTell, InitHalt, InitCount, InitCalm
<1>2. IInv /\ [Next]_vars => IInv'
  BY NextType, NextTell, NextHalt, NextCount, NextCalm
<1>3. IInv => FillsCountedOnce
  BY DEF CountInv, CountedInv, Smooth, FillsCountedOnce, NoDoubleApply
<1>4. IInv => SettledPosition
  <2> SUFFICES ASSUME IInv, Calm, NEW s \in Signals, f[s].pc = "idle", row[s].st \in TerminalStatus
               PROVE  applied[s] = bro[s].qty
    BY DEF SettledPosition, Quiet, Calm
  <2>1. /\ applied[s] = row[s].filled /\ RowInv(s) /\ BrokerInv(s) /\ CalmRow(s)
        /\ row[s].filled \in Nat /\ bro[s].qty \in Nat
    BY Values DEF CalmInv, CalmHandler, TellInv
  <2>2. CASE row[s].st = "FILLED"
    BY <2>1, <2>2 DEF RowInv, BrokerInv
  <2>3. CASE row[s].st = "CANCELLED"
    BY <2>1, <2>3 DEF CalmRow
  <2>4. CASE row[s].st = "REJECTED" /\ row[s].bid
    BY <2>1, <2>4 DEF RowInv, BrokerInv
  <2>5. CASE row[s].st = "REJECTED" /\ ~row[s].bid
    <3>1. bro[s].st = NoRow
      BY <2>1, <2>5, Values DEF CalmRow, Visible
    <3> QED
      BY <2>1, <2>5, <3>1 DEF RowInv, BrokerInv
  <2> QED
    BY <2>2, <2>3, <2>4, <2>5 DEF TerminalStatus
<1> HIDE DEF IInv
<1>5. Spec => []IInv
  BY <1>1, <1>2, PTL DEF Spec
<1> QED
  BY <1>3, <1>4, <1>5, PTL DEF PositionIsTrue
=============================================================================
