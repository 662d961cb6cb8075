----------------------------- MODULE AttemptProofs -----------------------------
(***************************************************************************)
(* Proofs about Attempt, for any number of events, any models and budget,  *)
(* any adapter behaviour; and about the Claude adapter, whose stream an    *)
(* attempt reads: for any messages of the SDK, what becomes of its query   *)
(* and of the usage it reports.                                            *)
(***************************************************************************)
EXTENDS Attempt, ClaudeAgent, FiniteSetTheorems, WellFoundedInduction, TLAPS

(* The sequence numbers of a ledger are naturals with a largest one, which    *)
(* is all NextSequence needs.                                                 *)
Bounded(ledger) ==
  /\ SequencesOf(ledger) \subseteq Nat
  /\ \E m \in {0} \cup SequencesOf(ledger) : \A n \in SequencesOf(ledger) : n <= m

(* The sequence the coordinator gives its own next event (nextSequence,       *)
(* coordinator.ts) is a number above every one in the ledger.                 *)
LEMMA NextSequenceIsFree ==
  ASSUME NEW ledger, Bounded(ledger)
  PROVE  /\ NextSequence(ledger) \in Nat \ {0}
         /\ \A n \in SequencesOf(ledger) : n < NextSequence(ledger)
<1> DEFINE used == {0} \cup SequencesOf(ledger)
           Largest(m) == \A n \in used : n <= m
           top == CHOOSE m \in used : Largest(m)
<1>1. \E m \in used : Largest(m)
  BY DEF Bounded
<1>2. top \in used /\ Largest(top)
  BY <1>1
<1>3. NextSequence(ledger) = 1 + top
  BY DEF NextSequence
<1> HIDE DEF top
<1>4. top \in Nat
  BY <1>2 DEF Bounded
<1> QED
  BY <1>2, <1>3, <1>4 DEF Bounded

(* A ledger stays bounded when an event is added to it. *)
LEMMA BoundedAdd ==
  ASSUME NEW ledger, Bounded(ledger), NEW e, e.seq \in Nat
  PROVE  Bounded(ledger \cup {e})
<1>1. SequencesOf(ledger \cup {e}) = SequencesOf(ledger) \cup {e.seq}
  BY DEF SequencesOf
<1>2. PICK m \in {0} \cup SequencesOf(ledger) : \A n \in SequencesOf(ledger) : n <= m
  BY DEF Bounded
<1>3. m \in Nat
  BY <1>2 DEF Bounded
<1>4. CASE e.seq <= m
  BY <1>1, <1>2, <1>3, <1>4 DEF Bounded
<1>5. CASE m < e.seq
  <2>2. ASSUME NEW n \in SequencesOf(ledger)  PROVE n <= e.seq
    <3>1. n \in Nat /\ n <= m
      BY <1>2 DEF Bounded
    <3>2. e.seq \in Nat
      OBVIOUS
    <3> QED
      BY <3>1, <3>2, <1>3, <1>5
  <2> QED
    BY <2>2, <1>1 DEF Bounded
<1> QED
  BY <1>3, <1>4, <1>5

(* Every set of naturals with an element has a least one. *)
LEMMA LeastNatural ==
  ASSUME NEW S, S \subseteq Nat, S # {}
  PROVE  \E n \in S : \A m \in S : n <= m
<1> DEFINE Less == OpToRel(<, Nat)
<1>1. PICK n \in S : \A m \in S : ~ (<<m, n>> \in Less)
  BY NatLessThanWellFounded, WFMin
<1>2. \A m \in Nat : n \in Nat /\ m < n => <<m, n>> \in Less
  BY DEF OpToRel
<1> HIDE DEF Less
<1>3. ASSUME NEW m \in S  PROVE n <= m
  <2>1. m \in Nat /\ n \in Nat
    OBVIOUS
  <2>2. ~ (<<m, n>> \in Less)
    BY <1>1
  <2>3. ~ (m < n)
    BY <2>1, <2>2, <1>2
  <2> QED
    BY <2>1, <2>3
<1> QED
  BY <1>3

(* The sequence a runtime event is filed under (sequenceAfterCoordinatorEvents) *)
(* is a number, and one not in use once the coordinator has put events of its   *)
(* own between the adapter's.                                                   *)
LEMMA SequenceAfterIsFree ==
  ASSUME NEW ledger, Bounded(ledger), NEW seq \in Nat, NEW shift \in Nat
  PROVE  /\ SequenceAfterCoordinatorEvents(ledger, seq, shift) \in Nat
         /\ shift # 0 => SequenceAfterCoordinatorEvents(ledger, seq, shift)
                           \notin SequencesOf(ledger)
<1> DEFINE from == seq + shift
           last == from + NextSequence(ledger)
           free == {n \in from..last : n \notin SequencesOf(ledger)}
           least == CHOOSE n \in free : \A m \in free : n <= m
<1>1. last \in Nat /\ from \in Nat /\ from <= last
  BY NextSequenceIsFree
<1>2. last \notin SequencesOf(ledger)
  <2>1. ~ (last < NextSequence(ledger))
    BY NextSequenceIsFree
  <2> QED
    BY <2>1, NextSequenceIsFree
<1>3. free \subseteq Nat /\ last \in free
  BY <1>1, <1>2
<1>4. \E n \in free : \A m \in free : n <= m
  <2> HIDE DEF free
  <2> QED
    BY <1>3, LeastNatural
<1>5. least \in free
  BY <1>4
<1>6. shift # 0 => SequenceAfterCoordinatorEvents(ledger, seq, shift) = least
  BY DEF SequenceAfterCoordinatorEvents
<1>7. shift = 0 => SequenceAfterCoordinatorEvents(ledger, seq, shift) = seq
  BY DEF SequenceAfterCoordinatorEvents
<1> HIDE DEF least, last, from
<1> QED
  BY <1>3, <1>5, <1>6, <1>7
-------------------------------------------------------------------------------
(* Types of the values the actions build. *)

LEMMA TerminalStateType == \A c : TerminalState(c) \in Outcomes
BY DEF TerminalState, Outcomes

(* UsageLedger.record keeps a snapshot per model. *)
LEMMA RecordType ==
  ASSUME NEW byModel \in ModelLedger, NEW u \in Usage \cup {NoUsage}
  PROVE  Record(byModel, u) \in ModelLedger
BY DEF Record, ModelLedger

(* There is a highest level reached, whatever has been spent. *)
LEMMA LevelType == \A total : Level(total) \in Levels \cup {"none"}
<1> TAKE total
<1> DEFINE reached == {l \in Levels : Reaches(total, Threshold[l])}
           highest == CHOOSE l \in reached : \A k \in reached : Threshold[k] <= Threshold[l]
<1>1. Levels = {"info", "warning", "critical", "exhausted"}
  BY DEF Levels, Threshold
<1>2. /\ Threshold["info"] = 50 /\ Threshold["warning"] = 75
      /\ Threshold["critical"] = 90 /\ Threshold["exhausted"] = 100
  BY DEF Threshold
<1>3. reached \subseteq {"info", "warning", "critical", "exhausted"}
  BY <1>1
<1>4. Level(total) = IF reached = {} THEN "none" ELSE highest
  BY DEF Level
<1>5. ASSUME reached # {}
      PROVE  \E l \in reached : \A k \in reached : Threshold[k] <= Threshold[l]
  <2> HIDE DEF reached
  <2>1. CASE "exhausted" \in reached
    BY <1>2, <1>3, <2>1
  <2>2. CASE "exhausted" \notin reached /\ "critical" \in reached
    BY <1>2, <1>3, <2>2
  <2>3. CASE "exhausted" \notin reached /\ "critical" \notin reached /\ "warning" \in reached
    BY <1>2, <1>3, <2>3
  <2>4. CASE reached \cap {"exhausted", "critical", "warning"} = {}
    <3>1. reached = {"info"}
      BY <1>3, <1>5, <2>4
    <3> QED
      BY <1>2, <3>1
  <2> QED
    BY <2>1, <2>2, <2>3, <2>4
<1>6. reached # {} => highest \in reached
  BY <1>5
<1> HIDE DEF highest
<1> QED
  BY <1>4, <1>6

(* observe returns one of the notices or none. *)
LEMMA NoticeType == \A b, u : NoticeFor(b, u) \in Notices \cup {"none"}
BY LevelType DEF NoticeFor, Notices

BudgetType == [byModel : ModelLedger, emitted : SUBSET Levels, unknownPricingNotified : BOOLEAN]

(* observe keeps the policy's fields in shape. *)
LEMMA ObserveType ==
  ASSUME NEW b \in BudgetType, NEW u \in Usage \cup {NoUsage}
  PROVE  Observe(b, u) \in BudgetType
<1> DEFINE notice == NoticeFor(b, u)
<1>1. Record(b.byModel, u) \in ModelLedger
  BY RecordType DEF BudgetType
<1>2. b.emitted \cup ({notice} \cap Levels) \in SUBSET Levels
  BY DEF BudgetType
<1>3. (b.unknownPricingNotified \/ notice = "inactive") \in BOOLEAN
  OBVIOUS
<1>4. Observe(b, u) = [byModel |-> Record(b.byModel, u),
                       emitted |-> b.emitted \cup ({notice} \cap Levels),
                       unknownPricingNotified |-> b.unknownPricingNotified \/ notice = "inactive"]
  BY DEF Observe
<1> HIDE DEF notice
<1> QED
  BY <1>1, <1>2, <1>3, <1>4 DEF BudgetType

Typed == TypeOK /\ Bounded(received)

IsProjection(p) == p \in [byModel : ModelLedger, completed : BOOLEAN, cost : {p.cost},
                           terminals : Nat, failed : BOOLEAN]

(* onTerminal keeps the projection's fields in shape. *)
LEMMA HandedOverType ==
  ASSUME Typed
  PROVE  /\ IsProjection(HandedOver)
         /\ HandedOver.terminals = projection.terminals + 1
         /\ HandedOver.failed = projection.failed
<1>1. IsProjection(projection)
  BY DEF Typed, TypeOK, IsProjection
<1> DEFINE cost == IF projection.completed THEN projection.cost ELSE TotalCost(projection.byModel)
<1>2. HandedOver = [byModel |-> projection.byModel, completed |-> TRUE, cost |-> cost,
                    terminals |-> projection.terminals + 1, failed |-> projection.failed]
  <2>1. CASE projection.completed
    BY <1>1, <2>1 DEF HandedOver, IsProjection
  <2>2. CASE ~projection.completed
    BY <1>1, <2>2 DEF HandedOver, IsProjection
  <2> QED
    BY <2>1, <2>2
<1> HIDE DEF cost
<1> QED
  BY <1>1, <1>2 DEF IsProjection

(* A runtime event, as filed. *)
LEMMA NormalizedType ==
  ASSUME Typed, NEW n \in 1..MaxEvents, NEW body \in Bodies
  PROVE  Normalized(n, body) \in Event /\ Normalized(n, body).id[1] = "runtime"
<1>1. SequenceAfterCoordinatorEvents(received, n, offset) \in Nat
  BY SequenceAfterIsFree, AttemptAssumption DEF Typed, TypeOK
<1>2. <<"runtime", n>> \in EventIds
  BY AttemptAssumption DEF EventIds
<1>3. body \in Body
  BY AttemptAssumption
<1>4. /\ body.kind \in {"progress", "usage", "terminal"}
      /\ body.state \in {"none"} \cup Outcomes
      /\ body.usage \in Usage \cup {NoUsage}
  BY <1>3 DEF Body, RuntimeOutcomes, Outcomes
<1>5. TerminalState(cause) \in Outcomes
  BY TerminalStateType
<1> QED
  BY <1>1, <1>2, <1>4, <1>5 DEF Normalized, BlamesAbort, Event, Typed, TypeOK

(* The coordinator's own terminal. *)
LEMMA CoordinatorTerminalType ==
  ASSUME Typed
  PROVE  CoordinatorTerminal \in Event
<1>1. NextSequence(received) \in Nat
  BY NextSequenceIsFree DEF Typed
<1>2. <<"coordinator", 0>> \in EventIds
  BY DEF EventIds
<1>3. TerminalState(cause) \in Outcomes
  BY TerminalStateType
<1> QED
  BY <1>1, <1>2, <1>3 DEF CoordinatorTerminal, Event, Typed, TypeOK

(* A notice of the budget policy. *)
LEMMA PolicyEventType ==
  ASSUME Typed, NEW notice \in Notices
  PROVE  PolicyEvent(notice) \in Event
<1>1. NextSequence(received) \in Nat
  BY NextSequenceIsFree DEF Typed
<1>2. <<"policy", NextSequence(received)>> \in EventIds
  BY <1>1 DEF EventIds
<1> QED
  BY <1>1, <1>2 DEF PolicyEvent, Event
-------------------------------------------------------------------------------
(* Type correctness. *)

LEMMA InitTyped == Init => Typed
<1> SUFFICES ASSUME Init  PROVE Typed
  OBVIOUS
<1>1. EmptyLedger \in ModelLedger
  BY DEF EmptyLedger, ModelLedger
<1>2. NewBudget \in BudgetType
  BY <1>1 DEF NewBudget, BudgetType
<1>3. stream \in [1..MaxEvents -> Bodies \cup {NoBody}]
  BY DEF Init
<1>4. Bounded(received)
  BY DEF Init, Bounded, SequencesOf
<1> QED
  BY <1>1, <1>2, <1>3, <1>4
  DEF Init, Typed, TypeOK, BudgetType, Settlement, Failures, ConsumeErrors

(* Each action keeps the types and the bound on the ledger's sequences. *)
LEMMA NextTyped == Typed /\ [Next]_vars => Typed'
<1> SUFFICES ASSUME Typed, [Next]_vars  PROVE Typed'
  OBVIOUS
<1> USE DEF Typed, executor, consuming
<1>1. TerminalState(cause) \in Outcomes
  BY TerminalStateType
<1>2. CASE SignalAborts
  BY <1>2 DEF SignalAborts, TypeOK, Causes, Settlement, Failures, ConsumeErrors, ExternalCauses, Abort
<1>3. CASE TimeoutFires
  BY <1>3 DEF TimeoutFires, TypeOK, Causes, Settlement, Failures, ConsumeErrors, ExternalCauses, Abort
<1>4. CASE RuntimeReportsCause
  BY <1>4 DEF RuntimeReportsCause, TypeOK, Causes, Settlement, Failures, ConsumeErrors, ExternalCauses, Abort
<1>5. CASE StartSettles
  BY <1>5 DEF StartSettles, TypeOK, Causes, Settlement, Failures, ConsumeErrors, ExternalCauses
<1>6. CASE Started
  BY <1>6 DEF Started, TypeOK, Causes, Settlement, Failures, ConsumeErrors, ExternalCauses
<1>7. CASE StartFailed
  BY <1>7 DEF StartFailed, TypeOK, Causes, Settlement, Failures, ConsumeErrors, ExternalCauses, EnterFinally, Abort, StopRuntime
<1>8. CASE StartAborted
  BY <1>8 DEF StartAborted, TypeOK, Causes, Settlement, Failures, ConsumeErrors, ExternalCauses, EnterFinally, Abort, StopRuntime
<1>9. CASE ConsumeSettled
  BY <1>9 DEF ConsumeSettled, TypeOK, Causes, Settlement, Failures, ConsumeErrors, ExternalCauses, EnterFinally, ConsumeFailure, Abort, StopRuntime
<1>10. CASE ConsumeAborted
  BY <1>10 DEF ConsumeAborted, TypeOK, Causes, Settlement, Failures, ConsumeErrors, ExternalCauses, StopRuntime
<1>11. CASE Drained
  BY <1>11 DEF Drained, TypeOK, Causes, Settlement, Failures, ConsumeErrors, ExternalCauses, EnterFinally, Abort, StopRuntime
<1>12. CASE StopSettles
  BY <1>12 DEF StopSettles, TypeOK, Causes, Settlement, Failures, ConsumeErrors, ExternalCauses
<1>13. CASE IteratorReturns
  BY <1>13 DEF IteratorReturns, TypeOK, Causes, Settlement, Failures, ConsumeErrors, ExternalCauses
<1>14. CASE ProgressProjected
  BY <1>14 DEF ProgressProjected, TypeOK, Causes, Settlement, Failures, ConsumeErrors, ExternalCauses
<1>15. CASE TerminalProjected
  BY <1>15 DEF TerminalProjected, TypeOK, Causes, Settlement, Failures, ConsumeErrors, ExternalCauses
<1>16. CASE StreamEnds
  BY <1>16 DEF StreamEnds, TypeOK, Causes, Settlement, Failures, ConsumeErrors, ExternalCauses
<1>17. CASE StreamFails
  BY <1>17 DEF StreamFails, TypeOK, Causes, Settlement, Failures, ConsumeErrors, ExternalCauses
<1>18. CASE Begin
  BY <1>18 DEF Begin, TypeOK, Causes, Settlement, Failures, ConsumeErrors, ExternalCauses, EnterFinally, Abort, StopRuntime
<1>19. CASE FinalTerminalProjected
  BY <1>19 DEF FinalTerminalProjected, TypeOK
<1>20. CASE Conclude
  <2>1. CoordinatorTerminal \in Event
    BY CoordinatorTerminalType
  <2>2. Bounded(received \cup {CoordinatorTerminal})
    BY <2>1, BoundedAdd DEF Event
  <2>3. Bounded(received')
    BY <1>20, <2>2 DEF Conclude
  <2> QED
    BY <1>20, <2>1, <2>3 DEF Conclude, TypeOK, Failures
<1>21. CASE FinalEventProjected
  <2>1. projection' \in [byModel : ModelLedger, completed : BOOLEAN, cost : {projection'.cost},
                         terminals : Nat, failed : BOOLEAN]
    BY <1>21, HandedOverType DEF FinalEventProjected, IsProjection
  <2> QED
    BY <1>21, <2>1 DEF FinalEventProjected, TypeOK
<1>22. CASE FinalProjectionFails
  <2>1. projection' \in [byModel : ModelLedger, completed : BOOLEAN, cost : {projection'.cost},
                         terminals : Nat, failed : BOOLEAN]
    BY <1>22 DEF FinalProjectionFails, TypeOK
  <2> QED
    BY <1>22, <2>1 DEF FinalProjectionFails, TypeOK, Failures, ConsumeErrors
<1>23. CASE TerminalHandedOver
  <2>1. projection' \in [byModel : ModelLedger, completed : BOOLEAN, cost : {projection'.cost},
                         terminals : Nat, failed : BOOLEAN]
    BY <1>23, HandedOverType DEF TerminalHandedOver, IsProjection
  <2> QED
    BY <1>23, <2>1 DEF TerminalHandedOver, TypeOK
<1>24. CASE ProjectionFails
  <2>1. Counted(current) \in [byModel : ModelLedger, completed : BOOLEAN, cost : {projection.cost},
                              terminals : Nat, failed : BOOLEAN]
    BY RecordType DEF Counted, TypeOK, Event, NoEvent
  <2>2. projection' \in [byModel : ModelLedger, completed : BOOLEAN, cost : {projection'.cost},
                         terminals : Nat, failed : BOOLEAN]
    BY <1>24, <2>1 DEF ProjectionFails, TypeOK
  <2> QED
    BY <1>24, <2>2 DEF ProjectionFails, TypeOK, ConsumeErrors
<1>25. CASE UsageProjected
  <2>1. current.usage \in Usage \cup {NoUsage}
    BY DEF TypeOK, Event, NoEvent
  <2>2. projection' \in [byModel : ModelLedger, completed : BOOLEAN, cost : {projection'.cost},
                         terminals : Nat, failed : BOOLEAN]
    BY <1>25, <2>1, RecordType DEF UsageProjected, Counted, TypeOK
  <2>3. budget' \in BudgetType
    BY <1>25, <2>1, ObserveType DEF UsageProjected, TypeOK, BudgetType
  <2> DEFINE notice == NoticeFor(budget, current.usage)
             event == PolicyEvent(notice)
  <2>4. CASE notice # "none" /\ Accepted(received, event)
    <3>1. event \in Event
      BY <2>4, NoticeType, PolicyEventType
    <3>2. Bounded(received \cup {event})
      BY <3>1, BoundedAdd DEF Event
    <3>3. /\ received' = received \cup {event} /\ offset' = offset + 1
          /\ current' = event /\ consumer' = "policy" /\ cause' = cause
      BY <1>25, <2>4 DEF UsageProjected
    <3> HIDE DEF notice, event
    <3> QED
      BY <1>25, <2>2, <2>3, <3>1, <3>2, <3>3 DEF UsageProjected, TypeOK, BudgetType
  <2>5. CASE ~ (notice # "none" /\ Accepted(received, event))
    <3>1. /\ received' = received /\ offset' = offset /\ current' = current
          /\ consumer' = "next" /\ EnforceHardLimit(budget')
      BY <1>25, <2>5 DEF UsageProjected
    <3>2. cause' \in Causes \cup {"none"}
      BY <3>1 DEF EnforceHardLimit, Abort, TypeOK, Causes
    <3> HIDE DEF notice, event
    <3> QED
      BY <1>25, <2>2, <2>3, <3>1, <3>2 DEF UsageProjected, TypeOK, BudgetType
  <2> QED
    BY <2>4, <2>5
<1>26. CASE PolicyProjected
  <2>1. cause' \in Causes \cup {"none"}
    BY <1>26 DEF PolicyProjected, EnforceHardLimit, Abort, TypeOK, Causes
  <2> QED
    BY <1>26, <2>1 DEF PolicyProjected, TypeOK
<1>27. CASE StreamYields
  <2>1. PICK k \in 1..MaxEvents, body \in Bodies : MayYield(k, body) /\ Yield(k, body)
    BY <1>27 DEF StreamYields
  <2>2. Normalized(k, body) \in Event
    BY NormalizedType
  <2>3. stream' \in [1..MaxEvents -> Bodies \cup {NoBody}]
    BY <2>1 DEF Yield, TypeOK
  <2>4. Bounded(received \cup {Normalized(k, body)})
    BY <2>2, BoundedAdd DEF Event
  <2>5. /\ received' \in {received, received \cup {Normalized(k, body)}}
        /\ current' \in {current, Normalized(k, body)}
        /\ consumer' \in {consumer, "closing", "event"}
        /\ consumeError' \in {consumeError, "contract"}
    BY <2>1 DEF Yield
  <2>6. Bounded(received')
    BY <2>4, <2>5
  <2> QED
    BY <1>27, <2>2, <2>3, <2>5, <2>6 DEF StreamYields, TypeOK, ConsumeErrors
<1>28. CASE UNCHANGED vars
  BY <1>28 DEF vars, TypeOK, Bounded
<1>29. CASE Finished
  BY <1>29 DEF Finished, vars, TypeOK, Bounded
<1> QED
  BY <1>2, <1>3, <1>4, <1>5, <1>6, <1>7, <1>8, <1>9, <1>10, <1>11, <1>12, <1>13, <1>14, <1>15, <1>16, <1>17, <1>18, <1>19, <1>20, <1>21, <1>22, <1>23, <1>24, <1>25, <1>26, <1>27, <1>28, <1>29
  DEF Next, Executor, Consumer, Environment

(* Every state of an attempt is well formed, whatever the adapter sends. *)
THEOREM TypeCorrect == Spec => []TypeOK
<1>1. Init => Typed
  BY InitTyped
<1>2. Typed /\ [Next]_vars => Typed'
  BY NextTyped
<1>3. Typed => TypeOK
  BY DEF Typed
<1> QED
  BY <1>1, <1>2, <1>3, PTL DEF Spec
-------------------------------------------------------------------------------
(* The inductive invariant, in three parts on top of the types. *)

(* executeRun and consumeEvents: the consumer runs only between the start and *)
(* the finally block, which has called stop(), and past which it has settled. *)
Controlled ==
  /\ pc \in {"begin", "starting"} => consumer = "idle"
  /\ pc \in {"draining", "stopping", "projecting", "announcing", "returned"} => stop # "idle"
  /\ pc \in {"stopping", "projecting", "announcing", "returned"} => ~ConsumerRuns
  /\ pc \in {"projecting", "announcing", "returned"} => Stopped

Distinct(ledger) ==
  \A e, f \in ledger : (e.kind = "terminal" /\ f.kind = "terminal") \/ e.seq = f.seq => e = f

HandingOver == pc = "projecting" \/ (consumer = "event" /\ current.kind = "terminal")

(* The ledger and the projection: a terminal is handed over once it is in the *)
(* ledger, and it is handed over now, has been, or the projection failed.     *)
Decided ==
  /\ Distinct(received)
  /\ projection.terminals \in {0, 1}
  /\ projection.terminals = 1 => HasTerminal
  /\ HandingOver => projection.terminals = 0
  /\ consumer \in {"event", "terminal", "policy"} => current \in received
  /\ pc \in {"projecting", "announcing", "returned"} => HasTerminal
  /\ HasTerminal /\ ~projection.failed /\ projection.terminals = 0 => HandingOver

(* The outcome and the cause: the finally block is entered with a terminal in *)
(* the ledger or with a cause for the one the coordinator will file.          *)
Blamed ==
  /\ \A t \in TerminalsOf(received) :
       /\ t.state \in Outcomes
       /\ t.state \in ExternalOutcomes => t.state = TerminalState(cause)
       /\ t.id[1] = "coordinator" => cause # "none" /\ t.state = TerminalState(cause)
  /\ pc = "stopping" => IF failure = "none" THEN HasTerminal ELSE cause # "none"

IInv == Typed /\ Controlled /\ Decided /\ Blamed

(* Each action keeps the phases of executeRun and consumeEvents in step. *)
LEMMA NextControlled == IInv /\ [Next]_vars => Controlled'
<1> SUFFICES ASSUME IInv, [Next]_vars  PROVE Controlled'
  OBVIOUS
<1> USE DEF IInv, Controlled, executor, consuming, ConsumerRuns, Stopped
<1>1. CASE SignalAborts
  BY <1>1 DEF SignalAborts
<1>2. CASE TimeoutFires
  BY <1>2 DEF TimeoutFires
<1>3. CASE RuntimeReportsCause
  BY <1>3 DEF RuntimeReportsCause
<1>4. CASE StartSettles
  BY <1>4 DEF StartSettles
<1>5. CASE StopSettles
  BY <1>5 DEF StopSettles
<1>6. CASE FinalEventProjected
  BY <1>6 DEF FinalEventProjected
<1>7. CASE FinalTerminalProjected
  BY <1>7 DEF FinalTerminalProjected
<1>8. CASE FinalProjectionFails
  BY <1>8 DEF FinalProjectionFails
<1>9. CASE Begin
  BY <1>9 DEF Begin, EnterFinally, StopRuntime
<1>10. CASE Started
  BY <1>10 DEF Started
<1>11. CASE StartFailed
  BY <1>11 DEF StartFailed, EnterFinally, StopRuntime
<1>12. CASE StartAborted
  BY <1>12 DEF StartAborted, EnterFinally, StopRuntime
<1>13. CASE ConsumeSettled
  BY <1>13 DEF ConsumeSettled, EnterFinally, StopRuntime
<1>14. CASE ConsumeAborted
  BY <1>14 DEF ConsumeAborted, StopRuntime
<1>15. CASE Drained
  BY <1>15 DEF Drained, EnterFinally, StopRuntime
<1>16. CASE Conclude
  BY <1>16 DEF Conclude
<1>17. CASE StreamYields
  <2>1. consumer = "next" /\ consumer' \in {"next", "closing", "event"} /\ UNCHANGED <<executor, stop>>
    BY <1>17 DEF StreamYields, Yield
  <2> QED
    BY <2>1
<1>18. CASE StreamEnds
  BY <1>18 DEF StreamEnds
<1>19. CASE StreamFails
  BY <1>19 DEF StreamFails
<1>20. CASE IteratorReturns
  BY <1>20 DEF IteratorReturns
<1>21. CASE ProgressProjected
  BY <1>21 DEF ProgressProjected
<1>22. CASE UsageProjected
  <2>1. consumer = "event" /\ consumer' \in {"policy", "next"} /\ UNCHANGED <<executor, stop>>
    BY <1>22 DEF UsageProjected
  <2> QED
    BY <2>1
<1>23. CASE PolicyProjected
  BY <1>23 DEF PolicyProjected
<1>24. CASE TerminalHandedOver
  BY <1>24 DEF TerminalHandedOver
<1>25. CASE TerminalProjected
  BY <1>25 DEF TerminalProjected
<1>26. CASE ProjectionFails
  BY <1>26 DEF ProjectionFails
<1>27. CASE Finished
  BY <1>27 DEF Finished, vars
<1>28. CASE UNCHANGED vars
  BY <1>28 DEF vars
<1> QED
  BY <1>1, <1>2, <1>3, <1>4, <1>5, <1>6, <1>7, <1>8, <1>9, <1>10, <1>11, <1>12, <1>13, <1>14,
     <1>15, <1>16, <1>17, <1>18, <1>19, <1>20, <1>21, <1>22, <1>23, <1>24, <1>25, <1>26, <1>27, <1>28
  DEF Next, Executor, Consumer, Environment

(* What the ledger accepts (EventLedger.ingest) keeps its events distinct and *)
(* its terminal single.                                                       *)
LEMMA AcceptedIsDistinct ==
  ASSUME NEW ledger, Distinct(ledger), NEW e, Accepted(ledger, e)
  PROVE  /\ Distinct(ledger \cup {e})
         /\ e.kind = "terminal" => TerminalsOf(ledger) = {}
<1>1. ~Known(ledger, e)
  BY DEF Accepted, Rejected, Dropped, Conflicting, Known
<1>2. ~SecondTerminal(ledger, e) /\ ~AfterTerminal(ledger, e) /\ ~SequenceTaken(ledger, e)
  BY DEF Accepted, Rejected, Dropped
<1>3. e.seq \notin SequencesOf(ledger)
  BY <1>1, <1>2 DEF SequenceTaken
<1>4. e.kind = "terminal" => TerminalsOf(ledger) = {}
  BY <1>1, <1>2 DEF SecondTerminal
<1>5. \A f \in ledger : f.seq # e.seq
  BY <1>3 DEF SequencesOf
<1>6. e.kind = "terminal" => \A f \in ledger : f.kind # "terminal"
  BY <1>4 DEF TerminalsOf
<1> QED
  BY <1>4, <1>5, <1>6 DEF Distinct

(* So does the coordinator's own terminal, filed past every sequence when     *)
(* there is no terminal.                                                      *)
LEMMA CoordinatorTerminalIsDistinct ==
  ASSUME Typed, Distinct(received), ~HasTerminal
  PROVE  Distinct(received \cup {CoordinatorTerminal})
<1>1. \A f \in received : f.seq \in SequencesOf(received)
  BY DEF SequencesOf
<1>2. \A f \in received : f.seq \in Nat /\ f.seq < CoordinatorTerminal.seq
  BY <1>1, NextSequenceIsFree DEF Typed, Bounded, CoordinatorTerminal
<1>3. CoordinatorTerminal.seq \in Nat
  BY NextSequenceIsFree DEF Typed, CoordinatorTerminal
<1>4. \A f \in received : f.seq # CoordinatorTerminal.seq
  BY <1>2, <1>3
<1>5. \A f \in received : f.kind # "terminal"
  BY DEF HasTerminal, TerminalsOf
<1> QED
  BY <1>4, <1>5 DEF Distinct

(* Each action keeps the ledger and the projection in step. *)
LEMMA NextDecided == IInv /\ [Next]_vars => Decided'
<1> SUFFICES ASSUME IInv, [Next]_vars  PROVE Decided'
  OBVIOUS
<1> USE DEF IInv, Decided, HandingOver, HasTerminal, executor, consuming
<1>1. CASE SignalAborts
  BY <1>1 DEF SignalAborts
<1>2. CASE TimeoutFires
  BY <1>2 DEF TimeoutFires
<1>3. CASE RuntimeReportsCause
  BY <1>3 DEF RuntimeReportsCause
<1>4. CASE StartSettles
  BY <1>4 DEF StartSettles
<1>5. CASE StopSettles
  BY <1>5 DEF StopSettles
<1>6. CASE FinalEventProjected
  <2>1. projection'.terminals = projection.terminals + 1
    BY <1>6, HandedOverType DEF FinalEventProjected
  <2> QED
    BY <1>6, <2>1 DEF FinalEventProjected, Controlled, ConsumerRuns
<1>7. CASE FinalTerminalProjected
  BY <1>7 DEF FinalTerminalProjected, Controlled, ConsumerRuns
<1>8. CASE FinalProjectionFails
  <2>1. projection'.terminals = projection.terminals /\ projection'.failed
    BY <1>8 DEF FinalProjectionFails, Typed, TypeOK
  <2> QED
    BY <1>8, <2>1 DEF FinalProjectionFails, Controlled, ConsumerRuns
<1>9. CASE Begin
  BY <1>9 DEF Begin, EnterFinally, Controlled, ConsumerRuns
<1>10. CASE Started
  BY <1>10 DEF Started, Controlled, ConsumerRuns
<1>11. CASE StartFailed
  BY <1>11 DEF StartFailed, EnterFinally, Controlled, ConsumerRuns
<1>12. CASE StartAborted
  BY <1>12 DEF StartAborted, EnterFinally, Controlled, ConsumerRuns
<1>13. CASE ConsumeSettled
  BY <1>13 DEF ConsumeSettled, EnterFinally, Controlled, ConsumerRuns
<1>14. CASE ConsumeAborted
  BY <1>14 DEF ConsumeAborted
<1>15. CASE Drained
  BY <1>15 DEF Drained, EnterFinally, Controlled, ConsumerRuns
<1>16. CASE Conclude
  <2>1. pc = "stopping" /\ UNCHANGED <<consumer, projection>>
    BY <1>16 DEF Conclude
  <2>2. CASE HasTerminal
    BY <1>16, <2>1, <2>2 DEF Conclude, Controlled, ConsumerRuns
  <2>3. CASE ~HasTerminal
    <3>1. received' = received \cup {CoordinatorTerminal} /\ pc' = "projecting"
      BY <1>16, <2>3 DEF Conclude
    <3>2. Distinct(received')
      BY <3>1, <2>3, CoordinatorTerminalIsDistinct
    <3>3. CoordinatorTerminal.kind = "terminal"
      BY DEF CoordinatorTerminal
    <3>4. CoordinatorTerminal \in TerminalsOf(received')
      BY <3>1, <3>3 DEF TerminalsOf
    <3>5. HasTerminal'
      BY <3>4
    <3> QED
      BY <2>1, <2>3, <3>1, <3>2, <3>5 DEF Controlled, ConsumerRuns
  <2> QED
    BY <2>2, <2>3
<1>17. CASE StreamYields
  <2>1. PICK k \in 1..MaxEvents, body \in Bodies : MayYield(k, body) /\ Yield(k, body)
    BY <1>17 DEF StreamYields
  <2> DEFINE event == Normalized(k, body)
  <2>2. consumer = "next" /\ UNCHANGED <<executor, stop, projection>>
    BY <1>17 DEF StreamYields
  <2>3. CASE received' = received /\ consumer' \in {"next", "closing"}
    BY <2>2, <2>3
  <2>4. CASE /\ Accepted(received, event) /\ received' = received \cup {event}
             /\ current' = event /\ consumer' = "event"
    <3>1. Distinct(received') /\ (event.kind = "terminal" => TerminalsOf(received) = {})
      BY <2>4, AcceptedIsDistinct
    <3>2. TerminalsOf(received) \subseteq TerminalsOf(received')
      BY <2>4 DEF TerminalsOf
    <3>3. TerminalsOf(received') # {} => TerminalsOf(received) # {} \/ event.kind = "terminal"
      BY <2>4 DEF TerminalsOf
    <3> HIDE DEF event
    <3> QED
      BY <2>2, <2>4, <3>1, <3>2, <3>3
  <2> QED
    BY <2>1, <2>2, <2>3, <2>4 DEF Yield
<1>18. CASE StreamEnds
  BY <1>18 DEF StreamEnds
<1>19. CASE StreamFails
  BY <1>19 DEF StreamFails
<1>20. CASE IteratorReturns
  BY <1>20 DEF IteratorReturns
<1>21. CASE ProgressProjected
  BY <1>21 DEF ProgressProjected
<1>22. CASE UsageProjected
  <2> DEFINE event == PolicyEvent(NoticeFor(budget, current.usage))
  <2>1. /\ consumer = "event" /\ current.kind = "usage" /\ UNCHANGED executor
        /\ projection'.terminals = projection.terminals
        /\ projection'.failed = projection.failed
    BY <1>22 DEF UsageProjected, Counted, Typed, TypeOK
  <2>2. CASE received' = received /\ consumer' = "next"
    BY <2>1, <2>2
  <2>3. CASE /\ Accepted(received, event) /\ received' = received \cup {event}
             /\ current' = event /\ consumer' = "policy"
    <3>1. Distinct(received')
      BY <2>3, AcceptedIsDistinct
    <3>2. TerminalsOf(received') = TerminalsOf(received)
      BY <2>3 DEF TerminalsOf, PolicyEvent
    <3> HIDE DEF event
    <3> QED
      BY <2>1, <2>3, <3>1, <3>2
  <2> QED
    BY <1>22, <2>2, <2>3 DEF UsageProjected
<1>23. CASE PolicyProjected
  BY <1>23 DEF PolicyProjected
<1>24. CASE TerminalHandedOver
  <2>1. projection'.terminals = projection.terminals + 1
    BY <1>24, HandedOverType DEF TerminalHandedOver
  <2>2. current \in TerminalsOf(received)
    BY <1>24 DEF TerminalHandedOver, TerminalsOf
  <2> QED
    BY <1>24, <2>1, <2>2 DEF TerminalHandedOver, Controlled, ConsumerRuns
<1>25. CASE TerminalProjected
  BY <1>25 DEF TerminalProjected
<1>26. CASE ProjectionFails
  <2>1. projection'.terminals = projection.terminals /\ projection'.failed
    BY <1>26 DEF ProjectionFails, Counted, Typed, TypeOK
  <2> QED
    BY <1>26, <2>1 DEF ProjectionFails, Controlled, ConsumerRuns
<1>27. CASE Finished
  BY <1>27 DEF Finished, vars
<1>28. CASE UNCHANGED vars
  BY <1>28 DEF vars
<1> QED
  BY <1>1, <1>2, <1>3, <1>4, <1>5, <1>6, <1>7, <1>8, <1>9, <1>10, <1>11, <1>12, <1>13, <1>14,
     <1>15, <1>16, <1>17, <1>18, <1>19, <1>20, <1>21, <1>22, <1>23, <1>24, <1>25, <1>26, <1>27, <1>28
  DEF Next, Executor, Consumer, Environment

(* Each action keeps the outcome in line with the first cause. *)
LEMMA NextBlamed == IInv /\ [Next]_vars => Blamed'
<1> SUFFICES ASSUME IInv, [Next]_vars  PROVE Blamed'
  OBVIOUS
<1> USE DEF IInv, Blamed, HasTerminal, executor, consuming
<1>1. TerminalState("none") = "failed"
  BY DEF TerminalState, ExternalCauses
<1>2. CASE SignalAborts
  BY <1>1, <1>2 DEF SignalAborts, Abort, ExternalOutcomes
<1>3. CASE TimeoutFires
  BY <1>1, <1>3 DEF TimeoutFires, Abort, ExternalOutcomes
<1>4. CASE RuntimeReportsCause
  BY <1>1, <1>4 DEF RuntimeReportsCause, Abort, ExternalOutcomes
<1>5. CASE StartSettles
  BY <1>5 DEF StartSettles
<1>6. CASE StopSettles
  BY <1>6 DEF StopSettles
<1>7. CASE FinalEventProjected
  BY <1>7 DEF FinalEventProjected
<1>8. CASE FinalTerminalProjected
  BY <1>8 DEF FinalTerminalProjected
<1>9. CASE FinalProjectionFails
  BY <1>9 DEF FinalProjectionFails
<1>10. CASE Begin
  BY <1>1, <1>10 DEF Begin, EnterFinally, Abort, ExternalOutcomes, ConsumeFailure
<1>11. CASE Started
  BY <1>11 DEF Started
<1>12. CASE StartFailed
  BY <1>1, <1>12 DEF StartFailed, EnterFinally, Abort, ExternalOutcomes
<1>13. CASE StartAborted
  BY <1>1, <1>13 DEF StartAborted, EnterFinally, Abort, ExternalOutcomes, ConsumeFailure
<1>14. CASE ConsumeSettled
  BY <1>1, <1>14 DEF ConsumeSettled, EnterFinally, Abort, ExternalOutcomes, ConsumeFailure
<1>15. CASE ConsumeAborted
  BY <1>15 DEF ConsumeAborted
<1>16. CASE Drained
  BY <1>1, <1>16 DEF Drained, EnterFinally, Abort, ExternalOutcomes, ConsumeFailure
<1>17. CASE Conclude
  <2>1. pc = "stopping" /\ pc' # "stopping" /\ UNCHANGED cause
    BY <1>17 DEF Conclude
  <2>2. CASE HasTerminal
    BY <1>17, <2>1, <2>2 DEF Conclude
  <2>3. CASE ~HasTerminal
    <3>1. received' = received \cup {CoordinatorTerminal}
      BY <1>17, <2>3 DEF Conclude
    <3>2. CoordinatorTerminal.state = TerminalState(cause)
      BY DEF CoordinatorTerminal
    <3>3. cause # "none"
      BY <2>1, <2>3
    <3> QED
      BY <2>1, <3>1, <3>2, <3>3, TerminalStateType DEF TerminalsOf
  <2> QED
    BY <2>2, <2>3
<1>18. CASE StreamYields
  <2>1. PICK k \in 1..MaxEvents, body \in Bodies : MayYield(k, body) /\ Yield(k, body)
    BY <1>18 DEF StreamYields
  <2> DEFINE event == Normalized(k, body)
  <2>2. consumer = "next" /\ UNCHANGED <<pc, failure, cause>>
    BY <1>18 DEF StreamYields
  <2>3. received' = received \/ received' = received \cup {event}
    BY <2>1 DEF Yield
  <2>4. pc' # "stopping"
    BY <2>2 DEF Controlled, ConsumerRuns
  <2>5. event.state \in ExternalOutcomes => event.state = TerminalState(cause)
    <3>1. body.state \notin ExternalOutcomes
      BY AttemptAssumption DEF Body, RuntimeOutcomes, ExternalOutcomes
    <3> QED
      BY <3>1 DEF Normalized, BlamesAbort
  <2>6. event.id[1] = "runtime"
    BY NormalizedType
  <2>7. event.kind = "terminal" => event.state \in Outcomes
    <3>1. body.kind = "terminal" => body.state \in Outcomes
      BY AttemptAssumption DEF Body, RuntimeOutcomes, Outcomes, NoUsage
    <3> QED
      BY <3>1, TerminalStateType DEF Normalized, BlamesAbort
  <2> HIDE DEF event
  <2> QED
    BY <2>2, <2>3, <2>4, <2>5, <2>6, <2>7 DEF TerminalsOf
<1>19. CASE StreamEnds
  BY <1>19 DEF StreamEnds
<1>20. CASE StreamFails
  BY <1>20 DEF StreamFails
<1>21. CASE IteratorReturns
  BY <1>21 DEF IteratorReturns
<1>22. CASE ProgressProjected
  BY <1>22 DEF ProgressProjected
<1>23. CASE UsageProjected
  <2> DEFINE event == PolicyEvent(NoticeFor(budget, current.usage))
  <2>1. consumer = "event" /\ UNCHANGED executor
    BY <1>23 DEF UsageProjected
  <2>2. pc' # "stopping"
    BY <2>1 DEF Controlled, ConsumerRuns
  <2>3. received' \in {received, received \cup {event}}
    BY <1>23 DEF UsageProjected
  <2>4. event.kind # "terminal"
    BY DEF PolicyEvent
  <2>5. TerminalsOf(received') = TerminalsOf(received)
    BY <2>3, <2>4 DEF TerminalsOf
  <2>6. cause' = cause \/ cause = "none"
    BY <1>23 DEF UsageProjected, EnforceHardLimit, Abort
  <2> HIDE DEF event
  <2> QED
    BY <1>1, <2>2, <2>5, <2>6 DEF ExternalOutcomes
<1>24. CASE PolicyProjected
  <2>1. cause' = cause \/ cause = "none"
    BY <1>24 DEF PolicyProjected, EnforceHardLimit, Abort
  <2>2. pc' # "stopping"
    BY <1>24 DEF PolicyProjected, Controlled, ConsumerRuns
  <2>3. received' = received
    BY <1>24 DEF PolicyProjected
  <2> QED
    BY <1>1, <2>1, <2>2, <2>3 DEF ExternalOutcomes
<1>25. CASE TerminalHandedOver
  BY <1>25 DEF TerminalHandedOver
<1>26. CASE TerminalProjected
  BY <1>26 DEF TerminalProjected
<1>27. CASE ProjectionFails
  BY <1>27 DEF ProjectionFails
<1>28. CASE Finished
  BY <1>28 DEF Finished, vars
<1>29. CASE UNCHANGED vars
  BY <1>29 DEF vars
<1> QED
  BY <1>2, <1>3, <1>4, <1>5, <1>6, <1>7, <1>8, <1>9, <1>10, <1>11, <1>12, <1>13, <1>14, <1>15,
     <1>16, <1>17, <1>18, <1>19, <1>20, <1>21, <1>22, <1>23, <1>24, <1>25, <1>26, <1>27, <1>28, <1>29
  DEF Next, Executor, Consumer, Environment

(* The invariant holds in every state of every attempt. *)
THEOREM Invariance == Spec => []IInv
<1>1. Init => IInv
  <2> SUFFICES ASSUME Init  PROVE IInv
    OBVIOUS
  <2>1. Typed
    BY InitTyped
  <2>2. Controlled /\ Decided /\ Blamed
    BY DEF Init, Controlled, Decided, Blamed, HandingOver, ConsumerRuns, Stopped, Distinct,
           HasTerminal, TerminalsOf
  <2> QED
    BY <2>1, <2>2 DEF IInv
<1>2. IInv /\ [Next]_vars => IInv'
  BY NextTyped, NextControlled, NextDecided, NextBlamed DEF IInv
<1> QED
  BY <1>1, <1>2, PTL DEF Spec

(* An attempt has exactly one terminal event when it returns, never two, and  *)
(* never hands over a second one.                                             *)
THEOREM OneOutcomeCorrect == Spec => []OneOutcome
<1>1. IInv => OneOutcome
  BY DEF IInv, Decided, OneOutcome, Distinct
<1> QED
  BY <1>1, Invariance, PTL

(* Unless the projection threw, the outcome has reached onTerminal when       *)
(* executeRun returns.                                                        *)
THEOREM OutcomeAnnouncedCorrect == Spec => []OutcomeAnnounced
<1>1. IInv => OutcomeAnnounced
  BY DEF IInv, Controlled, Decided, HandingOver, ConsumerRuns, OutcomeAnnounced
<1> QED
  BY <1>1, Invariance, PTL

(* stop() has settled and the consumer is over before the coordinator files   *)
(* its own terminal or returns.                                               *)
THEOREM CleanReturnCorrect == Spec => []CleanReturn
<1>1. IInv => CleanReturn
  BY DEF IInv, Controlled, CleanReturn
<1> QED
  BY <1>1, Invariance, PTL

(* The outcome is that of the first abort cause, and the coordinator files    *)
(* none without one.                                                          *)
THEOREM OutcomeMatchesCauseCorrect == Spec => []OutcomeMatchesCause
<1>1. IInv => OutcomeMatchesCause
  BY DEF IInv, Blamed, OutcomeMatchesCause
<1> QED
  BY <1>1, Invariance, PTL
-------------------------------------------------------------------------------
(* The result of an attempt is honest: one that carries no error and was not    *)
(* aborted from outside is one where nothing went wrong.                       *)

Ending == pc \in {"stopping", "projecting", "announcing", "returned"}

(* An end without a failure was entered by a consumer that ended well on a    *)
(* started runtime's own terminal; a failed projection has left a failure; a  *)
(* terminal of the coordinator stands for a failure.                          *)
Honest ==
  /\ pc \in {"consuming", "draining"} => start = "ok"
  /\ projection.failed => consumeError # "none" \/ (pc = "returned" /\ failure # "none")
  /\ \A t \in TerminalsOf(received) :
       t.id[1] # "runtime" => pc \in {"projecting", "announcing", "returned"} /\ failure # "none"
  /\ Ending /\ failure = "none" => start = "ok" /\ consumeError = "none" /\ HasTerminal

LEMMA InitHonest == Init => Honest
BY DEF Init, Honest, Ending, TerminalsOf

(* Each action keeps the account of what went wrong. *)
LEMMA NextHonest == IInv /\ Honest /\ [Next]_vars => Honest'
<1> SUFFICES ASSUME IInv, Honest, [Next]_vars  PROVE Honest'
  OBVIOUS
<1> USE DEF Honest, Ending, HasTerminal, executor, consuming
<1>1. CASE SignalAborts
  BY <1>1 DEF SignalAborts
<1>2. CASE TimeoutFires
  BY <1>2 DEF TimeoutFires
<1>3. CASE RuntimeReportsCause
  BY <1>3 DEF RuntimeReportsCause
<1>4. CASE StartSettles
  BY <1>4 DEF StartSettles
<1>5. CASE StopSettles
  BY <1>5 DEF StopSettles
<1>6. CASE FinalEventProjected
  <2>1. projection'.failed = projection.failed
    BY <1>6, HandedOverType DEF FinalEventProjected, IInv
  <2> QED
    BY <1>6, <2>1 DEF FinalEventProjected
<1>7. CASE FinalTerminalProjected
  BY <1>7 DEF FinalTerminalProjected
<1>8. CASE FinalProjectionFails
  BY <1>8 DEF FinalProjectionFails
<1>9. CASE Begin
  BY <1>9 DEF Begin, EnterFinally
<1>10. CASE Started
  BY <1>10 DEF Started
<1>11. CASE StartFailed
  BY <1>11 DEF StartFailed, EnterFinally
<1>12. CASE StartAborted
  BY <1>12 DEF StartAborted, EnterFinally
<1>13. CASE ConsumeSettled
  BY <1>13 DEF ConsumeSettled, EnterFinally, ConsumeFailure
<1>14. CASE ConsumeAborted
  BY <1>14 DEF ConsumeAborted
<1>15. CASE Drained
  BY <1>15 DEF Drained, EnterFinally
<1>16. CASE Conclude
  <2>1. /\ pc = "stopping" /\ UNCHANGED <<projection, start, consumeError>>
        /\ failure' = "none" => failure = "none"
        /\ failure # "none" => failure' # "none"
    BY <1>16 DEF Conclude
  <2>2. CASE HasTerminal
    BY <1>16, <2>1, <2>2 DEF Conclude
  <2>3. CASE ~HasTerminal
    <3>1. received' = received \cup {CoordinatorTerminal} /\ pc' = "projecting"
      BY <1>16, <2>3 DEF Conclude
    <3>2. failure # "none"
      BY <2>1, <2>3 DEF IInv, Blamed
    <3>3. failure' # "none"
      BY <2>1, <3>2
    <3> QED
      BY <2>1, <3>1, <3>3
  <2> QED
    BY <2>2, <2>3
<1>17. CASE StreamYields
  <2>1. PICK k \in 1..MaxEvents, body \in Bodies : MayYield(k, body) /\ Yield(k, body)
    BY <1>17 DEF StreamYields
  <2> DEFINE event == Normalized(k, body)
  <2>2. event.id[1] = "runtime"
    BY NormalizedType DEF IInv
  <2>3. ~Ending /\ pc' = pc /\ UNCHANGED <<start, failure, projection>>
    BY <1>17 DEF StreamYields, IInv, Controlled, ConsumerRuns
  <2>4. received' \in {received, received \cup {event}} /\ consumeError' \in {consumeError, "contract"}
    BY <2>1 DEF Yield
  <2> HIDE DEF event
  <2> QED
    BY <2>2, <2>3, <2>4 DEF TerminalsOf
<1>18. CASE StreamEnds
  BY <1>18 DEF StreamEnds, IInv, Controlled, ConsumerRuns
<1>19. CASE StreamFails
  BY <1>19 DEF StreamFails, IInv, Controlled, ConsumerRuns
<1>20. CASE IteratorReturns
  BY <1>20 DEF IteratorReturns, IInv, Controlled, ConsumerRuns
<1>21. CASE ProgressProjected
  BY <1>21 DEF ProgressProjected, IInv, Controlled, ConsumerRuns
<1>22. CASE UsageProjected
  <2> DEFINE event == PolicyEvent(NoticeFor(budget, current.usage))
  <2>1. ~Ending /\ pc' = pc /\ UNCHANGED <<start, failure, consumeError>>
    BY <1>22 DEF UsageProjected, IInv, Controlled, ConsumerRuns
  <2>2. projection'.failed = projection.failed
    BY <1>22 DEF UsageProjected, Counted, IInv, Typed, TypeOK
  <2>3. received' \in {received, received \cup {event}}
    BY <1>22 DEF UsageProjected
  <2>4. event.kind # "terminal"
    BY DEF PolicyEvent
  <2>5. TerminalsOf(received') = TerminalsOf(received)
    BY <2>3, <2>4 DEF TerminalsOf
  <2> QED
    BY <2>1, <2>2, <2>5
<1>23. CASE PolicyProjected
  BY <1>23 DEF PolicyProjected, IInv, Controlled, ConsumerRuns
<1>24. CASE TerminalHandedOver
  <2>1. projection'.failed = projection.failed
    BY <1>24, HandedOverType DEF TerminalHandedOver, IInv
  <2> QED
    BY <1>24, <2>1 DEF TerminalHandedOver, IInv, Controlled, ConsumerRuns
<1>25. CASE TerminalProjected
  BY <1>25 DEF TerminalProjected, IInv, Controlled, ConsumerRuns
<1>26. CASE ProjectionFails
  <2>1. ~Ending /\ pc' = pc /\ UNCHANGED <<start, failure, received>>
    BY <1>26 DEF ProjectionFails, IInv, Controlled, ConsumerRuns
  <2>2. consumeError' = "projection"
    BY <1>26 DEF ProjectionFails
  <2> QED
    BY <2>1, <2>2
<1>27. CASE Finished
  BY <1>27 DEF Finished, vars
<1>28. CASE UNCHANGED vars
  BY <1>28 DEF vars
<1> QED
  BY <1>1, <1>2, <1>3, <1>4, <1>5, <1>6, <1>7, <1>8, <1>9, <1>10, <1>11, <1>12, <1>13, <1>14,
     <1>15, <1>16, <1>17, <1>18, <1>19, <1>20, <1>21, <1>22, <1>23, <1>24, <1>25, <1>26, <1>27, <1>28
  DEF Next, Executor, Consumer, Environment

(* A result without an error comes from an external abort, from the budget's  *)
(* hard limit, or from an attempt where everything went well.                 *)
THEOREM SilentMeansCleanCorrect == Spec => []SilentMeansClean
<1>1. IInv /\ Honest => SilentMeansClean
  <2> SUFFICES ASSUME IInv, Honest, pc = "returned", SurfacedError = "none",
                      cause \notin ExternalCauses \cup {"budget_exceeded"}
               PROVE  /\ start = "ok" /\ stop = "ok"
                      /\ consumeError = "none"
                      /\ ~projection.failed
                      /\ \E t \in TerminalsOf(received) : t.id[1] = "runtime"
    BY DEF SilentMeansClean
  <2>1. stop # "error" /\ failure = "none"
    BY DEF SurfacedError
  <2>2. stop = "ok"
    BY <2>1 DEF IInv, Controlled, Stopped
  <2>3. HasTerminal /\ start = "ok" /\ consumeError = "none"
    BY <2>1 DEF Honest, Ending
  <2>4. ~projection.failed
    BY <2>1, <2>3 DEF Honest
  <2>5. PICK t \in TerminalsOf(received) : TRUE
    BY <2>3 DEF HasTerminal
  <2>6. t.id[1] = "runtime"
    BY <2>1, <2>5 DEF Honest
  <2> QED
    BY <2>2, <2>3, <2>4, <2>5, <2>6
<1>2. IInv /\ Honest /\ [Next]_vars => Honest'
  BY NextHonest
<1> QED
  BY <1>1, <1>2, InitHonest, Invariance, PTL DEF Spec
-------------------------------------------------------------------------------
(***************************************************************************)
(* The budget: what it and the ledger promise about spend, notices for any *)
(* adapter, and for an orderly one no rejection and a complete record.     *)
(***************************************************************************)

LEMMA LevelsAre == Levels = {"info", "warning", "critical", "exhausted"}
BY DEF Levels, Threshold

(* What observe() does to a budget: the level the known spend has reached has *)
(* been noticed, now or before, and no notice comes twice.                    *)
LEMMA ObserveNotices ==
  ASSUME NEW b \in BudgetType, NEW u \in Usage \cup {NoUsage}
  PROVE  LET notice == NoticeFor(b, u)
             observed == Observe(b, u)
         IN  /\ observed.byModel = Record(b.byModel, u)
             /\ observed.emitted = b.emitted \cup ({notice} \cap Levels)
             /\ observed.unknownPricingNotified = (b.unknownPricingNotified \/ notice = "inactive")
             /\ notice \in Notices \cup {"none"}
             /\ notice \notin b.emitted
             /\ notice = "inactive" => ~b.unknownPricingNotified
             /\ HasKnownCost(observed.byModel)
                  => Level(TotalCost(observed.byModel)) \in observed.emitted \cup {"none"}
<1> DEFINE notice == NoticeFor(b, u)
           byModel == Record(b.byModel, u)
           level == Level(TotalCost(byModel))
<1>1. Observe(b, u) = [byModel |-> byModel, emitted |-> b.emitted \cup ({notice} \cap Levels),
                       unknownPricingNotified |-> b.unknownPricingNotified \/ notice = "inactive"]
  BY DEF Observe
<1>2. notice = IF ~HasKnownCost(byModel)
               THEN IF u.source = "unknown" /\ ~b.unknownPricingNotified THEN "inactive" ELSE "none"
               ELSE IF level \in b.emitted THEN "none" ELSE level
  BY DEF NoticeFor
<1>3. level \in Levels \cup {"none"} /\ notice \in Notices \cup {"none"}
  BY LevelType, NoticeType
<1>4. b.emitted \subseteq Levels /\ {"none", "inactive"} \cap Levels = {}
  BY LevelsAre DEF BudgetType
<1> HIDE DEF notice, byModel, level
<1>5. notice \notin b.emitted /\ (notice = "inactive" => ~b.unknownPricingNotified)
  BY <1>2, <1>3, <1>4
<1>6. HasKnownCost(byModel) => level \in b.emitted \cup ({notice} \cap Levels) \cup {"none"}
  BY <1>2, <1>3, <1>4
<1> QED
  BY <1>1, <1>3, <1>5, <1>6 DEF notice, byModel, level
-------------------------------------------------------------------------------
PolicyEvents == {e \in received : e.kind = "policy"}

(* The notices in the ledger are those the budget has given, one each; one is *)
(* missing only behind a terminal.  Policy ids are sequences of the ledger's. *)
Announced ==
  /\ \A e \in received : e.id[1] = "policy" => e.id = <<"policy", e.seq>>
  /\ \A e \in PolicyEvents :
       IF e.state = "inactive" THEN budget.unknownPricingNotified ELSE e.state \in budget.emitted
  /\ \A e, f \in PolicyEvents : e.state = f.state => e = f
  /\ HasTerminal \/ \A level \in budget.emitted : \E e \in PolicyEvents : e.state = level
  /\ HasKnownCost(budget.byModel) => Level(TotalCost(budget.byModel)) \in budget.emitted \cup {"none"}

LEMMA InitAnnounced == Init => Announced
<1> SUFFICES ASSUME Init  PROVE Announced
  OBVIOUS
<1>1. received = {} /\ budget.emitted = {} /\ budget.byModel = EmptyLedger
  BY DEF Init, NewBudget
<1>2. ~HasKnownCost(EmptyLedger)
  BY DEF HasKnownCost, EmptyLedger, NoUsage
<1> QED
  BY <1>1, <1>2 DEF Announced, PolicyEvents

(* A notice the ledger does not accept comes behind a terminal. *)
LEMMA NoticeAccepted ==
  ASSUME Typed, Announced, NEW notice, ~HasTerminal
  PROVE  Accepted(received, PolicyEvent(notice))
<1> DEFINE event == PolicyEvent(notice)
<1>1. /\ event.id = <<"policy", NextSequence(received)>> /\ event.seq = NextSequence(received)
      /\ event.kind = "policy"
  BY DEF PolicyEvent
<1>2. \A e \in received : e.seq \in Nat /\ e.seq < NextSequence(received)
  BY NextSequenceIsFree DEF Typed, TypeOK, Event, SequencesOf
<1>3. NextSequence(received) \in Nat
  BY NextSequenceIsFree DEF Typed
<1> HIDE DEF event
<1>4. ASSUME NEW e \in received  PROVE e.seq # event.seq /\ e.id # event.id
  <2>1. e.seq # event.seq
    BY <1>1, <1>2, <1>3, <1>4
  <2>2. e.id = event.id => e.id = <<"policy", e.seq>>
    BY <1>1, <1>4 DEF Announced
  <2> QED
    BY <1>1, <2>1, <2>2
<1>5. event \notin received /\ event.seq \notin SequencesOf(received)
  BY <1>4 DEF SequencesOf
<1>6. TerminalsOf(received) = {}
  BY DEF HasTerminal
<1> QED
  BY <1>1, <1>4, <1>5, <1>6
  DEF event, Accepted, Rejected, Dropped, Conflicting, SecondTerminal, SequenceTaken, AfterTerminal, Known

(* Events of the adapter and the coordinator's terminal change no notice. *)
LEMMA AnnouncedGrows ==
  ASSUME Announced, NEW e, received' \in {received, received \cup {e}},
         e.kind # "policy", e.id[1] # "policy", UNCHANGED budget
  PROVE  Announced'
<1>1. PolicyEvents' = PolicyEvents /\ (HasTerminal => HasTerminal')
  BY DEF PolicyEvents, HasTerminal, TerminalsOf
<1>2. \A f \in received' : f.id[1] = "policy" => f.id = <<"policy", f.seq>>
  BY DEF Announced
<1> QED
  BY <1>1, <1>2 DEF Announced

(* Only the budget's observation and the ledger's growth matter here. *)
LEMMA NextAnnounced == IInv /\ Announced /\ [Next]_vars => Announced'
<1> SUFFICES ASSUME IInv, Announced, [Next]_vars  PROVE Announced'
  OBVIOUS
<1>1. CASE UNCHANGED <<received, budget>>
  BY <1>1 DEF Announced, PolicyEvents, HasTerminal
<1>2. CASE StreamYields
  <2>1. PICK k \in 1..MaxEvents, body \in Bodies : Yield(k, body)
    BY <1>2 DEF StreamYields
  <2> DEFINE event == Normalized(k, body)
  <2>2. event.id[1] = "runtime" /\ event.kind = body.kind
    BY DEF Normalized
  <2>3. event.kind # "policy"
    BY <2>2, AttemptAssumption DEF Body
  <2>4. received' \in {received, received \cup {event}}
    BY <2>1 DEF Yield
  <2> HIDE DEF event
  <2> QED
    BY <1>2, <2>2, <2>3, <2>4, AnnouncedGrows DEF StreamYields
<1>3. CASE Conclude
  <2>1. received' \in {received, received \cup {CoordinatorTerminal}} /\ UNCHANGED budget
    BY <1>3 DEF Conclude
  <2>2. CoordinatorTerminal.id[1] = "coordinator" /\ CoordinatorTerminal.kind = "terminal"
    BY DEF CoordinatorTerminal
  <2> QED
    BY <2>1, <2>2, AnnouncedGrows
<1>4. CASE UsageProjected
  <2> DEFINE notice == NoticeFor(budget, current.usage)
             event  == PolicyEvent(notice)
  <2>1. budget \in BudgetType /\ current.usage \in Usage \cup {NoUsage}
    BY DEF IInv, Typed, TypeOK, BudgetType, Event, NoEvent
  <2>2. /\ budget'.emitted = budget.emitted \cup ({notice} \cap Levels)
        /\ budget'.unknownPricingNotified = (budget.unknownPricingNotified \/ notice = "inactive")
        /\ notice \in Notices \cup {"none"} /\ notice \notin budget.emitted
        /\ notice = "inactive" => ~budget.unknownPricingNotified
        /\ HasKnownCost(budget'.byModel)
             => Level(TotalCost(budget'.byModel)) \in budget'.emitted \cup {"none"}
    BY <1>4, <2>1, ObserveNotices DEF UsageProjected
  <2>3. /\ event.id = <<"policy", event.seq>> /\ event.kind = "policy" /\ event.state = notice
    BY DEF PolicyEvent
  <2>4. CASE notice # "none" /\ Accepted(received, event)
    <3>1. received' = received \cup {event}
      BY <1>4, <2>4 DEF UsageProjected
    <3>2. PolicyEvents' = PolicyEvents \cup {event} /\ (HasTerminal => HasTerminal')
      BY <2>3, <3>1 DEF PolicyEvents, HasTerminal, TerminalsOf
    <3>3. "inactive" \notin Levels /\ notice \in Levels \cup {"inactive"}
      BY <2>2, <2>4, LevelsAre DEF Notices
    <3> HIDE DEF notice, event
    <3>4. \A e \in PolicyEvents : e.state # notice
      BY <2>2, <3>3 DEF Announced
    <3>5. \A e \in PolicyEvents' :
            IF e.state = "inactive" THEN budget'.unknownPricingNotified ELSE e.state \in budget'.emitted
      BY <2>2, <2>3, <3>2, <3>3 DEF Announced
    <3>6. \A e, f \in PolicyEvents' : e.state = f.state => e = f
      BY <2>3, <3>2, <3>4 DEF Announced
    <3>7. HasTerminal' \/ \A level \in budget'.emitted : \E e \in PolicyEvents' : e.state = level
      BY <2>2, <2>3, <3>2 DEF Announced
    <3>8. \A e \in received' : e.id[1] = "policy" => e.id = <<"policy", e.seq>>
      BY <2>3, <3>1 DEF Announced
    <3> QED
      BY <2>2, <3>5, <3>6, <3>7, <3>8 DEF Announced
  <2>5. CASE ~(notice # "none" /\ Accepted(received, event))
    <3>1. received' = received
      BY <1>4, <2>5 DEF UsageProjected
    <3>2. PolicyEvents' = PolicyEvents /\ HasTerminal' = HasTerminal
      BY <3>1 DEF PolicyEvents, HasTerminal
    <3>3. notice = "none" \/ HasTerminal
      BY <2>5, NoticeAccepted DEF IInv
    <3>4. "none" \notin Levels
      BY LevelsAre
    <3> HIDE DEF notice, event
    <3> QED
      BY <2>2, <3>1, <3>2, <3>3, <3>4 DEF Announced
  <2> QED
    BY <2>4, <2>5
<1>5. UNCHANGED <<received, budget>> \/ StreamYields \/ Conclude \/ UsageProjected
  BY DEF Next, Executor, Consumer, Environment, Finished, vars, consuming,
     Begin, Started, StartFailed, StartAborted, ConsumeSettled, ConsumeAborted, Drained,
     StreamEnds, StreamFails, IteratorReturns, ProgressProjected, PolicyProjected, TerminalHandedOver,
     TerminalProjected, ProjectionFails, SignalAborts, TimeoutFires, RuntimeReportsCause, StartSettles,
     StopSettles, FinalEventProjected, FinalTerminalProjected, FinalProjectionFails
<1> QED
  BY <1>1, <1>2, <1>3, <1>4, <1>5

(* The level the known spend has reached has its one notice in the ledger     *)
(* before the next event is read (CostBudgetPolicy.observe and consumeEvents).*)
THEOREM SpendIsAnnouncedCorrect == Spec => []SpendIsAnnounced
<1>1. Announced => SpendIsAnnounced
  BY LevelType DEF Announced, SpendIsAnnounced, PolicyEvents
<1>2. IInv /\ Announced /\ [Next]_vars => Announced'
  BY NextAnnounced
<1> QED
  BY <1>1, <1>2, InitAnnounced, Invariance, PTL DEF Spec
-------------------------------------------------------------------------------
(* The hard limit. *)

(* Whatever is neither being observed nor noticed has been held to the limit. *)
Limited ==
  consumer \in {"idle", "next", "event", "terminal"} /\ HardLimitReached(budget) => cause # "none"

(* The first abort cause stands (abortState.abort). *)
LEMMA CauseStands == [Next]_vars /\ cause # "none" => cause' = cause
<1> SUFFICES ASSUME [Next]_vars, cause # "none"  PROVE cause' = cause
  OBVIOUS
<1> USE DEF executor, consuming, Abort, EnterFinally, EnforceHardLimit
<1>1. CASE Environment
  BY <1>1 DEF Environment, SignalAborts, TimeoutFires, RuntimeReportsCause, StartSettles, StopSettles,
     FinalEventProjected, FinalTerminalProjected, FinalProjectionFails
<1>2. CASE Executor
  BY <1>2 DEF Executor, Begin, Started, StartFailed, StartAborted, ConsumeSettled, ConsumeAborted,
     Drained, Conclude
<1>3. CASE UsageProjected
  BY <1>3 DEF UsageProjected
<1>4. CASE Consumer /\ ~UsageProjected
  BY <1>4 DEF Consumer, StreamYields, StreamEnds, StreamFails, IteratorReturns, ProgressProjected,
     PolicyProjected, TerminalHandedOver, TerminalProjected, ProjectionFails
<1> QED
  BY <1>1, <1>2, <1>3, <1>4 DEF Next, Finished, vars

LEMMA NextLimited == IInv /\ Limited /\ [Next]_vars => Limited'
<1> SUFFICES ASSUME IInv, Limited, [Next]_vars  PROVE Limited'
  OBVIOUS
<1> USE DEF Limited, executor, consuming
<1>1. CASE UsageProjected
  <2>1. consumer' = "policy" \/ EnforceHardLimit(budget')
    BY <1>1 DEF UsageProjected
  <2> QED
    BY <2>1 DEF EnforceHardLimit, Abort
<1>2. CASE PolicyProjected
  BY <1>2 DEF PolicyProjected, EnforceHardLimit, Abort
<1>3. CASE StreamYields
  <2>1. consumer = "next" /\ UNCHANGED <<cause, budget>>
    BY <1>3 DEF StreamYields
  <2> QED
    BY <2>1
<1>4. CASE UNCHANGED <<budget, consumer>>
  <2>1. cause # "none" => cause' # "none"
    BY CauseStands
  <2> QED
    BY <1>4, <2>1
<1>5. \/ UNCHANGED <<budget, cause>> /\ consumer \in {"idle", "next", "event", "terminal"}
      \/ consumer' \in {"closing", "ended"}
      \/ UNCHANGED <<budget, consumer>> \/ StreamYields \/ UsageProjected \/ PolicyProjected
  BY DEF IInv, Controlled, Next, Executor, Consumer, Environment, Finished, vars,
     SignalAborts, TimeoutFires, RuntimeReportsCause, StartSettles, StopSettles,
     FinalEventProjected, FinalTerminalProjected, FinalProjectionFails, Begin, Started, StartFailed,
     StartAborted, ConsumeSettled, ConsumeAborted, Drained, Conclude, StreamEnds, StreamFails,
     IteratorReturns, ProgressProjected, TerminalHandedOver, TerminalProjected, ProjectionFails
<1> QED
  BY <1>1, <1>2, <1>3, <1>4, <1>5

(* Spend past the hard limit aborts the attempt before the next event is read *)
(* (consumeEvents, the budget's hardLimitReached).  That a ledger without     *)
(* snapshots costs nothing is the recursion of TotalCost, and a hypothesis.   *)
THEOREM HardLimitStopsCorrect ==
  ASSUME TotalCost(EmptyLedger) = 0
  PROVE  Spec => []HardLimitStops
<1>1. Init => Limited
  <2>1. ~Reaches(0, HardLimitPercent)
    BY BudgetAssumption DEF Reaches, HardLimitPercent
  <2> QED
    BY <2>1 DEF Init, Limited, NewBudget, HardLimitReached
<1>2. Limited => HardLimitStops
  BY DEF Limited, HardLimitStops
<1> QED
  BY <1>1, <1>2, NextLimited, Invariance, PTL DEF Spec

(* BudgetIsEnforced: no spend of an attempt escapes the consumer's             *)
(* observations, notices and comparisons with the limit.                       *)
THEOREM BudgetEnforcedCorrect ==
  ASSUME TotalCost(EmptyLedger) = 0
  PROVE  Spec => []BudgetIsEnforced
<1>1. HardLimitStops /\ SpendIsAnnounced => BudgetIsEnforced
  BY DEF BudgetIsEnforced
<1> QED
  BY <1>1, HardLimitStopsCorrect, SpendIsAnnouncedCorrect, PTL
-------------------------------------------------------------------------------
(* The adapter that keeps its contract. *)

Orderly == ~Reorders /\ ~Redelivers /\ ~Misbehaves

(* The ledger follows the stream: its runtime events are delivered ones, in   *)
(* the adapter's numbering until the first notice; the coordinator's terminal *)
(* comes after the stream.                                                    *)
Ordered ==
  /\ \A k \in 1..MaxEvents : stream[k] # NoBody => \A j \in 1..(k - 1) : stream[j] # NoBody
  /\ \A e \in received :
       /\ e.id[1] = "runtime" =>
            /\ e.id[2] \in 1..MaxEvents /\ stream[e.id[2]] # NoBody
            /\ e.kind = "terminal" => stream[e.id[2]].kind = "terminal"
            /\ offset = 0 => e.seq = e.id[2]
       /\ e.id[1] = "policy" => offset # 0 /\ e.kind = "policy"
       /\ e.id[1] = "coordinator" => pc \in {"projecting", "announcing", "returned"}
  /\ consumeError # "contract"

(* The event an orderly stream yields next: a new one, with no terminal before. *)
LEMMA YieldsNew ==
  ASSUME Orderly, Typed, Controlled, Ordered, consumer = "next",
         NEW k \in 1..MaxEvents, NEW body \in Bodies, MayYield(k, body)
  PROVE  stream[k] = NoBody /\ ~HasTerminal /\ \A j \in 1..(k - 1) : stream[j] # NoBody
<1>1. stream[k] = NoBody /\ \A j \in 1..(k - 1) : stream[j] # NoBody
  BY DEF Orderly, MayYield
<1>2. \A j \in 1..MaxEvents : stream[j].kind = "terminal" => k < j
  BY <1>1 DEF Orderly, MayYield
<1>3. \A j \in 1..MaxEvents : stream[j].kind # "terminal"
  <2> SUFFICES ASSUME NEW j \in 1..MaxEvents, stream[j].kind = "terminal"  PROVE FALSE
    OBVIOUS
  <2>1. stream[j] # NoBody
    BY DEF NoBody
  <2>2. k \in 1..(j - 1)
    BY <1>2, AttemptAssumption
  <2> QED
    BY <1>1, <2>1, <2>2 DEF Ordered
<1>4. ASSUME NEW e \in received, e.kind = "terminal"  PROVE FALSE
  <2>1. e.id[1] \in {"runtime", "policy", "coordinator"}
    BY <1>4 DEF Typed, TypeOK, Event, EventIds
  <2>2. pc \notin {"projecting", "announcing", "returned"}
    BY DEF Controlled, ConsumerRuns
  <2> QED
    BY <1>3, <1>4, <2>1, <2>2 DEF Ordered
<1> QED
  BY <1>1, <1>4 DEF HasTerminal, TerminalsOf

(* The ledger takes it: its id and, past the notices, its sequence are free. *)
LEMMA YieldsAccepted ==
  ASSUME Orderly, Typed, Controlled, Ordered, consumer = "next",
         NEW k \in 1..MaxEvents, NEW body \in Bodies, MayYield(k, body)
  PROVE  Accepted(received, Normalized(k, body))
<1> DEFINE event == Normalized(k, body)
<1>1. event.id = <<"runtime", k>> /\ event.seq = SequenceAfterCoordinatorEvents(received, k, offset)
  BY DEF Normalized
<1>2. stream[k] = NoBody /\ TerminalsOf(received) = {}
  BY YieldsNew DEF HasTerminal
<1>3. k \in Nat /\ offset \in Nat
  BY AttemptAssumption DEF Typed, TypeOK
<1> HIDE DEF event
<1>4. ASSUME NEW e \in received  PROVE e.id # event.id
  BY <1>1, <1>2, <1>4 DEF Ordered
<1>5. event.seq \notin SequencesOf(received)
  <2>1. CASE offset # 0
    BY <1>1, <1>3, <2>1, SequenceAfterIsFree DEF Typed
  <2>2. CASE offset = 0
    <3>1. event.seq = k
      BY <1>1, <2>2 DEF SequenceAfterCoordinatorEvents
    <3>2. ASSUME NEW e \in received  PROVE e.seq # k
      <4>1. e.id[1] \in {"runtime", "policy", "coordinator"}
        BY <3>2 DEF Typed, TypeOK, Event, EventIds
      <4>2. e.id[1] = "runtime"
        BY <2>2, <4>1 DEF Ordered, Controlled, ConsumerRuns
      <4> QED
        BY <1>2, <2>2, <4>2 DEF Ordered
    <3> QED
      BY <3>1, <3>2 DEF SequencesOf
  <2> QED
    BY <2>1, <2>2
<1> QED
  BY <1>2, <1>4, <1>5
  DEF event, Accepted, Rejected, Dropped, Conflicting, SecondTerminal, SequenceTaken, AfterTerminal, Known

LEMMA NextOrdered == ASSUME Orderly, IInv, Ordered, [Next]_vars PROVE Ordered'
<1> USE DEF executor, consuming
<1>1. CASE StreamYields
  <2>1. PICK k \in 1..MaxEvents, body \in Bodies : MayYield(k, body) /\ Yield(k, body)
    BY <1>1 DEF StreamYields
  <2> DEFINE event == Normalized(k, body)
  <2>2. consumer = "next" /\ UNCHANGED <<pc, offset>>
    BY <1>1 DEF StreamYields
  <2>3. Accepted(received, event)
    BY <2>1, <2>2, YieldsAccepted DEF IInv
  <2>4. received' = received \cup {event} /\ consumeError' = consumeError
        /\ stream' = [stream EXCEPT ![k] = body]
    BY <2>1, <2>3 DEF Yield, Accepted
  <2>5. /\ event.id = <<"runtime", k>> /\ event.kind = body.kind
        /\ offset = 0 => event.seq = k
    BY DEF Normalized, SequenceAfterCoordinatorEvents
  <2>6. body # NoBody
    BY AttemptAssumption DEF Body, NoBody
  <2>7. stream[k] = NoBody /\ \A j \in 1..(k - 1) : stream[j] # NoBody
    BY <2>1, <2>2, YieldsNew DEF IInv
  <2>8. /\ stream'[k] = body
        /\ \A j \in 1..MaxEvents : j # k => stream'[j] = stream[j]
    BY <2>4 DEF IInv, Typed, TypeOK
  <2> HIDE DEF event
  <2>9. \A i \in 1..MaxEvents : stream'[i] # NoBody => \A j \in 1..(i - 1) : stream'[j] # NoBody
    <3> SUFFICES ASSUME NEW i \in 1..MaxEvents, stream'[i] # NoBody, NEW j \in 1..(i - 1)
                 PROVE  stream'[j] # NoBody
      OBVIOUS
    <3>1. j \in 1..MaxEvents
      BY AttemptAssumption
    <3>2. CASE j = k
      BY <2>6, <2>8, <3>2
    <3>3. CASE j # k /\ i = k
      BY <2>7, <2>8, <3>1, <3>3
    <3>4. CASE j # k /\ i # k
      BY <2>8, <3>1, <3>4 DEF Ordered
    <3> QED
      BY <3>2, <3>3, <3>4
  <2>10. ASSUME NEW e \in received, e.id[1] = "runtime"
         PROVE  /\ e.id[2] \in 1..MaxEvents /\ stream'[e.id[2]] # NoBody
                /\ e.kind = "terminal" => stream'[e.id[2]].kind = "terminal"
    BY <2>7, <2>8, <2>10 DEF Ordered
  <2>11. stream'[event.id[2]] = body /\ event.id[2] = k /\ event.id[1] = "runtime"
    BY <2>5, <2>8
  <2> QED
    BY <2>2, <2>4, <2>5, <2>6, <2>9, <2>10, <2>11 DEF Ordered
<1>2. CASE Conclude
  <2>1. /\ received' \in {received, received \cup {CoordinatorTerminal}}
        /\ received' = received \/ pc' = "projecting"
        /\ pc = "stopping" /\ pc' \in {"projecting", "returned"}
        /\ UNCHANGED <<stream, offset, consumeError>>
    BY <1>2 DEF Conclude
  <2>2. CoordinatorTerminal.id[1] = "coordinator"
    BY DEF CoordinatorTerminal
  <2> QED
    BY <2>1, <2>2 DEF Ordered
<1>3. CASE UsageProjected
  <2> DEFINE event == PolicyEvent(NoticeFor(budget, current.usage))
  <2>1. /\ \/ received' = received \cup {event} /\ offset' = offset + 1
           \/ UNCHANGED <<received, offset>>
        /\ UNCHANGED <<pc, stream, consumeError>>
    BY <1>3 DEF UsageProjected
  <2>2. event.id[1] = "policy" /\ event.kind = "policy"
    BY DEF PolicyEvent
  <2>3. offset \in Nat
    BY DEF IInv, Typed, TypeOK
  <2> HIDE DEF event
  <2> QED
    BY <2>1, <2>2, <2>3 DEF Ordered
<1>4. ASSUME ~StreamYields, ~Conclude, ~UsageProjected  PROVE Ordered'
  <2>1. /\ UNCHANGED <<received, offset, stream>>
        /\ consumeError' \in {consumeError, "stream", "projection"}
        /\ pc \in {"projecting", "announcing", "returned"}
             => pc' \in {"projecting", "announcing", "returned"}
    BY <1>4 DEF Next, Executor, Consumer, Environment, Finished, vars,
       SignalAborts, TimeoutFires, RuntimeReportsCause, StartSettles, StopSettles,
       FinalEventProjected, FinalTerminalProjected, FinalProjectionFails, Begin, Started, StartFailed,
       StartAborted, ConsumeSettled, ConsumeAborted, Drained, StreamEnds, StreamFails,
       IteratorReturns, ProgressProjected, PolicyProjected, TerminalHandedOver, TerminalProjected,
       ProjectionFails, EnterFinally
  <2> QED
    BY <2>1 DEF Ordered
<1> QED
  BY <1>1, <1>2, <1>3, <1>4

LEMMA InitOrdered == Init => Ordered
BY DEF Init, Ordered

(* A stream that honours the adapter contract is never rejected, though the   *)
(* coordinator files notices between its events (sequenceAfterCoordinatorEvents). *)
THEOREM NoSpuriousRejectionCorrect ==
  ASSUME Orderly
  PROVE  Spec => []NoSpuriousRejection
<1>1. Ordered => NoSpuriousRejection
  BY DEF Ordered, NoSpuriousRejection
<1>2. IInv /\ Ordered /\ [Next]_vars => Ordered'
  BY NextOrdered
<1> QED
  BY <1>1, <1>2, InitOrdered, Invariance, PTL DEF Spec
-------------------------------------------------------------------------------
(* The cost record. *)

(* Unless the projection failed, it has counted what the budget has observed, *)
(* and what it wrote at the terminal is the total of that.                    *)
CostKept ==
  /\ projection.completed <=> projection.terminals = 1
  /\ consumer = "event" /\ current.kind = "usage" => ~HasTerminal
  /\ ~projection.failed => projection.byModel = budget.byModel
  /\ ~projection.failed /\ projection.completed => projection.cost = TotalCost(budget.byModel)

(* Handing over the terminal writes the total, whoever's terminal it is. *)
LEMMA HandedOverRecords ==
  ASSUME IInv, CostKept, HandingOver, projection' = HandedOver, UNCHANGED budget,
         (consumer = "event" /\ current.kind = "usage")' => ~HasTerminal'
  PROVE  CostKept'
<1>1. projection.terminals = 0 /\ ~projection.completed
  BY DEF IInv, Decided, CostKept
<1>2. projection \in [byModel : ModelLedger, completed : BOOLEAN, cost : {projection.cost},
                      terminals : Nat, failed : BOOLEAN]
  BY DEF IInv, Typed, TypeOK
<1>3. /\ projection'.terminals = 1 /\ projection'.completed = TRUE
      /\ projection'.byModel = projection.byModel /\ projection'.failed = projection.failed
      /\ projection'.cost = TotalCost(projection.byModel)
  BY <1>1, <1>2 DEF HandedOver
<1> QED
  BY <1>3 DEF CostKept

LEMMA NextCostKept == ASSUME Orderly, IInv, Ordered, CostKept, [Next]_vars PROVE CostKept'
<1> USE DEF executor, consuming
<1>1. projection \in [byModel : ModelLedger, completed : BOOLEAN, cost : {projection.cost},
                      terminals : Nat, failed : BOOLEAN]
  BY DEF IInv, Typed, TypeOK
<1>2. CASE StreamYields
  <2>1. PICK k \in 1..MaxEvents, body \in Bodies : MayYield(k, body) /\ Yield(k, body)
    BY <1>2 DEF StreamYields
  <2> DEFINE event == Normalized(k, body)
  <2>2. consumer = "next" /\ UNCHANGED <<projection, budget>>
    BY <1>2 DEF StreamYields
  <2>3. Accepted(received, event) /\ ~HasTerminal
    BY <2>1, <2>2, YieldsAccepted, YieldsNew DEF IInv
  <2>4. received' = received \cup {event} /\ current' = event
    BY <2>1, <2>3 DEF Yield, Accepted
  <2> HIDE DEF event
  <2>5. current'.kind = "usage" => ~HasTerminal'
    BY <2>3, <2>4 DEF HasTerminal, TerminalsOf
  <2> QED
    BY <2>2, <2>5 DEF CostKept
<1>3. CASE UsageProjected
  <2>1. consumer = "event" /\ current.kind = "usage" /\ consumer' \in {"policy", "next"}
        /\ projection' = Counted(current) /\ budget' = Observe(budget, current.usage)
    BY <1>3 DEF UsageProjected
  <2>2. ~projection.completed
    BY <2>1 DEF CostKept, IInv, Decided
  <2>3. projection' = [projection EXCEPT !.byModel = Record(projection.byModel, current.usage)]
    BY <2>1, <2>2 DEF Counted
  <2>4. budget'.byModel = Record(budget.byModel, current.usage)
    BY <2>1 DEF Observe
  <2>5. /\ projection'.byModel = Record(projection.byModel, current.usage)
        /\ projection'.completed = projection.completed /\ projection'.failed = projection.failed
        /\ projection'.terminals = projection.terminals
    BY <1>1, <2>3
  <2> QED
    BY <2>1, <2>2, <2>4, <2>5 DEF CostKept
<1>4. CASE TerminalHandedOver
  <2>1. HandingOver /\ projection' = HandedOver /\ UNCHANGED budget /\ consumer' = "terminal"
    BY <1>4 DEF TerminalHandedOver, HandingOver
  <2> QED
    BY <2>1, HandedOverRecords
<1>5. CASE FinalEventProjected
  <2>1. HandingOver /\ projection' = HandedOver /\ UNCHANGED <<budget, consumer>> /\ consumer # "event"
    BY <1>5 DEF FinalEventProjected, HandingOver, IInv, Controlled, ConsumerRuns
  <2> QED
    BY <2>1, HandedOverRecords
<1>6. CASE ProjectionFails
  <2>1. /\ \E p \in {projection, Counted(current)} : projection' = [p EXCEPT !.failed = TRUE]
        /\ consumer' = "closing"
    BY <1>6 DEF ProjectionFails
  <2>2. Counted(current) = projection
        \/ Counted(current) = [projection EXCEPT !.byModel = Record(projection.byModel, current.usage)]
    BY DEF Counted
  <2>3. projection'.failed = TRUE /\ projection'.completed = projection.completed
        /\ projection'.terminals = projection.terminals
    BY <1>1, <2>1, <2>2
  <2> QED
    BY <2>1, <2>3 DEF CostKept
<1>7. CASE FinalProjectionFails
  <2>1. projection' = [projection EXCEPT !.failed = TRUE] /\ UNCHANGED <<consumer, current, received>>
    BY <1>7 DEF FinalProjectionFails
  <2>2. projection'.failed = TRUE /\ projection'.completed = projection.completed
        /\ projection'.terminals = projection.terminals
    BY <1>1, <2>1
  <2> QED
    BY <2>1, <2>2 DEF CostKept, HasTerminal
<1>8. CASE Conclude
  <2>1. consumer \notin {"event"} /\ UNCHANGED <<consumer, projection, budget>>
    BY <1>8 DEF Conclude, IInv, Controlled, ConsumerRuns
  <2> QED
    BY <2>1 DEF CostKept
<1>9. ASSUME ~StreamYields, ~UsageProjected, ~TerminalHandedOver, ~FinalEventProjected,
             ~ProjectionFails, ~FinalProjectionFails, ~Conclude
      PROVE  CostKept'
  <2>1. UNCHANGED <<received, projection, budget>> /\ (consumer' # "event" \/ UNCHANGED <<consumer, current>>)
    BY <1>9 DEF Next, Executor, Consumer, Environment, Finished, vars,
       SignalAborts, TimeoutFires, RuntimeReportsCause, StartSettles, StopSettles,
       FinalTerminalProjected, Begin, Started, StartFailed, StartAborted, ConsumeSettled,
       ConsumeAborted, Drained, StreamEnds, StreamFails, IteratorReturns, ProgressProjected,
       PolicyProjected, TerminalProjected
  <2> QED
    BY <2>1 DEF CostKept, HasTerminal
<1> QED
  BY <1>2, <1>3, <1>4, <1>5, <1>6, <1>7, <1>8, <1>9

(* The cost record carries the spend the budget was enforced on, for an       *)
(* adapter that puts its terminal last (LegacyCompatibilityProjection).       *)
THEOREM CostRecordCompleteCorrect ==
  ASSUME Orderly
  PROVE  Spec => []CostRecordComplete
<1>1. Init => CostKept
  BY DEF Init, CostKept, NewBudget
<1>2. IInv /\ Ordered /\ CostKept /\ [Next]_vars => CostKept'
  BY NextCostKept
<1>3. IInv /\ Ordered /\ [Next]_vars => Ordered'
  BY NextOrdered
<1>4. IInv /\ CostKept => CostRecordComplete
  BY DEF IInv, Decided, CostKept, HandingOver, CostRecordComplete, Controlled, ConsumerRuns
<1> QED
  BY <1>1, <1>2, <1>3, <1>4, InitOrdered, Invariance, PTL DEF Spec

(* AdapterIsHeard: an adapter in order is neither rejected nor left out of the *)
(* cost record by the notices between its events.                              *)
THEOREM AdapterHeardCorrect ==
  ASSUME Orderly
  PROVE  Spec => []AdapterIsHeard
<1>1. NoSpuriousRejection /\ CostRecordComplete => AdapterIsHeard
  BY DEF AdapterIsHeard
<1> QED
  BY <1>1, NoSpuriousRejectionCorrect, CostRecordCompleteCorrect, PTL
-------------------------------------------------------------------------------
(***************************************************************************)
(* Attempt implements AttemptContract: what executeRun and consumeEvents   *)
(* do with a runtime is, seen from outside, one outcome, announced at most *)
(* once, a released runtime and then silence.                              *)
(***************************************************************************)

(* The contract's outcome, of the set of a ledger's terminals. *)
StateOf(terminals) == IF terminals # {} THEN (CHOOSE t \in terminals : TRUE).state ELSE "none"

LEMMA StateOfOne == \A e : StateOf({e}) = e.state
BY DEF StateOf

LEMMA StateOfSome ==
  ASSUME IInv
  PROVE  HasTerminal <=> StateOf(TerminalsOf(received)) # "none"
<1>1. \A t \in TerminalsOf(received) : t.state # "none"
  BY DEF IInv, Blamed, Outcomes
<1> QED
  BY <1>1 DEF StateOf, HasTerminal

(* The contract's four variables. *)
OutcomeBar == IF HasTerminal THEN (CHOOSE t \in TerminalsOf(received) : TRUE).state ELSE "none"
AnnouncedBar == projection.terminals > 0
RuntimeBar == IF Stopped THEN "released" ELSE "held"
ReturnedBar == pc = "returned"

LEMMA OutcomeBarIs == OutcomeBar = StateOf(TerminalsOf(received))
BY DEF OutcomeBar, StateOf, HasTerminal

LEMMA OutcomeBarIsNext == OutcomeBar' = StateOf(TerminalsOf(received'))
BY DEF OutcomeBar, StateOf, HasTerminal, TerminalsOf

Unseen == UNCHANGED <<OutcomeBar, AnnouncedBar, RuntimeBar, ReturnedBar>>

(* The contract's actions, over those. *)
LEMMA ContractSteps ==
  /\ Unseen <=> UNCHANGED Contract!vars
  /\ Contract!Decide <=> /\ ~ReturnedBar /\ OutcomeBar = "none" /\ OutcomeBar' \in Outcomes
                         /\ UNCHANGED <<AnnouncedBar, RuntimeBar, ReturnedBar>>
  /\ Contract!Announce <=> /\ ~ReturnedBar /\ OutcomeBar # "none" /\ ~AnnouncedBar
                           /\ AnnouncedBar' = TRUE
                           /\ UNCHANGED <<OutcomeBar, RuntimeBar, ReturnedBar>>
  /\ Contract!Release <=> /\ ~ReturnedBar /\ RuntimeBar = "held" /\ RuntimeBar' = "released"
                          /\ UNCHANGED <<OutcomeBar, AnnouncedBar, ReturnedBar>>
  /\ Contract!Return <=> /\ ~ReturnedBar /\ OutcomeBar # "none" /\ RuntimeBar = "released"
                         /\ ReturnedBar' = TRUE
                         /\ UNCHANGED <<OutcomeBar, AnnouncedBar, RuntimeBar>>
BY DEF Unseen, OutcomeBar, AnnouncedBar, RuntimeBar, ReturnedBar, Contract!vars,
       Contract!Decide, Contract!Announce, Contract!Release, Contract!Return

(* A step that leaves the terminals, the handovers, the runtime's release and *)
(* the return alone is a stuttering step of the contract.                     *)
LEMMA QuietStep ==
  ASSUME TerminalsOf(received') = TerminalsOf(received),
         projection'.terminals = projection.terminals,
         Stopped' <=> Stopped,
         pc' = "returned" <=> pc = "returned"
  PROVE  Unseen
<1>1. OutcomeBar' = OutcomeBar
  BY OutcomeBarIs, OutcomeBarIsNext
<1> QED
  BY <1>1 DEF Unseen, AnnouncedBar, RuntimeBar, ReturnedBar

(* A terminal added to a ledger without one is the contract's decision. *)
LEMMA DecideStep ==
  ASSUME ~HasTerminal, NEW t, t.kind = "terminal", t.state \in Outcomes,
         received' = received \cup {t},
         projection'.terminals = projection.terminals,
         Stopped' <=> Stopped, pc # "returned", pc' # "returned"
  PROVE  Contract!Decide
<1>1. TerminalsOf(received) = {} /\ TerminalsOf(received') = {t}
  BY DEF HasTerminal, TerminalsOf
<1>2. OutcomeBar = "none"
  BY DEF OutcomeBar
<1>3. OutcomeBar' = t.state
  BY <1>1, OutcomeBarIsNext, StateOfOne
<1> QED
  BY <1>2, <1>3, ContractSteps DEF AnnouncedBar, RuntimeBar, ReturnedBar

(* So is the first handover the contract's announcement, *)
LEMMA AnnounceStep ==
  ASSUME IInv, HasTerminal, projection.terminals = 0, projection' = HandedOver,
         received' = received, stop' = stop, pc # "returned", pc' # "returned"
  PROVE  Contract!Announce
<1>1. projection'.terminals = 1
  BY HandedOverType DEF IInv
<1>2. OutcomeBar' = OutcomeBar /\ OutcomeBar # "none"
  BY OutcomeBarIs, OutcomeBarIsNext, StateOfSome
<1> QED
  BY <1>1, <1>2, ContractSteps DEF AnnouncedBar, RuntimeBar, ReturnedBar, Stopped

(* and an end of executeRun with a terminal in the ledger its return. *)
LEMMA ReturnStep ==
  ASSUME IInv, HasTerminal, Stopped, received' = received, stop' = stop,
         projection'.terminals = projection.terminals, pc # "returned", pc' = "returned"
  PROVE  Contract!Return
<1>1. OutcomeBar' = OutcomeBar /\ OutcomeBar # "none"
  BY OutcomeBarIs, OutcomeBarIsNext, StateOfSome
<1> QED
  BY <1>1, ContractSteps DEF AnnouncedBar, RuntimeBar, ReturnedBar, Stopped

(* Every step of an attempt is a step of its contract, or none of its         *)
(* business.                                                                  *)
LEMMA NextContract == IInv /\ [Next]_vars => Unseen \/ Contract!Next
<1> SUFFICES ASSUME IInv, [Next]_vars  PROVE Unseen \/ Contract!Next
  OBVIOUS
<1> USE DEF executor, consuming
<1>1. CASE SignalAborts
  BY <1>1, QuietStep DEF SignalAborts, Stopped
<1>2. CASE TimeoutFires
  BY <1>2, QuietStep DEF TimeoutFires, Stopped
<1>3. CASE RuntimeReportsCause
  BY <1>3, QuietStep DEF RuntimeReportsCause, IInv, Controlled, ConsumerRuns, Stopped
<1>4. CASE StartSettles
  BY <1>4, QuietStep DEF StartSettles, Stopped
<1>5. CASE StopSettles
  <2>1. stop = "pending" /\ Stopped' /\ ~Stopped
    BY <1>5 DEF StopSettles, Stopped
  <2>2. pc # "returned"
    BY <2>1 DEF IInv, Controlled
  <2>3. OutcomeBar' = OutcomeBar
    BY <1>5, OutcomeBarIs, OutcomeBarIsNext DEF StopSettles
  <2>4. Contract!Release
    BY <1>5, <2>1, <2>2, <2>3, ContractSteps
    DEF StopSettles, AnnouncedBar, RuntimeBar, ReturnedBar
  <2> QED
    BY <2>4 DEF Contract!Next
<1>6. CASE FinalEventProjected
  <2>1. HasTerminal /\ projection.terminals = 0 /\ pc # "returned"
    BY <1>6 DEF FinalEventProjected, IInv, Decided, HandingOver
  <2>2. Contract!Announce
    BY <1>6, <2>1, AnnounceStep DEF FinalEventProjected
  <2> QED
    BY <2>2 DEF Contract!Next
<1>7. CASE FinalTerminalProjected
  <2>1. HasTerminal /\ Stopped /\ pc # "returned"
    BY <1>7 DEF FinalTerminalProjected, IInv, Controlled, Decided
  <2>2. Contract!Return
    BY <1>7, <2>1, ReturnStep DEF FinalTerminalProjected
  <2> QED
    BY <2>2 DEF Contract!Next
<1>8. CASE FinalProjectionFails
  <2>1. HasTerminal /\ Stopped /\ pc # "returned"
    BY <1>8 DEF FinalProjectionFails, IInv, Controlled, Decided
  <2>2. projection'.terminals = projection.terminals
    BY <1>8 DEF FinalProjectionFails, IInv, Typed, TypeOK
  <2>3. Contract!Return
    BY <1>8, <2>1, <2>2, ReturnStep DEF FinalProjectionFails
  <2> QED
    BY <2>3 DEF Contract!Next
<1>9. CASE Begin
  BY <1>9, QuietStep DEF Begin, EnterFinally, StopRuntime, Stopped
<1>10. CASE Started
  BY <1>10, QuietStep DEF Started, Stopped
<1>11. CASE StartFailed
  BY <1>11, QuietStep DEF StartFailed, EnterFinally, StopRuntime, Stopped
<1>12. CASE StartAborted
  BY <1>12, QuietStep DEF StartAborted, EnterFinally, StopRuntime, Stopped
<1>13. CASE ConsumeSettled
  BY <1>13, QuietStep DEF ConsumeSettled, EnterFinally, StopRuntime, Stopped
<1>14. CASE ConsumeAborted
  BY <1>14, QuietStep DEF ConsumeAborted, StopRuntime, Stopped
<1>15. CASE Drained
  BY <1>15, QuietStep DEF Drained, EnterFinally, StopRuntime, Stopped
<1>16. CASE Conclude
  <2>1. pc = "stopping" /\ Stopped /\ UNCHANGED <<projection, stop>>
    BY <1>16 DEF Conclude
  <2>2. CASE HasTerminal
    <3>1. Contract!Return
      BY <1>16, <2>1, <2>2, ReturnStep DEF Conclude
    <3> QED
      BY <3>1 DEF Contract!Next
  <2>3. CASE ~HasTerminal
    <3>1. received' = received \cup {CoordinatorTerminal} /\ pc' = "projecting"
      BY <1>16, <2>3 DEF Conclude
    <3>2. CoordinatorTerminal.kind = "terminal" /\ CoordinatorTerminal.state \in Outcomes
      BY TerminalStateType DEF CoordinatorTerminal
    <3>3. Contract!Decide
      BY <2>1, <2>3, <3>1, <3>2, DecideStep DEF Stopped
    <3> QED
      BY <3>3 DEF Contract!Next
  <2> QED
    BY <2>2, <2>3
<1>17. CASE StreamYields
  <2>1. PICK k \in 1..MaxEvents, body \in Bodies : MayYield(k, body) /\ Yield(k, body)
    BY <1>17 DEF StreamYields
  <2> DEFINE event == Normalized(k, body)
  <2>2. /\ pc # "returned" /\ pc' = pc /\ stop' = stop
        /\ projection' = projection
    BY <1>17 DEF StreamYields, IInv, Controlled, ConsumerRuns
  <2>3. CASE received' = received
    BY <2>2, <2>3, QuietStep DEF Stopped
  <2>4. CASE Accepted(received, event) /\ received' = received \cup {event}
    <3>1. CASE event.kind # "terminal"
      <4>1. TerminalsOf(received') = TerminalsOf(received)
        BY <2>4, <3>1 DEF TerminalsOf
      <4> QED
        BY <2>2, <4>1, QuietStep DEF Stopped
    <3>2. CASE event.kind = "terminal"
      <4>1. ~HasTerminal
        BY <2>4, <3>2, AcceptedIsDistinct DEF IInv, Decided, HasTerminal
      <4>2. body.kind = "terminal" => body.state \in Outcomes
        BY AttemptAssumption DEF Body, RuntimeOutcomes, Outcomes, NoUsage
      <4>3. event.state \in Outcomes
        BY <3>2, <4>2, TerminalStateType DEF Normalized, BlamesAbort
      <4> HIDE DEF event
      <4>4. Contract!Decide
        BY <2>2, <2>4, <3>2, <4>1, <4>3, DecideStep DEF Stopped
      <4> QED
        BY <4>4 DEF Contract!Next
    <3> QED
      BY <3>1, <3>2
  <2> QED
    BY <2>1, <2>3, <2>4 DEF Yield
<1>18. CASE StreamEnds
  BY <1>18, QuietStep DEF StreamEnds, IInv, Controlled, ConsumerRuns, Stopped
<1>19. CASE StreamFails
  BY <1>19, QuietStep DEF StreamFails, IInv, Controlled, ConsumerRuns, Stopped
<1>20. CASE IteratorReturns
  BY <1>20, QuietStep DEF IteratorReturns, IInv, Controlled, ConsumerRuns, Stopped
<1>21. CASE ProgressProjected
  BY <1>21, QuietStep DEF ProgressProjected, IInv, Controlled, ConsumerRuns, Stopped
<1>22. CASE UsageProjected
  <2> DEFINE event == PolicyEvent(NoticeFor(budget, current.usage))
  <2>1. /\ pc # "returned" /\ pc' = pc /\ stop' = stop
        /\ projection'.terminals = projection.terminals
    BY <1>22 DEF UsageProjected, Counted, IInv, Typed, TypeOK, Controlled, ConsumerRuns
  <2>2. received' \in {received, received \cup {event}}
    BY <1>22 DEF UsageProjected
  <2>3. event.kind # "terminal"
    BY DEF PolicyEvent
  <2>4. TerminalsOf(received') = TerminalsOf(received)
    BY <2>2, <2>3 DEF TerminalsOf
  <2> QED
    BY <2>1, <2>4, QuietStep DEF Stopped
<1>23. CASE PolicyProjected
  BY <1>23, QuietStep DEF PolicyProjected, IInv, Controlled, ConsumerRuns, Stopped
<1>24. CASE TerminalHandedOver
  <2>1. current \in TerminalsOf(received)
    BY <1>24 DEF TerminalHandedOver, TerminalsOf, IInv, Decided
  <2>2. HasTerminal /\ projection.terminals = 0 /\ pc # "returned"
    BY <1>24, <2>1 DEF TerminalHandedOver, IInv, Decided, HandingOver, HasTerminal, Controlled,
                    ConsumerRuns
  <2>3. Contract!Announce
    BY <1>24, <2>2, AnnounceStep DEF TerminalHandedOver
  <2> QED
    BY <2>3 DEF Contract!Next
<1>25. CASE TerminalProjected
  BY <1>25, QuietStep DEF TerminalProjected, IInv, Controlled, ConsumerRuns, Stopped
<1>26. CASE ProjectionFails
  <2>1. projection'.terminals = projection.terminals
    BY <1>26 DEF ProjectionFails, Counted, IInv, Typed, TypeOK
  <2> QED
    BY <1>26, <2>1, QuietStep DEF ProjectionFails, IInv, Controlled, ConsumerRuns, Stopped
<1>27. CASE Finished
  BY <1>27, QuietStep DEF Finished, vars, Stopped
<1>28. CASE UNCHANGED vars
  BY <1>28, QuietStep DEF vars, Stopped
<1> QED
  BY <1>1, <1>2, <1>3, <1>4, <1>5, <1>6, <1>7, <1>8, <1>9, <1>10, <1>11, <1>12, <1>13, <1>14,
     <1>15, <1>16, <1>17, <1>18, <1>19, <1>20, <1>21, <1>22, <1>23, <1>24, <1>25, <1>26, <1>27, <1>28
  DEF Next, Executor, Consumer, Environment

(* The attempt implements the contract of AttemptContract: one outcome, never *)
(* changed and announced at most once, the runtime released before the        *)
(* return, and nothing after it.                                              *)
THEOREM ContractImplemented == Spec => ContractSpec
<1>1. Init => Contract!Init
  BY DEF Init, Contract!Init, HasTerminal, TerminalsOf, Stopped
<1>2. IInv /\ [Next]_vars => [Contract!Next]_(Contract!vars)
  BY NextContract, ContractSteps
<1> QED
  BY <1>1, <1>2, Invariance, PTL DEF Spec, ContractSpec, Contract!Spec
-------------------------------------------------------------------------------
(* The query of the Claude adapter by where the stream is: none before it is   *)
(* made, a live one while its messages are read and the loop is left.  A run   *)
(* that was stopped while it was active has its controller aborted, so that a  *)
(* query made later is stillborn, and has none that is open.                   *)
Places == {"new", "ready", "query", "suspended", "reading", "closing", "abandoned", "over"}

QueryByPlace ==
  /\ place \in Places /\ after \in Places
  /\ place \in {"new", "ready", "query"} => query = "none"
  /\ place = "suspended" /\ after = "query" => query = "none"
  /\ place = "suspended" => after \in {"query", "reading", "closing", "over"}
  /\ place = "reading" => query \in {"open", "closed", "aborted"}
  /\ place = "suspended" /\ after \in {"reading", "closing"} => query \in {"open", "closed"}
  /\ place \in {"closing", "abandoned"} => query \in {"open", "closed"}
  /\ place = "over" => query \in {"none", "closed"}

StopReached ==
  stopped => query # "open" /\ (Active => controller)

QueryInv == QueryByPlace /\ StopReached

(* The two outcomes of a yield. *)
LEMMA YieldsEither ==
  ASSUME NEW events, NEW then, Yields(events, then)
  PROVE  \/ place' = then /\ after' = then /\ query' = Closed(then)
         \/ place' = "suspended" /\ after' = then /\ query' = query /\ events # <<>>
BY DEF Yields

LEMMA QueryStep == QueryInv /\ [ClaudeNext]_claudeVars => QueryInv'
<1> SUFFICES ASSUME QueryInv, [ClaudeNext]_claudeVars  PROVE QueryInv'
  OBVIOUS
<1> USE DEF QueryInv, QueryByPlace, StopReached, Places, Active, Closed, aborts
<1>1. CASE StartCalled
  BY <1>1 DEF StartCalled
<1>2. CASE RunBegins
  <2>1. CASE stopped
    BY <1>2, <2>1, YieldsEither DEF RunBegins
  <2>2. CASE ~stopped
    BY <1>2, <2>2, YieldsEither DEF RunBegins
  <2> QED
    BY <2>1, <2>2
<1>3. CASE Resumed
  <2>1. Yields(todo, after) \/ Yields(<<>>, after)
    BY <1>3 DEF Resumed
  <2>2. \/ place' = after /\ after' = after /\ query' = Closed(after)
        \/ place' = "suspended" /\ after' = after /\ query' = query
    BY <2>1, YieldsEither
  <2> QED
    BY <1>3, <2>2 DEF Resumed
<1>4. CASE QueryMade
  <2>1. CASE Yields(<<Terminal("failed")>>, "over")
    BY <1>4, <2>1, YieldsEither DEF QueryMade
  <2>2. CASE ~ Yields(<<Terminal("failed")>>, "over")
    BY <1>4, <2>2 DEF QueryMade
  <2> QED
    BY <2>1, <2>2
<1>5. CASE AssistantSpeaks
  <2>1. PICK parts \in 0..1 : Yields([i \in 1..parts |-> Progress], "reading")
    BY <1>5 DEF AssistantSpeaks
  <2> QED
    BY <1>5, <2>1, YieldsEither DEF AssistantSpeaks
<1>6. CASE SystemSpeaks
  BY <1>6, YieldsEither DEF SystemSpeaks
<1>7. CASE ResultArrives
  <2>1. PICK r : Yields(ResultEvents(r), "closing")
    BY <1>7 DEF ResultArrives
  <2> QED
    BY <1>7, <2>1, YieldsEither DEF ResultArrives
<1>8. CASE QueryEnds
  BY <1>8, YieldsEither DEF QueryEnds
<1>9. CASE IteratorCloses
  BY <1>9, YieldsEither DEF IteratorCloses
<1>10. CASE ClosingFails
  <2>1. \/ place' = "abandoned" /\ UNCHANGED <<after, query>>
        \/ \E events : Yields(events, "over")
    BY <1>10 DEF ClosingFails
  <2> QED
    BY <1>10, <2>1, YieldsEither DEF ClosingFails
<1>11. CASE ConsumerLeaves
  BY <1>11 DEF ConsumerLeaves
<1>12. CASE SignalAborted
  BY <1>12 DEF SignalAborted, Follows, generator
<1>13. CASE Stop
  BY <1>13 DEF Stop, StopCloses, generator
<1>14. CASE Over \/ UNCHANGED claudeVars
  BY <1>14 DEF Over, claudeVars, generator
<1> QED
  BY <1>1, <1>2, <1>3, <1>4, <1>5, <1>6, <1>7, <1>8, <1>9, <1>10, <1>11, <1>12, <1>13, <1>14 DEF ClaudeNext

(* When nobody reads the stream any more and stop() was called, the query of   *)
(* the SDK is closed, wherever the two met.                                    *)
THEOREM QueryClosed == ClaudeSpec => []NoQueryLeft
<1>1. ClaudeInit => QueryInv
  BY DEF ClaudeInit, QueryInv, QueryByPlace, StopReached, Places, Active
<1>2. QueryInv => NoQueryLeft
  BY DEF QueryInv, QueryByPlace, StopReached, NoQueryLeft
<1> QED
  BY <1>1, <1>2, QueryStep, PTL DEF ClaudeSpec
-------------------------------------------------------------------------------
(* The sequence of a finite set's elements has them and no others. *)
LEMMA SeqOfSet ==
  ASSUME NEW S, IsFiniteSet(S)
  PROVE  /\ SetToSeq(S) \in Seq(S)
         /\ \A x \in S : \E i \in DOMAIN SetToSeq(S) : SetToSeq(S)[i] = x
<1> DEFINE n == Cardinality(S)
<1>1. n \in Nat /\ ExistsBijection(1..n, S)
  BY FS_CardinalityType
<1>2. PICK g : g \in [1..n -> S] /\ IsInjective(g)
  BY <1>1 DEF ExistsBijection, Bijection, Injection
<1>3. SetToSeq(S) \in [1..n -> S] /\ IsInjective(SetToSeq(S))
  BY <1>2 DEF SetToSeq
<1> HIDE DEF n
<1>4. SetToSeq(S) \in Injection(1..n, S)
  BY <1>3 DEF Injection
<1>5. IsFiniteSet(1..n) /\ Cardinality(1..n) = n
  BY <1>1, FS_Interval
<1>6. SetToSeq(S) \in Surjection(1..n, S)
  BY <1>4, <1>5, FS_Injection DEF n
<1>7. SetToSeq(S) \in Seq(S)
  BY <1>1, <1>3
<1> QED
  BY <1>6, <1>7 DEF Surjection

(* A set with an element for each of some models is finite. *)
LEMMA OneByModel ==
  ASSUME NEW K, K \subseteq Models, NEW f, DOMAIN f = K
  PROVE  IsFiniteSet({f[m] : m \in K})
<1> DEFINE S == {f[m] : m \in K}
           g == [m \in K |-> f[m]]
<1>1. IsFiniteSet(K)
  BY FS_Subset, ClaudeAssumption
<1>2. g \in Surjection(K, S)
  BY DEF Surjection
<1>3. IsFiniteSet(S)
  <2> HIDE DEF S, g
  <2> QED
    BY <1>1, <1>2, FS_Surjection
<1> QED
  BY <1>3
-------------------------------------------------------------------------------
(* What AssistantUsage keeps: for each response the last that was said of it. *)
Message == [model : Models, id : Responses \cup {None}, tokens : Nat]

Anonymous(h, n) == {j \in 1..n : h[j].id = None}

UsageKept ==
  /\ heard \in Seq(Message)
  /\ usage.anonymous = Cardinality(Anonymous(heard, Len(heard)))
  /\ DOMAIN usage.tokens = {Response(heard, i) : i \in DOMAIN heard}
  /\ \A k \in DOMAIN usage.tokens : \E i \in DOMAIN heard :
       /\ Response(heard, i) = k
       /\ \A j \in DOMAIN heard : Response(heard, j) = k => j <= i
       /\ usage.tokens[k] = heard[i].tokens

(* A further message changes nothing about the earlier ones. *)
LEMMA EarlierResponses ==
  ASSUME NEW h \in Seq(Message), NEW e \in Message, NEW i \in 1..Len(h)
  PROVE  Append(h, e)[i] = h[i] /\ Response(Append(h, e), i) = Response(h, i)
<1> DEFINE g == Append(h, e)
<1>1. \A j \in 1..i : g[j] = h[j]
  OBVIOUS
<1> HIDE DEF g
<1>2. {j \in 1..i : g[j].id = None} = {j \in 1..i : h[j].id = None}
  BY <1>1
<1>3. g[i] = h[i]
  BY <1>1
<1> QED
  BY <1>2, <1>3 DEF Response, g

(* The anonymous messages are numbered by the counter. *)
LEMMA NextResponse ==
  ASSUME NEW h \in Seq(Message), NEW e \in Message
  PROVE  LET more == Cardinality(Anonymous(h, Len(h))) + IF e.id = None THEN 1 ELSE 0
         IN  /\ Cardinality(Anonymous(Append(h, e), Len(h) + 1)) = more
             /\ Response(Append(h, e), Len(h) + 1) = <<e.model, e.id, IF e.id = None THEN more ELSE 0>>
<1> DEFINE n == Len(h)
           g == Append(h, e)
<1>1. n \in Nat /\ g[n + 1] = e /\ \A j \in 1..n : g[j] = h[j]
  OBVIOUS
<1> HIDE DEF n, g
<1>2. Anonymous(h, n) \subseteq 1..n /\ IsFiniteSet(Anonymous(h, n)) /\ Cardinality(Anonymous(h, n)) \in Nat
  <2>1. IsFiniteSet(1..n)
    BY <1>1, FS_Interval
  <2>2. Anonymous(h, n) \in SUBSET (1..n)
    BY DEF Anonymous
  <2> QED
    BY <2>1, <2>2, FS_Subset, FS_CardinalityType
<1>3. CASE e.id = None
  <2>1. Anonymous(g, n + 1) = Anonymous(h, n) \cup {n + 1}
    BY <1>1, <1>3 DEF Anonymous
  <2>2. n + 1 \notin Anonymous(h, n)
    BY <1>1 DEF Anonymous
  <2>3. Cardinality(Anonymous(g, n + 1)) = Cardinality(Anonymous(h, n)) + 1
    BY <1>2, <2>1, <2>2, FS_AddElement
  <2> QED
    BY <1>1, <1>3, <2>3 DEF Response, Anonymous, n, g
<1>4. CASE e.id # None
  <2>1. Anonymous(g, n + 1) = Anonymous(h, n)
    BY <1>1, <1>4 DEF Anonymous
  <2> QED
    BY <1>1, <1>2, <1>4, <2>1 DEF Response, n, g
<1> QED
  BY <1>3, <1>4

LEMMA UsageStep == UsageKept /\ [ClaudeNext]_claudeVars => UsageKept'
<1> SUFFICES ASSUME UsageKept, [ClaudeNext]_claudeVars  PROVE UsageKept'
  OBVIOUS
<1>1. CASE AssistantSpeaks
  <2>1. PICK m \in Models, id \in Responses \cup {None}, tokens \in 1..MaxTokens :
          /\ usage' = Recorded(usage, m, id, tokens)
          /\ heard' = Append(heard, [model |-> m, id |-> id, tokens |-> tokens])
    BY <1>1 DEF AssistantSpeaks
  <2> DEFINE e == [model |-> m, id |-> id, tokens |-> tokens]
             n == Len(heard)
             key == Response(heard', n + 1)
  <2>2. e \in Message /\ e.model = m /\ e.id = id /\ e.tokens = tokens
    BY ClaudeAssumption DEF Message
  <2>3. heard \in Seq(Message) /\ n \in Nat
    BY DEF UsageKept
  <2> HIDE DEF e
  <2>4. heard' = Append(heard, e)
    BY <2>1 DEF e
  <2>5. /\ heard' \in Seq(Message) /\ Len(heard') = n + 1 /\ DOMAIN heard' = 1..(n + 1)
        /\ DOMAIN heard = 1..n /\ heard'[n + 1] = e
    BY <2>2, <2>3, <2>4
  <2>6. \A i \in 1..n : heard'[i] = heard[i] /\ Response(heard', i) = Response(heard, i)
    BY <2>2, <2>3, <2>4, EarlierResponses
  <2>7. /\ usage.anonymous + (IF id = None THEN 1 ELSE 0) = Cardinality(Anonymous(heard', n + 1))
        /\ key = <<m, id, IF id = None THEN usage.anonymous + 1 ELSE 0>>
    BY <2>2, <2>3, <2>4, NextResponse DEF UsageKept
  <2> HIDE DEF key
  <2>8. /\ usage'.anonymous = Cardinality(Anonymous(heard', n + 1))
        /\ usage'.tokens = [k \in DOMAIN usage.tokens \cup {key} |->
                              IF k = key THEN tokens ELSE usage.tokens[k]]
    <3>1. CASE id = None
      BY <2>1, <2>7, <3>1 DEF Recorded
    <3>2. CASE id # None
      BY <2>1, <2>7, <3>2 DEF Recorded
    <3> QED
      BY <3>1, <3>2
  <2>9. DOMAIN usage'.tokens = {Response(heard', i) : i \in DOMAIN heard'}
    <3>1. DOMAIN usage'.tokens = {Response(heard, i) : i \in 1..n} \cup {key}
      BY <2>5, <2>8 DEF UsageKept
    <3>2. {Response(heard, i) : i \in 1..n} = {Response(heard', i) : i \in 1..n}
      BY <2>6
    <3>3. 1..(n + 1) = 1..n \cup {n + 1}
      BY <2>3
    <3> HIDE DEF n
    <3> QED
      BY <2>5, <3>1, <3>2, <3>3 DEF key
  <2>10. ASSUME NEW k \in DOMAIN usage'.tokens
         PROVE  \E i \in DOMAIN heard' :
                  /\ Response(heard', i) = k
                  /\ \A j \in DOMAIN heard' : Response(heard', j) = k => j <= i
                  /\ usage'.tokens[k] = heard'[i].tokens
    <3>1. CASE k = key
      <4>1. usage'.tokens[k] = tokens
        BY <2>8, <3>1
      <4>2. n + 1 \in DOMAIN heard' /\ \A j \in DOMAIN heard' : j <= n + 1
        BY <2>3, <2>5
      <4> QED
        BY <2>2, <2>5, <3>1, <4>1, <4>2 DEF key
    <3>2. CASE k # key
      <4>1. k \in DOMAIN usage.tokens /\ usage'.tokens[k] = usage.tokens[k]
        BY <2>8, <3>2
      <4>2. PICK i \in 1..n : /\ Response(heard, i) = k
                              /\ \A j \in 1..n : Response(heard, j) = k => j <= i
                              /\ usage.tokens[k] = heard[i].tokens
        BY <2>5, <4>1 DEF UsageKept
      <4>3. ASSUME NEW j \in 1..(n + 1), Response(heard', j) = k  PROVE j <= i
        <5>1. j # n + 1
          BY <3>2, <4>3 DEF key
        <5>2. j \in 1..n
          BY <2>3, <5>1
        <5> QED
          BY <2>6, <4>2, <4>3, <5>2
      <4>4. i \in 1..(n + 1) /\ Response(heard', i) = k /\ usage'.tokens[k] = heard'[i].tokens
        BY <2>3, <2>6, <4>1, <4>2
      <4> QED
        BY <2>5, <4>3, <4>4
    <3> QED
      BY <3>1, <3>2
  <2> QED
    BY <2>5, <2>8, <2>9, <2>10 DEF UsageKept
<1>2. CASE ~ AssistantSpeaks
  <2>1. UNCHANGED <<usage, heard>>
    BY <1>2 DEF ClaudeNext, StartCalled, RunBegins, Resumed, QueryMade, SystemSpeaks, ResultArrives,
         QueryEnds, IteratorCloses, ClosingFails, ConsumerLeaves, SignalAborted, Stop, Over, said, claudeVars
  <2> QED
    BY <2>1 DEF UsageKept
<1> QED
  BY <1>1, <1>2
-------------------------------------------------------------------------------
(* What the adapter says of the usage, against what it owes.                  *)
EndState(r) == IF r.ok THEN "completed" ELSE "failed"

IsList(events) == \E T : events \in Seq(T)

OwedEvent(h, r, e) == e.kind = "usage" /\ e.usage.model \in Models /\ e.usage = Owed(h, r, e.usage.model)

(* Some events say all that is owed. *)
Complete(h, r, events) ==
  /\ IsList(events)
  /\ \A i \in DOMAIN events : OwedEvent(h, r, events[i])
  /\ \A m \in Models : Owed(h, r, m) = NoUsage \/ \E i \in DOMAIN events : events[i].usage = Owed(h, r, m)

(* An entry of the ledger names its model, and so does what is owed for one. *)
LEMMA OwedNames ==
  ASSUME NEW h, NEW r, NEW m \in Models, Owed(h, r, m) # NoUsage
  PROVE  Owed(h, r, m).model = m
BY DEF Owed, UsageOf

(* A set of events, one for each model that has any. *)
LEMMA CompleteByModel ==
  ASSUME NEW h, NEW r, NEW K, K \subseteq Models, NEW f, DOMAIN f = K,
         \A m \in K : f[m].kind = "usage" /\ f[m].usage.model = m /\ f[m].usage = Owed(h, r, m),
         \A m \in Models \ K : Owed(h, r, m) = NoUsage
  PROVE  Complete(h, r, SetToSeq({f[m] : m \in K}))
<1> DEFINE S == {f[m] : m \in K}
           told == SetToSeq(S)
<1>1. told \in Seq(S) /\ \A m \in K : \E i \in DOMAIN told : told[i] = f[m]
  <2>1. IsFiniteSet(S)
    BY OneByModel
  <2>2. \A m \in K : f[m] \in S
    OBVIOUS
  <2> HIDE DEF S
  <2> QED
    BY <2>1, <2>2, SeqOfSet
<1>2. \A e \in S : OwedEvent(h, r, e)
  BY DEF OwedEvent
<1>3. \A m \in K : f[m].usage = Owed(h, r, m)
  OBVIOUS
<1> HIDE DEF S, told
<1>4. \A i \in DOMAIN told : told[i] \in S
  BY <1>1
<1>5. IsList(told)
  BY <1>1 DEF IsList
<1>6. \A m \in Models : Owed(h, r, m) = NoUsage \/ \E i \in DOMAIN told : told[i].usage = Owed(h, r, m)
  BY <1>1, <1>3
<1>7. Complete(h, r, told)
  BY <1>2, <1>4, <1>5, <1>6 DEF Complete
<1> QED
  BY <1>7 DEF told, S

(* What the adapter remembers of a response is the last that was said of it. *)
LEMMA LastKept ==
  ASSUME UsageKept, NEW k \in DOMAIN usage.tokens
  PROVE  usage.tokens[k] = heard[LastOf(heard, k)].tokens
<1> DEFINE Latest(i) == Response(heard, i) = k /\ \A j \in DOMAIN heard : Response(heard, j) = k => j <= i
<1>1. PICK i \in DOMAIN heard : Latest(i) /\ usage.tokens[k] = heard[i].tokens
  BY DEF UsageKept
<1>2. LastOf(heard, k) \in DOMAIN heard /\ Latest(LastOf(heard, k))
  <2>1. LastOf(heard, k) = CHOOSE j \in DOMAIN heard : Latest(j)
    BY DEF LastOf
  <2> HIDE DEF Latest
  <2> QED
    BY <1>1, <2>1
<1>3. DOMAIN heard \subseteq Nat
  BY DEF UsageKept
<1>4. LastOf(heard, k) <= i /\ i <= LastOf(heard, k)
  BY <1>1, <1>2
<1>5. LastOf(heard, k) = i
  BY <1>1, <1>2, <1>3, <1>4
<1> QED
  BY <1>1, <1>5

(* AssistantUsage.snapshots, when the SDK has no account of its own. *)
LEMMA SnapshotsComplete ==
  ASSUME UsageKept, NEW r, r.form \in {"pending", "none"}
  PROVE  Complete(heard, r, Snapshots(r.form # "pending"))
<1> DEFINE known == {k[1] : k \in DOMAIN usage.tokens}
           mine(m) == {k \in DOMAIN usage.tokens : k[1] = m}
           responses(m) == {Response(heard, i) : i \in {j \in DOMAIN heard : heard[j].model = m}}
           amount(m) == Total([k \in mine(m) |-> usage.tokens[k]])
           f == [m \in known |-> UsageOf(m, amount(m), "absent", r.form # "pending")]
<1>1. \A i \in DOMAIN heard : Response(heard, i)[1] = heard[i].model /\ heard[i].model \in Models
  <2>1. \A i \in DOMAIN heard : heard[i] \in Message
    BY DEF UsageKept
  <2>2. \A e \in Message : e.model \in Models
    BY DEF Message
  <2> QED
    BY <2>1, <2>2 DEF Response
<1>2. known \subseteq Models
  BY <1>1 DEF UsageKept
<1>3. ASSUME NEW m \in Models  PROVE mine(m) = responses(m)
  BY <1>1 DEF UsageKept
<1>4. ASSUME NEW m \in Models
      PROVE  [k \in mine(m) |-> usage.tokens[k]] = [k \in responses(m) |-> heard[LastOf(heard, k)].tokens]
  BY <1>3, LastKept
<1>5. ASSUME NEW m \in Models
      PROVE  Owed(heard, r, m) =
               IF responses(m) = {} THEN NoUsage
               ELSE UsageOf(m, Total([k \in responses(m) |-> heard[LastOf(heard, k)].tokens]), "absent",
                            r.form # "pending").usage
  BY DEF Owed
<1>6. ASSUME NEW m \in Models
      PROVE  Owed(heard, r, m) =
               IF mine(m) = {} THEN NoUsage ELSE UsageOf(m, amount(m), "absent", r.form # "pending").usage
  BY <1>3, <1>4, <1>5
<1>7. \A m \in Models : m \in known <=> mine(m) # {}
  OBVIOUS
<1>8. \A m \in Models \ known : Owed(heard, r, m) = NoUsage
  BY <1>6, <1>7
<1>9. \A m \in known : f[m].usage = Owed(heard, r, m)
  BY <1>2, <1>6, <1>7
<1>10. \A m \in known : f[m].kind = "usage" /\ f[m].usage.model = m
  BY DEF UsageOf
<1>11. Snapshots(r.form # "pending") = SetToSeq({f[m] : m \in known})
  <2>1. {f[m] : m \in known} = {UsageOf(m, amount(m), "absent", r.form # "pending") : m \in known}
    OBVIOUS
  <2> QED
    BY <2>1 DEF Snapshots
<1>12. DOMAIN f = known
  OBVIOUS
<1> HIDE DEF f, known
<1> QED
  BY <1>2, <1>8, <1>9, <1>10, <1>11, <1>12, CompleteByModel

(* collectResultUsage. *)
LEMMA ResultComplete ==
  ASSUME UsageKept, NEW r \in [ok : BOOLEAN, form : {"models", "total", "none"}, bill : [Models -> 0..1]],
         r.form = "models" => \E m \in Models : r.bill[m] > 0
  PROVE  Complete(heard, r, ResultUsage(r))
<1>1. CASE r.form = "models"
  <2> DEFINE K == {n \in Models : r.bill[n] > 0}
             f == [m \in K |-> UsageOf(m, r.bill[m], "known", TRUE)]
  <2>1. K # {} /\ K \subseteq Models /\ DOMAIN f = K
    BY <1>1
  <2>2. \A m \in K : f[m].kind = "usage" /\ f[m].usage.model = m /\ f[m].usage = Owed(heard, r, m)
    BY <1>1 DEF Owed, UsageOf
  <2>3. \A m \in Models \ K : Owed(heard, r, m) = NoUsage
    BY <1>1, <2>1 DEF Owed
  <2>4. ResultUsage(r) = SetToSeq({f[m] : m \in K})
    <3>1. {f[m] : m \in K} = {UsageOf(m, r.bill[m], "known", TRUE) : m \in K}
      OBVIOUS
    <3> QED
      BY <1>1, <3>1 DEF ResultUsage
  <2> HIDE DEF K, f
  <2> QED
    BY <2>1, <2>2, <2>3, <2>4, CompleteByModel
<1>2. CASE r.form = "total"
  <2> DEFINE e == UsageOf(Requested, Total(r.bill), "known", TRUE)
  <2>1. ResultUsage(r) = <<e>>
    BY <1>2 DEF ResultUsage
  <2>2. e.kind = "usage" /\ e.usage.model = Requested /\ e.usage = Owed(heard, r, Requested)
    BY <1>2, ClaudeAssumption DEF Owed, UsageOf
  <2>3. \A m \in Models : m # Requested => Owed(heard, r, m) = NoUsage
    BY <1>2 DEF Owed
  <2> HIDE DEF e
  <2>4. IsList(<<e>>)
    <3>1. <<e>> \in Seq({e})
      OBVIOUS
    <3> QED
      BY <3>1 DEF IsList
  <2>5. DOMAIN <<e>> = {1} /\ <<e>>[1] = e
    OBVIOUS
  <2> QED
    BY <2>1, <2>2, <2>3, <2>4, <2>5, ClaudeAssumption DEF Complete, OwedEvent
<1>3. CASE r.form = "none"
  <2>1. Complete(heard, r, Snapshots(r.form # "pending"))
    BY <1>3, SnapshotsComplete
  <2>2. (r.form # "pending") = TRUE
    BY <1>3
  <2>3. ResultUsage(r) = Snapshots(TRUE)
    BY <1>3 DEF ResultUsage
  <2> QED
    BY <2>1, <2>2, <2>3
<1> QED
  BY <1>1, <1>2, <1>3

(* Lists of whatever elements: the tail of one, and one with a last element. *)
LEMMA ListTail ==
  ASSUME NEW E, IsList(E), E # <<>>
  PROVE  /\ Len(E) \in Nat \ {0} /\ DOMAIN E = 1..Len(E) /\ Head(E) = E[1]
         /\ IsList(Tail(E)) /\ Len(Tail(E)) = Len(E) - 1
         /\ \A i \in 1..(Len(E) - 1) : Tail(E)[i] = E[i + 1]
<1>1. PICK T : E \in Seq(T)
  BY DEF IsList
<1>2. Tail(E) \in Seq(T)
  BY <1>1
<1> QED
  BY <1>1, <1>2 DEF IsList

LEMMA ListThen ==
  ASSUME NEW E, IsList(E), NEW e
  PROVE  /\ IsList(E \o <<e>>) /\ Len(E) \in Nat /\ DOMAIN E = 1..Len(E)
         /\ Len(E \o <<e>>) = Len(E) + 1 /\ (E \o <<e>>)[Len(E) + 1] = e
         /\ \A i \in 1..Len(E) : (E \o <<e>>)[i] = E[i]
<1>1. PICK T : E \in Seq(T)
  BY DEF IsList
<1> DEFINE U == T \cup {e}
<1>2. E \in Seq(U) /\ <<e>> \in Seq(U)
  BY <1>1
<1> HIDE DEF U
<1>3. E \o <<e>> \in Seq(U)
  BY <1>2
<1> QED
  BY <1>2, <1>3 DEF IsList
-------------------------------------------------------------------------------
(* The ledger holds what is owed, and the stream has its terminal. *)
Settled(h, r, a) ==
  a.terminal = EndState(r) /\ \A m \in Models : a.byModel[m] = Owed(h, r, m)

(* Only usage is still to be told, which the coordinator drops. *)
Told(h, r, a, events) ==
  IsList(events) /\ (\A i \in DOMAIN events : events[i].kind = "usage") /\ Settled(h, r, a)

(* What the ledger lacks is still to be told, and then the terminal. *)
Telling(h, r, a, events) ==
  /\ IsList(events) /\ events # <<>>
  /\ events[Len(events)] = Terminal(EndState(r))
  /\ \A i \in 1..(Len(events) - 1) : OwedEvent(h, r, events[i])
  /\ a.terminal = "none"
  /\ \A m \in Models :
       \/ a.byModel[m] = Owed(h, r, m)
       \/ a.byModel[m] = NoUsage /\ \E i \in 1..(Len(events) - 1) : events[i].usage = Owed(h, r, m)

AccountShaped ==
  /\ accepted = [terminal |-> accepted.terminal, byModel |-> accepted.byModel]
  /\ DOMAIN accepted.byModel = Models

LEMMA TellingStarts ==
  ASSUME NEW h, NEW r, NEW events, Complete(h, r, events),
         accepted.terminal = "none", accepted.byModel = EmptyLedger
  PROVE  Telling(h, r, accepted, events \o <<Terminal(EndState(r))>>)
<1> DEFINE e == Terminal(EndState(r))
           all == events \o <<e>>
<1>1. IsList(events)
  BY DEF Complete
<1> HIDE DEF e
<1>2. /\ IsList(all) /\ Len(events) \in Nat /\ DOMAIN events = 1..Len(events)
      /\ Len(all) = Len(events) + 1 /\ all[Len(events) + 1] = e
      /\ \A i \in 1..Len(events) : all[i] = events[i]
  BY <1>1, ListThen
<1> HIDE DEF all
<1>3. all # <<>> /\ Len(all) - 1 = Len(events)
  BY <1>2
<1>4. \A m \in Models : accepted.byModel[m] = NoUsage
  BY DEF EmptyLedger
<1>5. Telling(h, r, accepted, all)
  BY <1>2, <1>3, <1>4 DEF Telling, Complete, e
<1> QED
  BY <1>5 DEF all, e

(* An event that is told brings the ledger nearer to what is owed. *)
LEMMA Tells ==
  ASSUME AccountShaped, NEW h, NEW r, NEW events, Telling(h, r, accepted, events),
         accepted' = Taken(Head(events))
  PROVE  /\ AccountShaped'
         /\ Telling(h, r, accepted', Tail(events)) \/ Told(h, r, accepted', Tail(events))
<1> DEFINE n == Len(events)
           rest == Tail(events)
<1>1. /\ n \in Nat \ {0} /\ Head(events) = events[1]
      /\ IsList(rest) /\ Len(rest) = n - 1
      /\ \A i \in 1..(n - 1) : rest[i] = events[i + 1]
  BY ListTail DEF Telling
<1>2. CASE n = 1
  <2>1. Head(events) = Terminal(EndState(r))
    BY <1>1, <1>2 DEF Telling
  <2>2. accepted' = [accepted EXCEPT !.terminal = EndState(r)]
    BY <2>1 DEF Taken, Terminal, Telling
  <2>3. accepted'.terminal = EndState(r) /\ accepted'.byModel = accepted.byModel /\ AccountShaped'
    BY <2>2 DEF AccountShaped
  <2>4. DOMAIN rest = {}
    <3>1. PICK T : rest \in Seq(T)
      BY <1>1 DEF IsList
    <3> HIDE DEF rest
    <3> QED
      BY <1>1, <1>2, <3>1
  <2>5. \A m \in Models : accepted.byModel[m] = Owed(h, r, m)
    BY <1>2 DEF Telling
  <2> QED
    BY <1>1, <2>3, <2>4, <2>5 DEF Told, Settled
<1>3. CASE n # 1
  <2> DEFINE e == events[1]
             u == e.usage
  <2>1. OwedEvent(h, r, e)
    BY <1>1, <1>3 DEF Telling
  <2>2. accepted' = [accepted EXCEPT !.byModel = Record(@, u)]
    BY <1>1, <2>1 DEF Taken, OwedEvent, Telling
  <2>3. accepted' = [terminal |-> "none", byModel |-> Record(accepted.byModel, u)]
    BY <2>2 DEF AccountShaped, Telling
  <2>4. u.model \in Models /\ u = Owed(h, r, u.model)
    BY <2>1 DEF OwedEvent
  <2>5. \/ accepted.byModel[u.model] = NoUsage
        \/ accepted.byModel[u.model] = u
    BY <2>4 DEF Telling
  <2> HIDE DEF u
  <2>6. /\ DOMAIN accepted'.byModel = Models /\ accepted'.byModel[u.model] = u
        /\ \A m \in Models : m # u.model => accepted'.byModel[m] = accepted.byModel[m]
    BY <2>3, <2>4, <2>5 DEF Record, Replaces, AccountShaped
  <2>7. AccountShaped'
    BY <2>3, <2>6 DEF AccountShaped
  <2>8. rest # <<>> /\ rest[Len(rest)] = Terminal(EndState(r))
    <3>1. n - 1 \in 1..(n - 1) /\ (n - 1) + 1 = n
      BY <1>1, <1>3
    <3>2. rest[n - 1] = events[n] /\ Len(rest) # 0
      BY <1>1, <3>1
    <3>3. rest # <<>>
      <4> HIDE DEF rest
      <4> QED
        BY <3>2
    <3> QED
      BY <1>1, <3>2, <3>3 DEF Telling
  <2>9. \A i \in 1..(Len(rest) - 1) : OwedEvent(h, r, rest[i])
    <3>1. \A i \in 1..(n - 2) : i + 1 \in 1..(n - 1) /\ i \in 1..(n - 1)
      BY <1>1
    <3> QED
      BY <1>1, <3>1 DEF Telling
  <2>10. ASSUME NEW m \in Models
         PROVE  \/ accepted'.byModel[m] = Owed(h, r, m)
                \/ /\ accepted'.byModel[m] = NoUsage
                   /\ \E i \in 1..(Len(rest) - 1) : rest[i].usage = Owed(h, r, m)
    <3>1. CASE m = u.model
      BY <2>4, <2>6, <3>1
    <3>2. CASE m # u.model /\ accepted.byModel[m] = Owed(h, r, m)
      BY <2>6, <3>2
    <3>3. CASE m # u.model /\ accepted.byModel[m] # Owed(h, r, m)
      <4>1. PICK i \in 1..(n - 1) : events[i].usage = Owed(h, r, m)
        BY <3>3 DEF Telling
      <4>2. accepted.byModel[m] = NoUsage /\ Owed(h, r, m).model = m
        BY <3>3, OwedNames DEF Telling
      <4>3. i # 1
        BY <3>3, <4>1, <4>2 DEF u
      <4>4. i - 1 \in 1..(n - 2) /\ rest[i - 1] = events[i]
        <5>1. i - 1 \in 1..(n - 2) /\ i - 1 \in 1..(n - 1) /\ (i - 1) + 1 = i
          BY <1>1, <4>3
        <5> QED
          BY <1>1, <5>1
      <4> QED
        BY <1>1, <2>6, <3>3, <4>1, <4>2, <4>4
    <3> QED
      BY <3>1, <3>2, <3>3
  <2>11. accepted'.terminal = "none"
    BY <2>3
  <2> QED
    BY <1>1, <2>7, <2>8, <2>9, <2>10, <2>11 DEF Telling
<1> QED
  BY <1>2, <1>3

(* What is told after the terminal changes nothing. *)
LEMMA TellsAfter ==
  ASSUME NEW h, NEW r, NEW events, Told(h, r, accepted, events), events # <<>>,
         accepted' = Taken(Head(events))
  PROVE  accepted' = accepted /\ Told(h, r, accepted', Tail(events))
<1>1. /\ Len(events) \in Nat \ {0} /\ DOMAIN events = 1..Len(events) /\ Head(events) = events[1]
      /\ IsList(Tail(events)) /\ Len(Tail(events)) = Len(events) - 1
      /\ \A i \in 1..(Len(events) - 1) : Tail(events)[i] = events[i + 1]
  BY ListTail DEF Told
<1>2. accepted' = accepted
  BY <1>1 DEF Told, Settled, Taken, EndState
<1>3. DOMAIN Tail(events) = 1..(Len(events) - 1)
  <2>1. PICK T : Tail(events) \in Seq(T)
    BY <1>1 DEF IsList
  <2> QED
    BY <1>1, <2>1
<1>4. \A i \in 1..(Len(events) - 1) : i + 1 \in DOMAIN events
  BY <1>1
<1> QED
  BY <1>1, <1>2, <1>3, <1>4 DEF Told
-------------------------------------------------------------------------------
(* The events of Snapshots are usage, whatever the result was. *)
LEMMA SnapshotsAreUsage ==
  ASSUME UsageKept, NEW final \in BOOLEAN
  PROVE  IsList(Snapshots(final)) /\ \A i \in DOMAIN Snapshots(final) : Snapshots(final)[i].kind = "usage"
<1> DEFINE r == [form |-> IF final THEN "none" ELSE "pending"]
<1>1. r.form \in {"pending", "none"} /\ (r.form # "pending") = final
  OBVIOUS
<1> HIDE DEF r
<1>2. Complete(heard, r, Snapshots(r.form # "pending"))
  BY <1>1, SnapshotsComplete
<1>3. Complete(heard, r, Snapshots(final))
  BY <1>1, <1>2
<1> QED
  BY <1>3 DEF Complete, OwedEvent

(* The ledger by the place of the stream: empty until the run ends, then on its *)
(* way to what is owed, and there when the stream was read to its end.          *)
Beginning ==
  place \in {"new", "ready", "query", "reading"} \/ (place = "suspended" /\ after \in {"query", "reading"}) =>
    /\ todo = <<>>
    /\ accepted.terminal = "none" /\ accepted.byModel = EmptyLedger /\ result = NoResult

Concluding ==
  ~left /\ query # "none" =>
    /\ place = "suspended" /\ after \in {"closing", "over"} =>
         Telling(heard, result, accepted, todo) \/ Told(heard, result, accepted, todo)
    /\ place \in {"closing", "over"} => Settled(heard, result, accepted)

SpendInv == QueryInv /\ UsageKept /\ AccountShaped /\ Beginning /\ Concluding

(* The stream yields the rest of what it tells, or goes on when that is all. *)
LEMMA YieldsOn ==
  ASSUME AccountShaped, NEW events, NEW then \in {"closing", "over"}, Yields(events, then), query # "none",
         UNCHANGED <<heard, left>>,
         \/ Telling(heard, result', accepted, events)
         \/ Told(heard, result', accepted, events)
  PROVE  AccountShaped' /\ Beginning' /\ Concluding'
<1>1. CASE events = <<>>
  <2>1. Settled(heard, result', accepted)
    BY <1>1 DEF Telling, Told
  <2>2. place' = then /\ accepted' = accepted
    BY <1>1 DEF Yields
  <2>3. Settled(heard, result, accepted)'
    BY <2>1, <2>2 DEF Settled
  <2>4. AccountShaped'
    BY <2>2 DEF AccountShaped
  <2> QED
    BY <2>2, <2>3, <2>4 DEF Beginning, Concluding
<1>2. CASE events # <<>>
  <2>1. place' = "suspended" /\ after' = then /\ todo' = Tail(events) /\ accepted' = Taken(Head(events))
    BY <1>2 DEF Yields
  <2>2. CASE Telling(heard, result', accepted, events)
    <3>1. AccountShaped' /\ (\/ Telling(heard, result', accepted', Tail(events))
                        \/ Told(heard, result', accepted', Tail(events)))
      BY <2>1, <2>2, Tells
    <3> QED
      BY <2>1, <3>1 DEF Beginning, Concluding
  <2>3. CASE Told(heard, result', accepted, events)
    <3>1. accepted' = accepted /\ Told(heard, result', accepted', Tail(events))
      BY <1>2, <2>1, <2>3, TellsAfter
    <3>2. AccountShaped'
      BY <3>1 DEF AccountShaped
    <3> QED
      BY <2>1, <3>1, <3>2 DEF Beginning, Concluding
  <2> QED
    BY <2>2, <2>3
<1> QED
  BY <1>1, <1>2

LEMMA YieldsAccepts ==
  ASSUME AccountShaped, NEW events, NEW then, Yields(events, then)
  PROVE  AccountShaped'
<1>1. CASE events = <<>>
  BY <1>1 DEF Yields, AccountShaped
<1>2. CASE events # <<>>
  <2> DEFINE e == Head(events)
  <2>1. accepted' = Taken(e)
    BY <1>2 DEF Yields
  <2> HIDE DEF e
  <2>2. CASE e.kind = "terminal"
    BY <2>1, <2>2 DEF Taken, AccountShaped
  <2>3. CASE e.kind = "usage" /\ accepted.terminal = "none"
    <3>1. accepted' = [accepted EXCEPT !.byModel = Record(@, e.usage)]
      BY <2>1, <2>3 DEF Taken
    <3>2. accepted' = [terminal |-> accepted.terminal, byModel |-> Record(accepted.byModel, e.usage)]
      BY <3>1 DEF AccountShaped
    <3>3. DOMAIN Record(accepted.byModel, e.usage) = Models
      BY DEF Record, AccountShaped
    <3> QED
      BY <3>2, <3>3 DEF AccountShaped
  <2>4. CASE e.kind # "terminal" /\ ~ (e.kind = "usage" /\ accepted.terminal = "none")
    BY <2>1, <2>4 DEF Taken, AccountShaped
  <2> QED
    BY <2>2, <2>3, <2>4
<1> QED
  BY <1>1, <1>2

(* At most one event, of progress, changes nothing of the account. *)
LEMMA YieldsProgress ==
  ASSUME NEW events \in Seq({Progress}), Len(events) <= 1, NEW then, Yields(events, then)
  PROVE  /\ accepted' = accepted /\ todo' = <<>> /\ after' = then
         /\ place' = then \/ place' = "suspended"
<1>1. CASE events = <<>>
  BY <1>1 DEF Yields
<1>2. CASE events # <<>>
  <2>1. Head(events) = Progress /\ Tail(events) = <<>>
    BY <1>2
  <2>2. Taken(Progress) = accepted
    BY DEF Taken, Progress
  <2> QED
    BY <1>2, <2>1, <2>2 DEF Yields
<1> QED
  BY <1>1, <1>2

(* The fields a step leaves alone. *)
LEMMA ConcludingSame ==
  ASSUME Concluding, UNCHANGED <<heard, result, accepted, left, generator>>, query' = "none" <=> query = "none"
  PROVE  Concluding'
BY DEF Concluding, generator

LEMMA SpendStep == SpendInv /\ [ClaudeNext]_claudeVars => SpendInv'
<1> SUFFICES ASSUME SpendInv, [ClaudeNext]_claudeVars  PROVE SpendInv'
  OBVIOUS
<1> USE DEF SpendInv
<1>a. QueryInv' /\ UsageKept'
  BY QueryStep, UsageStep
<1>b. UsageKept /\ AccountShaped
  OBVIOUS
<1> SUFFICES AccountShaped' /\ Beginning' /\ Concluding'
  BY <1>a
<1>1. CASE StartCalled
  <2>1. place' \in {"ready", "over"} /\ query' = "none" /\ UNCHANGED <<todo, accepted, result>>
    BY <1>1 DEF StartCalled, QueryInv, QueryByPlace, said
  <2> QED
    BY <1>1, <2>1 DEF StartCalled, AccountShaped, Beginning, Concluding
<1>2. CASE RunBegins
  <2>1. PICK events, then : /\ Yields(events, then)
                            /\ \/ events = <<>> /\ then = "over"
                               \/ events = <<Progress>> /\ then = "query"
    BY <1>2 DEF RunBegins
  <2>2. query = "none" /\ query' = "none"
    BY <1>2, <2>1 DEF RunBegins, QueryInv, QueryByPlace, Yields, Closed
  <2>3. events \in Seq({Progress}) /\ Len(events) <= 1
    <3>1. CASE events = <<>>
      BY <3>1
    <3>2. CASE events = <<Progress>>
      BY <3>2
    <3> QED
      BY <2>1, <3>1, <3>2
  <2>4. accepted' = accepted /\ todo' = <<>>
    BY <2>1, <2>3, YieldsProgress
  <2> QED
    BY <1>2, <2>2, <2>4 DEF RunBegins, AccountShaped, Beginning, Concluding, said
<1>3. CASE Resumed
  <2>1. place = "suspended" /\ Yields(todo, after) /\ UNCHANGED <<heard, result, left>>
    BY <1>3 DEF Resumed, said
  <2>2. AccountShaped'
    BY <2>1, <1>b, YieldsAccepts
  <2>3. CASE after \in {"query", "reading"}
    <3>1. place' = after /\ todo' = <<>> /\ accepted' = accepted
      BY <2>1, <2>3 DEF Beginning, Yields
    <3> QED
      BY <2>1, <2>2, <2>3, <3>1 DEF Beginning, Concluding
  <2>4. CASE after \in {"closing", "over"} /\ ~left /\ query # "none"
    <3>1. Telling(heard, result', accepted, todo) \/ Told(heard, result', accepted, todo)
      BY <2>1, <2>4 DEF Concluding
    <3> QED
      BY <1>b, <2>1, <2>4, <3>1, YieldsOn
  <2>5. CASE after \in {"closing", "over"} /\ ~ (~left /\ query # "none")
    <3>1. /\ place' \in {"closing", "over"} \/ (place' = "suspended" /\ after' \in {"closing", "over"})
          /\ left' \/ query' = "none"
      BY <2>1, <2>5 DEF Yields, Closed
    <3> QED
      BY <2>2, <3>1 DEF Beginning, Concluding
  <2>6. after \in {"query", "reading", "closing", "over"}
    BY <2>1 DEF QueryInv, QueryByPlace
  <2> QED
    BY <2>3, <2>4, <2>5, <2>6
<1>4. CASE QueryMade
  <2>1. CASE Yields(<<Terminal("failed")>>, "over")
    <3>1. AccountShaped'
      BY <1>b, <2>1, YieldsAccepts
    <3>2. place' = "suspended" /\ after' = "over" /\ query' = "none"
      BY <1>4, <2>1 DEF QueryMade, QueryInv, QueryByPlace, Yields
    <3> QED
      BY <3>1, <3>2 DEF Beginning, Concluding
  <2>2. CASE ~ Yields(<<Terminal("failed")>>, "over")
    <3>1. place' = "reading" /\ UNCHANGED <<todo, accepted, result>>
      BY <1>4, <2>2 DEF QueryMade, said
    <3> QED
      BY <1>4, <3>1 DEF QueryMade, AccountShaped, Beginning, Concluding
  <2> QED
    BY <2>1, <2>2
<1>5. CASE AssistantSpeaks \/ SystemSpeaks
  <2>1. PICK parts \in 0..1 : Yields([i \in 1..parts |-> Progress], "reading")
    <3>1. CASE AssistantSpeaks
      BY <3>1 DEF AssistantSpeaks
    <3>2. CASE SystemSpeaks
      <4>1. <<Progress>> = [i \in 1..1 |-> Progress]
        OBVIOUS
      <4> QED
        BY <3>2, <4>1 DEF SystemSpeaks
    <3> QED
      BY <1>5, <3>1, <3>2
  <2> DEFINE events == [i \in 1..parts |-> Progress]
  <2>2. events \in Seq({Progress}) /\ Len(events) <= 1
    OBVIOUS
  <2> HIDE DEF events
  <2>3. Yields(events, "reading")
    BY <2>1 DEF events
  <2>4. /\ accepted' = accepted /\ todo' = <<>> /\ after' = "reading"
        /\ place' = "reading" \/ place' = "suspended"
    BY <2>2, <2>3, YieldsProgress
  <2>5. place = "reading" /\ result' = result
    BY <1>5 DEF AssistantSpeaks, SystemSpeaks, said
  <2> QED
    BY <2>4, <2>5 DEF AccountShaped, Beginning, Concluding
<1>6. CASE ResultArrives
  <2>1. PICK r \in [ok : BOOLEAN, form : {"models", "total", "none"}, bill : [Models -> 0..1]] :
          /\ r.form = "models" => \E m \in Models : r.bill[m] > 0
          /\ result' = r
          /\ Yields(ResultEvents(r), "closing")
    BY <1>6 DEF ResultArrives
  <2>2. place = "reading" /\ query = "open" /\ UNCHANGED <<heard, left>>
    BY <1>6 DEF ResultArrives
  <2>3. Complete(heard, r, ResultUsage(r))
    BY <1>b, <2>1, ResultComplete
  <2>4. accepted.terminal = "none" /\ accepted.byModel = EmptyLedger
    BY <2>2 DEF Beginning
  <2>5. Telling(heard, r, accepted, ResultUsage(r) \o <<Terminal(EndState(r))>>)
    BY <2>3, <2>4, TellingStarts
  <2>6. Telling(heard, result', accepted, ResultEvents(r))
    BY <2>1, <2>5 DEF ResultEvents, EndState
  <2> QED
    BY <1>b, <2>1, <2>2, <2>6, YieldsOn
<1>7. CASE QueryEnds
  <2>1. place = "reading" /\ Yields(LastWords, "over") /\ UNCHANGED <<heard, result, left>>
    BY <1>7 DEF QueryEnds, said
  <2>2. query # "none" /\ accepted.terminal = "none" /\ accepted.byModel = EmptyLedger /\ result = NoResult
    BY <2>1 DEF Beginning, QueryInv, QueryByPlace
  <2>3. Complete(heard, NoResult, Snapshots(FALSE))
    <3>1. NoResult.form = "pending" /\ (NoResult.form # "pending") = FALSE
      BY DEF NoResult
    <3>2. Complete(heard, NoResult, Snapshots(NoResult.form # "pending"))
      BY <1>b, <3>1, SnapshotsComplete
    <3> QED
      BY <3>1, <3>2
  <2>4. Telling(heard, NoResult, accepted, Snapshots(FALSE) \o <<Terminal(EndState(NoResult))>>)
    BY <2>2, <2>3, TellingStarts
  <2>5. EndState(NoResult) = "failed"
    BY DEF EndState, NoResult
  <2>6. Telling(heard, result', accepted, LastWords)
    BY <2>1, <2>2, <2>4, <2>5 DEF LastWords
  <2> QED
    BY <1>b, <2>1, <2>2, <2>6, YieldsOn
<1>8. CASE IteratorCloses \/ ClosingFails
  <2>1. place = "closing" /\ query # "none" /\ UNCHANGED <<heard, result, left>>
    BY <1>8 DEF IteratorCloses, ClosingFails, said, QueryInv, QueryByPlace
  <2>2. \/ place' = "abandoned" /\ accepted' = accepted
        \/ \E events : Yields(events, "over")
    BY <1>8 DEF IteratorCloses, ClosingFails
  <2>3. AccountShaped'
    <3>1. CASE place' = "abandoned" /\ accepted' = accepted
      BY <3>1 DEF AccountShaped
    <3>2. CASE \E events : Yields(events, "over")
      BY <1>b, <3>2, YieldsAccepts
    <3> QED
      BY <2>2, <3>1, <3>2
  <2>4. CASE left
    <3>1. place' \in {"abandoned", "over"} \/ (place' = "suspended" /\ after' = "over")
      BY <2>2 DEF Yields
    <3> QED
      BY <2>1, <2>3, <2>4, <3>1 DEF Beginning, Concluding
  <2>5. CASE ~left
    <3>1. Settled(heard, result', accepted)
      BY <2>1, <2>5 DEF Concluding
    <3>2. PICK events : Yields(events, "over") /\ (events = <<>> \/ events = Snapshots(FALSE))
      BY <1>8, <2>5, <3>1 DEF IteratorCloses, ClosingFails, Settled, EndState
    <3>3. IsList(events) /\ \A i \in DOMAIN events : events[i].kind = "usage"
      <4>1. CASE events = <<>>
        <5>1. <<>> \in Seq({})
          OBVIOUS
        <5>2. DOMAIN events = {}
          BY <4>1
        <5> QED
          BY <4>1, <5>1, <5>2 DEF IsList
      <4>2. CASE events = Snapshots(FALSE)
        BY <1>b, <4>2, SnapshotsAreUsage
      <4> QED
        BY <3>2, <4>1, <4>2
    <3>4. Told(heard, result', accepted, events)
      BY <3>1, <3>3 DEF Told
    <3> QED
      BY <1>b, <2>1, <3>2, <3>4, YieldsOn
  <2> QED
    BY <2>4, <2>5
<1>9. CASE ConsumerLeaves
  <2>1. place' \in {"closing", "over"} /\ left' /\ accepted' = accepted
    BY <1>9 DEF ConsumerLeaves
  <2> QED
    BY <2>1 DEF AccountShaped, Beginning, Concluding
<1>10. CASE SignalAborted \/ Stop \/ Over \/ UNCHANGED claudeVars
  <2>1. UNCHANGED <<heard, result, accepted, left, generator>> /\ (query' = "none" <=> query = "none")
    BY <1>10 DEF SignalAborted, Stop, StopCloses, Over, claudeVars, said
  <2>2. Concluding'
    BY <2>1, ConcludingSame
  <2> QED
    BY <2>1, <2>2 DEF AccountShaped, Beginning, generator
<1> QED
  BY <1>1, <1>2, <1>3, <1>4, <1>5, <1>6, <1>7, <1>8, <1>9, <1>10 DEF ClaudeNext

(* Whatever the messages, their order and the form of the result, and          *)
(* whatever the SDK does after it: the ledger of a stream that was read to its *)
(* end holds the usage of the run, each response once.                         *)
THEOREM SpendArrives == ClaudeSpec => []SpendReachesLedger
<1>1. ClaudeInit => SpendInv
  <2> SUFFICES ASSUME ClaudeInit  PROVE SpendInv
    OBVIOUS
  <2>1. QueryInv
    BY DEF ClaudeInit, QueryInv, QueryByPlace, StopReached, Places, Active
  <2>2. UsageKept
    <3>1. Anonymous(heard, Len(heard)) = {} /\ heard \in Seq(Message) /\ DOMAIN heard = {}
      BY DEF ClaudeInit, Anonymous
    <3>2. usage.anonymous = 0 /\ DOMAIN usage.tokens = {}
      BY DEF ClaudeInit
    <3> QED
      BY <3>1, <3>2, FS_EmptySet DEF UsageKept
  <2>3. AccountShaped
    BY DEF ClaudeInit, AccountShaped, EmptyLedger
  <2> QED
    BY <2>1, <2>2, <2>3 DEF ClaudeInit, SpendInv, Beginning, Concluding
<1>2. SpendInv => SpendReachesLedger
  BY DEF SpendInv, Concluding, Settled, EndState, SpendReachesLedger
<1> QED
  BY <1>1, <1>2, SpendStep, PTL DEF ClaudeSpec
===============================================================================
