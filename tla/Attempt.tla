-------------------------------- MODULE Attempt --------------------------------
(***************************************************************************)
(* One attempt: executeRun and consumeEvents of coordinator.ts, running a  *)
(* runtime adapter against a projection.                                   *)
(*                                                                         *)
(* Three activities interleave at the awaits of the code.                  *)
(*   - executeRun itself (pc): start, consume, stop, result;               *)
(*   - consumeEvents (consumer), a promise executeRun races with an abort; *)
(*   - the environment: the adapter (start, the event stream, stop), the   *)
(*     projection's promises, the timeout timer and the two abort signals. *)
(* Everything between two awaits is one action.  The order in which        *)
(* Promise.race sees an abort and a settled operation is left open when    *)
(* both have happened.                                                     *)
(***************************************************************************)
EXTENDS EventRules, UsageRules

CONSTANTS
  MaxEvents,    \* runtime events an adapter may number in one attempt
  Bodies,       \* the contents an adapter may give them
  Reorders,     \* TRUE: the stream may deliver events out of order
  Redelivers,   \* TRUE: the stream may deliver an event again
  Misbehaves    \* TRUE: events may follow the terminal, even a second terminal

RuntimeOutcomes == {"completed", "failed"}

Body == [kind : {"progress"}, state : {"none"}, usage : {NoUsage}]
          \cup [kind : {"usage"}, state : {"none"}, usage : Usage]
          \cup [kind : {"terminal"}, state : RuntimeOutcomes, usage : {NoUsage}]

ASSUME AttemptAssumption ==
  /\ MaxEvents \in Nat \ {0}
  /\ Bodies \subseteq Body
  /\ Reorders \in BOOLEAN
  /\ Redelivers \in BOOLEAN
  /\ Misbehaves \in BOOLEAN

NoBody == [kind |-> "none", state |-> "none", usage |-> NoUsage]

(* "budget_exceeded" is the cause {kind: failed, reason: budget_exceeded}. *)
Causes == {"cancelled", "shutdown", "timed_out", "failed", "budget_exceeded"}
ExternalCauses == {"cancelled", "shutdown", "timed_out"}

Outcomes == {"completed", "failed", "interrupted", "cancelled", "timed_out"}

(* STATE_BY_CAUSE, and "failed" for no cause. *)
TerminalState(c) ==
  IF c \in {"cancelled", "timed_out"} THEN c
  ELSE IF c = "shutdown" THEN "interrupted" ELSE "failed"

VARIABLES
  pc,            \* where executeRun is
  cause,         \* the first abort cause, or "none"
  failure,       \* executeRun's failure, or "none"
  start,         \* runtime.start(): "idle", "pending", "ok", "error"
  stop,          \* the memoized runtime.stop(): likewise
  consumer,      \* where consumeEvents is
  current,       \* the event being projected
  consumeError,  \* what consumeEvents ended with
  received,      \* the event ledger
  offset,        \* coordinatorEventOffset
  budget,        \* the CostBudgetPolicy
  stream,        \* the body of each runtime event delivered so far
  projection     \* the compatibility projection, as far as costs go

executor == <<pc, failure>>
consuming == <<consumer, current, consumeError, received, offset, budget, stream>>
vars == <<pc, cause, failure, start, stop, consumer, current, consumeError,
          received, offset, budget, stream, projection>>
-------------------------------------------------------------------------------
NoEvent == [id |-> <<"none", 0>>, seq |-> 0, kind |-> "none", state |-> "none",
            reason |-> "none", usage |-> NoUsage]

HasTerminal == TerminalsOf(received) # {}

(* abortState.abort: the first cause stands. *)
Abort(c) == cause' = IF cause = "none" THEN c ELSE cause

(* The listeners and the timer are in place until the runtime has stopped. *)
Listening == pc \in {"begin", "starting", "consuming", "draining", "stopping"}

ConsumerRuns == consumer \in {"next", "event", "terminal", "policy", "closing"}

(* stopRuntime(): only the first call reaches the adapter. *)
StopRuntime == stop' = IF stop = "idle" THEN "pending" ELSE stop

Stopped == stop \in {"ok", "error"}

Init ==
  /\ pc = "begin"
  /\ cause = "none"
  /\ failure = "none"
  /\ start = "idle"
  /\ stop = "idle"
  /\ consumer = "idle"
  /\ current = NoEvent
  /\ consumeError = "none"
  /\ received = {}
  /\ offset = 0
  /\ budget = NewBudget
  /\ stream = [n \in 1..MaxEvents |-> NoBody]
  /\ projection = [byModel |-> EmptyLedger, completed |-> FALSE, cost |-> 0,
                   terminals |-> 0, failed |-> FALSE]
-------------------------------------------------------------------------------
(* Aborts. *)

(* The caller's signal (cancelled) or the loop's shutdown signal fires; an   *)
(* attempt may be given a signal that has fired already.                     *)
SignalAborts ==
  /\ Listening
  /\ cause = "none"
  /\ \E c \in {"cancelled", "shutdown"} : Abort(c)
  /\ UNCHANGED <<executor, start, stop, consuming, projection>>

TimeoutFires ==
  /\ Listening
  /\ pc # "begin"
  /\ cause = "none"
  /\ Abort("timed_out")
  /\ UNCHANGED <<executor, start, stop, consuming, projection>>

(* The adapter reports a lifecycle cause (context.onAbortCause), such as a   *)
(* crashed server process.                                                   *)
RuntimeReportsCause ==
  /\ ConsumerRuns
  /\ cause = "none"
  /\ Abort("failed")
  /\ UNCHANGED <<executor, start, stop, consuming, projection>>
-------------------------------------------------------------------------------
(* executeRun. *)

(* Mutant: a failure of the attempt's own does not become the cause. *)
MutantEnterFinally(f) ==
  /\ pc' = "stopping"
  /\ failure' = f
  /\ UNCHANGED cause
  /\ StopRuntime

(* Enter the finally block: a failure nobody aborted for becomes the cause,  *)
(* and the runtime is told to stop.                                          *)
EnterFinally(f) ==
  /\ pc' = "stopping"
  /\ failure' = f
  /\ IF f # "none" THEN Abort("failed") ELSE UNCHANGED cause
  /\ StopRuntime

Begin ==
  /\ pc = "begin"
  /\ IF cause # "none"
     THEN EnterFinally("abort") /\ UNCHANGED start
     ELSE pc' = "starting" /\ start' = "pending" /\ UNCHANGED <<failure, cause, stop>>
  /\ UNCHANGED <<consuming, projection>>

StartSettles ==
  /\ start = "pending"
  /\ start' \in {"ok", "error"}
  /\ UNCHANGED <<executor, cause, stop, consuming, projection>>

(* The start won the race with an abort. *)
Started ==
  /\ pc = "starting"
  /\ start = "ok"
  /\ cause = "none"
  /\ pc' = "consuming"
  /\ consumer' = "next"
  /\ UNCHANGED <<cause, failure, start, stop, current, consumeError, received, offset,
                 budget, stream, projection>>

StartFailed ==
  /\ pc = "starting"
  /\ start = "error"
  /\ EnterFinally("start")
  /\ UNCHANGED <<start, consuming, projection>>

(* An abort won the race, or is noticed right after the start: the start may *)
(* still be pending, and nothing waits for it.                               *)
StartAborted ==
  /\ pc = "starting"
  /\ cause # "none"
  /\ EnterFinally("abort")
  /\ UNCHANGED <<start, consuming, projection>>

(* Mutant: a terminal in the ledger excuses whatever the consumer threw. *)
MutantConsumeFailure ==
  IF HasTerminal THEN "none" ELSE IF consumeError # "none" THEN consumeError ELSE "missing"

(* The consumer's error, the abort or a missing terminal. *)
ConsumeFailure ==
  IF consumeError # "none" THEN consumeError
  ELSE IF cause # "none" THEN "abort"
  ELSE IF HasTerminal THEN "none" ELSE "missing"

ConsumeSettled ==
  /\ pc = "consuming"
  /\ consumer = "ended"
  /\ EnterFinally(ConsumeFailure)
  /\ UNCHANGED <<start, consuming, projection>>

(* Mutant: the drain waits for a stop() that nobody has called. *)
MutantConsumeAborted ==
  /\ pc = "consuming"
  /\ cause # "none"
  /\ pc' = "draining"
  /\ UNCHANGED <<cause, failure, start, stop, consuming, projection>>

(* The abort won: stop the runtime and let the consumer drain the stream. *)
ConsumeAborted ==
  /\ pc = "consuming"
  /\ cause # "none"
  /\ pc' = "draining"
  /\ StopRuntime
  /\ UNCHANGED <<cause, failure, start, consuming, projection>>

(* Mutant: the consumer is not awaited. *)
MutantDrained ==
  /\ pc = "draining"
  /\ Stopped
  /\ EnterFinally("abort")
  /\ UNCHANGED <<start, consuming, projection>>

(* Whatever stop() or the drained consumer threw is swallowed here. *)
Drained ==
  /\ pc = "draining"
  /\ Stopped
  /\ consumer = "ended"
  /\ EnterFinally("abort")
  /\ UNCHANGED <<start, consuming, projection>>

StopSettles ==
  /\ stop = "pending"
  /\ stop' \in {"ok", "error"}
  /\ UNCHANGED <<executor, cause, start, consuming, projection>>

(* The coordinator's own terminal event, for an attempt whose runtime left none. *)
CoordinatorTerminal ==
  [id |-> <<"coordinator", 0>>, seq |-> NextSequence(received), kind |-> "terminal",
   state |-> TerminalState(cause), reason |-> cause, usage |-> NoUsage]

(* After stop(): return, or first accept and project the missing terminal. *)
Conclude ==
  /\ pc = "stopping"
  /\ Stopped
  /\ failure' = IF stop = "error" /\ failure = "none" THEN "stop" ELSE failure
  /\ IF HasTerminal
     THEN pc' = "returned" /\ UNCHANGED <<received, current>>
     ELSE /\ received' = received \cup {CoordinatorTerminal}
          /\ current' = CoordinatorTerminal
          /\ pc' = "projecting"
  /\ UNCHANGED <<cause, start, stop, consumer, consumeError, offset, budget, stream,
                 projection>>
-------------------------------------------------------------------------------
(* The projection: LegacyCompatibilityProjection, one attempt of it. *)

(* onEvent counts usage until the attempt's terminal has been handed over. *)
Counted(event) ==
  IF event.kind = "usage" /\ ~projection.completed
  THEN [projection EXCEPT !.byModel = Record(@, event.usage)]
  ELSE projection

(* onTerminal fixes the totals of the cost record, once. *)
HandedOver ==
  IF projection.completed
  THEN [projection EXCEPT !.terminals = @ + 1]
  ELSE [projection EXCEPT !.terminals = @ + 1, !.completed = TRUE,
                          !.cost = TotalCost(projection.byModel)]

(* The coordinator's own terminal is projected after everything else; a      *)
(* projection that fails here is the failure only if there is none yet.      *)
FinalEventProjected ==
  /\ pc = "projecting"
  /\ projection' = HandedOver
  /\ pc' = "announcing"
  /\ UNCHANGED <<cause, failure, start, stop, consuming>>

FinalTerminalProjected ==
  /\ pc = "announcing"
  /\ pc' = "returned"
  /\ UNCHANGED <<cause, failure, start, stop, consuming, projection>>

FinalProjectionFails ==
  /\ pc \in {"projecting", "announcing"}
  /\ pc' = "returned"
  /\ failure' = IF failure = "none" THEN "projection" ELSE failure
  /\ projection' = [projection EXCEPT !.failed = TRUE]
  /\ UNCHANGED <<cause, start, stop, consuming>>
-------------------------------------------------------------------------------
(* consumeEvents. *)

(* What the adapter may yield next under its delivery discipline: events are *)
(* numbered 1, 2, ... as they are created and keep their body.               *)
MayYield(n, body) ==
  /\ IF stream[n] = NoBody THEN body \in Bodies ELSE Redelivers /\ body = stream[n]
  /\ Reorders \/ \A k \in 1..(n - 1) : stream[k] # NoBody
  /\ \/ Misbehaves
     \/ stream[n] # NoBody
     \/ /\ \A k \in 1..MaxEvents : stream[k].kind = "terminal" => n < k /\ body.kind # "terminal"
        /\ body.kind = "terminal" => \A k \in (n + 1)..MaxEvents : stream[k] = NoBody

(* A failed terminal is blamed on the abort that stands, if one does. *)
BlamesAbort(body) == body.kind = "terminal" /\ body.state = "failed" /\ cause # "none"

(* A runtime event as the coordinator files it: a blamed terminal takes the  *)
(* state and the reason of the abort, and the sequence moves past the        *)
(* coordinator's notices.                                                    *)
Normalized(n, body) ==
  [id |-> <<"runtime", n>>,
   seq |-> SequenceAfterCoordinatorEvents(received, n, offset),
   kind |-> body.kind,
   state |-> IF BlamesAbort(body) THEN TerminalState(cause) ELSE body.state,
   reason |-> IF BlamesAbort(body) THEN cause ELSE "none",
   usage |-> body.usage]

(* iterator.next() yields an event, and the ledger judges it: a contract     *)
(* error ends the loop, a duplicate or trailing event is skipped, an         *)
(* accepted one goes to projection.onEvent.                                  *)
Yield(n, body) ==
  LET event == Normalized(n, body)
  IN  /\ stream' = [stream EXCEPT ![n] = body]
      /\ \/ /\ Rejected(received, event)
            /\ consumer' = "closing"
            /\ consumeError' = "contract"
            /\ UNCHANGED <<received, current>>
         \/ /\ Dropped(received, event)
            /\ ~Rejected(received, event)
            /\ UNCHANGED <<consumer, consumeError, received, current>>
         \/ /\ Accepted(received, event)
            /\ received' = received \cup {event}
            /\ current' = event
            /\ consumer' = "event"
            /\ UNCHANGED consumeError

StreamYields ==
  /\ consumer = "next"
  /\ \E n \in 1..MaxEvents, body \in Bodies : MayYield(n, body) /\ Yield(n, body)
  /\ UNCHANGED <<executor, cause, start, stop, offset, budget, projection>>

StreamEnds ==
  /\ consumer = "next"
  /\ consumer' = "closing"
  /\ UNCHANGED <<executor, cause, start, stop, current, consumeError, received, offset,
                 budget, stream, projection>>

StreamFails ==
  /\ consumer = "next"
  /\ consumer' = "closing"
  /\ consumeError' = "stream"
  /\ UNCHANGED <<executor, cause, start, stop, current, received, offset, budget, stream,
                 projection>>

(* The finally block awaits iterator.return(), whose own error wins. *)
IteratorReturns ==
  /\ consumer = "closing"
  /\ consumer' = "ended"
  /\ consumeError' \in {consumeError, "stream"}
  /\ UNCHANGED <<executor, cause, start, stop, current, received, offset, budget, stream,
                 projection>>

(* onEvent resolved for an event that is neither usage nor terminal. *)
ProgressProjected ==
  /\ consumer = "event"
  /\ current.kind = "progress"
  /\ consumer' = "next"
  /\ UNCHANGED <<executor, cause, start, stop, current, consumeError, received, offset,
                 budget, stream, projection>>

(* onEvent resolved for the terminal: projection.onTerminal is next. *)
TerminalHandedOver ==
  /\ consumer = "event"
  /\ current.kind = "terminal"
  /\ consumer' = "terminal"
  /\ projection' = HandedOver
  /\ UNCHANGED <<executor, cause, start, stop, current, consumeError, received, offset,
                 budget, stream>>

TerminalProjected ==
  /\ consumer = "terminal"
  /\ consumer' = "next"
  /\ UNCHANGED <<executor, cause, start, stop, current, consumeError, received, offset,
                 budget, stream, projection>>

PolicyEvent(notice) ==
  [id |-> <<"policy", NextSequence(received)>>, seq |-> NextSequence(received),
   kind |-> "policy", state |-> notice, reason |-> "none", usage |-> NoUsage]

EnforceHardLimit(b) ==
  IF HardLimitReached(b) THEN Abort("budget_exceeded") ELSE UNCHANGED cause

(* onEvent resolved for a usage event: the budget observes it.  A notice the *)
(* ledger accepts is projected before the hard limit is looked at; one it    *)
(* drops, past a terminal, is not.                                           *)
UsageProjected ==
  /\ consumer = "event"
  /\ current.kind = "usage"
  /\ projection' = Counted(current)
  /\ budget' = Observe(budget, current.usage)
  /\ LET notice == NoticeFor(budget, current.usage)
         event  == PolicyEvent(notice)
     IN  IF notice # "none" /\ Accepted(received, event)
         THEN /\ received' = received \cup {event}
              /\ offset' = offset + 1
              /\ current' = event
              /\ consumer' = "policy"
              /\ UNCHANGED cause
         ELSE /\ consumer' = "next"
              /\ EnforceHardLimit(budget')
              /\ UNCHANGED <<received, offset, current>>
  /\ UNCHANGED <<executor, start, stop, consumeError, stream>>

PolicyProjected ==
  /\ consumer = "policy"
  /\ consumer' = "next"
  /\ EnforceHardLimit(budget)
  /\ UNCHANGED <<executor, start, stop, current, consumeError, received, offset, budget,
                 stream, projection>>

(* onEvent or onTerminal threw; onEvent may have counted the usage first. *)
ProjectionFails ==
  /\ consumer \in {"event", "terminal", "policy"}
  /\ consumer' = "closing"
  /\ consumeError' = "projection"
  /\ \E p \in {projection, IF consumer = "event" THEN Counted(current) ELSE projection} :
       projection' = [p EXCEPT !.failed = TRUE]
  /\ UNCHANGED <<executor, cause, start, stop, current, received, offset, budget, stream>>
-------------------------------------------------------------------------------
(* A returned attempt stays as it is; only a start nobody waits for may still settle. *)
Finished == pc = "returned" /\ UNCHANGED vars

Executor ==
  \/ Begin \/ Started \/ StartFailed \/ StartAborted
  \/ ConsumeSettled \/ ConsumeAborted \/ Drained \/ Conclude

Consumer ==
  \/ StreamYields \/ StreamEnds \/ StreamFails \/ IteratorReturns
  \/ ProgressProjected \/ UsageProjected \/ PolicyProjected
  \/ TerminalHandedOver \/ TerminalProjected \/ ProjectionFails

Environment ==
  \/ SignalAborts \/ TimeoutFires \/ RuntimeReportsCause
  \/ StartSettles \/ StopSettles
  \/ FinalEventProjected \/ FinalTerminalProjected \/ FinalProjectionFails

Next == Executor \/ Consumer \/ Environment \/ Finished

Spec == Init /\ [][Next]_vars

(* executeRun resumes when what it awaits has settled; the timer goes off; a  *)
(* stop() once called and a projection's promise settle; and a stopped        *)
(* runtime closes its event stream.  A start() and a stream that nobody has   *)
(* stopped may hang.                                                          *)
Fairness ==
  /\ WF_vars(Executor)
  /\ WF_vars(TimeoutFires)
  /\ WF_vars(StopSettles)
  /\ WF_vars(Stopped /\ (StreamEnds \/ StreamFails))
  /\ WF_vars(IteratorReturns)
  /\ WF_vars(ProgressProjected \/ UsageProjected \/ PolicyProjected
             \/ TerminalHandedOver \/ TerminalProjected \/ ProjectionFails)
  /\ WF_vars(FinalEventProjected \/ FinalTerminalProjected \/ FinalProjectionFails)

FairSpec == Spec /\ Fairness
-------------------------------------------------------------------------------
(* Properties. *)

EventIds == {"runtime", "policy", "coordinator"} \X Nat

Event == [id : EventIds, seq : Nat, kind : {"progress", "usage", "policy", "terminal"},
          state : {"none"} \cup Outcomes \cup Notices, reason : {"none"} \cup Causes,
          usage : Usage \cup {NoUsage}]

Settlement == {"idle", "pending", "ok", "error"}

ConsumeErrors == {"none", "contract", "projection", "stream"}

Failures == ConsumeErrors \cup {"abort", "start", "missing", "stop"}

ModelLedger == [Models -> Usage \cup {NoUsage}]

(* The shape of the state of executeRun and consumeEvents. *)
TypeOK ==
  /\ pc \in {"begin", "starting", "consuming", "draining", "stopping", "projecting",
             "announcing", "returned"}
  /\ cause \in Causes \cup {"none"}
  /\ failure \in Failures
  /\ start \in Settlement
  /\ stop \in Settlement
  /\ consumer \in {"idle", "next", "event", "terminal", "policy", "closing", "ended"}
  /\ current \in Event \cup {NoEvent}
  /\ consumeError \in ConsumeErrors
  /\ received \subseteq Event
  /\ offset \in Nat
  /\ budget \in [byModel : ModelLedger, emitted : SUBSET Levels,
                 unknownPricingNotified : BOOLEAN]
  /\ stream \in [1..MaxEvents -> Bodies \cup {NoBody}]
  /\ projection \in [byModel : ModelLedger, completed : BOOLEAN, cost : {projection.cost},
                    terminals : Nat, failed : BOOLEAN]

(* An attempt has one terminal event, whether the runtime's or the            *)
(* coordinator's: the ledger never holds two, sequence numbers are unique, no *)
(* result is returned without one, and projection.onTerminal is never called  *)
(* twice - also when aborts, drained terminals and redeliveries race.         *)
OneOutcome ==
  /\ \A e, f \in received : (e.kind = "terminal" /\ f.kind = "terminal") \/ e.seq = f.seq
                            => e = f
  /\ pc = "returned" => HasTerminal
  /\ projection.terminals <= 1

(* Unless the projection itself threw, the attempt's outcome was handed to    *)
(* projection.onTerminal by the time executeRun returns, on every path.       *)
OutcomeAnnounced ==
  pc = "returned" /\ ~projection.failed => projection.terminals = 1

(* Nothing is in flight when the coordinator files its own terminal or        *)
(* returns: stop() has settled and consumeEvents is over, so no event can be  *)
(* accepted or projected behind the result.                                   *)
CleanReturn ==
  pc \in {"projecting", "announcing", "returned"} => Stopped /\ ~ConsumerRuns

ExternalOutcomes == {"interrupted", "cancelled", "timed_out"}

(* The outcome names the abort that caused it.  An interrupted, cancelled or  *)
(* timed-out outcome is that of the first cause, and the coordinator never    *)
(* ends an attempt without one: a run that failed on its own is not later     *)
(* blamed on a timeout that fires while stop() is awaited.                    *)
OutcomeMatchesCause ==
  /\ \A t \in TerminalsOf(received) :
       /\ t.state \in ExternalOutcomes => t.state = TerminalState(cause)
       /\ t.id[1] = "coordinator" => cause # "none" /\ t.state = TerminalState(cause)
  /\ pc = "stopping" /\ failure # "none" => cause # "none"

(* shouldSurface and the precedence of cleanup errors: result.error. *)
SurfacedError ==
  IF stop = "error" THEN "stop"
  ELSE IF cause \in ExternalCauses \cup {"budget_exceeded"} THEN "none" ELSE failure

(* A result without an error is one of two things: an attempt that ended by   *)
(* an external abort or at the budget's hard limit, or one where nothing at   *)
(* all went wrong - the runtime started, streamed to its own terminal, was    *)
(* stopped, and the projection took everything.                               *)
SilentMeansClean ==
  pc = "returned" /\ SurfacedError = "none" =>
    \/ cause \in ExternalCauses \cup {"budget_exceeded"}
    \/ /\ start = "ok" /\ stop = "ok"
       /\ consumeError = "none"
       /\ ~projection.failed
       /\ \E t \in TerminalsOf(received) : t.id[1] = "runtime"

(* Spend at or past 115% of the budget aborts the attempt before another      *)
(* event is read from the stream.                                             *)
HardLimitStops ==
  consumer = "next" /\ HardLimitReached(budget) => cause # "none"

(* Before the next event is read, the level the known spend has reached has a *)
(* notice in the ledger, and no level ever gets two.                          *)
SpendIsAnnounced ==
  LET notices == {e \in received : e.kind = "policy"}
      level   == Level(TotalCost(budget.byModel))
  IN  /\ \A e, f \in notices : e.state = f.state => e = f
      /\ consumer = "next" /\ HasKnownCost(budget.byModel) /\ level # "none" /\ ~HasTerminal
           => \E e \in notices : e.state = level

(* The budget is enforced while the attempt runs, however its snapshots and    *)
(* notices interleave (coordinator.ts:348): what is spent is said once and     *)
(* what is too much stops it.                                                  *)
BudgetIsEnforced == HardLimitStops /\ SpendIsAnnounced

(* A stream that honours the adapter contract is never rejected, even though  *)
(* the coordinator puts notices of its own between the adapter's sequences.   *)
NoSpuriousRejection == consumeError # "contract"

(* The cost record written at the terminal carries the spend the budget was   *)
(* enforced on.                                                               *)
CostRecordComplete ==
  pc = "returned" /\ ~projection.failed => projection.cost = TotalCost(budget.byModel)

(* What an adapter that keeps its contract delivers arrives, in the ledger and *)
(* in the cost record, whatever the coordinator puts in between                *)
(* (coordinator.ts:591, projections/compatibility.ts:101).                     *)
AdapterIsHeard == NoSpuriousRejection /\ CostRecordComplete

(* The attempt implements its contract: one outcome, announced at most once,  *)
(* runtime released before the return, silence after it.                      *)
Contract == INSTANCE AttemptContract WITH
  outcome   <- IF HasTerminal THEN (CHOOSE t \in TerminalsOf(received) : TRUE).state ELSE "none",
  announced <- projection.terminals > 0,
  runtime   <- IF Stopped THEN "released" ELSE "held",
  returned  <- pc = "returned"

ContractSpec == Contract!Spec

(* Every attempt returns, though start() and the event stream may hang: the   *)
(* timeout aborts it, and a stopped runtime lets go of its stream.            *)
AttemptReturns == <>(pc = "returned")
===============================================================================
