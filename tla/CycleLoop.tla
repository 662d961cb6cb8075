------------------------------- MODULE CycleLoop -------------------------------
(***************************************************************************)
(* The outer loop of the coordinator: runCoordinatorLoop of loop.ts with   *)
(* the CycleScheduler, the flock admission of file-admission.ts, the       *)
(* sleep-signal file and the housekeeping the runner attaches to it.       *)
(*                                                                         *)
(* Several coordinator processes may be launched over one data directory;  *)
(* they share the lock file and cycle-sleep.json and nothing else.  Each   *)
(* holds the lock through a helper process, which lets go of it when its   *)
(* stdin closes.  An attempt is one step here: module Attempt shows that   *)
(* it returns.                                                             *)
(***************************************************************************)
EXTENDS Integers, FiniteSets

CONSTANTS
  Coordinators,      \* processes over one data directory
  Limits,            \* values of options.maxCycles; 0 stands for undefined
  Intervals,         \* intervalSeconds a prepared configuration may carry
  IdleInterval,      \* the delay after a preflight skip
  MaxBackoff,        \* maxPreflightBackoffMs
  Recommended,       \* delays a skill may ask for
  MishapKinds,       \* the mishaps that may happen
  MaxStreak,         \* bound: preflight errors in a row are counted up to this
  MaxLaunches,       \* bound: launches of coordinator processes
  MaxMishaps         \* bound: kinds of mishap in one behaviour

(* What can go wrong around a loop without stopping it: unlink() or reading   *)
(* cycle-sleep.json fails, housekeeping fails, a lock helper or a             *)
(* coordinator is killed.                                                     *)
Mishaps == {"unlink", "read", "cleanup", "helper", "crash"}

ASSUME LoopAssumption ==
  /\ MishapKinds \subseteq Mishaps
  /\ Limits \subseteq Nat
  /\ Intervals \subseteq Nat /\ Intervals # {}
  /\ IdleInterval \in Nat
  /\ MaxBackoff \in Nat
  /\ Recommended \subseteq Nat
  /\ MaxStreak \in Nat \ {0}
  /\ MaxLaunches \in Nat
  /\ MaxMishaps \in Nat

(* cycle-sleep.json: absent, a delay, something parseSleepSignal refuses, or  *)
(* a number of seconds that is finite but not when converted to milliseconds. *)
NoFile  == [kind |-> "absent", delay |-> 0]
Signals == {NoFile, [kind |-> "malformed", delay |-> 0], [kind |-> "overflow", delay |-> 0]}
             \cup [kind : {"valid"}, delay : Recommended]

NoPlan == [reason |-> "none", delay |-> 0]

VARIABLES
  pc,          \* where each coordinator's loop is
  helper,      \* its flock helper process
  abort,       \* its abort signal: "none", "shutdown", "cancelled"
  limit,       \* its options.maxCycles
  count,       \* its cycles, failures, results, and the runs it started
  interval,    \* the scheduler's intervalMs
  streak,      \* the scheduler's consecutiveErrors
  decision,    \* the decision of the current cycle
  signal,      \* the sleep signal the current cycle read
  plan,        \* the last sleep plan, with the reason for it
  requested,   \* history: what the run of the current cycle left in the file
  outcome,     \* the result's stopReason, "thrown" if the promise rejected
  file,        \* cycle-sleep.json
  orphan,      \* the helper a killed coordinator left behind
  mishaps,     \* history: the mishaps so far
  launches     \* how many launches there have been

counters == <<limit, count>>
schedule == <<interval, streak, decision, signal, plan, requested>>
world == <<file, orphan, mishaps, launches>>
vars == <<pc, helper, abort, counters, schedule, outcome, world>>
-------------------------------------------------------------------------------
NoCount == [cycles |-> 0, failures |-> 0, results |-> 0, runs |-> 0]

Init ==
  /\ pc = [c \in Coordinators |-> "down"]
  /\ helper = [c \in Coordinators |-> "none"]
  /\ abort = [c \in Coordinators |-> "none"]
  /\ limit = [c \in Coordinators |-> 0]
  /\ count = [c \in Coordinators |-> NoCount]
  /\ interval = [c \in Coordinators |-> CHOOSE i \in Intervals : TRUE]
  /\ streak = [c \in Coordinators |-> 0]
  /\ decision = [c \in Coordinators |-> "none"]
  /\ signal = [c \in Coordinators |-> NoFile]
  /\ plan = [c \in Coordinators |-> NoPlan]
  /\ requested = [c \in Coordinators |-> NoFile]
  /\ outcome = [c \in Coordinators |-> "none"]
  /\ file = NoFile
  /\ orphan = "none"
  /\ mishaps = {}
  /\ launches = 0

Goto(c, place) == pc' = [pc EXCEPT ![c] = place]

(* Without a limit the counters decide nothing, and are left alone. *)
Counting(c, counted) ==
  count' = IF limit[c] = 0 THEN count ELSE [count EXCEPT ![c] = counted]

Happens(mishap) ==
  /\ mishap \in MishapKinds
  /\ mishap \in mishaps \/ Cardinality(mishaps) < MaxMishaps
  /\ mishaps' = mishaps \cup {mishap}

(* The process is gone, and its scheduler with it. *)
Forget(c) ==
  /\ interval' = [interval EXCEPT ![c] = CHOOSE i \in Intervals : TRUE]
  /\ streak' = [streak EXCEPT ![c] = 0]
  /\ decision' = [decision EXCEPT ![c] = "none"]
  /\ signal' = [signal EXCEPT ![c] = NoFile]
  /\ plan' = [plan EXCEPT ![c] = NoPlan]
  /\ requested' = [requested EXCEPT ![c] = NoFile]

Holds(c) == helper[c] \in {"locked", "unlocking"}

LockIsFree == orphan # "holding" /\ \A c \in Coordinators : ~Holds(c)

(* From the lease to the finally block. *)
InCycle(c) ==
  pc[c] \in {"checking", "preparing", "deciding", "running", "reading", "cleaning", "sleeping"}
-------------------------------------------------------------------------------
(* Launch, abort, crash. *)

Launch(c) ==
  /\ pc[c] \in {"down", "ended"}
  /\ ~Holds(c)
  /\ launches < MaxLaunches
  /\ launches' = launches + 1
  /\ Goto(c, "requesting")
  /\ helper' = [helper EXCEPT ![c] = "none"]
  /\ abort' = [abort EXCEPT ![c] = "none"]
  /\ \E n \in Limits : limit' = [limit EXCEPT ![c] = n]
  /\ count' = [count EXCEPT ![c] = NoCount]
  /\ outcome' = [outcome EXCEPT ![c] = "none"]
  /\ UNCHANGED <<schedule, file, orphan, mishaps>>

(* SIGTERM, SIGINT or the caller's signal; the first one stands. *)
Abort(c) ==
  /\ pc[c] \notin {"down", "ended"}
  /\ abort[c] = "none"
  /\ \E cause \in {"shutdown", "cancelled"} : abort' = [abort EXCEPT ![c] = cause]
  /\ UNCHANGED <<pc, helper, counters, schedule, outcome, world>>

(* The process is killed: its helper is left with a closed stdin. *)
Crash(c) ==
  /\ pc[c] \notin {"down", "ended"}
  /\ orphan = "none"
  /\ Happens("crash")
  /\ Goto(c, "down")
  /\ orphan' = IF Holds(c) THEN "holding" ELSE IF helper[c] = "starting" THEN "starting" ELSE "none"
  /\ helper' = [helper EXCEPT ![c] = "none"]
  /\ abort' = [abort EXCEPT ![c] = "none"]
  /\ limit' = [limit EXCEPT ![c] = 0]
  /\ count' = [count EXCEPT ![c] = NoCount]
  /\ outcome' = [outcome EXCEPT ![c] = "none"]
  /\ Forget(c)
  /\ UNCHANGED <<file, launches>>
-------------------------------------------------------------------------------
(* The flock helper. *)

HelperLocks(c) ==
  /\ helper[c] = "starting"
  /\ helper' = [helper EXCEPT ![c] = IF LockIsFree THEN "locked" ELSE "denied"]
  /\ UNCHANGED <<pc, abort, counters, schedule, outcome, world>>

(* Its stdin closed: unlock and exit with 0. *)
HelperUnlocks(c) ==
  /\ helper[c] = "unlocking"
  /\ helper' = [helper EXCEPT ![c] = "exited"]
  /\ UNCHANGED <<pc, abort, counters, schedule, outcome, world>>

(* The SIGTERM an abort during the admission sends it. *)
HelperTerminated(c) ==
  /\ pc[c] = "acquiring"
  /\ abort[c] # "none"
  /\ helper[c] \in {"starting", "locked"}
  /\ helper' = [helper EXCEPT ![c] = "died"]
  /\ UNCHANGED <<pc, abort, counters, schedule, outcome, world>>

HelperDies(c) ==
  /\ helper[c] \in {"starting", "locked", "unlocking"}
  /\ Happens("helper")
  /\ helper' = [helper EXCEPT ![c] = "died"]
  /\ UNCHANGED <<pc, abort, counters, schedule, outcome, file, orphan, launches>>

OrphanLocks ==
  /\ orphan = "starting"
  /\ orphan' = IF LockIsFree THEN "holding" ELSE "none"
  /\ UNCHANGED <<pc, helper, abort, counters, schedule, outcome, file, mishaps, launches>>

(* Mutant: the helper reads another stdin than the coordinator's pipe, and is *)
(* never told.                                                                *)
MutantOrphanUnlocks ==
  /\ orphan = "holding"
  /\ UNCHANGED vars

(* The pipe to its stdin closed with its parent: unlock and exit. *)
OrphanUnlocks ==
  /\ orphan = "holding"
  /\ orphan' = "none"
  /\ UNCHANGED <<pc, helper, abort, counters, schedule, outcome, file, mishaps, launches>>
-------------------------------------------------------------------------------
(* Admission and the end of the loop. *)

(* Return without a lease. *)
End(c, reason) ==
  /\ Goto(c, "ended")
  /\ outcome' = [outcome EXCEPT ![c] = reason]
  /\ Forget(c)

(* Mutant: release() waits for a helper that it never told to unlock. *)
MutantLeave(c, reason) ==
  /\ Goto(c, "releasing")
  /\ outcome' = [outcome EXCEPT ![c] = reason]
  /\ UNCHANGED helper

(* Leave the loop through its finally block: release() closes the helper's    *)
(* stdin.                                                                     *)
Leave(c, reason) ==
  /\ Goto(c, "releasing")
  /\ outcome' = [outcome EXCEPT ![c] = reason]
  /\ helper' = [helper EXCEPT ![c] = IF @ = "locked" THEN "unlocking" ELSE @]

(* stopped(): the abort's reason, else "failed". *)
StopReason(c) == IF abort[c] # "none" THEN abort[c] ELSE "failed"

RequestLease(c) ==
  /\ pc[c] = "requesting"
  /\ IF abort[c] # "none"
     THEN End(c, "admission_denied") /\ UNCHANGED helper
     ELSE /\ Goto(c, "acquiring")
          /\ helper' = [helper EXCEPT ![c] = "starting"]
          /\ UNCHANGED <<outcome, schedule>>
  /\ UNCHANGED <<abort, counters, world>>

(* The helper said "locked". *)
Admitted(c) ==
  /\ pc[c] = "acquiring"
  /\ helper[c] = "locked"
  /\ abort[c] = "none"
  /\ Goto(c, "checking")
  /\ UNCHANGED <<helper, abort, counters, schedule, outcome, world>>

(* Mutant: the helper is told nothing when its lock comes too late. *)
MutantAdmittedTooLate(c) ==
  /\ pc[c] = "acquiring"
  /\ helper[c] = "locked"
  /\ abort[c] # "none"
  /\ End(c, "admission_denied")
  /\ UNCHANGED <<helper, abort, counters, world>>

(* It said so after an abort: let go of the lock, without waiting for it. *)
AdmittedTooLate(c) ==
  /\ pc[c] = "acquiring"
  /\ helper[c] = "locked"
  /\ abort[c] # "none"
  /\ helper' = [helper EXCEPT ![c] = "unlocking"]
  /\ End(c, "admission_denied")
  /\ UNCHANGED <<abort, counters, world>>

(* Mutant: a helper that exited counts as one that got the lock. *)
MutantDenied(c) ==
  /\ pc[c] = "acquiring"
  /\ helper[c] = "denied"
  /\ Goto(c, "checking")
  /\ UNCHANGED <<helper, abort, counters, schedule, outcome, world>>

(* It exited with 75, or was killed by the abort. *)
Denied(c) ==
  /\ pc[c] = "acquiring"
  /\ helper[c] = "denied" \/ (helper[c] = "died" /\ abort[c] # "none")
  /\ End(c, "admission_denied")
  /\ UNCHANGED <<helper, abort, counters, world>>

AdmissionFails(c) ==
  /\ pc[c] = "acquiring"
  /\ helper[c] = "died"
  /\ abort[c] = "none"
  /\ End(c, "failed")
  /\ Counting(c, [count[c] EXCEPT !.failures = 1])
  /\ UNCHANGED <<helper, abort, limit, world>>

(* A helper that could not be spawned rejects, abort or not. *)
AdmissionAborted(c) ==
  /\ pc[c] = "acquiring"
  /\ helper[c] = "died" /\ "helper" \in mishaps
  /\ abort[c] # "none"
  /\ End(c, StopReason(c))
  /\ UNCHANGED <<helper, abort, counters, world>>

(* release() awaits the helper, and throws if it did not exit with 0. *)
Released(c) ==
  /\ pc[c] = "releasing"
  /\ helper[c] \in {"exited", "died"}
  /\ End(c, IF helper[c] = "died" THEN "thrown" ELSE outcome[c])
  /\ UNCHANGED <<helper, abort, counters, world>>
-------------------------------------------------------------------------------
(* One cycle. *)

(* The condition of the while and the limit. *)
LoopHead(c) ==
  /\ pc[c] = "checking"
  /\ IF abort[c] # "none" THEN Leave(c, StopReason(c))
     ELSE IF limit[c] # 0 /\ count[c].cycles >= limit[c] THEN Leave(c, "max_cycles")
     ELSE Goto(c, "preparing") /\ UNCHANGED <<helper, outcome>>
  /\ UNCHANGED <<abort, counters, schedule, world>>

Least(a, b) == IF a < b THEN a ELSE b

Backoff(i, errors) == Least(i * 2 ^ Least(errors, 30), MaxBackoff)

(* planForPreflight under the interval i. *)
PlanForPreflight(c, i, action) ==
  LET errors == Least(streak[c] + 1, MaxStreak)
  IN  CASE action = "error" -> /\ streak' = [streak EXCEPT ![c] = errors]
                               /\ decision' = [decision EXCEPT ![c] = "error"]
                               /\ plan' = [plan EXCEPT ![c] =
                                    [reason |-> "preflight_error", delay |-> Backoff(i, errors)]]
        [] action = "skip"  -> /\ streak' = [streak EXCEPT ![c] = 0]
                               /\ decision' = [decision EXCEPT ![c] = "idle"]
                               /\ plan' = [plan EXCEPT ![c] =
                                    [reason |-> "preflight_skip", delay |-> IdleInterval]]
        [] action = "start" -> /\ streak' = [streak EXCEPT ![c] = 0]
                               /\ decision' = [decision EXCEPT ![c] = "run"]
                               /\ plan' = [plan EXCEPT ![c] = NoPlan]

(* prepare() resolved, with the instance's configuration and the preflight's  *)
(* action; an abort is not looked at here.                                    *)
Prepared(c) ==
  /\ pc[c] = "preparing"
  /\ \E i \in Intervals, action \in {"start", "skip", "error"} :
       /\ interval' = [interval EXCEPT ![c] = i]
       /\ PlanForPreflight(c, i, action)
       /\ Counting(c, [count[c] EXCEPT !.cycles = @ + 1,
                                       !.failures = IF action = "error" THEN @ + 1 ELSE @])
  /\ Goto(c, "deciding")
  /\ UNCHANGED <<helper, abort, limit, signal, requested, outcome, world>>

(* prepare() threw; it may have updated the intervals before. *)
PrepareFails(c) ==
  /\ pc[c] = "preparing"
  /\ abort[c] = "none"
  /\ \E i \in Intervals : /\ interval' = [interval EXCEPT ![c] = i]
                          /\ PlanForPreflight(c, i, "error")
  /\ Counting(c, [count[c] EXCEPT !.cycles = @ + 1, !.failures = @ + 1])
  /\ Goto(c, "deciding")
  /\ UNCHANGED <<helper, abort, limit, signal, requested, outcome, world>>

PrepareAborted(c) ==
  /\ pc[c] = "preparing"
  /\ abort[c] # "none"
  /\ Leave(c, StopReason(c))
  /\ UNCHANGED <<abort, counters, schedule, world>>

(* cleanupBetweenCycles, which removes the signal first; it may fail.  Its    *)
(* failure is reported and nothing else.                                      *)
CleanUp ==
  \/ file' = NoFile /\ UNCHANGED mishaps
  \/ Happens("cleanup") /\ UNCHANGED file

(* onDecision resolved, or threw: nothing but a report comes of it. *)
DecidedToRun(c) ==
  /\ pc[c] = "deciding"
  /\ decision[c] = "run"
  /\ requested' = [requested EXCEPT ![c] = NoFile]
  /\ signal' = [signal EXCEPT ![c] = NoFile]
  /\ Counting(c, [count[c] EXCEPT !.runs = @ + 1])
  /\ Goto(c, "running")
  /\ UNCHANGED <<helper, abort, limit, interval, streak, decision, plan, outcome, world>>

DecidedToWait(c) ==
  /\ pc[c] = "deciding"
  /\ decision[c] # "run"
  /\ CleanUp
  /\ Goto(c, "sleeping")
  /\ UNCHANGED <<helper, abort, counters, schedule, outcome, orphan, launches>>

(* A skill of the run writes cycle-sleep.json. *)
SkillWritesSignal(c) ==
  /\ pc[c] = "running"
  /\ \E s \in Signals \ {NoFile} : /\ file' = s
                                   /\ requested' = [requested EXCEPT ![c] = s]
  /\ UNCHANGED <<pc, helper, abort, counters, interval, streak, decision, signal, plan,
                 outcome, orphan, mishaps, launches>>

(* Only a loop that was not aborted reads the signal. *)
AfterRun(c) == Goto(c, IF abort[c] = "none" THEN "reading" ELSE "cleaning")

RunReturns(c) ==
  /\ pc[c] = "running"
  /\ Counting(c, [count[c] EXCEPT !.results = @ + 1])
  /\ AfterRun(c)
  /\ UNCHANGED <<helper, abort, limit, schedule, outcome, world>>

RunFails(c) ==
  /\ pc[c] = "running"
  /\ IF abort[c] = "none"
     THEN Counting(c, [count[c] EXCEPT !.failures = @ + 1])
     ELSE UNCHANGED count
  /\ AfterRun(c)
  /\ UNCHANGED <<helper, abort, limit, schedule, outcome, world>>

(* parseSleepSignal, null for whatever is not a recommendation. *)
Parsed(f) == IF f.kind = "malformed" THEN NoFile ELSE f

(* Mutant: the signal is left to the cleanup to remove, and cleaned up first. *)
MutantSignalConsumed(c) ==
  /\ pc[c] = "reading"
  /\ file' = NoFile
  /\ Goto(c, "cleaning")
  /\ UNCHANGED <<helper, abort, counters, schedule, outcome, orphan, mishaps, launches>>

(* consumeSleepSignal: read, parse, unlink; an unlink that fails is ignored. *)
SignalConsumed(c) ==
  /\ pc[c] = "reading"
  /\ signal' = [signal EXCEPT ![c] = Parsed(file)]
  /\ \/ file' = NoFile /\ UNCHANGED mishaps
     \/ file # NoFile /\ Happens("unlink") /\ UNCHANGED file
  /\ Goto(c, "cleaning")
  /\ UNCHANGED <<helper, abort, counters, interval, streak, decision, plan, requested,
                 outcome, orphan, launches>>

SignalUnreadable(c) ==
  /\ pc[c] = "reading"
  /\ Happens("read")
  /\ Counting(c, [count[c] EXCEPT !.failures = @ + 1])
  /\ Goto(c, "cleaning")
  /\ UNCHANGED <<helper, abort, limit, schedule, outcome, file, orphan, launches>>

(* planAfterRun throws for a delay that overflowed, outside every try but     *)
(* the outermost.                                                             *)
PlanAfterRun(c) ==
  IF signal[c].kind = "overflow"
  THEN Leave(c, "thrown") /\ UNCHANGED plan
  ELSE /\ plan' = [plan EXCEPT ![c] =
            [reason |-> "cycle_complete",
             delay  |-> IF signal[c] = NoFile THEN interval[c] ELSE signal[c].delay]]
       /\ Goto(c, "sleeping")
       /\ UNCHANGED <<helper, outcome>>

Cleaned(c) ==
  /\ pc[c] = "cleaning"
  /\ CleanUp
  /\ IF abort[c] # "none" THEN Leave(c, StopReason(c)) /\ UNCHANGED plan
     ELSE PlanAfterRun(c)
  /\ UNCHANGED <<abort, counters, interval, streak, decision, signal, requested, orphan,
                 launches>>

(* The delay passed, or an abort cut it short. *)
Slept(c) ==
  /\ pc[c] = "sleeping"
  /\ IF abort[c] = "none" THEN Goto(c, "checking") /\ UNCHANGED <<helper, outcome>>
     ELSE Leave(c, StopReason(c))
  /\ UNCHANGED <<abort, counters, schedule, world>>
-------------------------------------------------------------------------------
Done ==
  /\ launches = MaxLaunches
  /\ orphan = "none"
  /\ \A c \in Coordinators : pc[c] \in {"down", "ended"} /\ ~Holds(c)
  /\ UNCHANGED vars

Loop(c) ==
  \/ RequestLease(c) \/ Admitted(c) \/ AdmittedTooLate(c) \/ Denied(c)
  \/ AdmissionFails(c) \/ AdmissionAborted(c)
  \/ LoopHead(c) \/ Prepared(c) \/ PrepareFails(c) \/ PrepareAborted(c)
  \/ DecidedToRun(c) \/ DecidedToWait(c) \/ RunReturns(c) \/ RunFails(c)
  \/ SignalConsumed(c) \/ SignalUnreadable(c) \/ Cleaned(c) \/ Slept(c) \/ Released(c)

Helper(c) == HelperLocks(c) \/ HelperUnlocks(c)

Next ==
  \/ \E c \in Coordinators :
       \/ Loop(c) \/ Helper(c) \/ Launch(c) \/ Abort(c) \/ SkillWritesSignal(c)
       \/ HelperTerminated(c) \/ HelperDies(c) \/ Crash(c)
  \/ OrphanLocks \/ OrphanUnlocks
  \/ Done

Spec == Init /\ [][Next]_vars

(* Whatever a loop awaits settles: the bridge's subprocesses and the attempt  *)
(* have timeouts, timers fire, and a helper whose stdin closed exits.         *)
Fairness ==
  /\ \A c \in Coordinators : WF_vars(Loop(c)) /\ WF_vars(Helper(c))
  /\ WF_vars(OrphanLocks \/ OrphanUnlocks)

FairSpec == Spec /\ Fairness
-------------------------------------------------------------------------------
(* Properties. *)

StopReasons == {"shutdown", "cancelled", "admission_denied", "max_cycles", "failed", "thrown"}

Places == {"down", "requesting", "acquiring", "checking", "preparing", "deciding", "running",
           "reading", "cleaning", "sleeping", "releasing", "ended"}

HelperStates == {"none", "starting", "locked", "denied", "unlocking", "exited", "died"}

Plans == [reason : {"none", "preflight_error", "preflight_skip", "cycle_complete"}, delay : Nat]

(* The shape of the state of the loops and of what they share. *)
TypeOK ==
  /\ pc \in [Coordinators -> Places]
  /\ helper \in [Coordinators -> HelperStates]
  /\ abort \in [Coordinators -> {"none", "shutdown", "cancelled"}]
  /\ limit \in [Coordinators -> Limits \cup {0}]
  /\ count \in [Coordinators -> [cycles : Nat, failures : Nat, results : Nat, runs : Nat]]
  /\ interval \in [Coordinators -> Intervals]
  /\ streak \in [Coordinators -> 0..MaxStreak]
  /\ decision \in [Coordinators -> {"none", "run", "idle", "error"}]
  /\ signal \in [Coordinators -> Signals]
  /\ plan \in [Coordinators -> Plans]
  /\ requested \in [Coordinators -> Signals]
  /\ outcome \in [Coordinators -> StopReasons \cup {"none"}]
  /\ file \in Signals
  /\ orphan \in {"none", "starting", "holding"}
  /\ mishaps \subseteq Mishaps
  /\ launches \in 0..MaxLaunches

(* Unless a lock helper was killed, two coordinators never prepare, run,      *)
(* sleep or clean up over one data directory at the same time - not while one *)
(* is being shut down during its admission, nor after a coordinator was       *)
(* killed.  The lock belongs to the helper: only its death breaks this.       *)
OneAdmitted ==
  "helper" \notin mishaps =>
    \A c, d \in Coordinators : InCycle(c) /\ InCycle(d) => c = d

(* The lock outlives no loop: one that is aborted during its admission,       *)
(* denied or stopped lets go of the lock it held, and the helper that a       *)
(* killed coordinator left behind with the lock lets go of it too, because    *)
(* its stdin was a pipe from that coordinator.  A later launch is not denied  *)
(* for ever.                                                                  *)
LockComesFree ==
  /\ \A c \in Coordinators :
       Holds(c) /\ (abort[c] # "none" \/ pc[c] \in {"releasing", "ended"}) ~> ~Holds(c)
  /\ orphan = "holding" ~> orphan # "holding"

(* The delay a run's signal stands for, and the interval when it left none. *)
Wanted(c) == IF requested[c].kind = "valid" THEN requested[c].delay ELSE interval[c]

(* After a run the loop sleeps for as long as that run asked, or for the      *)
(* interval when it did not ask: the signal is read before the cleanup that   *)
(* deletes it, and no other cycle's signal is taken for it.  One failing      *)
(* unlink does not change that.                                               *)
SleepsAsRequested ==
  mishaps \subseteq {"unlink"} =>
    \A c \in Coordinators :
      pc[c] = "sleeping" /\ plan[c].reason = "cycle_complete" => plan[c].delay = Wanted(c)

(* A loop that reports max_cycles made exactly that many cycles, and every    *)
(* run it started is a result or among the failures; one that reports an      *)
(* abort was aborted that way.  The exit code of a one-shot rests on it.      *)
ResultIsHonest ==
  \A c \in Coordinators : pc[c] = "ended" =>
    /\ outcome[c] = "max_cycles" =>
         /\ count[c].cycles = limit[c]
         /\ count[c].runs <= count[c].results + count[c].failures
    /\ outcome[c] \in {"shutdown", "cancelled"} => abort[c] = outcome[c]

(* A coordinator told to stop stops, wherever it is: no admission,            *)
(* preparation, run, cleanup or sleep keeps it, and no loop goes on.          *)
ShutdownStops ==
  \A c \in Coordinators : abort[c] # "none" ~> pc[c] \in {"down", "ended"}
===============================================================================
