---------------------------- MODULE OpenCodeRuntime ----------------------------
(***************************************************************************)
(* One OpenCodeRuntime: its single run() (runtime.ts), the recovery of a   *)
(* lost event stream (reconcile.ts) and its stop(), over the supervisor of *)
(* module OpenCodeSupervisor.                                              *)
(*                                                                         *)
(* The server keeps a log of the session: an execution starts, makes a     *)
(* step and ends.  A position in the log stands for the time stamps the    *)
(* code compares.  The stream delivers the log in order; starts of         *)
(* executions are in the stream only, the rest is kept by the server and   *)
(* can be read back.  A policy notice is a second prompt to the session    *)
(* and may lead to a second execution.                                     *)
(***************************************************************************)
EXTENDS OpenCodeSupervisor

CONSTANT MaxPrompts   \* bound: the prompt of the run and its policy notices

ASSUME RuntimeAssumption == MaxPrompts \in Nat \ {0}

VARIABLES
  pc,              \* where run() is
  aborted,         \* the signal of the active run's controller
  session,         \* whether active.sessionId is set
  prompted,        \* promptAttempted
  outcome,         \* of the run: none, completed, failed
  failure,         \* what run() caught: none, other, leak
  cleanupFailure,  \* the first failure of cleanup(): none, other, leak
  left,            \* history: the consumer left the stream before its end
  stopCall,        \* runtime.stop(): none, waiting, ok, leak, other
  seen,            \* how much of the log the stream has delivered
  startedAt,       \* rootExecutionStartedAt: a position, 0 when undefined
  read,            \* what the reconciliation has read
  log,             \* the session's log at the server
  prompts,         \* prompts the server has taken
  executions       \* executions it has started

run == <<pc, aborted, session, prompted, outcome, failure, cleanupFailure, left>>
client == <<seen, startedAt, read>>
remote == <<log, prompts, executions>>
vars == <<supervisor, tree, run, stopCall, client, remote>>
-------------------------------------------------------------------------------
Before == {"idle", "started", "approving", "preparing", "configuring", "startup", "startupStop"}
Linked == {"session", "prompting", "streaming", "catch", "reconciling"}
Finally == {"interrupt", "return", "remove", "stop", "stopping"}
Ends == {"succeeded", "failed"}     \* or interrupted, which counts as failed

Unread == [messages |-> "unread", info |-> "unread", active |-> "unread", upTo |-> 0, infoUpTo |-> 0]

Init ==
  /\ SupervisorInit
  /\ pc = "idle" /\ aborted = FALSE /\ session = FALSE /\ prompted = FALSE
  /\ outcome = "none" /\ failure = "none" /\ cleanupFailure = "none" /\ left = FALSE
  /\ stopCall = "none"
  /\ seen = 0 /\ startedAt = 0 /\ read = Unread
  /\ log = <<>> /\ prompts = 0 /\ executions = 0

Busy == log # <<>> /\ log[Len(log)] \notin Ends
-------------------------------------------------------------------------------
(* Steps of run() that leave the rest of its state alone *)

Goto(place) ==
  /\ pc' = place
  /\ UNCHANGED <<aborted, session, prompted, outcome, failure, cleanupFailure, left>>

Throw(kind) ==
  /\ pc' = "catch" /\ failure' = kind
  /\ UNCHANGED <<aborted, session, prompted, outcome, cleanupFailure, left>>

Outcome(result) ==
  /\ pc' = "interrupt" /\ outcome' = result /\ failure' = "none"
  /\ UNCHANGED <<aborted, session, prompted, cleanupFailure, left>>

Elsewhere == UNCHANGED <<supervisor, tree, stopCall, client, remote>>

(* run(): refused on a stopped runtime and a second time. *)
RunBegins ==
  /\ pc = "idle" /\ stopCall = "none"
  /\ Goto("started")
  /\ Elsewhere

(* After the started event: no rendered configuration, an aborted signal, or   *)
(* the supervisor's start().                                                   *)
StartCalled ==
  /\ pc = "started"
  /\ Throw("other") \/ (~aborted /\ Goto("approving"))
  /\ Elsewhere

(* The signal is looked at once more after the workspace is approved, but not  *)
(* between the preparation of the state directory and the spawn.               *)
WorkspaceApproved ==
  /\ pc = "approving"
  /\ Throw("other") \/ (~aborted /\ Goto("preparing"))
  /\ Elsewhere

(* mkdtemp.  A directory that the options name instead is never removed, like *)
(* this one when its removal always succeeds.                                 *)
StateDirectoryMade ==
  /\ pc = "preparing"
  /\ directory' = TRUE
  /\ Goto("configuring")
  /\ UNCHANGED <<child, server, exited, termSent, crashed, stopping, settles, awaiting, masked,
                 tree, stopCall, client, remote>>

Spawned ==
  /\ pc = "configuring"
  /\ Spawn
  /\ Goto("startup")
  /\ UNCHANGED <<stopCall, client, remote>>

(* The directory cannot be made; or its contents cannot be written, or the     *)
(* process not be spawned, and the directory is removed again.                 *)
PreparationFails ==
  /\ \/ pc = "preparing" /\ UNCHANGED directory
     \/ pc = "configuring" /\ directory' \in {directory, FALSE}
  /\ Throw("other")
  /\ UNCHANGED <<child, server, exited, termSent, crashed, stopping, settles, awaiting, masked,
                 tree, stopCall, client, remote>>

ServerReady ==
  /\ pc = "startup" /\ leader = "alive" /\ ~aborted /\ ~crashed
  /\ server' = TRUE
  /\ Goto("session")
  /\ UNCHANGED <<child, exited, termSent, crashed, stopping, settles, awaiting, directory, masked,
                 tree, stopCall, client, remote>>

(* Not ready in time, not the server expected, exited or aborted: start()      *)
(* awaits its own stop() before it throws.                                     *)
StartupFails ==
  /\ pc = "startup"
  /\ CallStop("run")
  /\ Goto("startupStop")
  /\ UNCHANGED <<stopCall, client, remote>>
-------------------------------------------------------------------------------
(* The session *)

(* Event stream, policy plugin and session: any of them may fail. *)
SessionCreated ==
  /\ pc = "session" /\ leader = "alive" /\ ~aborted
  /\ pc' = "prompting" /\ session' = TRUE /\ prompted' = TRUE
  /\ UNCHANGED <<aborted, outcome, failure, cleanupFailure, left>>
  /\ Elsewhere

Takes ==
  /\ leader = "alive" /\ prompts < MaxPrompts
  /\ prompts' = prompts + 1
  /\ UNCHANGED <<log, executions>>

PromptTaken ==
  /\ pc = "prompting" /\ prompts = 0
  /\ Takes
  /\ UNCHANGED <<supervisor, tree, run, stopCall, client>>

PromptAnswered ==
  /\ pc = "prompting" /\ prompts > 0 /\ ~aborted
  /\ Goto("streaming")
  /\ Elsewhere

(* deliverPolicyNotice, once the session is known. *)
Notice ==
  /\ pc \in {"prompting", "streaming"} /\ prompts > 0 /\ ~aborted
  /\ Takes
  /\ UNCHANGED <<supervisor, tree, run, stopCall, client>>

(* Events of the session; what ends an execution ends the run. *)
Delivered ==
  /\ pc = "streaming" /\ seen < Len(log)
  /\ seen' = seen + 1
  /\ startedAt' = IF log[seen'] = "start" THEN seen' ELSE startedAt
  /\ IF log[seen'] \in Ends
       THEN Outcome(IF log[seen'] = "succeeded" THEN "completed" ELSE "failed")
       ELSE UNCHANGED run
  /\ UNCHANGED <<supervisor, tree, stopCall, read, remote>>

(* A permission or a form is asked for: nobody is there to answer. *)
PermissionAsked ==
  /\ pc = "streaming"
  /\ Outcome("failed")
  /\ Elsewhere

(* A request fails or its answer is lost, the stream ends or is aborted. *)
SessionFails ==
  /\ pc \in {"session", "prompting", "streaming"}
  /\ Throw("other")
  /\ Elsewhere

(* The consumer returns the generator at one of its yields. *)
ConsumerLeaves ==
  /\ pc \in {"started", "streaming"}
  /\ pc' = "interrupt" /\ left' = TRUE
  /\ UNCHANGED <<aborted, session, prompted, outcome, failure, cleanupFailure>>
  /\ Elsewhere
-------------------------------------------------------------------------------
(* catch: only a run that was neither aborted nor crashed is reconciled *)

Caught ==
  /\ pc = "catch"
  /\ Goto(IF prompted /\ ~crashed /\ ~aborted THEN "reconciling" ELSE "interrupt")
  /\ Elsewhere

(* The three reads go on at the same time, and each may fail. *)
ReadMessages ==
  /\ pc = "reconciling" /\ read.messages = "unread"
  /\ \/ read' = [read EXCEPT !.messages = "failed"]
     \/ leader = "alive" /\ read' = [read EXCEPT !.messages = "read", !.upTo = Len(log)]
  /\ UNCHANGED <<supervisor, tree, run, stopCall, seen, startedAt, remote>>

ReadInfo ==
  /\ pc = "reconciling" /\ read.info = "unread"
  /\ \/ read' = [read EXCEPT !.info = "failed"]
     \/ leader = "alive" /\ read' = [read EXCEPT !.info = "read", !.infoUpTo = Len(log)]
  /\ UNCHANGED <<supervisor, tree, run, stopCall, seen, startedAt, remote>>

ReadActive ==
  /\ pc = "reconciling" /\ read.active = "unread"
  /\ \/ read' = [read EXCEPT !.active = "failed"]
     \/ leader = "alive" /\ read' = [read EXCEPT !.active = IF Busy THEN "busy" ELSE "inactive"]
  /\ UNCHANGED <<supervisor, tree, run, stopCall, seen, startedAt, remote>>

(* The latest end of an execution among the first n entries, and the latest    *)
(* evidence of work: 0 when there is none.                                     *)
Latest(n, kinds) ==
  LET found == {i \in 1..n : log[i] \in kinds}
  IN  IF found = {} THEN 0 ELSE CHOOSE i \in found : \A j \in found : j <= i

(* An end counts if no message is newer than it and it is later than the last  *)
(* execution seen to start.                                                    *)
FreshEnd(upTo) ==
  LET idle == Latest(upTo, Ends)
  IN  IF idle > Latest(upTo, {"step"}) /\ idle > startedAt THEN idle ELSE 0

(* Without any message of an end, the projection of the session itself counts, *)
(* if no execution was seen to start.                                          *)
ProjectedEnd ==
  LET idle == Latest(read.infoUpTo, Ends)
  IN  IF /\ read.info = "read" /\ Latest(read.upTo, Ends) = 0
         /\ startedAt = 0 /\ idle > Latest(read.upTo, {"step"})
      THEN idle ELSE 0

(* Mutant: an inactive session's last end is taken for the end of its work. *)
MutantRecoveredEnd ==
  IF read.active = "inactive" THEN Latest(read.upTo, Ends) ELSE 0

RecoveredEnd ==
  IF read.active # "inactive" THEN 0
  ELSE IF FreshEnd(read.upTo) # 0 THEN FreshEnd(read.upTo)
  ELSE ProjectedEnd

AllRead == read.messages # "unread" /\ read.info # "unread" /\ read.active # "unread"

Reconciled ==
  /\ pc = "reconciling" /\ AllRead
  /\ IF aborted \/ RecoveredEnd = 0 THEN Goto("interrupt")
     ELSE Outcome(IF log[RecoveredEnd] = "succeeded" THEN "completed" ELSE "failed")
  /\ Elsewhere

(* The consumer leaves at one of the recovered events. *)
RecoveryLeft ==
  /\ pc = "reconciling" /\ AllRead
  /\ pc' = "interrupt" /\ left' = TRUE
  /\ UNCHANGED <<aborted, session, prompted, outcome, failure, cleanupFailure>>
  /\ Elsewhere
-------------------------------------------------------------------------------
(* finally: cleanup() *)

NextCleanup == [interrupt |-> "return", return |-> "remove", remove |-> "stop"]

(* Interrupt and remove need a session; each call may fail, and the first      *)
(* failure is the one that is kept.  Nobody looks at the session's log again:  *)
(* it is forgotten here, as the server forgets it when the session is removed. *)
CleanupStep ==
  /\ pc \in DOMAIN NextCleanup
  /\ pc' = NextCleanup[pc]
  /\ \/ UNCHANGED cleanupFailure
     \/ /\ pc = "return" \/ session
        /\ cleanupFailure' = "other"
  /\ seen' = 0 /\ startedAt' = 0 /\ read' = Unread
  /\ log' = <<>> /\ prompts' = 0 /\ executions' = 0
  /\ UNCHANGED <<aborted, session, prompted, outcome, failure, left>>
  /\ UNCHANGED <<supervisor, tree, stopCall>>

CleanupStops ==
  /\ pc = "stop"
  /\ CallStop("run")
  /\ Goto("stopping")
  /\ UNCHANGED <<stopCall, client, remote>>

FirstFailure(result) ==
  IF cleanupFailure = "none" /\ result # "ok" THEN result ELSE cleanupFailure

(* The promise of stop() settles: its callers go on.  start() then throws its  *)
(* own error, or that of its stop().                                           *)
StopSettles ==
  /\ stopping = "removing"
  /\ stopping' = "idle" /\ awaiting' = {} /\ settles' = "ok"
  /\ UNCHANGED <<child, server, exited, termSent, crashed, directory, masked, tree>>
  /\ stopCall' = IF "stop" \in awaiting THEN settles ELSE stopCall
  /\ IF "run" \notin awaiting THEN UNCHANGED run
     ELSE IF pc = "startupStop" THEN Throw(IF settles = "leak" THEN "leak" ELSE "other")
     ELSE /\ pc' = "over"
          /\ cleanupFailure' = FirstFailure(settles)
          /\ failure' = IF failure = "none" THEN FirstFailure(settles) ELSE failure
          /\ outcome' = IF outcome = "none" THEN "failed" ELSE outcome
          /\ UNCHANGED <<aborted, session, prompted, left>>
  /\ UNCHANGED <<client, remote>>

(* The flag of the terminal event. *)
ResourceLeak == failure = "leak" \/ cleanupFailure = "leak"
-------------------------------------------------------------------------------
(* Aborts, crashes and runtime.stop() *)

RunAborted ==
  /\ pc \notin {"idle", "over"} /\ ~aborted
  /\ aborted' = TRUE
  /\ UNCHANGED <<pc, session, prompted, outcome, failure, cleanupFailure, left>>
  /\ Elsewhere

(* A crash aborts the run while the crash signal is linked to it. *)
CrashObserved ==
  /\ ObservesExit
  /\ aborted' = (aborted \/ (crashed' /\ pc \in Linked))
  /\ UNCHANGED <<pc, session, prompted, outcome, failure, cleanupFailure, left>>
  /\ UNCHANGED <<stopCall, client, remote>>

RuntimeStops ==
  /\ stopCall = "none"
  /\ stopCall' = "waiting"
  /\ CallStop("stop")
  /\ aborted' = (aborted \/ pc \notin {"idle", "over"})
  /\ UNCHANGED <<pc, session, prompted, outcome, failure, cleanupFailure, left>>
  /\ UNCHANGED <<client, remote>>

SupervisorSteps ==
  /\ StopStep
  /\ UNCHANGED <<run, stopCall, client, remote>>

ProcessSteps ==
  /\ ProcessStep
  /\ UNCHANGED <<run, stopCall, client, remote>>

(* The server: one execution at a time, each a start, a step and an end.  What *)
(* it does once the run no longer looks is left out.                           *)
Executes ==
  /\ leader = "alive" /\ pc \in Linked
  /\ \/ /\ ~Busy /\ executions < prompts
        /\ executions' = executions + 1
        /\ log' = Append(log, "start")
     \/ /\ Busy
        /\ \E entry \in Ends \cup {"step"} :
             /\ entry = "step" => log[Len(log)] = "start"
             /\ log' = Append(log, entry)
        /\ UNCHANGED executions
  /\ UNCHANGED <<supervisor, tree, run, stopCall, client, prompts>>

(* Nothing is left to do. *)
Over == pc \in {"idle", "over"} /\ stopCall \in {"ok", "leak", "other"} /\ UNCHANGED vars
-------------------------------------------------------------------------------
Run ==
  \/ StartCalled \/ WorkspaceApproved \/ StateDirectoryMade \/ Spawned \/ PreparationFails \/ ServerReady \/ StartupFails
  \/ SessionCreated \/ PromptAnswered \/ Delivered \/ PermissionAsked \/ SessionFails
  \/ Caught \/ ReadMessages \/ ReadInfo \/ ReadActive \/ Reconciled \/ RecoveryLeft
  \/ CleanupStep \/ CleanupStops

Next ==
  \/ RunBegins \/ Run \/ ConsumerLeaves \/ PromptTaken \/ Notice
  \/ RunAborted \/ CrashObserved \/ RuntimeStops \/ SupervisorSteps \/ StopSettles
  \/ ProcessSteps \/ Executes \/ Over

Spec == Init /\ [][Next]_vars

(* After an abort every await of run() settles: requests are bounded by the    *)
(* controller, the cleanup by its deadline; stop() has its timers.  Processes  *)
(* need not die and the server need not do anything.                           *)
Fairness ==
  /\ WF_vars(aborted /\ Run)
  /\ WF_vars(SupervisorSteps)
  /\ WF_vars(StopSettles)

FairSpec == Spec /\ Fairness
-------------------------------------------------------------------------------
(* Everything keeps the shape the other properties read it in. *)
TypeOK ==
  /\ SupervisorTypeOK
  /\ pc \in Before \cup Linked \cup Finally \cup {"over"}
  /\ aborted \in BOOLEAN /\ session \in BOOLEAN /\ prompted \in BOOLEAN /\ left \in BOOLEAN
  /\ outcome \in {"none", "completed", "failed"}
  /\ failure \in {"none", "other", "leak"} /\ cleanupFailure \in {"none", "other", "leak"}
  /\ stopCall \in {"none", "waiting", "ok", "leak", "other"}
  /\ log \in Seq(Ends \cup {"start", "step"})
  /\ seen \in 0..Len(log) /\ startedAt \in 0..seen
  /\ prompts \in 0..MaxPrompts /\ executions \in 0..prompts
  /\ read \in [messages : {"unread", "failed", "read"}, info : {"unread", "failed", "read"},
               active : {"unread", "failed", "inactive", "busy"},
               upTo : 0..Len(log), infoUpTo : 0..Len(log)]

(* When the run is over and no stop is under way, a server process that is     *)
(* still there was reported: by the flag of the terminal, or to the caller of  *)
(* stop(), or an earlier failure of the same cleanup stands for it.  A stop    *)
(* that came while start() had no child yet, a crash, descendants that outlive *)
(* the leader and a stop that two callers share change nothing about that.     *)
(* The one thing that does is a state directory that cannot be removed: the    *)
(* error of rm then takes the place of the leak's, and all that is left is     *)
(* that start(), the cleanup or stop() failed with it.  A consumer that left   *)
(* the stream is not told.                                                     *)
NoSilentSurvivor ==
  pc = "over" /\ stopping = "idle" /\ GroupExists /\ ~left
    => \/ ResourceLeak \/ stopCall = "leak" \/ cleanupFailure = "other"
       \/ masked /\ (failure = "other" \/ stopCall = "other")

(* A run is completed only on an execution that succeeded, later than the last *)
(* one seen to start, with no step after it in what was read: the idle state   *)
(* an earlier execution left is not taken for the end of a later one           *)
(* (reconcileSession).                                                         *)
EarnedBy(i) ==
  /\ log[i] = "succeeded" /\ i > startedAt
  /\ \A j \in i + 1 .. read.upTo : log[j] = "start"

CompletedIsEarned ==
  [][outcome # "completed" /\ outcome' = "completed" => \E i \in DOMAIN log : EarnedBy(i)]_vars

(* stop() ends the run and comes to an end itself, whatever run() was doing    *)
(* and although processes may survive.                                         *)
StopEndsRun ==
  stopCall = "waiting" ~> (pc \in {"idle", "over"} /\ stopCall # "waiting" /\ stopping = "idle")
===============================================================================
