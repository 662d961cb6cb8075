------------------------------- MODULE Dispatcher -------------------------------
(***************************************************************************)
(* The agent dispatcher process: its startup and shutdown (index.ts), the  *)
(* loop of cycles (dispatcher-loop.ts, dispatcher-cycle.ts) and the        *)
(* in-memory reservations of SessionDispatcher (dispatch-sessions.ts).     *)
(*                                                                         *)
(* One cycle at a time walks the configuration repositories and their      *)
(* agent profiles; the sessions it dispatches go on beside it.  A session  *)
(* is known here by the slot of its reservation and confirmation handle;   *)
(* module SandboxSession shows what its completion is worth.  Whoever      *)
(* holds the handle of a dispatch may confirm at any time, and may do so   *)
(* long after the session is over.                                         *)
(***************************************************************************)
EXTENDS WorkPreflight, FiniteSets

CONSTANTS
  Agents,         \* opaque agent ids: a repository and a profile of it
  Repositories,   \* the configured repositories, each the sequence of its profiles
  Sessions,       \* slots for reservations and their handles
  NoSession,
  Preflights,     \* the sequences of script endings a preflight may have
  CheckInterval   \* the cooldown between two checks of a profile

ASSUME DispatcherAssumption ==
  /\ Agents # {}
  /\ Repositories \in Seq(Seq(Agents))
  /\ NoSession \notin Sessions
  /\ Preflights \subseteq Seq(Endings)
  /\ CheckInterval \in Nat

VARIABLES
  startup,        \* how far start() is
  shuttingDown,   \* the flag of index.ts
  aborted,        \* stopController.signal.aborted
  exitCode,       \* process.exitCode
  drain,          \* how far drainOperations() is, and how it ended
  loop,           \* where the loop and its cycle are
  at,             \* the repository and the profile of the cycle
  token,          \* whether this cycle has a memory credential
  decision,       \* what the preflight of the current profile decided
  age,            \* time since each profile was last checked, up to CheckInterval
  reservation,    \* SessionDispatcher.inFlight
  session,        \* the sessions behind the reservations and the handles
  sessionRuns,    \* the set of that name in index.ts
  unresolved,     \* unresolvedSessionResult of index.ts
  closed,         \* SessionDispatcher.closed
  waiter          \* a caller of SessionDispatcher.drain

process == <<startup, shuttingDown, aborted, exitCode, drain>>
cycle == <<loop, at, token, decision, age>>
sessions == <<reservation, session, sessionRuns, unresolved, closed, waiter>>
vars == <<process, cycle, sessions>>
-------------------------------------------------------------------------------
StartupStages == {"configuring", "minting", "probeMissing", "probeInvalid", "probeReal",
                  "connecting", "ready", "over", "failed"}
LoopPlaces == {"off", "head", "minting", "repository", "syncing", "discovering", "profile",
               "preparing", "preflighting", "deciding", "launching", "sleeping", "ended"}
DrainStages == {"idle", "startup", "loop", "sessions", "success", "failure", "killed"}

(* A session is reserved until its callback runs; it is over when its          *)
(* completion was known or somebody confirmed it.                              *)
Phases == {"reserved", "running", "retained", "over"}

Live == {s \in Sessions : session[s].phase # "over"}
Reserved == {s \in Sessions : \E a \in Agents : reservation[a] = s}
Alive == drain # "killed"

Init ==
  /\ startup = "configuring" /\ shuttingDown = FALSE /\ aborted = FALSE
  /\ exitCode = "unset" /\ drain = "idle"
  /\ loop = "off" /\ at = [repository |-> 1, profile |-> 1] /\ token = FALSE
  /\ decision = Undecided /\ age = [a \in Agents |-> CheckInterval]
  /\ reservation = [a \in Agents |-> NoSession]
  /\ session = [s \in Sessions |-> [agent |-> CHOOSE a \in Agents : TRUE, phase |-> "over"]]
  /\ sessionRuns = {} /\ unresolved = FALSE
  /\ closed = FALSE /\ waiter = [state |-> "none", on |-> {}]
-------------------------------------------------------------------------------
(* start() *)

(* fail(): no signal is raised and nothing is left to drain. *)
Fail ==
  /\ startup' = "failed"
  /\ shuttingDown' = TRUE
  /\ exitCode' = "1"
  /\ UNCHANGED <<aborted, drain, cycle, sessions>>

Configured ==
  /\ startup = "configuring"
  /\ startup' = "minting"
  /\ UNCHANGED <<shuttingDown, aborted, exitCode, drain, cycle, sessions>>

ConfigurationFails == startup = "configuring" /\ Fail

(* CredentialProvider.get: mint, then both probes the endpoint must refuse,    *)
(* then the credential itself.  The gateway is connected last.                 *)
After == [minting |-> "probeMissing", probeMissing |-> "probeInvalid",
          probeInvalid |-> "probeReal", probeReal |-> "connecting"]

CredentialStep ==
  /\ startup \in DOMAIN After
  /\ startup' = IF startup = "probeReal" /\ shuttingDown THEN "over" ELSE After[startup]
  /\ UNCHANGED <<shuttingDown, aborted, exitCode, drain, cycle, sessions>>

(* A failure after a shutdown began is that of the shutdown, which reports it. *)
StartupStepFails ==
  /\ startup \in DOMAIN After \cup {"connecting"}
  /\ \/ /\ shuttingDown
        /\ startup' = "over"
        /\ UNCHANGED <<shuttingDown, aborted, exitCode, drain, cycle, sessions>>
     \/ ~shuttingDown /\ Fail

Ready ==
  /\ startup = "connecting" /\ ~aborted
  /\ startup' = "ready"
  /\ loop' \in {"head", "off"}     \* without repositories there is no loop
  /\ UNCHANGED <<shuttingDown, aborted, exitCode, drain, at, token, decision, age, sessions>>
-------------------------------------------------------------------------------
(* SessionDispatcher *)

SetPhase(s, phase) == session' = [session EXCEPT ![s].phase = phase]

(* A reservation ends for good: the agent is free and drain() hears of it. *)
Release(s) ==
  /\ reservation' = [reservation EXCEPT ![session[s].agent] = NoSession]
  /\ SetPhase(s, "over")
  /\ waiter' = [waiter EXCEPT !.on = @ \ {s}]

(* What dispatch() answers, in the order of its checks. *)
DispatchStatus(a) ==
  IF closed THEN "shutdown"
  ELSE IF Admission(decision) # "admit" THEN Admission(decision)
  ELSE IF reservation[a] # NoSession THEN "busy"
  ELSE "started"

Reserve(a, s) ==
  /\ reservation' = [reservation EXCEPT ![a] = s]
  /\ session' = [session EXCEPT ![s] = [agent |-> a, phase |-> "reserved"]]

(* The callback's completion arrives: a known one releases, any other retains. *)
Complete(s, completion) ==
  IF completion = "unknown"
    THEN SetPhase(s, "retained") /\ UNCHANGED <<reservation, waiter>>
    ELSE Release(s)

(* Mutant: a handle confirms whatever reservation its agent has now. *)
MutantConfirmable(s) ==
  LET held == reservation[session[s].agent]
  IN  held # NoSession /\ session[held].phase = "retained"

(* confirm() of a handle counts only for the reservation it came with. *)
Confirmable(s) == reservation[session[s].agent] = s /\ session[s].phase = "retained"

Confirm(s) ==
  /\ Confirmable(s)
  /\ Release(s)
  /\ UNCHANGED <<process, cycle, sessionRuns, unresolved, closed>>

(* drain(), with or without the closing of shutdown(). *)
Drain(closing) ==
  /\ waiter.state # "waiting"
  /\ closed' = closing
  /\ waiter' = [state |-> "waiting", on |-> Reserved]
  /\ UNCHANGED <<process, cycle, reservation, session, sessionRuns, unresolved>>

DrainLooksAgain ==
  /\ waiter.state = "waiting" /\ waiter.on = {}
  /\ waiter' = IF Reserved = {} THEN [state |-> "drained", on |-> {}]
                                ELSE [state |-> "waiting", on |-> Reserved]
  /\ UNCHANGED <<process, cycle, reservation, session, sessionRuns, unresolved, closed>>
-------------------------------------------------------------------------------
(* runDispatcherLoop and runDispatcherCycle *)

Profiles == Repositories[at.repository]
Current == Profiles[at.profile]

Goto(place) ==
  /\ loop' = place
  /\ UNCHANGED <<at, token, decision, age>>

NextProfile ==
  /\ loop' = "profile"
  /\ at' = [at EXCEPT !.profile = @ + 1]
  /\ decision' = Undecided
  /\ UNCHANGED <<token, age>>

NextRepository ==
  /\ loop' = "repository"
  /\ at' = [repository |-> at.repository + 1, profile |-> 1]
  /\ UNCHANGED <<token, decision, age>>

LoopHead ==
  /\ loop = "head"
  /\ Goto(IF aborted THEN "ended" ELSE "minting")
  /\ UNCHANGED <<process, sessions>>

(* One credential for the whole cycle; without it every profile fails. *)
CredentialMinted ==
  /\ loop = "minting"
  /\ loop' = "repository"
  /\ at' = [repository |-> 1, profile |-> 1]
  /\ token' \in BOOLEAN
  /\ UNCHANGED <<decision, age, process, sessions>>

RepositoryHead ==
  /\ loop = "repository"
  /\ Goto(IF aborted \/ at.repository > Len(Repositories) THEN "sleeping" ELSE "syncing")
  /\ UNCHANGED <<process, sessions>>

Synced ==
  /\ loop = "syncing"
  /\ Goto("discovering")
  /\ UNCHANGED <<process, sessions>>

Discovered ==
  /\ loop = "discovering"
  /\ Goto("profile")
  /\ UNCHANGED <<process, sessions>>

(* Mutant: a repository that fails ends the cycle. *)
MutantRepositoryFails ==
  /\ loop \in {"syncing", "discovering"}
  /\ Goto("sleeping")
  /\ UNCHANGED <<process, sessions>>

(* sync-error, discovery-error: this repository is left out of the cycle. *)
RepositoryFails ==
  /\ loop \in {"syncing", "discovering"}
  /\ NextRepository
  /\ UNCHANGED <<process, sessions>>

(* The profile is passed over, or its check is noted before the preflight. *)
ProfileHead ==
  /\ loop = "profile"
  /\ IF aborted \/ at.profile > Len(Profiles) THEN NextRepository
     ELSE IF ~token \/ reservation[Current] # NoSession \/ age[Current] < CheckInterval
       THEN NextProfile
       ELSE /\ loop' = "preparing"
            /\ age' = [age EXCEPT ![Current] = 0]
            /\ UNCHANGED <<at, token, decision>>
  /\ UNCHANGED <<process, sessions>>

Prepared ==
  /\ loop = "preparing"
  /\ Goto("preflighting")
  /\ UNCHANGED <<process, sessions>>

(* runWorkPreflight answers with the endings of the scripts, or undecided. *)
Preflighted ==
  /\ loop = "preflighting"
  /\ loop' = "deciding"
  /\ \/ decision' = Undecided
     \/ \E endings \in Preflights : decision' = Decision(endings, aborted)
  /\ UNCHANGED <<at, token, age, process, sessions>>

(* The environment, the private runtime or its disposal fails. *)
ProfileFails ==
  /\ loop \in {"preparing", "deciding"}
  /\ NextProfile
  /\ UNCHANGED <<process, sessions>>

(* dispatch(), the moment the cycle knows it was not aborted meanwhile. *)
Dispatch ==
  /\ loop = "deciding"
  /\ IF ~aborted /\ DispatchStatus(Current) = "started"
       THEN /\ \E s \in Sessions \ Live : Reserve(Current, s)
            /\ Goto("launching")
       ELSE NextProfile /\ UNCHANGED <<reservation, session>>
  /\ UNCHANGED <<process, sessionRuns, unresolved, closed, waiter>>

(* The deferred callback: launch() registers the run before anything else, or  *)
(* does not begin one.                                                         *)
Launch ==
  /\ loop = "launching"
  /\ LET s == reservation[Current]
     IN IF aborted
          THEN Complete(s, "not-created") /\ UNCHANGED sessionRuns
          ELSE /\ SetPhase(s, "running")
               /\ sessionRuns' = sessionRuns \cup {s}
               /\ UNCHANGED <<reservation, waiter>>
  /\ NextProfile
  /\ UNCHANGED <<process, unresolved, closed>>

SleepEnds ==
  /\ loop = "sleeping"
  /\ Goto("head")
  /\ UNCHANGED <<process, sessions>>

(* launch() after the session: an unresolved one is remembered, the run is     *)
(* forgotten and its completion handed to the reservation.                     *)
SessionEnds(s, completion) ==
  /\ s \in sessionRuns
  /\ sessionRuns' = sessionRuns \ {s}
  /\ unresolved' = (unresolved \/ completion = "unknown")
  /\ Complete(s, completion)
  /\ UNCHANGED <<process, cycle, closed>>

Tick ==
  /\ \E a \in Agents : age[a] < CheckInterval
  /\ age' = [a \in Agents |-> IF age[a] < CheckInterval THEN age[a] + 1 ELSE age[a]]
  /\ UNCHANGED <<process, loop, at, token, decision, sessions>>
-------------------------------------------------------------------------------
(* shutdown(), drainOperations() and the deadline *)

Terminate ==
  /\ ~shuttingDown
  /\ shuttingDown' = TRUE
  /\ aborted' = TRUE
  /\ exitCode' = IF exitCode = "unset" THEN "0" ELSE exitCode
  /\ drain' = "startup"
  /\ UNCHANGED <<startup, cycle, sessions>>

DrainGoes(stage) ==
  /\ drain' = stage
  /\ UNCHANGED <<startup, shuttingDown, aborted, exitCode, cycle, sessions>>

(* Mutant: the sessions are drained without waiting for the loop. *)
MutantStartupDrained ==
  /\ drain = "startup" /\ startup \in {"ready", "over", "failed"}
  /\ DrainGoes("sessions")

(* In producer order: start() registers the loop, the loop registers sessions. *)
StartupDrained ==
  /\ drain = "startup" /\ startup \in {"ready", "over", "failed"}
  /\ DrainGoes("loop")

LoopDrained ==
  /\ drain = "loop" /\ loop \in {"off", "ended"}
  /\ DrainGoes("sessions")

(* Mutant: reservations are awaited instead of the runs. *)
MutantSessionsDrained ==
  /\ drain = "sessions" /\ Reserved = {}
  /\ drain' = IF unresolved THEN "failure" ELSE "success"
  /\ exitCode' = IF unresolved THEN "1" ELSE exitCode
  /\ UNCHANGED <<startup, shuttingDown, aborted, cycle, sessions>>

SessionsDrained ==
  /\ drain = "sessions" /\ sessionRuns = {}
  /\ drain' = IF unresolved THEN "failure" ELSE "success"
  /\ exitCode' = IF unresolved THEN "1" ELSE exitCode
  /\ UNCHANGED <<startup, shuttingDown, aborted, cycle, sessions>>

(* The deadline passes: process.exit(1) whatever is under way. *)
Deadline ==
  /\ drain \in {"startup", "loop", "sessions"}
  /\ drain' = "killed"
  /\ exitCode' = "1"
  /\ UNCHANGED <<startup, shuttingDown, aborted, cycle, sessions>>

Finished ==
  \/ drain \in {"success", "failure"}
  \/ (startup = "failed" /\ drain = "idle")

(* Nothing keeps the process: the same state again. *)
Gone == (Finished \/ ~Alive) /\ UNCHANGED vars
-------------------------------------------------------------------------------
Start == Configured \/ ConfigurationFails \/ CredentialStep \/ StartupStepFails \/ Ready

Cycle ==
  \/ LoopHead \/ CredentialMinted \/ RepositoryHead \/ Synced \/ Discovered \/ RepositoryFails
  \/ ProfileHead \/ Prepared \/ Preflighted \/ ProfileFails \/ Dispatch \/ Launch \/ SleepEnds

DrainOperations == StartupDrained \/ LoopDrained \/ SessionsDrained

SessionStep(s) == \E completion \in {"gone", "not-created", "unknown"} : SessionEnds(s, completion)

Next ==
  \/ /\ Alive
     /\ \/ Start \/ Cycle \/ Terminate \/ DrainOperations \/ Deadline \/ Tick \/ DrainLooksAgain
        \/ \E s \in Sessions : SessionStep(s) \/ Confirm(s)
        \/ \E closing \in {closed, TRUE} : Drain(closing)
  \/ Gone

Spec == Init /\ [][Next]_vars

(* Startup requests, Git commands, scripts and gateway calls have deadlines,   *)
(* and a session comes to an end after an abort (ShutdownEndsSession of module *)
(* SandboxSession).  Nothing is assumed of the deadline of the shutdown, of    *)
(* confirmations or of signals.                                                *)
Fairness ==
  /\ WF_vars(Alive /\ Start)
  /\ WF_vars(Alive /\ Cycle)
  /\ WF_vars(Alive /\ DrainOperations)
  /\ \A s \in Sessions : WF_vars(Alive /\ aborted /\ SessionStep(s))

FairSpec == Spec /\ Fairness
-------------------------------------------------------------------------------
(* Everything keeps the shape the other properties read it in. *)
TypeOK ==
  /\ startup \in StartupStages /\ drain \in DrainStages /\ loop \in LoopPlaces
  /\ shuttingDown \in BOOLEAN /\ aborted \in BOOLEAN /\ exitCode \in {"unset", "0", "1"}
  /\ at \in [repository : Nat \ {0}, profile : Nat \ {0}]
  /\ token \in BOOLEAN /\ decision \in Decisions
  /\ age \in [Agents -> 0..CheckInterval]
  /\ reservation \in [Agents -> Sessions \cup {NoSession}]
  /\ session \in [Sessions -> [agent : Agents, phase : Phases]]
  /\ sessionRuns \in SUBSET Sessions /\ unresolved \in BOOLEAN
  /\ closed \in BOOLEAN
  /\ waiter \in [state : {"none", "waiting", "drained"}, on : SUBSET Sessions]

(* At most one session of an agent may exist at any time: a session that runs, *)
(* or whose end nobody knows, keeps its agent reserved through later cycles,   *)
(* completions and stale confirmations (SessionDispatcher).                    *)
OneSessionPerAgent ==
  /\ \A s, t \in Live : session[s].agent = session[t].agent => s = t
  /\ \A s \in Live : reservation[session[s].agent] = s

(* The process claims a clean shutdown only when the loop is over, no session  *)
(* is under way and none it ever launched ended without a known result         *)
(* (drainOperations awaits producers in order, and remembers).                 *)
CleanExitMeansResolved ==
  drain = "success" => loop \in {"off", "ended"} /\ Live = {} /\ startup # "connecting"

(* A drained dispatcher that was closed has no session left and gets no more   *)
(* (SessionDispatcher.shutdown stops admissions before it waits).              *)
DrainedStaysEmpty == closed /\ waiter.state = "drained" => Live = {}

(* No failing repository, busy agent or retained reservation keeps a cycle     *)
(* from coming to each repository again and again (runDispatcherLoop).         *)
EveryRepositoryServed ==
  \A i \in DOMAIN Repositories :
    []<>(shuttingDown \/ loop = "off" \/ (loop = "syncing" /\ at.repository = i))

(* A shutdown settles without its deadline, whatever start, loop and sessions  *)
(* were doing, and also when reservations stay unresolved.                     *)
ShutdownSettles == aborted ~> (Finished \/ ~Alive)
===============================================================================
