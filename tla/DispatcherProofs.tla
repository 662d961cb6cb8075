---------------------------- MODULE DispatcherProofs ----------------------------
(***************************************************************************)
(* What the dispatcher promises for any agents, repositories, preflights   *)
(* and number of sessions: one session per agent, a drained dispatcher     *)
(* that stays empty, and a clean exit that leaves nothing behind.          *)
(***************************************************************************)
EXTENDS Dispatcher, TLAPS

(* TypeOK by the parts of the state. *)
ProcessOK ==
  /\ startup \in StartupStages /\ drain \in DrainStages
  /\ shuttingDown \in BOOLEAN /\ aborted \in BOOLEAN /\ exitCode \in {"unset", "0", "1"}

CycleOK ==
  /\ loop \in LoopPlaces /\ at \in [repository : Nat \ {0}, profile : Nat \ {0}]
  /\ token \in BOOLEAN /\ decision \in Decisions
  /\ age \in [Agents -> 0..CheckInterval]

SessionsOK ==
  /\ reservation \in [Agents -> Sessions \cup {NoSession}]
  /\ session \in [Sessions -> [agent : Agents, phase : Phases]]
  /\ sessionRuns \in SUBSET Sessions /\ unresolved \in BOOLEAN
  /\ closed \in BOOLEAN

WaiterOK == waiter \in [state : {"none", "waiting", "drained"}, on : SUBSET Sessions]

LEMMA TypeParts == TypeOK <=> ProcessOK /\ CycleOK /\ SessionsOK /\ WaiterOK
BY DEF TypeOK, ProcessOK, CycleOK, SessionsOK, WaiterOK

(* Where the cycle is, it is at a repository, and at a profile of it. *)
InRepository == {"syncing", "discovering", "profile", "preparing", "preflighting", "deciding", "launching"}
InProfile    == {"preparing", "preflighting", "deciding", "launching"}

Standing ==
  /\ loop \in InRepository => at.repository \in DOMAIN Repositories
  /\ loop \in InProfile => at.profile \in DOMAIN Profiles

(* Reservations and live sessions name each other; a session waits for its     *)
(* callback only while the cycle is at it, runs only while it is registered,   *)
(* and is retained only after its end was noted as unresolved.                 *)
Slots ==
  /\ \A a \in Agents : reservation[a] # NoSession =>
       session[reservation[a]].agent = a /\ session[reservation[a]].phase # "over"
  /\ \A s \in Sessions :
       /\ session[s].phase # "over" => reservation[session[s].agent] = s
       /\ s \in sessionRuns <=> session[s].phase = "running"
       /\ session[s].phase = "reserved" => loop = "launching" /\ reservation[Current] = s
       /\ session[s].phase = "retained" => unresolved
  /\ loop = "launching" =>
       reservation[Current] # NoSession /\ session[reservation[Current]].phase = "reserved"

(* The loop begins with the end of the startup, and the drain is past a        *)
(* producer only when the producer has ended.                                  *)
InOrder ==
  /\ loop # "off" => startup = "ready"
  /\ drain \in {"loop", "sessions", "success", "failure"} => startup \in {"ready", "over", "failed"}
  /\ drain \in {"sessions", "success", "failure"} => loop \in {"off", "ended"}
  /\ drain \in {"success", "failure"} => sessionRuns = {}
  /\ drain = "success" => ~unresolved

IInv == TypeOK /\ Standing /\ Slots /\ InOrder

LEMMA InitIInv == Init => IInv
<1> SUFFICES ASSUME Init  PROVE IInv
  OBVIOUS
<1> DEFINE anyone == CHOOSE a \in Agents : TRUE
<1>1. anyone \in Agents
  BY DispatcherAssumption
<1> HIDE DEF anyone
<1>2. /\ session = [s \in Sessions |-> [agent |-> anyone, phase |-> "over"]]
      /\ loop = "off" /\ at = [repository |-> 1, profile |-> 1] /\ token = FALSE
      /\ decision = Undecided /\ drain = "idle" /\ sessionRuns = {} /\ unresolved = FALSE
      /\ closed = FALSE
      /\ reservation = [a \in Agents |-> NoSession]
  BY DEF Init, anyone
<1>3. TypeOK
  <2>1. ProcessOK
    BY DEF Init, ProcessOK, StartupStages, DrainStages
  <2>2. CycleOK
    <3>1. CheckInterval \in Nat
      BY DispatcherAssumption
    <3>2. loop \in LoopPlaces /\ token \in BOOLEAN
      BY <1>2 DEF LoopPlaces
    <3>4. at \in [repository : Nat \ {0}, profile : Nat \ {0}] /\ decision \in Decisions
      BY <1>2 DEF Undecided, Decisions
    <3>3. age \in [Agents -> 0..CheckInterval]
      BY <3>1 DEF Init
    <3> QED
      BY <3>2, <3>3, <3>4 DEF CycleOK
  <2>3. SessionsOK
    <3>1. session \in [Sessions -> [agent : Agents, phase : Phases]]
      BY <1>1, <1>2 DEF Phases
    <3> QED
      BY <1>2, <3>1 DEF SessionsOK
  <2>4. WaiterOK
    BY DEF Init, WaiterOK
  <2> QED
    BY <2>1, <2>2, <2>3, <2>4, TypeParts
<1>4. Standing
  BY <1>2 DEF Standing, InRepository, InProfile
<1>5. Slots
  BY <1>2 DEF Slots
<1>6. InOrder
  BY <1>2 DEF InOrder
<1> QED
  BY <1>3, <1>4, <1>5, <1>6 DEF IInv

(* The profile the cycle is at belongs to an agent. *)
LEMMA CurrentIsAgent ==
  ASSUME TypeOK, Standing, loop \in InProfile
  PROVE  Current \in Agents
<1>1. Repositories[at.repository] \in Seq(Agents)
  BY DispatcherAssumption DEF Standing, InProfile, InRepository
<1> QED
  BY <1>1 DEF Standing, Current, Profiles

(* Whatever the scripts do, the preflight comes to one of its decisions. *)
LEMMA DecisionType ==
  ASSUME NEW endings \in Seq(Endings), NEW stopped \in BOOLEAN
  PROVE  Decision(endings, stopped) \in Decisions
<1> DEFINE results == [i \in DOMAIN endings |-> ScriptResult(endings[i])]
<1>1. Combined(results) \in {"blank", "text", "huge"}
  BY DEF Combined
<1> QED
  BY <1>1 DEF Decision, Decisions

(* Each action keeps the types of the process, of the cycle and of the sessions. *)
LEMMA NextProcessOK == IInv /\ [Next]_vars => ProcessOK'
<1> SUFFICES ASSUME IInv, [Next]_vars  PROVE ProcessOK'
  OBVIOUS
<1> USE DEF ProcessOK, StartupStages, DrainStages
<1>0. ProcessOK
  BY TypeParts DEF IInv
<1>1. CASE UNCHANGED process
  BY <1>0, <1>1 DEF process
<1>2. CASE Start
  <2>1. CASE Configured \/ ConfigurationFails \/ Ready
    BY <1>0, <2>1 DEF Configured, ConfigurationFails, Ready, Fail
  <2>2. CASE CredentialStep
    BY <1>0, <2>2 DEF CredentialStep, After
  <2>3. CASE StartupStepFails
    <3>1. CASE shuttingDown
      BY <1>0, <2>3, <3>1 DEF StartupStepFails
    <3>2. CASE ~shuttingDown
      BY <1>0, <2>3, <3>2 DEF StartupStepFails, Fail
    <3> QED
      BY <3>1, <3>2
  <2> QED
    BY <1>2, <2>1, <2>2, <2>3 DEF Start
<1>3. CASE Terminate
  BY <1>0, <1>3 DEF Terminate
<1>4. CASE DrainOperations \/ Deadline
  BY <1>0, <1>4 DEF DrainOperations, StartupDrained, LoopDrained, SessionsDrained, DrainGoes, Deadline
<1>5. CASE Cycle
  BY <1>1, <1>5 DEF Cycle, LoopHead, CredentialMinted, RepositoryHead, Synced, Discovered, RepositoryFails,
       ProfileHead, Prepared, Preflighted, ProfileFails, Dispatch, Launch, SleepEnds
<1>6. CASE Tick \/ DrainLooksAgain
  BY <1>1, <1>6 DEF Tick, DrainLooksAgain
<1>7. ASSUME NEW s \in Sessions, SessionStep(s) \/ Confirm(s)
      PROVE  ProcessOK'
  BY <1>1, <1>7 DEF SessionStep, SessionEnds, Confirm
<1>8. ASSUME NEW closing \in {closed, TRUE}, Drain(closing)
      PROVE  ProcessOK'
  BY <1>1, <1>8 DEF Drain
<1>9. CASE UNCHANGED vars
  BY <1>1, <1>9 DEF vars
<1> QED
  BY <1>2, <1>3, <1>4, <1>5, <1>6, <1>7, <1>8, <1>9 DEF Next, Gone

LEMMA NextCycleOK == IInv /\ [Next]_vars => CycleOK'
<1> SUFFICES ASSUME IInv, [Next]_vars  PROVE CycleOK'
  OBVIOUS
<1> USE DispatcherAssumption DEF CycleOK, LoopPlaces
<1>0. CycleOK
  BY TypeParts DEF IInv
<1>1. CASE UNCHANGED cycle
  BY <1>0, <1>1 DEF cycle
<1>2. CASE Start
  BY <1>0, <1>1, <1>2 DEF Start, Configured, ConfigurationFails, CredentialStep, StartupStepFails, Ready, Fail
<1>3. CASE Terminate \/ DrainOperations \/ Deadline \/ DrainLooksAgain
  BY <1>1, <1>3 DEF Terminate, DrainOperations, StartupDrained, LoopDrained, SessionsDrained, DrainGoes,
       Deadline, DrainLooksAgain
<1>4. Undecided \in Decisions
  BY DEF Undecided, Decisions
<1>5. CASE LoopHead \/ CredentialMinted \/ RepositoryHead \/ Synced \/ Discovered \/ RepositoryFails
             \/ Prepared \/ SleepEnds
  BY <1>0, <1>5 DEF LoopHead, CredentialMinted, RepositoryHead, Synced, Discovered, RepositoryFails,
       Prepared, SleepEnds, Goto, NextRepository
<1>6. CASE ProfileHead
  <2>1. CASE aborted \/ at.profile > Len(Profiles)
    BY <1>0, <1>6, <2>1 DEF ProfileHead, NextRepository
  <2>2. CASE ~(aborted \/ at.profile > Len(Profiles))
    <3>1. CASE NextProfile
      BY <1>0, <1>4, <3>1 DEF NextProfile
    <3>2. CASE /\ loop' = "preparing" /\ age' = [age EXCEPT ![Current] = 0]
               /\ UNCHANGED <<at, token, decision>>
      <4>1. 0 \in 0..CheckInterval
        BY DispatcherAssumption
      <4>2. age' \in [Agents -> 0..CheckInterval]
        BY <1>0, <3>2, <4>1
      <4> QED
        BY <1>0, <3>2, <4>2
    <3> QED
      BY <1>6, <2>2, <3>1, <3>2 DEF ProfileHead
  <2> QED
    BY <2>1, <2>2
<1>7. CASE Preflighted
  <2>1. decision' \in Decisions
    BY <1>4, <1>7, DecisionType DEF Preflighted, IInv, TypeOK
  <2> QED
    BY <1>0, <1>7, <2>1 DEF Preflighted
<1>8. CASE ProfileFails \/ Launch
  BY <1>0, <1>4, <1>8 DEF ProfileFails, Launch, NextProfile
<1>9. CASE Dispatch
  BY <1>0, <1>4, <1>9 DEF Dispatch, NextProfile, Goto
<1>10. CASE Tick
  BY <1>0, <1>10 DEF Tick
<1>11. ASSUME NEW s \in Sessions, SessionStep(s) \/ Confirm(s)
       PROVE  CycleOK'
  BY <1>1, <1>11 DEF SessionStep, SessionEnds, Confirm
<1>12. ASSUME NEW closing \in {closed, TRUE}, Drain(closing)
       PROVE  CycleOK'
  BY <1>1, <1>12 DEF Drain
<1>13. CASE UNCHANGED vars
  BY <1>1, <1>13 DEF vars
<1> QED
  BY <1>2, <1>3, <1>5, <1>6, <1>7, <1>8, <1>9, <1>10, <1>11, <1>12, <1>13 DEF Next, Cycle, Gone

LEMMA NextSessionsOK == IInv /\ [Next]_vars => SessionsOK' /\ WaiterOK'
<1> SUFFICES ASSUME IInv, [Next]_vars  PROVE SessionsOK' /\ WaiterOK'
  OBVIOUS
<1> USE DEF SessionsOK, WaiterOK, Phases
<1>0. SessionsOK /\ WaiterOK
  BY TypeParts DEF IInv
<1>1. CASE UNCHANGED sessions
  BY <1>0, <1>1 DEF sessions
<1>2. CASE Start \/ Terminate \/ DrainOperations \/ Deadline \/ Tick
  BY <1>1, <1>2 DEF Start, Configured, ConfigurationFails, CredentialStep, StartupStepFails, Ready, Fail,
       Terminate, DrainOperations, StartupDrained, LoopDrained, SessionsDrained, DrainGoes, Deadline, Tick
<1>3. CASE LoopHead \/ CredentialMinted \/ RepositoryHead \/ Synced \/ Discovered \/ RepositoryFails
             \/ ProfileHead \/ Prepared \/ Preflighted \/ ProfileFails \/ SleepEnds
  BY <1>1, <1>3 DEF LoopHead, CredentialMinted, RepositoryHead, Synced, Discovered, RepositoryFails,
       ProfileHead, Prepared, Preflighted, ProfileFails, SleepEnds
<1>4. CASE Dispatch
  <2>1. Current \in Agents
    BY <1>4, CurrentIsAgent DEF Dispatch, InProfile, IInv
  <2>2. ASSUME NEW s \in Sessions, Reserve(Current, s)
        PROVE  reservation' \in [Agents -> Sessions \cup {NoSession}]
               /\ session' \in [Sessions -> [agent : Agents, phase : Phases]]
    BY <1>0, <2>1, <2>2 DEF Reserve
  <2>3. UNCHANGED <<sessionRuns, unresolved, closed, waiter>>
    BY <1>4 DEF Dispatch
  <2> QED
    BY <1>0, <1>4, <2>2, <2>3 DEF Dispatch
<1>5. ASSUME NEW s \in Sessions, Release(s)
      PROVE  /\ reservation' \in [Agents -> Sessions \cup {NoSession}]
             /\ session' \in [Sessions -> [agent : Agents, phase : Phases]]
             /\ WaiterOK'
  <2>1. waiter' \in [state : {"none", "waiting", "drained"}, on : SUBSET Sessions]
    BY <1>0, <1>5 DEF Release
  <2> QED
    BY <1>0, <1>5, <2>1 DEF Release, SetPhase
<1>6. ASSUME NEW s \in Sessions, NEW completion \in {"gone", "not-created", "unknown"}, Complete(s, completion)
      PROVE  /\ reservation' \in [Agents -> Sessions \cup {NoSession}]
             /\ session' \in [Sessions -> [agent : Agents, phase : Phases]]
             /\ WaiterOK'
  <2>1. CASE completion = "unknown"
    BY <1>0, <1>6, <2>1 DEF Complete, SetPhase
  <2>2. CASE completion # "unknown"
    <3>1. Release(s)
      BY <1>6, <2>2 DEF Complete
    <3> QED
      BY <1>5, <3>1
  <2> QED
    BY <2>1, <2>2
<1>7. CASE Launch
  <2>1. reservation[Current] \in Sessions
    BY <1>0, <1>7, CurrentIsAgent DEF Launch, InProfile, Slots, IInv
  <2>2. UNCHANGED <<unresolved, closed>>
    BY <1>7 DEF Launch
  <2>3. CASE aborted
    BY <1>0, <1>6, <1>7, <2>1, <2>2, <2>3 DEF Launch
  <2>4. CASE ~aborted
    BY <1>0, <1>7, <2>1, <2>2, <2>4 DEF Launch, SetPhase
  <2> QED
    BY <2>3, <2>4
<1>8. ASSUME NEW s \in Sessions, SessionStep(s) \/ Confirm(s)
      PROVE  SessionsOK' /\ WaiterOK'
  <2>1. CASE SessionStep(s)
    <3>1. PICK completion \in {"gone", "not-created", "unknown"} : SessionEnds(s, completion)
      BY <2>1 DEF SessionStep
    <3> QED
      BY <1>0, <1>6, <3>1 DEF SessionEnds
  <2>2. CASE Confirm(s)
    BY <1>0, <1>5, <2>2 DEF Confirm
  <2> QED
    BY <1>8, <2>1, <2>2
<1>9. Reserved \in SUBSET Sessions
  BY DEF Reserved
<1>10. CASE DrainLooksAgain
  <2>1. waiter' \in [state : {"none", "waiting", "drained"}, on : SUBSET Sessions]
    BY <1>9, <1>10 DEF DrainLooksAgain
  <2> QED
    BY <1>0, <1>10, <2>1 DEF DrainLooksAgain
<1>11. ASSUME NEW closing \in {closed, TRUE}, Drain(closing)
       PROVE  SessionsOK' /\ WaiterOK'
  BY <1>0, <1>9, <1>11 DEF Drain
<1>12. CASE UNCHANGED vars
  BY <1>1, <1>12 DEF vars
<1> QED
  BY <1>2, <1>3, <1>4, <1>7, <1>8, <1>10, <1>11, <1>12 DEF Next, Cycle, Gone

LEMMA NextTypeOK == IInv /\ [Next]_vars => TypeOK'
<1> SUFFICES ASSUME IInv, [Next]_vars  PROVE TypeOK'
  OBVIOUS
<1>1. ProcessOK' /\ CycleOK' /\ SessionsOK' /\ WaiterOK'
  BY NextProcessOK, NextCycleOK, NextSessionsOK
<1> QED
  BY <1>1 DEF TypeOK, ProcessOK, CycleOK, SessionsOK, WaiterOK

(* The cycle stands at a repository and a profile that exist. *)
LEMMA NextStanding == IInv /\ [Next]_vars => Standing'
<1> SUFFICES ASSUME IInv, [Next]_vars  PROVE Standing'
  OBVIOUS
<1> USE DEF InRepository, InProfile
<1>0. /\ Standing /\ at.repository \in Nat \ {0} /\ at.profile \in Nat \ {0}
      /\ at = [repository |-> at.repository, profile |-> at.profile]
      /\ Repositories \in Seq(Seq(Agents))
  BY DispatcherAssumption DEF IInv, TypeOK
<1>1. CASE loop' \notin InRepository
  BY <1>1 DEF Standing
<1>2. CASE UNCHANGED <<loop, at>>
  BY <1>0, <1>2 DEF Standing, Profiles
<1>3. CASE loop' = "profile" /\ at'.repository \in DOMAIN Repositories
  BY <1>3 DEF Standing
<1>4. ASSUME NextProfile, at.repository \in DOMAIN Repositories
      PROVE  Standing'
  BY <1>0, <1>3, <1>4 DEF NextProfile
<1>5. CASE Cycle
  <2>1. CASE LoopHead \/ CredentialMinted \/ RepositoryFails \/ SleepEnds
    BY <1>1, <2>1 DEF LoopHead, CredentialMinted, RepositoryFails, NextRepository, SleepEnds, Goto
  <2>2. CASE RepositoryHead
    <3>1. CASE aborted \/ at.repository > Len(Repositories)
      BY <1>1, <2>2, <3>1 DEF RepositoryHead, Goto
    <3>2. CASE ~(aborted \/ at.repository > Len(Repositories))
      <4>1. at.repository \in DOMAIN Repositories
        BY <1>0, <3>2
      <4> QED
        BY <2>2, <3>2, <4>1 DEF RepositoryHead, Goto, Standing
    <3> QED
      BY <3>1, <3>2
  <2>3. CASE Synced \/ Discovered
    BY <1>0, <2>3 DEF Synced, Discovered, Goto, Standing
  <2>4. CASE ProfileHead
    <3>1. CASE aborted \/ at.profile > Len(Profiles)
      BY <1>1, <2>4, <3>1 DEF ProfileHead, NextRepository
    <3>2. CASE ~(aborted \/ at.profile > Len(Profiles))
      <4>1. at.repository \in DOMAIN Repositories
        BY <1>0, <2>4 DEF ProfileHead, Standing
      <4>2. at.profile \in DOMAIN Profiles
        BY <1>0, <3>2, <4>1 DEF Profiles
      <4> QED
        BY <1>4, <2>4, <3>2, <4>1, <4>2 DEF ProfileHead, Standing, Profiles
    <3> QED
      BY <3>1, <3>2
  <2>5. CASE Prepared \/ Preflighted
    BY <1>0, <2>5 DEF Prepared, Preflighted, Goto, Standing, Profiles
  <2>6. CASE ProfileFails \/ Launch
    BY <1>0, <1>4, <2>6 DEF ProfileFails, Launch, Standing
  <2>7. CASE Dispatch
    BY <1>0, <1>4, <2>7 DEF Dispatch, Goto, Standing, Profiles
  <2> QED
    BY <1>5, <2>1, <2>2, <2>3, <2>4, <2>5, <2>6, <2>7 DEF Cycle
<1>6. CASE Ready
  BY <1>1, <1>6 DEF Ready
<1>7. CASE Configured \/ ConfigurationFails \/ CredentialStep \/ StartupStepFails \/ Terminate
             \/ DrainOperations \/ Deadline \/ Tick \/ DrainLooksAgain
  BY <1>2, <1>7 DEF Configured, ConfigurationFails, CredentialStep, StartupStepFails, Fail, Terminate,
       DrainOperations, StartupDrained, LoopDrained, SessionsDrained, DrainGoes, Deadline, Tick,
       DrainLooksAgain, cycle
<1>8. ASSUME NEW s \in Sessions, SessionStep(s) \/ Confirm(s)
      PROVE  Standing'
  BY <1>2, <1>8 DEF SessionStep, SessionEnds, Confirm, cycle
<1>9. ASSUME NEW closing \in {closed, TRUE}, Drain(closing)
      PROVE  Standing'
  BY <1>2, <1>9 DEF Drain, cycle
<1>10. CASE UNCHANGED vars
  BY <1>2, <1>10 DEF vars, cycle
<1> QED
  BY <1>5, <1>6, <1>7, <1>8, <1>9, <1>10 DEF Next, Start, Gone

(* Reservations and sessions go on naming each other. *)
LEMMA NextSlots == IInv /\ [Next]_vars => Slots'
<1> SUFFICES ASSUME IInv, [Next]_vars  PROVE Slots'
  OBVIOUS
<1>0. /\ Slots
      /\ reservation \in [Agents -> Sessions \cup {NoSession}]
      /\ session \in [Sessions -> [agent : Agents, phase : Phases]]
      /\ NoSession \notin Sessions
  BY DispatcherAssumption DEF IInv, TypeOK
<1>1. ASSUME UNCHANGED <<reservation, session, sessionRuns, unresolved>>,
             loop # "launching", loop' # "launching"
      PROVE  Slots'
  BY <1>0, <1>1 DEF Slots
<1>2. CASE UNCHANGED <<reservation, session, sessionRuns, unresolved, loop, at>>
  BY <1>0, <1>2 DEF Slots, Current, Profiles
<1>3. CASE Start \/ Terminate \/ DrainOperations \/ Deadline \/ Tick \/ DrainLooksAgain
  <2>1. CASE Ready
    <3>1. (loop # "launching" /\ loop' # "launching") \/ UNCHANGED <<loop, at>>
      BY <2>1 DEF Ready, IInv, InOrder
    <3> QED
      BY <1>1, <1>2, <2>1, <3>1 DEF Ready, sessions
  <2>2. CASE ~Ready
    BY <1>2, <1>3, <2>2 DEF Start, Configured, ConfigurationFails, CredentialStep, StartupStepFails, Fail,
         Terminate, DrainOperations, StartupDrained, LoopDrained, SessionsDrained, DrainGoes, Deadline, Tick,
         DrainLooksAgain, cycle, sessions
  <2> QED
    BY <2>1, <2>2
<1>4. CASE LoopHead \/ CredentialMinted \/ RepositoryHead \/ Synced \/ Discovered \/ RepositoryFails
             \/ ProfileHead \/ Prepared \/ Preflighted \/ ProfileFails \/ SleepEnds
  BY <1>1, <1>4 DEF LoopHead, CredentialMinted, RepositoryHead, Synced, Discovered, RepositoryFails,
       ProfileHead, Prepared, Preflighted, ProfileFails, SleepEnds, Goto, NextRepository, NextProfile, sessions
<1>5. CASE Dispatch
  <2>1. Current \in Agents
    BY <1>5, CurrentIsAgent DEF Dispatch, InProfile, IInv
  <2>2. CASE ~aborted /\ DispatchStatus(Current) = "started"
    <3>1. PICK s \in Sessions \ Live : Reserve(Current, s)
      BY <1>5, <2>2 DEF Dispatch
    <3>2. loop = "deciding" /\ loop' = "launching" /\ Current' = Current
          /\ UNCHANGED <<sessionRuns, unresolved>>
      BY <1>5, <2>2 DEF Dispatch, Goto, Current, Profiles
    <3>3. reservation[Current] = NoSession /\ session[s].phase = "over"
      <4>1. Admission(decision) # "started"
        BY DEF IInv, TypeOK, Decisions, Admission
      <4> QED
        BY <2>2, <3>1, <4>1 DEF DispatchStatus, Live
    <3>4. session' = [session EXCEPT ![s] = [agent |-> Current, phase |-> "reserved"]]
          /\ reservation' = [reservation EXCEPT ![Current] = s]
      BY <3>1 DEF Reserve
    <3>5. \A t \in Sessions : session[t].phase # "reserved"
      BY <1>0, <3>2 DEF Slots
    <3> QED
      BY <1>0, <2>1, <3>2, <3>3, <3>4, <3>5 DEF Slots
  <2>3. CASE ~(~aborted /\ DispatchStatus(Current) = "started")
    BY <1>1, <1>5, <2>3 DEF Dispatch, NextProfile
  <2> QED
    BY <2>2, <2>3
<1>6. CASE Launch
  <2> DEFINE s == reservation[Current]
  <2>1. Current \in Agents
    BY <1>6, CurrentIsAgent DEF Launch, InProfile, IInv
  <2>2. /\ s \in Sessions /\ session[s].phase = "reserved" /\ session[s].agent = Current
        /\ \A t \in Sessions : session[t].phase = "reserved" => t = s
    BY <1>0, <1>6, <2>1 DEF Launch, Slots
  <2>3. loop' = "profile" /\ UNCHANGED unresolved
    BY <1>6 DEF Launch, NextProfile
  <2>4. CASE aborted
    <3>1. /\ reservation' = [reservation EXCEPT ![Current] = NoSession]
          /\ session' = [session EXCEPT ![s].phase = "over"]
          /\ sessionRuns' = sessionRuns
      BY <1>6, <2>2, <2>4 DEF Launch, Complete, Release, SetPhase
    <3> QED
      BY <1>0, <2>1, <2>2, <2>3, <3>1 DEF Slots
  <2>5. CASE ~aborted
    <3>1. /\ session' = [session EXCEPT ![s].phase = "running"]
          /\ reservation' = reservation /\ sessionRuns' = sessionRuns \cup {s}
      BY <1>6, <2>5 DEF Launch, SetPhase
    <3> QED
      BY <1>0, <2>1, <2>2, <2>3, <3>1 DEF Slots
  <2> QED
    BY <2>4, <2>5
<1>7. ASSUME NEW s \in Sessions, Release(s), session[s].phase \in {"running", "retained"},
             reservation[session[s].agent] = s,
             sessionRuns' = sessionRuns \ {s}, unresolved => unresolved', UNCHANGED <<loop, at>>
      PROVE  Slots'
  <2>1. /\ reservation' = [reservation EXCEPT ![session[s].agent] = NoSession]
        /\ session' = [session EXCEPT ![s].phase = "over"]
    BY <1>7 DEF Release, SetPhase
  <2>2. Current' = Current
    BY <1>7 DEF Current, Profiles
  <2>3. loop = "launching" => Current \in Agents
    BY CurrentIsAgent DEF InProfile, IInv
  <2> QED
    BY <1>0, <1>7, <2>1, <2>2, <2>3 DEF Slots
<1>8. ASSUME NEW s \in Sessions, SessionStep(s)
      PROVE  Slots'
  <2>1. PICK completion \in {"gone", "not-created", "unknown"} : SessionEnds(s, completion)
    BY <1>8 DEF SessionStep
  <2>2. /\ session[s].phase = "running" /\ reservation[session[s].agent] = s
        /\ sessionRuns' = sessionRuns \ {s} /\ unresolved' = (unresolved \/ completion = "unknown")
        /\ UNCHANGED <<loop, at>>
    BY <1>0, <2>1 DEF SessionEnds, Slots, cycle
  <2>3. CASE completion = "unknown"
    <3>1. session' = [session EXCEPT ![s].phase = "retained"] /\ reservation' = reservation
      BY <2>1, <2>3 DEF SessionEnds, Complete, SetPhase
    <3>2. Current' = Current
      BY <2>2 DEF Current, Profiles
    <3>3. unresolved' = TRUE
      BY <2>2, <2>3
    <3>4. loop = "launching" => reservation[Current] \in Sessions /\ reservation[Current] # s
      BY <1>0, <2>2, CurrentIsAgent DEF InProfile, IInv, Slots
    <3> QED
      BY <1>0, <2>2, <3>1, <3>2, <3>3, <3>4 DEF Slots
  <2>4. CASE completion # "unknown"
    BY <1>7, <2>1, <2>2, <2>4 DEF SessionEnds, Complete
  <2> QED
    BY <2>3, <2>4
<1>9. ASSUME NEW s \in Sessions, Confirm(s)
      PROVE  Slots'
  <2>1. /\ Release(s) /\ session[s].phase = "retained" /\ reservation[session[s].agent] = s
        /\ UNCHANGED <<sessionRuns, unresolved, loop, at>>
    BY <1>9 DEF Confirm, Confirmable, cycle
  <2>2. sessionRuns' = sessionRuns \ {s}
    BY <1>0, <2>1 DEF Slots
  <2> QED
    BY <1>7, <2>1, <2>2
<1>10. ASSUME NEW closing \in {closed, TRUE}, Drain(closing)
       PROVE  Slots'
  BY <1>2, <1>10 DEF Drain, cycle
<1>11. CASE UNCHANGED vars
  BY <1>2, <1>11 DEF vars, cycle, sessions
<1> QED
  BY <1>3, <1>4, <1>5, <1>6, <1>8, <1>9, <1>10, <1>11 DEF Next, Cycle, Gone

(* The drain goes on in the order of the producers. *)
LEMMA NextInOrder == IInv /\ [Next]_vars => InOrder'
<1> SUFFICES ASSUME IInv, [Next]_vars  PROVE InOrder'
  OBVIOUS
<1> USE DEF InOrder
<1>0. InOrder /\ unresolved \in BOOLEAN
  BY DEF IInv, TypeOK
<1>1. CASE UNCHANGED <<startup, drain, loop, sessionRuns, unresolved>>
  BY <1>0, <1>1
<1>2. CASE Start
  BY <1>0, <1>2 DEF Start, Configured, ConfigurationFails, CredentialStep, StartupStepFails, Ready, Fail, After,
       cycle, sessions
<1>3. CASE Cycle
  <2>1. loop \notin {"off", "ended"} /\ loop' # "off" /\ UNCHANGED <<startup, drain>>
    BY <1>3 DEF Cycle, LoopHead, CredentialMinted, RepositoryHead, Synced, Discovered, RepositoryFails,
         ProfileHead, Prepared, Preflighted, ProfileFails, Dispatch, Launch, SleepEnds,
         Goto, NextRepository, NextProfile, process
  <2> QED
    BY <1>0, <2>1
<1>4. CASE Terminate \/ Deadline \/ Tick
  BY <1>0, <1>4 DEF Terminate, Deadline, Tick, process, cycle, sessions
<1>5. CASE DrainOperations
  BY <1>0, <1>5 DEF DrainOperations, StartupDrained, LoopDrained, SessionsDrained, DrainGoes, cycle, sessions
<1>6. ASSUME NEW s \in Sessions, SessionStep(s)
      PROVE  InOrder'
  <2>1. /\ s \in sessionRuns /\ UNCHANGED <<startup, drain, loop>>
    BY <1>6 DEF SessionStep, SessionEnds, process, cycle
  <2> QED
    BY <1>0, <2>1
<1>7. ASSUME NEW s \in Sessions, Confirm(s)
      PROVE  InOrder'
  BY <1>1, <1>7 DEF Confirm, process, cycle
<1>8. ASSUME NEW closing \in {closed, TRUE}, Drain(closing)
      PROVE  InOrder'
  BY <1>1, <1>8 DEF Drain, process, cycle
<1>9. CASE DrainLooksAgain \/ UNCHANGED vars
  BY <1>1, <1>9 DEF DrainLooksAgain, vars, process, cycle, sessions
<1> QED
  BY <1>2, <1>3, <1>4, <1>5, <1>6, <1>7, <1>8, <1>9 DEF Next, Gone

THEOREM Inductive == Spec => []IInv
<1>1. IInv /\ [Next]_vars => IInv'
  BY NextTypeOK, NextStanding, NextSlots, NextInOrder DEF IInv
<1> QED
  BY <1>1, InitIInv, PTL DEF Spec

(* The state of the dispatcher keeps its types (dispatcher-cycle.ts,           *)
(* dispatch-sessions.ts, index.ts).                                            *)
THEOREM TypesKept == Spec => []TypeOK
<1>1. IInv => TypeOK
  BY DEF IInv
<1> QED
  BY <1>1, Inductive, PTL

(* No agent ever has two sessions that may exist: each live session holds its  *)
(* agent's reservation until its own end (SessionDispatcher).                  *)
THEOREM OneSession == Spec => []OneSessionPerAgent
<1>1. IInv => OneSessionPerAgent
  BY DEF IInv, Slots, OneSessionPerAgent, Live
<1> QED
  BY <1>1, Inductive, PTL

(* An exit code of success after a shutdown means that nothing is left behind  *)
(* and nothing is unresolved (drainOperations, isUnresolved).                  *)
THEOREM CleanExit == Spec => []CleanExitMeansResolved
<1>1. ASSUME IInv, drain = "success"
      PROVE  loop \in {"off", "ended"} /\ Live = {} /\ startup # "connecting"
  <2>1. loop \in {"off", "ended"} /\ sessionRuns = {} /\ ~unresolved /\ startup # "connecting"
    BY <1>1 DEF IInv, InOrder
  <2>2. \A s \in Sessions : session[s].phase \in Phases
    BY <1>1 DEF IInv, TypeOK
  <2>3. \A s \in Sessions : session[s].phase \notin {"reserved", "running", "retained"}
    BY <1>1, <2>1 DEF IInv, Slots
  <2>4. Live = {}
    BY <2>2, <2>3 DEF Live, Phases
  <2> QED
    BY <2>1, <2>4
<1>2. IInv => CleanExitMeansResolved
  BY <1>1 DEF CleanExitMeansResolved
<1> QED
  BY <1>2, Inductive, PTL

(* A closed dispatcher whose drain() has returned stays without sessions,      *)
(* whatever is confirmed or dispatched later (SessionDispatcher.shutdown).     *)
THEOREM StaysEmpty == Spec => []DrainedStaysEmpty
<1>1. Init => DrainedStaysEmpty
  BY DEF Init, DrainedStaysEmpty
<1>2. ASSUME IInv, DrainedStaysEmpty, [Next]_vars
      PROVE  DrainedStaysEmpty'
  <2> USE DEF DrainedStaysEmpty
  <2>1. SUFFICES ASSUME closed', waiter'.state = "drained"  PROVE Live' = {}
    OBVIOUS
  <2>2. waiter \in [state : {"none", "waiting", "drained"}, on : SUBSET Sessions]
    BY <1>2 DEF IInv, TypeOK
  <2>3. CASE DrainLooksAgain
    <3>1. Reserved = {} /\ session' = session
      BY <2>1, <2>2, <2>3 DEF DrainLooksAgain
    <3>2. \A s \in Sessions : session[s].phase # "over" => s \in Reserved
      BY <1>2 DEF IInv, Slots, TypeOK, Reserved
    <3> QED
      BY <3>1, <3>2 DEF Live
  <2>4. ASSUME NEW closing \in {closed, TRUE}, Drain(closing)
        PROVE  FALSE
    BY <2>1, <2>4 DEF Drain
  <2>5. ASSUME closed' = closed, waiter'.state = waiter.state,
               \A s \in Sessions : session'[s].phase # "over" => session[s].phase # "over"
        PROVE  Live' = {}
    BY <1>2, <2>1, <2>5 DEF Live
  <2>6. CASE Dispatch
    <3>1. Current \in Agents /\ closed
      BY <1>2, <2>1, <2>6, CurrentIsAgent DEF Dispatch, InProfile, IInv
    <3>2. DispatchStatus(Current) # "started"
      BY <3>1 DEF DispatchStatus
    <3> QED
      BY <2>5, <2>6, <3>2 DEF Dispatch
  <2>7. CASE Launch
    <3>1. closed' = closed /\ waiter'.state = waiter.state /\ Live = {}
      BY <1>2, <2>1, <2>2, <2>7 DEF Launch, Complete, Release
    <3>2. reservation[Current] \in Live
      BY <1>2, <2>7, CurrentIsAgent DEF Launch, InProfile, IInv, Slots, Live, TypeOK
    <3> QED
      BY <3>1, <3>2
  <2>8. ASSUME NEW s \in Sessions, SessionStep(s) \/ Confirm(s)
        PROVE  FALSE
    <3>1. closed' = closed /\ waiter'.state = waiter.state
      BY <2>2, <2>8 DEF SessionStep, SessionEnds, Confirm, Complete, Release
    <3>2. Live = {}
      BY <1>2, <2>1, <3>1
    <3>3. session[s].phase \in {"running", "retained"}
      BY <1>2, <2>8 DEF SessionStep, SessionEnds, Confirm, Confirmable, IInv, Slots
    <3> QED
      BY <3>2, <3>3 DEF Live
  <2>9. CASE UNCHANGED sessions
    BY <2>5, <2>9 DEF sessions
  <2>10. CASE Start \/ Terminate \/ DrainOperations \/ Deadline \/ Tick
    BY <2>9, <2>10 DEF Start, Configured, ConfigurationFails, CredentialStep, StartupStepFails, Ready, Fail,
         Terminate, DrainOperations, StartupDrained, LoopDrained, SessionsDrained, DrainGoes, Deadline, Tick
  <2>11. CASE LoopHead \/ CredentialMinted \/ RepositoryHead \/ Synced \/ Discovered \/ RepositoryFails
                \/ ProfileHead \/ Prepared \/ Preflighted \/ ProfileFails \/ SleepEnds
    BY <2>9, <2>11 DEF LoopHead, CredentialMinted, RepositoryHead, Synced, Discovered, RepositoryFails,
         ProfileHead, Prepared, Preflighted, ProfileFails, SleepEnds
  <2>12. CASE UNCHANGED vars
    BY <2>9, <2>12 DEF vars
  <2> QED
    BY <1>2, <2>3, <2>4, <2>6, <2>7, <2>8, <2>10, <2>11, <2>12 DEF Next, Cycle, Gone
<1> QED
  BY <1>1, <1>2, Inductive, PTL DEF Spec
===============================================================================
