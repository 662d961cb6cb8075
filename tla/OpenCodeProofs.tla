------------------------------ MODULE OpenCodeProofs ------------------------------
(***************************************************************************)
(* Proofs about the OpenCode adapter: what a run says of the processes it  *)
(* leaves and of the work it did, for any number of prompts; and what the  *)
(* normalizer reports of the messages and the tool calls it reads.         *)
(***************************************************************************)
EXTENDS OpenCodeRuntime, OpenCodeNormalizer, FiniteSetTheorems, WellFoundedInduction, TLAPS

(* Every set of natural numbers has a least one: what the proofs about the     *)
(* recursive functions of the model use in the place of an induction.         *)
LEMMA LeastNumber ==
  ASSUME NEW T, T \subseteq Nat, T # {}
  PROVE  \E n \in T : \A m \in T : n <= m
<1> DEFINE Less == OpToRel(<, Nat)
<1>1. PICK n \in T : \A m \in T : ~ (<<m, n>> \in Less)
  <2> HIDE DEF Less
  <2>1. IsWellFoundedOn(Less, Nat)
    BY NatLessThanWellFounded DEF Less
  <2> QED
    BY <2>1, WFMin
<1>2. \A u, v \in Nat : u < v => <<u, v>> \in Less
  BY DEF OpToRel
<1>3. ASSUME NEW m \in T  PROVE n <= m
  <2> HIDE DEF Less
  <2>1. m \in Nat /\ n \in Nat
    OBVIOUS
  <2>2. ~ (m < n)
    BY <1>1, <1>2, <2>1
  <2> QED
    BY <2>1, <2>2
<1> QED
  BY <1>3

(* A set of positions has a latest one. *)
LEMMA LatestExists ==
  ASSUME NEW n \in Nat, NEW S \in SUBSET (1..n), S # {}
  PROVE  \E i \in S : \A j \in S : j <= i
<1> DEFINE T == {n - i : i \in S}
<1>1. T \subseteq Nat /\ T # {}
  <2>1. PICK i \in S : TRUE
    OBVIOUS
  <2>2. n - i \in T
    BY <2>1
  <2>3. ASSUME NEW t \in T  PROVE t \in Nat
    BY <2>3
  <2> QED
    BY <2>2, <2>3
<1>2. PICK t \in T : \A u \in T : t <= u
  <2> HIDE DEF T
  <2> QED
    BY <1>1, LeastNumber
<1>3. PICK i \in S : t = n - i
  OBVIOUS
<1>4. ASSUME NEW j \in S  PROVE j <= i
  <2>1. n - j \in T
    OBVIOUS
  <2> QED
    BY <1>2, <1>3, <2>1
<1> QED
  BY <1>4

Entries == Ends \cup {"start", "step"}

LEMMA LatestIsLast ==
  ASSUME NEW n \in 0..Len(log), NEW kinds, log \in Seq(Entries)
  PROVE  LET latest == Latest(n, kinds)
         IN  /\ latest \in 0..n
             /\ latest # 0 => log[latest] \in kinds
             /\ \A j \in latest + 1 .. n : log[j] \notin kinds
<1> DEFINE found == {i \in 1..n : log[i] \in kinds}
<1>1. CASE found = {}
  <2>1. Latest(n, kinds) = 0
    BY <1>1 DEF Latest
  <2>2. \A j \in 1..n : log[j] \notin kinds
    BY <1>1
  <2> QED
    BY <2>1, <2>2
<1>2. CASE found # {}
  <2>0. n \in Nat /\ found \subseteq 1..n
    OBVIOUS
  <2>1. \E i \in found : \A j \in found : j <= i
    <3> HIDE DEF found
    <3> QED
      BY <1>2, <2>0, LatestExists
  <2>2. Latest(n, kinds) = CHOOSE i \in found : \A j \in found : j <= i
    BY <1>2 DEF Latest
  <2>3. Latest(n, kinds) \in found /\ \A j \in found : j <= Latest(n, kinds)
    <3> HIDE DEF found
    <3> QED
      BY <2>1, <2>2
  <2> QED
    BY <2>3
<1> QED
  BY <1>1, <1>2
-------------------------------------------------------------------------------
(* Before its child is spawned the run has nothing to stop. *)
Early == Before \ {"startup", "startupStop"}

(* Who awaits the stop under way; a runtime stop aborts the run. *)
Shared ==
  /\ awaiting = {} <=> stopping = "idle"
  /\ "run" \in awaiting <=> pc \in {"startupStop", "stopping"}
  /\ "stop" \in awaiting <=> stopCall = "waiting"
  /\ stopCall # "none" /\ pc \notin {"idle", "over"} => aborted

(* A process the supervisor has forgotten: what is said, or will be said, of  *)
(* it.                                                                        *)
Reported ==
  \/ failure = "leak" \/ cleanupFailure # "none" \/ stopCall = "leak"
  \/ stopping = "removing" /\ settles = "leak"
  \/ masked

(* The supervisor knows of every process that nothing was said of. *)
Accounted ==
  /\ pc \in Early => ~child /\ ~GroupExists /\ failure = "none" /\ settles # "leak"
  /\ pc = "over" => ~child
  /\ stopping \in {"waiting", "killed"} => child
  /\ stopping = "removing" /\ child =>
       aborted /\ settles # "leak" /\ pc \in {"startup", "startupStop"}
  /\ ~child /\ GroupExists => Reported

(* Where the failures are kept: a leak found by start(), or the failure that   *)
(* took its place, ends the run before it has prompted.                       *)
Kept ==
  /\ failure = "leak" => pc \in Finally \cup {"catch", "over"}
  /\ failure = "leak" /\ pc = "catch" => ~prompted
  /\ cleanupFailure # "none" => pc \in Finally \cup {"over"}
  /\ prompted => pc \notin Before \cup {"session"}
  /\ masked =>
       \/ stopCall = "other" \/ cleanupFailure # "none"
       \/ stopping = "removing" /\ settles = "other"
       \/ /\ failure = "other" /\ pc \in Finally \cup {"catch", "over"}
          /\ pc = "catch" => ~prompted

(* Nothing is read back before the stream has failed. *)
Reading ==
  /\ read.messages = "unread" => read.upTo = 0
  /\ pc \in Before \cup {"session", "prompting", "streaming", "catch"} => read = Unread

(* The rest of the type invariant, in two halves. *)
RunTyped ==
  /\ pc \in Before \cup Linked \cup Finally \cup {"over"}
  /\ aborted \in BOOLEAN /\ session \in BOOLEAN /\ prompted \in BOOLEAN /\ left \in BOOLEAN
  /\ outcome \in {"none", "completed", "failed"}
  /\ failure \in {"none", "other", "leak"} /\ cleanupFailure \in {"none", "other", "leak"}
  /\ stopCall \in {"none", "waiting", "ok", "leak", "other"}

DataTyped ==
  /\ log \in Seq(Entries)
  /\ seen \in 0..Len(log) /\ startedAt \in 0..seen
  /\ prompts \in 0..MaxPrompts /\ executions \in 0..prompts
  /\ read \in [messages : {"unread", "failed", "read"}, info : {"unread", "failed", "read"},
               active : {"unread", "failed", "inactive", "busy"},
               upTo : 0..Len(log), infoUpTo : 0..Len(log)]

IInv == TypeOK /\ Shared /\ Accounted /\ Kept /\ Reading
-------------------------------------------------------------------------------
(* Every step keeps each of them. *)
LEMMA StopTyped ==
  ASSUME SupervisorTypeOK, NEW who \in Callers, CallStop(who)
  PROVE  SupervisorTypeOK'
<1> USE DEF SupervisorTypeOK, Callers, StopStages, tree
<1>1. /\ UNCHANGED <<exited, crashed, leader, descendants>>
      /\ awaiting' = awaiting \cup {who}
  BY DEF CallStop
<1>2. CASE UNCHANGED <<child, server, termSent, stopping, settles, directory, masked>>
  BY <1>1, <1>2
<1>3. CASE RemoveDirectory("ok") /\ server' = FALSE /\ UNCHANGED <<child, termSent>>
  BY <1>1, <1>3 DEF RemoveDirectory
<1>4. CASE /\ stopping' = "waiting" /\ settles' = "ok"
           /\ termSent' = (termSent \/ ~exited \/ GroupExists)
           /\ UNCHANGED <<child, server, directory, masked>>
  <2>1. termSent' \in BOOLEAN
    BY <1>4
  <2> QED
    BY <1>1, <1>4, <2>1
<1> QED
  BY <1>2, <1>3, <1>4 DEF CallStop

LEMMA NextSupervisorTyped == IInv /\ [Next]_vars => SupervisorTypeOK'
<1> SUFFICES ASSUME IInv, [Next]_vars  PROVE SupervisorTypeOK'
  OBVIOUS
<1> USE DEF supervisor, tree, run, client, remote, SupervisorTypeOK, Callers, StopStages
<1>0. SupervisorTypeOK
  BY DEF IInv, TypeOK, SupervisorTypeOK
<1>1. CASE RunBegins
  BY <1>0, <1>1 DEF RunBegins, Goto, Elsewhere
<1>2. CASE StartCalled
  BY <1>0, <1>2 DEF StartCalled, Goto, Throw, Elsewhere
<1>3. CASE WorkspaceApproved
  BY <1>0, <1>3 DEF WorkspaceApproved, Goto, Throw, Elsewhere
<1>36. CASE StateDirectoryMade
  BY <1>0, <1>36 DEF StateDirectoryMade, Goto
<1>4. CASE Spawned
  BY <1>0, <1>4 DEF Spawned, Spawn, Goto
<1>5. CASE PreparationFails
  <2>1. directory' = directory \/ directory' = FALSE
    BY <1>5 DEF PreparationFails
  <2>2. UNCHANGED <<child, server, exited, termSent, crashed, stopping, settles, awaiting, masked, tree>>
    BY <1>5 DEF PreparationFails
  <2>3. directory' \in BOOLEAN
    BY <1>0, <2>1
  <2>4. UNCHANGED <<leader, descendants>>
    BY <2>2
  <2> QED
    BY <1>0, <2>2, <2>3, <2>4
<1>6. CASE ServerReady
  BY <1>0, <1>6 DEF ServerReady, Goto
<1>7. CASE StartupFails
  BY <1>0, <1>7, StopTyped DEF StartupFails
<1>8. CASE SessionCreated
  BY <1>0, <1>8 DEF SessionCreated, Elsewhere
<1>9. CASE PromptTaken
  BY <1>0, <1>9 DEF PromptTaken, Takes
<1>10. CASE PromptAnswered
  BY <1>0, <1>10 DEF PromptAnswered, Goto, Elsewhere
<1>11. CASE Notice
  BY <1>0, <1>11 DEF Notice, Takes
<1>12. CASE Delivered
  BY <1>0, <1>12 DEF Delivered, Outcome
<1>13. CASE PermissionAsked
  BY <1>0, <1>13 DEF PermissionAsked, Outcome, Elsewhere
<1>14. CASE SessionFails
  BY <1>0, <1>14 DEF SessionFails, Throw, Elsewhere
<1>15. CASE ConsumerLeaves
  BY <1>0, <1>15 DEF ConsumerLeaves, Elsewhere
<1>16. CASE Caught
  BY <1>0, <1>16 DEF Caught, Goto, Elsewhere
<1>17. CASE ReadMessages
  BY <1>0, <1>17 DEF ReadMessages
<1>18. CASE ReadInfo
  BY <1>0, <1>18 DEF ReadInfo
<1>19. CASE ReadActive
  BY <1>0, <1>19 DEF ReadActive
<1>20. CASE Reconciled
  BY <1>0, <1>20 DEF Reconciled, Goto, Outcome, Elsewhere
<1>21. CASE RecoveryLeft
  BY <1>0, <1>21 DEF RecoveryLeft, Elsewhere
<1>22. CASE CleanupStep
  BY <1>0, <1>22 DEF CleanupStep, NextCleanup
<1>23. CASE CleanupStops
  BY <1>0, <1>23, StopTyped DEF CleanupStops
<1>24. CASE StopSettles
  BY <1>0, <1>24 DEF StopSettles, Throw, FirstFailure
<1>25. CASE RunAborted
  BY <1>0, <1>25 DEF RunAborted, Elsewhere
<1>26. CASE CrashObserved
  BY <1>0, <1>26 DEF CrashObserved, ObservesExit
<1>27. CASE RuntimeStops
  BY <1>0, <1>27, StopTyped DEF RuntimeStops
<1>28. CASE Stopped /\ UNCHANGED <<run, stopCall, client, remote>>
  BY <1>0, <1>28 DEF Stopped, Forget, RemoveDirectory
<1>29. CASE Kill /\ UNCHANGED <<run, stopCall, client, remote>>
  BY <1>0, <1>29 DEF Kill
<1>30. CASE LeakDetected /\ UNCHANGED <<run, stopCall, client, remote>>
  BY <1>0, <1>30 DEF LeakDetected, Forget, RemoveDirectory
<1>31. CASE LeaderDies /\ UNCHANGED <<run, stopCall, client, remote>>
  BY <1>0, <1>31 DEF LeaderDies
<1>32. CASE LeaderForks /\ UNCHANGED <<run, stopCall, client, remote>>
  BY <1>0, <1>32 DEF LeaderForks
<1>33. CASE DescendantsDie /\ UNCHANGED <<run, stopCall, client, remote>>
  BY <1>0, <1>33 DEF DescendantsDie
<1>34. CASE Executes
  BY <1>0, <1>34 DEF Executes
<1>35. CASE UNCHANGED vars
  BY <1>0, <1>35 DEF vars
<1> QED
  BY <1>1, <1>2, <1>3, <1>4, <1>5, <1>6, <1>7, <1>8, <1>9, <1>10, <1>11, <1>12,
     <1>13, <1>14, <1>15, <1>16, <1>17, <1>18, <1>19, <1>20, <1>21, <1>22, <1>23,
     <1>24, <1>25, <1>26, <1>27, <1>28, <1>29, <1>30, <1>31, <1>32, <1>33, <1>34,
     <1>35, <1>36
  DEF Next, Run, SupervisorSteps, StopStep, ProcessSteps, ProcessStep, Over

LEMMA NextRunTyped == IInv /\ [Next]_vars => RunTyped'
<1> SUFFICES ASSUME IInv, [Next]_vars  PROVE RunTyped'
  OBVIOUS
<1> USE DEF supervisor, tree, run, client, remote
<1> USE DEF Before, Linked, Finally, Ends, Unread, RunTyped
<1>0. RunTyped /\ settles \in {"ok", "leak", "other"}
  BY DEF IInv, TypeOK, SupervisorTypeOK, RunTyped
<1>1. CASE RunBegins
  BY <1>0, <1>1 DEF RunBegins, Goto, Elsewhere
<1>2. CASE StartCalled
  BY <1>0, <1>2 DEF StartCalled, Goto, Throw, Elsewhere
<1>3. CASE WorkspaceApproved
  BY <1>0, <1>3 DEF WorkspaceApproved, Goto, Throw, Elsewhere
<1>36. CASE StateDirectoryMade
  BY <1>0, <1>36 DEF StateDirectoryMade, Goto
<1>4. CASE Spawned
  BY <1>0, <1>4 DEF Spawned, Spawn, Goto
<1>5. CASE PreparationFails
  BY <1>0, <1>5 DEF PreparationFails, Throw
<1>6. CASE ServerReady
  BY <1>0, <1>6 DEF ServerReady, Goto
<1>7. CASE StartupFails
  BY <1>0, <1>7 DEF StartupFails, CallStop, RemoveDirectory, Goto
<1>8. CASE SessionCreated
  BY <1>0, <1>8 DEF SessionCreated, Elsewhere
<1>9. CASE PromptTaken
  BY <1>0, <1>9 DEF PromptTaken, Takes
<1>10. CASE PromptAnswered
  BY <1>0, <1>10 DEF PromptAnswered, Goto, Elsewhere
<1>11. CASE Notice
  BY <1>0, <1>11 DEF Notice, Takes
<1>12. CASE Delivered
  BY <1>0, <1>12 DEF Delivered, Outcome
<1>13. CASE PermissionAsked
  BY <1>0, <1>13 DEF PermissionAsked, Outcome, Elsewhere
<1>14. CASE SessionFails
  BY <1>0, <1>14 DEF SessionFails, Throw, Elsewhere
<1>15. CASE ConsumerLeaves
  BY <1>0, <1>15 DEF ConsumerLeaves, Elsewhere
<1>16. CASE Caught
  BY <1>0, <1>16 DEF Caught, Goto, Elsewhere
<1>17. CASE ReadMessages
  BY <1>0, <1>17 DEF ReadMessages
<1>18. CASE ReadInfo
  BY <1>0, <1>18 DEF ReadInfo
<1>19. CASE ReadActive
  BY <1>0, <1>19 DEF ReadActive
<1>20. CASE Reconciled
  BY <1>0, <1>20 DEF Reconciled, Goto, Outcome, Elsewhere
<1>21. CASE RecoveryLeft
  BY <1>0, <1>21 DEF RecoveryLeft, Elsewhere
<1>22. CASE CleanupStep
  BY <1>0, <1>22 DEF CleanupStep, NextCleanup
<1>23. CASE CleanupStops
  BY <1>0, <1>23 DEF CleanupStops, CallStop, RemoveDirectory, Goto
<1>24. CASE StopSettles
  BY <1>0, <1>24 DEF StopSettles, Throw, FirstFailure
<1>25. CASE RunAborted
  BY <1>0, <1>25 DEF RunAborted, Elsewhere
<1>26. CASE CrashObserved
  BY <1>0, <1>26 DEF CrashObserved, ObservesExit
<1>27. CASE RuntimeStops
  BY <1>0, <1>27 DEF RuntimeStops, CallStop, RemoveDirectory
<1>28. CASE Stopped /\ UNCHANGED <<run, stopCall, client, remote>>
  BY <1>0, <1>28 DEF Stopped, Forget, RemoveDirectory
<1>29. CASE Kill /\ UNCHANGED <<run, stopCall, client, remote>>
  BY <1>0, <1>29 DEF Kill
<1>30. CASE LeakDetected /\ UNCHANGED <<run, stopCall, client, remote>>
  BY <1>0, <1>30 DEF LeakDetected, Forget, RemoveDirectory
<1>31. CASE LeaderDies /\ UNCHANGED <<run, stopCall, client, remote>>
  BY <1>0, <1>31 DEF LeaderDies
<1>32. CASE LeaderForks /\ UNCHANGED <<run, stopCall, client, remote>>
  BY <1>0, <1>32 DEF LeaderForks
<1>33. CASE DescendantsDie /\ UNCHANGED <<run, stopCall, client, remote>>
  BY <1>0, <1>33 DEF DescendantsDie
<1>34. CASE Executes
  BY <1>0, <1>34 DEF Executes
<1>35. CASE UNCHANGED vars
  BY <1>0, <1>35 DEF vars
<1> QED
  BY <1>1, <1>2, <1>3, <1>4, <1>5, <1>6, <1>7, <1>8, <1>9, <1>10, <1>11, <1>12,
     <1>13, <1>14, <1>15, <1>16, <1>17, <1>18, <1>19, <1>20, <1>21, <1>22, <1>23,
     <1>24, <1>25, <1>26, <1>27, <1>28, <1>29, <1>30, <1>31, <1>32, <1>33, <1>34,
     <1>35, <1>36
  DEF Next, Run, SupervisorSteps, StopStep, ProcessSteps, ProcessStep, Over

LEMMA NextDataTyped == IInv /\ [Next]_vars => DataTyped'
<1> SUFFICES ASSUME IInv, [Next]_vars  PROVE DataTyped'
  OBVIOUS
<1> USE DEF tree, run, client, remote
<1> USE RuntimeAssumption DEF DataTyped, Entries, Unread, Ends
<1>0. DataTyped
  BY DEF IInv, TypeOK, DataTyped, Entries
<1>1. CASE RunBegins
  BY <1>0, <1>1 DEF RunBegins, Goto, Elsewhere
<1>2. CASE StartCalled
  BY <1>0, <1>2 DEF StartCalled, Goto, Throw, Elsewhere
<1>3. CASE WorkspaceApproved
  BY <1>0, <1>3 DEF WorkspaceApproved, Goto, Throw, Elsewhere
<1>36. CASE StateDirectoryMade
  BY <1>0, <1>36 DEF StateDirectoryMade, Goto
<1>4. CASE Spawned
  BY <1>0, <1>4 DEF Spawned, Spawn, Goto
<1>5. CASE PreparationFails
  BY <1>0, <1>5 DEF PreparationFails, Throw
<1>6. CASE ServerReady
  BY <1>0, <1>6 DEF ServerReady, Goto
<1>7. CASE StartupFails
  BY <1>0, <1>7 DEF StartupFails, CallStop, RemoveDirectory, Goto
<1>8. CASE SessionCreated
  BY <1>0, <1>8 DEF SessionCreated, Elsewhere
<1>9. CASE PromptTaken
  BY <1>0, <1>9 DEF PromptTaken, Takes
<1>10. CASE PromptAnswered
  BY <1>0, <1>10 DEF PromptAnswered, Goto, Elsewhere
<1>11. CASE Notice
  BY <1>0, <1>11 DEF Notice, Takes
<1>12. CASE Delivered
  BY <1>0, <1>12 DEF Delivered, Outcome
<1>13. CASE PermissionAsked
  BY <1>0, <1>13 DEF PermissionAsked, Outcome, Elsewhere
<1>14. CASE SessionFails
  BY <1>0, <1>14 DEF SessionFails, Throw, Elsewhere
<1>15. CASE ConsumerLeaves
  BY <1>0, <1>15 DEF ConsumerLeaves, Elsewhere
<1>16. CASE Caught
  BY <1>0, <1>16 DEF Caught, Goto, Elsewhere
<1>17. CASE ReadMessages
  <2>0. UNCHANGED <<seen, startedAt, log, prompts, executions>>
    BY <1>17 DEF ReadMessages
  <2>1. Len(log) \in 0..Len(log)
    BY <1>0
  <2>2. CASE read' = [read EXCEPT !.messages = "failed"]
    BY <1>0, <2>0, <2>2
  <2>3. CASE read' = [read EXCEPT !.messages = "read", !.upTo = Len(log)]
    BY <1>0, <2>0, <2>1, <2>3
  <2> QED
    BY <1>17, <2>2, <2>3 DEF ReadMessages
<1>18. CASE ReadInfo
  <2>0. UNCHANGED <<seen, startedAt, log, prompts, executions>>
    BY <1>18 DEF ReadInfo
  <2>1. Len(log) \in 0..Len(log)
    BY <1>0
  <2>2. CASE read' = [read EXCEPT !.info = "failed"]
    BY <1>0, <2>0, <2>2
  <2>3. CASE read' = [read EXCEPT !.info = "read", !.infoUpTo = Len(log)]
    BY <1>0, <2>0, <2>1, <2>3
  <2> QED
    BY <1>18, <2>2, <2>3 DEF ReadInfo
<1>19. CASE ReadActive
  BY <1>0, <1>19 DEF ReadActive
<1>20. CASE Reconciled
  BY <1>0, <1>20 DEF Reconciled, Goto, Outcome, Elsewhere
<1>21. CASE RecoveryLeft
  BY <1>0, <1>21 DEF RecoveryLeft, Elsewhere
<1>22. CASE CleanupStep
  BY <1>0, <1>22 DEF CleanupStep, NextCleanup
<1>23. CASE CleanupStops
  BY <1>0, <1>23 DEF CleanupStops, CallStop, RemoveDirectory, Goto
<1>24. CASE StopSettles
  BY <1>0, <1>24 DEF StopSettles, Throw, FirstFailure
<1>25. CASE RunAborted
  BY <1>0, <1>25 DEF RunAborted, Elsewhere
<1>26. CASE CrashObserved
  BY <1>0, <1>26 DEF CrashObserved, ObservesExit
<1>27. CASE RuntimeStops
  BY <1>0, <1>27 DEF RuntimeStops, CallStop, RemoveDirectory
<1>28. CASE Stopped /\ UNCHANGED <<run, stopCall, client, remote>>
  BY <1>0, <1>28 DEF Stopped, Forget, RemoveDirectory
<1>29. CASE Kill /\ UNCHANGED <<run, stopCall, client, remote>>
  BY <1>0, <1>29 DEF Kill
<1>30. CASE LeakDetected /\ UNCHANGED <<run, stopCall, client, remote>>
  BY <1>0, <1>30 DEF LeakDetected, Forget, RemoveDirectory
<1>31. CASE LeaderDies /\ UNCHANGED <<run, stopCall, client, remote>>
  BY <1>0, <1>31 DEF LeaderDies
<1>32. CASE LeaderForks /\ UNCHANGED <<run, stopCall, client, remote>>
  BY <1>0, <1>32 DEF LeaderForks
<1>33. CASE DescendantsDie /\ UNCHANGED <<run, stopCall, client, remote>>
  BY <1>0, <1>33 DEF DescendantsDie
<1>34. CASE Executes
  BY <1>0, <1>34 DEF Executes
<1>35. CASE UNCHANGED vars
  BY <1>0, <1>35 DEF vars
<1> QED
  BY <1>1, <1>2, <1>3, <1>4, <1>5, <1>6, <1>7, <1>8, <1>9, <1>10, <1>11, <1>12,
     <1>13, <1>14, <1>15, <1>16, <1>17, <1>18, <1>19, <1>20, <1>21, <1>22, <1>23,
     <1>24, <1>25, <1>26, <1>27, <1>28, <1>29, <1>30, <1>31, <1>32, <1>33, <1>34,
     <1>35, <1>36
  DEF Next, Run, SupervisorSteps, StopStep, ProcessSteps, ProcessStep, Over

LEMMA NextTypeOK == IInv /\ [Next]_vars => TypeOK'
BY NextSupervisorTyped, NextRunTyped, NextDataTyped DEF TypeOK, RunTyped, DataTyped, Entries

LEMMA NextShared == IInv /\ [Next]_vars => Shared'
<1> SUFFICES ASSUME IInv, [Next]_vars  PROVE Shared'
  OBVIOUS
<1> USE DEF supervisor, tree, run, client, remote, SupervisorTypeOK, Callers, StopStages
<1> USE DEF TypeOK, Shared, Before, Linked, Finally, Ends, Unread
<1>0. TypeOK /\ Shared
  BY DEF IInv
<1>1. CASE RunBegins
  BY <1>0, <1>1 DEF RunBegins, Goto, Elsewhere
<1>2. CASE StartCalled
  BY <1>0, <1>2 DEF StartCalled, Goto, Throw, Elsewhere
<1>3. CASE WorkspaceApproved
  BY <1>0, <1>3 DEF WorkspaceApproved, Goto, Throw, Elsewhere
<1>36. CASE StateDirectoryMade
  BY <1>0, <1>36 DEF StateDirectoryMade, Goto
<1>4. CASE Spawned
  BY <1>0, <1>4 DEF Spawned, Spawn, Goto
<1>5. CASE PreparationFails
  BY <1>0, <1>5 DEF PreparationFails, Throw
<1>6. CASE ServerReady
  BY <1>0, <1>6 DEF ServerReady, Goto
<1>7. CASE StartupFails
  BY <1>0, <1>7 DEF StartupFails, CallStop, RemoveDirectory, Goto
<1>8. CASE SessionCreated
  BY <1>0, <1>8 DEF SessionCreated, Elsewhere
<1>9. CASE PromptTaken
  BY <1>0, <1>9 DEF PromptTaken, Takes
<1>10. CASE PromptAnswered
  BY <1>0, <1>10 DEF PromptAnswered, Goto, Elsewhere
<1>11. CASE Notice
  BY <1>0, <1>11 DEF Notice, Takes
<1>12. CASE Delivered
  BY <1>0, <1>12 DEF Delivered, Outcome
<1>13. CASE PermissionAsked
  BY <1>0, <1>13 DEF PermissionAsked, Outcome, Elsewhere
<1>14. CASE SessionFails
  BY <1>0, <1>14 DEF SessionFails, Throw, Elsewhere
<1>15. CASE ConsumerLeaves
  BY <1>0, <1>15 DEF ConsumerLeaves, Elsewhere
<1>16. CASE Caught
  BY <1>0, <1>16 DEF Caught, Goto, Elsewhere
<1>17. CASE ReadMessages
  BY <1>0, <1>17 DEF ReadMessages
<1>18. CASE ReadInfo
  BY <1>0, <1>18 DEF ReadInfo
<1>19. CASE ReadActive
  BY <1>0, <1>19 DEF ReadActive
<1>20. CASE Reconciled
  BY <1>0, <1>20 DEF Reconciled, Goto, Outcome, Elsewhere
<1>21. CASE RecoveryLeft
  BY <1>0, <1>21 DEF RecoveryLeft, Elsewhere
<1>22. CASE CleanupStep
  BY <1>0, <1>22 DEF CleanupStep, NextCleanup
<1>23. CASE CleanupStops
  BY <1>0, <1>23 DEF CleanupStops, CallStop, RemoveDirectory, Goto
<1>24. CASE StopSettles
  BY <1>0, <1>24 DEF StopSettles, Throw, FirstFailure
<1>25. CASE RunAborted
  BY <1>0, <1>25 DEF RunAborted, Elsewhere
<1>26. CASE CrashObserved
  BY <1>0, <1>26 DEF CrashObserved, ObservesExit
<1>27. CASE RuntimeStops
  BY <1>0, <1>27 DEF RuntimeStops, CallStop, RemoveDirectory
<1>28. CASE Stopped /\ UNCHANGED <<run, stopCall, client, remote>>
  BY <1>0, <1>28 DEF Stopped, Forget, RemoveDirectory
<1>29. CASE Kill /\ UNCHANGED <<run, stopCall, client, remote>>
  BY <1>0, <1>29 DEF Kill
<1>30. CASE LeakDetected /\ UNCHANGED <<run, stopCall, client, remote>>
  BY <1>0, <1>30 DEF LeakDetected, Forget, RemoveDirectory
<1>31. CASE LeaderDies /\ UNCHANGED <<run, stopCall, client, remote>>
  BY <1>0, <1>31 DEF LeaderDies
<1>32. CASE LeaderForks /\ UNCHANGED <<run, stopCall, client, remote>>
  BY <1>0, <1>32 DEF LeaderForks
<1>33. CASE DescendantsDie /\ UNCHANGED <<run, stopCall, client, remote>>
  BY <1>0, <1>33 DEF DescendantsDie
<1>34. CASE Executes
  BY <1>0, <1>34 DEF Executes
<1>35. CASE UNCHANGED vars
  BY <1>0, <1>35 DEF vars
<1> QED
  BY <1>1, <1>2, <1>3, <1>4, <1>5, <1>6, <1>7, <1>8, <1>9, <1>10, <1>11, <1>12,
     <1>13, <1>14, <1>15, <1>16, <1>17, <1>18, <1>19, <1>20, <1>21, <1>22, <1>23,
     <1>24, <1>25, <1>26, <1>27, <1>28, <1>29, <1>30, <1>31, <1>32, <1>33, <1>34,
     <1>35, <1>36
  DEF Next, Run, SupervisorSteps, StopStep, ProcessSteps, ProcessStep, Over

LEMMA NextAccounted == IInv /\ [Next]_vars => Accounted'
<1> SUFFICES ASSUME IInv, [Next]_vars  PROVE Accounted'
  OBVIOUS
<1> USE DEF supervisor, tree, run, client, remote, SupervisorTypeOK, Callers, StopStages
<1> USE DEF TypeOK, Shared, Accounted, Kept, Reported, Early, GroupExists, Before, Linked, Finally, Ends, Unread
<1>0. TypeOK /\ Shared /\ Accounted /\ Kept
  BY DEF IInv
<1>1. CASE RunBegins
  BY <1>0, <1>1 DEF RunBegins, Goto, Elsewhere
<1>2. CASE StartCalled
  BY <1>0, <1>2 DEF StartCalled, Goto, Throw, Elsewhere
<1>3. CASE WorkspaceApproved
  BY <1>0, <1>3 DEF WorkspaceApproved, Goto, Throw, Elsewhere
<1>36. CASE StateDirectoryMade
  BY <1>0, <1>36 DEF StateDirectoryMade, Goto
<1>4. CASE Spawned
  BY <1>0, <1>4 DEF Spawned, Spawn, Goto
<1>5. CASE PreparationFails
  BY <1>0, <1>5 DEF PreparationFails, Throw
<1>6. CASE ServerReady
  BY <1>0, <1>6 DEF ServerReady, Goto
<1>7. CASE StartupFails
  BY <1>0, <1>7 DEF StartupFails, CallStop, RemoveDirectory, Goto
<1>8. CASE SessionCreated
  BY <1>0, <1>8 DEF SessionCreated, Elsewhere
<1>9. CASE PromptTaken
  BY <1>0, <1>9 DEF PromptTaken, Takes
<1>10. CASE PromptAnswered
  BY <1>0, <1>10 DEF PromptAnswered, Goto, Elsewhere
<1>11. CASE Notice
  BY <1>0, <1>11 DEF Notice, Takes
<1>12. CASE Delivered
  BY <1>0, <1>12 DEF Delivered, Outcome
<1>13. CASE PermissionAsked
  BY <1>0, <1>13 DEF PermissionAsked, Outcome, Elsewhere
<1>14. CASE SessionFails
  BY <1>0, <1>14 DEF SessionFails, Throw, Elsewhere
<1>15. CASE ConsumerLeaves
  BY <1>0, <1>15 DEF ConsumerLeaves, Elsewhere
<1>16. CASE Caught
  BY <1>0, <1>16 DEF Caught, Goto, Elsewhere
<1>17. CASE ReadMessages
  BY <1>0, <1>17 DEF ReadMessages
<1>18. CASE ReadInfo
  BY <1>0, <1>18 DEF ReadInfo
<1>19. CASE ReadActive
  BY <1>0, <1>19 DEF ReadActive
<1>20. CASE Reconciled
  BY <1>0, <1>20 DEF Reconciled, Goto, Outcome, Elsewhere
<1>21. CASE RecoveryLeft
  BY <1>0, <1>21 DEF RecoveryLeft, Elsewhere
<1>22. CASE CleanupStep
  BY <1>0, <1>22 DEF CleanupStep, NextCleanup
<1>23. CASE CleanupStops
  BY <1>0, <1>23 DEF CleanupStops, CallStop, RemoveDirectory, Goto
<1>24. CASE StopSettles
  BY <1>0, <1>24 DEF StopSettles, Throw, FirstFailure
<1>25. CASE RunAborted
  BY <1>0, <1>25 DEF RunAborted, Elsewhere
<1>26. CASE CrashObserved
  BY <1>0, <1>26 DEF CrashObserved, ObservesExit
<1>27. CASE RuntimeStops
  BY <1>0, <1>27 DEF RuntimeStops, CallStop, RemoveDirectory
<1>28. CASE Stopped /\ UNCHANGED <<run, stopCall, client, remote>>
  BY <1>0, <1>28 DEF Stopped, Forget, RemoveDirectory
<1>29. CASE Kill /\ UNCHANGED <<run, stopCall, client, remote>>
  BY <1>0, <1>29 DEF Kill
<1>30. CASE LeakDetected /\ UNCHANGED <<run, stopCall, client, remote>>
  BY <1>0, <1>30 DEF LeakDetected, Forget, RemoveDirectory
<1>31. CASE LeaderDies /\ UNCHANGED <<run, stopCall, client, remote>>
  BY <1>0, <1>31 DEF LeaderDies
<1>32. CASE LeaderForks /\ UNCHANGED <<run, stopCall, client, remote>>
  BY <1>0, <1>32 DEF LeaderForks
<1>33. CASE DescendantsDie /\ UNCHANGED <<run, stopCall, client, remote>>
  BY <1>0, <1>33 DEF DescendantsDie
<1>34. CASE Executes
  BY <1>0, <1>34 DEF Executes
<1>35. CASE UNCHANGED vars
  BY <1>0, <1>35 DEF vars
<1> QED
  BY <1>1, <1>2, <1>3, <1>4, <1>5, <1>6, <1>7, <1>8, <1>9, <1>10, <1>11, <1>12,
     <1>13, <1>14, <1>15, <1>16, <1>17, <1>18, <1>19, <1>20, <1>21, <1>22, <1>23,
     <1>24, <1>25, <1>26, <1>27, <1>28, <1>29, <1>30, <1>31, <1>32, <1>33, <1>34,
     <1>35, <1>36
  DEF Next, Run, SupervisorSteps, StopStep, ProcessSteps, ProcessStep, Over

LEMMA NextKept == IInv /\ [Next]_vars => Kept'
<1> SUFFICES ASSUME IInv, [Next]_vars  PROVE Kept'
  OBVIOUS
<1> USE DEF supervisor, tree, run, client, remote, SupervisorTypeOK, Callers, StopStages
<1> USE DEF TypeOK, Shared, Accounted, Kept, Early, Before, Linked, Finally, Ends, Unread
<1>0. TypeOK /\ Shared /\ Accounted /\ Kept
  BY DEF IInv
<1>1. CASE RunBegins
  BY <1>0, <1>1 DEF RunBegins, Goto, Elsewhere
<1>2. CASE StartCalled
  BY <1>0, <1>2 DEF StartCalled, Goto, Throw, Elsewhere
<1>3. CASE WorkspaceApproved
  BY <1>0, <1>3 DEF WorkspaceApproved, Goto, Throw, Elsewhere
<1>36. CASE StateDirectoryMade
  BY <1>0, <1>36 DEF StateDirectoryMade, Goto
<1>4. CASE Spawned
  BY <1>0, <1>4 DEF Spawned, Spawn, Goto
<1>5. CASE PreparationFails
  BY <1>0, <1>5 DEF PreparationFails, Throw
<1>6. CASE ServerReady
  BY <1>0, <1>6 DEF ServerReady, Goto
<1>7. CASE StartupFails
  BY <1>0, <1>7 DEF StartupFails, CallStop, RemoveDirectory, Goto
<1>8. CASE SessionCreated
  BY <1>0, <1>8 DEF SessionCreated, Elsewhere
<1>9. CASE PromptTaken
  BY <1>0, <1>9 DEF PromptTaken, Takes
<1>10. CASE PromptAnswered
  BY <1>0, <1>10 DEF PromptAnswered, Goto, Elsewhere
<1>11. CASE Notice
  BY <1>0, <1>11 DEF Notice, Takes
<1>12. CASE Delivered
  BY <1>0, <1>12 DEF Delivered, Outcome
<1>13. CASE PermissionAsked
  BY <1>0, <1>13 DEF PermissionAsked, Outcome, Elsewhere
<1>14. CASE SessionFails
  BY <1>0, <1>14 DEF SessionFails, Throw, Elsewhere
<1>15. CASE ConsumerLeaves
  BY <1>0, <1>15 DEF ConsumerLeaves, Elsewhere
<1>16. CASE Caught
  BY <1>0, <1>16 DEF Caught, Goto, Elsewhere
<1>17. CASE ReadMessages
  BY <1>0, <1>17 DEF ReadMessages
<1>18. CASE ReadInfo
  BY <1>0, <1>18 DEF ReadInfo
<1>19. CASE ReadActive
  BY <1>0, <1>19 DEF ReadActive
<1>20. CASE Reconciled
  BY <1>0, <1>20 DEF Reconciled, Goto, Outcome, Elsewhere
<1>21. CASE RecoveryLeft
  BY <1>0, <1>21 DEF RecoveryLeft, Elsewhere
<1>22. CASE CleanupStep
  BY <1>0, <1>22 DEF CleanupStep, NextCleanup
<1>23. CASE CleanupStops
  BY <1>0, <1>23 DEF CleanupStops, CallStop, RemoveDirectory, Goto
<1>24. CASE StopSettles
  BY <1>0, <1>24 DEF StopSettles, Throw, FirstFailure
<1>25. CASE RunAborted
  BY <1>0, <1>25 DEF RunAborted, Elsewhere
<1>26. CASE CrashObserved
  BY <1>0, <1>26 DEF CrashObserved, ObservesExit
<1>27. CASE RuntimeStops
  BY <1>0, <1>27 DEF RuntimeStops, CallStop, RemoveDirectory
<1>28. CASE Stopped /\ UNCHANGED <<run, stopCall, client, remote>>
  BY <1>0, <1>28 DEF Stopped, Forget, RemoveDirectory
<1>29. CASE Kill /\ UNCHANGED <<run, stopCall, client, remote>>
  BY <1>0, <1>29 DEF Kill
<1>30. CASE LeakDetected /\ UNCHANGED <<run, stopCall, client, remote>>
  BY <1>0, <1>30 DEF LeakDetected, Forget, RemoveDirectory
<1>31. CASE LeaderDies /\ UNCHANGED <<run, stopCall, client, remote>>
  BY <1>0, <1>31 DEF LeaderDies
<1>32. CASE LeaderForks /\ UNCHANGED <<run, stopCall, client, remote>>
  BY <1>0, <1>32 DEF LeaderForks
<1>33. CASE DescendantsDie /\ UNCHANGED <<run, stopCall, client, remote>>
  BY <1>0, <1>33 DEF DescendantsDie
<1>34. CASE Executes
  BY <1>0, <1>34 DEF Executes
<1>35. CASE UNCHANGED vars
  BY <1>0, <1>35 DEF vars
<1> QED
  BY <1>1, <1>2, <1>3, <1>4, <1>5, <1>6, <1>7, <1>8, <1>9, <1>10, <1>11, <1>12,
     <1>13, <1>14, <1>15, <1>16, <1>17, <1>18, <1>19, <1>20, <1>21, <1>22, <1>23,
     <1>24, <1>25, <1>26, <1>27, <1>28, <1>29, <1>30, <1>31, <1>32, <1>33, <1>34,
     <1>35, <1>36
  DEF Next, Run, SupervisorSteps, StopStep, ProcessSteps, ProcessStep, Over

LEMMA NextReading == IInv /\ [Next]_vars => Reading'
<1> SUFFICES ASSUME IInv, [Next]_vars  PROVE Reading'
  OBVIOUS
<1> USE DEF supervisor, tree, run, client, remote, SupervisorTypeOK, Callers, StopStages
<1> USE DEF TypeOK, Reading, Before, Linked, Finally, Ends, Unread
<1>0. TypeOK /\ Reading
  BY DEF IInv
<1>1. CASE RunBegins
  BY <1>0, <1>1 DEF RunBegins, Goto, Elsewhere
<1>2. CASE StartCalled
  BY <1>0, <1>2 DEF StartCalled, Goto, Throw, Elsewhere
<1>3. CASE WorkspaceApproved
  BY <1>0, <1>3 DEF WorkspaceApproved, Goto, Throw, Elsewhere
<1>36. CASE StateDirectoryMade
  BY <1>0, <1>36 DEF StateDirectoryMade, Goto
<1>4. CASE Spawned
  BY <1>0, <1>4 DEF Spawned, Spawn, Goto
<1>5. CASE PreparationFails
  BY <1>0, <1>5 DEF PreparationFails, Throw
<1>6. CASE ServerReady
  BY <1>0, <1>6 DEF ServerReady, Goto
<1>7. CASE StartupFails
  BY <1>0, <1>7 DEF StartupFails, CallStop, RemoveDirectory, Goto
<1>8. CASE SessionCreated
  BY <1>0, <1>8 DEF SessionCreated, Elsewhere
<1>9. CASE PromptTaken
  BY <1>0, <1>9 DEF PromptTaken, Takes
<1>10. CASE PromptAnswered
  BY <1>0, <1>10 DEF PromptAnswered, Goto, Elsewhere
<1>11. CASE Notice
  BY <1>0, <1>11 DEF Notice, Takes
<1>12. CASE Delivered
  BY <1>0, <1>12 DEF Delivered, Outcome
<1>13. CASE PermissionAsked
  BY <1>0, <1>13 DEF PermissionAsked, Outcome, Elsewhere
<1>14. CASE SessionFails
  BY <1>0, <1>14 DEF SessionFails, Throw, Elsewhere
<1>15. CASE ConsumerLeaves
  BY <1>0, <1>15 DEF ConsumerLeaves, Elsewhere
<1>16. CASE Caught
  BY <1>0, <1>16 DEF Caught, Goto, Elsewhere
<1>17. CASE ReadMessages
  BY <1>0, <1>17 DEF ReadMessages
<1>18. CASE ReadInfo
  BY <1>0, <1>18 DEF ReadInfo
<1>19. CASE ReadActive
  BY <1>0, <1>19 DEF ReadActive
<1>20. CASE Reconciled
  BY <1>0, <1>20 DEF Reconciled, Goto, Outcome, Elsewhere
<1>21. CASE RecoveryLeft
  BY <1>0, <1>21 DEF RecoveryLeft, Elsewhere
<1>22. CASE CleanupStep
  BY <1>0, <1>22 DEF CleanupStep, NextCleanup
<1>23. CASE CleanupStops
  BY <1>0, <1>23 DEF CleanupStops, CallStop, RemoveDirectory, Goto
<1>24. CASE StopSettles
  BY <1>0, <1>24 DEF StopSettles, Throw, FirstFailure
<1>25. CASE RunAborted
  BY <1>0, <1>25 DEF RunAborted, Elsewhere
<1>26. CASE CrashObserved
  BY <1>0, <1>26 DEF CrashObserved, ObservesExit
<1>27. CASE RuntimeStops
  BY <1>0, <1>27 DEF RuntimeStops, CallStop, RemoveDirectory
<1>28. CASE Stopped /\ UNCHANGED <<run, stopCall, client, remote>>
  BY <1>0, <1>28 DEF Stopped, Forget, RemoveDirectory
<1>29. CASE Kill /\ UNCHANGED <<run, stopCall, client, remote>>
  BY <1>0, <1>29 DEF Kill
<1>30. CASE LeakDetected /\ UNCHANGED <<run, stopCall, client, remote>>
  BY <1>0, <1>30 DEF LeakDetected, Forget, RemoveDirectory
<1>31. CASE LeaderDies /\ UNCHANGED <<run, stopCall, client, remote>>
  BY <1>0, <1>31 DEF LeaderDies
<1>32. CASE LeaderForks /\ UNCHANGED <<run, stopCall, client, remote>>
  BY <1>0, <1>32 DEF LeaderForks
<1>33. CASE DescendantsDie /\ UNCHANGED <<run, stopCall, client, remote>>
  BY <1>0, <1>33 DEF DescendantsDie
<1>34. CASE Executes
  BY <1>0, <1>34 DEF Executes
<1>35. CASE UNCHANGED vars
  BY <1>0, <1>35 DEF vars
<1> QED
  BY <1>1, <1>2, <1>3, <1>4, <1>5, <1>6, <1>7, <1>8, <1>9, <1>10, <1>11, <1>12,
     <1>13, <1>14, <1>15, <1>16, <1>17, <1>18, <1>19, <1>20, <1>21, <1>22, <1>23,
     <1>24, <1>25, <1>26, <1>27, <1>28, <1>29, <1>30, <1>31, <1>32, <1>33, <1>34,
     <1>35, <1>36
  DEF Next, Run, SupervisorSteps, StopStep, ProcessSteps, ProcessStep, Over

LEMMA InitInvariant == Init => IInv
<1> SUFFICES ASSUME Init  PROVE IInv
  OBVIOUS
<1>1. SupervisorTypeOK
  BY DEF Init, SupervisorInit, SupervisorTypeOK, Callers, StopStages
<1>2. RunTyped
  BY DEF Init, RunTyped, Before, Linked, Finally
<1>3. DataTyped
  <2>1. log = <<>> /\ seen = 0 /\ startedAt = 0 /\ read = Unread /\ prompts = 0 /\ executions = 0
    BY DEF Init
  <2>2. log \in Seq(Entries) /\ Len(log) = 0
    BY <2>1
  <2> QED
    BY <2>1, <2>2, RuntimeAssumption DEF DataTyped, Unread
<1>4. Shared /\ Accounted /\ Kept /\ Reading
  BY DEF Init, SupervisorInit, Shared, Accounted, Kept, Reading, Early, GroupExists, Before, Finally, Unread
<1> QED
  BY <1>1, <1>2, <1>3, <1>4 DEF IInv, TypeOK, RunTyped, DataTyped, Entries

(* TypeOK holds for any number of policy notices. *)
THEOREM Invariance == Spec => []IInv
<1>1. IInv /\ [Next]_vars => IInv'
  BY NextTypeOK, NextShared, NextAccounted, NextKept, NextReading DEF IInv
<1> QED
  BY <1>1, InitInvariant, PTL DEF Spec

(* Everything keeps the shape the model gives it (OpenCodeRuntime,            *)
(* OpenCodeServerSupervisor).                                                 *)
THEOREM TypesKept == Spec => []TypeOK
<1>1. IInv => TypeOK
  BY DEF IInv
<1> QED
  BY <1>1, Invariance, PTL

(* A server process that outlives the run was reported, to the run's terminal *)
(* or to the caller of stop() (process-supervisor.ts, runtime.ts), unless the *)
(* removal of the state directory failed too: then somebody was told of that  *)
(* failure, though not that a process is left.                                *)
THEOREM NoSurvivorIsSilent == Spec => []NoSilentSurvivor
<1>1. IInv => NoSilentSurvivor
  BY DEF IInv, TypeOK, SupervisorTypeOK, Shared, Accounted, Kept, Reported, NoSilentSurvivor, ResourceLeak
<1> QED
  BY <1>1, Invariance, PTL
-------------------------------------------------------------------------------
(* What a reconciliation takes for the end of the session's work is one: no    *)
(* step that was read is later, nor is the start that the stream showed.       *)
LEMMA RecoveredIsEarned ==
  ASSUME DataTyped, RecoveredEnd # 0, log[RecoveredEnd] = "succeeded"
  PROVE  RecoveredEnd \in DOMAIN log /\ EarnedBy(RecoveredEnd)
<1> DEFINE n == read.upTo
           m == read.infoUpTo
<1>0. /\ log \in Seq(Entries) /\ n \in 0..Len(log) /\ m \in 0..Len(log)
      /\ startedAt \in 0..Len(log) /\ Len(log) \in Nat
  BY DEF DataTyped
<1>1. /\ Latest(n, Ends) \in 0..n
      /\ \A j \in Latest(n, Ends) + 1 .. n : log[j] \notin Ends
  BY <1>0, LatestIsLast
<1>2. /\ Latest(n, {"step"}) \in 0..n
      /\ \A j \in Latest(n, {"step"}) + 1 .. n : log[j] \notin {"step"}
  BY <1>0, LatestIsLast
<1>3. Latest(m, Ends) \in 0..m
  BY <1>0, LatestIsLast
<1> DEFINE end == RecoveredEnd
<1>4. /\ end \in 1..Len(log) /\ end > startedAt /\ end > Latest(n, {"step"})
      /\ end = Latest(n, Ends) \/ Latest(n, Ends) = 0
  <2>1. CASE end = FreshEnd(n)
    BY <1>0, <1>1, <1>2, <2>1 DEF FreshEnd
  <2>2. CASE end = ProjectedEnd
    BY <1>0, <1>2, <1>3, <2>2 DEF ProjectedEnd
  <2> QED
    BY <2>1, <2>2 DEF RecoveredEnd
<1>5. ASSUME NEW j \in end + 1 .. n  PROVE log[j] = "start"
  <2>1. j \in 1..Len(log) /\ j \in Latest(n, {"step"}) + 1 .. n /\ j \in Latest(n, Ends) + 1 .. n
    <3> HIDE DEF end, n, m
    <3> QED
      BY <1>0, <1>1, <1>2, <1>4, <1>5
  <2>2. log[j] \in Entries /\ log[j] \notin Ends /\ log[j] # "step"
    BY <1>0, <1>1, <1>2, <2>1
  <2> QED
    BY <2>2 DEF Entries
<1>6. \A j \in end + 1 .. read.upTo : log[j] = "start"
  BY <1>5
<1> QED
  BY <1>0, <1>4, <1>6 DEF EarnedBy

(* The only steps that complete a run are the delivery of a success and the   *)
(* end of a reconciliation.                                                   *)
LEMMA NextEarned ==
  IInv /\ [Next]_vars => (outcome # "completed" /\ outcome' = "completed" => \E i \in DOMAIN log : EarnedBy(i))
<1> SUFFICES ASSUME IInv, [Next]_vars, outcome # "completed", outcome' = "completed"
             PROVE  \E i \in DOMAIN log : EarnedBy(i)
  OBVIOUS
<1> USE DEF run
<1>0. DataTyped /\ Reading
  BY DEF IInv, TypeOK, DataTyped, Entries
<1>c. outcome # "completed" /\ outcome' = "completed"
  OBVIOUS
<1>1. CASE RunBegins
  BY <1>c, <1>1 DEF RunBegins, Goto, Elsewhere
<1>2. CASE StartCalled
  BY <1>c, <1>2 DEF StartCalled, Goto, Throw, Elsewhere
<1>3. CASE WorkspaceApproved
  BY <1>c, <1>3 DEF WorkspaceApproved, Goto, Throw, Elsewhere
<1>36. CASE StateDirectoryMade
  BY <1>0, <1>36 DEF StateDirectoryMade, Goto
<1>4. CASE Spawned
  BY <1>c, <1>4 DEF Spawned, Spawn, Goto
<1>5. CASE PreparationFails
  BY <1>c, <1>5 DEF PreparationFails, Throw
<1>6. CASE ServerReady
  BY <1>c, <1>6 DEF ServerReady, Goto
<1>7. CASE StartupFails
  BY <1>c, <1>7 DEF StartupFails, CallStop, RemoveDirectory, Goto
<1>8. CASE SessionCreated
  BY <1>c, <1>8 DEF SessionCreated, Elsewhere
<1>9. CASE PromptTaken
  BY <1>c, <1>9 DEF PromptTaken, Takes
<1>10. CASE PromptAnswered
  BY <1>c, <1>10 DEF PromptAnswered, Goto, Elsewhere
<1>11. CASE Notice
  BY <1>c, <1>11 DEF Notice, Takes
<1>12. CASE Delivered
  <2> DEFINE next == seen + 1
  <2>0. pc = "streaming" /\ seen < Len(log) /\ seen' = next
    BY <1>12 DEF Delivered
  <2>1. next \in DOMAIN log /\ next > startedAt /\ next \in Nat
    BY <1>0, <2>0 DEF DataTyped
  <2>2. log[next] = "succeeded"
    BY <1>12, <1>c, <2>0 DEF Delivered, Outcome, Ends, run
  <2>3. read.upTo = 0
    BY <1>0, <2>0 DEF Reading, Unread, Linked
  <2>4. \A j \in next + 1 .. 0 : FALSE
    BY <2>1
  <2>5. EarnedBy(next)
    BY <2>1, <2>2, <2>3, <2>4 DEF EarnedBy
  <2> QED
    BY <2>1, <2>5
<1>13. CASE PermissionAsked
  BY <1>c, <1>13 DEF PermissionAsked, Outcome, Elsewhere
<1>14. CASE SessionFails
  BY <1>c, <1>14 DEF SessionFails, Throw, Elsewhere
<1>15. CASE ConsumerLeaves
  BY <1>c, <1>15 DEF ConsumerLeaves, Elsewhere
<1>16. CASE Caught
  BY <1>c, <1>16 DEF Caught, Goto, Elsewhere
<1>17. CASE ReadMessages
  BY <1>c, <1>17 DEF ReadMessages
<1>18. CASE ReadInfo
  BY <1>c, <1>18 DEF ReadInfo
<1>19. CASE ReadActive
  BY <1>c, <1>19 DEF ReadActive
<1>20. CASE Reconciled
  <2> DEFINE end == RecoveredEnd
  <2>1. end # 0 /\ log[end] = "succeeded"
    BY <1>20, <1>c DEF Reconciled, Goto, Outcome
  <2>2. end \in DOMAIN log /\ EarnedBy(end)
    BY <1>0, <2>1, RecoveredIsEarned
  <2> QED
    BY <2>2
<1>21. CASE RecoveryLeft
  BY <1>c, <1>21 DEF RecoveryLeft, Elsewhere
<1>22. CASE CleanupStep
  BY <1>c, <1>22 DEF CleanupStep, NextCleanup
<1>23. CASE CleanupStops
  BY <1>c, <1>23 DEF CleanupStops, CallStop, RemoveDirectory, Goto
<1>24. CASE StopSettles
  BY <1>c, <1>24 DEF StopSettles, Throw, FirstFailure
<1>25. CASE RunAborted
  BY <1>c, <1>25 DEF RunAborted, Elsewhere
<1>26. CASE CrashObserved
  BY <1>c, <1>26 DEF CrashObserved, ObservesExit
<1>27. CASE RuntimeStops
  BY <1>c, <1>27 DEF RuntimeStops, CallStop, RemoveDirectory
<1>28. CASE Stopped /\ UNCHANGED <<run, stopCall, client, remote>>
  BY <1>c, <1>28 DEF Stopped, Forget, RemoveDirectory
<1>29. CASE Kill /\ UNCHANGED <<run, stopCall, client, remote>>
  BY <1>c, <1>29 DEF Kill
<1>30. CASE LeakDetected /\ UNCHANGED <<run, stopCall, client, remote>>
  BY <1>c, <1>30 DEF LeakDetected, Forget, RemoveDirectory
<1>31. CASE LeaderDies /\ UNCHANGED <<run, stopCall, client, remote>>
  BY <1>c, <1>31 DEF LeaderDies
<1>32. CASE LeaderForks /\ UNCHANGED <<run, stopCall, client, remote>>
  BY <1>c, <1>32 DEF LeaderForks
<1>33. CASE DescendantsDie /\ UNCHANGED <<run, stopCall, client, remote>>
  BY <1>c, <1>33 DEF DescendantsDie
<1>34. CASE Executes
  BY <1>c, <1>34 DEF Executes
<1>35. CASE UNCHANGED vars
  BY <1>c, <1>35 DEF vars
<1> QED
  BY <1>1, <1>2, <1>3, <1>4, <1>5, <1>6, <1>7, <1>8, <1>9, <1>10, <1>11, <1>12,
     <1>13, <1>14, <1>15, <1>16, <1>17, <1>18, <1>19, <1>20, <1>21, <1>22, <1>23,
     <1>24, <1>25, <1>26, <1>27, <1>28, <1>29, <1>30, <1>31, <1>32, <1>33, <1>34,
     <1>35, <1>36
  DEF Next, Run, SupervisorSteps, StopStep, ProcessSteps, ProcessStep, Over

(* A run that is completed had a success with no later work the adapter knew  *)
(* of: reconcileSession does not take the idle state of an earlier execution  *)
(* for the end of a later one.                                                *)
THEOREM CompletedEarned == Spec => CompletedIsEarned
<1>1. IInv /\ [Next]_vars => [outcome # "completed" /\ outcome' = "completed" => \E i \in DOMAIN log : EarnedBy(i)]_vars
  BY NextEarned
<1> QED
  BY <1>1, Invariance, PTL DEF Spec, CompletedIsEarned
-------------------------------------------------------------------------------
(* The fields of a NormalizationContext that the reports depend on. *)
ContextOK(c) ==
  /\ DOMAIN c = {"messages", "retired", "incomplete", "sessions", "parents", "announced", "seen",
                 "active", "unmatched", "counted", "reported", "turns"}
  /\ c = [f \in DOMAIN c |-> c[f]]
  /\ c.messages = [k \in DOMAIN c.messages |-> c.messages[k]]

(* What is reported is so, and a model whose messages were all withdrawn is    *)
(* remembered, because its zero depends on what the others have.               *)
Follows(c) ==
  \A b \in Buckets :
    /\ b \notin DOMAIN c.reported => InBucket(c.messages, b) = {}
    /\ b \in DOMAIN c.reported =>
         /\ c.reported[b] = Report(c.messages, b, c.incomplete)
         /\ InBucket(c.messages, b) = {} => b \in c.retired

Faithful(c) == ContextOK(c) /\ Follows(c)

(* What Follows depends on. *)
LEMMA FollowsSame ==
  ASSUME NEW c, NEW d, Faithful(c), ContextOK(d), d.messages = c.messages, d.reported = c.reported,
         d.retired = c.retired, d.incomplete = c.incomplete
  PROVE  Faithful(d)
BY DEF Faithful, Follows

(* A report of a model with messages depends on those alone. *)
LEMMA ReportOfOwn ==
  ASSUME NEW M, NEW N, NEW b, NEW incomplete, InBucket(M, b) = InBucket(N, b), InBucket(M, b) # {},
         \A k \in InBucket(M, b) : M[k] = N[k]
  PROVE  Report(M, b, incomplete) = Report(N, b, incomplete)
<1> DEFINE mine == InBucket(M, b)
           priced == WithCost(M, mine)
           measured == {l \in mine : M[l].tokens # None}
<1>1. priced = WithCost(N, mine)
  BY DEF WithCost
<1>2. measured = {l \in mine : N[l].tokens # None}
  OBVIOUS
<1>3. [k \in measured |-> M[k].tokens] = [k \in measured |-> N[k].tokens]
  OBVIOUS
<1>4. [k \in priced |-> Cost(M[k])] = [k \in priced |-> Cost(N[k])]
  BY DEF WithCost
<1>5. (\A k \in mine : Completed(M[k])) <=> (\A k \in mine : Completed(N[k]))
  OBVIOUS
<1>6. (\E k \in mine : M[k].tokens = None \/ Cost(M[k]) = None)
        <=> (\E k \in mine : N[k].tokens = None \/ Cost(N[k]) = None)
  OBVIOUS
<1> HIDE DEF mine, priced, measured
<1>7. Report(M, b, incomplete) =
        [tokens |-> Total([k \in measured |-> M[k].tokens]),
         amount |-> Total([k \in priced |-> Cost(M[k])]),
         estimated |-> priced # {},
         final |-> (\A k \in mine : Completed(M[k])),
         incomplete |-> \/ ~(\A k \in mine : Completed(M[k])) \/ incomplete
                        \/ \E k \in mine : M[k].tokens = None \/ Cost(M[k]) = None]
  BY DEF Report, mine, priced, measured
<1>8. Report(N, b, incomplete) =
        [tokens |-> Total([k \in measured |-> N[k].tokens]),
         amount |-> Total([k \in priced |-> Cost(N[k])]),
         estimated |-> priced # {},
         final |-> (\A k \in mine : Completed(N[k])),
         incomplete |-> \/ ~(\A k \in mine : Completed(N[k])) \/ incomplete
                        \/ \E k \in mine : N[k].tokens = None \/ Cost(N[k]) = None]
  BY <1>1, <1>2 DEF Report, mine, measured
<1> QED
  BY <1>3, <1>4, <1>5, <1>6, <1>7, <1>8

LEMMA RefreshedFollows ==
  ASSUME NEW c, NEW B, ContextOK(c),
         \A b \in Buckets \ B :
           /\ b \notin DOMAIN c.reported => InBucket(c.messages, b) = {}
           /\ b \in DOMAIN c.reported => c.reported[b] = Report(c.messages, b, c.incomplete),
         \A b \in Buckets : b \in DOMAIN c.reported \cup B /\ InBucket(c.messages, b) = {} => b \in c.retired
  PROVE  Faithful(Refreshed(c, B))
<1> DEFINE d == Refreshed(c, B)
           reported == [b \in DOMAIN c.reported \cup B |->
                          IF b \in B THEN Report(c.messages, b, c.incomplete) ELSE c.reported[b]]
<1>1. d = [c EXCEPT !.reported = reported]
  BY DEF Refreshed
<1> HIDE DEF d, reported
<1>2. /\ ContextOK(d) /\ d.reported = reported /\ d.messages = c.messages
      /\ d.retired = c.retired /\ d.incomplete = c.incomplete
  BY <1>1 DEF ContextOK
<1>3. ASSUME NEW b \in Buckets
      PROVE  /\ b \notin DOMAIN reported => InBucket(c.messages, b) = {}
             /\ b \in DOMAIN reported =>
                  /\ reported[b] = Report(c.messages, b, c.incomplete)
                  /\ InBucket(c.messages, b) = {} => b \in c.retired
  BY DEF reported
<1>4. Faithful(d)
  BY <1>2, <1>3 DEF Faithful, Follows
<1> QED
  BY <1>4 DEF d

(* A stand-in that gives way to its compaction has said the same of the same   *)
(* model.                                                                      *)
LEMMA CompactedKeeps ==
  ASSUME NEW c, NEW key, NEW m, NEW streamed, ContextOK(c)
  PROVE  LET d == Compacted(c, key, m, streamed)
         IN  /\ ContextOK(d) /\ d.reported = c.reported /\ d.retired = c.retired
             /\ d.incomplete = c.incomplete
             /\ DOMAIN d.messages \subseteq DOMAIN c.messages
             /\ \A k \in DOMAIN d.messages : d.messages[k] = c.messages[k]
             /\ \A k \in DOMAIN c.messages \ DOMAIN d.messages :
                  c.messages[k] = m /\ k # key /\ key \notin DOMAIN c.messages
<1> DEFINE found == IF streamed THEN {} ELSE StandIns(c, key, m)
           gone == IF found = {} THEN {} ELSE {CHOOSE k \in found : TRUE}
           s == key[1]
           unmatched == c.unmatched \ ({key} \cup gone)
           messages == Restrict(c.messages, DOMAIN c.messages \ gone)
           active == [c.active EXCEPT ![s] = IF ~Completed(m) THEN key[2] ELSE IF @ = key[2] THEN None ELSE @]
           d == Compacted(c, key, m, streamed)
<1>1. \A k \in gone : c.messages[k] = m /\ k # key /\ key \notin DOMAIN c.messages
  BY DEF StandIns
<1>2. /\ messages = [k \in DOMAIN c.messages \ gone |-> c.messages[k]]
      /\ DOMAIN messages = DOMAIN c.messages \ gone
      /\ messages = [k \in DOMAIN messages |-> messages[k]]
      /\ \A k \in DOMAIN messages : messages[k] = c.messages[k]
  <2> HIDE DEF gone
  <2> QED
    BY DEF Restrict
<1>3. d = [c EXCEPT !.unmatched = unmatched, !.messages = messages, !.active = active]
  <2>1. active = [c EXCEPT !.active[s] = IF ~Completed(m) THEN key[2] ELSE IF @ = key[2] THEN None ELSE @].active
    BY DEF ContextOK
  <2> QED
    BY DEF Compacted, ContextOK
<1> HIDE DEF gone, found, unmatched, messages, active, d, s
<1>4. /\ ContextOK(d) /\ d.reported = c.reported /\ d.retired = c.retired
      /\ d.incomplete = c.incomplete /\ d.messages = messages
  <2>1. /\ DOMAIN d = DOMAIN c /\ d = [f \in DOMAIN d |-> d[f]]
        /\ d.messages = messages /\ d.reported = c.reported /\ d.retired = c.retired
        /\ d.incomplete = c.incomplete
    BY <1>3 DEF ContextOK
  <2> QED
    BY <1>2, <2>1 DEF ContextOK
<1> QED
  BY <1>1, <1>2, <1>4 DEF d

(* Reporting again what a message touched, and every empty bucket, keeps all   *)
(* reports true; a message that changes nothing reports nothing.              *)
LEMMA NormalizedFollows ==
  ASSUME NEW c, NEW key, NEW m, NEW streamed, Faithful(c)
  PROVE  Faithful(Normalized(c, key, m, streamed))
<1> DEFINE c1 == IF m.kind = "compaction" THEN Compacted(c, key, m, streamed) ELSE c
           messages == [k \in DOMAIN c1.messages \cup {key} |-> IF k = key THEN m ELSE c1.messages[k]]
           changed == ~(key \in DOMAIN c.messages /\ c.messages[key] = m)
           vacated == Left(c.messages, key, m)
           retired == (c.retired \ {m.model}) \cup {b \in vacated : InBucket(messages, b) = {}}
           counts == m.kind = "assistant" /\ Completed(m)
           turns == c1.turns + IF counts /\ key[1] = Root /\ key \notin c.counted THEN 1 ELSE 0
           counted == IF counts THEN c1.counted \cup {key} ELSE c1.counted
           c2 == [c1 EXCEPT !.messages = messages, !.retired = IF changed THEN retired ELSE @,
                            !.turns = turns, !.counted = counted]
           B == {m.model} \cup vacated \cup retired
<1>1. Normalized(c, key, m, streamed) = IF changed THEN Refreshed(c2, B) ELSE c2
  <2>1. [c1 EXCEPT !.messages = messages,
                   !.retired = IF changed THEN retired ELSE @,
                   !.turns = @ + IF counts /\ key[1] = Root /\ key \notin c.counted THEN 1 ELSE 0,
                   !.counted = IF counts THEN @ \cup {key} ELSE @] = c2
    OBVIOUS
  <2> HIDE DEF messages, retired, vacated, c1, c2, counts, turns, counted
  <2> QED
    BY <2>1 DEF Normalized, messages, retired, vacated, c1, counts
<1>2. /\ ContextOK(c1) /\ c1.reported = c.reported /\ c1.retired = c.retired
      /\ c1.incomplete = c.incomplete
      /\ DOMAIN c1.messages \subseteq DOMAIN c.messages
      /\ \A k \in DOMAIN c1.messages : c1.messages[k] = c.messages[k]
      /\ \A k \in DOMAIN c.messages \ DOMAIN c1.messages :
           c.messages[k] = m /\ k # key /\ key \notin DOMAIN c.messages
  <2>1. CASE m.kind = "compaction"
    BY <2>1, CompactedKeeps DEF Faithful
  <2>2. CASE m.kind # "compaction"
    BY <2>2 DEF Faithful
  <2> QED
    BY <2>1, <2>2
<1> HIDE DEF c1
<1>3. /\ messages = [k \in DOMAIN messages |-> messages[k]]
      /\ DOMAIN messages = DOMAIN c1.messages \cup {key}
      /\ messages[key] = m
      /\ \A k \in DOMAIN c1.messages \ {key} : messages[k] = c1.messages[k]
  OBVIOUS
<1>4. /\ c2.messages = messages /\ c2.reported = c.reported /\ c2.incomplete = c.incomplete
      /\ c2.retired = IF changed THEN retired ELSE c.retired
      /\ ContextOK(c2)
  <2> HIDE DEF messages, changed, retired, counts, turns, counted
  <2>1. /\ DOMAIN c2 = DOMAIN c1 /\ c2 = [f \in DOMAIN c2 |-> c2[f]]
        /\ c2.messages = messages /\ c2.reported = c1.reported /\ c2.incomplete = c1.incomplete
        /\ c2.retired = IF changed THEN retired ELSE c1.retired
    BY <1>2 DEF ContextOK
  <2> QED
    BY <1>2, <1>3, <2>1 DEF ContextOK
<1> HIDE DEF c2, messages, counts, turns, counted
<1>5. CASE ~changed
  <2>1. DOMAIN messages = DOMAIN c.messages /\ \A k \in DOMAIN messages : messages[k] = c.messages[k]
    BY <1>2, <1>3, <1>5
  <2>2. messages = c.messages
    BY <1>3, <2>1 DEF Faithful, ContextOK
  <2> QED
    BY <1>1, <1>4, <1>5, <2>2, FollowsSame
<1>6. CASE changed
  <2>1. InBucket(messages, m.model) # {}
    BY <1>3 DEF InBucket
  <2>2. ASSUME NEW b \in Buckets \ B
        PROVE  /\ InBucket(messages, b) = InBucket(c.messages, b)
               /\ \A k \in InBucket(messages, b) : messages[k] = c.messages[k]
    <3>1. b # m.model /\ b \notin vacated
      BY <2>2
    <3>2. ~(key \in DOMAIN c.messages /\ c.messages[key].model = b)
      BY <3>1 DEF vacated, Left
    <3>3. ASSUME NEW k \in DOMAIN messages, messages[k].model = b
          PROVE  k \in DOMAIN c.messages /\ c.messages[k] = messages[k]
      BY <1>2, <1>3, <3>1, <3>3
    <3>4. ASSUME NEW k \in DOMAIN c.messages, c.messages[k].model = b
          PROVE  k \in DOMAIN messages /\ c.messages[k] = messages[k]
      BY <1>2, <1>3, <3>1, <3>2, <3>4
    <3> HIDE DEF vacated, retired, B
    <3> QED
      BY <3>3, <3>4 DEF InBucket
  <2>3. ASSUME NEW b \in Buckets \ B
        PROVE  /\ b \notin DOMAIN c2.reported => InBucket(c2.messages, b) = {}
               /\ b \in DOMAIN c2.reported => c2.reported[b] = Report(c2.messages, b, c2.incomplete)
    <3>1. /\ b \notin DOMAIN c.reported => InBucket(c.messages, b) = {}
          /\ b \in DOMAIN c.reported => /\ c.reported[b] = Report(c.messages, b, c.incomplete)
                                        /\ InBucket(c.messages, b) = {} => b \in c.retired
      BY DEF Faithful, Follows
    <3>2. b \in DOMAIN c.reported => InBucket(c.messages, b) # {}
      BY <2>3, <3>1
    <3> HIDE DEF B
    <3> QED
      BY <1>4, <2>2, <3>1, <3>2, ReportOfOwn
  <2>4. ASSUME NEW b \in Buckets, b \in DOMAIN c2.reported \cup B, InBucket(c2.messages, b) = {}
        PROVE  b \in retired
    <3>1. InBucket(messages, b) = {} /\ b # m.model
      BY <1>4, <2>1, <2>4
    <3>2. CASE b \in vacated
      BY <3>1, <3>2
    <3>3. CASE b \in DOMAIN c.reported /\ b \notin vacated /\ b \notin retired
      <4>1. InBucket(c.messages, b) = {}
        BY <2>2, <3>1, <3>3
      <4> QED
        BY <3>1, <3>3, <4>1 DEF Faithful, Follows
    <3> QED
      BY <1>4, <2>4, <3>1, <3>2, <3>3
  <2>5. Faithful(Refreshed(c2, B))
    <3> HIDE DEF B, retired, changed
    <3> QED
      BY <1>4, <1>6, <2>3, <2>4, RefreshedFollows
  <2> QED
    BY <1>1, <1>6, <2>5
<1> QED
  BY <1>5, <1>6

(* Setting another field of a context changes nothing about its reports. *)
LEMMA FollowsBesides ==
  ASSUME NEW c, Faithful(c), NEW x
  PROVE  /\ Faithful([c EXCEPT !.parents = x]) /\ Faithful([c EXCEPT !.sessions = x])
         /\ Faithful([c EXCEPT !.seen = x]) /\ Faithful([c EXCEPT !.announced = x])
         /\ Faithful([c EXCEPT !.unmatched = x])
<1>1. ASSUME NEW f \in {"parents", "sessions", "seen", "announced", "unmatched"}
      PROVE  Faithful([c EXCEPT ![f] = x])
  <2> DEFINE d == [c EXCEPT ![f] = x]
  <2>1. /\ DOMAIN d = DOMAIN c /\ d = [g \in DOMAIN d |-> d[g]]
        /\ d.messages = c.messages /\ d.reported = c.reported /\ d.retired = c.retired
        /\ d.incomplete = c.incomplete
    BY DEF Faithful, ContextOK
  <2> HIDE DEF d
  <2>2. ContextOK(d)
    BY <2>1 DEF Faithful, ContextOK
  <2>3. Faithful(d)
    BY <2>1, <2>2, FollowsSame
  <2> QED
    BY <2>3 DEF d
<1> QED
  BY <1>1

LEMMA TrackedFollows ==
  ASSUME NEW c, NEW e, Faithful(c)
  PROVE  Faithful(Tracked(c, e))
<1>1. PICK parents, sessions : Tracked(c, e) = [[c EXCEPT !.parents = parents] EXCEPT !.sessions = sessions]
  BY DEF Tracked
<1>2. Faithful([c EXCEPT !.parents = parents])
  BY FollowsBesides
<1>3. Faithful([[c EXCEPT !.parents = parents] EXCEPT !.sessions = sessions])
  BY <1>2, FollowsBesides
<1> QED
  BY <1>1, <1>3

(* normalizeOpenCodeEvent, of whatever event. *)
LEMMA EventFollows ==
  ASSUME NEW c, NEW i, Faithful(c)
  PROVE  Faithful(Event(c, i))
<1> DEFINE e == scene.events[i]
           c1 == Tracked(c, e)
           c2 == [c1 EXCEPT !.seen = @ \cup {i}]
<1>1. Faithful(c1) /\ Faithful(c2)
  BY TrackedFollows, FollowsBesides
<1> HIDE DEF c1, c2, e
<1>2. Faithful([c2 EXCEPT !.announced = @ \cup {e.session}])
  BY <1>1, FollowsBesides
<1>3. Faithful(StepStarted(c2, e)) /\ Faithful(StepEnded(c2, e)) /\ Faithful(StepFailed(c2, e))
  BY <1>1, NormalizedFollows DEF StepStarted, StepEnded, StepFailed
<1>4. Faithful(CompactionStarted(c2, e))
  BY <1>1, NormalizedFollows DEF CompactionStarted
<1>5. Faithful(CompactionEnded(c2, e))
  <2> DEFINE active == c2.active[e.session]
             key == <<e.session, IF active # None THEN active ELSE e.id>>
             m == [kind |-> "compaction", status |-> e.status, model |-> e.model,
                   tokens |-> e.tokens, cost |-> e.cost]
             d == Normalized(c2, key, m, TRUE)
  <2>1. Faithful(d)
    BY <1>1, NormalizedFollows
  <2>2. CompactionEnded(c2, e) = IF active = None THEN [d EXCEPT !.unmatched = @ \cup {key}] ELSE d
    BY DEF CompactionEnded
  <2> HIDE DEF d, active, key, m
  <2>3. Faithful([d EXCEPT !.unmatched = d.unmatched \cup {key}])
    BY <2>1, FollowsBesides
  <2> QED
    BY <2>1, <2>2, <2>3
<1>6. Event(c, i) \in {c1, [c2 EXCEPT !.announced = @ \cup {e.session}], StepStarted(c2, e), StepEnded(c2, e),
                       StepFailed(c2, e), CompactionStarted(c2, e), CompactionEnded(c2, e), c2}
  BY DEF Event, c1, c2, e
<1> QED
  BY <1>1, <1>2, <1>3, <1>4, <1>5, <1>6
-------------------------------------------------------------------------------
(* What is known after each of a session's messages. *)
IsReading(folded, s, from, n) ==
  folded = [i \in 0..n |->
            IF i = 0 THEN context
            ELSE IF i < from \/ i \notin MessagesOf(s) THEN folded[i - 1]
            ELSE Normalized(folded[i - 1], store[i].key, store[i].m, FALSE)]

(* The recursive function of Processed exists: there is no least number of     *)
(* messages for which it does not.                                            *)
LEMMA ReadExists ==
  ASSUME NEW s, NEW from, NEW n \in Nat
  PROVE  \E folded : IsReading(folded, s, from, n)
<1> DEFINE After(c, i) == IF i < from \/ i \notin MessagesOf(s) THEN c
                          ELSE Normalized(c, store[i].key, store[i].m, FALSE)
           Reads(j) == \E folded : folded = [i \in 0..j |-> IF i = 0 THEN context ELSE After(folded[i - 1], i)]
           T == {j \in Nat : ~Reads(j)}
<1> HIDE DEF After
<1>1. Reads(0)
  <2> DEFINE folded == [i \in 0..0 |-> context]
  <2>1. folded = [i \in 0..0 |-> IF i = 0 THEN context ELSE After(folded[i - 1], i)]
    OBVIOUS
  <2> QED
    BY <2>1
<1>2. ASSUME NEW j \in Nat, Reads(j)  PROVE Reads(j + 1)
  <2>1. PICK folded : folded = [i \in 0..j |-> IF i = 0 THEN context ELSE After(folded[i - 1], i)]
    BY <1>2
  <2> DEFINE more == [i \in 0..j + 1 |-> IF i = j + 1 THEN After(folded[j], j + 1) ELSE folded[i]]
  <2>2. ASSUME NEW i \in 0..j + 1
        PROVE  more[i] = IF i = 0 THEN context ELSE After(more[i - 1], i)
    <3>1. CASE i = j + 1
      <4>1. more[i - 1] = folded[j] /\ i - 1 = j
        BY <3>1
      <4> QED
        BY <3>1, <4>1
    <3>2. CASE i \in 0..j
      <4>1. more[i] = folded[i] /\ folded[i] = IF i = 0 THEN context ELSE After(folded[i - 1], i)
        BY <2>1, <3>2
      <4>2. i # 0 => more[i - 1] = folded[i - 1]
        BY <3>2
      <4> QED
        BY <4>1, <4>2
    <3> QED
      BY <3>1, <3>2
  <2>3. more = [i \in 0..j + 1 |-> IF i = 0 THEN context ELSE After(more[i - 1], i)]
    BY <2>2
  <2> QED
    BY <2>3
<1>3. Reads(n)
  <2> HIDE DEF Reads
  <2>1. ASSUME T # {}  PROVE FALSE
    <3>1. PICK j \in T : \A k \in T : j <= k
      BY <2>1, LeastNumber
    <3>2. j \in Nat /\ j # 0
      BY <1>1
    <3>3. Reads(j - 1)
      BY <3>1, <3>2
    <3>4. Reads(j)
      BY <1>2, <3>2, <3>3
    <3> QED
      BY <3>1, <3>4
  <2> QED
    BY <2>1
<1> QED
  BY <1>3 DEF After, IsReading

(* processMessages, however many there are. *)
LEMMA ProcessedFollows ==
  ASSUME NEW s, NEW from, Faithful(context), Len(store) \in Nat
  PROVE  Faithful(Processed(s, from))
<1> DEFINE n == Len(store)
           Is(folded) == IsReading(folded, s, from, n)
<1>1. PICK folded : Is(folded) /\ Processed(s, from) = folded[n]
  <2>1. \E folded : Is(folded)
    BY ReadExists
  <2>2. Is(CHOOSE folded : Is(folded))
    BY <2>1
  <2>3. Processed(s, from) = (CHOOSE folded : Is(folded))[n]
    BY DEF Processed, IsReading
  <2> HIDE DEF Is
  <2> QED
    BY <2>2, <2>3
<1> DEFINE T == {i \in 0..n : ~Faithful(folded[i])}
<1>2. ASSUME NEW i \in 0..n, i # 0, Faithful(folded[i - 1])  PROVE Faithful(folded[i])
  <2>1. folded[i] = IF i < from \/ i \notin MessagesOf(s) THEN folded[i - 1]
                  ELSE Normalized(folded[i - 1], store[i].key, store[i].m, FALSE)
    BY <1>1, <1>2 DEF IsReading
  <2> QED
    BY <1>2, <2>1, NormalizedFollows
<1>3. Faithful(folded[0])
  BY <1>1 DEF IsReading
<1>4. ASSUME T # {}  PROVE FALSE
  <2>1. PICK i \in T : \A k \in T : i <= k
    <3>1. T \subseteq Nat
      OBVIOUS
    <3> HIDE DEF T
    <3> QED
      BY <3>1, <1>4, LeastNumber
  <2>2. i \in 0..n /\ i # 0 /\ i - 1 \in 0..n
    BY <1>3
  <2>3. Faithful(folded[i - 1])
    BY <2>1, <2>2
  <2> QED
    BY <1>2, <2>2, <2>3, <2>1
<1> QED
  BY <1>1, <1>4

Listed == \E T : store \in Seq(T)

LEMMA StoredListed ==
  ASSUME NEW e, Listed
  PROVE  \E T : Stored(store, e) \in Seq(T)
<1> DEFINE key == KeyOf(e)
           at == {i \in DOMAIN store : store[i].key = key}
           Put(m) == IF at = {} THEN Append(store, [key |-> key, m |-> m])
                     ELSE [store EXCEPT ![CHOOSE i \in at : TRUE].m = m]
<1>1. \E m : Stored(store, e) \in {store, Put(m)}
  <2> HIDE DEF Put, at, key
  <2> DEFINE old(kind) == IF at = {} THEN Message(kind, "running") ELSE store[CHOOSE i \in at : TRUE].m
  <2>1. Stored(store, e) \in
          {store, Put([old("assistant") EXCEPT !.model = e.model, !.status = "running"]),
           Put([old("assistant") EXCEPT !.tokens = e.tokens, !.cost = e.cost, !.status = "completed"]),
           Put([old("assistant") EXCEPT !.status = "failed"]), Put(Message("compaction", "running")),
           Put([kind |-> "compaction", status |-> e.status, model |-> e.model,
                tokens |-> e.tokens, cost |-> e.cost])}
    BY DEF Stored, Put, at, key
  <2> HIDE DEF old
  <2> QED
    BY <2>1
<1>2. PICK m : Stored(store, e) \in {store, Put(m)}
  BY <1>1
<1>3. PICK T : store \in Seq(T)
  BY DEF Listed
<1>4. Append(store, [key |-> key, m |-> m]) \in Seq(T \cup {[key |-> key, m |-> m]})
  BY <1>3
<1>5. ASSUME at # {}
      PROVE  \E x : [store EXCEPT ![CHOOSE i \in at : TRUE].m = m] \in Seq(T \cup {x})
  <2> DEFINE c == CHOOSE i \in at : TRUE
             x == [store[c] EXCEPT !.m = m]
             new == [store EXCEPT ![c] = x]
  <2>1. new = [store EXCEPT ![c].m = m]
    OBVIOUS
  <2>2. c \in DOMAIN store /\ DOMAIN new = 1..Len(store) /\ Len(store) \in Nat
    BY <1>3, <1>5
  <2>3. \A i \in 1..Len(store) : new[i] \in T \cup {x}
    <3> HIDE DEF c, x
    <3> QED
      BY <1>3
  <2>4. new \in Seq(T \cup {x})
    <3>1. new = [i \in 1..Len(store) |-> new[i]]
      <4> HIDE DEF c, x
      <4> QED
        BY <2>2
    <3> HIDE DEF new, x
    <3> QED
      BY <2>2, <2>3, <3>1
  <2> HIDE DEF c, x, new
  <2> QED
    BY <2>1, <2>4 DEF c
<1> QED
  BY <1>2, <1>3, <1>4, <1>5

LEMMA AnnouncesFollows ==
  ASSUME NEW c, NEW r, NEW found, Faithful(c)
  PROVE  Faithful(Announces(c, r, found))
BY FollowsBesides DEF Announces

(* updateRecoveryCoverage: what is not reported again has neither messages nor *)
(* a report.                                                                  *)
LEMMA CoveredFollows ==
  ASSUME NEW c, NEW incomplete, Faithful(c)
  PROVE  Faithful(Covered(c, incomplete))
<1> DEFINE d == [c EXCEPT !.incomplete = incomplete]
           B == {c.messages[k].model : k \in DOMAIN c.messages} \cup c.retired
<1>1. /\ DOMAIN d = DOMAIN c /\ d = [g \in DOMAIN d |-> d[g]]
      /\ d.messages = c.messages /\ d.reported = c.reported /\ d.retired = c.retired
  BY DEF Faithful, ContextOK
<1>2. Covered(c, incomplete) = IF c.incomplete = incomplete THEN c ELSE Refreshed(d, B)
  BY DEF Covered
<1> HIDE DEF d
<1>3. ContextOK(d)
  BY <1>1 DEF Faithful, ContextOK
<1>4. \A b \in Buckets : b \notin B => InBucket(c.messages, b) = {} /\ b \notin c.retired
  BY DEF InBucket
<1>5. \A b \in B : InBucket(c.messages, b) = {} => b \in c.retired
  BY DEF InBucket
<1> HIDE DEF B
<1>6. Faithful(Refreshed(d, B))
  <2>1. \A b \in Buckets \ B : b \notin DOMAIN d.reported /\ InBucket(d.messages, b) = {}
    BY <1>1, <1>4 DEF Faithful, Follows
  <2>2. \A b \in Buckets : b \in DOMAIN d.reported \cup B /\ InBucket(d.messages, b) = {} => b \in d.retired
    BY <1>1, <1>5 DEF Faithful, Follows
  <2> QED
    BY <1>3, <2>1, <2>2, RefreshedFollows
<1> QED
  BY <1>2, <1>6

NormalizerInv == Faithful(context) /\ Listed

LEMMA NormalizerStep ==
  ASSUME NormalizerInv, [NormalizerNext]_normalizerVars
  PROVE  NormalizerInv'
<1>0. Faithful(context) /\ Listed /\ Len(store) \in Nat
  BY DEF NormalizerInv, Listed
<1>1. CASE Happens /\ context' = Event(context, logged + 1)
  BY <1>0, <1>1, EventFollows, StoredListed DEF Happens, NormalizerInv, Listed
<1>2. CASE Missed
  BY <1>0, <1>2, StoredListed DEF Missed, Happens, NormalizerInv, Listed
<1>3. CASE Redelivered
  BY <1>0, <1>3, EventFollows DEF Redelivered, serverVars, NormalizerInv, Listed
<1>4. CASE ToolSteps \/ StreamFails \/ DeadlinePasses \/ RecoveryOver \/ UNCHANGED normalizerVars
  BY <1>0, <1>4 DEF ToolSteps, StreamFails, DeadlinePasses, RecoveryOver, normalizerVars, serverVars,
                    NormalizerInv, Listed
<1>5. CASE RootRead
  <2>1. UNCHANGED store
    BY <1>5 DEF RootRead, serverVars
  <2>2. \E c, r, found : Faithful(c) /\ context' = Announces(c, r, found)
    BY <1>0, <1>5, ProcessedFollows DEF RootRead
  <2> QED
    BY <1>0, <2>1, <2>2, AnnouncesFollows DEF NormalizerInv, Listed
<1>6. ASSUME NEW s \in Sessions, MessagesRead(s)  PROVE NormalizerInv'
  BY <1>0, <1>6, ProcessedFollows DEF MessagesRead, serverVars, NormalizerInv, Listed
<1>7. ASSUME NEW r, NEW s, NEW found, Discovers(r, s, found)  PROVE NormalizerInv'
  <2> DEFINE c == Announces(context, r, found)
             sessions == c.sessions \cup found
             parents == c.parents \cup {<<t, s>> : t \in found}
             d == [c EXCEPT !.sessions = sessions]
  <2>1. Faithful(c)
    BY <1>0, AnnouncesFollows
  <2>2. context' = [[c EXCEPT !.sessions = sessions] EXCEPT !.parents = parents]
    BY <1>7 DEF Discovers
  <2> HIDE DEF c, sessions, parents
  <2>3. Faithful(d)
    BY <2>1, FollowsBesides
  <2>4. Faithful([d EXCEPT !.parents = parents])
    <3> HIDE DEF d
    <3> QED
      BY <2>3, FollowsBesides
  <2> QED
    BY <1>0, <1>7, <2>2, <2>4 DEF Discovers, serverVars, NormalizerInv, Listed
<1>8. ASSUME NEW s \in Sessions, ChildrenRead(s) \/ PageRead(s)  PROVE NormalizerInv'
  BY <1>7, <1>8 DEF ChildrenRead, PageRead
<1>9. ASSUME NEW s \in Sessions, ListingFails(s)  PROVE NormalizerInv'
  BY <1>0, <1>9 DEF ListingFails, serverVars, NormalizerInv, Listed
<1>10. CASE RecoveryEnds
  BY <1>0, <1>10, CoveredFollows DEF RecoveryEnds, serverVars, NormalizerInv, Listed
<1> QED
  BY <1>1, <1>2, <1>3, <1>4, <1>5, <1>6, <1>8, <1>9, <1>10 DEF NormalizerNext, EventDelivered, Recovery

(* The adapter begins with nothing known and nothing reported. *)
LEMMA NormalizerStarts == NormalizerInit => NormalizerInv
<1> SUFFICES ASSUME NormalizerInit  PROVE NormalizerInv
  OBVIOUS
<1>1. /\ DOMAIN context = {"messages", "retired", "incomplete", "sessions", "parents", "announced", "seen",
                           "active", "unmatched", "counted", "reported", "turns"}
      /\ context = [f \in DOMAIN context |-> context[f]]
      /\ context.messages = Nothing /\ context.reported = Nothing
  BY DEF NormalizerInit
<1>2. DOMAIN Nothing = {} /\ Nothing = [k \in {} |-> Nothing[k]]
  BY DEF Nothing
<1>3. Faithful(context)
  BY <1>1, <1>2 DEF Faithful, ContextOK, Follows, InBucket
<1>4. store \in Seq({})
  BY DEF NormalizerInit
<1> QED
  BY <1>3, <1>4 DEF NormalizerInv, Listed

(* The last report for a model is that of the messages known by now, whatever  *)
(* was lost, repeated, moved to another model or read back, for every server,  *)
(* every set of sessions and any number of messages (normalizer.ts).           *)
THEOREM ReportsCorrect == NormalizerSpec => []ReportsFollowMessages
<1>1. NormalizerInv => ReportsFollowMessages
  BY DEF NormalizerInv, Faithful, Follows, ReportsFollowMessages
<1> QED
  BY <1>1, NormalizerStarts, NormalizerStep, PTL DEF NormalizerSpec
-------------------------------------------------------------------------------
(* The messages that events are about, and the compactions among them that     *)
(* have not ended by now.                                                      *)
MessageEvents == {i \in DOMAIN scene.events : scene.events[i].type \in StepTypes \cup CompactionTypes}
Ending == {i \in DOMAIN scene.events : scene.events[i].type = "compactionEnded"}
NameOf(e) == <<e.session, e.id>>
EndOf(e) ==
  [kind |-> "compaction", status |-> e.status, model |-> e.model, tokens |-> e.tokens, cost |-> e.cost]

Shaped(m) == DOMAIN m = {"kind", "status", "model", "tokens", "cost"}

(* Some event so far is about a message with this key and of this kind. *)
Heard(n, key, kind) ==
  \E i \in MessageEvents : i <= n /\ KeyOf(scene.events[i]) = key /\ KindOf(scene.events[i]) = kind

(* The server has a message for every event about one, once, and what an ended *)
(* compaction came to.                                                         *)
StoreRight(messages, n) ==
  /\ \A i, j \in DOMAIN messages : messages[i].key = messages[j].key => i = j
  /\ \A i \in DOMAIN messages : /\ DOMAIN messages[i] = {"key", "m"} /\ Shaped(messages[i].m)
                                /\ Heard(n, messages[i].key, messages[i].m.kind)
  /\ \A i \in MessageEvents : i <= n => \E j \in DOMAIN messages : messages[j].key = KeyOf(scene.events[i])
  /\ \A i \in Ending : i <= n =>
       \E j \in DOMAIN messages :
         messages[j].key = KeyOf(scene.events[i]) /\ messages[j].m = EndOf(scene.events[i])

Counts(c) ==
  /\ IsFiniteSet(c.counted)
  /\ c.turns = Cardinality({k \in c.counted : k[1] = Root})

(* What is known while the stream lasts: messages the server has, or           *)
(* compactions that have ended and of which nothing else is known; and a       *)
(* compaction that is known and has yet to end is its session's active one.    *)
StreamRight(c, n) ==
  /\ DOMAIN c.active = Sessions /\ Root \in c.sessions /\ c.unmatched \subseteq DOMAIN c.messages
  /\ \A k \in DOMAIN c.messages : Shaped(c.messages[k])
  /\ \A k \in DOMAIN c.messages \ c.unmatched : Heard(n, k, c.messages[k].kind)
  /\ \A u \in c.unmatched : \E i \in Ending :
       /\ i <= n /\ u = NameOf(scene.events[i]) /\ c.messages[u] = EndOf(scene.events[i])
       /\ KeyOf(scene.events[i]) \notin DOMAIN c.messages
  /\ \A s \in Sessions : c.active[s] # None =>
       <<s, c.active[s]>> \in DOMAIN c.messages /\ Heard(n, <<s, c.active[s]>>, "compaction")
  /\ \A i \in Ending : i > n /\ KeyOf(scene.events[i]) \in DOMAIN c.messages =>
       c.active[scene.events[i].session] = scene.events[i].compaction
  /\ \A k \in c.counted : Heard(n, k, "assistant")
  /\ Counts(c)

(* What is known during a recovery: messages the server has, or stand-ins,     *)
(* each for one of its own that is not known yet.                              *)
Matched(c, truth) ==
  /\ Root \in c.sessions
  /\ DOMAIN c.messages \ c.unmatched \subseteq DOMAIN truth
  /\ c.unmatched \subseteq DOMAIN c.messages \ DOMAIN truth
  /\ \A u \in c.unmatched : c.messages[u].kind = "compaction"
  /\ \E f \in Injection(c.unmatched, DOMAIN truth \ DOMAIN c.messages) :
       \A u \in c.unmatched : f[u][1] = u[1] /\ truth[f[u]] = c.messages[u]
  /\ \A k \in c.counted : k \in DOMAIN truth /\ truth[k].kind = "assistant"
  /\ Counts(c)

(* A message has been read back. *)
Has(c, truth, k) ==
  /\ k \in DOMAIN c.messages /\ c.messages[k] = truth[k]
  /\ truth[k].kind = "assistant" /\ Completed(truth[k]) => k \in c.counted

(* A recovery that lacks nothing so far: the children of what it has visited   *)
(* are visited too, and what it does not wait for is read.                     *)
Covering(c, r) ==
  /\ Root \in r.visited
  /\ \A s \in r.visited : s \in r.listing \/ Children(s) \subseteq r.visited
  /\ \A k \in DOMAIN Truth(store) :
       k[1] \in r.visited \ r.fetching => Has(c, Truth(store), k)

Idle(r) == r.fetching = {} /\ r.listing = {}
RecoveryOK(r) ==
  /\ DOMAIN r = {"visited", "fetching", "listing", "incomplete", "expired", "since", "cut"}
  /\ r.since \in Nat /\ r.incomplete \in BOOLEAN

(* While nobody adds to the sessions, the recovery goes on to cover them.      *)
RecoveryRight(c, r, p) ==
  /\ RecoveryOK(r) /\ r.since <= logged
  /\ p \in {"streaming", "root", "children", "done"}
  /\ p # "children" => Idle(r)
  /\ p \in {"streaming", "root"} => r.visited = {}
  /\ p = "done" => c.incomplete = r.incomplete
  /\ p # "streaming" /\ r.since = logged => Matched(c, Truth(store))
  /\ p \in {"children", "done"} /\ r.since = logged /\ ~r.incomplete /\ ~r.cut => Covering(c, r)

RecoveryInv ==
  /\ scene \in Scenes /\ logged \in 0..Len(scene.events)
  /\ StoreRight(store, logged)
  /\ phase = "streaming" => StreamRight(context, logged)
  /\ RecoveryRight(context, recovery, phase)

-------------------------------------------------------------------------------
(* The stand-in that gives way to a message that is read back. *)
Gone(c, key, m, streamed) ==
  IF m.kind = "compaction" /\ ~streamed /\ StandIns(c, key, m) # {}
  THEN {CHOOSE k \in StandIns(c, key, m) : TRUE} ELSE {}

(* Everything normalizeOpenCodeMessage changes, besides the reports. *)
Changed(c, d, key, m, gone) ==
  LET counts == m.kind = "assistant" /\ Completed(m)
  IN  /\ ContextOK(d) /\ d.sessions = c.sessions
      /\ DOMAIN d.messages = (DOMAIN c.messages \ gone) \cup {key}
      /\ d.messages[key] = m
      /\ \A k \in DOMAIN d.messages \ {key} : d.messages[k] = c.messages[k]
      /\ d.unmatched = IF m.kind = "compaction" THEN c.unmatched \ ({key} \cup gone) ELSE c.unmatched
      /\ d.active = IF m.kind = "compaction"
                    THEN [c.active EXCEPT ![key[1]] =
                            IF ~Completed(m) THEN key[2] ELSE IF @ = key[2] THEN None ELSE @]
                    ELSE c.active
      /\ d.counted = IF counts THEN c.counted \cup {key} ELSE c.counted
      /\ d.turns = c.turns + IF counts /\ key[1] = Root /\ key \notin c.counted THEN 1 ELSE 0

(* What normalizeOpenCodeMessage does to what the recovery depends on.       *)
LEMMA NormalizedChanges ==
  ASSUME NEW c, NEW key, NEW m, NEW streamed, ContextOK(c)
  PROVE  Changed(c, Normalized(c, key, m, streamed), key, m, Gone(c, key, m, streamed))
<1> DEFINE gone == Gone(c, key, m, streamed)
           c1 == IF m.kind = "compaction" THEN Compacted(c, key, m, streamed) ELSE c
           messages == [k \in DOMAIN c1.messages \cup {key} |-> IF k = key THEN m ELSE c1.messages[k]]
           changed == ~(key \in DOMAIN c.messages /\ c.messages[key] = m)
           vacated == Left(c.messages, key, m)
           retired == (c.retired \ {m.model}) \cup {b \in vacated : InBucket(messages, b) = {}}
           counts == m.kind = "assistant" /\ Completed(m)
           turns == c1.turns + IF counts /\ key[1] = Root /\ key \notin c.counted THEN 1 ELSE 0
           counted == IF counts THEN c1.counted \cup {key} ELSE c1.counted
           c2 == [c1 EXCEPT !.messages = messages, !.retired = IF changed THEN retired ELSE @,
                            !.turns = turns, !.counted = counted]
           B == {m.model} \cup vacated \cup retired
           active == IF m.kind = "compaction"
                     THEN [c.active EXCEPT ![key[1]] =
                             IF ~Completed(m) THEN key[2] ELSE IF @ = key[2] THEN None ELSE @]
                     ELSE c.active
           unmatched == IF m.kind = "compaction" THEN c.unmatched \ ({key} \cup gone) ELSE c.unmatched
<1>1. Normalized(c, key, m, streamed) = IF changed THEN Refreshed(c2, B) ELSE c2
  <2>1. [c1 EXCEPT !.messages = messages,
                   !.retired = IF changed THEN retired ELSE @,
                   !.turns = @ + IF counts /\ key[1] = Root /\ key \notin c.counted THEN 1 ELSE 0,
                   !.counted = IF counts THEN @ \cup {key} ELSE @] = c2
    OBVIOUS
  <2> HIDE DEF messages, retired, vacated, c1, c2, counts, turns, counted
  <2> QED
    BY <2>1 DEF Normalized, messages, retired, vacated, c1, counts
<1>2. /\ ContextOK(c1) /\ c1.sessions = c.sessions /\ c1.counted = c.counted /\ c1.turns = c.turns
      /\ DOMAIN c1.messages = DOMAIN c.messages \ gone
      /\ \A k \in DOMAIN c1.messages : c1.messages[k] = c.messages[k]
      /\ c1.active = active /\ c1.unmatched = unmatched
  <2>1. CASE m.kind = "compaction"
    <3> DEFINE found == IF streamed THEN {} ELSE StandIns(c, key, m)
               lost == IF found = {} THEN {} ELSE {CHOOSE k \in found : TRUE}
               s == key[1]
               rest == Restrict(c.messages, DOMAIN c.messages \ lost)
    <3>1. lost = gone
      BY <2>1 DEF Gone
    <3>2. c1 = [c EXCEPT !.unmatched = c.unmatched \ ({key} \cup lost), !.messages = rest, !.active = active]
      <4>1. active = [c EXCEPT !.active[s] =
                        IF ~Completed(m) THEN key[2] ELSE IF @ = key[2] THEN None ELSE @].active
        BY <2>1 DEF ContextOK
      <4>2. c1 = Compacted(c, key, m, streamed)
        BY <2>1
      <4>3. Compacted(c, key, m, streamed) =
              [c EXCEPT !.unmatched = c.unmatched \ ({key} \cup lost), !.messages = rest, !.active = active]
        BY <4>1 DEF Compacted, ContextOK
      <4> QED
        BY <4>2, <4>3
    <3>3. /\ DOMAIN rest = DOMAIN c.messages \ lost /\ rest = [k \in DOMAIN rest |-> rest[k]]
          /\ \A k \in DOMAIN rest : rest[k] = c.messages[k]
      <4> HIDE DEF lost
      <4> QED
        BY DEF Restrict
    <3> HIDE DEF lost, rest, found, active, c1
    <3>4. /\ DOMAIN c1 = DOMAIN c /\ c1 = [f \in DOMAIN c1 |-> c1[f]]
          /\ c1.messages = rest /\ c1.sessions = c.sessions /\ c1.counted = c.counted /\ c1.turns = c.turns
          /\ c1.unmatched = c.unmatched \ ({key} \cup lost) /\ c1.active = active
      BY <3>2 DEF ContextOK
    <3> QED
      BY <2>1, <3>1, <3>3, <3>4 DEF ContextOK
  <2>2. CASE m.kind # "compaction"
    BY <2>2 DEF Gone
  <2> QED
    BY <2>1, <2>2
<1> HIDE DEF c1, active, unmatched, gone
<1>3. /\ messages = [k \in DOMAIN messages |-> messages[k]]
      /\ DOMAIN messages = DOMAIN c1.messages \cup {key}
      /\ messages[key] = m
      /\ \A k \in DOMAIN c1.messages \ {key} : messages[k] = c1.messages[k]
  OBVIOUS
<1>4. /\ ContextOK(c2) /\ c2.messages = messages /\ c2.sessions = c.sessions /\ c2.counted = counted
      /\ c2.turns = turns /\ c2.active = active /\ c2.unmatched = unmatched
  <2> HIDE DEF messages, changed, retired, counts, turns, counted
  <2>1. /\ DOMAIN c2 = DOMAIN c1 /\ c2 = [f \in DOMAIN c2 |-> c2[f]]
        /\ c2.messages = messages /\ c2.sessions = c1.sessions /\ c2.counted = counted
        /\ c2.turns = turns /\ c2.active = c1.active /\ c2.unmatched = c1.unmatched
    BY <1>2 DEF ContextOK
  <2> QED
    BY <1>2, <1>3, <2>1 DEF ContextOK
<1> HIDE DEF c2, messages
<1>5. /\ ContextOK(Refreshed(c2, B)) /\ Refreshed(c2, B).messages = messages
      /\ Refreshed(c2, B).sessions = c.sessions /\ Refreshed(c2, B).counted = counted
      /\ Refreshed(c2, B).turns = turns /\ Refreshed(c2, B).active = active
      /\ Refreshed(c2, B).unmatched = unmatched
  <2>1. \E reported : Refreshed(c2, B) = [c2 EXCEPT !.reported = reported]
    BY DEF Refreshed
  <2>2. PICK reported : Refreshed(c2, B) = [c2 EXCEPT !.reported = reported]
    BY <2>1
  <2> HIDE DEF B, counted, turns
  <2> QED
    BY <1>4, <2>2 DEF ContextOK
<1> DEFINE d == Normalized(c, key, m, streamed)
<1>6. /\ ContextOK(d) /\ d.messages = messages /\ d.sessions = c.sessions /\ d.counted = counted
      /\ d.turns = turns /\ d.active = active /\ d.unmatched = unmatched
  <2> HIDE DEF B, changed, counted, turns
  <2> QED
    BY <1>1, <1>4, <1>5
<1> HIDE DEF d
<1>7. /\ DOMAIN messages = (DOMAIN c.messages \ gone) \cup {key}
      /\ \A k \in DOMAIN messages \ {key} : messages[k] = c.messages[k]
  BY <1>2, <1>3
<1> QED
  BY <1>2, <1>3, <1>6, <1>7 DEF d, gone, active, unmatched, Changed

(* As the stream tells of it, nothing gives way; as it is read back. *)
Streamed(c, key, m) == Normalized(c, key, m, TRUE)
ReadBack(c, key, m) == Normalized(c, key, m, FALSE)
GivesWay(c, key, m) == Gone(c, key, m, FALSE)

(* The same of a message of the stream, which takes no other's place.        *)
LEMMA StreamedChanges ==
  ASSUME NEW c, NEW key, NEW m, ContextOK(c)
  PROVE  Changed(c, Streamed(c, key, m), key, m, {})
<1>1. Gone(c, key, m, TRUE) = {}
  BY DEF Gone
<1>2. Changed(c, Normalized(c, key, m, TRUE), key, m, Gone(c, key, m, TRUE))
  BY NormalizedChanges
<1>3. Changed(c, Normalized(c, key, m, TRUE), key, m, {})
  BY <1>1, <1>2, Zenon
<1> QED
  BY <1>3 DEF Streamed

(* The same of a message that is read back, for which a stand-in may give way. *)
LEMMA ReadBackChanges ==
  ASSUME NEW c, NEW key, NEW m, ContextOK(c)
  PROVE  Changed(c, ReadBack(c, key, m), key, m, GivesWay(c, key, m))
BY NormalizedChanges DEF ReadBack, GivesWay

(* A message is counted once, and only those of the root are turns. *)
LEMMA CountedOnce ==
  ASSUME NEW c, NEW d, NEW key, Counts(c),
         \/ d.counted = c.counted /\ d.turns = c.turns
         \/ /\ d.counted = c.counted \cup {key}
            /\ d.turns = c.turns + IF key[1] = Root /\ key \notin c.counted THEN 1 ELSE 0
  PROVE  Counts(d)
<1> DEFINE Turns(S) == {k \in S : k[1] = Root}
<1>1. IsFiniteSet(c.counted) /\ IsFiniteSet(Turns(c.counted)) /\ c.turns = Cardinality(Turns(c.counted))
  BY FS_Subset DEF Counts
<1>2. CASE d.counted = c.counted /\ d.turns = c.turns
  BY <1>1, <1>2 DEF Counts
<1>3. CASE /\ d.counted = c.counted \cup {key}
           /\ d.turns = c.turns + IF key[1] = Root /\ key \notin c.counted THEN 1 ELSE 0
  <2>1. IsFiniteSet(d.counted)
    BY <1>1, <1>3, FS_AddElement
  <2>2. CASE key[1] = Root /\ key \notin c.counted
    <3>1. Turns(d.counted) = Turns(c.counted) \cup {key} /\ key \notin Turns(c.counted)
      BY <1>3, <2>2
    <3>2. Cardinality(Turns(d.counted)) = Cardinality(Turns(c.counted)) + 1
      <4> HIDE DEF Turns
      <4> QED
        BY <1>1, <3>1, FS_AddElement
    <3> QED
      BY <1>1, <1>3, <2>1, <2>2, <3>2 DEF Counts
  <2>3. CASE ~(key[1] = Root /\ key \notin c.counted)
    <3>1. Turns(d.counted) = Turns(c.counted)
      BY <1>3, <2>3
    <3>2. Cardinality(Turns(c.counted)) \in Nat
      <4> HIDE DEF Turns
      <4> QED
        BY <1>1, FS_CardinalityType
    <3>3. d.turns = c.turns
      BY <1>1, <1>3, <2>3, <3>2
    <3> QED
      BY <1>1, <2>1, <3>1, <3>3 DEF Counts
  <2> QED
    BY <2>2, <2>3
<1> QED
  BY <1>2, <1>3

-------------------------------------------------------------------------------
(* What the events of a server promise, one by one. *)
LEMMA Events ==
  ASSUME scene \in Scenes
  PROVE  /\ scene.events \in Seq(Range(scene.events)) /\ Len(scene.events) \in Nat
         /\ DOMAIN scene.events = 1..Len(scene.events)
         /\ \A i, j \in MessageEvents :
              KeyOf(scene.events[i]) = KeyOf(scene.events[j]) => KindOf(scene.events[i]) = KindOf(scene.events[j])
         /\ \A i \in Ending, j \in MessageEvents : KeyOf(scene.events[j]) # NameOf(scene.events[i])
         /\ \A i \in Ending, j \in MessageEvents : j > i => KeyOf(scene.events[j]) # KeyOf(scene.events[i])
         /\ Ending \subseteq MessageEvents /\ MessageEvents \subseteq Nat
         /\ \A i \in Ending : Completed(EndOf(scene.events[i])) /\ KindOf(scene.events[i]) = "compaction"
<1>1. Orderly(scene.events)
  BY ServerAssumption
<1>2. scene.events \in Seq(Range(scene.events)) /\ Len(scene.events) \in Nat
  BY <1>1 DEF Orderly
<1>3. DOMAIN scene.events = 1..Len(scene.events)
  <2> DEFINE events == scene.events
  <2> HIDE DEF events
  <2>1. \A T : events \in Seq(T) => DOMAIN events = 1..Len(events)
    OBVIOUS
  <2> QED
    BY <1>2, <2>1 DEF events
<1>4. Ending \subseteq MessageEvents /\ MessageEvents \subseteq Nat
  BY <1>2, <1>3 DEF Ending, MessageEvents, CompactionTypes
<1>5. MessageEvents = {i \in DOMAIN scene.events : scene.events[i].type \in StepTypes \cup CompactionTypes}
      /\ Ending = {i \in DOMAIN scene.events : scene.events[i].type \in {"compactionEnded"}}
  BY DEF MessageEvents, Ending
<1>6. \A i, j \in MessageEvents :
        KeyOf(scene.events[i]) = KeyOf(scene.events[j]) => KindOf(scene.events[i]) = KindOf(scene.events[j])
  BY <1>1, <1>5 DEF Orderly
<1>7. \A i \in Ending : /\ scene.events[i].status \in {"completed", "failed"}
                        /\ \A j \in MessageEvents : KeyOf(scene.events[j]) # NameOf(scene.events[i])
                        /\ \A j \in MessageEvents : j > i => KeyOf(scene.events[j]) # KeyOf(scene.events[i])
  BY <1>1, <1>5 DEF Orderly, NameOf
<1>8. \A i \in Ending : Completed(EndOf(scene.events[i])) /\ KindOf(scene.events[i]) = "compaction"
  BY <1>7 DEF Completed, EndOf, Ending, KindOf, CompactionTypes
<1> QED
  BY <1>2, <1>3, <1>4, <1>6, <1>7, <1>8

(* One compaction at a time. *)
LEMMA OneAtATime ==
  ASSUME scene \in Scenes, NEW h \in MessageEvents, NEW j \in MessageEvents, NEW i \in Ending,
         h < j, j < i, KindOf(scene.events[h]) = "compaction", KindOf(scene.events[j]) = "compaction",
         KeyOf(scene.events[h]) = KeyOf(scene.events[i]), scene.events[j].session = scene.events[i].session
  PROVE  KeyOf(scene.events[j]) = KeyOf(scene.events[i])
<1> DEFINE Of(types) == {n \in DOMAIN scene.events : scene.events[n].type \in types}
<1>1. i \in Of({"compactionEnded"}) /\ h \in Of(CompactionTypes) /\ j \in Of(CompactionTypes)
  BY DEF Ending, MessageEvents, KindOf
<1>2. Orderly(scene.events)
  BY ServerAssumption
<1>3. \A n \in Of({"compactionEnded"}) : \A g, l \in Of(CompactionTypes) :
        g < l /\ l < n /\ KeyOf(scene.events[g]) = KeyOf(scene.events[n])
          /\ scene.events[l].session = scene.events[n].session => KeyOf(scene.events[l]) = KeyOf(scene.events[n])
  BY <1>2 DEF Orderly
<1> QED
  BY <1>1, <1>3

(* What was heard stays heard. *)
LEMMA HeardLater ==
  ASSUME NEW n \in Nat, NEW key, NEW kind, Heard(n, key, kind), MessageEvents \subseteq Nat
  PROVE  Heard(n + 1, key, kind)
BY DEF Heard

(* A list that is right stays so when the next event puts its message in it. *)
LEMMA PutRight ==
  ASSUME scene \in Scenes, NEW messages, NEW T, messages \in Seq(T), NEW n \in Nat, StoreRight(messages, n),
         n + 1 \in MessageEvents, NEW m, Shaped(m), m.kind = KindOf(scene.events[n + 1]),
         n + 1 \in Ending => m = EndOf(scene.events[n + 1])
  PROVE  LET key == KeyOf(scene.events[n + 1])
             at == {i \in DOMAIN messages : messages[i].key = key}
         IN  StoreRight(IF at = {} THEN Append(messages, [key |-> key, m |-> m])
                        ELSE [messages EXCEPT ![CHOOSE i \in at : TRUE].m = m], n + 1)
<1> DEFINE e == scene.events[n + 1]
           key == KeyOf(e)
           at == {i \in DOMAIN messages : messages[i].key = key}
           new == [key |-> key, m |-> m]
           c == IF at = {} THEN Len(messages) + 1 ELSE CHOOSE i \in at : TRUE
           put == IF at = {} THEN Append(messages, new) ELSE [messages EXCEPT ![CHOOSE i \in at : TRUE].m = m]
<1>0. /\ MessageEvents \subseteq Nat /\ Ending \subseteq MessageEvents
      /\ \A i \in Ending, j \in MessageEvents : j > i => KeyOf(scene.events[j]) # KeyOf(scene.events[i])
  BY Events
<1>1. DOMAIN messages = 1..Len(messages) /\ Len(messages) \in Nat
  OBVIOUS
<1>2. /\ DOMAIN put = DOMAIN messages \cup {c} /\ put[c].key = key /\ put[c].m = m
      /\ DOMAIN put[c] = {"key", "m"} /\ (c \in DOMAIN messages => messages[c].key = key)
      /\ \A i \in DOMAIN messages \ {c} : put[i] = messages[i] /\ messages[i].key # key
  <2>1. CASE at = {}
    <3>1. put = Append(messages, new) /\ c = Len(messages) + 1
      BY <2>1
    <3>2. DOMAIN put = 1..Len(messages) + 1 /\ put[Len(messages) + 1] = new
          /\ \A i \in 1..Len(messages) : put[i] = messages[i]
      <4> HIDE DEF new, put, at
      <4> QED
        BY <1>1, <3>1
    <3>3. \A i \in DOMAIN messages : messages[i].key # key
      BY <2>1
    <3> HIDE DEF put, at, key, c
    <3> QED
      BY <1>1, <3>1, <3>2, <3>3
  <2>2. CASE at # {}
    <3>1. c \in at /\ put = [messages EXCEPT ![c].m = m]
      BY <2>2
    <3>2. c \in DOMAIN messages /\ messages[c].key = key /\ DOMAIN messages[c] = {"key", "m"}
      BY <3>1 DEF StoreRight
    <3>3. \A i \in DOMAIN messages \ {c} : messages[i].key # key
      BY <3>2 DEF StoreRight
    <3> HIDE DEF put, at, key, c
    <3>4. put[c] = [messages[c] EXCEPT !.m = m] /\ DOMAIN put = DOMAIN messages
          /\ \A i \in DOMAIN messages \ {c} : put[i] = messages[i]
      BY <3>1, <3>2
    <3> QED
      BY <3>2, <3>3, <3>4
  <2> QED
    BY <2>1, <2>2
<1> HIDE DEF put, c, at
<1>3. Heard(n + 1, key, m.kind)
  BY DEF Heard, e, key
<1> HIDE DEF e, key
<1>4. ASSUME NEW i \in DOMAIN put, NEW j \in DOMAIN put, put[i].key = put[j].key  PROVE i = j
  BY <1>2, <1>4 DEF StoreRight
<1>5. ASSUME NEW i \in DOMAIN put
      PROVE  DOMAIN put[i] = {"key", "m"} /\ Shaped(put[i].m) /\ Heard(n + 1, put[i].key, put[i].m.kind)
  <2>1. CASE i = c
    BY <1>2, <1>3, <2>1
  <2>2. CASE i \in DOMAIN messages \ {c}
    BY <1>0, <1>2, <2>2, HeardLater DEF StoreRight
  <2> QED
    BY <1>2, <2>1, <2>2
<1>6. ASSUME NEW i \in MessageEvents, i <= n + 1
      PROVE  \E j \in DOMAIN put : put[j].key = KeyOf(scene.events[i])
  <2>1. CASE KeyOf(scene.events[i]) = key
    BY <1>2, <2>1
  <2>2. CASE i <= n /\ KeyOf(scene.events[i]) # key
    <3>1. PICK j \in DOMAIN messages : messages[j].key = KeyOf(scene.events[i])
      BY <2>2 DEF StoreRight
    <3> QED
      BY <1>2, <2>2, <3>1
  <2> QED
    BY <1>0, <1>6, <2>1, <2>2 DEF key, e
<1>7. ASSUME NEW i \in Ending, i <= n + 1
      PROVE  \E j \in DOMAIN put : put[j].key = KeyOf(scene.events[i]) /\ put[j].m = EndOf(scene.events[i])
  <2>1. CASE i = n + 1
    BY <1>2, <2>1 DEF key, e
  <2>2. CASE i # n + 1
    <3>1. i \in Nat /\ i <= n /\ n + 1 > i
      BY <1>0, <1>7, <2>2
    <3>2. PICK j \in DOMAIN messages :
            messages[j].key = KeyOf(scene.events[i]) /\ messages[j].m = EndOf(scene.events[i])
      BY <3>1 DEF StoreRight
    <3>3. KeyOf(scene.events[i]) # key
      BY <1>0, <3>1 DEF key, e
    <3> QED
      BY <1>2, <3>2, <3>3
  <2> QED
    BY <2>1, <2>2
<1>8. StoreRight(put, n + 1)
  BY <1>4, <1>5, <1>6, <1>7 DEF StoreRight
<1> QED
  BY <1>8 DEF put, at, key, e, c

(* The server's next event. *)
LEMMA StoredRight ==
  ASSUME scene \in Scenes, NEW messages, NEW T, messages \in Seq(T), NEW n \in Nat, n < Len(scene.events),
         StoreRight(messages, n)
  PROVE  StoreRight(Stored(messages, scene.events[n + 1]), n + 1)
<1> DEFINE e == scene.events[n + 1]
           key == KeyOf(e)
           at == {i \in DOMAIN messages : messages[i].key = key}
           Old(kind) == IF at = {} THEN Message(kind, "running") ELSE messages[CHOOSE i \in at : TRUE].m
           Put(m) == IF at = {} THEN Append(messages, [key |-> key, m |-> m])
                     ELSE [messages EXCEPT ![CHOOSE i \in at : TRUE].m = m]
<1>0. /\ MessageEvents \subseteq Nat /\ Ending \subseteq MessageEvents /\ n + 1 \in DOMAIN scene.events
      /\ \A i, j \in MessageEvents :
           KeyOf(scene.events[i]) = KeyOf(scene.events[j]) => KindOf(scene.events[i]) = KindOf(scene.events[j])
  BY Events
<1>1. ASSUME n + 1 \in MessageEvents, NEW m, Shaped(m), m.kind = KindOf(e), n + 1 \in Ending => m = EndOf(e)
      PROVE  StoreRight(Put(m), n + 1)
  BY <1>1, PutRight
<1>2. ASSUME n + 1 \in MessageEvents  PROVE Shaped(Old(KindOf(e))) /\ Old(KindOf(e)).kind = KindOf(e)
  <2>1. CASE at = {}
    BY <2>1 DEF Message, Shaped
  <2>2. CASE at # {}
    <3>1. PICK i \in DOMAIN messages : messages[i].key = key /\ Old(KindOf(e)) = messages[i].m
      BY <2>2
    <3>2. Shaped(messages[i].m) /\ Heard(n, key, messages[i].m.kind)
      BY <3>1 DEF StoreRight
    <3>3. messages[i].m.kind = KindOf(e)
      BY <1>0, <1>2, <3>2 DEF Heard
    <3> QED
      BY <3>1, <3>2, <3>3
  <2> QED
    BY <2>1, <2>2
<1>3. n + 1 \in MessageEvents <=> e.type \in StepTypes \cup CompactionTypes
  BY <1>0 DEF MessageEvents
<1>4. n + 1 \in Ending <=> e.type = "compactionEnded"
  BY <1>0 DEF Ending
<1> HIDE DEF Put, Old
<1>5. Stored(messages, e) =
        CASE e.type = "stepStarted" -> Put([Old("assistant") EXCEPT !.model = e.model, !.status = "running"])
          [] e.type = "stepEnded" -> Put([Old("assistant") EXCEPT !.tokens = e.tokens, !.cost = e.cost,
                                                                  !.status = "completed"])
          [] e.type = "stepFailed" -> Put([Old("assistant") EXCEPT !.status = "failed"])
          [] e.type = "compactionStarted" -> Put(Message("compaction", "running"))
          [] e.type = "compactionEnded" -> Put(EndOf(e))
          [] OTHER -> messages
  BY DEF Stored, Put, Old, EndOf
<1> HIDE DEF e, key, at
<1>6. CASE e.type \in StepTypes
  <2>1. KindOf(e) = "assistant" /\ n + 1 \in MessageEvents /\ n + 1 \notin Ending
    BY <1>3, <1>4, <1>6 DEF KindOf, StepTypes, CompactionTypes
  <2>2. Shaped(Old("assistant")) /\ Old("assistant").kind = "assistant"
    BY <1>2, <2>1
  <2>3. CASE e.type = "stepStarted"
    <3> DEFINE m == [Old("assistant") EXCEPT !.model = e.model, !.status = "running"]
    <3>1. Shaped(m) /\ m.kind = "assistant"
      BY <2>2 DEF Shaped
    <3>2. Stored(messages, e) = Put(m)
      BY <1>5, <2>3
    <3> HIDE DEF m
    <3> QED
      BY <1>1, <2>1, <3>1, <3>2 DEF e
  <2>4. CASE e.type = "stepEnded"
    <3> DEFINE m == [Old("assistant") EXCEPT !.tokens = e.tokens, !.cost = e.cost, !.status = "completed"]
    <3>1. Shaped(m) /\ m.kind = "assistant"
      BY <2>2 DEF Shaped
    <3>2. Stored(messages, e) = Put(m)
      BY <1>5, <2>4
    <3> HIDE DEF m
    <3> QED
      BY <1>1, <2>1, <3>1, <3>2 DEF e
  <2>5. CASE e.type = "stepFailed"
    <3> DEFINE m == [Old("assistant") EXCEPT !.status = "failed"]
    <3>1. Shaped(m) /\ m.kind = "assistant"
      BY <2>2 DEF Shaped
    <3>2. Stored(messages, e) = Put(m)
      BY <1>5, <2>5
    <3> HIDE DEF m
    <3> QED
      BY <1>1, <2>1, <3>1, <3>2 DEF e
  <2> QED
    BY <1>6, <2>3, <2>4, <2>5 DEF StepTypes
<1>7. CASE e.type = "compactionStarted"
  <2>1. KindOf(e) = "compaction" /\ n + 1 \in MessageEvents /\ n + 1 \notin Ending
    BY <1>3, <1>4, <1>7 DEF KindOf, CompactionTypes
  <2>2. Shaped(Message("compaction", "running")) /\ Message("compaction", "running").kind = "compaction"
    BY DEF Message, Shaped
  <2>3. Stored(messages, e) = Put(Message("compaction", "running"))
    BY <1>5, <1>7
  <2> QED
    BY <1>1, <2>1, <2>2, <2>3 DEF e
<1>8. CASE e.type = "compactionEnded"
  <2>1. KindOf(e) = "compaction" /\ n + 1 \in MessageEvents
    BY <1>3, <1>8 DEF KindOf, CompactionTypes
  <2>2. Shaped(EndOf(e)) /\ EndOf(e).kind = "compaction"
    BY DEF EndOf, Shaped
  <2>3. Stored(messages, e) = Put(EndOf(e))
    BY <1>5, <1>8
  <2> QED
    BY <1>1, <2>1, <2>2, <2>3 DEF e
<1>9. CASE e.type \notin StepTypes \cup CompactionTypes
  <2>1. n + 1 \notin MessageEvents /\ n + 1 \notin Ending
    BY <1>0, <1>3, <1>9
  <2>2. Stored(messages, e) = messages
    BY <1>5, <1>9 DEF StepTypes, CompactionTypes
  <2>3. \A i \in MessageEvents : i <= n + 1 => i <= n
    BY <1>0, <2>1
  <2>4. \A i \in DOMAIN messages : Heard(n + 1, messages[i].key, messages[i].m.kind)
    BY <1>0, HeardLater DEF StoreRight
  <2>5. StoreRight(messages, n + 1)
    BY <1>0, <2>3, <2>4 DEF StoreRight
  <2> QED
    BY <2>2, <2>5 DEF e
<1> QED
  BY <1>6, <1>7, <1>8, <1>9 DEF e, CompactionTypes

-------------------------------------------------------------------------------
(* A missed event changes nothing that is known. *)
LEMMA StreamLater ==
  ASSUME scene \in Scenes, NEW c, NEW n \in Nat, StreamRight(c, n)
  PROVE  StreamRight(c, n + 1)
<1>1. MessageEvents \subseteq Nat /\ Ending \subseteq Nat
  BY Events
<1>2. \A key, kind : Heard(n, key, kind) => Heard(n + 1, key, kind)
  BY <1>1, HeardLater
<1>3. \A i \in Ending : (i <= n => i <= n + 1) /\ (i > n + 1 => i > n)
  BY <1>1
<1> QED
  BY <1>2, <1>3 DEF StreamRight

(* What StreamRight depends on. *)
LEMMA StreamSame ==
  ASSUME NEW c, NEW n, StreamRight(c, n), NEW d, d.messages = c.messages, d.unmatched = c.unmatched,
         d.active = c.active, d.counted = c.counted, d.turns = c.turns, Root \in d.sessions
  PROVE  StreamRight(d, n)
BY DEF StreamRight, Counts

(* trackSession only adds to the sessions that are followed. *)
LEMMA TrackedRight ==
  ASSUME NEW c, NEW e, NEW n, ContextOK(c), StreamRight(c, n)
  PROVE  ContextOK(Tracked(c, e)) /\ StreamRight(Tracked(c, e), n)
<1> DEFINE parents == IF e.type = "created" THEN c.parents \cup {<<e.session, e.parent>>} ELSE c.parents
           sessions == IF e.type = "created" THEN Followed(c.sessions, parents) ELSE c.sessions
           d == [c EXCEPT !.parents = parents, !.sessions = sessions]
<1>1. Root \in sessions
  <2>1. Root \in Sessions /\ Root \in c.sessions
    BY NormalizerAssumption DEF StreamRight
  <2> HIDE DEF parents
  <2> QED
    BY <2>1 DEF Followed
<1>2. Tracked(c, e) = d
  BY DEF Tracked
<1> HIDE DEF parents, sessions
<1>3. ContextOK(d) /\ d.sessions = sessions /\ d.messages = c.messages /\ d.unmatched = c.unmatched
      /\ d.active = c.active /\ d.counted = c.counted /\ d.turns = c.turns
  BY DEF ContextOK
<1> HIDE DEF d
<1> QED
  BY <1>1, <1>2, <1>3, StreamSame

(* An event about a message of a kind: what is known of it, if anything, is of *)
(* that kind.                                                                  *)
LEMMA KnownRight ==
  ASSUME scene \in Scenes, NEW c, NEW n \in Nat, StreamRight(c, n), n + 1 \in MessageEvents
  PROVE  LET e == scene.events[n + 1]
             m == Known(c, KeyOf(e), KindOf(e))
         IN  Shaped(m) /\ m.kind = KindOf(e)
<1> DEFINE e == scene.events[n + 1]
           key == KeyOf(e)
<1>1. CASE key \notin DOMAIN c.messages
  BY <1>1 DEF Known, Message, Shaped
<1>2. CASE key \in DOMAIN c.messages
  <2>1. key \notin c.unmatched
    BY Events DEF StreamRight
  <2>2. Shaped(c.messages[key]) /\ Heard(n, key, c.messages[key].kind)
    BY <1>2, <2>1 DEF StreamRight
  <2>3. c.messages[key].kind = KindOf(e)
    BY <2>2, Events DEF Heard
  <2> QED
    BY <1>2, <2>2, <2>3 DEF Known
<1> QED
  BY <1>1, <1>2

(* A step: a message of its own. *)
LEMMA StepRight ==
  ASSUME scene \in Scenes, NEW c, ContextOK(c), NEW n \in Nat, StreamRight(c, n), n + 1 \in MessageEvents,
         KindOf(scene.events[n + 1]) = "assistant", NEW m, Shaped(m), m.kind = "assistant"
  PROVE  StreamRight(Streamed(c, KeyOf(scene.events[n + 1]), m), n + 1)
<1> DEFINE e == scene.events[n + 1]
           key == KeyOf(e)
           d == Streamed(c, key, m)
<1>1. StreamRight(c, n + 1)
  BY StreamLater
<1>2. Heard(n + 1, key, "assistant")
  BY DEF Heard
<1>3. key \notin c.unmatched /\ MessageEvents \subseteq Nat /\ Ending \subseteq MessageEvents
      /\ \A i \in Ending : KeyOf(scene.events[i]) # key
  BY Events DEF StreamRight
<1>4. /\ d.sessions = c.sessions /\ DOMAIN d.messages = DOMAIN c.messages \cup {key}
      /\ d.messages[key] = m /\ \A k \in DOMAIN d.messages \ {key} : d.messages[k] = c.messages[k]
      /\ d.unmatched = c.unmatched /\ d.active = c.active
      /\ d.counted = IF Completed(m) THEN c.counted \cup {key} ELSE c.counted
      /\ d.turns = c.turns + IF Completed(m) /\ key[1] = Root /\ key \notin c.counted THEN 1 ELSE 0
  <2>1. Changed(c, d, key, m, {})
    BY StreamedChanges
  <2> HIDE DEF d, key
  <2> QED
    BY <2>1 DEF Changed
<1> HIDE DEF d, key, e
<1>5. Counts(d)
  <2>1. Counts(c) /\ c.turns \in Nat
    BY <1>1, FS_Subset, FS_CardinalityType DEF StreamRight, Counts
  <2>2. CASE Completed(m)
    BY <1>4, <2>1, <2>2, CountedOnce
  <2>3. CASE ~Completed(m)
    <3>1. d.turns = c.turns
      BY <1>4, <2>1, <2>3
    <3> QED
      BY <1>4, <2>1, <2>3, <3>1, CountedOnce
  <2> QED
    BY <2>2, <2>3
<1>6. \A k \in d.counted : Heard(n + 1, k, "assistant")
  BY <1>1, <1>2, <1>4 DEF StreamRight
<1>7. \A k \in DOMAIN d.messages : Shaped(d.messages[k])
  BY <1>1, <1>4 DEF StreamRight
<1>8. \A k \in DOMAIN d.messages \ d.unmatched : Heard(n + 1, k, d.messages[k].kind)
  BY <1>1, <1>2, <1>4 DEF StreamRight
<1>9. ASSUME NEW u \in d.unmatched
      PROVE  \E i \in Ending : /\ i <= n + 1 /\ u = NameOf(scene.events[i])
                               /\ d.messages[u] = EndOf(scene.events[i])
                               /\ KeyOf(scene.events[i]) \notin DOMAIN d.messages
  <2>1. u \in c.unmatched /\ u # key /\ u \in DOMAIN c.messages /\ d.messages[u] = c.messages[u]
    BY <1>1, <1>3, <1>4 DEF StreamRight
  <2>2. PICK i \in Ending : /\ i <= n + 1 /\ u = NameOf(scene.events[i])
                            /\ c.messages[u] = EndOf(scene.events[i])
                            /\ KeyOf(scene.events[i]) \notin DOMAIN c.messages
    BY <1>1, <2>1 DEF StreamRight
  <2> QED
    BY <1>3, <1>4, <2>1, <2>2
<1>10. \A i \in Ending : i > n + 1 /\ KeyOf(scene.events[i]) \in DOMAIN d.messages =>
         d.active[scene.events[i].session] = scene.events[i].compaction
  BY <1>1, <1>3, <1>4 DEF StreamRight
<1>11. \A s \in Sessions : d.active[s] # None =>
         <<s, d.active[s]>> \in DOMAIN d.messages /\ Heard(n + 1, <<s, d.active[s]>>, "compaction")
  BY <1>1, <1>4 DEF StreamRight
<1>12. DOMAIN d.active = Sessions /\ Root \in d.sessions /\ d.unmatched \subseteq DOMAIN d.messages
  BY <1>1, <1>4 DEF StreamRight
<1>13. StreamRight(d, n + 1)
  BY <1>5, <1>6, <1>7, <1>8, <1>9, <1>10, <1>11, <1>12 DEF StreamRight
<1> QED
  BY <1>13 DEF d, key, e

(* What a streamed compaction changes: nothing gives way to it. *)
LEMMA CompactionChanges ==
  ASSUME NEW c, NEW key, NEW m, ContextOK(c), m.kind = "compaction", Counts(c),
         NEW d, d = Streamed(c, key, m)
  PROVE  /\ ContextOK(d) /\ d.sessions = c.sessions
         /\ DOMAIN d.messages = DOMAIN c.messages \cup {key}
         /\ d.messages[key] = m
         /\ \A k \in DOMAIN d.messages \ {key} : d.messages[k] = c.messages[k]
         /\ d.unmatched = c.unmatched \ {key}
         /\ d.active = [c.active EXCEPT ![key[1]] =
                          IF ~Completed(m) THEN key[2] ELSE IF @ = key[2] THEN None ELSE @]
         /\ d.counted = c.counted /\ Counts(d)
<1>2. Changed(c, d, key, m, {})
  BY StreamedChanges
<1>3. c.turns \in Nat
  BY FS_Subset, FS_CardinalityType DEF Counts
<1>4. /\ ContextOK(d) /\ d.sessions = c.sessions
      /\ DOMAIN d.messages = DOMAIN c.messages \cup {key}
      /\ d.messages[key] = m
      /\ \A k \in DOMAIN d.messages \ {key} : d.messages[k] = c.messages[k]
      /\ d.unmatched = c.unmatched \ {key}
      /\ d.active = [c.active EXCEPT ![key[1]] =
                       IF ~Completed(m) THEN key[2] ELSE IF @ = key[2] THEN None ELSE @]
      /\ d.counted = c.counted
  BY <1>2 DEF Changed
<1>5. d.turns = c.turns
  BY <1>2, <1>3 DEF Changed
<1>6. Counts(d)
  BY <1>4, <1>5 DEF Counts
<1> QED
  BY <1>4, <1>6

(* A compaction of a session that is known and has yet to end is the one an    *)
(* event about the session's compactions is about.                             *)
LEMMA StillTheSame ==
  ASSUME scene \in Scenes, NEW c, NEW n \in Nat, StreamRight(c, n), n + 1 \in MessageEvents,
         KindOf(scene.events[n + 1]) = "compaction",
         NEW i \in Ending, i > n + 1, KeyOf(scene.events[i]) \in DOMAIN c.messages,
         scene.events[i].session = scene.events[n + 1].session
  PROVE  KeyOf(scene.events[n + 1]) = KeyOf(scene.events[i])
<1> DEFINE key == KeyOf(scene.events[i])
<1>1. /\ MessageEvents \subseteq Nat /\ i \in MessageEvents /\ KindOf(scene.events[i]) = "compaction"
      /\ \A h \in MessageEvents : KeyOf(scene.events[h]) = key => KindOf(scene.events[h]) = "compaction"
  BY Events
<1>2. key \notin c.unmatched
  BY <1>1, Events DEF StreamRight
<1>3. PICK h \in MessageEvents : h <= n /\ KeyOf(scene.events[h]) = key
  BY <1>2 DEF StreamRight, Heard
<1>4. h < n + 1 /\ n + 1 < i
  BY <1>1, <1>3
<1> QED
  BY <1>1, <1>3, <1>4, OneAtATime

(* A compaction that starts is its session's active one. *)
LEMMA CompactionStartRight ==
  ASSUME scene \in Scenes, NEW c, ContextOK(c), NEW n \in Nat, StreamRight(c, n), n + 1 \in MessageEvents,
         scene.events[n + 1].type = "compactionStarted", scene.events[n + 1].session \in Sessions,
         scene.events[n + 1].id # None,
         NEW m, Shaped(m), m.kind = "compaction", ~Completed(m)
  PROVE  StreamRight(Streamed(c, KeyOf(scene.events[n + 1]), m), n + 1)
<1> DEFINE e == scene.events[n + 1]
           key == KeyOf(e)
           s == e.session
           d == Streamed(c, key, m)
<1>1. StreamRight(c, n + 1) /\ DOMAIN c.active = Sessions /\ Counts(c)
  BY StreamLater DEF StreamRight
<1>2. KindOf(e) = "compaction" /\ Heard(n + 1, key, "compaction") /\ key = <<s, e.id>>
  BY DEF Heard, KindOf, CompactionTypes, KeyOf
<1>3. /\ key \notin c.unmatched /\ MessageEvents \subseteq Nat /\ Ending \subseteq MessageEvents
      /\ \A i \in Ending : i <= n => KeyOf(scene.events[i]) # key
  <2>1. \A i \in Ending : i <= n => n + 1 > i
    BY Events
  <2> QED
    BY <2>1, Events DEF StreamRight
<1>4. /\ d.sessions = c.sessions /\ DOMAIN d.messages = DOMAIN c.messages \cup {key}
      /\ d.messages[key] = m /\ \A k \in DOMAIN d.messages \ {key} : d.messages[k] = c.messages[k]
      /\ d.unmatched = c.unmatched \ {key} /\ d.active = [c.active EXCEPT ![s] = e.id]
      /\ d.counted = c.counted /\ Counts(d)
  <2>1. key[1] = s /\ key[2] = e.id
    BY <1>2
  <2>2. /\ d.sessions = c.sessions /\ DOMAIN d.messages = DOMAIN c.messages \cup {key}
        /\ d.messages[key] = m /\ \A k \in DOMAIN d.messages \ {key} : d.messages[k] = c.messages[k]
        /\ d.unmatched = c.unmatched \ {key}
        /\ d.active = [c.active EXCEPT ![key[1]] =
                         IF ~Completed(m) THEN key[2] ELSE IF @ = key[2] THEN None ELSE @]
        /\ d.counted = c.counted /\ Counts(d)
    <3>1. d = Streamed(c, key, m)
      OBVIOUS
    <3> HIDE DEF d, key, e, s
    <3> QED
      BY <1>1, <3>1, CompactionChanges
  <2> HIDE DEF d, key, e, s
  <2> QED
    BY <2>1, <2>2
<1>5. d.unmatched = c.unmatched
  BY <1>3, <1>4
<1>6. d.active[s] = e.id /\ \A t \in Sessions \ {s} : d.active[t] = c.active[t]
  <2> HIDE DEF d
  <2> QED
    BY <1>1, <1>4
<1>7. ASSUME NEW i \in Ending, i > n + 1, KeyOf(scene.events[i]) \in DOMAIN d.messages
      PROVE  d.active[scene.events[i].session] = scene.events[i].compaction
  <2>1. KeyOf(scene.events[i]) = <<scene.events[i].session, scene.events[i].compaction>>
    BY DEF Ending, KeyOf
  <2>2. CASE KeyOf(scene.events[i]) = key
    <3>1. scene.events[i].session = s /\ scene.events[i].compaction = e.id
      <4> HIDE DEF e, s, key, d
      <4> QED
        BY <1>2, <2>1, <2>2
    <3> HIDE DEF e, s, d
    <3> QED
      BY <1>6, <3>1
  <2>3. CASE KeyOf(scene.events[i]) \in DOMAIN c.messages /\ scene.events[i].session = s
    <3>1. key = KeyOf(scene.events[i])
      BY <1>2, <1>7, <2>3, StillTheSame
    <3> QED
      BY <2>2, <3>1
  <2>4. CASE KeyOf(scene.events[i]) \in DOMAIN c.messages /\ scene.events[i].session # s
    <3>1. <<scene.events[i].session, scene.events[i].compaction>> \in DOMAIN c.messages
      BY <2>1, <2>4
    <3>2. c.active[scene.events[i].session] = scene.events[i].compaction
      BY <1>1, <1>7, <2>4 DEF StreamRight
    <3>3. scene.events[i].session \in Sessions
      BY ServerAssumption DEF Orderly, Ending
    <3> QED
      BY <1>6, <2>4, <3>2, <3>3
  <2> QED
    BY <1>4, <1>7, <2>2, <2>3, <2>4
<1> HIDE DEF d, key, e, s
<1>8. ASSUME NEW t \in Sessions, d.active[t] # None
      PROVE  <<t, d.active[t]>> \in DOMAIN d.messages /\ Heard(n + 1, <<t, d.active[t]>>, "compaction")
  <2>1. CASE t = s
    BY <1>2, <1>4, <1>6, <2>1
  <2>2. CASE t # s
    <3>1. d.active[t] = c.active[t]
      BY <1>6, <2>2
    <3>2. <<t, c.active[t]>> \in DOMAIN c.messages /\ Heard(n + 1, <<t, c.active[t]>>, "compaction")
      BY <1>1, <1>8, <3>1 DEF StreamRight
    <3> QED
      BY <1>4, <3>1, <3>2
  <2> QED
    BY <2>1, <2>2
<1>9. ASSUME NEW u \in d.unmatched
      PROVE  \E i \in Ending : /\ i <= n + 1 /\ u = NameOf(scene.events[i])
                               /\ d.messages[u] = EndOf(scene.events[i])
                               /\ KeyOf(scene.events[i]) \notin DOMAIN d.messages
  <2>1. u \in c.unmatched /\ u # key /\ u \in DOMAIN c.messages /\ d.messages[u] = c.messages[u]
    BY <1>1, <1>3, <1>4 DEF StreamRight
  <2>2. PICK i \in Ending : /\ i <= n /\ u = NameOf(scene.events[i])
                            /\ c.messages[u] = EndOf(scene.events[i])
                            /\ KeyOf(scene.events[i]) \notin DOMAIN c.messages
    BY <2>1 DEF StreamRight
  <2>3. i <= n + 1
    BY <1>3, <2>2
  <2> QED
    BY <1>3, <1>4, <2>1, <2>2, <2>3
<1>10. \A k \in DOMAIN d.messages : Shaped(d.messages[k])
  BY <1>1, <1>4 DEF StreamRight
<1>11. \A k \in DOMAIN d.messages \ d.unmatched : Heard(n + 1, k, d.messages[k].kind)
  BY <1>1, <1>2, <1>4, <1>5 DEF StreamRight
<1>12. \A k \in d.counted : Heard(n + 1, k, "assistant")
  BY <1>1, <1>4 DEF StreamRight
<1>13. DOMAIN d.active = Sessions /\ Root \in d.sessions /\ d.unmatched \subseteq DOMAIN d.messages
  BY <1>1, <1>4 DEF StreamRight
<1>14. StreamRight(d, n + 1)
  BY <1>4, <1>7, <1>8, <1>9, <1>10, <1>11, <1>12, <1>13 DEF StreamRight
<1> QED
  BY <1>14 DEF d, key, e

(* The end of the compaction that is known to run. *)
LEMMA ActiveEndRight ==
  ASSUME scene \in Scenes, NEW c, ContextOK(c), NEW n \in Nat, StreamRight(c, n), n + 1 \in Ending,
         NEW s \in Sessions, s = scene.events[n + 1].session, c.active[s] # None
  PROVE  StreamRight(Streamed(c, <<s, c.active[s]>>, EndOf(scene.events[n + 1])), n + 1)
<1> DEFINE e == scene.events[n + 1]
           key == <<s, c.active[s]>>
           m == EndOf(e)
           d == Streamed(c, key, m)
<1>1. StreamRight(c, n + 1) /\ DOMAIN c.active = Sessions /\ Counts(c)
  BY StreamLater DEF StreamRight
<1>2. /\ key \in DOMAIN c.messages /\ Heard(n, key, "compaction") /\ Heard(n + 1, key, "compaction")
      /\ key \notin c.unmatched
  <2>1. key \in DOMAIN c.messages /\ Heard(n, key, "compaction") /\ Heard(n + 1, key, "compaction")
    BY <1>1 DEF StreamRight
  <2>2. \A u \in c.unmatched : \E i \in Ending : u = NameOf(scene.events[i])
    BY DEF StreamRight
  <2>3. key \notin c.unmatched
    <3> HIDE DEF key
    <3> QED
      BY <2>1, <2>2, Events DEF Heard
  <2> QED
    BY <2>1, <2>3
<1>3. /\ MessageEvents \subseteq Nat /\ Ending \subseteq MessageEvents
      /\ Shaped(m) /\ m.kind = "compaction" /\ Completed(m) /\ KindOf(e) = "compaction"
  BY Events DEF EndOf, Shaped
<1>4. /\ d.sessions = c.sessions /\ DOMAIN d.messages = DOMAIN c.messages \cup {key}
      /\ d.messages[key] = m /\ \A k \in DOMAIN d.messages \ {key} : d.messages[k] = c.messages[k]
      /\ d.unmatched = c.unmatched \ {key} /\ d.active = [c.active EXCEPT ![s] = None]
      /\ d.counted = c.counted /\ Counts(d)
  <2>1. key[1] = s /\ key[2] = c.active[s]
    OBVIOUS
  <2>2. /\ d.sessions = c.sessions /\ DOMAIN d.messages = DOMAIN c.messages \cup {key}
        /\ d.messages[key] = m /\ \A k \in DOMAIN d.messages \ {key} : d.messages[k] = c.messages[k]
        /\ d.unmatched = c.unmatched \ {key}
        /\ d.active = [c.active EXCEPT ![key[1]] =
                         IF ~Completed(m) THEN key[2] ELSE IF @ = key[2] THEN None ELSE @]
        /\ d.counted = c.counted /\ Counts(d)
    <3>1. d = Streamed(c, key, m)
      OBVIOUS
    <3> HIDE DEF d, key, m, e
    <3> QED
      BY <1>1, <1>3, <3>1, CompactionChanges, SMTT(60)
  <2> HIDE DEF d, key, m, e
  <2> QED
    BY <1>3, <2>1, <2>2
<1> HIDE DEF d, key, m
<1>5. d.unmatched = c.unmatched /\ DOMAIN d.messages = DOMAIN c.messages
  BY <1>2, <1>4
<1>6. d.active[s] = None /\ \A t \in Sessions \ {s} : d.active[t] = c.active[t]
  BY <1>1, <1>4
<1>7. ASSUME NEW i \in Ending, i > n + 1, KeyOf(scene.events[i]) \in DOMAIN d.messages
      PROVE  d.active[scene.events[i].session] = scene.events[i].compaction
  <2>1. scene.events[i].session \in Sessions /\ i \in MessageEvents
    BY <1>3, ServerAssumption DEF Orderly, Ending
  <2>2. scene.events[i].session # s
    <3>1. KeyOf(e) # KeyOf(scene.events[i])
      BY <1>7, <2>1, Events
    <3> QED
      BY <1>3, <1>5, <1>7, <3>1, StillTheSame
  <2>3. c.active[scene.events[i].session] = scene.events[i].compaction
    BY <1>1, <1>5, <1>7 DEF StreamRight
  <2> QED
    BY <1>6, <2>1, <2>2, <2>3
<1>8. ASSUME NEW t \in Sessions, d.active[t] # None
      PROVE  <<t, d.active[t]>> \in DOMAIN d.messages /\ Heard(n + 1, <<t, d.active[t]>>, "compaction")
  <2>1. t # s /\ d.active[t] = c.active[t]
    BY <1>6, <1>8
  <2>2. <<t, c.active[t]>> \in DOMAIN c.messages /\ Heard(n + 1, <<t, c.active[t]>>, "compaction")
    BY <1>1, <1>8, <2>1 DEF StreamRight
  <2> QED
    BY <1>5, <2>1, <2>2
<1>9. ASSUME NEW u \in d.unmatched
      PROVE  \E i \in Ending : /\ i <= n + 1 /\ u = NameOf(scene.events[i])
                               /\ d.messages[u] = EndOf(scene.events[i])
                               /\ KeyOf(scene.events[i]) \notin DOMAIN d.messages
  <2>1. u \in c.unmatched /\ u # key /\ u \in DOMAIN c.messages /\ d.messages[u] = c.messages[u]
    BY <1>1, <1>2, <1>4, <1>5 DEF StreamRight
  <2> QED
    BY <1>1, <1>5, <2>1 DEF StreamRight
<1>10. \A k \in DOMAIN d.messages : Shaped(d.messages[k])
  BY <1>1, <1>3, <1>4 DEF StreamRight
<1>11. \A k \in DOMAIN d.messages \ d.unmatched : Heard(n + 1, k, d.messages[k].kind)
  BY <1>1, <1>2, <1>3, <1>4, <1>5 DEF StreamRight
<1>12. \A k \in d.counted : Heard(n + 1, k, "assistant")
  BY <1>1, <1>4 DEF StreamRight
<1>13. DOMAIN d.active = Sessions /\ Root \in d.sessions /\ d.unmatched \subseteq DOMAIN d.messages
  BY <1>1, <1>4 DEF StreamRight
<1>14. StreamRight(d, n + 1)
  BY <1>4, <1>7, <1>8, <1>9, <1>10, <1>11, <1>12, <1>13 DEF StreamRight
<1> QED
  BY <1>14 DEF d, key, m

(* The end of a compaction of which nothing is known gets the event's own      *)
(* name: nothing else may be known of it under the name it has.                *)
LEMMA UnknownEndRight ==
  ASSUME scene \in Scenes, NEW c, ContextOK(c), NEW n \in Nat, StreamRight(c, n), n + 1 \in Ending,
         NEW s \in Sessions, s = scene.events[n + 1].session, c.active[s] = None
  PROVE  LET key == NameOf(scene.events[n + 1])
             d == Streamed(c, key, EndOf(scene.events[n + 1]))
         IN  StreamRight([d EXCEPT !.unmatched = @ \cup {key}], n + 1)
<1> DEFINE e == scene.events[n + 1]
           key == NameOf(e)
           m == EndOf(e)
           d == Streamed(c, key, m)
           new == [d EXCEPT !.unmatched = @ \cup {key}]
<1>1. StreamRight(c, n + 1) /\ DOMAIN c.active = Sessions /\ Counts(c)
  BY StreamLater DEF StreamRight
<1>2. /\ MessageEvents \subseteq Nat /\ Ending \subseteq MessageEvents /\ n + 1 \in MessageEvents
      /\ Shaped(m) /\ m.kind = "compaction" /\ Completed(m) /\ KindOf(e) = "compaction"
      /\ \A j \in MessageEvents : KeyOf(scene.events[j]) # key
      /\ key = <<s, e.id>>
  BY Events DEF EndOf, Shaped, NameOf
<1>3. KeyOf(e) \notin DOMAIN c.messages
  <2>1. SUFFICES ASSUME KeyOf(e) \in DOMAIN c.messages  PROVE FALSE
    OBVIOUS
  <2>2. KeyOf(e) = <<s, e.compaction>>
    BY DEF KeyOf, Ending
  <2>3. c.active[s] = e.compaction
    BY <2>1 DEF StreamRight
  <2>4. KeyOf(e) \notin c.unmatched
    BY <1>2, Events DEF StreamRight
  <2>5. PICK h \in MessageEvents : h <= n /\ KeyOf(scene.events[h]) = KeyOf(e)
    BY <2>1, <2>4 DEF StreamRight, Heard
  <2>6. h \notin Ending
    <3>1. n + 1 > h
      BY <1>2, <2>5
    <3> QED
      BY <1>2, <2>5, <3>1, Events
  <2>7. KindOf(scene.events[h]) = "compaction"
    BY <1>2, <2>5, Events
  <2>8. scene.events[h].type = "compactionStarted"
    BY <2>6, <2>7 DEF KindOf, CompactionTypes, Ending, MessageEvents
  <2>9. scene.events[h].id # None
    BY <2>8, ServerAssumption DEF Orderly, MessageEvents
  <2>10. KeyOf(scene.events[h]) = <<scene.events[h].session, scene.events[h].id>>
    BY <2>8 DEF KeyOf
  <2>11. scene.events[h].id = e.compaction
    <3> HIDE DEF e
    <3> QED
      BY <2>2, <2>5, <2>10
  <2> QED
    BY <2>3, <2>9, <2>11
<1>4. /\ d.sessions = c.sessions /\ DOMAIN d.messages = DOMAIN c.messages \cup {key} /\ ContextOK(d)
      /\ d.messages[key] = m /\ \A k \in DOMAIN d.messages \ {key} : d.messages[k] = c.messages[k]
      /\ d.unmatched = c.unmatched \ {key}
      /\ DOMAIN d.active = Sessions /\ \A t \in Sessions : d.active[t] = c.active[t]
      /\ d.counted = c.counted /\ Counts(d)
  <2>1. key[1] = s
    BY <1>2
  <2>2. /\ d.sessions = c.sessions /\ DOMAIN d.messages = DOMAIN c.messages \cup {key} /\ ContextOK(d)
        /\ d.messages[key] = m /\ \A k \in DOMAIN d.messages \ {key} : d.messages[k] = c.messages[k]
        /\ d.unmatched = c.unmatched \ {key}
        /\ d.active = [c.active EXCEPT ![key[1]] =
                         IF ~Completed(m) THEN key[2] ELSE IF @ = key[2] THEN None ELSE @]
        /\ d.counted = c.counted /\ Counts(d)
    <3>1. d = Streamed(c, key, m)
      OBVIOUS
    <3> HIDE DEF d, key, m, e
    <3> QED
      BY <1>1, <1>2, <3>1, CompactionChanges
  <2> HIDE DEF d, key, m, e
  <2> QED
    BY <1>1, <1>2, <2>1, <2>2
<1> HIDE DEF d, m, key
<1>5. /\ new.sessions = c.sessions /\ DOMAIN new.messages = DOMAIN c.messages \cup {key}
      /\ new.messages[key] = m /\ \A k \in DOMAIN new.messages \ {key} : new.messages[k] = c.messages[k]
      /\ new.unmatched = c.unmatched \cup {key}
      /\ DOMAIN new.active = Sessions /\ \A t \in Sessions : new.active[t] = c.active[t]
      /\ new.counted = c.counted /\ Counts(new)
  <2>1. /\ new.sessions = d.sessions /\ new.messages = d.messages /\ new.unmatched = d.unmatched \cup {key}
        /\ new.active = d.active /\ new.counted = d.counted /\ new.turns = d.turns
    BY <1>4 DEF ContextOK
  <2>2. Counts(new)
    BY <1>4, <2>1 DEF Counts
  <2> HIDE DEF new
  <2> QED
    BY <1>4, <2>1, <2>2
<1> HIDE DEF new
<1>6. ASSUME NEW i \in Ending, i > n + 1, KeyOf(scene.events[i]) \in DOMAIN new.messages
      PROVE  new.active[scene.events[i].session] = scene.events[i].compaction
  <2>1. KeyOf(scene.events[i]) \in DOMAIN c.messages /\ scene.events[i].session \in Sessions
    BY <1>2, <1>5, <1>6, ServerAssumption DEF Orderly, Ending
  <2>2. c.active[scene.events[i].session] = scene.events[i].compaction
    BY <1>1, <1>6, <2>1 DEF StreamRight
  <2> QED
    BY <1>5, <2>1, <2>2
<1>7. ASSUME NEW t \in Sessions, new.active[t] # None
      PROVE  <<t, new.active[t]>> \in DOMAIN new.messages /\ Heard(n + 1, <<t, new.active[t]>>, "compaction")
  <2>1. new.active[t] = c.active[t]
    BY <1>5
  <2>2. <<t, c.active[t]>> \in DOMAIN c.messages /\ Heard(n + 1, <<t, c.active[t]>>, "compaction")
    BY <1>1, <1>7, <2>1 DEF StreamRight
  <2> QED
    BY <1>5, <2>1, <2>2
<1>8. ASSUME NEW u \in new.unmatched
      PROVE  \E i \in Ending : /\ i <= n + 1 /\ u = NameOf(scene.events[i])
                               /\ new.messages[u] = EndOf(scene.events[i])
                               /\ KeyOf(scene.events[i]) \notin DOMAIN new.messages
  <2>1. CASE u = key
    <3>1. KeyOf(e) \notin DOMAIN new.messages
      BY <1>2, <1>3, <1>5
    <3>2. n + 1 <= n + 1 /\ u = NameOf(scene.events[n + 1]) /\ new.messages[u] = EndOf(scene.events[n + 1])
      BY <1>5, <2>1 DEF key, m
    <3> QED
      BY <3>1, <3>2
  <2>2. CASE u # key
    <3>1. u \in c.unmatched /\ u \in DOMAIN c.messages /\ new.messages[u] = c.messages[u]
      BY <1>1, <1>5, <2>2 DEF StreamRight
    <3>2. PICK i \in Ending : /\ i <= n + 1 /\ u = NameOf(scene.events[i])
                              /\ c.messages[u] = EndOf(scene.events[i])
                              /\ KeyOf(scene.events[i]) \notin DOMAIN c.messages
      BY <1>1, <3>1 DEF StreamRight
    <3> QED
      BY <1>2, <1>5, <3>1, <3>2
  <2> QED
    BY <2>1, <2>2
<1>9. \A k \in DOMAIN new.messages : Shaped(new.messages[k])
  BY <1>1, <1>2, <1>5 DEF StreamRight
<1>10. \A k \in DOMAIN new.messages \ new.unmatched : Heard(n + 1, k, new.messages[k].kind)
  BY <1>1, <1>5 DEF StreamRight
<1>11. \A k \in new.counted : Heard(n + 1, k, "assistant")
  BY <1>1, <1>5 DEF StreamRight
<1>12. DOMAIN new.active = Sessions /\ Root \in new.sessions /\ new.unmatched \subseteq DOMAIN new.messages
  BY <1>1, <1>5 DEF StreamRight
<1>13. StreamRight(new, n + 1)
  BY <1>5, <1>6, <1>7, <1>8, <1>9, <1>10, <1>11, <1>12 DEF StreamRight
<1> QED
  BY <1>13 DEF new, d, m, key, e

(* normalizeOpenCodeEvent, of the server's next event. *)
LEMMA EventRight ==
  ASSUME scene \in Scenes, NEW c, ContextOK(c), NEW n \in Nat, n < Len(scene.events), StreamRight(c, n)
  PROVE  StreamRight(Event(c, n + 1), n + 1)
<1> DEFINE e == scene.events[n + 1]
           c1 == Tracked(c, e)
           c2 == [c1 EXCEPT !.seen = @ \cup {n + 1}]
           made == [c2 EXCEPT !.announced = @ \cup {e.session}]
<1>1. ContextOK(c1) /\ StreamRight(c1, n)
  BY TrackedRight
<1>2. ContextOK(c2) /\ StreamRight(c2, n)
  <2> HIDE DEF c1
  <2>1. /\ ContextOK(c2) /\ c2.messages = c1.messages /\ c2.unmatched = c1.unmatched /\ c2.active = c1.active
        /\ c2.counted = c1.counted /\ c2.turns = c1.turns /\ c2.sessions = c1.sessions
    BY <1>1 DEF ContextOK
  <2>2. Root \in c2.sessions
    BY <1>1, <2>1 DEF StreamRight
  <2> HIDE DEF c2
  <2> QED
    BY <1>1, <2>1, <2>2, StreamSame
<1> HIDE DEF c1, c2
<1>3. StreamRight(made, n)
  <2>1. /\ made.messages = c2.messages /\ made.unmatched = c2.unmatched /\ made.active = c2.active
        /\ made.counted = c2.counted /\ made.turns = c2.turns /\ made.sessions = c2.sessions
    BY <1>2 DEF ContextOK
  <2> HIDE DEF made
  <2> QED
    BY <1>2, <2>1, StreamSame DEF StreamRight
<1> HIDE DEF made
<1>4. StreamRight(c1, n + 1) /\ StreamRight(c2, n + 1) /\ StreamRight(made, n + 1)
  BY <1>1, <1>2, <1>3, StreamLater
<1>5. n + 1 \in DOMAIN scene.events /\ e.session \in Sessions
  <2>1. n + 1 \in DOMAIN scene.events
    BY Events
  <2> QED
    BY <2>1, ServerAssumption DEF Orderly
<1>6. /\ e.type \in StepTypes => n + 1 \in MessageEvents /\ KindOf(e) = "assistant" /\ KeyOf(e) = <<e.session, e.id>>
      /\ e.type = "compactionStarted" =>
           n + 1 \in MessageEvents /\ KindOf(e) = "compaction" /\ KeyOf(e) = <<e.session, e.id>>
      /\ e.type = "compactionEnded" => n + 1 \in Ending
  BY <1>5 DEF MessageEvents, Ending, StepTypes, CompactionTypes, KindOf, KeyOf
<1>7. ASSUME e.type \in StepTypes, NEW m, Shaped(m), m.kind = "assistant"
      PROVE  StreamRight(Streamed(c2, <<e.session, e.id>>, m), n + 1)
  BY <1>2, <1>6, <1>7, StepRight
<1>8. CASE e.type \in StepTypes
  <2> DEFINE m == Known(c2, <<e.session, e.id>>, "assistant")
             key == <<e.session, e.id>>
  <2>1. Shaped(m) /\ m.kind = "assistant"
    BY <1>2, <1>6, <1>8, KnownRight
  <2> HIDE DEF m
  <2>2. StreamRight(StepStarted(c2, e), n + 1)
    <3> DEFINE new == [m EXCEPT !.model = e.model, !.status = "running"]
    <3>1. Shaped(new) /\ new.kind = "assistant"
      BY <2>1 DEF Shaped
    <3>2. StepStarted(c2, e) = Streamed(c2, key, new)
      BY DEF StepStarted, Streamed, m
    <3> HIDE DEF new
    <3> QED
      BY <1>7, <1>8, <3>1, <3>2
  <2>3. StreamRight(StepEnded(c2, e), n + 1)
    <3> DEFINE new == [m EXCEPT !.tokens = e.tokens, !.cost = e.cost, !.status = "completed"]
    <3>1. Shaped(new) /\ new.kind = "assistant"
      BY <2>1 DEF Shaped
    <3>2. StepEnded(c2, e) = Streamed(c2, key, new)
      BY DEF StepEnded, Streamed, m
    <3> HIDE DEF new
    <3> QED
      BY <1>7, <1>8, <3>1, <3>2
  <2>4. StreamRight(StepFailed(c2, e), n + 1)
    <3> DEFINE new == [m EXCEPT !.status = "failed"]
    <3>1. Shaped(new) /\ new.kind = "assistant"
      BY <2>1 DEF Shaped
    <3>2. StepFailed(c2, e) = Streamed(c2, key, new)
      BY DEF StepFailed, Streamed, m
    <3> HIDE DEF new
    <3> QED
      BY <1>7, <1>8, <3>1, <3>2
  <2>5. Event(c, n + 1) \in {c1, StepStarted(c2, e), StepEnded(c2, e), StepFailed(c2, e)}
    BY <1>8 DEF Event, StepTypes, c1, c2
  <2> QED
    BY <1>4, <2>2, <2>3, <2>4, <2>5
<1>9. CASE e.type = "compactionStarted"
  <2> DEFINE m == Known(c2, <<e.session, e.id>>, "compaction")
             key == <<e.session, e.id>>
             new == [m EXCEPT !.status = "running"]
  <2>1. Shaped(m) /\ m.kind = "compaction"
    BY <1>2, <1>6, <1>9, KnownRight
  <2>2. CompactionStarted(c2, e) = Streamed(c2, key, new)
    BY DEF CompactionStarted, Streamed
  <2> HIDE DEF m
  <2>3. Shaped(new) /\ new.kind = "compaction" /\ ~Completed(new)
    BY <2>1 DEF Shaped, Completed
  <2>4. e.id # None
    BY <1>5, <1>9, ServerAssumption DEF Orderly
  <2> HIDE DEF new
  <2>5. StreamRight(Streamed(c2, key, new), n + 1)
    BY <1>2, <1>5, <1>6, <1>9, <2>3, <2>4, CompactionStartRight
  <2>6. Event(c, n + 1) \in {c1, CompactionStarted(c2, e)}
    BY <1>9 DEF Event, c1, c2
  <2> QED
    BY <1>4, <2>2, <2>5, <2>6
<1>10. CASE e.type = "compactionEnded"
  <2> DEFINE s == e.session
             key == <<s, IF c2.active[s] # None THEN c2.active[s] ELSE e.id>>
             d == Streamed(c2, key, EndOf(e))
             unknown == Streamed(c2, NameOf(e), EndOf(e))
  <2>1. CompactionEnded(c2, e) = IF c2.active[s] = None THEN [d EXCEPT !.unmatched = @ \cup {key}] ELSE d
    BY DEF CompactionEnded, Streamed, EndOf
  <2>2. ASSUME c2.active[s] # None  PROVE StreamRight(CompactionEnded(c2, e), n + 1)
    <3>1. key = <<s, c2.active[s]>>
      BY <2>2
    <3>2. StreamRight(Streamed(c2, <<s, c2.active[s]>>, EndOf(e)), n + 1)
      BY <1>2, <1>5, <1>6, <1>10, <2>2, ActiveEndRight
    <3>3. d = Streamed(c2, <<s, c2.active[s]>>, EndOf(e))
      BY <3>1
    <3> HIDE DEF d, key, e, s
    <3>4. CompactionEnded(c2, e) = d
      BY <2>1, <2>2
    <3> QED
      BY <3>2, <3>3, <3>4
  <2>3. ASSUME c2.active[s] = None  PROVE StreamRight(CompactionEnded(c2, e), n + 1)
    <3>1. key = NameOf(e)
      BY <2>3 DEF NameOf
    <3>2. StreamRight([unknown EXCEPT !.unmatched = @ \cup {NameOf(e)}], n + 1)
      BY <1>2, <1>5, <1>6, <1>10, <2>3, UnknownEndRight
    <3>3. d = unknown
      BY <3>1
    <3> HIDE DEF d, key, e, s, unknown
    <3>4. CompactionEnded(c2, e) = [unknown EXCEPT !.unmatched = @ \cup {NameOf(e)}]
      BY <2>1, <2>3, <3>1, <3>3
    <3> QED
      BY <3>2, <3>4
  <2>4. Event(c, n + 1) \in {c1, CompactionEnded(c2, e)}
    BY <1>10 DEF Event, c1, c2
  <2> QED
    BY <1>4, <2>2, <2>3, <2>4
<1>11. CASE e.type \notin StepTypes \cup CompactionTypes
  <2>1. Event(c, n + 1) \in {c1, made, c2}
    BY <1>11 DEF Event, StepTypes, CompactionTypes, c1, c2, made
  <2> QED
    BY <1>4, <2>1
<1> QED
  BY <1>8, <1>9, <1>10, <1>11 DEF CompactionTypes

(* An event that is delivered again is only looked at for its session. *)
LEMMA RedeliveredRight ==
  ASSUME NEW c, ContextOK(c), NEW n, StreamRight(c, n), NEW i \in c.seen
  PROVE  StreamRight(Event(c, i), n)
<1> DEFINE e == scene.events[i]
           c1 == Tracked(c, e)
<1>1. c1.seen = c.seen
  BY DEF Tracked, ContextOK
<1>2. Event(c, i) = c1
  <2> HIDE DEF c1
  <2> QED
    BY <1>1 DEF Event, c1
<1> QED
  BY <1>2, TrackedRight

-------------------------------------------------------------------------------
(* What a list says of each of its messages, when it has none twice.         *)
LEMMA TruthIs ==
  ASSUME NEW messages, NEW T, messages \in Seq(T), NEW n, StoreRight(messages, n)
  PROVE  /\ DOMAIN Truth(messages) = {messages[i].key : i \in DOMAIN messages}
         /\ \A i \in DOMAIN messages : Truth(messages)[messages[i].key] = messages[i].m
         /\ IsFiniteSet(DOMAIN Truth(messages))
         /\ Truth(messages) = [k \in DOMAIN Truth(messages) |-> Truth(messages)[k]]
<1> DEFINE keys == {messages[i].key : i \in DOMAIN messages}
           keyOf == [i \in DOMAIN messages |-> messages[i].key]
<1>1. DOMAIN Truth(messages) = keys /\ Truth(messages) = [k \in DOMAIN Truth(messages) |-> Truth(messages)[k]]
  BY DEF Truth
<1>2. ASSUME NEW i \in DOMAIN messages  PROVE Truth(messages)[messages[i].key] = messages[i].m
  <2> DEFINE j == CHOOSE j \in DOMAIN messages : messages[j].key = messages[i].key
  <2>1. j \in DOMAIN messages /\ messages[j].key = messages[i].key
    OBVIOUS
  <2>2. j = i
    BY <2>1 DEF StoreRight
  <2>3. Truth(messages)[messages[i].key] = messages[j].m
    BY DEF Truth
  <2> QED
    BY <2>2, <2>3
<1>3. IsFiniteSet(keys)
  <2>1. DOMAIN messages = 1..Len(messages) /\ Len(messages) \in Nat
    OBVIOUS
  <2>2. IsFiniteSet(DOMAIN messages)
    BY <2>1, FS_Interval
  <2>3. keyOf \in Surjection(DOMAIN messages, keys)
    BY DEF Surjection
  <2> QED
    BY <2>2, <2>3, FS_Surjection
<1> QED
  BY <1>1, <1>2, <1>3

(* When the stream is lost, what is known matches what the server has: the end *)
(* of a compaction is the end of one only.                                     *)
LEMMA LostRight ==
  ASSUME scene \in Scenes, NEW c, NEW n \in Nat, StreamRight(c, n),
         NEW messages, NEW T, messages \in Seq(T), StoreRight(messages, n)
  PROVE  Matched(c, Truth(messages))
<1> DEFINE truth == Truth(messages)
<1>1. /\ DOMAIN truth = {messages[i].key : i \in DOMAIN messages}
      /\ \A i \in DOMAIN messages : truth[messages[i].key] = messages[i].m
  BY TruthIs
<1> HIDE DEF truth
<1>2. ASSUME NEW k, NEW kind, Heard(n, k, kind)  PROVE k \in DOMAIN truth /\ truth[k].kind = kind
  <2>1. PICK i \in MessageEvents : i <= n /\ KeyOf(scene.events[i]) = k /\ KindOf(scene.events[i]) = kind
    BY <1>2 DEF Heard
  <2>2. PICK j \in DOMAIN messages : messages[j].key = k
    BY <2>1 DEF StoreRight
  <2>3. Heard(n, k, messages[j].m.kind) /\ truth[k] = messages[j].m /\ k \in DOMAIN truth
    BY <1>1, <2>2 DEF StoreRight
  <2>4. PICK h \in MessageEvents : KeyOf(scene.events[h]) = k /\ KindOf(scene.events[h]) = truth[k].kind
    BY <2>3 DEF Heard
  <2> QED
    BY <2>1, <2>3, <2>4, Events
<1>3. \A k \in DOMAIN truth : \E j \in MessageEvents : k = KeyOf(scene.events[j])
  BY <1>1 DEF StoreRight, Heard
<1>4. \A k \in DOMAIN c.messages \ c.unmatched : k \in DOMAIN truth
  BY <1>2 DEF StreamRight
<1> DEFINE IsEnd(u, i) == /\ i \in Ending /\ i <= n /\ u = NameOf(scene.events[i])
                          /\ c.messages[u] = EndOf(scene.events[i])
                          /\ KeyOf(scene.events[i]) \notin DOMAIN c.messages
           End(u) == CHOOSE i : IsEnd(u, i)
           f == [u \in c.unmatched |-> KeyOf(scene.events[End(u)])]
<1>5. \A u \in c.unmatched : IsEnd(u, End(u))
  <2>1. \A u \in c.unmatched : \E i : IsEnd(u, i)
    BY DEF StreamRight
  <2> QED
    BY <2>1
<1> HIDE DEF End
<1>6. ASSUME NEW u \in c.unmatched
      PROVE  /\ f[u] \in DOMAIN truth \ DOMAIN c.messages
             /\ f[u][1] = u[1] /\ truth[f[u]] = c.messages[u]
  <2>1. f[u] = KeyOf(scene.events[End(u)]) /\ End(u) \in Ending /\ End(u) <= n
    BY <1>5
  <2>2. f[u][1] = u[1]
    BY <1>5, <2>1 DEF KeyOf, NameOf
  <2>3. PICK j \in DOMAIN messages :
          messages[j].key = KeyOf(scene.events[End(u)]) /\ messages[j].m = EndOf(scene.events[End(u)])
    BY <2>1 DEF StoreRight
  <2> HIDE DEF f
  <2> QED
    BY <1>1, <1>5, <2>1, <2>2, <2>3
<1>7. ASSUME NEW u \in c.unmatched, NEW v \in c.unmatched, f[u] = f[v]  PROVE u = v
  <2>1. /\ KeyOf(scene.events[End(u)]) = KeyOf(scene.events[End(v)]) /\ End(u) \in Ending /\ End(v) \in Ending
        /\ u = NameOf(scene.events[End(u)]) /\ v = NameOf(scene.events[End(v)])
    BY <1>5, <1>7
  <2>2. End(u) = End(v)
    BY <2>1, Events
  <2> QED
    BY <2>1, <2>2
<1>8. f \in Injection(c.unmatched, DOMAIN truth \ DOMAIN c.messages)
  <2>1. f \in [c.unmatched -> DOMAIN truth \ DOMAIN c.messages]
    BY <1>6
  <2>2. IsInjective(f)
    BY <1>7 DEF IsInjective
  <2> HIDE DEF f
  <2> QED
    BY <2>1, <2>2 DEF Injection
<1>9. \A u \in c.unmatched : u \in DOMAIN c.messages /\ u \notin DOMAIN truth /\ c.messages[u].kind = "compaction"
  <2>1. ASSUME NEW u \in c.unmatched
        PROVE  u \in DOMAIN c.messages /\ u \notin DOMAIN truth /\ c.messages[u].kind = "compaction"
    <3>1. u \in DOMAIN c.messages /\ IsEnd(u, End(u))
      BY <1>5 DEF StreamRight
    <3>2. \A j \in MessageEvents : KeyOf(scene.events[j]) # u
      BY <3>1, Events
    <3>3. c.messages[u].kind = "compaction"
      BY <3>1 DEF EndOf
    <3> QED
      BY <1>3, <3>1, <3>2, <3>3
  <2> QED
    BY <2>1
<1>10. \A k \in c.counted : k \in DOMAIN truth /\ truth[k].kind = "assistant"
  BY <1>2 DEF StreamRight
<1>11. Root \in c.sessions /\ Counts(c)
  BY DEF StreamRight
<1> HIDE DEF f
<1>12. Matched(c, truth)
  BY <1>4, <1>6, <1>8, <1>9, <1>10, <1>11 DEF Matched
<1> QED
  BY <1>12 DEF truth

(* A message that is read back, with the stand-in that gives way to it: if     *)
(* another one stood for it, the two change places.                            *)
LEMMA ReadRight ==
  ASSUME NEW c, ContextOK(c), NEW truth, Matched(c, truth), NEW key \in DOMAIN truth,
         NEW d, d = ReadBack(c, key, truth[key])
  PROVE  /\ ContextOK(d) /\ Matched(d, truth) /\ Has(d, truth, key)
         /\ \A k \in DOMAIN truth : Has(c, truth, k) => Has(d, truth, k)
<1> DEFINE m == truth[key]
           gone == GivesWay(c, key, m)
<1>1. Changed(c, d, key, m, gone)
  BY ReadBackChanges
<1>2. key \notin c.unmatched /\ c.turns \in Nat
  BY FS_Subset, FS_CardinalityType DEF Matched, Counts
<1>3. \/ gone = {} /\ (m.kind = "compaction" => StandIns(c, key, m) = {})
      \/ /\ m.kind = "compaction"
         /\ \E u \in StandIns(c, key, m) : gone = {u}
  BY DEF GivesWay, Gone
<1>4. StandIns(c, key, m) = {u \in c.unmatched \ {key} : u[1] = key[1] /\ c.messages[u] = m
                                                         /\ key \notin DOMAIN c.messages}
  BY DEF StandIns
<1> HIDE DEF m, gone
<1>5. gone \subseteq c.unmatched /\ key \notin gone
  BY <1>2, <1>3, <1>4
<1>6. /\ ContextOK(d) /\ d.sessions = c.sessions
      /\ DOMAIN d.messages = (DOMAIN c.messages \ gone) \cup {key} /\ d.messages[key] = m
      /\ \A k \in DOMAIN d.messages \ {key} : d.messages[k] = c.messages[k]
      /\ c.counted \subseteq d.counted /\ d.counted \subseteq c.counted \cup {key}
  BY <1>1 DEF Changed
<1>7. d.unmatched = c.unmatched \ gone
  BY <1>1, <1>2, <1>3 DEF Changed
<1>8. Counts(d)
  <2>1. Counts(c)
    BY DEF Matched
  <2>2. CASE m.kind = "assistant" /\ Completed(m)
    BY <1>1, <2>1, <2>2, CountedOnce DEF Changed
  <2>3. CASE ~(m.kind = "assistant" /\ Completed(m))
    <3>1. d.turns = c.turns /\ d.counted = c.counted
      BY <1>1, <1>2, <2>3 DEF Changed
    <3> QED
      BY <2>1, <3>1, CountedOnce
  <2> QED
    BY <2>2, <2>3
<1>9. \A k \in d.counted : k \in DOMAIN truth /\ truth[k].kind = "assistant"
  <2>1. key \in d.counted /\ key \notin c.counted => m.kind = "assistant"
    BY <1>1 DEF Changed
  <2> QED
    BY <1>6, <2>1 DEF Matched, m
<1>10. PICK f \in Injection(c.unmatched, DOMAIN truth \ DOMAIN c.messages) :
         \A u \in c.unmatched : f[u][1] = u[1] /\ truth[f[u]] = c.messages[u]
  BY DEF Matched
<1>11. /\ f \in [c.unmatched -> DOMAIN truth \ DOMAIN c.messages]
       /\ \A u, v \in c.unmatched : f[u] = f[v] => u = v
  <2>1. f \in [c.unmatched -> DOMAIN truth \ DOMAIN c.messages] /\ IsInjective(f)
    BY DEF Injection
  <2> QED
    BY <2>1 DEF IsInjective
<1>12. ASSUME NEW g \in [d.unmatched -> DOMAIN truth \ DOMAIN d.messages],
              \A u, v \in d.unmatched : g[u] = g[v] => u = v,
              \A u \in d.unmatched : g[u][1] = u[1] /\ truth[g[u]] = c.messages[u]
       PROVE  \E h \in Injection(d.unmatched, DOMAIN truth \ DOMAIN d.messages) :
                \A u \in d.unmatched : h[u][1] = u[1] /\ truth[h[u]] = d.messages[u]
  <2>1. g \in Injection(d.unmatched, DOMAIN truth \ DOMAIN d.messages)
    BY <1>12 DEF Injection, IsInjective
  <2>2. \A u \in d.unmatched : d.messages[u] = c.messages[u]
    BY <1>2, <1>6, <1>7 DEF Matched
  <2> QED
    BY <1>12, <2>1, <2>2
<1>13. \E h \in Injection(d.unmatched, DOMAIN truth \ DOMAIN d.messages) :
         \A u \in d.unmatched : h[u][1] = u[1] /\ truth[h[u]] = d.messages[u]
  <2>1. CASE \A v \in c.unmatched : f[v] # key
    <3> DEFINE g == [u \in d.unmatched |-> f[u]]
    <3>1. \A u \in d.unmatched : g[u] = f[u] /\ u \in c.unmatched
      BY <1>7
    <3>2. g \in [d.unmatched -> DOMAIN truth \ DOMAIN d.messages]
      BY <1>6, <1>7, <1>11, <2>1
    <3>3. \A u, t \in d.unmatched : g[u] = g[t] => u = t
      BY <1>11, <3>1
    <3>4. \A u \in d.unmatched : g[u][1] = u[1] /\ truth[g[u]] = c.messages[u]
      BY <1>10, <3>1
    <3> HIDE DEF g
    <3> QED
      BY <1>12, <3>2, <3>3, <3>4
  <2>2. CASE \E v \in c.unmatched : f[v] = key
    <3>1. PICK v \in c.unmatched : f[v] = key
      BY <2>2
    <3>2. /\ key \notin DOMAIN c.messages /\ m = c.messages[v] /\ v[1] = key[1] /\ v # key
          /\ m.kind = "compaction"
      BY <1>2, <1>10, <1>11, <3>1 DEF Matched, m
    <3>3. v \in StandIns(c, key, m)
      BY <1>4, <3>2
    <3>4. PICK w \in StandIns(c, key, m) : gone = {w}
      BY <1>3, <3>2, <3>3
    <3>5. w \in c.unmatched /\ w[1] = key[1] /\ c.messages[w] = m
      BY <1>4
    <3> DEFINE g == [u \in d.unmatched |-> IF u = v THEN f[w] ELSE f[u]]
    <3>6. \A u \in d.unmatched : /\ g[u] = IF u = v THEN f[w] ELSE f[u]
                                 /\ u \in c.unmatched /\ u # w
      BY <1>7, <3>4
    <3>7. \A u \in d.unmatched : g[u] # key
      BY <1>11, <3>1, <3>5, <3>6
    <3>8. g \in [d.unmatched -> DOMAIN truth \ DOMAIN d.messages]
      <4>1. \A u \in d.unmatched : g[u] \in DOMAIN truth \ DOMAIN c.messages
        BY <1>11, <3>5, <3>6
      <4>2. \A u \in d.unmatched : g[u] \in DOMAIN truth \ DOMAIN d.messages
        BY <1>6, <3>7, <4>1
      <4> QED
        BY <4>2
    <3>9. \A u, t \in d.unmatched : g[u] = g[t] => u = t
      BY <1>11, <3>5, <3>6
    <3>10. \A u \in d.unmatched : g[u][1] = u[1] /\ truth[g[u]] = c.messages[u]
      BY <1>10, <3>2, <3>5, <3>6
    <3> HIDE DEF g
    <3> QED
      BY <1>12, <3>8, <3>9, <3>10
  <2> QED
    BY <2>1, <2>2
<1>14. /\ Root \in d.sessions
       /\ DOMAIN d.messages \ d.unmatched \subseteq DOMAIN truth
       /\ d.unmatched \subseteq DOMAIN d.messages \ DOMAIN truth
       /\ \A u \in d.unmatched : d.messages[u].kind = "compaction"
  BY <1>2, <1>5, <1>6, <1>7 DEF Matched
<1>15. Matched(d, truth)
  BY <1>8, <1>9, <1>13, <1>14 DEF Matched
<1>16. Has(d, truth, key)
  BY <1>1, <1>6 DEF Has, Changed, m
<1>17. ASSUME NEW k \in DOMAIN truth, Has(c, truth, k)  PROVE Has(d, truth, k)
  <2>1. k \notin gone
    BY <1>5 DEF Matched
  <2> QED
    BY <1>6, <1>16, <1>17, <2>1 DEF Has
<1> QED
  BY <1>6, <1>15, <1>16, <1>17

(* processMessages: what was read before is still there, and so is what this   *)
(* reading went back to.                                                       *)
LEMMA ProcessedRight ==
  ASSUME NEW T, store \in Seq(T), StoreRight(store, logged), ContextOK(context), Matched(context, Truth(store)),
         NEW s, NEW from \in Nat, NEW d, d = Processed(s, from)
  PROVE  /\ ContextOK(d) /\ Matched(d, Truth(store))
         /\ \A k \in DOMAIN Truth(store) : Has(context, Truth(store), k) => Has(d, Truth(store), k)
         /\ Whole(s, from) => \A k \in DOMAIN Truth(store) : k[1] = s => Has(d, Truth(store), k)
<1> DEFINE n == Len(store)
           truth == Truth(store)
           Is(folded) == IsReading(folded, s, from, n)
<1>0. /\ n \in Nat /\ DOMAIN store = 1..n
      /\ DOMAIN truth = {store[i].key : i \in DOMAIN store}
      /\ \A i \in DOMAIN store : truth[store[i].key] = store[i].m
  <2>1. n \in Nat /\ DOMAIN store = 1..n
    OBVIOUS
  <2>2. /\ DOMAIN Truth(store) = {store[i].key : i \in DOMAIN store}
        /\ \A i \in DOMAIN store : Truth(store)[store[i].key] = store[i].m
    BY TruthIs
  <2> QED
    BY <2>1, <2>2
<1>1. PICK folded : Is(folded) /\ Processed(s, from) = folded[n]
  <2>1. \E folded : Is(folded)
    BY <1>0, ReadExists
  <2>2. Is(CHOOSE folded : Is(folded))
    BY <2>1
  <2>3. Processed(s, from) = (CHOOSE folded : Is(folded))[n]
    BY DEF Processed, IsReading
  <2> HIDE DEF Is
  <2> QED
    BY <2>2, <2>3
<1> HIDE DEF truth
<1> DEFINE Good(i) == /\ ContextOK(folded[i]) /\ Matched(folded[i], truth)
                      /\ \A k \in DOMAIN truth : Has(context, truth, k) => Has(folded[i], truth, k)
                      /\ \A j \in MessagesOf(s) : from <= j /\ j <= i => Has(folded[i], truth, store[j].key)
           Bad == {i \in 0..n : ~Good(i)}
<1>2. Good(0)
  <2>1. folded[0] = context
    BY <1>0, <1>1 DEF IsReading
  <2>2. \A j \in MessagesOf(s) : ~(j <= 0)
    BY <1>0 DEF MessagesOf
  <2> QED
    BY <2>1, <2>2 DEF truth
<1>3. ASSUME NEW i \in 0..n, i # 0, Good(i - 1)  PROVE Good(i)
  <2> DEFINE c == folded[i - 1]
  <2>0. folded[i] = IF i < from \/ i \notin MessagesOf(s) THEN c
                    ELSE ReadBack(c, store[i].key, store[i].m)
    BY <1>1, <1>3 DEF IsReading, ReadBack
  <2>1. /\ ContextOK(c) /\ Matched(c, truth)
        /\ \A k \in DOMAIN truth : Has(context, truth, k) => Has(c, truth, k)
        /\ \A j \in MessagesOf(s) : from <= j /\ j <= i - 1 => Has(c, truth, store[j].key)
    BY <1>3
  <2> HIDE DEF c
  <2>2. CASE i < from \/ i \notin MessagesOf(s)
    <3>1. \A j \in MessagesOf(s) : from <= j /\ j <= i => j <= i - 1
      BY <1>0, <2>2 DEF MessagesOf
    <3> QED
      BY <2>0, <2>1, <2>2, <3>1
  <2>3. CASE ~(i < from \/ i \notin MessagesOf(s))
    <3> DEFINE key == store[i].key
    <3>1. i \in DOMAIN store /\ key \in DOMAIN truth /\ store[i].m = truth[key]
      BY <1>0, <2>3 DEF MessagesOf
    <3>2. folded[i] = ReadBack(c, key, truth[key])
      BY <2>0, <2>3, <3>1
    <3> HIDE DEF key
    <3>3. /\ ContextOK(folded[i]) /\ Matched(folded[i], truth) /\ Has(folded[i], truth, key)
          /\ \A k \in DOMAIN truth : Has(c, truth, k) => Has(folded[i], truth, k)
      BY <2>1, <3>1, <3>2, ReadRight
    <3>4. \A j \in MessagesOf(s) : j <= i /\ j # i => j <= i - 1
      BY <1>0 DEF MessagesOf
    <3>5. ASSUME NEW j \in MessagesOf(s), from <= j, j <= i  PROVE Has(folded[i], truth, store[j].key)
      <4>1. CASE j = i
        BY <3>3, <4>1 DEF key
      <4>2. CASE j # i
        <5>1. Has(c, truth, store[j].key) /\ store[j].key \in DOMAIN truth
          BY <1>0, <2>1, <3>4, <3>5, <4>2 DEF MessagesOf
        <5> QED
          BY <3>3, <5>1
      <4> QED
        BY <4>1, <4>2
    <3> QED
      BY <2>1, <3>3, <3>5
  <2> QED
    BY <2>2, <2>3
<1> HIDE DEF Good
<1>4. ASSUME Bad # {}  PROVE FALSE
  <2>1. PICK i \in Bad : \A k \in Bad : i <= k
    <3>1. Bad \subseteq Nat
      BY <1>0
    <3> HIDE DEF Bad
    <3> QED
      BY <3>1, <1>4, LeastNumber
  <2>2. i \in 0..n /\ i # 0 /\ i - 1 \in 0..n /\ ~(i <= i - 1)
    BY <1>0, <1>2
  <2>3. Good(i - 1)
    BY <2>1, <2>2
  <2> QED
    BY <1>3, <2>1, <2>2, <2>3
<1>5. Good(n)
  BY <1>0, <1>4
<1>6. d = folded[n]
  BY <1>1
<1>7. ASSUME Whole(s, from), NEW k \in DOMAIN truth, k[1] = s  PROVE Has(d, truth, k)
  <2>1. PICK j \in DOMAIN store : k = store[j].key
    BY <1>0
  <2>2. j \in MessagesOf(s) /\ from <= j /\ j <= n
    BY <1>0, <1>7, <2>1 DEF MessagesOf, Whole
  <2> QED
    BY <1>5, <1>6, <2>1, <2>2 DEF Good
<1> QED
  BY <1>5, <1>6, <1>7 DEF Good, truth

-------------------------------------------------------------------------------
(* Following the children as they are found covers every session: the first    *)
(* event of one is its creation, by a session that was there before.           *)
LEMMA AllVisited ==
  ASSUME scene \in Scenes, logged \in 0..Len(scene.events), NEW visited, Root \in visited,
         \A s \in visited : Children(s) \subseteq visited
  PROVE  \A i \in 1..logged : scene.events[i].session \in visited
<1> DEFINE events == scene.events
           Left_out == {i \in 1..logged : events[i].session \notin visited}
<1>1. DOMAIN events = 1..Len(events) /\ Len(events) \in Nat /\ logged \in Nat
  BY Events
<1>2. ASSUME Left_out # {}  PROVE FALSE
  <2>1. PICK i \in Left_out : \A l \in Left_out : i <= l
    <3>1. Left_out \subseteq Nat
      OBVIOUS
    <3> HIDE DEF Left_out
    <3> QED
      BY <3>1, <1>2, LeastNumber
  <2>2. i \in 1..logged /\ i \in DOMAIN events /\ events[i].session \notin visited /\ events[i].session # Root
    BY <1>1
  <2>3. PICK j \in 1..i : /\ events[j].type = "created" /\ events[j].session = events[i].session
                          /\ \/ events[j].parent = Root
                             \/ \E k \in 1..j - 1 : events[k].session = events[j].parent
    BY <2>2, ServerAssumption DEF Orderly
  <2>4. j \in 1..logged
    BY <1>1, <2>2, <2>3
  <2>5. events[j].parent \in visited
    <3>1. CASE events[j].parent = Root
      BY <3>1
    <3>2. CASE \E k \in 1..j - 1 : events[k].session = events[j].parent
      <4>1. PICK k \in 1..j - 1 : events[k].session = events[j].parent
        BY <3>2
      <4>2. k \in 1..logged /\ ~(i <= k)
        BY <1>1, <2>2, <2>3, <2>4, <4>1
      <4>3. k \notin Left_out
        BY <2>1, <4>2
      <4> QED
        BY <4>1, <4>2, <4>3
    <3> QED
      BY <2>3, <3>1, <3>2
  <2>6. events[j].session \in Children(events[j].parent)
    BY <2>3, <2>4 DEF Children
  <2> QED
    BY <2>2, <2>3, <2>5, <2>6
<1> QED
  BY <1>2

(* A recovery that lacks nothing knows what the server has, and nothing else.  *)
LEMMA CoveringKnows ==
  ASSUME RecoveryInv, ContextOK(context), NEW T, store \in Seq(T), Idle(recovery),
         Matched(context, Truth(store)), Covering(context, recovery)
  PROVE  context.messages = Truth(store) /\ \A k \in DOMAIN Truth(store) : Has(context, Truth(store), k)
<1> DEFINE truth == Truth(store)
<1>1. /\ DOMAIN truth = {store[i].key : i \in DOMAIN store}
      /\ truth = [k \in DOMAIN truth |-> truth[k]]
      /\ StoreRight(store, logged) /\ scene \in Scenes /\ logged \in 0..Len(scene.events)
  BY TruthIs DEF RecoveryInv
<1>2. \A i \in 1..logged : scene.events[i].session \in recovery.visited
  BY <1>1, AllVisited DEF Covering, Idle
<1>3. ASSUME NEW k \in DOMAIN truth  PROVE Has(context, truth, k)
  <2>1. PICK j \in DOMAIN store : store[j].key = k
    BY <1>1
  <2>2. PICK i \in MessageEvents : i <= logged /\ KeyOf(scene.events[i]) = k
    BY <1>1, <2>1 DEF StoreRight, Heard
  <2>3. i \in 1..logged
    <3>1. i \in DOMAIN scene.events /\ DOMAIN scene.events = 1..Len(scene.events) /\ Len(scene.events) \in Nat
      BY <1>1, Events DEF MessageEvents
    <3> QED
      BY <1>1, <2>2, <3>1
  <2>4. k[1] \in recovery.visited
    BY <1>2, <2>2, <2>3 DEF KeyOf
  <2> QED
    BY <2>4 DEF Covering, Idle
<1> HIDE DEF truth
<1>4. DOMAIN truth \subseteq DOMAIN context.messages /\ \A k \in DOMAIN truth : context.messages[k] = truth[k]
  BY <1>3 DEF Has
<1>5. context.unmatched = {}
  <2>1. PICK f : f \in [context.unmatched -> DOMAIN truth \ DOMAIN context.messages]
    BY DEF Matched, Injection, truth
  <2> QED
    BY <1>4, <2>1
<1>6. DOMAIN context.messages = DOMAIN truth
  BY <1>4, <1>5 DEF Matched, truth
<1>7. context.messages = truth
  BY <1>1, <1>4, <1>6 DEF ContextOK
<1> QED
  BY <1>3, <1>7 DEF truth

(* Its turns are the steps of the root that are over, or were at some time.    *)
LEMMA TurnsBounded ==
  ASSUME NEW c, NEW truth, Matched(c, truth), IsFiniteSet(DOMAIN truth),
         \A k \in DOMAIN truth : Has(c, truth, k)
  PROVE  LET steps == {k \in DOMAIN truth : k[1] = Root /\ truth[k].kind = "assistant"}
         IN  /\ Cardinality({k \in steps : Completed(truth[k])}) <= c.turns
             /\ c.turns <= Cardinality(steps)
<1> DEFINE steps == {k \in DOMAIN truth : k[1] = Root /\ truth[k].kind = "assistant"}
           over == {k \in steps : Completed(truth[k])}
           turns == {k \in c.counted : k[1] = Root}
<1>1. over \subseteq turns /\ turns \subseteq steps /\ c.turns = Cardinality(turns) /\ steps \subseteq DOMAIN truth
  BY DEF Has, Matched, Counts
<1> HIDE DEF steps, over, turns
<1>2. IsFiniteSet(steps)
  BY <1>1, FS_Subset
<1>3. IsFiniteSet(turns) /\ Cardinality(turns) <= Cardinality(steps)
  BY <1>1, <1>2, FS_Subset
<1>4. Cardinality(over) <= Cardinality(turns)
  BY <1>1, <1>3, FS_Subset
<1> QED
  BY <1>1, <1>3, <1>4 DEF steps, over

(* What is known at the end of a complete recovery is what the server has.   *)
LEMMA RecoveryExact ==
  ASSUME RecoveryInv, NormalizerInv
  PROVE  RecoveredUsageIsExact
<1> SUFFICES ASSUME phase = "done", ~context.incomplete, ~recovery.cut, recovery.since = logged
             PROVE  LET truth == Truth(store)
                        steps == {k \in DOMAIN truth : k[1] = Root /\ truth[k].kind = "assistant"}
                    IN  /\ \A b \in Buckets :
                             IF b \in DOMAIN context.reported THEN context.reported[b] = Report(truth, b, FALSE)
                             ELSE InBucket(truth, b) = {}
                        /\ Cardinality({k \in steps : Completed(truth[k])}) <= context.turns
                        /\ context.turns <= Cardinality(steps)
  BY DEF RecoveredUsageIsExact
<1>1. /\ StoreRight(store, logged) /\ RecoveryOK(recovery) /\ context.incomplete = recovery.incomplete
      /\ Idle(recovery) /\ Matched(context, Truth(store))
  BY DEF RecoveryInv, RecoveryRight
<1>2. Faithful(context) /\ ContextOK(context) /\ \E T : store \in Seq(T)
  BY DEF NormalizerInv, Faithful, Listed
<1>3. context.messages = Truth(store) /\ \A k \in DOMAIN Truth(store) : Has(context, Truth(store), k)
  <2>1. Covering(context, recovery)
    BY <1>1 DEF RecoveryInv, RecoveryRight
  <2> QED
    BY <1>1, <1>2, <2>1, CoveringKnows
<1>4. IsFiniteSet(DOMAIN Truth(store))
  BY <1>1, <1>2, TruthIs
<1>5. context.incomplete = FALSE
  BY <1>1 DEF RecoveryOK
<1>6. \A b \in Buckets :
        IF b \in DOMAIN context.reported THEN context.reported[b] = Report(Truth(store), b, FALSE)
        ELSE InBucket(Truth(store), b) = {}
  BY <1>2, <1>3, <1>5 DEF Faithful, Follows
<1> QED
  BY <1>1, <1>3, <1>4, <1>6, TurnsBounded

-------------------------------------------------------------------------------
(* A step of the recovery leaves the server alone. *)
LEMMA RecoverySteps ==
  ASSUME RecoveryInv, UNCHANGED serverVars, RecoveryRight(context', recovery', phase'), phase' # "streaming"
  PROVE  RecoveryInv'
<1>1. scene' = scene /\ logged' = logged /\ store' = store
  BY DEF serverVars
<1>2. (StoreRight(store, logged))'
  BY <1>1 DEF RecoveryInv, StoreRight, Heard, MessageEvents, Ending, EndOf, Shaped
<1>3. (RecoveryRight(context, recovery, phase))'
  <2>1. \A s : (Children(s))' = Children(s)
    BY <1>1 DEF Children
  <2>2. (Covering(context, recovery))' <=> Covering(context', recovery')
    BY <1>1, <2>1 DEF Covering
  <2> QED
    BY <1>1, <2>2 DEF RecoveryRight
<1> QED
  BY <1>1, <1>2, <1>3 DEF RecoveryInv

(* What the recovery depends on of the context. *)
LEMMA KnownSame ==
  ASSUME NEW c, NEW d, d.messages = c.messages, d.unmatched = c.unmatched, d.counted = c.counted,
         d.turns = c.turns, NEW truth
  PROVE  /\ Matched(c, truth) /\ Root \in d.sessions => Matched(d, truth)
         /\ \A k : Has(c, truth, k) => Has(d, truth, k)
<1>1. Matched(c, truth) /\ Root \in d.sessions => Matched(d, truth)
  BY DEF Matched, Counts
<1>2. \A k : Has(c, truth, k) => Has(d, truth, k)
  BY DEF Has
<1> QED
  BY <1>1, <1>2

(* The server's next event. *)
LEMMA HappensRight ==
  ASSUME RecoveryInv, NormalizerInv, Happens,
         phase = "streaming" => context' \in {context, Event(context, logged + 1)},
         phase # "streaming" => context' = context
  PROVE  RecoveryInv'
<1> DEFINE n == logged
<1>1. /\ scene \in Scenes /\ n \in Nat /\ n < Len(scene.events) /\ n + 1 \in 0..Len(scene.events)
      /\ scene' = scene /\ logged' = n + 1 /\ store' = Stored(store, scene.events[n + 1])
      /\ phase' = phase /\ recovery' = recovery
  <2>1. scene \in Scenes /\ logged \in 0..Len(scene.events) /\ logged < Len(scene.events)
    BY DEF RecoveryInv, Happens
  <2>2. Len(scene.events) \in Nat
    BY <2>1, Events
  <2> QED
    BY <2>1, <2>2 DEF Happens
<1>2. StoreRight(store, n) /\ ContextOK(context) /\ \E T : store \in Seq(T)
  BY DEF RecoveryInv, NormalizerInv, Faithful, Listed
<1>3. StoreRight(store', n + 1)
  BY <1>1, <1>2, StoredRight
<1>4. (StoreRight(store, logged))'
  BY <1>1, <1>3 DEF StoreRight, Heard, MessageEvents, Ending, EndOf, Shaped
<1>5. ASSUME phase = "streaming"  PROVE StreamRight(context', n + 1)
  <2>1. StreamRight(context, n)
    BY <1>5 DEF RecoveryInv
  <2>2. StreamRight(context, n + 1)
    BY <1>1, <2>1, StreamLater
  <2>3. StreamRight(Event(context, n + 1), n + 1)
    BY <1>1, <1>2, <2>1, EventRight
  <2> QED
    BY <1>5, <2>2, <2>3
<1>6. phase' = "streaming" => (StreamRight(context, logged))'
  BY <1>1, <1>5 DEF StreamRight, Heard, MessageEvents, Ending, EndOf, Shaped, NameOf, Counts
<1>7. RecoveryRight(context, recovery, phase)
  BY DEF RecoveryInv
<1>8. recovery.since \in Nat /\ recovery.since <= n + 1 /\ recovery.since # n + 1
  BY <1>1, <1>7 DEF RecoveryRight, RecoveryOK
<1>9. phase # "streaming" => context' = context
  OBVIOUS
<1>10. (RecoveryRight(context, recovery, phase))'
  BY <1>1, <1>7, <1>8, <1>9 DEF RecoveryRight, Idle, RecoveryOK
<1> QED
  BY <1>1, <1>4, <1>6, <1>10 DEF RecoveryInv

(* normalizeOpenCodeEvent, of an event that was seen. *)
LEMMA SeenRight ==
  ASSUME RecoveryInv, NormalizerInv, Redelivered
  PROVE  RecoveryInv'
<1>1. /\ phase = "streaming" /\ scene' = scene /\ logged' = logged /\ store' = store
      /\ phase' = phase /\ recovery' = recovery
  BY DEF Redelivered, serverVars
<1>2. StreamRight(context', logged)
  BY RedeliveredRight DEF Redelivered, RecoveryInv, NormalizerInv, Faithful
<1>3. (StreamRight(context, logged))'
  BY <1>1, <1>2 DEF StreamRight, Heard, MessageEvents, Ending, EndOf, Shaped, NameOf, Counts
<1>4. (StoreRight(store, logged))'
  BY <1>1 DEF RecoveryInv, StoreRight, Heard, MessageEvents, Ending, EndOf, Shaped
<1>5. (RecoveryRight(context, recovery, phase))'
  BY <1>1 DEF RecoveryInv, RecoveryRight, Idle, RecoveryOK
<1> QED
  BY <1>1, <1>3, <1>4, <1>5 DEF RecoveryInv

(* Nothing changes for the recovery. *)
LEMMA StillRight ==
  ASSUME RecoveryInv, UNCHANGED <<serverVars, context, phase, recovery>>
  PROVE  RecoveryInv'
<1>1. /\ scene' = scene /\ logged' = logged /\ store' = store /\ context' = context
      /\ phase' = phase /\ recovery' = recovery
  BY DEF serverVars
<1>2. (StreamRight(context, logged))' <=> StreamRight(context, logged)
  BY <1>1 DEF StreamRight, Heard, MessageEvents, Ending, EndOf, Shaped, NameOf, Counts
<1>3. (StoreRight(store, logged))'
  BY <1>1 DEF RecoveryInv, StoreRight, Heard, MessageEvents, Ending, EndOf, Shaped
<1>4. (RecoveryRight(context, recovery, phase))'
  <2>1. \A s : (Children(s))' = Children(s)
    BY <1>1 DEF Children
  <2>2. (Covering(context, recovery))' <=> Covering(context, recovery)
    BY <1>1, <2>1 DEF Covering
  <2> QED
    BY <1>1, <2>2 DEF RecoveryInv, RecoveryRight
<1> QED
  BY <1>1, <1>2, <1>3, <1>4 DEF RecoveryInv

(* The stream is lost: what it left behind is matched by the server's messages. *)
LEMMA LossRight ==
  ASSUME RecoveryInv, NormalizerInv, StreamFails
  PROVE  RecoveryInv'
<1>1. RecoveryRight(context, recovery, "streaming") /\ StreamRight(context, logged) /\ StoreRight(store, logged)
  BY DEF RecoveryInv, StreamFails
<1>2. scene \in Scenes /\ logged \in Nat
  <2>1. scene \in Scenes /\ logged \in 0..Len(scene.events)
    BY DEF RecoveryInv
  <2> QED
    BY <2>1
<1>3. Matched(context, Truth(store))
  BY <1>1, <1>2, LostRight DEF NormalizerInv, Listed
<1>4. context' = context /\ phase' = "root" /\ UNCHANGED serverVars
  BY DEF StreamFails
<1>5. /\ DOMAIN recovery' = DOMAIN recovery /\ recovery'.since = logged /\ recovery'.incomplete = recovery.incomplete
      /\ recovery'.visited = recovery.visited /\ recovery'.fetching = recovery.fetching
      /\ recovery'.listing = recovery.listing
  BY <1>1 DEF StreamFails, RecoveryRight, RecoveryOK
<1>6. RecoveryRight(context', recovery', phase')
  BY <1>1, <1>2, <1>3, <1>4, <1>5 DEF RecoveryRight, RecoveryOK, Idle
<1> QED
  BY <1>4, <1>6, RecoverySteps

(* The deadline of the recovery. *)
LEMMA DeadlineRight ==
  ASSUME RecoveryInv, DeadlinePasses
  PROVE  RecoveryInv'
<1>1. RecoveryRight(context, recovery, phase) /\ phase \in {"root", "children"}
  BY DEF RecoveryInv, DeadlinePasses
<1>2. context' = context /\ phase' = phase /\ UNCHANGED serverVars
  BY DEF DeadlinePasses
<1>3. /\ DOMAIN recovery' = DOMAIN recovery
      /\ \A f \in DOMAIN recovery \ {"expired"} : recovery'[f] = recovery[f]
  BY DEF DeadlinePasses
<1>4. /\ recovery'.since = recovery.since /\ recovery'.incomplete = recovery.incomplete
      /\ recovery'.visited = recovery.visited /\ recovery'.fetching = recovery.fetching
      /\ recovery'.listing = recovery.listing /\ recovery'.cut = recovery.cut
  BY <1>1, <1>3 DEF RecoveryRight, RecoveryOK
<1>5. RecoveryRight(context', recovery', phase')
  BY <1>1, <1>2, <1>3, <1>4 DEF RecoveryRight, RecoveryOK, Idle, Covering
<1> QED
  BY <1>1, <1>2, <1>5, RecoverySteps

(* fetchMessages of one session, whatever becomes of the request. *)
LEMMA FetchRight ==
  ASSUME RecoveryInv, NormalizerInv, phase # "streaming",
         NEW s, NEW from \in Reaches(s), NEW ending \in Endings(s, from),
         NEW c, c = Processed(s, from), NEW r, r = Fetched(s, from, ending)
  PROVE  /\ ContextOK(c) /\ RecoveryOK(r) /\ r.since = recovery.since
         /\ r.visited = recovery.visited /\ r.listing = recovery.listing /\ r.expired = recovery.expired
         /\ r.fetching = recovery.fetching \ {s}
         /\ recovery.incomplete => r.incomplete
         /\ recovery.cut => r.cut
         /\ r.since = logged =>
              /\ Matched(c, Truth(store))
              /\ \A k \in DOMAIN Truth(store) : Has(context, Truth(store), k) => Has(c, Truth(store), k)
              /\ ~r.incomplete /\ ~r.cut => \A k \in DOMAIN Truth(store) : k[1] = s => Has(c, Truth(store), k)
<1>1. /\ RecoveryOK(recovery) /\ StoreRight(store, logged)
      /\ recovery.since = logged => Matched(context, Truth(store))
  BY DEF RecoveryInv, RecoveryRight
<1>2. /\ RecoveryOK(r) /\ r.since = recovery.since /\ r.visited = recovery.visited
      /\ r.listing = recovery.listing /\ r.expired = recovery.expired /\ r.fetching = recovery.fetching \ {s}
      /\ r.incomplete = (recovery.incomplete \/ ending = "failed" \/ (ending = "read" /\ ~Whole(s, from)))
      /\ r.cut = (recovery.cut \/ ending = "cut")
  BY <1>1 DEF Fetched, RecoveryOK
<1>3. ending \in {"read", "failed", "cut"}
  BY DEF Endings
<1>4. PICK T : store \in Seq(T)
  BY DEF NormalizerInv, Listed
<1>5. from \in Nat
  <2>1. DOMAIN store \subseteq Nat /\ Len(store) + 1 \in Nat
    BY <1>4
  <2> QED
    BY <2>1 DEF Reaches, MessagesOf
<1>6. ContextOK(context) /\ Faithful(c)
  BY <1>4, ProcessedFollows DEF NormalizerInv, Faithful
<1>7. ASSUME recovery.since = logged
      PROVE  /\ Matched(c, Truth(store))
             /\ \A k \in DOMAIN Truth(store) : Has(context, Truth(store), k) => Has(c, Truth(store), k)
             /\ Whole(s, from) => \A k \in DOMAIN Truth(store) : k[1] = s => Has(c, Truth(store), k)
  BY <1>1, <1>4, <1>5, <1>6, <1>7, ProcessedRight
<1> QED
  BY <1>2, <1>3, <1>6, <1>7 DEF Faithful

(* The root's messages are read, and its sessions visited. *)
LEMMA RootRight ==
  ASSUME RecoveryInv, NormalizerInv, RootRead
  PROVE  RecoveryInv'
<1>1. /\ RecoveryRight(context, recovery, "root") /\ phase' = "children" /\ UNCHANGED serverVars /\ phase # "streaming"
  BY DEF RecoveryInv, RootRead
<1>0. PICK from \in Reaches(Root) : \E ending \in Endings(Root, from) :
        LET c == Processed(Root, from)
            r == Fetched(Root, from, ending)
        IN  context' = Announces(c, r, c.sessions) /\ recovery' = Visits(r, c.sessions)
  BY DEF RootRead
<1>2. PICK ending \in Endings(Root, from) :
        LET c == Processed(Root, from)
            r == Fetched(Root, from, ending)
        IN  context' = Announces(c, r, c.sessions) /\ recovery' = Visits(r, c.sessions)
  BY <1>0
<1> DEFINE c == Processed(Root, from)
           r == Fetched(Root, from, ending)
           truth == Truth(store)
<1>3. /\ ContextOK(c) /\ RecoveryOK(r) /\ r.since = recovery.since
      /\ r.visited = {} /\ r.listing = {} /\ r.fetching = {}
      /\ r.since = logged =>
              /\ Matched(c, truth)
              /\ ~r.incomplete /\ ~r.cut => \A k \in DOMAIN truth : k[1] = Root => Has(c, truth, k)
  <2>1. recovery.visited = {} /\ recovery.listing = {} /\ recovery.fetching \ {Root} = {}
    BY <1>1 DEF RecoveryRight, Idle
  <2> QED
    BY <1>1, <2>1, FetchRight
<1>4. context' = Announces(c, r, c.sessions) /\ recovery' = Visits(r, c.sessions)
  BY <1>2
<1> HIDE DEF c, r, truth
<1>5. /\ context'.messages = c.messages /\ context'.unmatched = c.unmatched /\ context'.counted = c.counted
      /\ context'.turns = c.turns /\ context'.sessions = c.sessions
  BY <1>3, <1>4 DEF Announces, ContextOK
<1>6. /\ RecoveryOK(recovery') /\ recovery'.since = r.since /\ recovery'.cut = r.cut
      /\ recovery'.visited = New(r, c.sessions) /\ recovery'.listing = New(r, c.sessions)
      /\ recovery'.fetching = New(r, c.sessions) \ {Root}
      /\ recovery'.incomplete = (r.incomplete \/ (r.expired /\ ~(c.sessions \subseteq {})))
  BY <1>3, <1>4 DEF Visits, RecoveryOK
<1>7. r.since = logged => Matched(context', truth)
  <2>1. Matched(c, truth) => Root \in context'.sessions
    BY <1>5 DEF Matched
  <2>2. Matched(c, truth) /\ Root \in context'.sessions => Matched(context', truth)
    BY <1>5, KnownSame
  <2> QED
    BY <1>3, <2>1, <2>2
<1>8. ASSUME r.since = logged, ~recovery'.incomplete, ~recovery'.cut  PROVE Covering(context', recovery')
  <2>1. Root \in c.sessions
    BY <1>3, <1>8 DEF Matched
  <2>2. ~r.expired
    BY <1>6, <1>8, <2>1
  <2>3. recovery'.visited = c.sessions /\ recovery'.listing = c.sessions /\ recovery'.fetching = c.sessions \ {Root}
    BY <1>3, <1>6, <2>2 DEF New
  <2>4. \A k \in DOMAIN truth : k[1] = Root => Has(context', truth, k)
    BY <1>3, <1>5, <1>6, <1>8, KnownSame
  <2> QED
    BY <2>1, <2>3, <2>4 DEF Covering, truth
<1>9. RecoveryRight(context', recovery', phase')
  BY <1>1, <1>3, <1>6, <1>7, <1>8 DEF RecoveryRight, truth
<1> QED
  BY <1>1, <1>9, RecoverySteps

(* The messages of a session are read. *)
LEMMA SessionRight ==
  ASSUME RecoveryInv, NormalizerInv, NEW s, MessagesRead(s)
  PROVE  RecoveryInv'
<1>1. /\ RecoveryRight(context, recovery, phase) /\ phase = "children" /\ phase' = phase /\ UNCHANGED serverVars
  BY DEF RecoveryInv, RecoveryRight, MessagesRead, Idle
<1>0. PICK from \in Reaches(s) : \E ending \in Endings(s, from) :
        context' = Processed(s, from) /\ recovery' = Fetched(s, from, ending)
  BY DEF MessagesRead
<1>2. PICK ending \in Endings(s, from) :
        context' = Processed(s, from) /\ recovery' = Fetched(s, from, ending)
  BY <1>0
<1>3. /\ RecoveryOK(recovery') /\ recovery'.since = recovery.since
      /\ recovery'.visited = recovery.visited /\ recovery'.listing = recovery.listing
      /\ recovery'.fetching = recovery.fetching \ {s}
      /\ recovery.incomplete => recovery'.incomplete
      /\ recovery.cut => recovery'.cut
      /\ recovery'.since = logged =>
           /\ Matched(context', Truth(store))
           /\ \A k \in DOMAIN Truth(store) : Has(context, Truth(store), k) => Has(context', Truth(store), k)
           /\ ~recovery'.incomplete /\ ~recovery'.cut =>
                \A k \in DOMAIN Truth(store) : k[1] = s => Has(context', Truth(store), k)
  BY <1>1, <1>2, FetchRight
<1>4. ASSUME recovery'.since = logged, ~recovery'.incomplete, ~recovery'.cut  PROVE Covering(context', recovery')
  <2>1. Covering(context, recovery)
    BY <1>1, <1>3, <1>4 DEF RecoveryRight
  <2> QED
    BY <1>3, <1>4, <2>1 DEF Covering
<1>5. RecoveryRight(context', recovery', phase')
  BY <1>1, <1>3, <1>4 DEF RecoveryRight
<1> QED
  BY <1>1, <1>5, RecoverySteps

(* A list of children, or a page of it. *)
LEMMA DiscoversRight ==
  ASSUME RecoveryInv, NormalizerInv, NEW s, s \in recovery.listing, NEW r, NEW found, Discovers(r, s, found),
         RecoveryOK(r), r.since = recovery.since, r.visited = recovery.visited, r.fetching = recovery.fetching,
         r.incomplete = recovery.incomplete, recovery.cut => r.cut,
         r.listing = recovery.listing \/ (r.listing = recovery.listing \ {s} /\ (found = Children(s) \/ r.cut))
  PROVE  RecoveryInv'
<1>1. /\ RecoveryRight(context, recovery, phase) /\ phase = "children" /\ phase' = phase /\ UNCHANGED serverVars
  BY DEF RecoveryInv, RecoveryRight, Idle, Discovers
<1> DEFINE truth == Truth(store)
<1>2. /\ context'.messages = context.messages /\ context'.unmatched = context.unmatched
      /\ context'.counted = context.counted /\ context'.turns = context.turns
      /\ context'.sessions = context.sessions \cup found
  BY DEF Discovers, Announces, NormalizerInv, Faithful, ContextOK
<1>3. recovery' = Visits(r, found)
  BY DEF Discovers
<1>4. /\ RecoveryOK(recovery') /\ recovery'.since = r.since /\ recovery'.cut = r.cut
      /\ recovery'.visited = r.visited \cup New(r, found) /\ recovery'.listing = r.listing \cup New(r, found)
      /\ recovery'.fetching = r.fetching \cup (New(r, found) \ {Root})
      /\ recovery'.incomplete = (r.incomplete \/ (r.expired /\ ~(found \subseteq r.visited)))
  BY <1>3 DEF Visits, RecoveryOK
<1> HIDE DEF truth
<1>5. /\ Matched(context, truth) => Matched(context', truth)
      /\ \A k : Has(context, truth, k) => Has(context', truth, k)
  <2>1. Matched(context, truth) => Root \in context'.sessions
    BY <1>2 DEF Matched
  <2> QED
    BY <1>2, <2>1, KnownSame
<1>6. ASSUME r.since = logged, ~recovery'.incomplete, ~recovery'.cut  PROVE Covering(context', recovery')
  <2>1. Covering(context, recovery)
    BY <1>1, <1>4, <1>6 DEF RecoveryRight
  <2>2. found \subseteq recovery'.visited /\ New(r, found) \subseteq recovery'.listing
    BY <1>4, <1>6 DEF New
  <2>3. \A t \in recovery'.visited : t \in recovery'.listing \/ Children(t) \subseteq recovery'.visited
    BY <1>4, <1>6, <2>1, <2>2 DEF Covering
  <2>4. \A k \in DOMAIN truth : k[1] \in recovery'.visited \ recovery'.fetching => Has(context', truth, k)
    BY <1>4, <1>5, <2>1 DEF Covering, truth
  <2> QED
    BY <1>4, <2>1, <2>3, <2>4 DEF Covering, truth
<1>7. RecoveryRight(context', recovery', phase')
  BY <1>1, <1>4, <1>5, <1>6 DEF RecoveryRight, truth
<1> QED
  BY <1>1, <1>7, RecoverySteps

(* A session's children are listed. *)
LEMMA ListRight ==
  ASSUME RecoveryInv, NormalizerInv, NEW s, ChildrenRead(s)
  PROVE  RecoveryInv'
<1> DEFINE r == [recovery EXCEPT !.listing = @ \ {s}]
<1>1. s \in recovery.listing /\ Discovers(r, s, Children(s))
  BY DEF ChildrenRead
<1>2. /\ RecoveryOK(r) /\ r.since = recovery.since /\ r.visited = recovery.visited /\ r.fetching = recovery.fetching
      /\ r.incomplete = recovery.incomplete /\ r.cut = recovery.cut /\ r.listing = recovery.listing \ {s}
  BY DEF RecoveryInv, RecoveryRight, RecoveryOK
<1> HIDE DEF r
<1> QED
  BY <1>1, <1>2, DiscoversRight

(* A page of a session's children, and not the last. *)
LEMMA PageRight ==
  ASSUME RecoveryInv, NormalizerInv, NEW s, PageRead(s)
  PROVE  RecoveryInv'
<1> DEFINE r == IF recovery.expired THEN [recovery EXCEPT !.listing = @ \ {s}, !.cut = TRUE] ELSE recovery
<1>1. s \in recovery.listing
  BY DEF PageRead
<1>2. PICK found \in SUBSET Children(s) : Discovers(r, s, found)
  BY DEF PageRead
<1>3. RecoveryOK(recovery)
  BY DEF RecoveryInv, RecoveryRight
<1>4. /\ RecoveryOK(r) /\ r.since = recovery.since /\ r.visited = recovery.visited /\ r.fetching = recovery.fetching
      /\ r.incomplete = recovery.incomplete
      /\ recovery.cut => r.cut
      /\ r.listing = recovery.listing \/ (r.listing = recovery.listing \ {s} /\ r.cut)
  BY <1>3 DEF RecoveryOK
<1> HIDE DEF r
<1> QED
  BY <1>1, <1>2, <1>4, DiscoversRight

(* A listing that fails leaves the recovery incomplete. *)
LEMMA UnlistedRight ==
  ASSUME RecoveryInv, NEW s, ListingFails(s)
  PROVE  RecoveryInv'
<1>1. /\ RecoveryRight(context, recovery, phase) /\ phase = "children" /\ phase' = phase /\ UNCHANGED serverVars
      /\ context' = context
  BY DEF RecoveryInv, RecoveryRight, Idle, ListingFails
<1>2. RecoveryOK(recovery') /\ recovery'.since = recovery.since /\ recovery'.incomplete
  BY <1>1 DEF ListingFails, RecoveryRight, RecoveryOK
<1>3. RecoveryRight(context', recovery', phase')
  BY <1>1, <1>2 DEF RecoveryRight
<1> QED
  BY <1>1, <1>3, RecoverySteps

(* updateRecoveryCoverage *)
LEMMA EndRight ==
  ASSUME RecoveryInv, NormalizerInv, RecoveryEnds
  PROVE  RecoveryInv'
<1>1. /\ RecoveryRight(context, recovery, phase) /\ phase = "children" /\ phase' = "done" /\ UNCHANGED serverVars
      /\ recovery' = recovery /\ Idle(recovery) /\ context' = Covered(context, recovery.incomplete)
  BY DEF RecoveryInv, RecoveryEnds, Idle
<1> DEFINE truth == Truth(store)
<1>2. /\ context'.messages = context.messages /\ context'.unmatched = context.unmatched
      /\ context'.counted = context.counted /\ context'.turns = context.turns
      /\ context'.sessions = context.sessions /\ context'.incomplete = recovery.incomplete
  BY <1>1 DEF Covered, Refreshed, NormalizerInv, Faithful, ContextOK
<1>3. /\ Matched(context, truth) => Matched(context', truth)
      /\ \A k : Has(context, truth, k) => Has(context', truth, k)
  <2>1. Matched(context, truth) => Root \in context'.sessions
    BY <1>2 DEF Matched
  <2> QED
    BY <1>2, <2>1, KnownSame
<1>4. Covering(context, recovery) => Covering(context', recovery)
  BY <1>3 DEF Covering
<1> HIDE DEF truth
<1>5. RecoveryRight(context', recovery', phase')
  BY <1>1, <1>2, <1>3, <1>4 DEF RecoveryRight, truth
<1> QED
  BY <1>1, <1>5, RecoverySteps

(* Every step keeps what the recovery relies on. *)
LEMMA RecoveryKept ==
  ASSUME RecoveryInv, NormalizerInv, [NormalizerNext]_normalizerVars
  PROVE  RecoveryInv'
<1>1. CASE UNCHANGED normalizerVars
  BY <1>1, StillRight DEF normalizerVars
<1>2. CASE EventDelivered
  <2>1. Happens /\ phase = "streaming" /\ context' = Event(context, logged + 1)
    BY <1>2 DEF EventDelivered
  <2> QED
    BY <2>1, HappensRight
<1>3. CASE Missed
  <2>1. Happens /\ context' = context
    BY <1>3 DEF Missed
  <2> QED
    BY <2>1, HappensRight
<1>4. CASE Redelivered
  BY <1>4, SeenRight
<1>5. CASE ToolSteps
  BY <1>5, StillRight DEF ToolSteps
<1>6. CASE StreamFails
  BY <1>6, LossRight
<1>7. CASE DeadlinePasses
  BY <1>7, DeadlineRight
<1>8. CASE RootRead
  BY <1>8, RootRight
<1>9. CASE RecoveryEnds
  BY <1>9, EndRight
<1>10. CASE RecoveryOver
  BY <1>10, StillRight DEF RecoveryOver, normalizerVars
<1>11. ASSUME NEW s \in Sessions, MessagesRead(s)  PROVE RecoveryInv'
  BY <1>11, SessionRight
<1>12. ASSUME NEW s \in Sessions, ChildrenRead(s)  PROVE RecoveryInv'
  BY <1>12, ListRight
<1>13. ASSUME NEW s \in Sessions, PageRead(s)  PROVE RecoveryInv'
  BY <1>13, PageRight
<1>14. ASSUME NEW s \in Sessions, ListingFails(s)  PROVE RecoveryInv'
  BY <1>14, UnlistedRight
<1> QED
  BY <1>1, <1>2, <1>3, <1>4, <1>5, <1>6, <1>7, <1>8, <1>9, <1>10, <1>11, <1>12, <1>13, <1>14
  DEF NormalizerNext, Recovery

(* The adapter begins with an orderly server of which nothing was heard.     *)
LEMMA RecoveryStarts == NormalizerInit => RecoveryInv
<1> SUFFICES ASSUME NormalizerInit PROVE RecoveryInv
  OBVIOUS
<1>1. /\ scene \in Scenes /\ logged = 0 /\ store = <<>> /\ phase = "streaming"
      /\ context.messages = Nothing /\ context.unmatched = {} /\ context.counted = {} /\ context.turns = 0
      /\ context.sessions = {Root} /\ context.active = [s \in Sessions |-> None]
  BY DEF NormalizerInit
<1>2. logged \in 0..Len(scene.events) /\ \A i \in MessageEvents \cup Ending : i \in Nat /\ ~(i <= 0)
  <2>1. Len(scene.events) \in Nat /\ DOMAIN scene.events = 1..Len(scene.events)
    BY <1>1, Events
  <2> QED
    BY <1>1, <2>1 DEF MessageEvents, Ending
<1>3. StoreRight(store, logged)
  <2>1. DOMAIN store = {}
    BY <1>1
  <2> QED
    BY <1>1, <1>2, <2>1 DEF StoreRight
<1>4. Counts(context)
  <2>1. {k \in {} : k[1] = Root} = {}
    OBVIOUS
  <2> QED
    BY <1>1, <2>1, FS_EmptySet DEF Counts
<1>5. StreamRight(context, logged)
  <2>1. DOMAIN context.messages = {}
    BY <1>1 DEF Nothing
  <2>2. DOMAIN context.active = Sessions /\ \A s \in Sessions : context.active[s] = None
    BY <1>1
  <2> QED
    BY <1>1, <1>4, <2>1, <2>2 DEF StreamRight
<1>6. RecoveryRight(context, recovery, phase)
  <2>1. recovery = [visited |-> {}, fetching |-> {}, listing |-> {}, incomplete |-> FALSE,
                    expired |-> FALSE, since |-> 0, cut |-> FALSE]
    BY DEF NormalizerInit
  <2> QED
    BY <1>1, <2>1 DEF RecoveryRight, RecoveryOK, Idle
<1> QED
  BY <1>1, <1>2, <1>3, <1>5, <1>6 DEF RecoveryInv

(* A recovery that claims to be complete has reported for every model exactly  *)
(* what the messages of its sessions cost, and counted the root's finished     *)
(* steps once, for every orderly server, any number of sessions and messages   *)
(* and every loss, repetition and cut of the stream (reconcileSession).        *)
THEOREM RecoveredCorrect == NormalizerSpec => []RecoveredUsageIsExact
<1>1. NormalizerInit => NormalizerInv /\ RecoveryInv
  BY NormalizerStarts, RecoveryStarts
<1>2. NormalizerInv /\ RecoveryInv /\ [NormalizerNext]_normalizerVars => NormalizerInv' /\ RecoveryInv'
  BY NormalizerStep, RecoveryKept
<1>3. NormalizerInv /\ RecoveryInv => RecoveredUsageIsExact
  BY RecoveryExact
<1> QED
  BY <1>1, <1>2, <1>3, PTL DEF NormalizerSpec
-------------------------------------------------------------------------------
(* The bridge's ordinals count the calls it can see. *)
LEMMA Ordinals ==
  /\ \A i \in Nat : Ordinal(i) \in Nat
  /\ Ordinal(0) = 0
  /\ \A i \in Nat \ {0} : Ordinal(i) = Ordinal(i - 1) + IF Bridged(i) THEN 1 ELSE 0
<1> DEFINE Seen(i) == {j \in 1..i : Bridged(j)}
<1>1. ASSUME NEW i \in Nat  PROVE IsFiniteSet(Seen(i)) /\ Cardinality(Seen(i)) \in Nat
  <2>1. IsFiniteSet(1..i)
    BY FS_Interval
  <2>2. Seen(i) \in SUBSET (1..i)
    OBVIOUS
  <2> HIDE DEF Seen
  <2> QED
    BY <2>1, <2>2, FS_Subset, FS_CardinalityType
<1>2. Seen(0) = {}
  OBVIOUS
<1>3. ASSUME NEW i \in Nat \ {0}
      PROVE  Seen(i) = IF Bridged(i) THEN Seen(i - 1) \cup {i} ELSE Seen(i - 1)
  <2>1. 1..i = (1..i - 1) \cup {i}
    BY <1>3
  <2> HIDE DEF Bridged
  <2> QED
    BY <2>1
<1>4. ASSUME NEW i \in Nat \ {0}
      PROVE  Cardinality(Seen(i)) = Cardinality(Seen(i - 1)) + IF Bridged(i) THEN 1 ELSE 0
  <2>1. i - 1 \in Nat /\ i \notin Seen(i - 1)
    BY <1>4
  <2>2. IsFiniteSet(Seen(i - 1)) /\ Cardinality(Seen(i - 1)) \in Nat
    BY <1>1, <2>1
  <2>3. Cardinality(Seen(i - 1) \cup {i}) = Cardinality(Seen(i - 1)) + 1
    <3> HIDE DEF Seen
    <3> QED
      BY <2>1, <2>2, FS_AddElement
  <2>4. Seen(i) = IF Bridged(i) THEN Seen(i - 1) \cup {i} ELSE Seen(i - 1)
    BY <1>3
  <2> HIDE DEF Seen
  <2> QED
    BY <2>2, <2>3, <2>4
<1> QED
  BY <1>1, <1>2, <1>4, FS_EmptySet DEF Ordinal

LEMMA OrdinalsGrow ==
  ASSUME NEW i \in Nat, NEW j \in Nat, i <= j
  PROVE  Ordinal(i) <= Ordinal(j) /\ (i < j /\ Bridged(j) => Ordinal(i) < Ordinal(j))
<1> DEFINE T == {k \in Nat : i <= k /\ Ordinal(k) < Ordinal(i)}
<1>1. ASSUME T # {}  PROVE FALSE
  <2>1. PICK k \in T : \A l \in T : k <= l
    <3>1. T \subseteq Nat
      OBVIOUS
    <3> HIDE DEF T
    <3> QED
      BY <3>1, <1>1, LeastNumber
  <2>2. k \in Nat \ {0} /\ i <= k - 1 /\ k - 1 \in Nat
    <3>1. k \in Nat /\ i <= k /\ Ordinal(k) < Ordinal(i) /\ Ordinal(i) \in Nat
      BY <2>1, Ordinals
    <3>2. k # i
      BY <3>1
    <3> QED
      BY <3>1, <3>2
  <2>3. k - 1 \notin T
    BY <2>1, <2>2
  <2> QED
    BY <2>1, <2>2, <2>3, Ordinals
<1>2. \A k \in Nat : i <= k => Ordinal(i) <= Ordinal(k)
  BY <1>1, Ordinals
<1>3. ASSUME i < j, Bridged(j)  PROVE Ordinal(i) < Ordinal(j)
  <2>1. j \in Nat \ {0} /\ j - 1 \in Nat /\ i <= j - 1
    BY <1>3
  <2> QED
    BY <1>2, <1>3, <2>1, Ordinals
<1> QED
  BY <1>2, <1>3

LEMMA OrdinalReached ==
  ASSUME NEW n \in Nat, NEW k \in 1..Ordinal(n)
  PROVE  \E i \in 1..n : Bridged(i) /\ Ordinal(i) = k
<1> DEFINE T == {i \in 0..n : Ordinal(i) >= k}
<1>1. n \in T /\ T \subseteq Nat
  BY Ordinals
<1>2. PICK i \in T : \A j \in T : i <= j
  <2> HIDE DEF T
  <2> QED
    BY <1>1, LeastNumber
<1>3. i \in Nat \ {0} /\ i \in 1..n /\ Ordinal(i) >= k
  BY <1>2, Ordinals
<1>4. i - 1 \in Nat /\ Ordinal(i - 1) < k
  BY <1>2, <1>3, Ordinals
<1>5. Bridged(i) /\ Ordinal(i) = k
  BY <1>3, <1>4, Ordinals
<1> QED
  BY <1>3, <1>5

CallsListed == calls \in Seq([what : Whats, ended : BOOLEAN])

(* The k-th call the bridge has seen is one, and the only one. *)
LEMMA BridgedCalls ==
  CallsListed =>
    /\ \A k \in 1..Ordinal(Len(calls)) :
         BridgedCall(k) \in 1..Len(calls) /\ Bridged(BridgedCall(k)) /\ Ordinal(BridgedCall(k)) = k
    /\ \A i \in 1..Len(calls) :
         Bridged(i) => Ordinal(i) \in 1..Ordinal(Len(calls)) /\ BridgedCall(Ordinal(i)) = i
<1> SUFFICES ASSUME CallsListed
             PROVE  /\ \A k \in 1..Ordinal(Len(calls)) : /\ BridgedCall(k) \in 1..Len(calls)
                                                        /\ Bridged(BridgedCall(k)) /\ Ordinal(BridgedCall(k)) = k
                    /\ \A i \in 1..Len(calls) :
                         Bridged(i) => Ordinal(i) \in 1..Ordinal(Len(calls)) /\ BridgedCall(Ordinal(i)) = i
  OBVIOUS
<1>1. Len(calls) \in Nat /\ DOMAIN calls = 1..Len(calls)
  BY DEF CallsListed
<1>2. ASSUME NEW k \in 1..Ordinal(Len(calls))
      PROVE  BridgedCall(k) \in 1..Len(calls) /\ Bridged(BridgedCall(k)) /\ Ordinal(BridgedCall(k)) = k
  <2>1. \E i \in DOMAIN calls : Bridged(i) /\ Ordinal(i) = k
    BY <1>1, OrdinalReached
  <2> QED
    BY <1>1, <2>1 DEF BridgedCall
<1>3. ASSUME NEW i \in 1..Len(calls), Bridged(i)
      PROVE  Ordinal(i) \in 1..Ordinal(Len(calls)) /\ BridgedCall(Ordinal(i)) = i
  <2>1. Ordinal(i) \in 1..Ordinal(Len(calls))
    <3>1. i \in Nat \ {0} /\ i - 1 \in Nat /\ i <= Len(calls)
      BY <1>1
    <3>2. Ordinal(i) = Ordinal(i - 1) + 1 /\ Ordinal(i - 1) \in Nat /\ Ordinal(Len(calls)) \in Nat
      BY <1>1, <1>3, <3>1, Ordinals
    <3>3. Ordinal(i) <= Ordinal(Len(calls))
      BY <1>1, <3>1, OrdinalsGrow
    <3> QED
      BY <3>2, <3>3
  <2> DEFINE j == BridgedCall(Ordinal(i))
  <2>2. j \in 1..Len(calls) /\ Bridged(j) /\ Ordinal(j) = Ordinal(i)
    BY <1>2, <2>1
  <2> HIDE DEF j
  <2>3. i \in Nat /\ j \in Nat
    BY <1>1, <2>2
  <2>4. ~(i < j) /\ ~(j < i)
    <3>1. ASSUME i < j  PROVE FALSE
      <4>1. Ordinal(i) < Ordinal(j)
        BY <2>2, <2>3, <3>1, OrdinalsGrow
      <4> QED
        BY <2>2, <2>3, <4>1, Ordinals
    <3>2. ASSUME j < i  PROVE FALSE
      <4>1. Ordinal(j) < Ordinal(i)
        BY <1>3, <2>3, <3>2, OrdinalsGrow
      <4> QED
        BY <2>2, <2>3, <4>1, Ordinals
    <3> QED
      BY <3>1, <3>2
  <2>5. j = i
    BY <2>3, <2>4
  <2> QED
    BY <2>1, <2>5 DEF j
<1> QED
  BY <1>2, <1>3

LEMMA OrdinalsNext == \A i \in Nat : Ordinal(i)' \in Nat
<1>1. \A i \in Nat : Ordinal(i) \in Nat
  BY Ordinals
<1>2. (\A i \in Nat : Ordinal(i) \in Nat)'
  BY <1>1, PTL
<1> QED
  BY <1>2

LEMMA BridgedCallsNext ==
  CallsListed' =>
    \A i \in 1..Len(calls') :
      Bridged(i)' => Ordinal(i)' \in 1..Ordinal(Len(calls))' /\ BridgedCall(Ordinal(i))' = i
<1>1. CallsListed =>
        \A i \in 1..Len(calls) :
          Bridged(i) => Ordinal(i) \in 1..Ordinal(Len(calls)) /\ BridgedCall(Ordinal(i)) = i
  BY BridgedCalls
<1>2. (CallsListed =>
         \A i \in 1..Len(calls) :
           Bridged(i) => Ordinal(i) \in 1..Ordinal(Len(calls)) /\ BridgedCall(Ordinal(i)) = i)'
  BY <1>1, PTL
<1> QED
  BY <1>2

(* Rows of the first calls, and of the first that the bridge can see. *)
NativeList(list) ==
  \E n \in 0..Len(calls) : DOMAIN list = 1..n /\ \A i \in 1..n : list[i].what = calls[i].what
BridgeList(list) ==
  \E n \in 0..Ordinal(Len(calls)) :
    DOMAIN list = 1..n /\ \A k \in 1..n : list[k].what = calls[BridgedCall(k)].what

(* The row that a native row goes with: that of the same call, if it is there. *)
Expected(bridge, i) == IF Bridged(i) /\ Ordinal(i) \in DOMAIN bridge THEN Ordinal(i) ELSE 0

LEMMA LeastIs ==
  ASSUME NEW S, NEW o \in Nat, o \in S, \A k \in S : k \in Nat /\ o <= k
  PROVE  Least(S) = o
<1> DEFINE l == Least(S)
<1>1. l \in S /\ \A k \in S : l <= k
  BY DEF Least
<1> HIDE DEF l
<1>2. l = o
  BY <1>1
<1> QED
  BY <1>2 DEF l

(* If every earlier row went where it belongs, so does the next: the rows      *)
(* before it are taken and its own is the least of the rest.                  *)
LEMMA PairStep ==
  ASSUME CallsListed, NEW native, NEW bridge, NEW i, NativeList(native), BridgeList(bridge),
         i \in DOMAIN native, NEW matched, matched = {Expected(bridge, j) : j \in 1..i - 1}
  PROVE  LET candidates == Matches(native, bridge, matched, i)
         IN  (IF candidates = {} THEN 0 ELSE Least(candidates)) = Expected(bridge, i)
<1> DEFINE candidates == Matches(native, bridge, matched, i)
           o == Ordinal(i)
<1>1. Len(calls) \in Nat /\ Ordinal(Len(calls)) \in Nat
  BY Ordinals DEF CallsListed
<1>2. PICK n \in 0..Len(calls) : DOMAIN native = 1..n /\ \A j \in 1..n : native[j].what = calls[j].what
  BY DEF NativeList
<1>3. PICK b \in 0..Ordinal(Len(calls)) :
        DOMAIN bridge = 1..b /\ \A k \in 1..b : bridge[k].what = calls[BridgedCall(k)].what
  BY DEF BridgeList
<1>4. i \in 1..Len(calls) /\ i \in Nat /\ o \in Nat /\ native[i].what = calls[i].what
  <2>1. i \in 1..n /\ i \in Nat /\ i \in 1..Len(calls)
    BY <1>1, <1>2
  <2> QED
    BY <1>2, <2>1, Ordinals
<1>5. ASSUME NEW k \in candidates
      PROVE  /\ k \in 1..b /\ k \notin matched /\ Bridged(BridgedCall(k)) /\ Ordinal(BridgedCall(k)) = k
             /\ BridgedCall(k) \in 1..Len(calls)
             /\ calls[BridgedCall(k)].what = calls[i].what
  <2>1. k \in 1..b /\ k \notin matched /\ bridge[k].what = native[i].what
    BY <1>3 DEF Matches
  <2>2. k \in 1..Ordinal(Len(calls))
    BY <1>1, <1>3, <2>1
  <2> QED
    BY <1>3, <1>4, <2>1, <2>2, BridgedCalls
<1>6. CASE ~Bridged(i)
  <2>1. candidates = {}
    BY <1>5, <1>6 DEF Bridged
  <2> QED
    BY <1>6, <2>1 DEF Expected
<1>7. CASE Bridged(i)
  <2>1. o \in 1..Ordinal(Len(calls)) /\ BridgedCall(o) = i
    BY <1>4, <1>7, BridgedCalls
  <2>2. ASSUME NEW k \in candidates  PROVE o <= k
    <3> DEFINE j == BridgedCall(k)
    <3>1. k \in 1..b /\ k \notin matched /\ Bridged(j) /\ Ordinal(j) = k /\ j \in 1..Len(calls)
      BY <1>5
    <3> HIDE DEF j
    <3>2. j \in Nat /\ k \in Nat
      BY <1>1, <1>3, <3>1
    <3>3. ASSUME k < o  PROVE FALSE
      <4>1. ~(i <= j)
        <5>1. ASSUME i <= j  PROVE FALSE
          <6>1. Ordinal(i) <= Ordinal(j)
            BY <1>4, <3>2, <5>1, OrdinalsGrow
          <6> QED
            BY <1>4, <3>1, <3>2, <3>3, <6>1
        <5> QED
          BY <5>1
      <4>2. j \in 1..i - 1
        BY <1>4, <3>1, <3>2, <4>1
      <4>3. Expected(bridge, j) = k
        BY <1>3, <3>1 DEF Expected
      <4> QED
        BY <3>1, <4>2, <4>3
    <3> QED
      BY <1>4, <3>2, <3>3
  <2>3. CASE o \in DOMAIN bridge
    <3>1. ASSUME o \in matched  PROVE FALSE
      <4>1. PICK j \in 1..i - 1 : Expected(bridge, j) = o
        BY <3>1
      <4>2. Bridged(j) /\ Ordinal(j) = o
        BY <1>1, <2>1, <4>1 DEF Expected
      <4>3. j \in Nat /\ j < i
        BY <1>4
      <4>4. Ordinal(j) < Ordinal(i)
        BY <1>4, <1>7, <4>3, OrdinalsGrow
      <4> QED
        BY <1>4, <4>2, <4>4
    <3>2. bridge[o].what = native[i].what
      BY <1>3, <1>4, <2>1, <2>3
    <3>3. o \in candidates
      BY <2>3, <3>1, <3>2 DEF Matches
    <3>4. \A k \in candidates : k \in Nat
      BY <1>1, <1>3, <1>5
    <3> HIDE DEF candidates, o
    <3>5. Least(candidates) = o
      BY <1>4, <2>2, <3>3, <3>4, LeastIs
    <3> QED
      BY <1>7, <2>3, <3>3, <3>5 DEF Expected, candidates, o
  <2>4. CASE o \notin DOMAIN bridge
    <3>1. candidates = {}
      <4>1. ASSUME NEW k \in candidates  PROVE FALSE
        <5>1. k \in 1..b /\ o <= k
          BY <1>5, <2>2
        <5>2. o \in 1..b
          BY <1>1, <1>3, <2>1, <5>1
        <5> QED
          BY <1>3, <2>4, <5>2
      <4> QED
        BY <4>1
    <3> QED
      BY <2>4, <3>1 DEF Expected
  <2> QED
    BY <2>3, <2>4
<1> QED
  BY <1>6, <1>7

(* The pairing, whatever the lists: every native row with the bridge row of    *)
(* its call.                                                                   *)
LEMMA PairedRight ==
  ASSUME CallsListed, NEW native, NEW bridge, NativeList(native), BridgeList(bridge)
  PROVE  Paired(native, bridge) = [i \in DOMAIN native |-> Expected(bridge, i)]
<1> DEFINE Of(matched, i) == LET candidates == Matches(native, bridge, matched, i)
                             IN  IF candidates = {} THEN 0 ELSE Least(candidates)
           Is(pair) == pair = [i \in DOMAIN native |-> Of({pair[j] : j \in 1..i - 1}, i)]
           right == [i \in DOMAIN native |-> Expected(bridge, i)]
<1>1. PICK n \in 0..Len(calls) : DOMAIN native = 1..n
  BY DEF NativeList
<1>2. n \in Nat
  BY DEF CallsListed
<1>3. ASSUME NEW i \in 1..n, NEW pair, \A j \in 1..i - 1 : pair[j] = right[j]
      PROVE  Of({pair[j] : j \in 1..i - 1}, i) = right[i]
  <2>1. \A j \in 1..i - 1 : right[j] = Expected(bridge, j)
    BY <1>1, <1>2
  <2>2. {pair[j] : j \in 1..i - 1} = {Expected(bridge, j) : j \in 1..i - 1}
    BY <1>3, <2>1
  <2>3. Of({Expected(bridge, j) : j \in 1..i - 1}, i) = Expected(bridge, i)
    BY <1>1, PairStep
  <2> HIDE DEF Of
  <2> QED
    BY <1>1, <2>2, <2>3
<1> HIDE DEF Of
<1>4. Is(right)
  <2>1. \A i \in 1..n : Of({right[j] : j \in 1..i - 1}, i) = right[i]
    <3> HIDE DEF right
    <3> QED
      BY <1>3
  <2>2. [i \in 1..n |-> Of({right[j] : j \in 1..i - 1}, i)] = [i \in 1..n |-> right[i]]
    <3> HIDE DEF right
    <3> QED
      BY <2>1
  <2>3. right = [i \in 1..n |-> right[i]]
    BY <1>1
  <2> HIDE DEF right
  <2> QED
    BY <1>1, <2>2, <2>3
<1>5. ASSUME NEW pair, Is(pair)  PROVE pair = right
  <2> DEFINE T == {i \in 1..n : pair[i] # right[i]}
  <2>1. ASSUME T # {}  PROVE FALSE
    <3>1. PICK i \in T : \A j \in T : i <= j
      <4>1. T \subseteq Nat
        BY <1>2
      <4> HIDE DEF T
      <4> QED
        BY <4>1, <2>1, LeastNumber
    <3>2. i \in 1..n /\ \A j \in 1..i - 1 : pair[j] = right[j]
      BY <1>2, <3>1
    <3>3. pair[i] = Of({pair[j] : j \in 1..i - 1}, i)
      BY <1>1, <1>5, <3>2
    <3> HIDE DEF right
    <3> QED
      BY <1>3, <3>1, <3>2, <3>3
  <2>2. DOMAIN pair = 1..n /\ pair = [i \in 1..n |-> pair[i]]
    BY <1>1, <1>5
  <2> QED
    BY <1>1, <2>1, <2>2
<1>6. Paired(native, bridge) = CHOOSE pair : Is(pair)
  BY DEF Paired, Of
<1> HIDE DEF Is, right
<1>7. Paired(native, bridge) = right
  BY <1>4, <1>5, <1>6
<1> QED
  BY <1>7 DEF right

(* Calls are added and end; what they call stays. *)
LEMMA CallsKept ==
  ASSUME CallsListed, CallsListed', Len(calls) <= Len(calls'),
         \A i \in 1..Len(calls) : calls'[i].what = calls[i].what
  PROVE  /\ \A i \in 1..Len(calls) : Bridged(i)' <=> Bridged(i)
         /\ \A i \in 1..Len(calls) : Ordinal(i)' = Ordinal(i)
         /\ Ordinal(Len(calls)) <= Ordinal(Len(calls))' /\ Ordinal(Len(calls))' \in Nat
         /\ \A k \in 1..Ordinal(Len(calls)) : BridgedCall(k)' = BridgedCall(k)
<1>1. /\ Len(calls) \in Nat /\ Len(calls') \in Nat
      /\ Ordinal(Len(calls)) \in Nat /\ Ordinal(Len(calls))' \in Nat
  <2>1. Len(calls) \in Nat /\ Len(calls') \in Nat
    BY DEF CallsListed
  <2>2. \A i \in Nat : Ordinal(i)' \in Nat
    BY OrdinalsNext
  <2>3. Ordinal(Len(calls))' \in Nat
    BY <2>1, <2>2
  <2> QED
    BY <2>1, <2>3, Ordinals
<1>2. \A i \in 1..Len(calls) : Bridged(i)' <=> Bridged(i)
  BY DEF Bridged
<1>3. ASSUME NEW i \in 1..Len(calls)  PROVE Ordinal(i)' = Ordinal(i)
  <2>1. \A j \in 1..i : Bridged(j)' <=> Bridged(j)
    BY <1>1, <1>2
  <2>2. {j \in 1..i : Bridged(j)'} = {j \in 1..i : Bridged(j)}
    BY <2>1
  <2> QED
    BY <2>2 DEF Ordinal
<1>4. ASSUME NEW k \in 1..Ordinal(Len(calls))
      PROVE  BridgedCall(k)' = BridgedCall(k) /\ k \in 1..Ordinal(Len(calls))'
  <2>1. PICK i \in 1..Len(calls) : i = BridgedCall(k) /\ Bridged(i) /\ Ordinal(i) = k
    BY BridgedCalls
  <2>2. i \in 1..Len(calls') /\ Bridged(i)' /\ Ordinal(i)' = k
    BY <1>1, <1>2, <1>3, <2>1
  <2>3. Ordinal(i)' \in 1..Ordinal(Len(calls))' /\ BridgedCall(Ordinal(i))' = i
    BY <2>2, BridgedCallsNext
  <2>4. BridgedCall(k)' = BridgedCall(Ordinal(i))'
    BY <2>2 DEF BridgedCall
  <2> QED
    BY <2>1, <2>2, <2>3, <2>4
<1>5. Ordinal(Len(calls)) <= Ordinal(Len(calls))'
  <2>1. CASE Ordinal(Len(calls)) = 0
    BY <1>1, <2>1
  <2>2. CASE Ordinal(Len(calls)) # 0
    BY <1>1, <1>4, <2>2
  <2> QED
    BY <2>1, <2>2
<1> QED
  BY <1>1, <1>2, <1>3, <1>4, <1>5
-------------------------------------------------------------------------------
(* An identity names the first row its call had, in either list, and the rows  *)
(* of one call share it.                                                       *)
Identified ==
  /\ DOMAIN rows.nativeIds = DOMAIN rows.native /\ DOMAIN rows.bridgeIds = DOMAIN rows.bridge
  /\ \A i \in DOMAIN rows.native :
       \/ rows.nativeIds[i] = <<"codemode", i>>
       \/ Bridged(i) /\ rows.nativeIds[i] = <<"bridge", Ordinal(i)>>
  /\ \A k \in DOMAIN rows.bridge : rows.bridgeIds[k] \in {<<"bridge", k>>, <<"codemode", BridgedCall(k)>>}
  /\ \A i \in DOMAIN rows.native :
       Bridged(i) /\ Ordinal(i) \in DOMAIN rows.bridge => rows.nativeIds[i] = rows.bridgeIds[Ordinal(i)]
  /\ DOMAIN rows.shown = {rows.nativeIds[i] : i \in DOMAIN rows.native}
                           \cup {rows.bridgeIds[k] : k \in DOMAIN rows.bridge}

CallsInv == CallsListed /\ NativeList(rows.native) /\ BridgeList(rows.bridge) /\ Identified

LEMMA CallsGrow ==
  ASSUME CallsInv, CallBegins \/ CallEnds
  PROVE  CallsInv'
<1>1. /\ CallsListed' /\ Len(calls) \in Nat /\ Len(calls') \in Nat /\ Len(calls) <= Len(calls')
      /\ \A i \in 1..Len(calls) : calls'[i].what = calls[i].what
      /\ rows' = rows
  <2>1. CASE CallBegins
    BY <2>1 DEF CallsInv, CallsListed, CallBegins
  <2>2. CASE CallEnds
    <3>1. PICK i \in DOMAIN calls : calls' = [calls EXCEPT ![i].ended = TRUE]
      BY <2>2 DEF CallEnds
    <3> DEFINE Call == [what : Whats, ended : BOOLEAN]
               ended == [calls[i] EXCEPT !.ended = TRUE]
    <3>2. calls \in Seq(Call)
      BY DEF CallsInv, CallsListed
    <3>3. calls[i] \in Call
      <4> HIDE DEF Call
      <4> QED
        BY <3>2
    <3>4. ended \in Call /\ ended.what = calls[i].what
      BY <3>3
    <3>5. calls' = [calls EXCEPT ![i] = ended]
      BY <3>1
    <3> HIDE DEF Call, ended
    <3>6. /\ calls' \in Seq(Call) /\ Len(calls') = Len(calls) /\ Len(calls) \in Nat
          /\ \A j \in 1..Len(calls) : calls'[j].what = calls[j].what
      BY <3>2, <3>4, <3>5
    <3>7. CallsListed'
      BY <3>6 DEF CallsListed, Call
    <3> QED
      BY <2>2, <3>6, <3>7 DEF CallEnds
  <2> QED
    BY <2>1, <2>2
<1>2. /\ \A i \in 1..Len(calls) : Bridged(i)' <=> Bridged(i)
      /\ \A i \in 1..Len(calls) : Ordinal(i)' = Ordinal(i)
      /\ Ordinal(Len(calls)) <= Ordinal(Len(calls))' /\ Ordinal(Len(calls))' \in Nat
      /\ \A k \in 1..Ordinal(Len(calls)) : BridgedCall(k)' = BridgedCall(k)
  BY <1>1, CallsKept DEF CallsInv
<1>3. PICK n \in 0..Len(calls) : DOMAIN rows.native = 1..n /\ \A i \in 1..n : rows.native[i].what = calls[i].what
  BY DEF CallsInv, NativeList
<1>4. PICK b \in 0..Ordinal(Len(calls)) :
        DOMAIN rows.bridge = 1..b /\ \A k \in 1..b : rows.bridge[k].what = calls[BridgedCall(k)].what
  BY DEF CallsInv, BridgeList
<1>5. /\ n \in 0..Len(calls') /\ n \in Nat
      /\ b \in 0..Ordinal(Len(calls))' /\ b \in Nat /\ Ordinal(Len(calls)) \in Nat
  <2>1. Ordinal(Len(calls)) \in Nat
    BY <1>1, Ordinals
  <2> HIDE DEF Ordinal
  <2> QED
    BY <1>1, <1>2, <2>1
<1>6. NativeList(rows.native)'
  <2>1. \A i \in 1..n : rows.native[i].what = calls'[i].what
    BY <1>1, <1>3, <1>5
  <2> QED
    BY <1>1, <1>3, <1>5, <2>1 DEF NativeList
<1>7. BridgeList(rows.bridge)'
  <2>1. ASSUME NEW k \in 1..b  PROVE rows.bridge[k].what = calls'[BridgedCall(k)'].what
    <3>1. k \in 1..Ordinal(Len(calls))
      BY <1>4, <1>5
    <3>2. BridgedCall(k) \in 1..Len(calls)
      BY <3>1, BridgedCalls DEF CallsInv
    <3> QED
      BY <1>1, <1>2, <1>4, <3>1, <3>2
  <2> QED
    BY <1>1, <1>4, <1>5, <2>1 DEF BridgeList
<1>8. Identified'
  <2>1. \A i \in DOMAIN rows.native : (Bridged(i)' <=> Bridged(i)) /\ Ordinal(i)' = Ordinal(i)
    BY <1>1, <1>2, <1>3
  <2>2. \A k \in DOMAIN rows.bridge : BridgedCall(k)' = BridgedCall(k)
    BY <1>2, <1>4, <1>5
  <2> QED
    BY <1>1, <2>1, <2>2 DEF CallsInv, Identified
<1> QED
  BY <1>1, <1>6, <1>7, <1>8 DEF CallsInv

LEMMA Published ==
  ASSUME CallsListed, NEW stale \in BOOLEAN
  PROVE  /\ \A n \in 0..Len(calls) : NativeList(NativeRows(n, stale))
         /\ \A n \in 0..Ordinal(Len(calls)) : BridgeList(BridgeRows(n, stale))
<1>1. /\ Len(calls) \in Nat /\ Ordinal(Len(calls)) \in Nat
      /\ \A i \in 1..Len(calls) : calls[i] \in [what : Whats, ended : BOOLEAN]
  <2> DEFINE Call == [what : Whats, ended : BOOLEAN]
  <2>1. calls \in Seq(Call)
    BY DEF CallsListed
  <2> HIDE DEF Call
  <2>2. Len(calls) \in Nat /\ \A i \in 1..Len(calls) : calls[i] \in Call
    BY <2>1
  <2> QED
    BY <2>2, Ordinals DEF Call
<1>2. \A i \in 1..Len(calls) : [calls[i] EXCEPT !.ended = @ /\ ~stale].what = calls[i].what
  BY <1>1
<1>3. ASSUME NEW n \in 0..Len(calls)  PROVE NativeList(NativeRows(n, stale))
  <2>1. n \in Nat /\ \A i \in 1..n : i \in 1..Len(calls)
    BY <1>1
  <2>2. DOMAIN NativeRows(n, stale) = 1..n /\ \A i \in 1..n : NativeRows(n, stale)[i].what = calls[i].what
    BY <1>2, <2>1 DEF NativeRows
  <2> QED
    BY <2>2 DEF NativeList
<1>4. ASSUME NEW n \in 0..Ordinal(Len(calls))  PROVE BridgeList(BridgeRows(n, stale))
  <2>1. \A k \in 1..n : BridgedCall(k) \in 1..Len(calls)
    BY <1>1, BridgedCalls
  <2>2. /\ DOMAIN BridgeRows(n, stale) = 1..n
        /\ \A k \in 1..n : BridgeRows(n, stale)[k].what = calls[BridgedCall(k)].what
    BY <1>2, <2>1 DEF BridgeRows
  <2> QED
    BY <2>2 DEF BridgeList
<1> QED
  BY <1>3, <1>4

(* A list is never shortened, and keeps what it calls. *)
LEMMA RetainedListed ==
  ASSUME CallsListed, NEW old, NEW new
  PROVE  /\ DOMAIN Retained(old, new) = DOMAIN old \cup DOMAIN new
         /\ NativeList(old) /\ NativeList(new) => NativeList(Retained(old, new))
         /\ BridgeList(old) /\ BridgeList(new) => BridgeList(Retained(old, new))
<1> DEFINE both == Retained(old, new)
<1>1. /\ DOMAIN both = DOMAIN old \cup DOMAIN new
      /\ \A i \in DOMAIN both : (i \in DOMAIN old /\ both[i] = old[i]) \/ (i \in DOMAIN new /\ both[i] = new[i])
  BY DEF Retained
<1>2. Len(calls) \in Nat /\ Ordinal(Len(calls)) \in Nat
  BY Ordinals DEF CallsListed
<1> HIDE DEF both
<1>3. ASSUME NativeList(old), NativeList(new)  PROVE NativeList(both)
  <2>1. PICK n \in 0..Len(calls) : DOMAIN old = 1..n /\ \A i \in 1..n : old[i].what = calls[i].what
    BY <1>3 DEF NativeList
  <2>2. PICK p \in 0..Len(calls) : DOMAIN new = 1..p /\ \A i \in 1..p : new[i].what = calls[i].what
    BY <1>3 DEF NativeList
  <2>3. PICK q \in {n, p} : q \in 0..Len(calls) /\ (1..n) \cup (1..p) = 1..q
    BY <1>2
  <2>4. DOMAIN both = 1..q /\ \A i \in 1..q : both[i].what = calls[i].what
    BY <1>1, <2>1, <2>2, <2>3
  <2> QED
    BY <2>3, <2>4 DEF NativeList
<1>4. ASSUME BridgeList(old), BridgeList(new)  PROVE BridgeList(both)
  <2>1. PICK n \in 0..Ordinal(Len(calls)) :
          DOMAIN old = 1..n /\ \A k \in 1..n : old[k].what = calls[BridgedCall(k)].what
    BY <1>4 DEF BridgeList
  <2>2. PICK p \in 0..Ordinal(Len(calls)) :
          DOMAIN new = 1..p /\ \A k \in 1..p : new[k].what = calls[BridgedCall(k)].what
    BY <1>4 DEF BridgeList
  <2>3. PICK q \in {n, p} : q \in 0..Ordinal(Len(calls)) /\ (1..n) \cup (1..p) = 1..q
    BY <1>2
  <2>4. DOMAIN both = 1..q /\ \A k \in 1..q : both[k].what = calls[BridgedCall(k)].what
    BY <1>1, <2>1, <2>2, <2>3
  <2> QED
    BY <2>3, <2>4 DEF BridgeList
<1> QED
  BY <1>1, <1>3, <1>4 DEF both

(* What normalizeCodeMode makes of whatever it is shown: identities that were  *)
(* given stay, and the rows of a call that meet now share one.                *)
LEMMA ObserveKeepsCalls ==
  ASSUME CallsInv, NEW nativeList, NEW bridgeList, NativeList(nativeList), BridgeList(bridgeList),
         Observe(nativeList, bridgeList), UNCHANGED calls
  PROVE  CallsInv'
<1> DEFINE native == Retained(rows.native, nativeList)
           bridge == Retained(rows.bridge, bridgeList)
           pairs == Paired(native, bridge)
           nativeIds == [i \in DOMAIN native |-> NativeId(i, pairs[i])]
           owner(k) == {i \in DOMAIN native : pairs[i] = k}
           bridgeIds == [k \in DOMAIN bridge |->
                           IF owner(k) = {} THEN BridgeId(k) ELSE nativeIds[Least(owner(k))]]
           ids == {nativeIds[i] : i \in DOMAIN native} \cup {bridgeIds[k] : k \in DOMAIN bridge}
<1>1. /\ rows'.native = native /\ rows'.bridge = bridge /\ rows'.nativeIds = nativeIds
      /\ rows'.bridgeIds = bridgeIds /\ DOMAIN rows'.shown = DOMAIN rows.shown \cup ids
  BY DEF Observe, Shown
<1>2. /\ NativeList(native) /\ DOMAIN native = DOMAIN rows.native \cup DOMAIN nativeList
      /\ BridgeList(bridge) /\ DOMAIN bridge = DOMAIN rows.bridge \cup DOMAIN bridgeList
  BY RetainedListed DEF CallsInv
<1>3. pairs = [i \in DOMAIN native |-> Expected(bridge, i)]
  BY <1>2, PairedRight DEF CallsInv
<1> HIDE DEF native, bridge, pairs
<1>4. /\ \A i \in DOMAIN native : i \in 1..Len(calls) /\ i \in Nat
      /\ \A k \in DOMAIN bridge : k \in 1..Ordinal(Len(calls)) /\ k \in Nat /\ k # 0
  <2>1. Len(calls) \in Nat /\ Ordinal(Len(calls)) \in Nat
    BY Ordinals DEF CallsInv, CallsListed
  <2> QED
    BY <1>2, <2>1 DEF NativeList, BridgeList
<1>5. ASSUME NEW i \in DOMAIN native, Bridged(i), Ordinal(i) \in DOMAIN bridge
      PROVE  pairs[i] = Ordinal(i) /\ owner(Ordinal(i)) = {i} /\ Least(owner(Ordinal(i))) = i
  <2>1. pairs[i] = Ordinal(i) /\ Ordinal(i) # 0
    BY <1>3, <1>4, <1>5 DEF Expected
  <2>2. ASSUME NEW j \in DOMAIN native, pairs[j] = Ordinal(i)  PROVE j = i
    <3>1. Bridged(j) /\ Ordinal(j) = Ordinal(i)
      BY <1>3, <2>1, <2>2 DEF Expected
    <3> QED
      BY <1>4, <1>5, <3>1, BridgedCalls DEF CallsInv
  <2>3. owner(Ordinal(i)) = {i}
    BY <2>1, <2>2
  <2> QED
    BY <1>4, <2>1, <2>3, LeastIs
<1>6. ASSUME NEW k \in DOMAIN bridge, owner(k) # {}
      PROVE  \E i \in DOMAIN native : Bridged(i) /\ Ordinal(i) = k /\ BridgedCall(k) = i
  <2>1. PICK i \in DOMAIN native : pairs[i] = k
    BY <1>6
  <2>2. Bridged(i) /\ Ordinal(i) = k
    BY <1>3, <1>4, <2>1 DEF Expected
  <2> QED
    BY <1>4, <2>2, BridgedCalls DEF CallsInv
<1> HIDE DEF owner
<1>7. ASSUME NEW i \in DOMAIN native
      PROVE  /\ i \in DOMAIN rows.native => nativeIds[i] = rows.nativeIds[i]
             /\ i \notin DOMAIN rows.native /\ pairs[i] \in DOMAIN rows.bridge => nativeIds[i] = rows.bridgeIds[pairs[i]]
             /\ i \notin DOMAIN rows.native /\ pairs[i] \notin DOMAIN rows.bridge => nativeIds[i] = <<"codemode", i>>
  BY DEF NativeId, CallsInv, Identified
<1>8. ASSUME NEW k \in DOMAIN bridge
      PROVE  /\ owner(k) = {} /\ k \in DOMAIN rows.bridge => bridgeIds[k] = rows.bridgeIds[k]
             /\ owner(k) = {} /\ k \notin DOMAIN rows.bridge => bridgeIds[k] = <<"bridge", k>>
             /\ owner(k) # {} => bridgeIds[k] = nativeIds[BridgedCall(k)]
  <2>1. CASE owner(k) = {}
    BY <2>1 DEF BridgeId, CallsInv, Identified
  <2>2. CASE owner(k) # {}
    <3>1. PICK i \in DOMAIN native : Bridged(i) /\ Ordinal(i) = k /\ BridgedCall(k) = i
      BY <1>6, <2>2
    <3>2. Least(owner(k)) = i
      BY <1>5, <3>1
    <3> HIDE DEF nativeIds
    <3> QED
      BY <2>2, <3>1, <3>2
  <2> QED
    BY <2>1, <2>2
<1>9. DOMAIN nativeIds = DOMAIN native /\ DOMAIN bridgeIds = DOMAIN bridge
  OBVIOUS
<1> HIDE DEF nativeIds, bridgeIds
<1>10. ASSUME NEW i \in DOMAIN native
       PROVE  nativeIds[i] = <<"codemode", i>> \/ (Bridged(i) /\ nativeIds[i] = <<"bridge", Ordinal(i)>>)
  <2>1. CASE i \in DOMAIN rows.native
    BY <1>7, <2>1 DEF CallsInv, Identified
  <2>2. CASE i \notin DOMAIN rows.native /\ pairs[i] \in DOMAIN rows.bridge
    <3>1. pairs[i] \in DOMAIN bridge
      BY <1>2, <2>2
    <3>2. Bridged(i) /\ pairs[i] = Ordinal(i)
      BY <1>3, <1>4, <3>1 DEF Expected
    <3>3. BridgedCall(pairs[i]) = i
      BY <1>4, <3>2, BridgedCalls DEF CallsInv
    <3>4. rows.bridgeIds[pairs[i]] \in {<<"bridge", pairs[i]>>, <<"codemode", BridgedCall(pairs[i])>>}
      BY <2>2 DEF CallsInv, Identified
    <3> QED
      BY <1>7, <2>2, <3>2, <3>3, <3>4
  <2>3. CASE i \notin DOMAIN rows.native /\ pairs[i] \notin DOMAIN rows.bridge
    BY <1>7, <2>3
  <2> QED
    BY <2>1, <2>2, <2>3
<1>11. ASSUME NEW k \in DOMAIN bridge
       PROVE  bridgeIds[k] \in {<<"bridge", k>>, <<"codemode", BridgedCall(k)>>}
  <2>1. CASE owner(k) = {}
    BY <1>8, <2>1 DEF CallsInv, Identified
  <2>2. CASE owner(k) # {}
    <3>1. PICK i \in DOMAIN native : Bridged(i) /\ Ordinal(i) = k /\ BridgedCall(k) = i
      BY <1>6, <2>2
    <3> QED
      BY <1>8, <1>10, <2>2, <3>1
  <2> QED
    BY <2>1, <2>2
<1>12. ASSUME NEW i \in DOMAIN native, Bridged(i), Ordinal(i) \in DOMAIN bridge
       PROVE  nativeIds[i] = bridgeIds[Ordinal(i)]
  <2>1. owner(Ordinal(i)) # {} /\ BridgedCall(Ordinal(i)) = i
    BY <1>4, <1>5, <1>12, BridgedCalls DEF CallsInv
  <2> QED
    BY <1>8, <1>12, <2>1
<1>13. ASSUME NEW k \in DOMAIN rows.bridge  PROVE k \in DOMAIN bridge /\ bridgeIds[k] = rows.bridgeIds[k]
  <2>0. k \in DOMAIN bridge
    BY <1>2
  <2>1. CASE owner(k) = {}
    BY <1>8, <2>0, <2>1
  <2>2. CASE owner(k) # {}
    <3>1. PICK i \in DOMAIN native : Bridged(i) /\ Ordinal(i) = k /\ BridgedCall(k) = i
      BY <1>6, <2>0, <2>2
    <3>2. bridgeIds[k] = nativeIds[i] /\ pairs[i] = k
      BY <1>5, <1>8, <2>0, <2>2, <3>1
    <3>3. CASE i \in DOMAIN rows.native
      <4>1. nativeIds[i] = rows.nativeIds[i]
        BY <1>7, <3>3
      <4>2. rows.nativeIds[i] = rows.bridgeIds[Ordinal(i)]
        BY <1>13, <3>1, <3>3 DEF CallsInv, Identified
      <4> QED
        BY <2>0, <3>1, <3>2, <4>1, <4>2
    <3>4. CASE i \notin DOMAIN rows.native
      BY <1>7, <1>13, <2>0, <3>2, <3>4
    <3> QED
      BY <3>3, <3>4
  <2> QED
    BY <2>0, <2>1, <2>2
<1>14. DOMAIN rows.shown \subseteq ids
  <2>1. \A i \in DOMAIN rows.native : i \in DOMAIN native /\ nativeIds[i] = rows.nativeIds[i]
    BY <1>2, <1>7
  <2> QED
    BY <1>13, <2>1 DEF CallsInv, Identified
<1>15. \A i : (Bridged(i)' <=> Bridged(i)) /\ Ordinal(i)' = Ordinal(i) /\ BridgedCall(i)' = BridgedCall(i)
  BY DEF Bridged, Ordinal, BridgedCall
<1>16. Identified'
  <2> HIDE DEF ids
  <2>1. DOMAIN rows'.shown = ids
    BY <1>1, <1>14
  <2> HIDE DEF Ordinal, Bridged, BridgedCall
  <2> QED
    BY <1>1, <1>9, <1>10, <1>11, <1>12, <1>15, <2>1 DEF Identified, ids
<1>17. NativeList(rows.native)' /\ BridgeList(rows.bridge)' /\ CallsListed'
  BY <1>1, <1>2, <1>15 DEF CallsInv, CallsListed, NativeList, BridgeList
<1> QED
  BY <1>16, <1>17 DEF CallsInv

(* Each identity stands for one call. *)
LEMMA OneCallEach ==
  ASSUME CallsInv  PROVE OneIdentityPerCall
<1> DEFINE Call(id) == IF id[1] = "codemode" THEN id[2] ELSE BridgedCall(id[2])
<1>1. ASSUME NEW i \in DOMAIN rows.native  PROVE Call(rows.nativeIds[i]) = i /\ i \in 1..Len(calls)
  <2>1. i \in 1..Len(calls)
    <3>1. Len(calls) \in Nat
      BY DEF CallsInv, CallsListed
    <3> QED
      BY <3>1 DEF CallsInv, NativeList
  <2>2. CASE rows.nativeIds[i] = <<"codemode", i>>
    BY <2>1, <2>2
  <2>3. CASE Bridged(i) /\ rows.nativeIds[i] = <<"bridge", Ordinal(i)>>
    <3>1. BridgedCall(Ordinal(i)) = i
      BY <2>1, <2>3, BridgedCalls DEF CallsInv
    <3> HIDE DEF BridgedCall
    <3> QED
      BY <2>1, <2>3, <3>1
  <2> QED
    BY <2>1, <2>2, <2>3 DEF CallsInv, Identified
<1>2. ASSUME NEW k \in DOMAIN rows.bridge
      PROVE  /\ Call(rows.bridgeIds[k]) = BridgedCall(k) /\ Bridged(BridgedCall(k))
             /\ Ordinal(BridgedCall(k)) = k
  <2>1. k \in 1..Ordinal(Len(calls))
    <3>1. Ordinal(Len(calls)) \in Nat
      BY Ordinals DEF CallsInv, CallsListed
    <3> QED
      BY <3>1 DEF CallsInv, BridgeList
  <2>2. Bridged(BridgedCall(k)) /\ Ordinal(BridgedCall(k)) = k
    BY <2>1, BridgedCalls DEF CallsInv
  <2>3. rows.bridgeIds[k] \in {<<"bridge", k>>, <<"codemode", BridgedCall(k)>>}
    BY DEF CallsInv, Identified
  <2> QED
    BY <2>2, <2>3
<1> HIDE DEF Call
<1>3. /\ DOMAIN rows.nativeIds = DOMAIN rows.native /\ DOMAIN rows.bridgeIds = DOMAIN rows.bridge
      /\ DOMAIN rows.shown = {rows.nativeIds[i] : i \in DOMAIN rows.native}
                               \cup {rows.bridgeIds[k] : k \in DOMAIN rows.bridge}
  BY DEF CallsInv, Identified
<1>4. ASSUME NEW id \in DOMAIN rows.shown  PROVE CallsOf(id) = {Call(id)}
  <2>1. \A i \in CallsOf(id) : i = Call(id)
    BY <1>1, <1>2, <1>3 DEF CallsOf
  <2>2. CallsOf(id) # {}
    BY <1>3 DEF CallsOf
  <2> QED
    BY <2>1, <2>2
<1>5. ASSUME NEW i \in DOMAIN rows.native, NEW k \in DOMAIN rows.bridge, i = BridgedCall(k)
      PROVE  rows.nativeIds[i] = rows.bridgeIds[k]
  BY <1>2, <1>5 DEF CallsInv, Identified
<1>6. ASSUME NEW id \in DOMAIN rows.shown, NEW other \in DOMAIN rows.shown, Call(id) = Call(other)
      PROVE  id = other
  <2>1. ASSUME NEW i \in DOMAIN rows.native, NEW j \in DOMAIN rows.native,
               id = rows.nativeIds[i], other = rows.nativeIds[j]
        PROVE  id = other
    BY <1>1, <1>6, <2>1
  <2>2. ASSUME NEW k \in DOMAIN rows.bridge, NEW l \in DOMAIN rows.bridge,
               id = rows.bridgeIds[k], other = rows.bridgeIds[l]
        PROVE  id = other
    <3>1. BridgedCall(k) = BridgedCall(l)
      BY <1>2, <1>6, <2>2
    <3>2. k = l
      BY <1>2, <3>1
    <3> QED
      BY <2>2, <3>2
  <2>3. ASSUME NEW i \in DOMAIN rows.native, NEW k \in DOMAIN rows.bridge,
               {id, other} = {rows.nativeIds[i], rows.bridgeIds[k]}
        PROVE  id = other
    <3>1. Call(rows.nativeIds[i]) = Call(rows.bridgeIds[k])
      BY <1>6, <2>3
    <3>2. i = BridgedCall(k)
      BY <1>1, <1>2, <3>1
    <3> QED
      BY <1>5, <2>3, <3>2
  <2> QED
    BY <1>3, <2>1, <2>2, <2>3
<1>7. \A id \in DOMAIN rows.shown : Cardinality(CallsOf(id)) = 1
  BY <1>4, FS_Singleton
<1>8. ASSUME NEW id \in DOMAIN rows.shown, NEW other \in DOMAIN rows.shown, id # other
      PROVE  CallsOf(id) \cap CallsOf(other) = {}
  <2>1. Call(id) # Call(other)
    BY <1>6, <1>8
  <2> QED
    BY <1>4, <2>1
<1> QED
  BY <1>7, <1>8 DEF OneIdentityPerCall

(* Every nested call is shown under one identity, and an identity stands for   *)
(* one call, whichever list of rows came first, lagged, repeated itself or was *)
(* lost, for any number of calls (normalizeCodeMode).                          *)
THEOREM OneIdentityCorrect == NormalizerSpec => []OneIdentityPerCall
<1>1. NormalizerInit => CallsInv
  <2> SUFFICES ASSUME NormalizerInit  PROVE CallsInv
    OBVIOUS
  <2>1. /\ calls = <<>> /\ DOMAIN NoPairs = {}
        /\ rows.native = NoPairs /\ rows.bridge = NoPairs /\ rows.nativeIds = NoPairs
        /\ rows.bridgeIds = NoPairs /\ rows.shown = NoPairs
    BY DEF NormalizerInit, CallsInit, NoPairs
  <2>2. CallsListed /\ Len(calls) = 0 /\ Ordinal(Len(calls)) = 0
    BY <2>1, Ordinals DEF CallsListed
  <2>3. NativeList(rows.native) /\ BridgeList(rows.bridge)
    BY <2>1, <2>2 DEF NativeList, BridgeList
  <2> QED
    BY <2>1, <2>2, <2>3 DEF CallsInv, Identified
<1>2. CallsInv /\ [NormalizerNext]_normalizerVars => CallsInv'
  <2> SUFFICES ASSUME CallsInv, [NormalizerNext]_normalizerVars  PROVE CallsInv'
    OBVIOUS
  <2>1. CASE UNCHANGED callVars
    <3>1. calls' = calls /\ rows' = rows
      BY <2>1 DEF callVars
    <3>2. \A i : (Bridged(i)' <=> Bridged(i)) /\ Ordinal(i)' = Ordinal(i) /\ BridgedCall(i)' = BridgedCall(i)
      BY <3>1 DEF Bridged, Ordinal, BridgedCall
    <3> QED
      BY <3>1, <3>2 DEF CallsInv, CallsListed, NativeList, BridgeList, Identified
  <2>2. CASE CallBegins \/ CallEnds
    BY <2>2, CallsGrow
  <2>3. CASE ToolEvent
    BY <2>3, Published, ObserveKeepsCalls DEF ToolEvent, CallsInv
  <2>4. CASE ToolProjected
    <3>1. Len(calls) \in 0..Len(calls) /\ Ordinal(Len(calls)) \in 0..Ordinal(Len(calls))
      <4>1. Len(calls) \in Nat /\ Ordinal(Len(calls)) \in Nat
        BY Ordinals DEF CallsInv, CallsListed
      <4> QED
        BY <4>1
    <3>2. NativeList(NativeRows(Len(calls), FALSE)) /\ BridgeList(BridgeRows(Ordinal(Len(calls)), FALSE))
      BY <3>1, Published DEF CallsInv
    <3> QED
      BY <2>4, <3>2, ObserveKeepsCalls DEF ToolProjected
  <2> QED
    BY <2>1, <2>2, <2>3, <2>4
    DEF NormalizerNext, normalizerVars, EventDelivered, Missed, Happens, Redelivered, ToolSteps, Recovery,
        StreamFails, DeadlinePasses, RootRead, MessagesRead, ChildrenRead, PageRead, Discovers, ListingFails,
        RecoveryEnds, RecoveryOver, serverVars
<1>3. CallsInv => OneIdentityPerCall
  BY OneCallEach
<1> QED
  BY <1>1, <1>2, <1>3, PTL DEF NormalizerSpec
===============================================================================
