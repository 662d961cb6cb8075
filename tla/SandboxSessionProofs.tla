-------------------------- MODULE SandboxSessionProofs --------------------------
(***************************************************************************)
(* What a session may say of its end and what it may ask to delete, for    *)
(* any number of mishaps.                                                  *)
(***************************************************************************)
EXTENDS SandboxSession, TLAPS

(* Nothing of the session is there under the name, and nothing will be. *)
Gone(r) == gateway[r] # "ours" /\ Create(r) \notin pending

Untouched == \A r \in Resources : state[r] = "not-attempted"

Removing == pc \in {"remove", "removing", "reread", "confirm"}

(* How far the cleanup is: the children it is past. *)
Past(c) ==
  \/ pc = "final" \/ (Removing /\ on = "workspace")
  \/ c = "sandbox" /\ (pc = "emptied" \/ (pc \in Cleaning /\ on \in {"provider", "profile"}))
  \/ c = "provider" /\ pc \in Cleaning /\ on = "profile"

(* While resources are created, one is at a time, in order. *)
Later == [workspace |-> Children, profile |-> {"provider", "sandbox"}, provider |-> {"sandbox"}, sandbox |-> {}]

Creation ==
  /\ state["workspace"] = "not-attempted" => Untouched
  /\ pc = "policy" => on = "workspace" /\ Untouched
  /\ pc = "create" => state[on] = "not-attempted"
  /\ pc = "creating" => state[on] = "unknown"
  /\ pc = "check" => /\ on \in {"workspace", "profile"} /\ Create(on) \notin pending
                     /\ state[on] = IF on = "profile" THEN "unknown" ELSE "created"
  /\ pc = "members" => on = "workspace" /\ state["workspace"] = "created"
  /\ pc = "mint" => on = "profile" /\ state["profile"] = "created"
  /\ pc \in {"readiness", "recheck", "attached", "write", "runner"} =>
       \A r \in Resources : state[r] = "created"
  /\ pc \in {"create", "creating", "check", "members", "mint"} =>
       /\ \A r \in Later[on] : state[r] = "not-attempted"
       /\ \A r \in Resources : on \in Later[r] => state[r] = "created"

(* What the record says of a resource is so at the gateway. *)
Honest ==
  \A r \in Resources :
    /\ state[r] = "not-attempted" => gateway[r] = "absent" /\ Create(r) \notin pending
    /\ state[r] = "deleted" => Gone(r)
    /\ state[r] = "created" \/ gateway[r] # "absent" => Create(r) \notin pending

(* What the cleanup is past is gone; it removes what it has found. *)
Progress ==
  /\ pc \in Cleaning => completion = "unknown"
  /\ pc \in Creating => completion = "not-created"
  /\ pc \in Cleaning /\ ~(pc = "find" /\ on = "workspace") => state["workspace"] = "created"
  /\ pc = "emptied" => on = "sandbox"
  /\ pc = "final" => on = "workspace"
  /\ Removing => state[on] = "created"
  /\ \A c \in Children : Past(c) => state[c] \in {"not-attempted", "deleted"}
  /\ pc = "done" /\ completion = "not-created" => Untouched
  /\ pc = "done" /\ completion = "gone" => \A r \in Resources : Gone(r)

(* A deletion is under way, or the cleanup has come past it. *)
Deletes ==
  \A r \in Resources : Delete(r) \in pending =>
    /\ pc \notin Creating
    /\ pc = "done" \/ (Removing /\ on = r) \/ (r \in Children /\ Past(r))

(* What is another's stays so, and the cleanup does not get past it. *)
Strangers ==
  /\ pc \in Creating => strangers = {}
  /\ pc \in Cleaning /\ ~(pc = "find" /\ on = "workspace") => "workspace" \notin strangers
  /\ pc # "done" => \A r \in strangers :
       /\ gateway[r] = "other" /\ Create(r) \notin pending
       /\ state[r] \in {"unknown", "created"}
       /\ ~Past(r) /\ ~(Removing /\ on = r)

(* As long as nothing has gone wrong the gateway holds what the record says,   *)
(* and what the cleanup is about to conclude is so.                           *)
Clean ==
  mishaps = 0 =>
    /\ \A r \in Resources : gateway[r] # "other"
    /\ pc \in Creating => \A r \in Resources : state[r] = "created" => gateway[r] = "ours"
    /\ pc = "check" => gateway[on] = "ours"
    /\ ~doubtful /\ pc \in Cleaning =>
         /\ state["workspace"] = "created"
         /\ \A r \in Resources :
              state[r] \in {"unknown", "created"} => gateway[r] = "ours" \/ (Removing /\ on = r)
         /\ pc # "reread"
         /\ pc = "removing" => Delete(on) \in pending \/ gateway[on] = "absent"
         /\ pc = "confirm" /\ on \in {"profile", "provider"} => gateway[on] = "absent"
    /\ ~doubtful /\ pc = "done" => completion # "unknown"

IInv == TypeOK /\ Creation /\ Honest /\ Progress /\ Deletes /\ ChildrenFirst /\ Strangers /\ Clean

(* Requests about different resources, and different requests, are different. *)
LEMMA RequestsDiffer ==
  /\ \A r, q \in Resources : (Create(r) = Create(q) => r = q) /\ (Delete(r) = Delete(q) => r = q)
  /\ \A r, q \in Resources : Create(r) # Delete(q)
  /\ \A r \in Resources : Create(r) \in Requests /\ Delete(r) \in Requests
BY DEF Create, Delete, Requests

LEMMA RequestsAre ==
  \A request \in Requests : \E r \in Resources :
    /\ request.r = r
    /\ \/ request.op = "create" /\ request = Create(r)
       \/ request.op = "delete" /\ request = Delete(r)
BY DEF Create, Delete, Requests

LEMMA InitIInv == Init => IInv
<1> SUFFICES ASSUME Init  PROVE IInv
  OBVIOUS
<1> USE DEF Init, Resources, Children
<1>1. TypeOK
  <2>1. 0 \in 0..MaxMishaps
    BY SessionAssumption
  <2> QED
    BY <2>1 DEF TypeOK, Creating, Cleaning
<1>2. Creation /\ Honest
  BY DEF Creation, Honest, Untouched, Gone
<1>3. Progress /\ Deletes /\ ChildrenFirst /\ Strangers
  BY DEF Progress, Deletes, ChildrenFirst, Strangers, Creating, Cleaning, Removing, Past
<1>4. Clean
  BY DEF Clean, Creating, Cleaning
<1> QED
  BY <1>1, <1>2, <1>3, <1>4 DEF IInv

(* Each action keeps the types. *)
LEMMA NextTypeOK == IInv /\ [Next]_vars => TypeOK'
<1> SUFFICES ASSUME IInv, [Next]_vars  PROVE TypeOK'
  OBVIOUS
<1> USE DEF record, world, Resources, Children
<1> USE SessionAssumption, RequestsDiffer DEF Creating, Cleaning
<1>0. TypeOK
  BY DEF IInv
<1>e. ASSUME NEW result \in {"unknown", "passed", "failed"}, EnterCleanup(result)
      PROVE  /\ pc' \in {"find", "done"} /\ on' \in Resources /\ tries' = 0
             /\ outcome' \in {"unknown", "passed", "failed"} /\ doubtful' \in BOOLEAN
             /\ completion' \in {"not-created", "unknown", "gone"} /\ cleanup' \in {"not-needed", "unknown", "deleted"}
  <2>1. CASE state["workspace"] = "not-attempted" /\ state["sandbox"] = "not-attempted"
    BY <1>0, <1>e, <2>1 DEF EnterCleanup, Goto, TypeOK
  <2>2. CASE ~(state["workspace"] = "not-attempted" /\ state["sandbox"] = "not-attempted")
    <3>1. doubtful' \in BOOLEAN
      BY <1>e, <2>2 DEF EnterCleanup
    <3> QED
      BY <1>0, <1>e, <2>2, <3>1 DEF EnterCleanup, Goto, TypeOK
  <2> QED
    BY <2>1, <2>2
<1>m. Mishap \/ TimeOut => mishaps' \in 0..MaxMishaps
  BY <1>0 DEF Mishap, TimeOut, TypeOK
<1>s. ASSUME NEW r \in Resources, Sees(r)
      PROVE  strangers' \subseteq Resources
  BY <1>0, <1>s DEF Sees, TypeOK
<1>1. CASE Policy
  BY <1>0, <1>1 DEF Policy, EnterCleanup, Goto, TypeOK
<1>2. CASE SendCreate
  BY <1>0, <1>2 DEF SendCreate, Goto, SetState, TypeOK
<1>3. CASE CreateAnswered
  BY <1>0, <1>3 DEF CreateAnswered, Goto, SetState, TypeOK
<1>4. CASE CreateInDoubt
  BY <1>0, <1>e, <1>m, <1>s, <1>4 DEF CreateInDoubt, Throw, Goto, TypeOK
<1>5. CASE CreateRefused
  BY <1>0, <1>e, <1>m, <1>s, <1>5 DEF CreateRefused, Goto, TypeOK
<1>6. CASE CheckMatches
  BY <1>0, <1>6 DEF CheckMatches, Goto, SetState, TypeOK
<1>7. CASE NoMembers
  BY <1>0, <1>7 DEF NoMembers, Goto, FollowedBy, TypeOK
<1>8. CASE Minted
  BY <1>0, <1>8 DEF Minted, Goto, FollowedBy, TypeOK
<1>9. CASE CheckPasses
  BY <1>0, <1>9 DEF CheckPasses, Goto, NextCheck, Checked, TypeOK
<1>10. CASE Mismatch
  BY <1>0, <1>e, <1>m, <1>s, <1>10 DEF Mismatch, Throw, Goto, Checked, TypeOK
<1>11. CASE StepFails
  BY <1>0, <1>e, <1>m, <1>s, <1>11 DEF StepFails, Awaiting, Throw, Goto, TypeOK
<1>38. CASE StepAborted
  BY <1>0, <1>e, <1>m, <1>s, <1>38 DEF StepAborted, Awaiting, Throw, Goto, TypeOK
<1>12. CASE InputWritten
  BY <1>0, <1>12 DEF InputWritten, Goto, TypeOK
<1>13. CASE InputNotWritten
  BY <1>0, <1>e, <1>m, <1>s, <1>13 DEF InputNotWritten, Goto, TypeOK
<1>14. CASE RunnerAborted
  BY <1>0, <1>14 DEF RunnerAborted, Throw, EnterCleanup, Goto, TypeOK
<1>15. CASE RunnerLost
  BY <1>0, <1>e, <1>m, <1>s, <1>15 DEF RunnerLost, Throw, Goto, TypeOK
<1>16. CASE WorkspaceFound
  BY <1>0, <1>16 DEF WorkspaceFound, SetState, Proceed, Goto, TypeOK
<1>17. CASE WorkspaceAbsent
  BY <1>0, <1>17 DEF WorkspaceAbsent, AllDeleted, AbsenceProves, Finish, Goto, TypeOK
<1>18. CASE ChildFound
  BY <1>0, <1>18 DEF ChildFound, SetState, Proceed, Goto, TypeOK
<1>19. CASE ChildAbsent
  BY <1>0, <1>19 DEF ChildAbsent, SetState, Proceed, Goto, TypeOK
<1>20. CASE NeverAttempted
  BY <1>0, <1>20 DEF NeverAttempted, Proceed, Goto, TypeOK
<1>21. CASE FindInDoubt
  BY <1>0, <1>21 DEF FindInDoubt, Sees, GiveUp, Goto, TypeOK
<1>22. CASE SendDelete
  BY <1>0, <1>22 DEF SendDelete, Goto, TypeOK
<1>23. CASE DeleteAnswered
  BY <1>0, <1>23 DEF DeleteAnswered, Goto, Mishap, TypeOK
<1>24. CASE DeleteInDoubt
  BY <1>0, <1>24 DEF DeleteInDoubt, TimeOut, Goto, TypeOK
<1>25. CASE DeleteRefused
  BY <1>0, <1>25 DEF DeleteRefused, Mishap, Goto, TypeOK
<1>26. CASE Reread
  BY <1>0, <1>26 DEF Reread, Sees, MayRetry, Goto, TypeOK
<1>27. CASE ConfirmedAbsent
  BY <1>0, <1>27 DEF ConfirmedAbsent, SetState, Proceed, Finish, Goto, TypeOK
<1>28. CASE StillPresent
  BY <1>0, <1>28 DEF StillPresent, Sees, GiveUp, Goto, TypeOK
<1>29. CASE Emptied
  BY <1>0, <1>29 DEF Emptied, Proceed, Goto, RemovedBefore, TypeOK
<1>30. CASE FinalCheck
  BY <1>0, <1>30 DEF FinalCheck, Proceed, Goto, RemovedBefore, TypeOK
<1>31. CASE NotEmpty
  BY <1>0, <1>31 DEF NotEmpty, GiveUp, Goto, TypeOK
<1>32. CASE CleanupFails
  BY <1>0, <1>32 DEF CleanupFails, TimeOut, GiveUp, Goto, TypeOK
<1>33. CASE Abort
  BY <1>0, <1>33 DEF Abort, TypeOK
<1>34. ASSUME NEW result \in {"passed", "failed"}, RunnerExits(result)
      PROVE  TypeOK'
  BY <1>0, <1>34 DEF RunnerExits, EnterCleanup, Goto, TypeOK
<1>35. ASSUME NEW request \in Requests, Commits(request)
      PROVE  TypeOK'
  BY <1>0, <1>35, RequestsAre, RequestsDiffer DEF Commits, TypeOK
<1>36. ASSUME NEW r \in Resources, Drift(r)
      PROVE  TypeOK'
  BY <1>0, <1>36 DEF Drift, Mishap, TypeOK
<1>37. CASE UNCHANGED vars
  BY <1>0, <1>37 DEF vars, TypeOK
<1> QED
  BY <1>1, <1>2, <1>3, <1>4, <1>5, <1>6, <1>7, <1>8, <1>9, <1>10, <1>11, <1>12, <1>13, <1>14, <1>15, <1>16, <1>17, <1>18, <1>19, <1>20, <1>21, <1>22, <1>23, <1>24, <1>25, <1>26, <1>27, <1>28, <1>29, <1>30, <1>31, <1>32, <1>33, <1>34, <1>35, <1>36, <1>37, <1>38
     DEF Next, Execute, CleanUp, Runner, Done

(* Each action keeps the order of the creation. *)
LEMMA NextCreation == IInv /\ [Next]_vars => Creation'
<1> SUFFICES ASSUME IInv, [Next]_vars  PROVE Creation'
  OBVIOUS
<1> USE DEF record, world, Resources, Children
<1>0. TypeOK /\ Creation /\ Progress
  BY DEF IInv
<1> USE DEF Creation, Untouched, Later, Creating, Cleaning
<1>e. ASSUME pc' \in Cleaning \cup {"done"}, state' = state \/ state'["workspace"] # "not-attempted"
      PROVE  Creation'
  BY <1>0, <1>e
<1>1. CASE Policy
  <2>1. CASE pc' = "create"
    BY <1>0, <1>1, <2>1 DEF Policy, EnterCleanup, Goto, TypeOK
  <2>2. CASE pc' # "create"
    <3>1. pc' \in {"find", "done"} /\ state' = state
      BY <1>1, <2>2 DEF Policy, EnterCleanup, Goto
    <3> QED
      BY <1>e, <3>1
  <2> QED
    BY <2>1, <2>2
<1>2. CASE SendCreate
  BY <1>0, <1>2 DEF SendCreate, Goto, SetState, TypeOK
<1>3. CASE CreateAnswered
  <2>1. CASE on = "workspace"
    BY <1>0, <1>3, <2>1 DEF CreateAnswered, Goto, SetState, TypeOK
  <2>4. CASE on = "profile"
    BY <1>0, <1>3, <2>4 DEF CreateAnswered, Goto, SetState, TypeOK
  <2>2. CASE on = "provider"
    BY <1>0, <1>3, <2>2 DEF CreateAnswered, Goto, SetState, TypeOK
  <2>3. CASE on = "sandbox"
    BY <1>0, <1>3, <2>3 DEF CreateAnswered, Goto, SetState, TypeOK
  <2> QED
    BY <1>0, <2>1, <2>2, <2>3, <2>4 DEF TypeOK
<1>4. CASE CreateInDoubt
  BY <1>0, <1>4 DEF CreateInDoubt, Throw, EnterCleanup, Goto, TimeOut, TypeOK
<1>5. CASE CreateRefused
  BY <1>0, <1>5 DEF CreateRefused, EnterCleanup, Goto, Mishap, TypeOK
<1>6. CASE CheckMatches
  BY <1>0, <1>6 DEF CheckMatches, Goto, SetState, TypeOK
<1>7. CASE NoMembers
  BY <1>0, <1>7 DEF NoMembers, Goto, FollowedBy, TypeOK
<1>8. CASE Minted
  BY <1>0, <1>8 DEF Minted, Goto, FollowedBy, TypeOK
<1>9. CASE CheckPasses
  BY <1>0, <1>9 DEF CheckPasses, Goto, NextCheck, Checked, TypeOK
<1>10. CASE Mismatch
  BY <1>0, <1>10 DEF Mismatch, Throw, EnterCleanup, Goto, Sees, Checked, TypeOK
<1>11. CASE StepFails
  BY <1>0, <1>11 DEF StepFails, Awaiting, Throw, EnterCleanup, Goto, TimeOut, TypeOK
<1>38. CASE StepAborted
  BY <1>0, <1>38 DEF StepAborted, Awaiting, Throw, EnterCleanup, Goto, TypeOK
<1>12. CASE InputWritten
  BY <1>0, <1>12 DEF InputWritten, Goto, TypeOK
<1>13. CASE InputNotWritten
  BY <1>0, <1>13 DEF InputNotWritten, EnterCleanup, Goto, Mishap, TypeOK
<1>14. CASE RunnerAborted
  BY <1>0, <1>14 DEF RunnerAborted, Throw, EnterCleanup, Goto, TypeOK
<1>15. CASE RunnerLost
  BY <1>0, <1>15 DEF RunnerLost, Throw, EnterCleanup, Goto, Mishap, TypeOK
<1>16. CASE WorkspaceFound
  BY <1>0, <1>16 DEF WorkspaceFound, SetState, Proceed, Goto, TypeOK
<1>17. CASE WorkspaceAbsent
  BY <1>0, <1>17 DEF WorkspaceAbsent, AllDeleted, AbsenceProves, Finish, Goto, TypeOK
<1>18. CASE ChildFound
  <2>1. pc' \in Cleaning /\ state'["workspace"] = "created"
    BY <1>0, <1>18 DEF ChildFound, SetState, Proceed, Goto, TypeOK, Progress
  <2> QED
    BY <1>e, <2>1
<1>19. CASE ChildAbsent
  <2>1. pc' \in Cleaning /\ state'["workspace"] = "created"
    BY <1>0, <1>19 DEF ChildAbsent, SetState, Proceed, Goto, TypeOK, Progress
  <2> QED
    BY <1>e, <2>1
<1>20. CASE NeverAttempted
  BY <1>0, <1>20 DEF NeverAttempted, Proceed, Goto, TypeOK
<1>21. CASE FindInDoubt
  BY <1>0, <1>21 DEF FindInDoubt, Sees, GiveUp, Goto, TypeOK
<1>22. CASE SendDelete
  BY <1>0, <1>22 DEF SendDelete, Goto, TypeOK
<1>23. CASE DeleteAnswered
  BY <1>0, <1>23 DEF DeleteAnswered, Goto, Mishap, TypeOK
<1>24. CASE DeleteInDoubt
  BY <1>0, <1>24 DEF DeleteInDoubt, TimeOut, Goto, TypeOK
<1>25. CASE DeleteRefused
  BY <1>0, <1>25 DEF DeleteRefused, Mishap, Goto, TypeOK
<1>26. CASE Reread
  BY <1>0, <1>26 DEF Reread, Sees, MayRetry, Goto, TypeOK
<1>27. CASE ConfirmedAbsent
  <2>1. pc' \in Cleaning \cup {"done"} /\ state'["workspace"] \in {"created", "deleted"}
    <3>1. state["workspace"] = "created" /\ state' = [state EXCEPT ![on] = "deleted"]
      BY <1>0, <1>27 DEF ConfirmedAbsent, SetState, Progress
    <3>2. pc' \in Cleaning \cup {"done"}
      BY <1>0, <1>27 DEF ConfirmedAbsent, Proceed, Finish, Goto, TypeOK
    <3> QED
      BY <1>0, <3>1, <3>2 DEF TypeOK
  <2> QED
    BY <1>e, <2>1
<1>28. CASE StillPresent
  BY <1>0, <1>28 DEF StillPresent, Sees, GiveUp, Goto, TypeOK
<1>29. CASE Emptied
  BY <1>0, <1>29 DEF Emptied, Proceed, Goto, RemovedBefore, TypeOK
<1>30. CASE FinalCheck
  BY <1>0, <1>30 DEF FinalCheck, Proceed, Goto, RemovedBefore, TypeOK
<1>31. CASE NotEmpty
  BY <1>0, <1>31 DEF NotEmpty, GiveUp, Goto, TypeOK
<1>32. CASE CleanupFails
  BY <1>0, <1>32 DEF CleanupFails, TimeOut, GiveUp, Goto, TypeOK
<1>33. CASE Abort
  BY <1>0, <1>33 DEF Abort, TypeOK
<1>34. ASSUME NEW result \in {"passed", "failed"}, RunnerExits(result)
      PROVE  Creation'
  BY <1>0, <1>34 DEF RunnerExits, EnterCleanup, Goto, TypeOK
<1>35. ASSUME NEW request \in Requests, Commits(request)
      PROVE  Creation'
  BY <1>0, <1>35, RequestsAre, RequestsDiffer DEF Commits, TypeOK
<1>36. ASSUME NEW r \in Resources, Drift(r)
      PROVE  Creation'
  BY <1>0, <1>36 DEF Drift, Mishap, TypeOK
<1>37. CASE UNCHANGED vars
  BY <1>0, <1>37 DEF vars, TypeOK
<1> QED
  BY <1>1, <1>2, <1>3, <1>4, <1>5, <1>6, <1>7, <1>8, <1>9, <1>10, <1>11, <1>12, <1>13, <1>14, <1>15, <1>16, <1>17, <1>18, <1>19, <1>20, <1>21, <1>22, <1>23, <1>24, <1>25, <1>26, <1>27, <1>28, <1>29, <1>30, <1>31, <1>32, <1>33, <1>34, <1>35, <1>36, <1>37, <1>38
     DEF Next, Execute, CleanUp, Runner, Done

(* The record stays true of the gateway. *)
LEMMA NextHonest == IInv /\ [Next]_vars => Honest'
<1> SUFFICES ASSUME IInv, [Next]_vars  PROVE Honest'
  OBVIOUS
<1> USE DEF record, world, Resources, Children
<1>0. TypeOK /\ Creation /\ Honest /\ Progress
  BY DEF IInv
<1> USE RequestsDiffer DEF Honest, Gone
<1>1. CASE Policy
  BY <1>0, <1>1 DEF Policy, EnterCleanup, Goto, TypeOK, Creation, Progress, Removing
<1>2. CASE SendCreate
  BY <1>0, <1>2 DEF SendCreate, Goto, SetState, TypeOK, Creation, Progress, Removing
<1>3. CASE CreateAnswered
  BY <1>0, <1>3 DEF CreateAnswered, Goto, SetState, TypeOK, Creation, Progress, Removing
<1>4. CASE CreateInDoubt
  BY <1>0, <1>4 DEF CreateInDoubt, Throw, EnterCleanup, Goto, TimeOut, TypeOK, Creation, Progress, Removing
<1>5. CASE CreateRefused
  BY <1>0, <1>5 DEF CreateRefused, EnterCleanup, Goto, Mishap, TypeOK, Creation, Progress, Removing
<1>6. CASE CheckMatches
  BY <1>0, <1>6 DEF CheckMatches, Goto, SetState, TypeOK, Creation, Progress, Removing
<1>7. CASE NoMembers
  BY <1>0, <1>7 DEF NoMembers, Goto, FollowedBy, TypeOK, Creation, Progress, Removing
<1>8. CASE Minted
  BY <1>0, <1>8 DEF Minted, Goto, FollowedBy, TypeOK, Creation, Progress, Removing
<1>9. CASE CheckPasses
  BY <1>0, <1>9 DEF CheckPasses, Goto, NextCheck, Checked, TypeOK, Creation, Progress, Removing
<1>10. CASE Mismatch
  BY <1>0, <1>10 DEF Mismatch, Throw, EnterCleanup, Goto, Sees, Checked, TypeOK, Creation, Progress, Removing
<1>11. CASE StepFails
  BY <1>0, <1>11 DEF StepFails, Awaiting, Throw, EnterCleanup, Goto, TimeOut, TypeOK, Creation, Progress, Removing
<1>38. CASE StepAborted
  BY <1>0, <1>38 DEF StepAborted, Awaiting, Throw, EnterCleanup, Goto, TypeOK, Creation, Progress, Removing
<1>12. CASE InputWritten
  BY <1>0, <1>12 DEF InputWritten, Goto, TypeOK, Creation, Progress, Removing
<1>13. CASE InputNotWritten
  BY <1>0, <1>13 DEF InputNotWritten, EnterCleanup, Goto, Mishap, TypeOK, Creation, Progress, Removing
<1>14. CASE RunnerAborted
  BY <1>0, <1>14 DEF RunnerAborted, Throw, EnterCleanup, Goto, TypeOK, Creation, Progress, Removing
<1>15. CASE RunnerLost
  BY <1>0, <1>15 DEF RunnerLost, Throw, EnterCleanup, Goto, Mishap, TypeOK, Creation, Progress, Removing
<1>16. CASE WorkspaceFound
  BY <1>0, <1>16 DEF WorkspaceFound, SetState, Proceed, Goto, TypeOK, Creation, Progress, Removing
<1>17. CASE WorkspaceAbsent
  BY <1>0, <1>17 DEF WorkspaceAbsent, AllDeleted, AbsenceProves, Finish, Goto, TypeOK, Creation, Progress, Removing
<1>18. CASE ChildFound
  BY <1>0, <1>18 DEF ChildFound, SetState, Proceed, Goto, TypeOK, Creation, Progress, Removing
<1>19. CASE ChildAbsent
  BY <1>0, <1>19 DEF ChildAbsent, SetState, Proceed, Goto, TypeOK, Creation, Progress, Removing
<1>20. CASE NeverAttempted
  BY <1>0, <1>20 DEF NeverAttempted, Proceed, Goto, TypeOK, Creation, Progress, Removing
<1>21. CASE FindInDoubt
  BY <1>0, <1>21 DEF FindInDoubt, Sees, GiveUp, Goto, TypeOK, Creation, Progress, Removing
<1>22. CASE SendDelete
  BY <1>0, <1>22 DEF SendDelete, Goto, TypeOK, Creation, Progress, Removing
<1>23. CASE DeleteAnswered
  BY <1>0, <1>23 DEF DeleteAnswered, Goto, Mishap, TypeOK, Creation, Progress, Removing
<1>24. CASE DeleteInDoubt
  BY <1>0, <1>24 DEF DeleteInDoubt, TimeOut, Goto, TypeOK, Creation, Progress, Removing
<1>25. CASE DeleteRefused
  BY <1>0, <1>25 DEF DeleteRefused, Mishap, Goto, TypeOK, Creation, Progress, Removing
<1>26. CASE Reread
  BY <1>0, <1>26 DEF Reread, Sees, MayRetry, Goto, TypeOK, Creation, Progress, Removing
<1>27. CASE ConfirmedAbsent
  BY <1>0, <1>27 DEF ConfirmedAbsent, SetState, Proceed, Finish, Goto, TypeOK, Creation, Progress, Removing
<1>28. CASE StillPresent
  BY <1>0, <1>28 DEF StillPresent, Sees, GiveUp, Goto, TypeOK, Creation, Progress, Removing
<1>29. CASE Emptied
  BY <1>0, <1>29 DEF Emptied, Proceed, Goto, RemovedBefore, TypeOK, Creation, Progress, Removing
<1>30. CASE FinalCheck
  BY <1>0, <1>30 DEF FinalCheck, Proceed, Goto, RemovedBefore, TypeOK, Creation, Progress, Removing
<1>31. CASE NotEmpty
  BY <1>0, <1>31 DEF NotEmpty, GiveUp, Goto, TypeOK, Creation, Progress, Removing
<1>32. CASE CleanupFails
  BY <1>0, <1>32 DEF CleanupFails, TimeOut, GiveUp, Goto, TypeOK, Creation, Progress, Removing
<1>33. CASE Abort
  BY <1>0, <1>33 DEF Abort, TypeOK, Creation, Progress, Removing
<1>34. ASSUME NEW result \in {"passed", "failed"}, RunnerExits(result)
      PROVE  Honest'
  BY <1>0, <1>34 DEF RunnerExits, EnterCleanup, Goto, TypeOK, Creation, Progress, Removing
<1>35. ASSUME NEW request \in Requests, Commits(request)
      PROVE  Honest'
  BY <1>0, <1>35, RequestsAre, RequestsDiffer DEF Commits, TypeOK, Creation, Progress, Removing
<1>36. ASSUME NEW r \in Resources, Drift(r)
      PROVE  Honest'
  BY <1>0, <1>36 DEF Drift, Mishap, TypeOK, Creation, Progress, Removing
<1>37. CASE UNCHANGED vars
  BY <1>0, <1>37 DEF vars, TypeOK, Creation, Progress, Removing
<1> QED
  BY <1>1, <1>2, <1>3, <1>4, <1>5, <1>6, <1>7, <1>8, <1>9, <1>10, <1>11, <1>12, <1>13, <1>14, <1>15, <1>16, <1>17, <1>18, <1>19, <1>20, <1>21, <1>22, <1>23, <1>24, <1>25, <1>26, <1>27, <1>28, <1>29, <1>30, <1>31, <1>32, <1>33, <1>34, <1>35, <1>36, <1>37, <1>38
     DEF Next, Execute, CleanUp, Runner, Done

(* What the cleanup is past is gone. *)
LEMMA NextProgress == IInv /\ [Next]_vars => Progress'
<1> SUFFICES ASSUME IInv, [Next]_vars  PROVE Progress'
  OBVIOUS
<1> USE DEF record, world, Resources, Children
<1>0. TypeOK /\ Creation /\ Honest /\ Progress
  BY DEF IInv
<1> USE DEF Progress, Past, Removing, Creating, Cleaning, Untouched
<1>1. CASE Policy
  BY <1>0, <1>1 DEF Policy, EnterCleanup, Goto, TypeOK, Creation, Honest, Gone
<1>2. CASE SendCreate
  BY <1>0, <1>2 DEF SendCreate, Goto, SetState, TypeOK, Creation, Honest, Gone
<1>3. CASE CreateAnswered
  BY <1>0, <1>3 DEF CreateAnswered, Goto, SetState, TypeOK, Creation, Honest, Gone
<1>4. CASE CreateInDoubt
  BY <1>0, <1>4 DEF CreateInDoubt, Throw, EnterCleanup, Goto, TimeOut, TypeOK, Creation, Honest, Gone
<1>5. CASE CreateRefused
  BY <1>0, <1>5 DEF CreateRefused, EnterCleanup, Goto, Mishap, TypeOK, Creation, Honest, Gone
<1>6. CASE CheckMatches
  BY <1>0, <1>6 DEF CheckMatches, Goto, SetState, TypeOK, Creation, Honest, Gone
<1>7. CASE NoMembers
  BY <1>0, <1>7 DEF NoMembers, Goto, FollowedBy, TypeOK, Creation, Honest, Gone
<1>8. CASE Minted
  BY <1>0, <1>8 DEF Minted, Goto, FollowedBy, TypeOK, Creation, Honest, Gone
<1>9. CASE CheckPasses
  BY <1>0, <1>9 DEF CheckPasses, Goto, NextCheck, Checked, TypeOK, Creation, Honest, Gone
<1>10. CASE Mismatch
  BY <1>0, <1>10 DEF Mismatch, Throw, EnterCleanup, Goto, Sees, Checked, TypeOK, Creation, Honest, Gone
<1>11. CASE StepFails
  BY <1>0, <1>11 DEF StepFails, Awaiting, Throw, EnterCleanup, Goto, TimeOut, TypeOK, Creation, Honest, Gone
<1>38. CASE StepAborted
  BY <1>0, <1>38 DEF StepAborted, Awaiting, Throw, EnterCleanup, Goto, TypeOK, Creation, Honest, Gone
<1>12. CASE InputWritten
  BY <1>0, <1>12 DEF InputWritten, Goto, TypeOK, Creation, Honest, Gone
<1>13. CASE InputNotWritten
  BY <1>0, <1>13 DEF InputNotWritten, EnterCleanup, Goto, Mishap, TypeOK, Creation, Honest, Gone
<1>14. CASE RunnerAborted
  BY <1>0, <1>14 DEF RunnerAborted, Throw, EnterCleanup, Goto, TypeOK, Creation, Honest, Gone
<1>15. CASE RunnerLost
  BY <1>0, <1>15 DEF RunnerLost, Throw, EnterCleanup, Goto, Mishap, TypeOK, Creation, Honest, Gone
<1>16. CASE WorkspaceFound
  BY <1>0, <1>16 DEF WorkspaceFound, SetState, Proceed, Goto, TypeOK, Creation, Honest, Gone
<1>17. CASE WorkspaceAbsent
  BY <1>0, <1>17 DEF WorkspaceAbsent, AllDeleted, AbsenceProves, Finish, Goto, TypeOK, Creation, Honest, Gone
<1>18. CASE ChildFound
  BY <1>0, <1>18 DEF ChildFound, SetState, Proceed, Goto, TypeOK, Creation, Honest, Gone
<1>19. CASE ChildAbsent
  BY <1>0, <1>19 DEF ChildAbsent, SetState, Proceed, Goto, TypeOK, Creation, Honest, Gone
<1>20. CASE NeverAttempted
  BY <1>0, <1>20 DEF NeverAttempted, Proceed, Goto, TypeOK, Creation, Honest, Gone
<1>21. CASE FindInDoubt
  BY <1>0, <1>21 DEF FindInDoubt, Sees, GiveUp, Goto, TypeOK, Creation, Honest, Gone
<1>22. CASE SendDelete
  BY <1>0, <1>22 DEF SendDelete, Goto, TypeOK, Creation, Honest, Gone
<1>23. CASE DeleteAnswered
  BY <1>0, <1>23 DEF DeleteAnswered, Goto, Mishap, TypeOK, Creation, Honest, Gone
<1>24. CASE DeleteInDoubt
  BY <1>0, <1>24 DEF DeleteInDoubt, TimeOut, Goto, TypeOK, Creation, Honest, Gone
<1>25. CASE DeleteRefused
  BY <1>0, <1>25 DEF DeleteRefused, Mishap, Goto, TypeOK, Creation, Honest, Gone
<1>26. CASE Reread
  BY <1>0, <1>26 DEF Reread, Sees, MayRetry, Goto, TypeOK, Creation, Honest, Gone
<1>27. CASE ConfirmedAbsent
  BY <1>0, <1>27 DEF ConfirmedAbsent, SetState, Proceed, Finish, Goto, TypeOK, Creation, Honest, Gone
<1>28. CASE StillPresent
  BY <1>0, <1>28 DEF StillPresent, Sees, GiveUp, Goto, TypeOK, Creation, Honest, Gone
<1>29. CASE Emptied
  BY <1>0, <1>29 DEF Emptied, Proceed, Goto, RemovedBefore, TypeOK, Creation, Honest, Gone
<1>30. CASE FinalCheck
  BY <1>0, <1>30 DEF FinalCheck, Proceed, Goto, RemovedBefore, TypeOK, Creation, Honest, Gone
<1>31. CASE NotEmpty
  BY <1>0, <1>31 DEF NotEmpty, GiveUp, Goto, TypeOK, Creation, Honest, Gone
<1>32. CASE CleanupFails
  BY <1>0, <1>32 DEF CleanupFails, TimeOut, GiveUp, Goto, TypeOK, Creation, Honest, Gone
<1>33. CASE Abort
  BY <1>0, <1>33 DEF Abort, TypeOK, Creation, Honest, Gone
<1>34. ASSUME NEW result \in {"passed", "failed"}, RunnerExits(result)
      PROVE  Progress'
  BY <1>0, <1>34 DEF RunnerExits, EnterCleanup, Goto, TypeOK, Creation, Honest, Gone
<1>35. ASSUME NEW request \in Requests, Commits(request)
      PROVE  Progress'
  BY <1>0, <1>35, RequestsAre, RequestsDiffer DEF Commits, TypeOK, Creation, Honest, Gone
<1>36. ASSUME NEW r \in Resources, Drift(r)
      PROVE  Progress'
  BY <1>0, <1>36 DEF Drift, Mishap, TypeOK, Creation, Honest, Gone
<1>37. CASE UNCHANGED vars
  BY <1>0, <1>37 DEF vars, TypeOK, Creation, Honest, Gone
<1> QED
  BY <1>1, <1>2, <1>3, <1>4, <1>5, <1>6, <1>7, <1>8, <1>9, <1>10, <1>11, <1>12, <1>13, <1>14, <1>15, <1>16, <1>17, <1>18, <1>19, <1>20, <1>21, <1>22, <1>23, <1>24, <1>25, <1>26, <1>27, <1>28, <1>29, <1>30, <1>31, <1>32, <1>33, <1>34, <1>35, <1>36, <1>37, <1>38
     DEF Next, Execute, CleanUp, Runner, Done

(* Deletions are those of the cleanup. *)
LEMMA NextDeletes == IInv /\ [Next]_vars => Deletes'
<1> SUFFICES ASSUME IInv, [Next]_vars  PROVE Deletes'
  OBVIOUS
<1> USE DEF record, world, Resources, Children
<1>0. TypeOK /\ Creation /\ Progress /\ Deletes
  BY DEF IInv
<1> USE RequestsDiffer DEF Deletes, Past, Removing, Creating, Cleaning
<1>1. CASE Policy
  BY <1>0, <1>1 DEF Policy, EnterCleanup, Goto, TypeOK
<1>2. CASE SendCreate
  BY <1>0, <1>2 DEF SendCreate, Goto, SetState, TypeOK
<1>3. CASE CreateAnswered
  BY <1>0, <1>3 DEF CreateAnswered, Goto, SetState, TypeOK
<1>4. CASE CreateInDoubt
  BY <1>0, <1>4 DEF CreateInDoubt, Throw, EnterCleanup, Goto, TimeOut, TypeOK
<1>5. CASE CreateRefused
  BY <1>0, <1>5 DEF CreateRefused, EnterCleanup, Goto, Mishap, TypeOK
<1>6. CASE CheckMatches
  BY <1>0, <1>6 DEF CheckMatches, Goto, SetState, TypeOK
<1>7. CASE NoMembers
  BY <1>0, <1>7 DEF NoMembers, Goto, FollowedBy, TypeOK
<1>8. CASE Minted
  BY <1>0, <1>8 DEF Minted, Goto, FollowedBy, TypeOK
<1>9. CASE CheckPasses
  BY <1>0, <1>9 DEF CheckPasses, Goto, NextCheck, Checked, TypeOK
<1>10. CASE Mismatch
  BY <1>0, <1>10 DEF Mismatch, Throw, EnterCleanup, Goto, Sees, Checked, TypeOK
<1>11. CASE StepFails
  BY <1>0, <1>11 DEF StepFails, Awaiting, Throw, EnterCleanup, Goto, TimeOut, TypeOK
<1>38. CASE StepAborted
  BY <1>0, <1>38 DEF StepAborted, Awaiting, Throw, EnterCleanup, Goto, TypeOK
<1>12. CASE InputWritten
  BY <1>0, <1>12 DEF InputWritten, Goto, TypeOK
<1>13. CASE InputNotWritten
  BY <1>0, <1>13 DEF InputNotWritten, EnterCleanup, Goto, Mishap, TypeOK
<1>14. CASE RunnerAborted
  BY <1>0, <1>14 DEF RunnerAborted, Throw, EnterCleanup, Goto, TypeOK
<1>15. CASE RunnerLost
  BY <1>0, <1>15 DEF RunnerLost, Throw, EnterCleanup, Goto, Mishap, TypeOK
<1>16. CASE WorkspaceFound
  BY <1>0, <1>16 DEF WorkspaceFound, SetState, Proceed, Goto, TypeOK
<1>17. CASE WorkspaceAbsent
  BY <1>0, <1>17 DEF WorkspaceAbsent, AllDeleted, AbsenceProves, Finish, Goto, TypeOK
<1>18. CASE ChildFound
  BY <1>0, <1>18 DEF ChildFound, SetState, Proceed, Goto, TypeOK
<1>19. CASE ChildAbsent
  BY <1>0, <1>19 DEF ChildAbsent, SetState, Proceed, Goto, TypeOK
<1>20. CASE NeverAttempted
  BY <1>0, <1>20 DEF NeverAttempted, Proceed, Goto, TypeOK
<1>21. CASE FindInDoubt
  BY <1>0, <1>21 DEF FindInDoubt, Sees, GiveUp, Goto, TypeOK
<1>22. CASE SendDelete
  BY <1>0, <1>22 DEF SendDelete, Goto, TypeOK
<1>23. CASE DeleteAnswered
  BY <1>0, <1>23 DEF DeleteAnswered, Goto, Mishap, TypeOK
<1>24. CASE DeleteInDoubt
  BY <1>0, <1>24 DEF DeleteInDoubt, TimeOut, Goto, TypeOK
<1>25. CASE DeleteRefused
  BY <1>0, <1>25 DEF DeleteRefused, Mishap, Goto, TypeOK
<1>26. CASE Reread
  BY <1>0, <1>26 DEF Reread, Sees, MayRetry, Goto, TypeOK
<1>27. CASE ConfirmedAbsent
  BY <1>0, <1>27 DEF ConfirmedAbsent, SetState, Proceed, Finish, Goto, TypeOK
<1>28. CASE StillPresent
  BY <1>0, <1>28 DEF StillPresent, Sees, GiveUp, Goto, TypeOK
<1>29. CASE Emptied
  <2>1. pc = "emptied" /\ on = "sandbox" /\ pc' = "find" /\ on' = "provider" /\ UNCHANGED <<state, pending>>
    BY <1>0, <1>29 DEF Emptied, Proceed, Goto, RemovedBefore, Progress
  <2> QED
    BY <1>0, <2>1
<1>30. CASE FinalCheck
  BY <1>0, <1>30 DEF FinalCheck, Proceed, Goto, RemovedBefore, TypeOK
<1>31. CASE NotEmpty
  BY <1>0, <1>31 DEF NotEmpty, GiveUp, Goto, TypeOK
<1>32. CASE CleanupFails
  BY <1>0, <1>32 DEF CleanupFails, TimeOut, GiveUp, Goto, TypeOK
<1>33. CASE Abort
  BY <1>0, <1>33 DEF Abort, TypeOK
<1>34. ASSUME NEW result \in {"passed", "failed"}, RunnerExits(result)
      PROVE  Deletes'
  BY <1>0, <1>34 DEF RunnerExits, EnterCleanup, Goto, TypeOK
<1>35. ASSUME NEW request \in Requests, Commits(request)
      PROVE  Deletes'
  BY <1>0, <1>35, RequestsAre, RequestsDiffer DEF Commits, TypeOK
<1>36. ASSUME NEW r \in Resources, Drift(r)
      PROVE  Deletes'
  BY <1>0, <1>36 DEF Drift, Mishap, TypeOK
<1>37. CASE UNCHANGED vars
  BY <1>0, <1>37 DEF vars, TypeOK
<1> QED
  BY <1>1, <1>2, <1>3, <1>4, <1>5, <1>6, <1>7, <1>8, <1>9, <1>10, <1>11, <1>12, <1>13, <1>14, <1>15, <1>16, <1>17, <1>18, <1>19, <1>20, <1>21, <1>22, <1>23, <1>24, <1>25, <1>26, <1>27, <1>28, <1>29, <1>30, <1>31, <1>32, <1>33, <1>34, <1>35, <1>36, <1>37, <1>38
     DEF Next, Execute, CleanUp, Runner, Done

(* Each request to delete finds gone what depends on its resource. *)
LEMMA NextChildrenFirst == IInv /\ [Next]_vars => ChildrenFirst'
<1> SUFFICES ASSUME IInv, [Next]_vars  PROVE ChildrenFirst'
  OBVIOUS
<1> USE DEF record, world, Resources, Children
<1>0. TypeOK /\ Honest /\ Progress /\ Deletes /\ ChildrenFirst
  BY DEF IInv
<1> USE RequestsDiffer DEF ChildrenFirst
<1>1. CASE Policy
  BY <1>0, <1>1 DEF Policy, EnterCleanup, Goto, TypeOK, Honest, Gone, Progress, Past, Removing, Deletes, Creating
<1>2. CASE SendCreate
  BY <1>0, <1>2 DEF SendCreate, Goto, SetState, TypeOK, Honest, Gone, Progress, Past, Removing, Deletes, Creating
<1>3. CASE CreateAnswered
  BY <1>0, <1>3 DEF CreateAnswered, Goto, SetState, TypeOK, Honest, Gone, Progress, Past, Removing, Deletes, Creating
<1>4. CASE CreateInDoubt
  BY <1>0, <1>4 DEF CreateInDoubt, Throw, EnterCleanup, Goto, TimeOut, TypeOK, Honest, Gone, Progress, Past, Removing, Deletes, Creating
<1>5. CASE CreateRefused
  BY <1>0, <1>5 DEF CreateRefused, EnterCleanup, Goto, Mishap, TypeOK, Honest, Gone, Progress, Past, Removing, Deletes, Creating
<1>6. CASE CheckMatches
  BY <1>0, <1>6 DEF CheckMatches, Goto, SetState, TypeOK, Honest, Gone, Progress, Past, Removing, Deletes, Creating
<1>7. CASE NoMembers
  BY <1>0, <1>7 DEF NoMembers, Goto, FollowedBy, TypeOK, Honest, Gone, Progress, Past, Removing, Deletes, Creating
<1>8. CASE Minted
  BY <1>0, <1>8 DEF Minted, Goto, FollowedBy, TypeOK, Honest, Gone, Progress, Past, Removing, Deletes, Creating
<1>9. CASE CheckPasses
  BY <1>0, <1>9 DEF CheckPasses, Goto, NextCheck, Checked, TypeOK, Honest, Gone, Progress, Past, Removing, Deletes, Creating
<1>10. CASE Mismatch
  BY <1>0, <1>10 DEF Mismatch, Throw, EnterCleanup, Goto, Sees, Checked, TypeOK, Honest, Gone, Progress, Past, Removing, Deletes, Creating
<1>11. CASE StepFails
  BY <1>0, <1>11 DEF StepFails, Awaiting, Throw, EnterCleanup, Goto, TimeOut, TypeOK, Honest, Gone, Progress, Past, Removing, Deletes, Creating
<1>38. CASE StepAborted
  BY <1>0, <1>38 DEF StepAborted, Awaiting, Throw, EnterCleanup, Goto, TypeOK, Honest, Gone, Progress, Past, Removing, Deletes, Creating
<1>12. CASE InputWritten
  BY <1>0, <1>12 DEF InputWritten, Goto, TypeOK, Honest, Gone, Progress, Past, Removing, Deletes, Creating
<1>13. CASE InputNotWritten
  BY <1>0, <1>13 DEF InputNotWritten, EnterCleanup, Goto, Mishap, TypeOK, Honest, Gone, Progress, Past, Removing, Deletes, Creating
<1>14. CASE RunnerAborted
  BY <1>0, <1>14 DEF RunnerAborted, Throw, EnterCleanup, Goto, TypeOK, Honest, Gone, Progress, Past, Removing, Deletes, Creating
<1>15. CASE RunnerLost
  BY <1>0, <1>15 DEF RunnerLost, Throw, EnterCleanup, Goto, Mishap, TypeOK, Honest, Gone, Progress, Past, Removing, Deletes, Creating
<1>16. CASE WorkspaceFound
  BY <1>0, <1>16 DEF WorkspaceFound, SetState, Proceed, Goto, TypeOK, Honest, Gone, Progress, Past, Removing, Deletes, Creating
<1>17. CASE WorkspaceAbsent
  BY <1>0, <1>17 DEF WorkspaceAbsent, AllDeleted, AbsenceProves, Finish, Goto, TypeOK, Honest, Gone, Progress, Past, Removing, Deletes, Creating
<1>18. CASE ChildFound
  BY <1>0, <1>18 DEF ChildFound, SetState, Proceed, Goto, TypeOK, Honest, Gone, Progress, Past, Removing, Deletes, Creating
<1>19. CASE ChildAbsent
  BY <1>0, <1>19 DEF ChildAbsent, SetState, Proceed, Goto, TypeOK, Honest, Gone, Progress, Past, Removing, Deletes, Creating
<1>20. CASE NeverAttempted
  BY <1>0, <1>20 DEF NeverAttempted, Proceed, Goto, TypeOK, Honest, Gone, Progress, Past, Removing, Deletes, Creating
<1>21. CASE FindInDoubt
  BY <1>0, <1>21 DEF FindInDoubt, Sees, GiveUp, Goto, TypeOK, Honest, Gone, Progress, Past, Removing, Deletes, Creating
<1>22. CASE SendDelete
  BY <1>0, <1>22 DEF SendDelete, Goto, TypeOK, Honest, Gone, Progress, Past, Removing, Deletes, Creating
<1>23. CASE DeleteAnswered
  BY <1>0, <1>23 DEF DeleteAnswered, Goto, Mishap, TypeOK, Honest, Gone, Progress, Past, Removing, Deletes, Creating
<1>24. CASE DeleteInDoubt
  BY <1>0, <1>24 DEF DeleteInDoubt, TimeOut, Goto, TypeOK, Honest, Gone, Progress, Past, Removing, Deletes, Creating
<1>25. CASE DeleteRefused
  BY <1>0, <1>25 DEF DeleteRefused, Mishap, Goto, TypeOK, Honest, Gone, Progress, Past, Removing, Deletes, Creating
<1>26. CASE Reread
  BY <1>0, <1>26 DEF Reread, Sees, MayRetry, Goto, TypeOK, Honest, Gone, Progress, Past, Removing, Deletes, Creating
<1>27. CASE ConfirmedAbsent
  BY <1>0, <1>27 DEF ConfirmedAbsent, SetState, Proceed, Finish, Goto, TypeOK, Honest, Gone, Progress, Past, Removing, Deletes, Creating
<1>28. CASE StillPresent
  BY <1>0, <1>28 DEF StillPresent, Sees, GiveUp, Goto, TypeOK, Honest, Gone, Progress, Past, Removing, Deletes, Creating
<1>29. CASE Emptied
  BY <1>0, <1>29 DEF Emptied, Proceed, Goto, RemovedBefore, TypeOK, Honest, Gone, Progress, Past, Removing, Deletes, Creating
<1>30. CASE FinalCheck
  BY <1>0, <1>30 DEF FinalCheck, Proceed, Goto, RemovedBefore, TypeOK, Honest, Gone, Progress, Past, Removing, Deletes, Creating
<1>31. CASE NotEmpty
  BY <1>0, <1>31 DEF NotEmpty, GiveUp, Goto, TypeOK, Honest, Gone, Progress, Past, Removing, Deletes, Creating
<1>32. CASE CleanupFails
  BY <1>0, <1>32 DEF CleanupFails, TimeOut, GiveUp, Goto, TypeOK, Honest, Gone, Progress, Past, Removing, Deletes, Creating
<1>33. CASE Abort
  BY <1>0, <1>33 DEF Abort, TypeOK, Honest, Gone, Progress, Past, Removing, Deletes, Creating
<1>34. ASSUME NEW result \in {"passed", "failed"}, RunnerExits(result)
      PROVE  ChildrenFirst'
  BY <1>0, <1>34 DEF RunnerExits, EnterCleanup, Goto, TypeOK, Honest, Gone, Progress, Past, Removing, Deletes, Creating
<1>35. ASSUME NEW request \in Requests, Commits(request)
      PROVE  ChildrenFirst'
  BY <1>0, <1>35, RequestsAre, RequestsDiffer DEF Commits, TypeOK, Honest, Gone, Progress, Past, Removing, Deletes, Creating
<1>36. ASSUME NEW r \in Resources, Drift(r)
      PROVE  ChildrenFirst'
  BY <1>0, <1>36 DEF Drift, Mishap, TypeOK, Honest, Gone, Progress, Past, Removing, Deletes, Creating
<1>37. CASE UNCHANGED vars
  BY <1>0, <1>37 DEF vars, TypeOK, Honest, Gone, Progress, Past, Removing, Deletes, Creating
<1> QED
  BY <1>1, <1>2, <1>3, <1>4, <1>5, <1>6, <1>7, <1>8, <1>9, <1>10, <1>11, <1>12, <1>13, <1>14, <1>15, <1>16, <1>17, <1>18, <1>19, <1>20, <1>21, <1>22, <1>23, <1>24, <1>25, <1>26, <1>27, <1>28, <1>29, <1>30, <1>31, <1>32, <1>33, <1>34, <1>35, <1>36, <1>37, <1>38
     DEF Next, Execute, CleanUp, Runner, Done

(* What is another's stays out of the reach of the cleanup. *)
LEMMA NextStrangers == IInv /\ [Next]_vars => Strangers'
<1> SUFFICES ASSUME IInv, [Next]_vars  PROVE Strangers'
  OBVIOUS
<1> USE DEF record, world, Resources, Children
<1>0. TypeOK /\ Creation /\ Honest /\ Progress /\ Deletes /\ Strangers
  BY DEF IInv
<1> USE RequestsDiffer DEF Strangers, Past, Removing, Creating, Cleaning
<1>1. CASE Policy
  BY <1>0, <1>1 DEF Policy, EnterCleanup, Goto, TypeOK, Creation, Honest, Deletes
<1>2. CASE SendCreate
  BY <1>0, <1>2 DEF SendCreate, Goto, SetState, TypeOK, Creation, Honest, Deletes
<1>3. CASE CreateAnswered
  BY <1>0, <1>3 DEF CreateAnswered, Goto, SetState, TypeOK, Creation, Honest, Deletes
<1>4. CASE CreateInDoubt
  BY <1>0, <1>4 DEF CreateInDoubt, Throw, EnterCleanup, Goto, TimeOut, TypeOK, Creation, Honest, Deletes
<1>5. CASE CreateRefused
  BY <1>0, <1>5 DEF CreateRefused, EnterCleanup, Goto, Mishap, TypeOK, Creation, Honest, Deletes
<1>6. CASE CheckMatches
  BY <1>0, <1>6 DEF CheckMatches, Goto, SetState, TypeOK, Creation, Honest, Deletes
<1>7. CASE NoMembers
  BY <1>0, <1>7 DEF NoMembers, Goto, FollowedBy, TypeOK, Creation, Honest, Deletes
<1>8. CASE Minted
  BY <1>0, <1>8 DEF Minted, Goto, FollowedBy, TypeOK, Creation, Honest, Deletes
<1>9. CASE CheckPasses
  BY <1>0, <1>9 DEF CheckPasses, Goto, NextCheck, Checked, TypeOK, Creation, Honest, Deletes
<1>10. CASE Mismatch
  <2>1. PICK r \in Resources : Sees(r) /\ gateway[r] # "ours" /\ state[r] \in {"unknown", "created"}
    /\ Create(r) \notin pending /\ pc \in Creating
    <3>1. CASE pc = "check"
      BY <1>0, <1>10, <3>1 DEF Mismatch, Creation, TypeOK, Checked
    <3>2. CASE pc # "check"
      BY <1>0, <1>10, <3>2 DEF Mismatch, Creation, Honest, Checked
    <3> QED
      BY <3>1, <3>2
  <2>2. pc' \in {"find", "done"} /\ UNCHANGED <<state, gateway, pending>>
    BY <1>10 DEF Mismatch, Throw, EnterCleanup, Goto
  <2>3. pc' = "find" => on' = "workspace"
    BY <1>10 DEF Mismatch, Throw, EnterCleanup, Goto
  <2>4. strangers' \subseteq {r} /\ (strangers' # {} => gateway[r] = "other")
    BY <1>0, <2>1 DEF Sees
  <2> QED
    BY <2>1, <2>2, <2>3, <2>4
<1>11. CASE StepFails
  BY <1>0, <1>11 DEF StepFails, Awaiting, Throw, EnterCleanup, Goto, TimeOut, TypeOK, Creation, Honest, Deletes
<1>38. CASE StepAborted
  BY <1>0, <1>38 DEF StepAborted, Awaiting, Throw, EnterCleanup, Goto, TypeOK, Creation, Honest, Deletes
<1>12. CASE InputWritten
  BY <1>0, <1>12 DEF InputWritten, Goto, TypeOK, Creation, Honest, Deletes
<1>13. CASE InputNotWritten
  BY <1>0, <1>13 DEF InputNotWritten, EnterCleanup, Goto, Mishap, TypeOK, Creation, Honest, Deletes
<1>14. CASE RunnerAborted
  BY <1>0, <1>14 DEF RunnerAborted, Throw, EnterCleanup, Goto, TypeOK, Creation, Honest, Deletes
<1>15. CASE RunnerLost
  BY <1>0, <1>15 DEF RunnerLost, Throw, EnterCleanup, Goto, Mishap, TypeOK, Creation, Honest, Deletes
<1>16. CASE WorkspaceFound
  BY <1>0, <1>16 DEF WorkspaceFound, SetState, Proceed, Goto, TypeOK, Creation, Honest, Deletes
<1>17. CASE WorkspaceAbsent
  BY <1>0, <1>17 DEF WorkspaceAbsent, AllDeleted, AbsenceProves, Finish, Goto, TypeOK, Creation, Honest, Deletes
<1>18. CASE ChildFound
  BY <1>0, <1>18 DEF ChildFound, SetState, Proceed, Goto, TypeOK, Creation, Honest, Deletes
<1>19. CASE ChildAbsent
  <2>1. /\ pc = "find" /\ on \in Children /\ gateway[on] = "absent" /\ UNCHANGED <<gateway, pending, strangers>>
        /\ state' = [state EXCEPT ![on] = "deleted"]
    BY <1>19 DEF ChildAbsent, SetState
  <2>2. /\ on = "sandbox" => pc' = "emptied" /\ on' = "sandbox"
        /\ on = "provider" => pc' = "find" /\ on' = "profile"
        /\ on = "profile" => pc' = "final" /\ on' = "workspace"
    BY <1>19 DEF ChildAbsent, Proceed, Goto
  <2>3. "workspace" \notin strangers
    BY <1>0, <2>1 DEF Strangers
  <2> QED
    BY <1>0, <2>1, <2>2, <2>3 DEF TypeOK
<1>20. CASE NeverAttempted
  <2>1. /\ pc = "find" /\ on \in {"profile", "provider"} /\ state[on] = "not-attempted"
        /\ UNCHANGED <<state, gateway, pending, strangers>>
    BY <1>20 DEF NeverAttempted
  <2>2. /\ on = "provider" => pc' = "find" /\ on' = "profile"
        /\ on = "profile" => pc' = "final" /\ on' = "workspace"
    BY <1>20 DEF NeverAttempted, Proceed, Goto
  <2>3. "workspace" \notin strangers
    BY <1>0, <2>1
  <2> QED
    BY <1>0, <2>1, <2>2, <2>3 DEF TypeOK
<1>21. CASE FindInDoubt
  BY <1>0, <1>21 DEF FindInDoubt, Sees, GiveUp, Goto, TypeOK, Creation, Honest, Deletes
<1>22. CASE SendDelete
  BY <1>0, <1>22 DEF SendDelete, Goto, TypeOK, Creation, Honest, Deletes
<1>23. CASE DeleteAnswered
  BY <1>0, <1>23 DEF DeleteAnswered, Goto, Mishap, TypeOK, Creation, Honest, Deletes
<1>24. CASE DeleteInDoubt
  BY <1>0, <1>24 DEF DeleteInDoubt, TimeOut, Goto, TypeOK, Creation, Honest, Deletes
<1>25. CASE DeleteRefused
  BY <1>0, <1>25 DEF DeleteRefused, Mishap, Goto, TypeOK, Creation, Honest, Deletes
<1>26. CASE Reread
  BY <1>0, <1>26 DEF Reread, Sees, MayRetry, Goto, TypeOK, Creation, Honest, Deletes
<1>27. CASE ConfirmedAbsent
  <2>1. /\ pc = "confirm" /\ gateway[on] = "absent" /\ UNCHANGED <<gateway, pending, strangers>>
        /\ state' = [state EXCEPT ![on] = "deleted"]
    BY <1>27 DEF ConfirmedAbsent, SetState
  <2>2. /\ on = "sandbox" => pc' = "emptied" /\ on' = "sandbox"
        /\ on = "provider" => pc' = "find" /\ on' = "profile"
        /\ on = "profile" => pc' = "final" /\ on' = "workspace"
        /\ on = "workspace" => pc' = "done"
    BY <1>27 DEF ConfirmedAbsent, Proceed, Finish, Goto
  <2>3. "workspace" \notin strangers
    BY <1>0, <2>1
  <2> QED
    BY <1>0, <2>1, <2>2, <2>3 DEF TypeOK
<1>28. CASE StillPresent
  BY <1>0, <1>28 DEF StillPresent, Sees, GiveUp, Goto, TypeOK, Creation, Honest, Deletes
<1>29. CASE Emptied
  BY <1>0, <1>29 DEF Emptied, Proceed, Goto, RemovedBefore, TypeOK, Creation, Honest, Deletes
<1>30. CASE FinalCheck
  BY <1>0, <1>30 DEF FinalCheck, Proceed, Goto, RemovedBefore, TypeOK, Creation, Honest, Deletes
<1>31. CASE NotEmpty
  BY <1>0, <1>31 DEF NotEmpty, GiveUp, Goto, TypeOK, Creation, Honest, Deletes
<1>32. CASE CleanupFails
  BY <1>0, <1>32 DEF CleanupFails, TimeOut, GiveUp, Goto, TypeOK, Creation, Honest, Deletes
<1>33. CASE Abort
  BY <1>0, <1>33 DEF Abort, TypeOK, Creation, Honest, Deletes
<1>34. ASSUME NEW result \in {"passed", "failed"}, RunnerExits(result)
      PROVE  Strangers'
  BY <1>0, <1>34 DEF RunnerExits, EnterCleanup, Goto, TypeOK, Creation, Honest, Deletes
<1>35. ASSUME NEW request \in Requests, Commits(request)
      PROVE  Strangers'
  BY <1>0, <1>35, RequestsAre, RequestsDiffer DEF Commits, TypeOK, Creation, Honest, Deletes
<1>36. ASSUME NEW r \in Resources, Drift(r)
      PROVE  Strangers'
  BY <1>0, <1>36 DEF Drift, Mishap, TypeOK, Creation, Honest, Deletes
<1>37. CASE UNCHANGED vars
  BY <1>0, <1>37 DEF vars, TypeOK, Creation, Honest, Deletes
<1> QED
  BY <1>1, <1>2, <1>3, <1>4, <1>5, <1>6, <1>7, <1>8, <1>9, <1>10, <1>11, <1>12, <1>13, <1>14, <1>15, <1>16, <1>17, <1>18, <1>19, <1>20, <1>21, <1>22, <1>23, <1>24, <1>25, <1>26, <1>27, <1>28, <1>29, <1>30, <1>31, <1>32, <1>33, <1>34, <1>35, <1>36, <1>37, <1>38
     DEF Next, Execute, CleanUp, Runner, Done

(* What is clean stays so until the first mishap. *)
LEMMA Mishaps == TypeOK /\ (Mishap \/ TimeOut) => mishaps' # 0
BY SessionAssumption DEF TypeOK, Mishap, TimeOut

LEMMA NextClean == IInv /\ [Next]_vars => Clean'
<1> SUFFICES ASSUME IInv, [Next]_vars  PROVE Clean'
  OBVIOUS
<1> USE DEF record, world, Resources, Children
<1>0. TypeOK /\ Creation /\ Honest /\ Progress /\ Deletes /\ Clean
  BY DEF IInv
<1>a. TypeOK'
  BY NextTypeOK
<1> USE RequestsDiffer
<1>1. CASE Policy
  <2>1. completion = "not-created" /\ state["workspace"] = "not-attempted"
        /\ state["sandbox"] = "not-attempted" /\ \A r \in Resources : state[r] = "not-attempted"
    BY <1>0, <1>1 DEF Policy, Progress, Creation, Untouched, Creating
  <2>2. \/ pc' = "create" /\ UNCHANGED record
        \/ pc' = "done" /\ completion' = completion /\ UNCHANGED state
    BY <1>1, <2>1 DEF Policy, EnterCleanup, Goto
  <2>3. UNCHANGED <<gateway, pending, mishaps>>
    BY <1>1 DEF Policy
  <2> QED
    BY <1>0, <2>1, <2>2, <2>3 DEF Creating, Cleaning, Clean
<1>2. CASE SendCreate
  BY <1>0, <1>2 DEF SendCreate, Goto, SetState, TypeOK, Creation, Progress, Removing, Honest,
        Gone, Past, Creating, Cleaning, Clean
<1>3. CASE CreateAnswered
  <2>1. UNCHANGED <<gateway, mishaps>> /\ pc \in Creating /\ pc' \in Creating
    BY <1>0, <1>3 DEF CreateAnswered, Goto, Creating, TypeOK
  <2>2. \A r \in Resources : state'[r] = "created" => gateway[r] = "ours" \/ state[r] = "created"
    BY <1>0, <1>3 DEF CreateAnswered, SetState, TypeOK
  <2>3. gateway[on] = "ours" /\ (pc' = "check" => on' = on)
    BY <1>0, <1>3 DEF CreateAnswered, Goto, TypeOK
  <2> QED
    BY <1>0, <2>1, <2>2, <2>3 DEF Creating, Cleaning, Clean
<1>4. CASE CreateInDoubt
  <2>1. CASE TimeOut
    BY <1>0, <1>4, <2>1, Mishaps DEF Clean
  <2>2. CASE ~TimeOut
    <3>1. pc = "creating" /\ EnterCleanup("unknown") /\ UNCHANGED <<gateway, mishaps>>
      BY <1>4, <2>2 DEF CreateInDoubt, Throw
    <3>2. state["workspace"] # "not-attempted"
      BY <1>0, <3>1 DEF Creation, Untouched, TypeOK
    <3>3. pc' = "find" /\ doubtful'
      BY <3>1, <3>2 DEF EnterCleanup, Goto
    <3> QED
      BY <1>0, <3>1, <3>3 DEF Clean, Creating
  <2> QED
    BY <2>1, <2>2
<1>5. CASE CreateRefused
  BY <1>0, <1>5, Mishaps DEF CreateRefused, Clean
<1>6. CASE CheckMatches
  BY <1>0, <1>6 DEF CheckMatches, Goto, SetState, TypeOK, Creation, Progress, Removing, Honest,
        Gone, Past, Creating, Cleaning, Clean
<1>7. CASE NoMembers
  BY <1>0, <1>7 DEF NoMembers, Goto, FollowedBy, TypeOK, Creation, Progress, Removing, Honest,
        Gone, Past, Creating, Cleaning, Clean
<1>8. CASE Minted
  BY <1>0, <1>8 DEF Minted, Goto, FollowedBy, TypeOK, Creation, Progress, Removing, Honest, Gone,
        Past, Creating, Cleaning, Clean
<1>9. CASE CheckPasses
  BY <1>0, <1>9 DEF CheckPasses, Goto, NextCheck, Checked, TypeOK, Creation, Progress, Removing,
        Honest, Gone, Past, Creating, Cleaning, Clean
<1>10. CASE Mismatch
  BY <1>0, <1>10 DEF Mismatch, Throw, EnterCleanup, Goto, Sees, Checked, TypeOK, Creation,
        Progress, Removing, Honest, Gone, Past, Creating, Cleaning, Clean
<1>11. CASE StepFails
  BY <1>0, <1>11, Mishaps DEF StepFails, Clean
<1>38. CASE StepAborted
  <2>1. /\ pc \in Awaiting \/ (pc = "create" /\ on # "profile")
        /\ EnterCleanup("unknown") /\ UNCHANGED <<state, gateway, pending, mishaps>>
    BY <1>38 DEF StepAborted, Throw
  <2>2. CASE state["workspace"] = "not-attempted" /\ state["sandbox"] = "not-attempted"
    <3>1. pc' = "done" /\ completion' = "not-created"
      BY <1>0, <2>1, <2>2 DEF EnterCleanup, Goto, Progress, Creating, Awaiting
    <3> QED
      BY <1>0, <2>1, <3>1 DEF Clean, Creating, Cleaning
  <2>3. CASE ~(state["workspace"] = "not-attempted" /\ state["sandbox"] = "not-attempted")
    <3>1. pc' = "find"
      BY <2>1, <2>3 DEF EnterCleanup, Goto
    <3>2. state["workspace"] = "created"
      BY <1>0, <2>1, <2>3 DEF Creation, Untouched, Later, Awaiting, TypeOK
    <3>3. \A r \in Resources : state[r] = "unknown" => pc = "check" /\ on = r
      BY <1>0, <2>1, <2>3 DEF Creation, Later, Awaiting, TypeOK
    <3>4. pc \in Creating
      BY <2>1 DEF Awaiting, Creating
    <3> QED
      BY <1>0, <2>1, <3>1, <3>2, <3>3, <3>4 DEF Clean, Creating, Cleaning, Removing
  <2> QED
    BY <2>2, <2>3
<1>12. CASE InputWritten
  BY <1>0, <1>12 DEF InputWritten, Goto, TypeOK, Creation, Progress, Removing, Honest, Gone, Past,
        Creating, Cleaning, Clean
<1>13. CASE InputNotWritten
  BY <1>0, <1>13, Mishaps DEF InputNotWritten, Clean
<1>14. CASE RunnerAborted
  BY <1>0, <1>14 DEF RunnerAborted, Throw, EnterCleanup, Goto, TypeOK, Creation, Progress,
        Removing, Honest, Gone, Past, Creating, Cleaning, Clean
<1>15. CASE RunnerLost
  BY <1>0, <1>15, Mishaps DEF RunnerLost, Clean
<1>16. CASE WorkspaceFound
  BY <1>0, <1>16 DEF WorkspaceFound, SetState, Proceed, Goto, TypeOK, Creation, Progress,
        Removing, Honest, Gone, Past, Creating, Cleaning, Clean
<1>17. CASE WorkspaceAbsent
  BY <1>0, <1>17 DEF WorkspaceAbsent, AllDeleted, AbsenceProves, Finish, Goto, TypeOK, Creation,
        Progress, Removing, Honest, Gone, Past, Creating, Cleaning, Clean
<1>18. CASE ChildFound
  BY <1>0, <1>18 DEF ChildFound, SetState, Proceed, Goto, TypeOK, Creation, Progress, Removing,
        Honest, Gone, Past, Creating, Cleaning, Clean
<1>19. CASE ChildAbsent
  BY <1>0, <1>19 DEF ChildAbsent, SetState, Proceed, Goto, TypeOK, Creation, Progress, Removing,
        Honest, Gone, Past, Creating, Cleaning, Clean
<1>20. CASE NeverAttempted
  BY <1>0, <1>20 DEF NeverAttempted, Proceed, Goto, TypeOK, Creation, Progress, Removing, Honest,
        Gone, Past, Creating, Cleaning, Clean
<1>21. CASE FindInDoubt
  BY <1>0, <1>21 DEF FindInDoubt, Sees, GiveUp, Goto, TypeOK, Creation, Progress, Removing,
        Honest, Gone, Past, Creating, Cleaning, Clean
<1>22. CASE SendDelete
  BY <1>0, <1>22 DEF SendDelete, Goto, TypeOK, Creation, Progress, Removing, Honest, Gone, Past,
        Creating, Cleaning, Clean
<1>23. CASE DeleteAnswered
  BY <1>0, <1>23 DEF DeleteAnswered, Goto, Mishap, TypeOK, Creation, Progress, Removing, Honest,
        Gone, Past, Creating, Cleaning, Clean
<1>24. CASE DeleteInDoubt
  BY <1>0, <1>24, Mishaps DEF DeleteInDoubt, Clean
<1>25. CASE DeleteRefused
  BY <1>0, <1>25, Mishaps DEF DeleteRefused, Clean
<1>26. CASE Reread
  BY <1>0, <1>26 DEF Reread, Sees, MayRetry, Goto, TypeOK, Creation, Progress, Removing, Honest,
        Gone, Past, Creating, Cleaning, Clean
<1>27. CASE ConfirmedAbsent
  <2>1. UNCHANGED <<gateway, pending, mishaps, doubtful>> /\ gateway[on] = "absent"
        /\ state' = [state EXCEPT ![on] = "deleted"] /\ pc = "confirm"
    BY <1>27 DEF ConfirmedAbsent, SetState
  <2>2. CASE on = "workspace"
    <3>1. pc' = "done" /\ completion' = "gone"
      BY <1>27, <2>2 DEF ConfirmedAbsent, Finish, Goto
    <3> QED
      BY <1>0, <2>1, <3>1 DEF Creating, Cleaning, Clean
  <2>3. CASE on # "workspace"
    <3>1. pc' \in {"emptied", "find", "final"}
      BY <1>0, <1>27, <2>3 DEF ConfirmedAbsent, Proceed, Goto, TypeOK
    <3>2. state'["workspace"] = state["workspace"]
          /\ \A r \in Resources : state'[r] = (IF r = on THEN "deleted" ELSE state[r])
      BY <1>0, <2>1, <2>3 DEF TypeOK
    <3> QED
      BY <1>0, <2>1, <3>1, <3>2 DEF Creating, Cleaning, Clean, Removing
  <2> QED
    BY <2>2, <2>3
<1>28. CASE StillPresent
  BY <1>0, <1>28 DEF StillPresent, Sees, GiveUp, Goto, TypeOK, Creation, Progress, Removing,
        Honest, Gone, Past, Creating, Cleaning, Clean
<1>29. CASE Emptied
  BY <1>0, <1>29 DEF Emptied, Proceed, Goto, RemovedBefore, TypeOK, Creation, Progress, Removing,
        Honest, Gone, Past, Creating, Cleaning, Clean
<1>30. CASE FinalCheck
  BY <1>0, <1>30 DEF FinalCheck, Proceed, Goto, RemovedBefore, TypeOK, Creation, Progress,
        Removing, Honest, Gone, Past, Creating, Cleaning, Clean
<1>31. CASE NotEmpty
  BY <1>0, <1>31 DEF NotEmpty, GiveUp, Goto, TypeOK, Creation, Progress, Removing, Honest, Gone,
        Past, Creating, Cleaning, Clean
<1>32. CASE CleanupFails
  BY <1>0, <1>32, Mishaps DEF CleanupFails, Clean
<1>33. CASE Abort
  BY <1>0, <1>33 DEF Abort, TypeOK, Creation, Progress, Removing, Honest, Gone, Past, Creating,
        Cleaning, Clean
<1>34. ASSUME NEW result \in {"passed", "failed"}, RunnerExits(result)
      PROVE  Clean'
  BY <1>0, <1>34 DEF RunnerExits, EnterCleanup, Goto, TypeOK, Creation, Progress, Removing,
        Honest, Gone, Past, Creating, Cleaning, Clean
<1>35. ASSUME NEW request \in Requests, Commits(request)
      PROVE  Clean'
  <2>1. PICK r \in Resources : request = Create(r) \/ request = Delete(r)
    BY RequestsAre
  <2>2. UNCHANGED <<pc, on, state, completion, doubtful, mishaps>>
        /\ pending' = pending \ {request} /\ request \in pending
    BY <1>35 DEF Commits
  <2>3. CASE request = Create(r)
    <3>1. gateway' = [gateway EXCEPT ![r] = "ours"]
      BY <1>35, <2>3 DEF Commits, Create
    <3>2. state[r] # "created"
      BY <1>0, <2>2, <2>3 DEF Honest
    <3>3. \A q \in Resources : gateway'[q] = IF q = r THEN "ours" ELSE gateway[q]
      BY <1>0, <3>1 DEF TypeOK
    <3>4. \A q \in Resources : Delete(q) \in pending => Delete(q) \in pending'
      BY <2>2, <2>3
    <3>5. Removing => on # r
      BY <1>0, <3>2 DEF Progress
    <3> QED
      BY <1>0, <2>2, <3>2, <3>3, <3>4, <3>5 DEF Clean, Removing, TypeOK
  <2>4. CASE request = Delete(r)
    <3>1. gateway' = [gateway EXCEPT ![r] = "absent"]
      BY <1>35, <2>4 DEF Commits, Delete
    <3>2. pc \notin Creating
          /\ (pc = "done" \/ (Removing /\ on = r) \/ (r \in Children /\ Past(r)))
      BY <1>0, <2>2, <2>4 DEF Deletes
    <3>3. \A q \in Resources : gateway'[q] = IF q = r THEN "absent" ELSE gateway[q]
      BY <1>0, <3>1 DEF TypeOK
    <3>4. \A q \in Resources : q # r /\ Delete(q) \in pending => Delete(q) \in pending'
      BY <2>2, <2>4
    <3>5. pc = "done" \/ (Removing /\ on = r) \/ state[r] \notin {"unknown", "created"}
      BY <1>0, <3>2 DEF Progress
    <3> QED
      BY <1>0, <2>2, <3>2, <3>3, <3>4, <3>5 DEF Clean, Removing, TypeOK, Cleaning, Creating
  <2> QED
    BY <2>1, <2>3, <2>4
<1>36. ASSUME NEW r \in Resources, Drift(r)
      PROVE  Clean'
  BY <1>0, <1>36, Mishaps DEF Drift, Clean
<1>37. CASE UNCHANGED vars
  BY <1>0, <1>37 DEF vars, TypeOK, Creation, Progress, Removing, Honest, Gone, Past, Creating,
        Cleaning, Clean
<1> QED
  BY <1>1, <1>2, <1>3, <1>4, <1>5, <1>6, <1>7, <1>8, <1>9, <1>10, <1>11, <1>12, <1>13, <1>14,
        <1>15, <1>16, <1>17, <1>18, <1>19, <1>20, <1>21, <1>22, <1>23, <1>24, <1>25, <1>26, <1>27, <1>28, <1>29, <1>30, <1>31, <1>32, <1>33, <1>34, <1>35, <1>36, <1>37, <1>38
     DEF Next, Execute, CleanUp, Runner, Done

THEOREM Inductive == Spec => []IInv
<1>1. IInv /\ [Next]_vars => IInv'
  BY NextTypeOK, NextCreation, NextHonest, NextProgress, NextDeletes, NextChildrenFirst, NextStrangers,
     NextClean
     DEF IInv
<1> QED
  BY <1>1, InitIInv, PTL DEF Spec

(* The state of a session keeps its types (sandbox-session.ts). *)
THEOREM TypesKept == Spec => []TypeOK
<1>1. IInv => TypeOK
  BY DEF IInv
<1> QED
  BY <1>1, Inductive, PTL

(* A session reported gone or never created has left nothing at the gateway,   *)
(* and nothing of it can still arrive (execute, cleanup).                      *)
THEOREM CompletionTrue == Spec => []CompletionIsTrue
<1>1. ASSUME IInv, pc = "done", completion # "unknown"
      PROVE  \A r \in Resources : gateway[r] # "ours" /\ Create(r) \notin pending
  <2>1. completion \in {"not-created", "gone"}
    BY <1>1 DEF IInv, TypeOK
  <2>2. CASE completion = "gone"
    BY <1>1, <2>2 DEF IInv, Progress, Gone
  <2>3. CASE completion = "not-created"
    BY <1>1, <2>3 DEF IInv, Progress, Untouched, Honest
  <2> QED
    BY <2>1, <2>2, <2>3
<1>2. IInv => CompletionIsTrue
  BY <1>1 DEF CompletionIsTrue
<1> QED
  BY <1>2, Inductive, PTL

(* CleanGatewayReleases: with a gateway that does what it is asked a session   *)
(* ends gone or never created, whatever the runner did and wherever the abort  *)
(* came, unless it caught a create without its answer (execute, cleanup).      *)
THEOREM GatewayReleases == Spec => []CleanGatewayReleases
<1>1. IInv => CleanGatewayReleases
  BY DEF IInv, Clean, CleanGatewayReleases
<1> QED
  BY <1>1, Inductive, PTL

(* Nothing is deleted before what depends on it is gone (the order of the      *)
(* cleanup, and its refusal to go on after an ambiguous create).               *)
THEOREM ChildrenGoFirst == Spec => []ChildrenFirst
<1>1. IInv => ChildrenFirst
  BY DEF IInv
<1> QED
  BY <1>1, Inductive, PTL

(* After the session has seen another's resource under one of its names it     *)
(* does not ask to delete that resource or its workspace (the identity checks  *)
(* of the cleanup and of retryDelete).                                         *)
THEOREM StrangersSpared == Spec => StrangersAreLeftAlone
<1>1. ASSUME IInv, [Next]_vars, strangers # {}, NEW r \in strangers \cup {"workspace"},
             Delete(r) \in pending', Delete(r) \notin pending
      PROVE  FALSE
  <2>1. r \in Resources /\ pending \subseteq Requests
    BY <1>1 DEF IInv, TypeOK, Resources
  <2>2. SendDelete /\ on = r
    <3>1. CASE SendDelete
      BY <1>1, <2>1, <3>1, RequestsDiffer DEF SendDelete, IInv, TypeOK
    <3>2. CASE SendCreate
      BY <1>1, <2>1, <3>2, RequestsDiffer DEF SendCreate, IInv, TypeOK
    <3>3. CASE Execute /\ ~SendCreate
      <4>1. pending' \subseteq pending
        BY <3>3 DEF Execute, Policy, CreateAnswered, CreateInDoubt, CreateRefused, CheckMatches, NoMembers,
             Minted, CheckPasses, Mismatch, StepFails, StepAborted, InputWritten, InputNotWritten, RunnerAborted, Throw, world
      <4> QED
        BY <1>1, <4>1
    <3>4. CASE CleanUp /\ ~SendDelete
      <4>1. pending' \subseteq pending
        BY <3>4 DEF CleanUp, WorkspaceFound, WorkspaceAbsent, ChildFound, ChildAbsent, NeverAttempted,
             FindInDoubt, DeleteAnswered, DeleteInDoubt, DeleteRefused, Reread, ConfirmedAbsent, StillPresent,
             Emptied, FinalCheck, NotEmpty, CleanupFails, GiveUp, world
      <4> QED
        BY <1>1, <4>1
    <3>5. CASE Runner \/ Abort \/ UNCHANGED vars
      <4>1. pending' \subseteq pending
        BY <3>5 DEF Runner, RunnerLost, RunnerExits, Throw, Abort, vars, world
      <4> QED
        BY <1>1, <4>1
    <3>6. ASSUME NEW request \in Requests, Commits(request)
          PROVE  FALSE
      BY <1>1, <3>6 DEF Commits
    <3>7. ASSUME NEW q \in Resources, Drift(q)
          PROVE  FALSE
      BY <1>1, <3>7 DEF Drift
    <3> QED
      BY <1>1, <3>1, <3>2, <3>3, <3>4, <3>5, <3>6, <3>7 DEF Next, Done
  <2>3. pc = "remove" /\ Removing
    BY <2>2 DEF SendDelete, Removing
  <2> QED
    BY <1>1, <2>2, <2>3 DEF IInv, Strangers, Past
<1>2. IInv /\ [Next]_vars =>
        [strangers # {} => \A r \in strangers \cup {"workspace"} :
                             Delete(r) \in pending' => Delete(r) \in pending]_vars
  BY <1>1
<1> QED
  BY <1>2, Inductive, PTL DEF Spec, StrangersAreLeftAlone
===============================================================================
