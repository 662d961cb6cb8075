------------------------- MODULE ConfigSnapshotsProofs -------------------------
(***************************************************************************)
(* What the snapshots of a configuration repository promise for any number *)
(* of callers, revisions and directories: current.json names a complete    *)
(* checkout, a call returns a fresh one, and a failure leaves nothing.     *)
(***************************************************************************)
EXTENDS ConfigSnapshots, SequenceTheorems, TLAPS

FilesOK ==
  /\ remote \in Revisions
  /\ dir \in [Snapshots -> [state : States, revision : Revisions \cup {None}, old : BOOLEAN]]
  /\ current \in [revision : Revisions \cup {None}, snapshot : Snapshots \cup {None}]

CallsOK ==
  /\ chain \in Seq(Callers) /\ pc \in Places \cup {"idle"}
  /\ job \in [revision : Revisions \cup {None}, snapshot : Snapshots \cup {None},
              published : BOOLEAN, temporary : BOOLEAN]
  /\ answer \in {"none", "returned", "failed", "unremoved"}
  /\ heads \in [Callers -> SUBSET Revisions]

(* The calls wait in order, each once, and the HEAD of now is one since each   *)
(* of them; the revision of the running one was the HEAD since it was made.    *)
Chained ==
  /\ pc = "idle" <=> chain = <<>>
  /\ \A i, j \in 1..Len(chain) : chain[i] = chain[j] => i = j
  /\ \A i \in 1..Len(chain) : remote \in heads[chain[i]]
  /\ pc \notin {"idle", "listing"} => job.revision \in heads[chain[1]]

Kept(s, revision) ==
  dir[s].state \in {"whole", "touched"} /\ dir[s].revision = revision

(* What the running call works on: nothing yet, the published snapshot, or one *)
(* of its own, which is complete before it is published.                       *)
Working ==
  /\ pc \in {"idle", "listing"} => job = NoJob
  /\ pc \in {"reading", "making"} => job.snapshot = None /\ ~job.published
  /\ pc \in {"checking", "reusing", "pruning"} =>
       /\ job.snapshot # None
       /\ current.snapshot = job.snapshot /\ current.revision = job.revision
  /\ pc \in {"filling", "verifying", "writing", "renaming"} =>
       /\ job.snapshot # None /\ current.snapshot # job.snapshot /\ ~job.published
  /\ pc \in {"writing", "renaming"} => Intact(job.snapshot, job.revision)
  /\ pc = "checking" => ~job.published
  /\ pc = "pruning" => job.published
  /\ pc = "cleaning" =>
       /\ job.snapshot # None
       /\ IF job.published THEN current.snapshot = job.snapshot /\ current.revision = job.revision
                           ELSE current.snapshot # job.snapshot

IInv == FilesOK /\ CallsOK /\ Chained /\ Working /\ CurrentIsComplete

USE SnapshotAssumption

LEMMA Initially == Init => IInv
BY DEF Init, IInv, FilesOK, CallsOK, Chained, Working, CurrentIsComplete, NoState, NoJob, Absent,
       States, Places

(* The end of a call moves the chain on by one. *)
LEMMA Settling ==
  ASSUME IInv, pc # "idle", NEW result \in {"returned", "failed", "unremoved"}, Settle(result),
         remote' = remote
  PROVE  CallsOK' /\ Chained' /\ job' = NoJob /\ pc' \in {"idle", "listing"}
<1>1. chain # <<>> /\ Len(chain) \in Nat \ {0}
  BY DEF IInv, Chained, CallsOK
<1>2. Tail(chain) \in Seq(Callers) /\ Len(Tail(chain)) = Len(chain) - 1
  BY <1>1 DEF IInv, CallsOK
<1>3. \A i \in 1..Len(Tail(chain)) : Tail(chain)[i] = chain[i + 1]
  BY <1>1 DEF IInv, CallsOK
<1>4. Head(chain) = chain[1] /\ chain[1] \in Callers
  BY <1>1 DEF IInv, CallsOK
<1>5. pc' \in {"idle", "listing"} /\ job' = NoJob
  BY DEF Settle
<1>6. CallsOK'
  BY <1>2, <1>4 DEF IInv, CallsOK, FilesOK, Settle, NoJob, Places
<1>7. (pc = "idle" <=> chain = <<>>)'
  <2>1. Tail(chain) = <<>> <=> Len(Tail(chain)) = 0
    BY <1>2, EmptySeq
  <2> QED
    BY <1>1, <1>2, <2>1 DEF Settle
<1>8. \A i, j \in 1..Len(chain') : chain'[i] = chain'[j] => i = j
  <2> SUFFICES ASSUME NEW i \in 1..Len(chain'), NEW j \in 1..Len(chain'), chain'[i] = chain'[j]
               PROVE  i = j
    OBVIOUS
  <2>1. i + 1 \in 1..Len(chain) /\ j + 1 \in 1..Len(chain)
    BY <1>1, <1>2 DEF Settle
  <2>2. chain[i + 1] = chain[j + 1]
    BY <1>3 DEF Settle
  <2> QED
    BY <2>1, <2>2 DEF IInv, Chained
<1>9. \A i \in 1..Len(chain') : remote' \in heads'[chain'[i]]
  <2> SUFFICES ASSUME NEW i \in 1..Len(chain')  PROVE remote \in heads'[chain'[i]]
    OBVIOUS
  <2>1. i + 1 \in 1..Len(chain) /\ 1 \in 1..Len(chain) /\ i + 1 # 1
    BY <1>1, <1>2 DEF Settle
  <2>2. chain'[i] = chain[i + 1]
    BY <1>3 DEF Settle
  <2>3. chain[i + 1] # chain[1] /\ chain[i + 1] \in Callers /\ remote \in heads[chain[i + 1]]
    BY <2>1 DEF IInv, Chained, CallsOK
  <2> QED
    BY <2>2, <2>3, <1>4 DEF Settle, IInv, CallsOK
<1> QED
  BY <1>5, <1>6, <1>7, <1>8, <1>9 DEF Chained

(* Every step but the end of a call leaves the chain alone or adds to it. *)
LEMMA Waits ==
  ASSUME IInv, pc' \in Places, pc # "idle", UNCHANGED <<remote, chain, heads>>,
         job'.revision = IF pc = "listing" THEN remote ELSE job.revision
  PROVE  Chained'
<1>1. chain # <<>> /\ 1 \in 1..Len(chain)
  BY DEF IInv, Chained, CallsOK
<1> QED
  BY <1>1 DEF IInv, Chained, Places

(* The published snapshot stays what it is when neither it nor the state is    *)
(* written to.                                                                 *)
LEMMA CurrentKept ==
  ASSUME CurrentIsComplete, UNCHANGED current,
         current.snapshot # None => dir'[current.snapshot] = dir[current.snapshot]
  PROVE  CurrentIsComplete'
BY DEF CurrentIsComplete

LEMMA Steps == IInv /\ [Next]_vars => IInv'
<1> SUFFICES ASSUME IInv, [Next]_vars  PROVE IInv'
  OBVIOUS
<1> USE DEF Goto, files
<1>1. ASSUME NEW c \in Callers, Call(c)  PROVE IInv'
  <2>1. chain' \in Seq(Callers) /\ Len(chain') = Len(chain) + 1 /\ chain' # <<>>
    BY <1>1 DEF Call, IInv, CallsOK
  <2>2. \A i \in 1..Len(chain') :
          IF i = Len(chain') THEN chain'[i] = c ELSE i \in 1..Len(chain) /\ chain'[i] = chain[i] /\ chain[i] # c
    BY <1>1, <2>1 DEF Call, IInv, CallsOK, Waiting
  <2>3. pc' \in Places /\ (pc # "idle" => pc' = pc) /\ (pc = "idle" => pc' = "listing")
    BY <1>1 DEF Call, IInv, CallsOK, Chained, Places
  <2>4. CallsOK'
    BY <1>1, <2>1, <2>3 DEF Call, IInv, CallsOK, FilesOK
  <2>5. Chained'
    <3>1. (pc = "idle" <=> chain = <<>>)'
      BY <2>1, <2>3 DEF Places
    <3>2. (\A i, j \in 1..Len(chain) : chain[i] = chain[j] => i = j)'
      BY <2>1, <2>2 DEF IInv, Chained
    <3>3. (\A i \in 1..Len(chain) : remote \in heads[chain[i]])'
      BY <1>1, <2>1, <2>2 DEF Call, IInv, Chained, CallsOK
    <3>4. (pc \notin {"idle", "listing"} => job.revision \in heads[chain[1]])'
      <4> SUFFICES ASSUME pc \notin {"idle", "listing"}  PROVE job.revision \in heads'[chain'[1]]
        BY <1>1, <2>3 DEF Call
      <4>1. chain # <<>> /\ Len(chain) \in Nat \ {0}
        BY DEF IInv, Chained, CallsOK
      <4>2. chain'[1] = chain[1] /\ chain[1] # c /\ chain[1] \in Callers
        BY <2>1, <2>2, <4>1 DEF IInv, CallsOK
      <4> QED
        BY <1>1, <4>2 DEF Call, IInv, Chained, CallsOK
    <3> QED
      BY <3>1, <3>2, <3>3, <3>4 DEF Chained
  <2> QED
    BY <1>1, <2>3, <2>4, <2>5 DEF Call, IInv, FilesOK, Working, CurrentIsComplete, Intact
<1>2. CASE Listed
  <2>1. Chained'
    BY <1>2, Waits DEF Listed, Places, IInv, FilesOK, CallsOK
  <2> QED
    BY <1>2, <2>1 DEF Listed, IInv, FilesOK, CallsOK, Working, CurrentIsComplete, Places, NoJob
<1>3. CASE FailsEarly
  BY <1>3, Settling, CurrentKept DEF FailsEarly, IInv, FilesOK, Working
<1>4. CASE StateRead
  <2>1. Chained'
    BY <1>4, Waits DEF StateRead, Places, IInv, CallsOK
  <2> QED
    BY <1>4, <2>1 DEF StateRead, IInv, FilesOK, CallsOK, Working, CurrentIsComplete, Places
<1>5. CASE Checked
  <2>1. Chained'
    BY <1>5, Waits DEF Checked, Places, IInv, CallsOK
  <2>2. FilesOK' /\ CurrentIsComplete'
    BY <1>5, CurrentKept DEF Checked, IInv, FilesOK
  <2>3. CallsOK'
    BY <1>5 DEF Checked, IInv, CallsOK, Places
  <2> QED
    BY <1>5, <2>1, <2>2, <2>3 DEF Checked, IInv, CallsOK, Working
<1>6. CASE Made
  <2> DEFINE free == {s \in Snapshots : dir[s].state = "absent"}
  <2>1. PICK s \in free : /\ dir' = [dir EXCEPT ![s] = Partial(FALSE)]
                          /\ job' = [job EXCEPT !.snapshot = s]
    BY <1>6 DEF Made
  <2>2. current.snapshot # s
    BY <2>1 DEF IInv, CurrentIsComplete
  <2>3. Chained'
    BY <1>6, <2>1, Waits DEF Made, Places, IInv, CallsOK
  <2>4. CurrentIsComplete'
    BY <1>6, <2>1, <2>2, CurrentKept DEF Made, IInv, FilesOK
  <2>5. FilesOK' /\ CallsOK'
    BY <1>6, <2>1 DEF Made, IInv, FilesOK, CallsOK, Partial, States, Places
  <2> QED
    BY <1>6, <2>1, <2>2, <2>3, <2>4, <2>5 DEF Made, IInv, CallsOK, Working
<1>7. CASE Filled
  <2>1. Chained'
    BY <1>7, Waits DEF Filled, Places, IInv, CallsOK
  <2>2. CurrentIsComplete'
    BY <1>7, CurrentKept DEF Filled, IInv, FilesOK, Working
  <2> QED
    BY <1>7, <2>1, <2>2 DEF Filled, IInv, FilesOK, CallsOK, Working, States, Places
<1>8. CASE Verified
  <2>1. Chained'
    BY <1>8, Waits DEF Verified, Places, IInv, CallsOK
  <2> QED
    BY <1>8, <2>1 DEF Verified, Verifies, IInv, FilesOK, CallsOK, Working, CurrentIsComplete, Places, Intact
<1>9. CASE StateWritten
  <2>1. Chained'
    BY <1>9, Waits DEF StateWritten, Places, IInv, CallsOK
  <2> QED
    BY <1>9, <2>1 DEF StateWritten, IInv, FilesOK, CallsOK, Working, CurrentIsComplete, Places, Intact
<1>10. CASE Published
  <2>1. Chained'
    BY <1>10, Waits DEF Published, Places, IInv, CallsOK
  <2> QED
    BY <1>10, <2>1 DEF Published, IInv, FilesOK, CallsOK, Working, CurrentIsComplete, Places, Intact
<1>11. CASE StepFails
  <2>1. Chained'
    BY <1>11, Waits DEF StepFails, Places, IInv, CallsOK
  <2> QED
    BY <1>11, <2>1 DEF StepFails, IInv, FilesOK, CallsOK, Working, CurrentIsComplete, Places
<1>12. ASSUME Prune, current.snapshot = job.snapshot, UNCHANGED <<remote, current>>
       PROVE  FilesOK' /\ CurrentIsComplete'
  BY <1>12, CurrentKept DEF Prune, Prunable, IInv, FilesOK, Absent, Partial, States
<1>13. CASE Reused
  BY <1>13, <1>12, Settling DEF Reused, IInv, Working
<1>14. CASE Pruned
  <2>1. Chained'
    BY <1>14, Waits DEF Pruned, Places, IInv, CallsOK
  <2> QED
    BY <1>14, <1>12, <2>1 DEF Pruned, IInv, CallsOK, Working, Places
<1>15. CASE CleanedUp
  <2>1. FilesOK' /\ CurrentIsComplete'
    BY <1>15, CurrentKept DEF CleanedUp, Discards, IInv, FilesOK, Working, Absent, States
  <2> QED
    BY <1>15, <2>1, Settling DEF CleanedUp, IInv, Working
<1>16. CASE CleanupFails
  <2>1. FilesOK' /\ CurrentIsComplete'
    <3>1. CASE UNCHANGED dir
      BY <1>16, <3>1, CurrentKept DEF CleanupFails, IInv, FilesOK
    <3>2. CASE Discards /\ dir' = [dir EXCEPT ![job.snapshot] = Partial(FALSE)]
      <4>1. current.snapshot # job.snapshot
        BY <1>16, <3>2 DEF CleanupFails, Discards, IInv, Working
      <4> QED
        BY <1>16, <3>2, <4>1, CurrentKept DEF CleanupFails, IInv, FilesOK, Partial, States
    <3> QED
      BY <1>16, <3>1, <3>2 DEF CleanupFails
  <2> QED
    BY <1>16, <2>1, Settling DEF CleanupFails, IInv, Working
<1>17. CASE Pushed
  <2>1. CallsOK' /\ FilesOK'
    BY <1>17 DEF Pushed, IInv, CallsOK, FilesOK
  <2>2. \A i \in 1..Len(chain) :
          heads'[chain[i]] = heads[chain[i]] \cup {remote'}
    BY <1>17 DEF Pushed, IInv, CallsOK, Waiting
  <2>3. Chained'
    BY <1>17, <2>2 DEF Pushed, IInv, Chained, CallsOK
  <2> QED
    BY <1>17, <2>1, <2>3 DEF Pushed, IInv, Working, CurrentIsComplete, Intact
<1>18. CASE Touched
  BY <1>18 DEF Touched, IInv, FilesOK, CallsOK, Chained, Working, CurrentIsComplete, Intact, States
<1>19. ASSUME NEW s \in Snapshots, Ages(s)  PROVE IInv'
  <2>1. dir' = [dir EXCEPT ![s].old = TRUE] /\ UNCHANGED <<remote, current, chain, pc, job, answer, heads>>
    BY <1>19 DEF Ages
  <2>2. \A d \in Snapshots : dir'[d].state = dir[d].state /\ dir'[d].revision = dir[d].revision
    BY <2>1 DEF IInv, FilesOK
  <2>3. FilesOK'
    BY <2>1 DEF IInv, FilesOK
  <2>4. CurrentIsComplete'
    BY <2>1, <2>2 DEF IInv, FilesOK, CurrentIsComplete
  <2>5. Working'
    BY <2>1, <2>2 DEF IInv, CallsOK, Working, Intact
  <2> QED
    BY <2>1, <2>3, <2>4, <2>5 DEF IInv, CallsOK, Chained
<1>20. CASE Killed
  BY <1>20 DEF Killed, IInv, FilesOK, CallsOK, Chained, Working, CurrentIsComplete, Intact, NoJob
<1>21. CASE UNCHANGED vars
  BY <1>21 DEF vars, IInv, FilesOK, CallsOK, Chained, Working, CurrentIsComplete, Intact
<1> QED
  BY <1>1, <1>2, <1>3, <1>4, <1>5, <1>6, <1>7, <1>8, <1>9, <1>10, <1>11, <1>13, <1>14, <1>15, <1>16,
     <1>17, <1>18, <1>19, <1>20, <1>21 DEF Next, SyncOne

(* Only the end of a call, or of the process, makes the chain shorter. *)
LEMMA Shorter ==
  ASSUME IInv, Next, Len(chain') < Len(chain), answer' # "none"
  PROVE  \/ (Reused \/ CleanedUp) /\ answer' = "returned"
         \/ (FailsEarly \/ CleanedUp) /\ answer' = "failed"
         \/ CleanupFails /\ answer' = "unremoved"
<1>1. \A c \in Callers : Call(c) => Len(chain') = Len(chain) + 1
  BY DEF Call, IInv, CallsOK
<1>2. Len(chain) \in Nat
  BY DEF IInv, CallsOK
<1>3. chain' # chain
  BY <1>2
<1>4. Killed => answer' = "none"
  BY DEF Killed
<1>5. Pushed \/ Touched \/ (\E s \in Snapshots : Ages(s)) => chain' = chain
  BY DEF Pushed, Touched, Ages
<1>6. \/ Listed \/ StateRead \/ Checked \/ Made \/ Filled
      \/ Verified \/ StateWritten \/ Published \/ StepFails \/ Pruned
      => chain' = chain
  BY DEF Listed, StateRead, Checked, Made, Filled, Verified, StateWritten, Published, StepFails, Pruned
<1>7. FailsEarly \/ Reused \/ CleanedUp \/ CleanupFails
  BY <1>1, <1>2, <1>3, <1>4, <1>5, <1>6 DEF Next, SyncOne
<1> QED
  BY <1>7 DEF FailsEarly, Reused, CleanedUp, CleanupFails, Settle

(* The invariant holds of every behaviour. *)
THEOREM Invariance == Spec => []IInv
BY Initially, Steps, PTL DEF Spec

(* Everything keeps its shape (the declarations of config-repositories.ts). *)
THEOREM TypesKept == Spec => []TypeOK
<1>1. IInv => TypeOK
  BY DEF IInv, FilesOK, CallsOK, TypeOK
<1> QED
  BY <1>1, Invariance, PTL

(* current.json always names a complete checkout of the revision it states:    *)
(* syncOne verifies before it renames, and prunes around what it hands out.    *)
THEOREM CurrentComplete == Spec => []CurrentIsComplete
<1>1. IInv => CurrentIsComplete
  BY DEF IInv
<1> QED
  BY <1>1, Invariance, PTL

(* A call that returns hands out a complete checkout of a revision that was    *)
(* the HEAD of the remote since the call was made: calls wait in order, and    *)
(* each asks the remote itself (syncConfigRepositories).                       *)
THEOREM ReturnedFresh == Spec => ReturnedIsFresh
<1>1. IInv /\ [Next]_vars =>
        [Len(chain') < Len(chain) /\ answer' = "returned" =>
           /\ dir'[job.snapshot].state \in {"whole", "touched"}
           /\ dir'[job.snapshot].revision = job.revision
           /\ job.revision \in heads[Head(chain)]]_vars
  <2> SUFFICES ASSUME IInv, Next, Len(chain') < Len(chain), answer' = "returned"
               PROVE  /\ dir'[job.snapshot].state \in {"whole", "touched"}
                      /\ dir'[job.snapshot].revision = job.revision
                      /\ job.revision \in heads[Head(chain)]
    OBVIOUS
  <2>1. (Reused \/ CleanedUp) /\ answer' = "returned"
    BY Shorter
  <2>2. chain # <<>> /\ Head(chain) = chain[1]
    BY <2>1 DEF IInv, CallsOK, Chained, Reused, CleanedUp
  <2>3. job.revision \in heads[Head(chain)]
    BY <2>1, <2>2 DEF IInv, Chained, Reused, CleanedUp
  <2>4. current'.snapshot = job.snapshot /\ current'.revision = job.revision /\ job.snapshot # None
    BY <2>1 DEF IInv, Working, Reused, CleanedUp, Settle
  <2>5. CurrentIsComplete'
    BY Steps DEF IInv
  <2> QED
    BY <2>3, <2>4, <2>5 DEF CurrentIsComplete
<1> QED
  BY <1>1, Invariance, PTL DEF Spec, ReturnedIsFresh

(* A call that fails leaves nothing of what it made: the finally of syncOne    *)
(* removes what was not published, and only that.                              *)
THEOREM NothingLeft == Spec => FailureLeavesNothing
<1>1. IInv /\ [Next]_vars =>
        [Len(chain') < Len(chain) /\ answer' = "failed" /\ job.snapshot # None =>
           dir'[job.snapshot] = Absent /\ current'.snapshot # job.snapshot]_vars
  <2> SUFFICES ASSUME IInv, Next, Len(chain') < Len(chain), answer' = "failed", job.snapshot # None
               PROVE  dir'[job.snapshot] = Absent /\ current'.snapshot # job.snapshot
    OBVIOUS
  <2>1. CleanedUp
    BY Shorter DEF FailsEarly, IInv, Working, NoJob
  <2>2. ~job.published /\ job.snapshot \in Snapshots
    BY <2>1 DEF CleanedUp, Settle, IInv, CallsOK
  <2> QED
    BY <2>1, <2>2 DEF CleanedUp, Discards, IInv, FilesOK, Working
<1> QED
  BY <1>1, Invariance, PTL DEF Spec, FailureLeavesNothing
===============================================================================
