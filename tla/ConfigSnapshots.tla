---------------------------- MODULE ConfigSnapshots ----------------------------
(***************************************************************************)
(* The snapshots the agent dispatcher keeps of one configuration           *)
(* repository (config-repositories.ts): the calls of one process wait for  *)
(* each other in a chain of promises, each asks the remote for its HEAD,   *)
(* hands out the published snapshot when it is still good and otherwise    *)
(* makes, verifies and publishes another.  The process may be killed       *)
(* between any two steps and started again over the same directory.        *)
(*                                                                         *)
(* A snapshot directory is absent, partial (anything that is not a clean   *)
(* checkout), whole, or touched: a published one somebody else has written *)
(* to.  It is old when it was made more than pruneAgeMs ago.               *)
(***************************************************************************)
EXTENDS Naturals, Sequences

CONSTANTS
  Callers,     \* concurrent users of syncConfigRepositories
  Revisions,
  Snapshots,   \* names of snapshot directories, free again when removed
  None

ASSUME SnapshotAssumption == None \notin Snapshots \cup Revisions

VARIABLES
  remote,      \* the HEAD of the remote
  dir,         \* the snapshot directories
  current,     \* what current.json says
  chain,       \* pending: the calls in order, the first one running
  pc, job,     \* where the running call is, and its revision, snapshot and result
  answer,      \* how the last call settled
  heads        \* history: the HEADs of the remote since each call was made

files == <<dir, current>>
vars == <<remote, files, chain, pc, job, answer, heads>>

Absent == [state |-> "absent", revision |-> None, old |-> FALSE]
Partial(old) == [state |-> "partial", revision |-> None, old |-> old]
NoState == [revision |-> None, snapshot |-> None]
NoJob == [revision |-> None, snapshot |-> None, published |-> FALSE, temporary |-> FALSE]

Init ==
  /\ remote \in Revisions
  /\ dir = [s \in Snapshots |-> Absent] /\ current = NoState
  /\ chain = <<>> /\ pc = "idle" /\ job = NoJob
  /\ answer = "none" /\ heads = [c \in Callers |-> {}]

Waiting == {chain[i] : i \in DOMAIN chain}

Intact(s, revision) == dir[s].state = "whole" /\ dir[s].revision = revision

Goto(place) == pc' = place
-------------------------------------------------------------------------------
(* syncConfigRepositories puts the call behind the one that is pending. *)
Call(c) ==
  /\ c \notin Waiting
  /\ chain' = Append(chain, c)
  /\ pc' = IF chain = <<>> THEN "listing" ELSE pc
  /\ heads' = [heads EXCEPT ![c] = {remote}]
  /\ UNCHANGED <<remote, files, job, answer>>

(* Mutant: a call that fails takes the rest of the chain with it. *)
MutantSettle(result) ==
  /\ answer' = result
  /\ heads' = [heads EXCEPT ![Head(chain)] = {}]
  /\ chain' = Tail(chain)
  /\ pc' = IF Len(chain) = 1 \/ result = "failed" THEN "idle" ELSE "listing"
  /\ job' = NoJob

(* The next call in the chain starts whether or not this one failed. *)
Settle(result) ==
  /\ answer' = result
  /\ heads' = [heads EXCEPT ![Head(chain)] = {}]
  /\ chain' = Tail(chain)
  /\ pc' = IF Len(chain) = 1 THEN "idle" ELSE "listing"
  /\ job' = NoJob

(* Mutant: the remote is asked only when there is no published revision. *)
MutantListed ==
  /\ pc = "listing"
  /\ job' = [job EXCEPT !.revision = IF current.revision = None THEN remote ELSE current.revision]
  /\ Goto("reading") /\ answer' = "none"
  /\ UNCHANGED <<remote, files, chain, heads>>

(* git ls-remote. *)
Listed ==
  /\ pc = "listing"
  /\ job' = [job EXCEPT !.revision = remote]
  /\ Goto("reading") /\ answer' = "none"
  /\ UNCHANGED <<remote, files, chain, heads>>

(* The directory, the remote or mkdtemp fails before there is anything to      *)
(* clean up.                                                                   *)
FailsEarly ==
  /\ pc \in {"listing", "making"}
  /\ Settle("failed")
  /\ UNCHANGED <<remote, files>>

(* current.json names a snapshot of the wanted revision, or not; a read that   *)
(* fails counts as not.                                                        *)
StateRead ==
  /\ pc = "reading"
  /\ \/ /\ current.snapshot # None /\ current.revision = job.revision
        /\ job' = [job EXCEPT !.snapshot = current.snapshot]
        /\ Goto("checking")
     \/ Goto("making") /\ UNCHANGED job
  /\ UNCHANGED <<remote, files, chain, answer, heads>>

(* intact(): three git commands; one that fails, as after an abort, counts as  *)
(* a difference.                                                               *)
Checked ==
  /\ pc = "checking"
  /\ \/ /\ Intact(job.snapshot, job.revision)
        /\ Goto("reusing") /\ UNCHANGED job
     \/ /\ Goto("making")
        /\ job' = [job EXCEPT !.snapshot = None]
  /\ UNCHANGED <<remote, files, chain, answer, heads>>

(* mkdtemp: which of the free names it takes makes no difference. *)
Made ==
  LET free == {s \in Snapshots : dir[s].state = "absent"}
      s == CHOOSE s \in free : TRUE
  IN  /\ pc = "making" /\ free # {}
      /\ dir' = [dir EXCEPT ![s] = Partial(FALSE)]
      /\ job' = [job EXCEPT !.snapshot = s]
      /\ Goto("filling")
      /\ UNCHANGED <<remote, current, chain, answer, heads>>

(* clone, checkout and the submodules: what they leave may still not be clean. *)
Filled ==
  /\ pc = "filling"
  /\ \/ dir' = [dir EXCEPT ![job.snapshot].state = "whole", ![job.snapshot].revision = job.revision]
     \/ UNCHANGED dir
  /\ Goto("verifying")
  /\ UNCHANGED <<remote, current, chain, job, answer, heads>>

Verifies == Intact(job.snapshot, job.revision)

Verified ==
  /\ pc = "verifying"
  /\ Verifies
  /\ Goto("writing")
  /\ UNCHANGED <<remote, files, chain, job, answer, heads>>

(* The new state is written beside the old one, *)
StateWritten ==
  /\ pc = "writing"
  /\ job' = [job EXCEPT !.temporary = TRUE]
  /\ Goto("renaming")
  /\ UNCHANGED <<remote, files, chain, answer, heads>>

(* and takes its place. *)
Published ==
  /\ pc = "renaming"
  /\ current' = [revision |-> job.revision, snapshot |-> job.snapshot]
  /\ job' = [job EXCEPT !.published = TRUE, !.temporary = FALSE]
  /\ Goto("pruning")
  /\ UNCHANGED <<remote, dir, chain, answer, heads>>

(* A command, the verification, the write or the rename fails; a write may     *)
(* have left a part of the file.                                               *)
StepFails ==
  /\ pc \in {"filling", "verifying", "writing", "renaming"}
  /\ Goto("cleaning")
  /\ \/ UNCHANGED job
     \/ pc = "writing" /\ job' = [job EXCEPT !.temporary = TRUE]
  /\ UNCHANGED <<remote, files, chain, answer, heads>>

(* Mutant: the snapshot in use is as old as any other. *)
MutantPrunable == {s \in Snapshots : dir[s].state # "absent" /\ dir[s].old}

Prunable == {s \in Snapshots : dir[s].state # "absent" /\ dir[s].old /\ s # job.snapshot}

(* prune(): every old snapshot but the one handed out, as far as it can be     *)
(* removed.                                                                    *)
Prune ==
  \E gone \in SUBSET Prunable : \E broken \in SUBSET Prunable :
    dir' = [s \in Snapshots |->
              IF s \in gone THEN Absent
              ELSE IF s \in broken THEN Partial(TRUE) ELSE dir[s]]

Reused ==
  /\ pc = "reusing"
  /\ Prune
  /\ Settle("returned")
  /\ UNCHANGED <<remote, current>>

Pruned ==
  /\ pc = "pruning"
  /\ Prune
  /\ Goto("cleaning")
  /\ UNCHANGED <<remote, current, chain, job, answer, heads>>

Discards == ~job.published

(* The finally block: the temporary file goes, then what was not published. *)
CleanedUp ==
  /\ pc = "cleaning"
  /\ dir' = IF Discards THEN [dir EXCEPT ![job.snapshot] = Absent] ELSE dir
  /\ Settle(IF job.published THEN "returned" ELSE "failed")
  /\ UNCHANGED <<remote, current>>

(* Either removal fails, and with it the call. *)
CleanupFails ==
  /\ pc = "cleaning"
  /\ \/ Discards /\ dir' = [dir EXCEPT ![job.snapshot] = Partial(FALSE)]
     \/ job.temporary /\ UNCHANGED dir
  /\ Settle("unremoved")
  /\ UNCHANGED <<remote, current>>
-------------------------------------------------------------------------------
(* Somebody pushes to the repository, or moves its HEAD back. *)
Pushed ==
  /\ remote' \in Revisions \ {remote}
  /\ heads' = [c \in Callers |-> IF c \in Waiting THEN heads[c] \cup {remote'} ELSE heads[c]]
  /\ UNCHANGED <<files, chain, pc, job, answer>>

(* An hour passes; the timeouts of its git commands end a call sooner. *)
Ages(s) ==
  /\ dir[s].state # "absent" /\ ~dir[s].old
  /\ pc = "idle" \/ s # job.snapshot \/ pc \in {"checking", "reusing"}
  /\ dir' = [dir EXCEPT ![s].old = TRUE]
  /\ UNCHANGED <<remote, current, chain, pc, job, answer, heads>>

(* Somebody writes to the checkout that is published. *)
Touched ==
  /\ \E s \in Snapshots :
       /\ s = current.snapshot /\ dir[s].state = "whole"
       /\ dir' = [dir EXCEPT ![s].state = "touched"]
  /\ UNCHANGED <<remote, current, chain, pc, job, answer, heads>>

(* The process is killed and another one started: the files are what is left.  *)
Killed ==
  /\ pc # "idle"
  /\ chain' = <<>> /\ pc' = "idle" /\ job' = NoJob
  /\ answer' = "none" /\ heads' = [c \in Callers |-> {}]
  /\ UNCHANGED <<remote, files>>
-------------------------------------------------------------------------------
SyncOne ==
  \/ Listed \/ FailsEarly \/ StateRead \/ Checked \/ Made \/ Filled \/ Verified \/ StateWritten
  \/ Published \/ StepFails \/ Reused \/ Pruned \/ CleanedUp \/ CleanupFails

Next ==
  \/ SyncOne \/ Pushed \/ Touched \/ Killed
  \/ \E c \in Callers : Call(c)
  \/ \E s \in Snapshots : Ages(s)

Spec == Init /\ [][Next]_vars

(* Git commands have timeouts, and a call whose file operations end goes on. *)
FairSpec == Spec /\ WF_vars(SyncOne)
-------------------------------------------------------------------------------
States == {"absent", "partial", "whole", "touched"}
Places == {"listing", "reading", "checking", "reusing", "making", "filling", "verifying", "writing",
           "renaming", "pruning", "cleaning"}

(* Everything keeps the shape the other properties read it in. *)
TypeOK ==
  /\ remote \in Revisions
  /\ dir \in [Snapshots -> [state : States, revision : Revisions \cup {None}, old : BOOLEAN]]
  /\ current \in [revision : Revisions \cup {None}, snapshot : Snapshots \cup {None}]
  /\ chain \in Seq(Callers) /\ pc \in Places \cup {"idle"}
  /\ job \in [revision : Revisions \cup {None}, snapshot : Snapshots \cup {None},
              published : BOOLEAN, temporary : BOOLEAN]
  /\ answer \in {"none", "returned", "failed", "unremoved"}
  /\ heads \in [Callers -> SUBSET Revisions]

(* What current.json names is a complete checkout of the revision it states,   *)
(* unless somebody wrote to it: also after a kill between any two steps, a     *)
(* failed command or removal, and the pruning of another call (syncOne).       *)
CurrentIsComplete ==
  current.snapshot # None =>
    /\ dir[current.snapshot].state \in {"whole", "touched"}
    /\ dir[current.snapshot].revision = current.revision

(* A call returns a whole checkout of a revision that was the remote's HEAD at *)
(* some time since that call was made, however many calls were before it       *)
(* (syncConfigRepositories).                                                   *)
ReturnedIsFresh ==
  [][Len(chain') < Len(chain) /\ answer' = "returned" =>
       /\ dir'[job.snapshot].state \in {"whole", "touched"}
       /\ dir'[job.snapshot].revision = job.revision
       /\ job.revision \in heads[Head(chain)]]_vars

(* A call that fails leaves nothing of what it made, wherever it failed,       *)
(* unless the removal itself did: the directory is free, and the published     *)
(* state is not one of this call (the finally of syncOne).                     *)
FailureLeavesNothing ==
  [][Len(chain') < Len(chain) /\ answer' = "failed" /\ job.snapshot # None =>
       dir'[job.snapshot] = Absent /\ current'.snapshot # job.snapshot]_vars

(* Every call settles, after calls that failed too. *)
CallsSettle == \A c \in Callers : c \in Waiting ~> c \notin Waiting
===============================================================================
