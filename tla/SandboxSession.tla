----------------------------- MODULE SandboxSession -----------------------------
(***************************************************************************)
(* One admitted session of the agent dispatcher: SandboxSession.run of     *)
(* sandbox-session.ts over a gateway that may answer late, wrongly or not  *)
(* at all.                                                                 *)
(*                                                                         *)
(* The session creates a workspace, in it a credential profile, a provider *)
(* and a sandbox, executes the runner in the sandbox and takes everything  *)
(* down again.  Names are derived from the run id, so what a lost answer   *)
(* left behind can be looked up; a create whose answer was lost may still  *)
(* commit later.  The gateway is code outside of this repository: here it  *)
(* is a set of requests that take effect at some time, or never.           *)
(***************************************************************************)
EXTENDS Naturals

CONSTANT MaxMishaps   \* bound: mishaps other than time-outs and aborts

(* A mishap that could not be recorded would pass for none. *)
ASSUME SessionAssumption == MaxMishaps \in Nat \ {0}

Children  == {"profile", "provider", "sandbox"}
Resources == Children \cup {"workspace"}

VARIABLES
  pc,          \* where run() is
  on,          \* the resource a create or a delete is about
  tries,       \* attempts of the current delete that failed
  state,       \* the record's ResourceState of each resource
  outcome,     \* the record's outcome, completion and cleanup
  completion,
  cleanup,
  aborted,     \* the dispatcher's signal
  gateway,     \* what the gateway holds under each name: absent, ours, other
  pending,     \* requests under way at the gateway
  strangers,   \* history: resources the session found to be another's
  doubtful,    \* history: the cleanup began with a create unanswered
  mishaps      \* history: how much went wrong

record == <<state, outcome, completion, cleanup>>
world == <<aborted, gateway, pending, strangers, doubtful, mishaps>>
vars == <<pc, on, tries, record, world>>
-------------------------------------------------------------------------------
Creating == {"policy", "create", "creating", "check", "members", "mint", "readiness", "recheck",
             "attached", "write", "runner"}
Cleaning == {"find", "remove", "removing", "reread", "confirm", "emptied", "final"}

Requests == [op : {"create", "delete"}, r : Resources]
Create(r) == [op |-> "create", r |-> r]
Delete(r) == [op |-> "delete", r |-> r]

(* The order in which resources are created, and the one they are removed in. *)
FollowedBy == [workspace |-> "profile", profile |-> "provider", provider |-> "sandbox"]
RemovedBefore == [sandbox |-> "provider", provider |-> "profile", profile |-> "workspace"]

Init ==
  /\ pc = "policy" /\ on = "workspace" /\ tries = 0
  /\ state = [r \in Resources |-> "not-attempted"]
  /\ outcome = "unknown" /\ completion = "not-created" /\ cleanup = "not-needed"
  /\ aborted \in BOOLEAN
  /\ gateway = [r \in Resources |-> "absent"]
  /\ pending = {} /\ strangers = {} /\ doubtful = FALSE /\ mishaps = 0
-------------------------------------------------------------------------------
Goto(place) == pc' = place

SetState(r, value) == state' = [state EXCEPT ![r] = value]

(* A mishap within the bound, and one that is never refused. *)
Mishap  == mishaps < MaxMishaps /\ mishaps' = mishaps + 1
TimeOut == mishaps' = IF mishaps < MaxMishaps THEN mishaps + 1 ELSE mishaps

(* The end of execute()'s first part: without a create there is nothing to     *)
(* clean up; else the completion is unknown until the cleanup has succeeded.   *)
EnterCleanup(result) ==
  /\ outcome' = result
  /\ tries' = 0
  /\ IF state["workspace"] = "not-attempted" /\ state["sandbox"] = "not-attempted"
       THEN Goto("done") /\ UNCHANGED <<on, completion, cleanup, doubtful>>
       ELSE /\ completion' = "unknown" /\ cleanup' = "unknown"
            /\ doubtful' = (pc = "creating")
            /\ Goto("find") /\ on' = "workspace"

Throw == EnterCleanup("unknown") /\ UNCHANGED <<state, aborted, gateway, pending>>

(* The cleanup gives up: the reservation stays, and so does what is left. *)
GiveUp ==
  /\ Goto("done")
  /\ outcome' = "unknown" /\ cleanup' = "unknown"
  /\ UNCHANGED <<on, tries, state, completion, aborted, gateway, pending, doubtful>>

Sees(r) == strangers' = IF gateway[r] = "other" THEN strangers \cup {r} ELSE strangers
-------------------------------------------------------------------------------
(* run() up to the runner's exit *)

(* An aborted session, or a memory URL that allows no policy, creates nothing. *)
Policy ==
  /\ pc = "policy"
  /\ \/ ~aborted /\ Goto("create") /\ UNCHANGED <<on, tries, record, doubtful>>
     \/ EnterCleanup("unknown") /\ UNCHANGED state
  /\ UNCHANGED <<aborted, gateway, pending, strangers, mishaps>>

(* A create is in doubt before its request leaves.  An abort is looked for     *)
(* before every one of them but the profile's, whose request then does not     *)
(* leave.                                                                      *)
SendCreate ==
  /\ pc = "create"
  /\ aborted => on = "profile"
  /\ SetState(on, "unknown")
  /\ Goto("creating")
  /\ pending' = IF aborted THEN pending ELSE pending \cup {Create(on)}
  /\ UNCHANGED <<on, tries, outcome, completion, cleanup, aborted, gateway, strangers, doubtful, mishaps>>

(* The answer names the resource with the identity of this run.  The profile   *)
(* counts as created only once it has been read back.                          *)
CreateAnswered ==
  /\ pc = "creating" /\ gateway[on] = "ours" /\ Create(on) \notin pending
  /\ IF on = "profile" THEN UNCHANGED state ELSE SetState(on, "created")
  /\ CASE on \in {"workspace", "profile"} -> Goto("check") /\ UNCHANGED on
       [] on = "provider" -> Goto("create") /\ on' = "sandbox"
       [] on = "sandbox"  -> Goto("readiness") /\ UNCHANGED on
  /\ UNCHANGED <<tries, outcome, completion, cleanup, world>>

(* No answer in time, a transient failure, an abort: the request may commit    *)
(* or not.                                                                     *)
CreateInDoubt ==
  /\ pc = "creating"
  /\ (aborted /\ UNCHANGED mishaps) \/ TimeOut
  /\ Throw
  /\ UNCHANGED strangers

(* The gateway refuses, or its answer is not the one asked for. *)
CreateRefused ==
  /\ pc = "creating" /\ ~aborted
  /\ Mishap
  /\ pending' = pending \ {Create(on)}
  /\ EnterCleanup("unknown")
  /\ UNCHANGED <<state, aborted, gateway, strangers>>

(* Reading back the workspace and, in it, the profile. *)
CheckMatches ==
  /\ pc = "check" /\ gateway[on] = "ours"
  /\ IF on = "workspace" THEN Goto("members") /\ UNCHANGED state
                         ELSE Goto("mint") /\ SetState("profile", "created")
  /\ UNCHANGED <<on, tries, outcome, completion, cleanup, world>>

(* The workspace must have no member. *)
NoMembers ==
  /\ pc = "members"
  /\ Goto("create") /\ on' = FollowedBy["workspace"]
  /\ UNCHANGED <<tries, record, world>>

(* The memory credential of the provider; aborts are looked at around it. *)
Minted ==
  /\ pc = "mint" /\ ~aborted
  /\ Goto("create") /\ on' = FollowedBy["profile"]
  /\ UNCHANGED <<tries, record, world>>

(* Readiness polling, the workspace read again, the provider and the effective *)
(* policy observed in the sandbox.                                             *)
NextCheck == [readiness |-> "recheck", recheck |-> "attached", attached |-> "write"]
Checked   == [readiness |-> "sandbox", recheck |-> "workspace", attached |-> "provider"]

CheckPasses ==
  /\ pc \in DOMAIN NextCheck
  /\ gateway[Checked[pc]] = "ours"
  /\ Goto(NextCheck[pc])
  /\ UNCHANGED <<on, tries, record, world>>

(* What a read shows is missing or another's. *)
Mismatch ==
  /\ \/ pc = "check" /\ gateway[on] # "ours" /\ Sees(on)
     \/ pc \in DOMAIN Checked /\ gateway[Checked[pc]] # "ours" /\ Sees(Checked[pc])
  /\ Throw
  /\ UNCHANGED mishaps

Awaiting == {"check", "members", "mint", "readiness", "recheck", "attached", "write"}

(* Any other awaited call fails or runs into its deadline. *)
StepFails ==
  /\ pc \in Awaiting
  /\ TimeOut
  /\ Throw
  /\ UNCHANGED strangers

(* Mutant: a resource is marked as in doubt before the abort is looked for. *)
MutantStepAborted ==
  /\ aborted
  /\ pc \in Awaiting \/ (pc = "create" /\ on # "profile")
  /\ EnterCleanup("unknown")
  /\ state' = IF pc = "create" THEN [state EXCEPT ![on] = "unknown"] ELSE state
  /\ UNCHANGED <<aborted, gateway, pending, strangers, mishaps>>

(* An abort cuts such a call short, or is found before the next request        *)
(* leaves: what was not sent stays not attempted.                              *)
StepAborted ==
  /\ aborted
  /\ pc \in Awaiting \/ (pc = "create" /\ on # "profile")
  /\ Throw
  /\ UNCHANGED <<strangers, mishaps>>

(* The input is delivered, or the command that writes it fails. *)
InputWritten ==
  /\ pc = "write" /\ ~aborted
  /\ Goto("runner")
  /\ UNCHANGED <<on, tries, record, world>>

InputNotWritten ==
  /\ pc = "write" /\ Mishap
  /\ EnterCleanup("failed")
  /\ UNCHANGED <<state, aborted, gateway, pending, strangers>>

(* The runner has no deadline of its own. *)
RunnerExits(result) ==
  /\ pc = "runner"
  /\ EnterCleanup(result)
  /\ UNCHANGED <<state, aborted, gateway, pending, strangers, mishaps>>

(* Mutant: an abort reaches the runner only sometimes. *)
MutantRunnerAborted ==
  /\ pc = "runner" /\ aborted /\ Mishap
  /\ Throw
  /\ UNCHANGED strangers

RunnerAborted ==
  /\ pc = "runner" /\ aborted
  /\ Throw
  /\ UNCHANGED <<strangers, mishaps>>

RunnerLost ==
  /\ pc = "runner" /\ Mishap
  /\ Throw
  /\ UNCHANGED strangers
-------------------------------------------------------------------------------
(* The cleanup, under a signal and a budget of its own *)

Proceed(place, r) == Goto(place) /\ on' = r /\ tries' = 0

AllDeleted == state' = [r \in Resources |-> "deleted"]

Finish ==
  /\ Goto("done")
  /\ cleanup' = "deleted" /\ completion' = "gone"

(* The workspace is looked up first.  Its absence proves something only when   *)
(* its creation was answered and nothing in it was attempted.                  *)
WorkspaceFound ==
  /\ pc = "find" /\ on = "workspace" /\ gateway["workspace"] = "ours"
  /\ SetState("workspace", "created")
  /\ Proceed("find", "sandbox")
  /\ UNCHANGED <<outcome, completion, cleanup, world>>

(* Mutant: the create of the workspace may be in doubt. *)
MutantAbsenceProves == \A r \in Children : state[r] = "not-attempted"

AbsenceProves == state["workspace"] # "unknown" /\ \A r \in Children : state[r] = "not-attempted"

WorkspaceAbsent ==
  /\ pc = "find" /\ on = "workspace" /\ gateway["workspace"] = "absent" /\ AbsenceProves
  /\ AllDeleted /\ Finish
  /\ UNCHANGED <<on, tries, outcome, world>>

(* What is found is removed. *)
ChildFound ==
  /\ pc = "find" /\ on \in Children /\ gateway[on] = "ours"
  /\ on = "sandbox" \/ state[on] \in {"created", "unknown"}
  /\ SetState(on, "created")
  /\ Proceed("remove", on)
  /\ UNCHANGED <<outcome, completion, cleanup, world>>

(* Mutant: a create in doubt counts as never committed. *)
MutantChildAbsent ==
  /\ pc = "find" /\ on \in Children /\ gateway[on] = "absent"
  /\ state[on] \in {"created", "unknown"} \/ on = "sandbox"
  /\ SetState(on, "deleted")
  /\ IF on = "sandbox" THEN Proceed("emptied", on)
     ELSE IF on = "provider" THEN Proceed("find", "profile") ELSE Proceed("final", "workspace")
  /\ UNCHANGED <<outcome, completion, cleanup, world>>

(* What is not there was removed, unless its create is in doubt. *)
ChildAbsent ==
  /\ pc = "find" /\ on \in Children /\ gateway[on] = "absent"
  /\ state[on] = "created" \/ (on = "sandbox" /\ state[on] # "unknown")
  /\ SetState(on, "deleted")
  /\ IF on = "sandbox" THEN Proceed("emptied", on)
     ELSE IF on = "provider" THEN Proceed("find", "profile") ELSE Proceed("final", "workspace")
  /\ UNCHANGED <<outcome, completion, cleanup, world>>

NeverAttempted ==
  /\ pc = "find" /\ on \in {"profile", "provider"} /\ state[on] = "not-attempted"
  /\ IF on = "provider" THEN Proceed("find", "profile") ELSE Proceed("final", "workspace")
  /\ UNCHANGED <<record, world>>

(* What is another's, or may still appear, ends the cleanup. *)
FindInDoubt ==
  /\ pc = "find"
  /\ \/ on \notin {"profile", "provider"}
     \/ state[on] # "not-attempted"
  /\ \/ gateway[on] = "other"
     \/ gateway[on] = "absent" /\ (state[on] = "unknown" \/ (on = "workspace" /\ ~AbsenceProves))
  /\ Sees(on)
  /\ GiveUp
  /\ UNCHANGED mishaps

(* retryDelete: at most two requests, the second only after a read has shown   *)
(* that the resource is still there and still this run's.                      *)
SendDelete ==
  /\ pc = "remove"
  /\ Goto("removing")
  /\ pending' = pending \cup {Delete(on)}
  /\ UNCHANGED <<on, tries, record, aborted, gateway, strangers, doubtful, mishaps>>

(* Accepted or completed, for a sandbox or a workspace: the absence is         *)
(* awaited.  A provider or a profile should be gone with the answer.           *)
DeleteAnswered ==
  /\ pc = "removing"
  /\ \/ /\ on \in {"sandbox", "workspace"} \/ Delete(on) \notin pending
        /\ UNCHANGED mishaps
     \/ on \in {"profile", "provider"} /\ Delete(on) \in pending /\ Mishap
  /\ Goto("confirm")
  /\ UNCHANGED <<on, tries, record, aborted, gateway, pending, strangers, doubtful>>

DeleteInDoubt ==
  /\ pc = "removing"
  /\ TimeOut
  /\ Goto("reread")
  /\ UNCHANGED <<on, tries, record, aborted, gateway, pending, strangers, doubtful>>

DeleteRefused ==
  /\ pc = "removing" /\ Mishap
  /\ pending' = pending \ {Delete(on)}
  /\ Goto("done")
  /\ outcome' = "unknown" /\ cleanup' = "unknown"
  /\ UNCHANGED <<on, tries, state, completion, aborted, gateway, strangers, doubtful>>

(* Mutant: the identity is not looked at again before the second delete. *)
MutantMayRetry(r) == gateway[r] # "absent" /\ tries = 0

MayRetry(r) == gateway[r] = "ours" /\ tries = 0

Reread ==
  /\ pc = "reread"
  /\ Sees(on)
  /\ IF gateway[on] = "absent" THEN Goto("confirm") /\ UNCHANGED <<on, tries, record, doubtful>>
     ELSE IF MayRetry(on) THEN Goto("remove") /\ tries' = 1 /\ UNCHANGED <<on, record, doubtful>>
     ELSE /\ Goto("done")
          /\ outcome' = "unknown" /\ cleanup' = "unknown"
          /\ UNCHANGED <<on, tries, state, completion, doubtful>>
  /\ UNCHANGED <<aborted, gateway, pending, mishaps>>

(* waitAbsent, and the single read that follows the deletion of a provider or  *)
(* a profile.                                                                  *)
ConfirmedAbsent ==
  /\ pc = "confirm" /\ gateway[on] = "absent"
  /\ SetState(on, "deleted")
  /\ CASE on = "sandbox"   -> Proceed("emptied", on) /\ UNCHANGED <<completion, cleanup>>
       [] on = "provider"  -> Proceed("find", "profile") /\ UNCHANGED <<completion, cleanup>>
       [] on = "profile"   -> Proceed("final", "workspace") /\ UNCHANGED <<completion, cleanup>>
       [] on = "workspace" -> Finish /\ UNCHANGED <<on, tries>>
  /\ UNCHANGED <<outcome, world>>

StillPresent ==
  /\ pc = "confirm"
  /\ gateway[on] = "other" \/ (on \in {"profile", "provider"} /\ gateway[on] # "absent")
  /\ Sees(on)
  /\ GiveUp
  /\ UNCHANGED mishaps

(* No member and no sandbox may remain before the dependencies go. *)
Emptied ==
  /\ pc = "emptied" /\ gateway["sandbox"] = "absent"
  /\ Proceed("find", RemovedBefore["sandbox"])
  /\ UNCHANGED <<record, world>>

(* No provider and no profile may remain, and the workspace must be this run's. *)
FinalCheck ==
  /\ pc = "final"
  /\ gateway["provider"] = "absent" /\ gateway["profile"] = "absent" /\ gateway["workspace"] = "ours"
  /\ Proceed("remove", RemovedBefore["profile"])
  /\ UNCHANGED <<record, world>>

NotEmpty ==
  /\ \/ pc = "emptied" /\ gateway["sandbox"] # "absent"
     \/ pc = "final" /\ ( gateway["provider"] # "absent" \/ gateway["profile"] # "absent"
                            \/ gateway["workspace"] # "ours" )
  /\ GiveUp
  /\ UNCHANGED <<strangers, mishaps>>

(* Mutant: the cleanup runs under the aborted signal. *)
MutantCleanupFails ==
  /\ pc \in Cleaning \ {"remove", "removing"}
  /\ IF aborted THEN UNCHANGED mishaps ELSE TimeOut
  /\ GiveUp
  /\ UNCHANGED strangers

(* A read that keeps failing, a member that appeared, the end of waitAbsent's  *)
(* or of the whole budget.                                                     *)
CleanupFails ==
  /\ pc \in Cleaning \ {"remove", "removing"}
  /\ TimeOut
  /\ GiveUp
  /\ UNCHANGED strangers
-------------------------------------------------------------------------------
(* The gateway and the others who use it *)

Commits(request) ==
  /\ request \in pending
  /\ pending' = pending \ {request}
  /\ gateway' = [gateway EXCEPT ![request.r] = IF request.op = "create" THEN "ours" ELSE "absent"]
  /\ UNCHANGED <<pc, on, tries, record, aborted, strangers, doubtful, mishaps>>

Drift(r) ==
  /\ gateway[r] = "ours" /\ Mishap
  /\ \E v \in {"absent", "other"} : gateway' = [gateway EXCEPT ![r] = v]
  /\ UNCHANGED <<pc, on, tries, record, aborted, pending, strangers, doubtful>>

Abort ==
  /\ ~aborted /\ pc # "done"
  /\ aborted' = TRUE
  /\ UNCHANGED <<pc, on, tries, record, gateway, pending, strangers, doubtful, mishaps>>

Done == pc = "done" /\ UNCHANGED vars
-------------------------------------------------------------------------------
Execute ==
  \/ Policy \/ SendCreate \/ CreateAnswered \/ CreateInDoubt \/ CreateRefused \/ CheckMatches
  \/ NoMembers \/ Minted \/ CheckPasses \/ Mismatch \/ StepFails \/ StepAborted
  \/ InputWritten \/ InputNotWritten \/ RunnerAborted

CleanUp ==
  \/ WorkspaceFound \/ WorkspaceAbsent \/ ChildFound \/ ChildAbsent \/ NeverAttempted \/ FindInDoubt
  \/ SendDelete \/ DeleteAnswered \/ DeleteInDoubt \/ DeleteRefused \/ Reread \/ ConfirmedAbsent
  \/ StillPresent \/ Emptied \/ FinalCheck \/ NotEmpty \/ CleanupFails

Runner == RunnerLost \/ \E result \in {"passed", "failed"} : RunnerExits(result)

Next ==
  \/ Execute \/ CleanUp \/ Runner
  \/ \E request \in Requests : Commits(request)
  \/ \E r \in Resources : Drift(r)
  \/ Abort \/ Done

Spec == Init /\ [][Next]_vars

(* Every call has a deadline, the polling loops too: run() goes on.  The       *)
(* runner need not exit, and the gateway need not carry out a request.         *)
FairSpec == Spec /\ WF_vars(Execute) /\ WF_vars(CleanUp)
-------------------------------------------------------------------------------
(* Everything keeps the shape the other properties read it in. *)
TypeOK ==
  /\ pc \in Creating \cup Cleaning \cup {"done"} /\ on \in Resources /\ tries \in {0, 1}
  /\ state \in [Resources -> {"not-attempted", "unknown", "created", "deleted"}]
  /\ outcome \in {"unknown", "passed", "failed"}
  /\ completion \in {"not-created", "unknown", "gone"}
  /\ cleanup \in {"not-needed", "unknown", "deleted"}
  /\ aborted \in BOOLEAN /\ doubtful \in BOOLEAN /\ mishaps \in 0..MaxMishaps
  /\ gateway \in [Resources -> {"absent", "ours", "other"}]
  /\ pending \subseteq Requests /\ strangers \subseteq Resources

(* A session is reported gone, or never created, only when the gateway holds   *)
(* nothing of it and no request of it can bring something back: that is what   *)
(* frees its agent for the next session (execute's cleanup).                   *)
CompletionIsTrue ==
  pc = "done" /\ completion # "unknown"
    => \A r \in Resources : gateway[r] # "ours" /\ Create(r) \notin pending

(* Nothing is taken from under what may still use it: the provider and the     *)
(* profile go after the sandbox, the workspace goes last, and an ambiguous     *)
(* create keeps them all (the order of execute's cleanup).                     *)
ChildrenFirst ==
  \A r \in Resources : Delete(r) \in pending =>
    \A c \in Children :
      \/ c = r
      \/ c = "profile" /\ r # "workspace"
      \/ c = "provider" /\ r = "sandbox"
      \/ gateway[c] # "ours" /\ Create(c) \notin pending

(* What the session has seen to be another's it never asks to delete, nor the  *)
(* workspace around it (the identity checks of execute and retryDelete).       *)
StrangersAreLeftAlone ==
  [][strangers # {} => \A r \in strangers \cup {"workspace"} :
                         Delete(r) \in pending' => Delete(r) \in pending]_vars

(* A gateway that does what it is asked frees the agent, whatever the runner   *)
(* did and wherever the abort came, between the first check and the last step  *)
(* of the cleanup: unless it caught a create without its answer, or the        *)
(* profile's before it was sent, which the record does not tell from that, the *)
(* cleanup finds all there is, and does not itself run under the aborted       *)
(* signal.                                                                     *)
CleanGatewayReleases ==
  pc = "done" /\ mishaps = 0 /\ ~doubtful => completion # "unknown"

(* An abort ends the session: the dispatcher's shutdown waits for that. *)
ShutdownEndsSession == aborted ~> pc = "done"
===============================================================================
