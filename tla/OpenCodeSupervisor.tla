--------------------------- MODULE OpenCodeSupervisor ---------------------------
(***************************************************************************)
(* OpenCodeServerSupervisor of process-supervisor.ts: the process tree of  *)
(* one OpenCode server, how its exit is observed and how it is stopped.    *)
(* Starting it is part of the run and is in module OpenCodeRuntime, whose  *)
(* stop() and whose run both call stop() here, maybe at the same time.     *)
(*                                                                         *)
(* The leader and its descendants share a process group.  Nothing obliges  *)
(* a process to die of a signal, and the exit of the leader is seen later  *)
(* than it happens.  Signals are assumed to be permitted.                  *)
(***************************************************************************)
EXTENDS Naturals, Sequences, FiniteSets

VARIABLES
  child,        \* whether this.child is set
  server,       \* whether this.server is set: start() has succeeded
  exited,       \* the exit, or a spawn error, was observed
  termSent,
  crashed,      \* crashError is set and crashSignal aborted
  stopping,     \* how far the stop() under way is
  settles,      \* what it will settle with: ok, leak or other
  awaiting,     \* who awaits its promise
  directory,    \* whether there is a state directory of its own to remove
  masked,       \* history: a failed removal took the place of the leak error
  leader,       \* the server process itself: none, alive, dead
  descendants   \* whether processes it started are alive

supervisor == <<child, server, exited, termSent, crashed, stopping, settles, awaiting,
                directory, masked>>
tree == <<leader, descendants>>
-------------------------------------------------------------------------------
Callers == {"run", "stop"}
StopStages == {"idle", "waiting", "killed", "removing"}

GroupExists == leader = "alive" \/ descendants

SupervisorInit ==
  /\ child = FALSE /\ server = FALSE /\ exited = FALSE /\ termSent = FALSE /\ crashed = FALSE
  /\ stopping = "idle" /\ settles = "ok" /\ awaiting = {}
  /\ directory = FALSE /\ masked = FALSE
  /\ leader = "none" /\ descendants = FALSE

(* spawn: the process is there, or its error event is under way. *)
Spawn ==
  /\ child' = TRUE /\ exited' = FALSE /\ termSent' = FALSE /\ crashed' = FALSE
  /\ leader' \in {"alive", "dead"}
  /\ descendants' = FALSE
  /\ UNCHANGED <<server, stopping, settles, awaiting, directory, masked>>

(* The exit or error listener of the child: unless it was asked to stop this   *)
(* is a crash, and what is left of the group is asked to.                      *)
ObservesExit ==
  /\ leader = "dead" /\ ~exited
  /\ exited' = TRUE
  /\ crashed' = (crashed \/ ~termSent)
  /\ termSent' = TRUE
  /\ UNCHANGED <<child, server, stopping, settles, awaiting, directory, masked, tree>>
-------------------------------------------------------------------------------
(* stop() *)

(* cleanupStateDirectory: the directory is forgotten, then removed.  An rm     *)
(* that rejects takes the place of what stop() would have settled with.        *)
RemoveDirectory(result) ==
  /\ stopping' = "removing"
  /\ directory' = FALSE
  /\ settles' = result \/ (directory /\ settles' = "other")
  /\ masked' = (masked \/ (result = "leak" /\ settles' = "other"))

(* Mutant: a group whose leader has exited counts as gone. *)
MutantCallStop(who) ==
  /\ UNCHANGED <<exited, crashed, tree>>
  /\ awaiting' = awaiting \cup {who}
  /\ \/ /\ stopping # "idle"
        /\ UNCHANGED <<child, server, termSent, stopping, settles, directory, masked>>
     \/ /\ stopping = "idle" /\ (~child \/ exited)
        /\ RemoveDirectory("ok")
        /\ child' = FALSE /\ server' = FALSE
        /\ UNCHANGED termSent
     \/ /\ stopping = "idle" /\ child /\ ~exited
        /\ stopping' = "waiting" /\ settles' = "ok"
        /\ termSent' = TRUE
        /\ UNCHANGED <<child, server, directory, masked>>

(* The call joins the stop under way, or begins one: with nothing to stop only *)
(* the state directory is removed, else the group is sent SIGTERM unless the   *)
(* observer of the exit has done so.                                           *)
CallStop(who) ==
  /\ UNCHANGED <<exited, crashed, tree>>
  /\ awaiting' = awaiting \cup {who}
  /\ \/ /\ stopping # "idle"
        /\ UNCHANGED <<child, server, termSent, stopping, settles, directory, masked>>
     \/ /\ stopping = "idle" /\ ~child
        /\ RemoveDirectory("ok")
        /\ server' = FALSE
        /\ UNCHANGED <<child, termSent>>
     \/ /\ stopping = "idle" /\ child
        /\ stopping' = "waiting" /\ settles' = "ok"
        /\ termSent' = (termSent \/ ~exited \/ GroupExists)
        /\ UNCHANGED <<child, server, directory, masked>>

(* However the wait ends, the child is forgotten and its directory removed. *)
Forget(result) ==
  /\ RemoveDirectory(result)
  /\ child' = FALSE /\ server' = FALSE
  /\ UNCHANGED <<exited, termSent, crashed, awaiting, tree>>

Stopped ==
  /\ stopping \in {"waiting", "killed"}
  /\ exited /\ ~GroupExists
  /\ Forget("ok")

(* The grace time is over: SIGKILL, and a little time to see its effect. *)
Kill ==
  /\ stopping = "waiting"
  /\ ~(exited /\ ~GroupExists)
  /\ stopping' = "killed"
  /\ UNCHANGED <<child, server, exited, termSent, crashed, settles, awaiting, directory, masked, tree>>

(* Mutant: the effect of SIGKILL is awaited without a time limit. *)
MutantLeakDetected ==
  /\ stopping = "killed"
  /\ exited /\ ~GroupExists
  /\ Forget("ok")

LeakDetected ==
  /\ stopping = "killed"
  /\ ~(exited /\ ~GroupExists)
  /\ Forget("leak")

StopStep == Stopped \/ Kill \/ LeakDetected
-------------------------------------------------------------------------------
(* The processes *)

LeaderDies ==
  /\ leader = "alive"
  /\ leader' = "dead"
  /\ UNCHANGED <<supervisor, descendants>>

LeaderForks ==
  /\ leader = "alive" /\ ~descendants
  /\ descendants' = TRUE
  /\ UNCHANGED <<supervisor, leader>>

DescendantsDie ==
  /\ descendants
  /\ descendants' = FALSE
  /\ UNCHANGED <<supervisor, leader>>

ProcessStep == LeaderDies \/ LeaderForks \/ DescendantsDie

SupervisorTypeOK ==
  /\ child \in BOOLEAN /\ server \in BOOLEAN /\ exited \in BOOLEAN /\ termSent \in BOOLEAN
  /\ crashed \in BOOLEAN /\ stopping \in StopStages /\ settles \in {"ok", "leak", "other"}
  /\ directory \in BOOLEAN /\ masked \in BOOLEAN
  /\ awaiting \subseteq Callers
  /\ leader \in {"none", "alive", "dead"} /\ descendants \in BOOLEAN
===============================================================================
