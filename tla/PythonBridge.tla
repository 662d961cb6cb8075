------------------------------ MODULE PythonBridge ------------------------------
(***************************************************************************)
(* One call of the Python bridge: PythonCoordinatorBridge.request of       *)
(* bridges/python.ts with the child process it spawns.  Each call runs     *)
(* `python -m bot.coordinator_bridge` once, writes one JSON request, and   *)
(* waits for the child's output, its diagnostics and its exit.  What the   *)
(* child answers is modelled by what the response parsers make of it.      *)
(***************************************************************************)
EXTENDS FiniteSets

VARIABLE call      \* the call under way

Operations == {"maintenance", "prepare", "preflight", "idle_start", "idle_skip", "cleanup"}

(* Values the parsers let through.  A preflight of null lets the agent pick   *)
(* its work; whatever cleanup answers is a measured or an unmeasured disk.    *)
Values(op) ==
  CASE op = "preflight" -> {"null", "start", "skip", "error"}
    [] op = "cleanup" -> {"measured", "unmeasured"}
    [] OTHER -> {"ok"}

(* A child may exit with a code other than 0 or not start at all, or print    *)
(* what is no response: no JSON, another protocol version, ok other than      *)
(* true.  A response to prepare and to preflight is refused besides if a      *)
(* field of it is missing or of the wrong shape; the others are not read.     *)
Refusals(op) == IF op \in {"prepare", "preflight"} THEN {"refused"} ELSE {}
Breakdowns == {"crashed", "garbled", "refused"}

Outputs == UNION {Values(op) : op \in Operations} \cup Breakdowns

NoCall == [op |-> "none", child |-> "none", aborted |-> FALSE, output |-> "none"]

BridgeCalls ==
  [op : Operations \cup {"none"}, child : {"none", "running", "gone"},
   aborted : BOOLEAN, output : Outputs \cup {"none"}]
-------------------------------------------------------------------------------
(* An aborted signal refuses the call before it spawns anything. *)
Request(op, signalled) ==
  /\ call.op = "none"
  /\ call' = [NoCall EXCEPT !.op = op, !.aborted = signalled,
                            !.child = IF signalled THEN "none" ELSE "running"]

(* The call's signal fires: the child is sent SIGTERM, and is waited for. *)
Signalled == IF call.op = "none" THEN call ELSE [call EXCEPT !.aborted = TRUE]

(* The child closes its output and exits.  One that the signal reached in     *)
(* time answers nothing.                                                      *)
ChildExits(output) ==
  /\ call.child = "running"
  /\ output \in Values(call.op) \cup {"crashed", "garbled"} \cup Refusals(call.op)
  /\ call' = [call EXCEPT !.child = "gone", !.output = output]

(* request() has nothing left to wait for. *)
Returned == call.op # "none" /\ (call.child = "gone" \/ (call.aborted /\ call.child = "none"))

Return == Returned /\ call' = NoCall

(* What the awaiting code gets: an abort outweighs any answer, and a broken   *)
(* answer is an error.                                                        *)
Verdict ==
  IF call.aborted THEN "aborted"
  ELSE IF call.output \in Breakdowns THEN "broken"
  ELSE call.output

Throws == Verdict \in {"aborted", "broken"}
===============================================================================
