------------------------------ MODULE WorkPreflight ------------------------------
(***************************************************************************)
(* What the agent dispatcher makes of the preflight scripts of a profile:  *)
(* runScript and runWorkPreflight of work-preflight.ts, the input envelope *)
(* of input-envelope.ts and the admission checks SessionDispatcher applies *)
(* to the result before it reserves the agent.                             *)
(*                                                                         *)
(* A script ends in one of the ways runScript tells apart.  Its content is *)
(* absent, only white space, text, or more than an envelope may hold.      *)
(***************************************************************************)
EXTENDS Naturals, Sequences

Contents == {"absent", "blank", "text", "huge"}

(* The ends of a script: it answered with a status and a content, or it was    *)
(* stopped (timeout, output limit, abort), could not be run, exited with an    *)
(* error or printed something that is no answer.                               *)
Endings == [kind : {"answered"}, status : {"start", "skip", "error"}, content : Contents]
             \cup [kind : {"stopped", "crashed", "garbled"}, status : {"error"}, content : {"text"}]

(* runScript: a start without content is an error of the script, whose text    *)
(* then names the script and the reason.                                       *)
ScriptResult(ending) ==
  IF ending.kind = "answered" /\ ending.status = "start" /\ ending.content = "absent"
    THEN [status |-> "error", content |-> "text"]
    ELSE [status |-> ending.status, content |-> ending.content]

Fine(results) == {i \in DOMAIN results : results[i].status # "error"}
Failed(results) == DOMAIN results \ Fine(results)

(* The text handed on: a summary line per failed script, then the contents of  *)
(* the others.                                                                 *)
Combined(results) ==
  LET contents == {results[i].content : i \in Fine(results)}
  IN  IF "huge" \in contents THEN "huge"
      ELSE IF "text" \in contents \/ Failed(results) # {} THEN "text"
      ELSE "blank"

(* runWorkPreflight after the scripts: nothing to run, all failed, one of them *)
(* has work, or none has.  An abort by now makes it an error.                  *)
Decision(endings, aborted) ==
  LET results == [i \in DOMAIN endings |-> ScriptResult(endings[i])]
      statuses == {results[i].status : i \in Fine(results)}
  IN  IF endings = <<>> THEN [action |-> "no-scripts", prompt |-> "blank"]
      ELSE IF aborted \/ statuses = {} THEN [action |-> "error", prompt |-> "blank"]
      ELSE IF "start" \in statuses THEN [action |-> "start", prompt |-> Combined(results)]
      ELSE [action |-> "skip", prompt |-> Combined(results)]

(* runWorkPreflight when the scripts cannot be listed, or their state file     *)
(* cannot be removed before or after them.                                     *)
Undecided == [action |-> "error", prompt |-> "blank"]

Decisions == [action : {"no-scripts", "start", "skip", "error"}, prompt : {"blank", "text", "huge"}]

(* buildInputEnvelope *)
Envelope(decision) ==
  IF decision.action # "start" THEN "invalid"
  ELSE IF decision.prompt = "blank" THEN "skipped"
  ELSE IF decision.prompt = "huge" THEN "oversized"
  ELSE "built"

(* SessionDispatcher.dispatch up to the look at its reservations. *)
Admission(decision) ==
  IF decision.action # "start" THEN decision.action
  ELSE IF Envelope(decision) = "skipped" THEN "skip"
  ELSE IF Envelope(decision) # "built" THEN "error"
  ELSE "admit"
===============================================================================
