------------------------------ MODULE MCDispatcher ------------------------------
(* Two agents, each with its profile in a repository of its own.  One slot     *)
(* more than agents, so that a handle of a session that is over can be kept    *)
(* while both agents have sessions.                                            *)
EXTENDS Dispatcher

CONSTANTS a1, a2, s1, s2, s3

TwoRepositories == << <<a1>>, <<a2>> >>

Answer(status, content) == [kind |-> "answered", status |-> status, content |-> content]
Crashed == [kind |-> "crashed", status |-> "error", content |-> "text"]

(* No script; work, with and without a failing script; blank and oversized     *)
(* prompts; a start without content; nothing to do; only failures.             *)
SomePreflights ==
  { <<>>, <<Answer("start", "text")>>, <<Answer("skip", "text"), Answer("start", "blank")>>,
    <<Crashed, Answer("start", "blank")>>, <<Answer("start", "blank")>>, <<Answer("start", "huge")>>,
    <<Answer("start", "absent")>>, <<Answer("skip", "absent")>>, <<Crashed, Crashed>> }
===============================================================================
