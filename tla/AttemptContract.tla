---------------------------- MODULE AttemptContract ----------------------------
(***************************************************************************)
(* What one attempt promises the coordinator loop, with everything about   *)
(* how it is done left out: an attempt reaches one outcome and never       *)
(* changes it, announces it to the projection at most once, gives up its   *)
(* runtime, and only then returns; once it has returned nothing more       *)
(* happens.  Attempt.tla, the model of executeRun, implements it.          *)
(***************************************************************************)
CONSTANT Outcomes  \* the terminal states

VARIABLES
  outcome,    \* the terminal state reached, or "none"
  announced,  \* the outcome was handed to the projection
  runtime,    \* "held" until the runtime's stop() has settled, then "released"
  returned    \* the attempt has returned its result

vars == <<outcome, announced, runtime, returned>>

Init ==
  /\ outcome = "none"
  /\ announced = FALSE
  /\ runtime = "held"
  /\ returned = FALSE

(* The attempt's one terminal event is accepted. *)
Decide ==
  /\ ~returned
  /\ outcome = "none"
  /\ outcome' \in Outcomes
  /\ UNCHANGED <<announced, runtime, returned>>

(* The projection is told of it. *)
Announce ==
  /\ ~returned
  /\ outcome # "none"
  /\ ~announced
  /\ announced' = TRUE
  /\ UNCHANGED <<outcome, runtime, returned>>

Release ==
  /\ ~returned
  /\ runtime = "held"
  /\ runtime' = "released"
  /\ UNCHANGED <<outcome, announced, returned>>

Return ==
  /\ ~returned
  /\ outcome # "none"
  /\ runtime = "released"
  /\ returned' = TRUE
  /\ UNCHANGED <<outcome, announced, runtime>>

Next == Decide \/ Announce \/ Release \/ Return

Spec == Init /\ [][Next]_vars
================================================================================
