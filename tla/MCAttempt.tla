------------------------------- MODULE MCAttempt -------------------------------
(* Instances of Attempt for TLC, and the mutated definitions its properties    *)
(* are tested against.                                                         *)
EXTENDS Attempt

Snapshot(model, amount, source) ==
  [model |-> model, amount |-> amount, source |-> source, final |-> FALSE, keyed |-> TRUE]

Progress == [kind |-> "progress", state |-> "none", usage |-> NoUsage]
Spent(u) == [kind |-> "usage", state |-> "none", usage |-> u]
Ended(s) == [kind |-> "terminal", state |-> s, usage |-> NoUsage]

(* A budget of 20: one snapshot at the first notice, one past the hard limit. *)
FaultBodies ==
  {Progress, Ended("completed"), Ended("failed"),
   Spent(Snapshot("m1", 10, "known")), Spent(Snapshot("m1", 23, "known"))}

(* Two models, every notice level, the hard limit by sum, unknown pricing. *)
BudgetBodies ==
  {Ended("completed"),
   Spent(Snapshot("m1", 10, "known")), Spent(Snapshot("m1", 18, "known")),
   Spent(Snapshot("m2", 5, "known")), Spent(Snapshot("m2", 9, "unknown")),
   Spent([Snapshot("m1", 21, "known") EXCEPT !.final = TRUE, !.keyed = FALSE]),
   Spent([Snapshot("m1", 16, "known") EXCEPT !.keyed = FALSE])}
===============================================================================
