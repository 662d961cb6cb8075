----------------------------- MODULE MCMemoryTasks -----------------------------
(* Three sources of one key, two requests at a time, one active task allowed.  *)
EXTENDS MemoryTasks, TLC

CONSTANTS jira, github, gitlab, q1, q2, bot

SameKey == [t \in Tasks |-> "KEY-1"]

Item(reference, kind, author, resolution, obsolete) ==
  [reference |-> reference, kind |-> kind, author |-> author,
   resolution |-> resolution, obsolete |-> obsolete]

(* A pull request that replaces another, which is known by its id and its url. *)
Replacement == {[references |-> {"new"}, supersedes |-> {"old id"}],
                [references |-> {"old id", "old"}, supersedes |-> {}]}

SomeBodies ==
  { [artifacts |-> Replacement,
     evidence |-> {Item("new", "state", "agent", "accepted", FALSE),
                   Item("old", "state", "unnamed", "rejected", FALSE)}],
    [artifacts |-> {},
     evidence |-> {Item("new", "comment", "agent", "accepted", FALSE)}],
    [artifacts |-> {},
     evidence |-> {Item("old", "comment", "human", "unknown", FALSE),
                   Item("ticket", "state", "unnamed", "accepted", TRUE)}] }

SomeAdditions ==
  { [instance |-> bot, status |-> "in_progress", links |-> {}],
    [instance |-> NoInstance, status |-> "pr_open", links |-> {"old"}],
    [instance |-> bot, status |-> "done", links |-> {"old"}] }

Symmetry == Permutations(Tasks) \cup Permutations(Requests)
===============================================================================
