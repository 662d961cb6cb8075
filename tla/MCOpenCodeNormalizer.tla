------------------------- MODULE MCOpenCodeNormalizer -------------------------
(* Four servers: a step of the root and one of a child, the child's corrected  *)
(* to another model; a child's child; steps that are taken again between two   *)
(* compactions that spend the same; an execute tool.                           *)
EXTENDS OpenCodeNormalizer

Created(s, parent) == [type |-> "created", session |-> s, parent |-> parent, id |-> None]
Started(s, id, model) == [type |-> "stepStarted", session |-> s, id |-> id, model |-> model]
Ended(s, id, tokens, cost) == [type |-> "stepEnded", session |-> s, id |-> id, tokens |-> tokens, cost |-> cost]
Failed(s, id) == [type |-> "stepFailed", session |-> s, id |-> id]
Compacting(s, id) == [type |-> "compactionStarted", session |-> s, id |-> id]
Compaction(s, c, id, status, model, tokens) ==
  [type |-> "compactionEnded", session |-> s, compaction |-> c, id |-> id, status |-> status, model |-> model,
   tokens |-> tokens, cost |-> 0]

ChildAndModels ==
  <<Started("root", "m1", "gpt"), Created("child", "root"), Started("child", "m2", "own"),
    Ended("child", "m2", 3, 0), Ended("root", "m1", 2, 0), Started("child", "m2", "gpt"),
    Ended("child", "m2", 3, 1)>>
Descendants ==
  <<Created("child", "root"), Created("other", "root"), Created("grandchild", "child"),
    Started("grandchild", "m1", "own"), Ended("grandchild", "m1", 1, 4), Started("other", "m2", "gpt"),
    Failed("other", "m2")>>
Compactions ==
  <<Compacting("root", "c1"), Compaction("root", "c1", "e1", "completed", "gpt", 2), Started("root", "m1", "gpt"),
    Failed("root", "m1"), Compacting("root", "c2"), Compaction("root", "c2", "e2", "completed", "gpt", 2),
    Started("root", "m1", "gpt"), Ended("root", "m1", 1, 0)>>
FailedCompaction ==
  <<Started("root", "m1", "gpt"), Ended("root", "m1", 1, 0), Compacting("root", "c1"),
    Compaction("root", "c1", "e1", "failed", None, None), Compacting("root", "c2"),
    Compaction("root", "c2", "e2", "completed", "gpt", 2)>>

MCScenes ==
  {[events |-> e, tool |-> FALSE] : e \in {ChildAndModels, Descendants, Compactions, FailedCompaction}}
    \cup {[events |-> <<>>, tool |-> TRUE]}
===============================================================================
