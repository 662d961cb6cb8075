---------------------------- MODULE MCCycleReports ----------------------------
(* Two keys and two overlapping tool calls: each selects work, one is answered *)
(* with the task of either key, named or not, and a progress note is stored.  *)
EXTENDS CycleReports

CONSTANTS c1, c2, k1, k2

On(provider, id) == [provider |-> provider, id |-> id]

Deployment(small, declared, allowed) ==
  [provider |-> Unnamed, model |-> NoModel, small |-> small, allowed |-> allowed,
   declared |-> [p \in {"vertex", "rehor-openai"} |-> declared], sound |-> {"vertex"},
   renders |-> TRUE]

(* Vertex deployments without a small model, with one that is not allowed and *)
(* with one that is not declared, all beside a gateway that is not set up;    *)
(* and one that does not render.                                              *)
MCDeployments ==
  {Deployment(NoModel, {"opus", Preferred}, {"opus", Preferred}),
   [Deployment(NoModel, {"opus", Preferred}, {"opus", Preferred}) EXCEPT !.renders = FALSE],
   Deployment(On("vertex", "haiku"), {"opus", "haiku"}, {"opus"}),
   Deployment(On("vertex", "haiku"), {"opus"}, {"opus", "haiku"})}

(* What such a deployment may serve, what needs the gateway, and a runtime    *)
(* without a factory.                                                         *)
MCSelections ==
  {[runtime |-> "opencode", provider |-> "vertex", model |-> On(Unnamed, "opus")],
   [runtime |-> "opencode", provider |-> "rehor-openai", model |-> On(Unnamed, "gpt")],
   [runtime |-> "unknown", provider |-> "vertex", model |-> On("vertex", "opus")]}

Event(id, state, tool, key, result) ==
  [id |-> id, state |-> state, tool |-> tool, key |-> key, result |-> result,
   available |-> TRUE, swallowed |-> FALSE]

MCToolCalls ==
  {Event(c1, "started", "task_add", k1, NoResult),
   Event(c1, "completed", "task_add", k1, [task |-> k1, named |-> TRUE]),
   Event(c2, "started", "bot_status_update", k2, NoResult),
   Event(c2, "completed", "progress_store", k2, [task |-> k1, named |-> FALSE]),
   Event(c2, "completed", "pr_changes", k2, [task |-> k2, named |-> TRUE])}
===============================================================================
