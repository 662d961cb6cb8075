------------------------------ MODULE WorkContext ------------------------------
(***************************************************************************)
(* The work an attempt turns out to be about: WorkContextTracker of        *)
(* domain/work-context.ts, which reads it off the agent's tool calls for   *)
(* the cost and cycle-run records.                                         *)
(*                                                                         *)
(* A task is named by its external key, the way the memory server stores   *)
(* one task per key.  The repository and the summary are left out.         *)
(***************************************************************************)
EXTENDS FiniteSets

CONSTANTS
  Keys,      \* external keys
  Calls      \* tool-use ids of one attempt

None == "none"

ASSUME WorkAssumption == None \notin Keys

(* What a call can be as far as the work goes: the bot-memory tools that      *)
(* select work (task_update once for each status that tells the type), the    *)
(* shell commands and other tools that hint at it, and progress_store.        *)
Selecting == {"bot_status_update", "task_add", "pr_open", "pr_changes", "done",
              "task_update", "task_outcome_report", "task_remove"}
Tools == Selecting \cup {"ci_checks", "review", "jira_transition", "memory_delete",
                         "progress_store", "other"}

WorkTypes == {"new_ticket", "pr_review", "ci_fix", "memory_housekeeping"}

(* A tool result: the task in it, and whether it says the task's key. *)
NoResult == [task |-> None, named |-> FALSE]
Results == {NoResult} \cup [task : Keys, named : BOOLEAN]

(* A tool event.  The context of a container call, or of one the runtime      *)
(* could not see into, is unavailable; swallowed is a failed code-mode call.  *)
ToolEvents ==
  [id : Calls, state : {"started", "completed", "failed"}, tool : Tools,
   key : Keys \cup {None}, result : Results, available : BOOLEAN, swallowed : BOOLEAN]

(* unnamed is history: the task is the one of a result that said no key. *)
Contexts == [task : Keys \cup {None}, key : Keys \cup {None},
             type : WorkTypes \cup {None}, unnamed : BOOLEAN]
Trackers == [context : Contexts, started : SUBSET Calls]

NoContext == [task |-> None, key |-> None, type |-> None, unnamed |-> FALSE]
NewTracker == [context |-> NoContext, started |-> {}]
-------------------------------------------------------------------------------
TakeKey(context, key) ==
  [context EXCEPT !.key = key, !.task = None, !.unnamed = FALSE]

(* The key of a call: a tool that selects work says which, progress_store     *)
(* only where nothing has been selected yet.                                  *)
SelectWork(context, tool, key) ==
  IF /\ key # None
     /\ \/ tool \in Selecting /\ key # context.key
        \/ tool = "progress_store" /\ context.key = None
  THEN TakeKey(context, key)
  ELSE context

(* The type a tool stands for; the task_updates that say where the pull       *)
(* request is overrule what was thought before.                               *)
TypeOf(tool) ==
  CASE tool \in {"task_add", "pr_open", "jira_transition"} -> "new_ticket"
    [] tool \in {"pr_changes", "done", "review"} -> "pr_review"
    [] tool = "ci_checks" -> "ci_fix"
    [] tool = "memory_delete" -> "memory_housekeeping"
    [] OTHER -> None

ClassifyWork(context, tool) ==
  IF TypeOf(tool) # None /\ (tool \in {"pr_open", "pr_changes"} \/ context.type = None)
  THEN [context EXCEPT !.type = TypeOf(tool)]
  ELSE context

ExtractToolContext(context, event) ==
  ClassifyWork(SelectWork(context, event.tool, event.key), event.tool)

(* A result about another key than the context's says nothing about it. *)
ExtractTaskResult(context, result) ==
  IF result.task = None
     \/ (result.named /\ context.key # None /\ result.task # context.key)
  THEN context
  ELSE [context EXCEPT !.task = result.task, !.unnamed = ~result.named]

(* A call is read when it starts, or when it completes if its start was not   *)
(* seen, and its result when it completes.                                    *)
Observe(tracker, event) ==
  IF ~event.available THEN tracker
  ELSE CASE event.state = "started" ->
              [context |-> ExtractToolContext(tracker.context, event),
               started |-> tracker.started \cup {event.id}]
         [] event.state = "completed" /\ ~event.swallowed ->
              LET read == IF event.id \in tracker.started THEN tracker.context
                          ELSE ExtractToolContext(tracker.context, event)
              IN [tracker EXCEPT !.context = ExtractTaskResult(read, event.result)]
         [] OTHER -> tracker
===============================================================================
