----------------------------- MODULE OutcomeRules -----------------------------
(***************************************************************************)
(* How the memory server reduces the evidence of an outcome report to a    *)
(* decision (outcome_classifier.py), and which outcome it shows for a task *)
(* (the task_outcomes view of task_outcomes.py).  An artifact is known by  *)
(* its references, an id and a url; evidence names one of them.            *)
(***************************************************************************)
EXTENDS Integers

CONSTANTS
  References,      \* ids and urls of artifacts, and of the tasks' own tickets
  TaskReferences   \* those that name the task's ticket itself

ASSUME OutcomeAssumption == TaskReferences \subseteq References
-------------------------------------------------------------------------------
Artifacts == [references : SUBSET References, supersedes : SUBSET References]

Resolutions == {"accepted", "rejected", "unknown"}
Authors == {"human", "workflow", "agent", "automation", "unnamed"}
Evidence == [reference : References, kind : {"state", "comment"}, author : Authors,
             resolution : Resolutions, obsolete : BOOLEAN]

(* Superseding a reference supersedes every alias of it: the least set that    *)
(* holds what is named and is closed under the references of an artifact.      *)
ClosedUnderAliases(S, artifacts) ==
  \A artifact \in artifacts :
    artifact.references \cap S # {} => artifact.references \subseteq S

Superseded(artifacts) ==
  LET named == UNION {artifact.supersedes : artifact \in artifacts}
  IN  {reference \in References :
        \A S \in SUBSET References :
          named \subseteq S /\ ClosedUnderAliases(S, artifacts) => reference \in S}

(* Mutant: an agent's own comment is evidence. *)
MutantRelevant(artifacts, evidence) ==
  {item \in evidence : item.reference \notin Superseded(artifacts)}

(* What agents and automations say of themselves is not evidence; what they    *)
(* observe of a state is.                                                      *)
Relevant(artifacts, evidence) ==
  {item \in evidence :
     /\ item.reference \notin Superseded(artifacts)
     /\ item.kind = "comment" => item.author \in {"human", "workflow", "unnamed"}}

Decisions == {"accepted", "rejected", "obsolete", "inconclusive"}

Decision(artifacts, evidence) ==
  LET relevant == Relevant(artifacts, evidence)
      resolutions == {item.resolution : item \in relevant}
  IN  CASE \E item \in relevant : item.obsolete /\ item.reference \in TaskReferences -> "obsolete"
        [] OTHER -> IF "rejected" \in resolutions THEN "rejected"
                    ELSE IF resolutions = {"accepted"} THEN "accepted"
                    ELSE "inconclusive"
-------------------------------------------------------------------------------
Active == {"in_progress", "pr_open", "pr_changes"}
Statuses == Active \cup {"paused", "done", "archived"}

(* The view joins the selected report only when the task is over.              *)
OutcomeState(status, reported, decision) ==
  CASE status \in Active \cup {"paused"} -> "wip"
    [] OTHER -> IF reported THEN decision ELSE "unreported"
===============================================================================
