------------------------------ MODULE MemoryTasks ------------------------------
(***************************************************************************)
(* The task table of the memory server and everybody who writes it: the    *)
(* agent's tools (tools/tasks.py), the dashboard's handlers (api.py) and   *)
(* the archive both share (task_outcomes.py).                              *)
(*                                                                         *)
(* A task is an external key and a source; the dashboard addresses keys,   *)
(* so one of its requests may touch the tasks of several sources.  One SQL *)
(* statement, or one transaction that locks its row, is a step.  Adding a  *)
(* task, unpausing and unarchiving are two statements without a lock: what *)
(* a request holds between them may be stale when it is written.           *)
(***************************************************************************)
EXTENDS OutcomeRules, Sequences, FiniteSets

CONSTANTS
  Tasks,           \* the identities (external_key, source_type)
  NoTask,
  Key,             \* the external key of each
  Instances,       \* bot instances
  NoInstance,      \* a task or a caller without instance_id
  Requests,        \* slots of requests between their two statements
  Links,           \* urls that metadata.prs may hold
  Bodies,          \* the artifacts and evidence reports come with
  Additions,       \* what tasks may be added as: instance, status, links
  StatusInputs,    \* statuses task_update is called with
  SavedInputs,     \* what an agent may write as status_before_pause
  MaxActive,       \* the constant of that name
  MaxReports,      \* bound: outcome reports written
  MaxChanges       \* bound: statements and transactions

ASSUME MemoryAssumption ==
  /\ IsFiniteSet(Tasks) /\ IsFiniteSet(Requests) /\ Requests # {}
  /\ Key \in [Tasks -> STRING \cup Tasks]
  /\ NoInstance \notin Instances /\ NoTask \notin Tasks
  /\ Links \subseteq References
  /\ Bodies \subseteq [artifacts : SUBSET Artifacts, evidence : SUBSET Evidence]
  /\ Additions \subseteq [instance : Instances \cup {NoInstance}, status : Statuses, links : SUBSET Links]
  /\ StatusInputs \subseteq Statuses
  /\ SavedInputs \cap {"none", "same"} = {}
  /\ MaxActive \in Nat /\ MaxReports \in Nat /\ MaxChanges \in Nat

VARIABLES
  row,        \* the table tasks
  reports,    \* the table task_outcome_reports, in the order of its ids
  request,    \* the requests between their statements
  changes,    \* statements and transactions so far, up to MaxChanges
  resumed,    \* history: the active tasks made active by something else than task_add
  waived      \* history: the archived tasks whose report an operator or new evidence dropped

vars == <<row, reports, request, changes, resumed, waived>>
-------------------------------------------------------------------------------
Absent == "absent"
NoReport == 0

NewRow(status, instance, links) ==
  [status |-> status, instance |-> instance, links |-> links, saved |-> "none",
   outcome |-> NoReport, archivedAt |-> FALSE]

Idle == [op |-> "idle", task |-> NoTask, instance |-> NoInstance,
         links |-> {}, status |-> "in_progress"]

IsActive(r) == r.status \in Active
Exists(t) == row[t].status # Absent
KeyRows(t) == {u \in Tasks : Exists(u) /\ Key[u] = Key[t]}

Init ==
  /\ row = [t \in Tasks |-> NewRow(Absent, NoInstance, {})]
  /\ reports = <<>>
  /\ request = [q \in Requests |-> Idle]
  /\ changes = 0
  /\ resumed = {} /\ waived = {}

(* The row a statement leaves of each task, and the histories that go with it. *)
Write(new) ==
  /\ changes < MaxChanges /\ changes' = changes + 1
  /\ row' = new
  /\ resumed' = {t \in Tasks : IsActive(new[t]) /\ (t \in resumed \/ (Exists(t) /\ ~IsActive(row[t])))}

StillWaived(new) == {t \in waived : new[t].status = "archived" /\ new[t].outcome = NoReport}
-------------------------------------------------------------------------------
(* task_add: the count, then the insert. *)

(* The tasks counted against an instance: its own and those of nobody.  *)
ActiveFor(i) ==
  {t \in Tasks : IsActive(row[t]) /\ (i = NoInstance \/ row[t].instance \in {i, NoInstance})}

(* Mutant: the limit itself is admitted. *)
MutantAddCounts(q, t, new) ==
  /\ request[q].op = "idle"
  /\ new.status # "archived"
  /\ Cardinality(ActiveFor(new.instance)) <= MaxActive
  /\ request' = [request EXCEPT ![q] = [op |-> "add", task |-> t, instance |-> new.instance,
                                        links |-> new.links, status |-> new.status]]
  /\ UNCHANGED <<row, reports, changes, resumed, waived>>

AddCounts(q, t, new) ==
  /\ request[q].op = "idle"
  /\ new.status # "archived"
  /\ Cardinality(ActiveFor(new.instance)) < MaxActive
  /\ request' = [request EXCEPT ![q] = [op |-> "add", task |-> t, instance |-> new.instance,
                                        links |-> new.links, status |-> new.status]]
  /\ UNCHANGED <<row, reports, changes, resumed, waived>>

(* UNIQUE(external_key, source_type) refuses a second row. *)
AddInserts(q) ==
  /\ request[q].op = "add"
  /\ request' = [request EXCEPT ![q] = Idle]
  /\ IF Exists(request[q].task)
     THEN UNCHANGED <<row, changes, resumed>>
     ELSE Write([row EXCEPT ![request[q].task] =
                   NewRow(request[q].status, request[q].instance, request[q].links)])
  /\ UNCHANGED <<reports, waived>>

(* A request whose connection or server goes away between its statements. *)
RequestLost(q) ==
  /\ request[q].op # "idle"
  /\ request' = [request EXCEPT ![q] = Idle]
  /\ UNCHANGED <<row, reports, changes, resumed, waived>>
-------------------------------------------------------------------------------
(* task_update: a status, metadata, or both ("same" for what is not given).    *)
(* Completion keeps the staged report, a write that changes nothing too; a     *)
(* real change of status or of evidence drops it.                              *)

(* Mutant: only a pause drops the report. *)
MutantDropsReport(old, status) ==
  status # "same" /\ (old.status = "archived" \/ status = "paused")

DropsReport(old, status) ==
  /\ status # "same"
  /\ \/ old.status = "archived"
     \/ old.status # status /\ status # "done"

TaskUpdate(t, status, links, saved) ==
  LET old == row[t]
      new == [old EXCEPT
        !.status = IF status = "same" THEN @ ELSE status,
        !.links = links,
        !.saved = IF saved = "same" THEN @ ELSE saved,
        !.outcome = IF links # old.links \/ DropsReport(old, status) THEN NoReport ELSE @,
        !.archivedAt = @ /\ (status = "same" \/ old.status # "archived")]
      table == [row EXCEPT ![t] = new]
  IN  /\ Exists(t)
      /\ status # "archived"
      /\ new # old
      /\ Write(table)
      /\ waived' = StillWaived(table) \cup
                     {u \in {t} : new.status = "archived" /\ links # old.links}
      /\ UNCHANGED <<reports, request>>
-------------------------------------------------------------------------------
(* task_outcome_report: the reported artifacts, and the stored ones they do    *)
(* not name, are classified with the evidence and the result is selected.      *)

MergedArtifacts(reported, links) ==
  reported \cup {[references |-> {link}, supersedes |-> {}] :
                   link \in links \ UNION {artifact.references : artifact \in reported}}

MayReport(old, correction, by) ==
  IF correction THEN old.status = "archived"
                ELSE old.status = "archived" => by = "migration"

TaskOutcomeReport(t, body, correction, by) ==
  LET report == [task |-> t, evidence |-> body.evidence,
                 artifacts |-> MergedArtifacts(body.artifacts, row[t].links),
                 decision |-> Decision(MergedArtifacts(body.artifacts, row[t].links), body.evidence),
                 links |-> row[t].links, status |-> row[t].status]
      table == [row EXCEPT ![t].outcome = Len(reports) + 1]
  IN  /\ Exists(t)
      /\ MayReport(row[t], correction, by)
      /\ Len(reports) < MaxReports
      /\ reports' = Append(reports, report)
      /\ Write(table)
      /\ waived' = StillWaived(table)
      /\ UNCHANGED request
-------------------------------------------------------------------------------
(* archive_task: for task_remove and for the dashboard, which may leave the    *)
(* source out when the key has one task, and may archive without a report.     *)

ValidOutcome(t) ==
  /\ row[t].outcome \in 1..Len(reports)
  /\ reports[row[t].outcome].task = t
  /\ reports[row[t].outcome].decision \in Decisions

Unambiguous(t, sourced) == sourced \/ KeyRows(t) = {t}

(* Mutant: no report is asked for. *)
MutantMayArchive(t, sourced) == Exists(t) /\ Unambiguous(t, sourced)

MayArchive(t, sourced) == Exists(t) /\ Unambiguous(t, sourced) /\ ValidOutcome(t)

(* Archiving what is archived changes nothing. *)
Archive(t, sourced) ==
  /\ MayArchive(t, sourced)
  /\ row[t].status # "archived"
  /\ Write([row EXCEPT ![t].status = "archived", ![t].archivedAt = TRUE])
  /\ UNCHANGED <<reports, request, waived>>

ManualArchive(t, sourced) ==
  /\ Exists(t) /\ Unambiguous(t, sourced)
  /\ Write([row EXCEPT ![t].status = "archived", ![t].archivedAt = TRUE, ![t].outcome = NoReport])
  /\ waived' = waived \cup {t}
  /\ UNCHANGED <<reports, request>>
-------------------------------------------------------------------------------
(* The dashboard's pause, unpause and unarchive: by key, all rows that match. *)

Pause(t) ==
  LET table == [u \in Tasks |->
                  IF u \in KeyRows(t) /\ IsActive(row[u])
                  THEN [row[u] EXCEPT !.status = "paused", !.saved = row[u].status, !.outcome = NoReport]
                  ELSE row[u]]
  IN  /\ Exists(t) /\ IsActive(row[t])
      /\ Write(table)
      /\ UNCHANGED <<reports, request, waived>>

(* _restore_status_from_row: the status saved by a pause, if it is one to      *)
(* resume in; else pr_open when the row knows of a pull request.               *)
RestoreStatus(r) ==
  IF r.saved \in Active THEN r.saved
  ELSE IF r.links # {} THEN "pr_open" ELSE "in_progress"

(* The read: of one row of the key. *)
From == [unpause |-> "paused", unarchive |-> "archived"]

RestoreReads(q, op, t) ==
  /\ request[q].op = "idle"
  /\ row[t].status = From[op]
  /\ request' = [request EXCEPT ![q] = [op |-> op, task |-> t, instance |-> NoInstance,
                                        links |-> {}, status |-> RestoreStatus(row[t])]]
  /\ UNCHANGED <<row, reports, changes, resumed, waived>>

(* The write: of every row of the key that is in the status now.  Only the     *)
(* unarchive clears archived_at, and only archived rows have it.               *)
RestoreWrites(q) ==
  LET op == request[q].op
      matching == {u \in Tasks : Key[u] = Key[request[q].task] /\ row[u].status = From[op]}
      table == [u \in Tasks |->
                  IF u \in matching
                  THEN [row[u] EXCEPT !.status = request[q].status, !.saved = "none", !.outcome = NoReport,
                                      !.archivedAt = @ /\ op = "unpause"]
                  ELSE row[u]]
  IN  /\ op \in DOMAIN From
      /\ request' = [request EXCEPT ![q] = Idle]
      /\ IF matching = {} THEN UNCHANGED <<row, changes, resumed, waived>>
                          ELSE Write(table) /\ waived' = StillWaived(table)
      /\ UNCHANGED reports
-------------------------------------------------------------------------------
Add(q) ==
  \/ \E t \in Tasks, new \in Additions : AddCounts(q, t, new)
  \/ AddInserts(q)

Restore(q) ==
  \/ \E op \in DOMAIN From, t \in Tasks : RestoreReads(q, op, t)
  \/ RestoreWrites(q)

Agent(t) ==
  \/ \E status \in StatusInputs \cup {"same"}, links \in SUBSET Links, saved \in SavedInputs \cup {"same"} :
       TaskUpdate(t, status, links, saved)
  \/ \E body \in Bodies, correction \in BOOLEAN, by \in {"agent", "migration"} :
       TaskOutcomeReport(t, body, correction, by)

Dashboard(t) ==
  \/ \E sourced \in BOOLEAN : Archive(t, sourced) \/ ManualArchive(t, sourced)
  \/ Pause(t)

Next ==
  \/ \E q \in Requests : Add(q) \/ Restore(q) \/ RequestLost(q)
  \/ \E t \in Tasks : Agent(t) \/ Dashboard(t)

Spec == Init /\ [][Next]_vars
-------------------------------------------------------------------------------
(* Rows, reports and pending requests have their shape; what a request will    *)
(* restore is a status to work in (tools/tasks.py, api.py).                    *)
Rows == [status : Statuses \cup {Absent}, instance : Instances \cup {NoInstance},
         links : SUBSET Links, saved : {"none"} \cup Statuses \cup SavedInputs,
         outcome : 0..MaxReports, archivedAt : BOOLEAN]

Reports == [task : Tasks, evidence : SUBSET Evidence, artifacts : SUBSET Artifacts,
            decision : Decisions, links : SUBSET Links, status : Statuses]

Pending == [op : {"idle", "add", "unpause", "unarchive"}, task : Tasks \cup {NoTask},
            instance : Instances \cup {NoInstance}, links : SUBSET Links,
            status : Statuses \ {"archived"}]

TypeOK ==
  /\ row \in [Tasks -> Rows]
  /\ reports \in Seq(Reports) /\ Len(reports) <= MaxReports
  /\ request \in [Requests -> Pending]
  /\ \A q \in Requests : request[q].op \in DOMAIN From => request[q].status \in Active
  /\ changes \in 0..MaxChanges
  /\ resumed \subseteq Tasks /\ waived \subseteq Tasks

(* A selected report was written for the task as it is now: of that task, with *)
(* its evidence as it stands, in its present status or before it was completed *)
(* or archived.  No interleaving of updates, pauses, restores and reports      *)
(* leaves a report selected that speaks of another state of the work           *)
(* (tools/tasks.py, task_update; api.py, pause and restore).                   *)
StagedReportIsFresh ==
  \A t \in Tasks : row[t].outcome # NoReport =>
    LET report == reports[row[t].outcome]
    IN  /\ row[t].outcome \in 1..Len(reports)
        /\ report.task = t
        /\ report.links = row[t].links
        /\ row[t].status \in {report.status, "done", "archived"}

(* A task is archived with its report, unless an operator waived it or its     *)
(* evidence changed since; archived_at is set exactly then, whichever of the   *)
(* six writers of the status came last (task_outcomes.py, archive_task).       *)
ArchivedOnEvidence ==
  \A t \in Tasks :
    /\ row[t].archivedAt = (row[t].status = "archived")
    /\ row[t].status = "archived" /\ row[t].outcome = NoReport => t \in waived

(* A task is shown as accepted only if it is over, something other than an     *)
(* agent's own comment accepts it, and nothing rejects it or is unknown that   *)
(* another artifact has not superseded: for the evidence the row has now       *)
(* (outcome_classifier.py and the view).                                       *)
TaskState(t) ==
  OutcomeState(row[t].status, row[t].outcome # NoReport,
               IF row[t].outcome = NoReport THEN "none" ELSE reports[row[t].outcome].decision)

OwnWord(item) == item.kind = "comment" /\ item.author \in {"agent", "automation"}

AcceptedIsEarned ==
  \A t \in Tasks : Exists(t) /\ TaskState(t) = "accepted" =>
    LET report == reports[row[t].outcome]
    IN  /\ row[t].status \in {"done", "archived"}
        /\ report.links = row[t].links
        /\ \E item \in report.evidence : item.resolution = "accepted" /\ ~OwnWord(item)
        /\ \A item \in report.evidence :
             item.resolution # "accepted" => \/ OwnWord(item)
                                             \/ item.reference \in Superseded(report.artifacts)

(* The limit on active tasks is not exact, for the count and the insert are    *)
(* two statements: but for what was paused, done or archived and made active   *)
(* again, an instance's tasks exceed it by less than the requests under way    *)
(* at once (tools/tasks.py, task_add).                                         *)
OverrunIsBounded ==
  \A i \in Instances :
    LET admitted == {q \in Requests : /\ request[q].op = "add"
                                      /\ request[q].status \in Active
                                      /\ request[q].instance \in {i, NoInstance}}
    IN  Cardinality(ActiveFor(i) \ resumed) + Cardinality(admitted)
          < MaxActive + Cardinality(Requests)
===============================================================================
