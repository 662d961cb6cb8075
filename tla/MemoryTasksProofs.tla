---------------------------- MODULE MemoryTasksProofs ----------------------------
(***************************************************************************)
(* What the rows and reports of the memory server may be relied on for,    *)
(* for any tasks, instances, reports and any number of requests at a time. *)
(***************************************************************************)
EXTENDS MemoryTasks, FiniteSetTheorems, TLAPS

(* TypeOK by the tables and the requests. *)
RowsOK == row \in [Tasks -> Rows]

ReportsOK == reports \in Seq(Reports) /\ Len(reports) <= MaxReports

RequestsOK ==
  /\ request \in [Requests -> Pending]
  /\ \A q \in Requests : request[q].op \in DOMAIN From => request[q].status \in Active

HistoriesOK == changes \in 0..MaxChanges /\ resumed \subseteq Tasks /\ waived \subseteq Tasks

LEMMA TypeParts == TypeOK <=> RowsOK /\ ReportsOK /\ RequestsOK /\ HistoriesOK
BY DEF TypeOK, RowsOK, ReportsOK, RequestsOK, HistoriesOK

LEMMA InitTypeOK == Init => TypeOK
<1> SUFFICES ASSUME Init  PROVE TypeOK
  OBVIOUS
<1>1. RowsOK
  <2>1. NewRow(Absent, NoInstance, {}) \in Rows
    BY MemoryAssumption DEF NewRow, Rows, Absent, NoReport
  <2> QED
    BY <2>1 DEF Init, RowsOK
<1>2. ReportsOK
  BY MemoryAssumption DEF Init, ReportsOK
<1>3. RequestsOK
  <2>1. Idle \in Pending /\ Idle.op \notin DOMAIN From
    BY DEF Idle, Pending, Statuses, Active, From
  <2> QED
    BY <2>1 DEF Init, RequestsOK
<1>4. HistoriesOK
  BY MemoryAssumption DEF Init, HistoriesOK
<1> QED
  BY <1>1, <1>2, <1>3, <1>4, TypeParts

(* What a statement writes is counted and keeps the histories. *)
LEMMA WriteType ==
  ASSUME TypeOK, NEW new, Write(new)
  PROVE  row' = new /\ changes' \in 0..MaxChanges /\ resumed' \subseteq Tasks
<1>1. changes \in 0..MaxChanges /\ MaxChanges \in Nat
  BY MemoryAssumption DEF TypeOK
<1> QED
  BY <1>1 DEF Write

LEMMA RestoreStatusType ==
  ASSUME NEW r  PROVE RestoreStatus(r) \in Active
BY DEF RestoreStatus, Active

(* A report is classified: its artifacts and its decision are of their types. *)
LEMMA MergedType ==
  ASSUME NEW reported \in SUBSET Artifacts, NEW links \in SUBSET Links
  PROVE  MergedArtifacts(reported, links) \in SUBSET Artifacts
<1>1. \A link \in links : [references |-> {link}, supersedes |-> {}] \in Artifacts
  BY MemoryAssumption DEF Artifacts
<1> QED
  BY <1>1 DEF MergedArtifacts

LEMMA DecisionType ==
  ASSUME NEW artifacts, NEW evidence  PROVE Decision(artifacts, evidence) \in Decisions
BY DEF Decision, Decisions

(* A row with what the statements set: it keeps its type. *)
Changed(r, status, links, saved, outcome, archivedAt) ==
  [r EXCEPT !.status = status, !.links = links, !.saved = saved,
            !.outcome = outcome, !.archivedAt = archivedAt]

LEMMA RowType ==
  ASSUME NEW r \in Rows, NEW status \in Statuses \cup {Absent}, NEW links \in SUBSET Links,
         NEW saved \in {"none"} \cup Statuses \cup SavedInputs,
         NEW outcome \in {r.outcome, NoReport}, NEW archivedAt \in BOOLEAN
  PROVE  Changed(r, status, links, saved, outcome, archivedAt) \in Rows
<1>1. NoReport \in 0..MaxReports
  BY MemoryAssumption DEF NoReport
<1>2. outcome \in 0..MaxReports
  BY <1>1 DEF Rows
<1> QED
  BY <1>2 DEF Rows, Changed

LEMMA RowFields ==
  ASSUME NEW r \in Rows
  PROVE  /\ r.status \in Statuses \cup {Absent} /\ r.links \in SUBSET Links
         /\ r.saved \in {"none"} \cup Statuses \cup SavedInputs /\ r.archivedAt \in BOOLEAN
BY DEF Rows

LEMMA RowShape ==
  ASSUME NEW r \in Rows
  PROVE  r = [status |-> r.status, instance |-> r.instance, links |-> r.links, saved |-> r.saved,
              outcome |-> r.outcome, archivedAt |-> r.archivedAt]
BY DEF Rows

(* Each action keeps the types. *)
LEMMA NextTypeOK == TypeOK /\ [Next]_vars => TypeOK'
<1> SUFFICES ASSUME TypeOK, [Next]_vars  PROVE TypeOK'
  OBVIOUS
<1>0. RowsOK /\ ReportsOK /\ RequestsOK /\ HistoriesOK
  BY TypeParts
<1> DEFINE Kept == RowsOK' /\ ReportsOK' /\ RequestsOK' /\ HistoriesOK'
<1>w. ASSUME NEW new \in [Tasks -> Rows], Write(new), waived' \subseteq Tasks
      PROVE  RowsOK' /\ HistoriesOK'
  BY <1>w, WriteType DEF RowsOK, HistoriesOK
<1>r. UNCHANGED reports => ReportsOK'
  BY <1>0 DEF ReportsOK
<1>q. UNCHANGED request => RequestsOK'
  BY <1>0 DEF RequestsOK
<1>i. ASSUME NEW q \in Requests, request' = [request EXCEPT ![q] = Idle]
      PROVE  RequestsOK'
  <2>1. Idle \in Pending /\ Idle.op \notin DOMAIN From
    BY DEF Idle, Pending, Statuses, Active, From
  <2> QED
    BY <1>0, <1>i, <2>1 DEF RequestsOK
<1>u. UNCHANGED <<row, changes, resumed, waived>> => RowsOK' /\ HistoriesOK'
  BY <1>0 DEF RowsOK, HistoriesOK
<1>s. \A t \in Tasks : row[t] \in Rows
  BY <1>0 DEF RowsOK
<1>l. \A new : StillWaived(new) \subseteq Tasks
  BY <1>0 DEF StillWaived, HistoriesOK
<1>1. ASSUME NEW q \in Requests, NEW t \in Tasks, NEW new \in Additions, AddCounts(q, t, new)
      PROVE  Kept
  <2> DEFINE added == [op |-> "add", task |-> t, instance |-> new.instance,
                       links |-> new.links, status |-> new.status]
  <2>1. added \in Pending /\ added.op \notin DOMAIN From
    BY <1>1, MemoryAssumption DEF AddCounts, Pending, From
  <2>2. request' = [request EXCEPT ![q] = added]
    BY <1>1 DEF AddCounts
  <2>3. RequestsOK'
    BY <1>0, <2>1, <2>2 DEF RequestsOK
  <2> QED
    BY <1>1, <1>r, <1>u, <2>3 DEF AddCounts
<1>2. ASSUME NEW q \in Requests, AddInserts(q)
      PROVE  Kept
  <2>1. request[q] \in Pending
    BY <1>0 DEF RequestsOK
  <2>2. NewRow(request[q].status, request[q].instance, request[q].links) \in Rows
    BY <2>1, MemoryAssumption DEF NewRow, Rows, Pending, NoReport
  <2>3. CASE Exists(request[q].task)
    BY <1>2, <1>i, <1>r, <1>u, <2>3 DEF AddInserts
  <2>4. CASE ~Exists(request[q].task)
    <3> DEFINE table == [row EXCEPT ![request[q].task] =
                           NewRow(request[q].status, request[q].instance, request[q].links)]
    <3>1. table \in [Tasks -> Rows]
      BY <1>0, <2>2 DEF RowsOK
    <3>2. Write(table) /\ UNCHANGED <<reports, waived>>
      BY <1>2, <2>4 DEF AddInserts
    <3>3. request' = [request EXCEPT ![q] = Idle] /\ waived' \subseteq Tasks
      BY <1>0, <1>2, <3>2 DEF AddInserts, HistoriesOK
    <3> QED
      BY <1>i, <1>r, <1>w, <3>1, <3>2, <3>3
  <2> QED
    BY <2>3, <2>4
<1>3. ASSUME NEW q \in Requests, RequestLost(q)
      PROVE  Kept
  BY <1>3, <1>i, <1>r, <1>u DEF RequestLost
<1>4. ASSUME NEW t \in Tasks, NEW status \in StatusInputs \cup {"same"}, NEW links \in SUBSET Links,
             NEW saved \in SavedInputs \cup {"same"}, TaskUpdate(t, status, links, saved)
      PROVE  Kept
  <2> DEFINE old == row[t]
             new == [old EXCEPT
               !.status = IF status = "same" THEN @ ELSE status,
               !.links = links,
               !.saved = IF saved = "same" THEN @ ELSE saved,
               !.outcome = IF links # old.links \/ DropsReport(old, status) THEN NoReport ELSE @,
               !.archivedAt = @ /\ (status = "same" \/ old.status # "archived")]
             table == [row EXCEPT ![t] = new]
  <2>1. new \in Rows
    <3>1. StatusInputs \subseteq Statuses
      BY MemoryAssumption
    <3>2. /\ new.status \in Statuses \cup {Absent} /\ new.links \in SUBSET Links
          /\ new.saved \in {"none"} \cup Statuses \cup SavedInputs
          /\ new.outcome \in {old.outcome, NoReport}
      BY <1>s, <3>1, RowFields
    <3>3. new.archivedAt \in BOOLEAN
      BY <1>s, RowFields
    <3>4. new = Changed(old, new.status, new.links, new.saved, new.outcome, new.archivedAt)
      BY <1>s, RowShape DEF Changed
    <3>5. old \in Rows
      BY <1>s
    <3> HIDE DEF new, old
    <3>6. Changed(old, new.status, new.links, new.saved, new.outcome, new.archivedAt) \in Rows
      BY <3>2, <3>3, <3>5, RowType
    <3> QED
      BY <3>4, <3>6
  <2>2. table \in [Tasks -> Rows]
    BY <1>0, <2>1 DEF RowsOK
  <2>3. Write(table) /\ UNCHANGED <<reports, request>>
    BY <1>4 DEF TaskUpdate
  <2>4. waived' \subseteq Tasks
    BY <1>4, <1>l DEF TaskUpdate
  <2> QED
    BY <1>q, <1>r, <1>w, <2>2, <2>3, <2>4
<1>5. ASSUME NEW t \in Tasks, NEW body \in Bodies, NEW correction \in BOOLEAN, NEW by \in {"agent", "migration"},
             TaskOutcomeReport(t, body, correction, by)
      PROVE  Kept
  <2> DEFINE merged == MergedArtifacts(body.artifacts, row[t].links)
             report == [task |-> t, evidence |-> body.evidence, artifacts |-> merged,
                        decision |-> Decision(merged, body.evidence),
                        links |-> row[t].links, status |-> row[t].status]
             table == [row EXCEPT ![t].outcome = Len(reports) + 1]
  <2>1. report \in Reports
    <3>1. body.artifacts \in SUBSET Artifacts /\ body.evidence \in SUBSET Evidence
      BY MemoryAssumption
    <3>2. row[t].links \in SUBSET Links /\ row[t].status \in Statuses
      BY <1>5, <1>s DEF Rows, TaskOutcomeReport, Exists
    <3>3. merged \in SUBSET Artifacts
      BY <3>1, <3>2, MergedType
    <3> QED
      BY <3>1, <3>2, <3>3, DecisionType DEF Reports
  <2>2. /\ reports' = Append(reports, report) /\ Len(reports) < MaxReports
        /\ Write(table) /\ UNCHANGED request /\ waived' = StillWaived(table)
    BY <1>5 DEF TaskOutcomeReport
  <2>3. ReportsOK'
    BY <1>0, <2>1, <2>2, MemoryAssumption DEF ReportsOK
  <2>4. table \in [Tasks -> Rows]
    <3>1. Len(reports) + 1 \in 0..MaxReports
      BY <1>0, <2>2, MemoryAssumption DEF ReportsOK
    <3>2. [row[t] EXCEPT !.outcome = Len(reports) + 1] \in Rows
      BY <1>s, <3>1 DEF Rows
    <3> QED
      BY <1>0, <3>2 DEF RowsOK
  <2> QED
    BY <1>l, <1>q, <1>w, <2>2, <2>3, <2>4
<1>6. ASSUME NEW t \in Tasks, NEW sourced \in BOOLEAN, Archive(t, sourced) \/ ManualArchive(t, sourced)
      PROVE  Kept
  <2>1. PICK outcome \in {row[t].outcome, NoReport} :
          /\ Write([row EXCEPT ![t] = [row[t] EXCEPT !.status = "archived", !.archivedAt = TRUE, !.outcome = outcome]])
          /\ UNCHANGED <<reports, request>> /\ waived' \subseteq waived \cup {t}
    <3>1. CASE Archive(t, sourced)
      <4>1. [row EXCEPT ![t].status = "archived", ![t].archivedAt = TRUE] =
            [row EXCEPT ![t] = [row[t] EXCEPT !.status = "archived", !.archivedAt = TRUE, !.outcome = row[t].outcome]]
        BY <1>0 DEF RowsOK, Rows
      <4> QED
        BY <3>1, <4>1 DEF Archive
    <3>2. CASE ManualArchive(t, sourced)
      <4>1. [row EXCEPT ![t].status = "archived", ![t].archivedAt = TRUE, ![t].outcome = NoReport] =
            [row EXCEPT ![t] = [row[t] EXCEPT !.status = "archived", !.archivedAt = TRUE, !.outcome = NoReport]]
        BY <1>0 DEF RowsOK, Rows
      <4> QED
        BY <3>2, <4>1 DEF ManualArchive
    <3> QED
      BY <1>6, <3>1, <3>2
  <2>2. [row[t] EXCEPT !.status = "archived", !.archivedAt = TRUE, !.outcome = outcome] \in Rows
    <3>1. /\ "archived" \in Statuses /\ TRUE \in BOOLEAN
      BY DEF Statuses
    <3>2. [row[t] EXCEPT !.status = "archived", !.archivedAt = TRUE, !.outcome = outcome] =
          Changed(row[t], "archived", row[t].links, row[t].saved, outcome, TRUE)
      BY <1>s, RowShape DEF Changed
    <3>3. row[t].links \in SUBSET Links /\ row[t].saved \in {"none"} \cup Statuses \cup SavedInputs
      BY <1>s, RowFields
    <3>4. Changed(row[t], "archived", row[t].links, row[t].saved, outcome, TRUE) \in Rows
      BY <1>s, <2>1, <3>1, <3>3, RowType, Zenon
    <3> QED
      BY <3>2, <3>4
  <2>3. [row EXCEPT ![t] = [row[t] EXCEPT !.status = "archived", !.archivedAt = TRUE, !.outcome = outcome]]
          \in [Tasks -> Rows]
    BY <1>0, <2>2 DEF RowsOK
  <2>4. waived' \subseteq Tasks
    BY <1>0, <2>1 DEF HistoriesOK
  <2> QED
    BY <1>q, <1>r, <1>w, <2>1, <2>3, <2>4
<1>7. ASSUME NEW t \in Tasks, Pause(t)
      PROVE  Kept
  <2>1. \A u \in Tasks : IsActive(row[u]) =>
          [row[u] EXCEPT !.status = "paused", !.saved = row[u].status, !.outcome = NoReport] \in Rows
    <3> SUFFICES ASSUME NEW u \in Tasks, IsActive(row[u])
                 PROVE  [row[u] EXCEPT !.status = "paused", !.saved = row[u].status, !.outcome = NoReport] \in Rows
      OBVIOUS
    <3>1. "paused" \in Statuses /\ row[u].status \in Statuses
      BY DEF Statuses, IsActive
    <3>2. [row[u] EXCEPT !.status = "paused", !.saved = row[u].status, !.outcome = NoReport] =
          Changed(row[u], "paused", row[u].links, row[u].status, NoReport, row[u].archivedAt)
      BY <1>s, RowShape DEF Changed
    <3> QED
      BY <1>s, <3>1, <3>2, RowType, RowFields
  <2> DEFINE table == [u \in Tasks |->
                  IF u \in KeyRows(t) /\ IsActive(row[u])
                  THEN [row[u] EXCEPT !.status = "paused", !.saved = row[u].status, !.outcome = NoReport]
                  ELSE row[u]]
  <2>2. table \in [Tasks -> Rows]
    BY <1>s, <2>1
  <2>3. Write(table) /\ UNCHANGED <<reports, request, waived>>
    BY <1>7 DEF Pause
  <2> QED
    BY <1>0, <1>q, <1>r, <1>w, <2>2, <2>3 DEF HistoriesOK
<1>8. ASSUME NEW q \in Requests, NEW op \in DOMAIN From, NEW t \in Tasks, RestoreReads(q, op, t)
      PROVE  Kept
  <2> DEFINE restore == [op |-> op, task |-> t, instance |-> NoInstance,
                         links |-> {}, status |-> RestoreStatus(row[t])]
  <2>1. restore \in Pending /\ restore.status \in Active
    BY RestoreStatusType DEF Pending, From, Statuses, Active
  <2>2. request' = [request EXCEPT ![q] = restore]
    BY <1>8 DEF RestoreReads
  <2>3. RequestsOK'
    BY <1>0, <2>1, <2>2 DEF RequestsOK
  <2> QED
    BY <1>8, <1>r, <1>u, <2>3 DEF RestoreReads
<1>9. ASSUME NEW q \in Requests, RestoreWrites(q)
      PROVE  Kept
  <2> DEFINE op == request[q].op
             matching == {u \in Tasks : Key[u] = Key[request[q].task] /\ row[u].status = From[op]}
             table == [u \in Tasks |->
                  IF u \in matching
                  THEN [row[u] EXCEPT !.status = request[q].status, !.saved = "none", !.outcome = NoReport,
                                      !.archivedAt = @ /\ op = "unpause"]
                  ELSE row[u]]
  <2>1. request[q].status \in Statuses
    BY <1>0 DEF RequestsOK, Pending
  <2>2. table \in [Tasks -> Rows]
    <3>1. ASSUME NEW u \in Tasks
          PROVE  [row[u] EXCEPT !.status = request[q].status, !.saved = "none", !.outcome = NoReport,
                                !.archivedAt = @ /\ op = "unpause"] \in Rows
      <4> DEFINE stamped == row[u].archivedAt /\ op = "unpause"
      <4>1. stamped \in BOOLEAN
        OBVIOUS
      <4>2. [row[u] EXCEPT !.status = request[q].status, !.saved = "none", !.outcome = NoReport,
                           !.archivedAt = @ /\ op = "unpause"] =
            Changed(row[u], request[q].status, row[u].links, "none", NoReport, stamped)
        BY <1>s, RowShape DEF Changed
      <4> HIDE DEF stamped
      <4> QED
        BY <1>s, <2>1, <4>1, <4>2, RowType, RowFields
    <3> QED
      BY <1>s, <3>1
  <2>3. request' = [request EXCEPT ![q] = Idle] /\ UNCHANGED reports
    BY <1>9 DEF RestoreWrites
  <2>4. CASE matching = {}
    BY <1>9, <1>i, <1>r, <1>u, <2>3, <2>4 DEF RestoreWrites
  <2>5. CASE matching # {}
    <3>1. Write(table) /\ waived' = StillWaived(table)
      BY <1>9, <2>5 DEF RestoreWrites
    <3> QED
      BY <1>i, <1>l, <1>r, <1>w, <2>2, <2>3, <3>1
  <2> QED
    BY <2>4, <2>5
<1>10. ASSUME UNCHANGED vars
       PROVE  Kept
  BY <1>10, <1>q, <1>r, <1>u DEF vars
<1>11. Kept
  <2>1. ASSUME NEW q \in Requests, Add(q) \/ Restore(q) \/ RequestLost(q)
        PROVE  Kept
    BY <1>1, <1>2, <1>3, <1>8, <1>9, <2>1 DEF Add, Restore
  <2>2. ASSUME NEW t \in Tasks, Agent(t) \/ Dashboard(t)
        PROVE  Kept
    BY <1>4, <1>5, <1>6, <1>7, <2>2 DEF Agent, Dashboard
  <2> QED
    BY <1>10, <2>1, <2>2 DEF Next
<1> QED
  BY <1>11 DEF TypeOK, RowsOK, ReportsOK, RequestsOK, HistoriesOK

(* Reports are what the classifier made of their evidence, forever. *)
Classified ==
  \A n \in 1..Len(reports) :
    reports[n].decision = Decision(reports[n].artifacts, reports[n].evidence)

IInv == TypeOK /\ Classified /\ StagedReportIsFresh /\ ArchivedOnEvidence

LEMMA InitIInv == Init => IInv
<1> SUFFICES ASSUME Init  PROVE IInv
  OBVIOUS
<1>1. \A t \in Tasks : /\ row[t].status = Absent /\ row[t].outcome = NoReport
                     /\ row[t].archivedAt = FALSE
  BY DEF Init, NewRow
<1>2. Len(reports) = 0
  BY DEF Init
<1>3. Classified
  BY <1>2 DEF Classified
<1>4. StagedReportIsFresh
  BY <1>1 DEF StagedReportIsFresh
<1>5. ArchivedOnEvidence
  BY <1>1 DEF ArchivedOnEvidence, Absent
<1> QED
  BY <1>3, <1>4, <1>5, InitTypeOK DEF IInv

(* What each statement does to each row, as far as reports and archives go.    *)
(* A report that stays selected stays fresh: the evidence is as it was, and    *)
(* the status too, or the task is over.                                        *)
Keeps(u) ==
  row'[u].outcome # NoReport =>
    /\ row'[u].outcome = row[u].outcome /\ row'[u].links = row[u].links
    /\ row'[u].status \in {row[u].status, "done", "archived"}

Stamps(u) ==
  /\ row'[u].archivedAt = (row'[u].status = "archived")
  /\ row'[u].status = "archived" /\ row'[u].outcome = NoReport => u \in waived'

LEMMA UntouchedRow ==
  ASSUME ArchivedOnEvidence, NEW u \in Tasks, row'[u] = row[u],
         u \in waived /\ row'[u].status = "archived" /\ row'[u].outcome = NoReport => u \in waived'
  PROVE  Keeps(u) /\ Stamps(u)
BY DEF ArchivedOnEvidence, Keeps, Stamps

(* Whoever writes a row and does not report keeps it so. *)
LEMMA WritersKeep ==
  ASSUME IInv, [Next]_vars,
         ~ \E t \in Tasks, body \in Bodies, correction \in BOOLEAN, by \in {"agent", "migration"} :
             TaskOutcomeReport(t, body, correction, by)
  PROVE  reports' = reports /\ \A u \in Tasks : Keeps(u) /\ Stamps(u)
<1> DEFINE Kept == reports' = reports /\ \A u \in Tasks : Keeps(u) /\ Stamps(u)
<1>0. /\ ArchivedOnEvidence /\ row \in [Tasks -> Rows]
      /\ request \in [Requests -> Pending] /\ waived \subseteq Tasks
      /\ \A q \in Requests : request[q].op \in DOMAIN From => request[q].status \in Active
  BY DEF IInv, TypeOK
<1>a. \A t \in Tasks : row[t].archivedAt = (row[t].status = "archived")
  BY <1>0 DEF ArchivedOnEvidence
<1>1. ASSUME UNCHANGED <<row, reports, waived>>
      PROVE  Kept
  BY <1>0, <1>1, UntouchedRow
<1>2. ASSUME NEW q \in Requests, AddInserts(q)
      PROVE  Kept
  <2>1. CASE Exists(request[q].task)
    BY <1>1, <1>2, <2>1 DEF AddInserts
  <2>2. CASE ~Exists(request[q].task)
    <3> DEFINE t == request[q].task
               new == NewRow(request[q].status, request[q].instance, request[q].links)
    <3>1. row' = [row EXCEPT ![t] = new] /\ UNCHANGED <<reports, waived>>
      BY <1>2, <2>2 DEF AddInserts, Write
    <3>2. new.outcome = NoReport /\ new.archivedAt = FALSE /\ new.status # "archived"
      BY <1>0 DEF NewRow, Pending, Statuses
    <3>3. ASSUME NEW u \in Tasks  PROVE Keeps(u) /\ Stamps(u)
      <4>1. CASE u = t
        <5>1. row'[u] = new
          BY <1>0, <3>1, <4>1
        <5> HIDE DEF new
        <5> QED
          BY <3>2, <5>1 DEF Keeps, Stamps
      <4>2. CASE u # t
        BY <1>0, <3>1, <4>2, UntouchedRow
      <4> QED
        BY <4>1, <4>2
    <3> QED
      BY <3>1, <3>3
  <2> QED
    BY <2>1, <2>2
<1>3. ASSUME NEW t \in Tasks, NEW status \in StatusInputs \cup {"same"}, NEW links \in SUBSET Links,
             NEW saved \in SavedInputs \cup {"same"}, TaskUpdate(t, status, links, saved)
      PROVE  Kept
  <2> DEFINE old == row[t]
             new == [old EXCEPT
               !.status = IF status = "same" THEN @ ELSE status,
               !.links = links,
               !.saved = IF saved = "same" THEN @ ELSE saved,
               !.outcome = IF links # old.links \/ DropsReport(old, status) THEN NoReport ELSE @,
               !.archivedAt = @ /\ (status = "same" \/ old.status # "archived")]
             table == [row EXCEPT ![t] = new]
  <2>1. /\ row' = table /\ status # "archived" /\ UNCHANGED reports
        /\ waived' = StillWaived(table) \cup {u \in {t} : new.status = "archived" /\ links # old.links}
    BY <1>3 DEF TaskUpdate, Write
  <2>2. /\ new.status = IF status = "same" THEN old.status ELSE status
        /\ new.links = links
        /\ new.outcome = IF links # old.links \/ DropsReport(old, status) THEN NoReport ELSE old.outcome
        /\ new.archivedAt = (old.archivedAt /\ (status = "same" \/ old.status # "archived"))
    BY <1>0 DEF Rows
  <2>3. old.archivedAt = (old.status = "archived")
    BY <1>a
  <2>4. row'[t] = new
    BY <1>0, <2>1
  <2>5. row'[t].status = "archived" => status = "same" /\ old.status = "archived"
    BY <2>1, <2>2, <2>4
  <2>6. Keeps(t)
    BY <2>2, <2>4 DEF Keeps, DropsReport
  <2>7. Stamps(t)
    <3>1. row'[t].archivedAt = (row'[t].status = "archived")
      BY <2>1, <2>2, <2>3, <2>4
    <3>2. ASSUME row'[t].status = "archived", row'[t].outcome = NoReport
          PROVE  t \in waived'
      <4>1. CASE links # old.links
        BY <2>1, <2>4, <3>2, <4>1
      <4>2. CASE links = old.links
        <5>1. old.outcome = NoReport /\ old.status = "archived"
          BY <2>2, <2>4, <2>5, <3>2, <4>2 DEF DropsReport
        <5>2. t \in waived
          BY <1>0, <5>1 DEF ArchivedOnEvidence
        <5>3. t \in StillWaived(table)
          BY <2>1, <2>4, <3>2, <5>2 DEF StillWaived
        <5> QED
          BY <2>1, <5>3
      <4> QED
        BY <4>1, <4>2
    <3> QED
      BY <3>1, <3>2 DEF Stamps
  <2>8. ASSUME NEW u \in Tasks, u # t  PROVE Keeps(u) /\ Stamps(u)
    <3>1. row'[u] = row[u]
      BY <1>0, <2>1, <2>8
    <3>2. u \in waived /\ row'[u].status = "archived" /\ row'[u].outcome = NoReport => u \in waived'
      BY <2>1 DEF StillWaived
    <3> QED
      BY <1>0, <3>1, <3>2, UntouchedRow
  <2> QED
    BY <2>1, <2>6, <2>7, <2>8
<1>4. ASSUME NEW t \in Tasks, NEW sourced \in BOOLEAN, Archive(t, sourced)
      PROVE  Kept
  <2>1. /\ row' = [row EXCEPT ![t].status = "archived", ![t].archivedAt = TRUE]
        /\ row[t].outcome # NoReport /\ UNCHANGED <<reports, waived>>
    BY <1>4 DEF Archive, Write, MayArchive, ValidOutcome, NoReport
  <2>2. Keeps(t) /\ Stamps(t)
    BY <1>0, <2>1 DEF Rows, Keeps, Stamps
  <2>3. ASSUME NEW u \in Tasks, u # t  PROVE Keeps(u) /\ Stamps(u)
    BY <1>0, <2>1, <2>3, UntouchedRow
  <2> QED
    BY <2>1, <2>2, <2>3
<1>5. ASSUME NEW t \in Tasks, NEW sourced \in BOOLEAN, ManualArchive(t, sourced)
      PROVE  Kept
  <2>1. /\ row' = [row EXCEPT ![t].status = "archived", ![t].archivedAt = TRUE, ![t].outcome = NoReport]
        /\ waived' = waived \cup {t} /\ UNCHANGED reports
    BY <1>5 DEF ManualArchive, Write
  <2>2. Keeps(t) /\ Stamps(t)
    BY <1>0, <2>1 DEF Rows, Keeps, Stamps
  <2>3. ASSUME NEW u \in Tasks, u # t  PROVE Keeps(u) /\ Stamps(u)
    BY <1>0, <2>1, <2>3, UntouchedRow
  <2> QED
    BY <2>1, <2>2, <2>3
<1>6. ASSUME NEW t \in Tasks, Pause(t)
      PROVE  Kept
  <2>1. UNCHANGED <<reports, waived>>
    BY <1>6 DEF Pause
  <2>2. ASSUME NEW u \in Tasks  PROVE Keeps(u) /\ Stamps(u)
    <3>1. row'[u] = IF u \in KeyRows(t) /\ IsActive(row[u])
                    THEN [row[u] EXCEPT !.status = "paused", !.saved = row[u].status, !.outcome = NoReport]
                    ELSE row[u]
      BY <1>6 DEF Pause, Write
    <3>2. CASE u \in KeyRows(t) /\ IsActive(row[u])
      <4>1. row'[u].status = "paused" /\ row'[u].outcome = NoReport /\ row'[u].archivedAt = row[u].archivedAt
        BY <1>0, <3>1, <3>2 DEF Rows
      <4>2. row[u].archivedAt = FALSE
        BY <1>a, <3>2 DEF IsActive, Active
      <4>3. row'[u].archivedAt = (row'[u].status = "archived") /\ row'[u].status # "archived"
        BY <4>1, <4>2
      <4> QED
        BY <4>1, <4>3 DEF Keeps, Stamps
    <3>3. CASE ~(u \in KeyRows(t) /\ IsActive(row[u]))
      BY <1>0, <2>1, <3>1, <3>3, UntouchedRow
    <3> QED
      BY <3>2, <3>3
  <2> QED
    BY <2>1, <2>2
<1>7. ASSUME NEW q \in Requests, RestoreWrites(q)
      PROVE  Kept
  <2> DEFINE op == request[q].op
             matching == {u \in Tasks : Key[u] = Key[request[q].task] /\ row[u].status = From[op]}
             table == [u \in Tasks |->
                  IF u \in matching
                  THEN [row[u] EXCEPT !.status = request[q].status, !.saved = "none", !.outcome = NoReport,
                                      !.archivedAt = @ /\ op = "unpause"]
                  ELSE row[u]]
  <2>1. CASE matching = {}
    BY <1>1, <1>7, <2>1 DEF RestoreWrites
  <2>2. CASE matching # {}
    <3>1. row' = table /\ waived' = StillWaived(table) /\ UNCHANGED reports /\ op \in DOMAIN From
      BY <1>7, <2>2 DEF RestoreWrites, Write
    <3>2. request[q].status \in Active
      BY <1>0, <3>1
    <3>3. ASSUME NEW u \in Tasks  PROVE Keeps(u) /\ Stamps(u)
      <4>1. CASE u \in matching
        <5>1. /\ row'[u].status = request[q].status /\ row'[u].outcome = NoReport
              /\ row'[u].archivedAt = (row[u].archivedAt /\ op = "unpause")
          BY <1>0, <3>1, <4>1 DEF Rows
        <5>2. row'[u].status # "archived"
          BY <3>2, <5>1 DEF Active
        <5>3. ~row'[u].archivedAt
          <6>1. CASE op = "unpause"
            <7>1. row[u].status = "paused"
              BY <4>1, <6>1 DEF From
            <7>2. row[u].archivedAt = FALSE
              BY <1>a, <7>1
            <7> QED
              BY <5>1, <7>2
          <6>2. CASE op # "unpause"
            BY <5>1, <6>2
          <6> QED
            BY <6>1, <6>2
        <5> QED
          BY <5>1, <5>2, <5>3 DEF Keeps, Stamps
      <4>2. CASE u \notin matching
        <5>1. row'[u] = row[u]
          BY <3>1, <4>2
        <5>2. u \in waived /\ row'[u].status = "archived" /\ row'[u].outcome = NoReport => u \in waived'
          BY <3>1 DEF StillWaived
        <5> QED
          BY <1>0, <5>1, <5>2, UntouchedRow
      <4> QED
        BY <4>1, <4>2
    <3> QED
      BY <3>1, <3>3
  <2> QED
    BY <2>1, <2>2
<1>8. ASSUME NEW q \in Requests, RequestLost(q) \/ (\E t \in Tasks, new \in Additions : AddCounts(q, t, new))
                                  \/ (\E op \in DOMAIN From, t \in Tasks : RestoreReads(q, op, t))
      PROVE  Kept
  BY <1>1, <1>8 DEF RequestLost, AddCounts, RestoreReads
<1>9. ASSUME UNCHANGED vars
      PROVE  Kept
  BY <1>1, <1>9 DEF vars
<1> QED
  <2>1. ASSUME NEW q \in Requests, Add(q) \/ Restore(q) \/ RequestLost(q)
        PROVE  Kept
    BY <1>2, <1>7, <1>8, <2>1 DEF Add, Restore
  <2>2. ASSUME NEW t \in Tasks, Agent(t) \/ Dashboard(t)
        PROVE  Kept
    BY <1>3, <1>4, <1>5, <1>6, <2>2 DEF Agent, Dashboard
  <2> QED
    BY <1>9, <2>1, <2>2 DEF Next
-------------------------------------------------------------------------------
(* A report, which is appended and selected in one transaction. *)
LEMMA ReporterKeeps ==
  ASSUME IInv, NEW t \in Tasks, NEW body \in Bodies, NEW correction \in BOOLEAN,
         NEW by \in {"agent", "migration"}, TaskOutcomeReport(t, body, correction, by)
  PROVE  Classified' /\ StagedReportIsFresh' /\ ArchivedOnEvidence'
<1> DEFINE merged == MergedArtifacts(body.artifacts, row[t].links)
           report == [task |-> t, evidence |-> body.evidence, artifacts |-> merged,
                      decision |-> Decision(merged, body.evidence),
                      links |-> row[t].links, status |-> row[t].status]
           table == [row EXCEPT ![t].outcome = Len(reports) + 1]
<1>1. /\ reports' = Append(reports, report) /\ row' = table
      /\ waived' = StillWaived(table)
  BY DEF TaskOutcomeReport, Write
<1>2. row \in [Tasks -> Rows] /\ reports \in Seq(Reports) /\ Len(reports) \in Nat
  BY DEF IInv, TypeOK
<1>3. /\ Len(reports') = Len(reports) + 1
      /\ reports'[Len(reports) + 1] = report
      /\ \A n \in 1..Len(reports) : reports'[n] = reports[n]
  <2> HIDE DEF report
  <2> QED
    BY <1>1, <1>2
<1>4. /\ row'[t].outcome = Len(reports) + 1
      /\ row'[t].links = row[t].links /\ row'[t].status = row[t].status
      /\ row'[t].archivedAt = row[t].archivedAt
  BY <1>1, <1>2 DEF Rows
<1>5. \A u \in Tasks : u # t => row'[u] = row[u]
  BY <1>1, <1>2
<1>6. Classified'
  <2>1. report.decision = Decision(report.artifacts, report.evidence)
    OBVIOUS
  <2> HIDE DEF report
  <2>2. \A n \in 1..Len(reports) : reports[n].decision = Decision(reports[n].artifacts, reports[n].evidence)
    BY DEF IInv, Classified
  <2>3. ASSUME NEW n \in 1..Len(reports')
        PROVE  reports'[n].decision = Decision(reports'[n].artifacts, reports'[n].evidence)
    <3>1. CASE n = Len(reports) + 1
      BY <1>3, <2>1, <3>1
    <3>2. CASE n # Len(reports) + 1
      <4>1. n \in 1..Len(reports)
        BY <1>2, <1>3, <3>2
      <4> QED
        BY <1>3, <2>2, <4>1
    <3> QED
      BY <3>1, <3>2
  <2> QED
    BY <2>3 DEF Classified
<1>7. StagedReportIsFresh'
  <2>1. ASSUME NEW u \in Tasks, row'[u].outcome # NoReport
        PROVE  /\ row'[u].outcome \in 1..Len(reports')
               /\ reports'[row'[u].outcome].task = u
               /\ reports'[row'[u].outcome].links = row'[u].links
               /\ row'[u].status \in {reports'[row'[u].outcome].status, "done", "archived"}
    <3>1. CASE u = t
      <4>1. report.task = t /\ report.links = row[t].links /\ report.status = row[t].status
        OBVIOUS
      <4> HIDE DEF report
      <4> QED
        BY <1>2, <1>3, <1>4, <3>1, <4>1
    <3>2. CASE u # t
      <4>1. row'[u] = row[u]
        BY <1>5, <3>2
      <4>2. /\ row[u].outcome \in 1..Len(reports)
            /\ reports[row[u].outcome].task = u
            /\ reports[row[u].outcome].links = row[u].links
            /\ row[u].status \in {reports[row[u].outcome].status, "done", "archived"}
        BY <2>1, <4>1 DEF IInv, StagedReportIsFresh
      <4>3. row[u].outcome \in 1..Len(reports')
        BY <1>2, <1>3, <4>2
      <4> HIDE DEF report
      <4> QED
        BY <1>3, <4>1, <4>2, <4>3
    <3> QED
      BY <3>1, <3>2
  <2> QED
    BY <2>1 DEF StagedReportIsFresh
<1>8. ArchivedOnEvidence'
  <2>1. \A u \in Tasks : /\ row[u].archivedAt = (row[u].status = "archived")
                         /\ row[u].status = "archived" /\ row[u].outcome = NoReport => u \in waived
    BY DEF IInv, ArchivedOnEvidence
  <2>2. ASSUME NEW u \in Tasks
        PROVE  /\ row'[u].archivedAt = (row'[u].status = "archived")
               /\ row'[u].status = "archived" /\ row'[u].outcome = NoReport => u \in waived'
    <3>1. CASE u = t
      BY <1>2, <1>4, <2>1, <3>1 DEF NoReport
    <3>2. CASE u # t
      <4>1. row'[u] = row[u]
        BY <1>5, <3>2
      <4>2. u \in waived /\ row'[u].status = "archived" /\ row'[u].outcome = NoReport => u \in waived'
        BY <1>1 DEF StillWaived
      <4> QED
        BY <2>1, <4>1, <4>2
    <3> QED
      BY <3>1, <3>2
  <2> QED
    BY <2>2 DEF ArchivedOnEvidence
<1> QED
  BY <1>6, <1>7, <1>8

LEMMA NextIInv == IInv /\ [Next]_vars => IInv'
<1> SUFFICES ASSUME IInv, [Next]_vars  PROVE IInv'
  OBVIOUS
<1> DEFINE Reported == \E t \in Tasks, body \in Bodies, correction \in BOOLEAN, by \in {"agent", "migration"} :
                         TaskOutcomeReport(t, body, correction, by)
<1>1. TypeOK'
  BY NextTypeOK DEF IInv
<1>2. Classified' /\ StagedReportIsFresh' /\ ArchivedOnEvidence'
  <2>1. CASE Reported
    BY <2>1, ReporterKeeps
  <2>2. CASE ~Reported
    <3>1. reports' = reports /\ \A u \in Tasks : Keeps(u) /\ Stamps(u)
      BY <2>2, WritersKeep
    <3>2. Classified /\ StagedReportIsFresh
      BY DEF IInv
    <3>3. Classified'
      BY <3>1, <3>2 DEF Classified
    <3>4. StagedReportIsFresh'
      BY <3>1, <3>2 DEF StagedReportIsFresh, Keeps
    <3>5. ArchivedOnEvidence'
      BY <3>1 DEF ArchivedOnEvidence, Stamps
    <3> QED
      BY <3>3, <3>4, <3>5
  <2> QED
    BY <2>1, <2>2
<1> QED
  BY <1>1, <1>2 DEF IInv

(* The invariant all of this rests on: the types, the reports as the classifier *)
(* left them, the freshness of the selected report and the evidence of every    *)
(* archive (tools/tasks.py, api.py, task_outcomes.py).                          *)
THEOREM Inductive == Spec => []IInv
<1> QED
  BY InitIInv, NextIInv, PTL DEF Spec

(* Rows, reports and pending requests keep their shape; what a request will     *)
(* restore is a status to work in (tools/tasks.py, api.py).                     *)
THEOREM TypesKept == Spec => []TypeOK
<1>1. IInv => TypeOK
  BY DEF IInv
<1> QED
  BY <1>1, Inductive, PTL

(* No interleaving of updates, pauses, restores and reports leaves a report     *)
(* selected that speaks of another task or of another state of the work         *)
(* (tools/tasks.py, task_update; api.py, pause and restore).                    *)
THEOREM Fresh == Spec => []StagedReportIsFresh
<1>1. IInv => StagedReportIsFresh
  BY DEF IInv
<1> QED
  BY <1>1, Inductive, PTL

(* A task is archived with its report unless it was waived, and archived_at is  *)
(* set exactly then (task_outcomes.py, archive_task).                           *)
THEOREM Archived == Spec => []ArchivedOnEvidence
<1>1. IInv => ArchivedOnEvidence
  BY DEF IInv
<1> QED
  BY <1>1, Inductive, PTL
-------------------------------------------------------------------------------
(* What the classifier's "accepted" stands on, for any artifacts and evidence. *)
LEMMA AcceptedStandsOn ==
  ASSUME NEW artifacts, NEW evidence \in SUBSET Evidence, Decision(artifacts, evidence) = "accepted"
  PROVE  /\ \E item \in evidence : item.resolution = "accepted" /\ ~OwnWord(item)
         /\ \A item \in evidence :
              item.resolution # "accepted" => \/ OwnWord(item)
                                              \/ item.reference \in Superseded(artifacts)
<1> DEFINE relevant == Relevant(artifacts, evidence)
           resolutions == {item.resolution : item \in relevant}
<1>1. resolutions = {"accepted"}
  BY DEF Decision
<1>2. \A item \in relevant : item.resolution = "accepted"
  BY <1>1
<1>3. PICK item \in relevant : TRUE
  BY <1>1
<1>4. item \in evidence /\ ~OwnWord(item)
  BY DEF Relevant, OwnWord
<1>5. ASSUME NEW other \in evidence, other.resolution # "accepted", ~OwnWord(other)
      PROVE  other.reference \in Superseded(artifacts)
  <2>1. other \notin relevant
    BY <1>2, <1>5
  <2>2. other.kind = "comment" => other.author \in {"human", "workflow", "unnamed"}
    BY <1>5 DEF OwnWord, Evidence, Authors
  <2> QED
    BY <2>1, <2>2 DEF Relevant
<1> QED
  BY <1>2, <1>3, <1>4, <1>5

(* A task is shown as accepted only if it is over, something other than an     *)
(* agent's own comment accepts it, and nothing stands that rejects it or is    *)
(* unknown, for the evidence the row has now (outcome_classifier.py).          *)
THEOREM Earned == Spec => []AcceptedIsEarned
<1>1. IInv => AcceptedIsEarned
  <2> SUFFICES ASSUME IInv, NEW t \in Tasks, Exists(t), TaskState(t) = "accepted"
               PROVE  LET report == reports[row[t].outcome]
                      IN  /\ row[t].status \in {"done", "archived"}
                          /\ report.links = row[t].links
                          /\ \E item \in report.evidence : item.resolution = "accepted" /\ ~OwnWord(item)
                          /\ \A item \in report.evidence :
                               item.resolution # "accepted" => \/ OwnWord(item)
                                                               \/ item.reference \in Superseded(report.artifacts)
    BY DEF AcceptedIsEarned
  <2> DEFINE report == reports[row[t].outcome]
  <2>1. row[t] \in Rows /\ reports \in Seq(Reports)
    BY DEF IInv, TypeOK
  <2>2. /\ row[t].status \notin Active \cup {"paused"} /\ row[t].outcome # NoReport
        /\ report.decision = "accepted"
    BY DEF TaskState, OutcomeState, Decisions
  <2>3. row[t].status \in {"done", "archived"}
    BY <2>1, <2>2 DEF Rows, Statuses, Exists
  <2>4. row[t].outcome \in 1..Len(reports) /\ report.links = row[t].links
    BY <2>2 DEF IInv, StagedReportIsFresh
  <2>5. Decision(report.artifacts, report.evidence) = "accepted"
    BY <2>2, <2>4 DEF IInv, Classified
  <2>6. report.evidence \in SUBSET Evidence
    <3>1. report \in Reports
      BY <2>1, <2>4
    <3> HIDE DEF report
    <3> QED
      BY <3>1 DEF Reports
  <2> HIDE DEF report
  <2>7. /\ \E item \in report.evidence : item.resolution = "accepted" /\ ~OwnWord(item)
        /\ \A item \in report.evidence :
             item.resolution # "accepted" => \/ OwnWord(item)
                                             \/ item.reference \in Superseded(report.artifacts)
    BY <2>5, <2>6, AcceptedStandsOn
  <2> QED
    BY <2>3, <2>4, <2>7 DEF report
<1> QED
  BY <1>1, Inductive, PTL
-------------------------------------------------------------------------------
(* The two sides of the limit: the tasks that count against an instance, and   *)
(* the additions that were let through and have not inserted yet.              *)
Counted(i) == ActiveFor(i) \ resumed

Admitted(i) ==
  {q \in Requests : /\ request[q].op = "add"
                    /\ request[q].status \in Active
                    /\ request[q].instance \in {i, NoInstance}}

LEMMA OverrunParts ==
  OverrunIsBounded <=>
    \A i \in Instances :
      Cardinality(Counted(i)) + Cardinality(Admitted(i)) < MaxActive + Cardinality(Requests)
BY DEF OverrunIsBounded, Counted, Admitted

LEMMA Sizes ==
  ASSUME NEW i
  PROVE  /\ IsFiniteSet(Counted(i)) /\ Cardinality(Counted(i)) \in Nat
         /\ IsFiniteSet(Admitted(i)) /\ Cardinality(Admitted(i)) \in Nat
         /\ IsFiniteSet(ActiveFor(i)) /\ Cardinality(ActiveFor(i)) \in Nat
         /\ Cardinality(Counted(i)) <= Cardinality(ActiveFor(i))
         /\ Cardinality(Admitted(i)) <= Cardinality(Requests)
         /\ Cardinality(Requests) \in Nat /\ MaxActive \in Nat
<1>1. IsFiniteSet(Tasks) /\ IsFiniteSet(Requests) /\ MaxActive \in Nat
  BY MemoryAssumption
<1>2. ActiveFor(i) \subseteq Tasks /\ Counted(i) \subseteq ActiveFor(i) /\ Admitted(i) \subseteq Requests
  BY DEF ActiveFor, Counted, Admitted
<1>3. IsFiniteSet(ActiveFor(i))
  BY <1>1, <1>2, FS_Subset
<1>4. /\ IsFiniteSet(Counted(i)) /\ Cardinality(Counted(i)) <= Cardinality(ActiveFor(i))
  BY <1>2, <1>3, FS_Subset
<1>5. /\ IsFiniteSet(Admitted(i)) /\ Cardinality(Admitted(i)) <= Cardinality(Requests)
  BY <1>1, <1>2, FS_Subset
<1> QED
  BY <1>1, <1>3, <1>4, <1>5, FS_CardinalityType

(* The sizes of a step's outcome are those of the sets after it. *)
LEMMA SizesAfter ==
  ASSUME NEW i
  PROVE  /\ IsFiniteSet(Counted(i)') /\ Cardinality(Counted(i)') \in Nat
         /\ IsFiniteSet(Admitted(i)') /\ Cardinality(Admitted(i)') \in Nat
         /\ Cardinality(Admitted(i)') <= Cardinality(Requests)
<1>1. IsFiniteSet(Tasks) /\ IsFiniteSet(Requests)
  BY MemoryAssumption
<1>2. Counted(i)' \subseteq Tasks /\ Admitted(i)' \subseteq Requests
  BY DEF ActiveFor, Counted, Admitted
<1>3. /\ IsFiniteSet(Counted(i)') /\ IsFiniteSet(Admitted(i)')
      /\ Cardinality(Admitted(i)') <= Cardinality(Requests)
  BY <1>1, <1>2, FS_Subset
<1> QED
  BY <1>3, FS_CardinalityType

(* A task that a statement leaves out of the count was not there, or is one    *)
(* that was made active again.                                                 *)
LEMMA NoMoreCounted ==
  ASSUME NEW new, Write(new), NEW i,
         \A u \in Tasks : /\ new[u].instance = row[u].instance
                          /\ ~Exists(u) => ~IsActive(new[u])
  PROVE  Counted(i)' \subseteq Counted(i)
<1>1. row' = new
  BY DEF Write
<1>2. resumed' = {t \in Tasks : IsActive(new[t]) /\ (t \in resumed \/ (Exists(t) /\ ~IsActive(row[t])))}
  BY DEF Write
<1>3. ASSUME NEW u \in Tasks, u \in Counted(i)'
      PROVE  u \in Counted(i)
  <2>1. IsActive(new[u]) /\ (i = NoInstance \/ new[u].instance \in {i, NoInstance}) /\ u \notin resumed'
    BY <1>1, <1>3 DEF Counted, ActiveFor, IsActive
  <2>2. Exists(u) /\ IsActive(row[u]) /\ u \notin resumed
    BY <1>2, <2>1
  <2> QED
    BY <2>1, <2>2 DEF Counted, ActiveFor
<1> QED
  BY <1>3 DEF Counted, ActiveFor

Within(i) == Cardinality(Counted(i)) + Cardinality(Admitted(i)) < MaxActive + Cardinality(Requests)

LEMMA FewerStay ==
  ASSUME NEW i, Within(i), Counted(i)' \subseteq Counted(i), Admitted(i)' \subseteq Admitted(i)
  PROVE  Within(i)'
<1>1. /\ Cardinality(Counted(i)') <= Cardinality(Counted(i))
      /\ Cardinality(Admitted(i)') <= Cardinality(Admitted(i))
  BY Sizes, FS_Subset
<1> QED
  BY <1>1, Sizes, SizesAfter DEF Within

LEMMA NextWithin ==
  ASSUME TypeOK, OverrunIsBounded, [Next]_vars, NEW i \in Instances
  PROVE  Within(i)'
<1>0. /\ row \in [Tasks -> Rows] /\ request \in [Requests -> Pending]
      /\ Within(i) /\ i # NoInstance
  BY MemoryAssumption, OverrunParts DEF TypeOK, Within
<1>f. UNCHANGED <<row, resumed>> => Counted(i)' = Counted(i)
  BY DEF Counted, ActiveFor
<1>a. UNCHANGED request => Admitted(i)' = Admitted(i)
  BY DEF Admitted
<1>d. ASSUME NEW q \in Requests, request' = [request EXCEPT ![q] = Idle]
      PROVE  Admitted(i)' = Admitted(i) \ {q}
  BY <1>0, <1>d DEF Admitted, Idle
<1>1. ASSUME NEW q \in Requests, NEW t \in Tasks, NEW new \in Additions, AddCounts(q, t, new)
      PROVE  Within(i)'
  <2> DEFINE added == [op |-> "add", task |-> t, instance |-> new.instance,
                       links |-> new.links, status |-> new.status]
  <2>1. /\ request' = [request EXCEPT ![q] = added] /\ request[q].op = "idle"
        /\ UNCHANGED <<row, resumed>>
        /\ Cardinality(ActiveFor(new.instance)) < MaxActive
    BY <1>1 DEF AddCounts
  <2>2. CASE new.instance \in {i, NoInstance}
    <3>1. ActiveFor(i) \subseteq ActiveFor(new.instance)
      BY <1>0, <2>2 DEF ActiveFor
    <3>2. Cardinality(ActiveFor(i)) <= Cardinality(ActiveFor(new.instance))
      BY <3>1, Sizes, FS_Subset
    <3>3. Cardinality(Counted(i)') < MaxActive
      BY <1>f, <2>1, <3>2, Sizes
    <3>4. /\ Cardinality(Counted(i)') \in Nat /\ Cardinality(Admitted(i)') \in Nat
          /\ Cardinality(Admitted(i)') <= Cardinality(Requests)
      BY SizesAfter
    <3>5. Cardinality(Requests) \in Nat /\ MaxActive \in Nat
      BY Sizes
    <3>6. Cardinality(Counted(i)') + Cardinality(Admitted(i)') < MaxActive + Cardinality(Requests)
      BY <3>3, <3>4, <3>5
    <3> QED
      BY <3>6 DEF Within
  <2>3. CASE new.instance \notin {i, NoInstance}
    <3>1. Admitted(i)' \subseteq Admitted(i)
      BY <1>0, <2>1, <2>3 DEF Admitted
    <3> QED
      BY <1>0, <1>f, <2>1, <3>1, FewerStay
  <2> QED
    BY <2>2, <2>3
<1>2. ASSUME NEW q \in Requests, AddInserts(q)
      PROVE  Within(i)'
  <2>1. Admitted(i)' = Admitted(i) \ {q}
    BY <1>2, <1>d DEF AddInserts
  <2>2. CASE Exists(request[q].task)
    BY <1>0, <1>2, <1>f, <2>1, <2>2, FewerStay DEF AddInserts
  <2>3. CASE ~Exists(request[q].task)
    <3> DEFINE t == request[q].task
               new == NewRow(request[q].status, request[q].instance, request[q].links)
               table == [row EXCEPT ![t] = new]
    <3>1. Write(table) /\ row' = table /\ request[q].op = "add"
      BY <1>2, <2>3 DEF AddInserts, Write
    <3>2. resumed' = {u \in Tasks : IsActive(table[u]) /\ (u \in resumed \/ (Exists(u) /\ ~IsActive(row[u])))}
      BY <3>1 DEF Write
    <3>3. ASSUME NEW u \in Tasks, u # t, u \in Counted(i)'
          PROVE  u \in Counted(i)
      <4>1. row'[u] = row[u] /\ table[u] = row[u]
        BY <1>0, <3>1, <3>3
      <4>2. IsActive(row[u]) /\ (i = NoInstance \/ row[u].instance \in {i, NoInstance}) /\ u \notin resumed'
        BY <3>3, <4>1 DEF Counted, ActiveFor, IsActive
      <4>3. u \notin resumed
        BY <3>2, <4>1, <4>2
      <4> QED
        BY <4>2, <4>3 DEF Counted, ActiveFor
    <3>4. Counted(i)' \subseteq Tasks
      BY DEF Counted, ActiveFor
    <3>5. CASE t \notin Counted(i)'
      <4>1. Counted(i)' \subseteq Counted(i)
        BY <3>3, <3>4, <3>5
      <4> QED
        BY <1>0, <2>1, <4>1, FewerStay
    <3>6. CASE t \in Counted(i)'
      <4>1. t \in Tasks /\ row'[t] = new
        BY <1>0, <3>1, <3>4, <3>6
      <4>2. IsActive(new) /\ new.instance \in {i, NoInstance}
        <5>1. IsActive(row'[t]) /\ (i = NoInstance \/ row'[t].instance \in {i, NoInstance})
          BY <3>6 DEF Counted, ActiveFor, IsActive
        <5> QED
          BY <1>0, <4>1, <5>1
      <4>3. q \in Admitted(i)
        BY <3>1, <4>2 DEF Admitted, IsActive, NewRow
      <4>4. Counted(i)' \subseteq Counted(i) \cup {t}
        BY <3>3, <3>4
      <4>5. /\ IsFiniteSet(Counted(i) \cup {t})
            /\ Cardinality(Counted(i) \cup {t}) <= Cardinality(Counted(i)) + 1
            /\ Cardinality(Counted(i) \cup {t}) \in Nat
        <5>1. IsFiniteSet(Counted(i)) /\ Cardinality(Counted(i)) \in Nat
          BY Sizes
        <5> DEFINE counted == Counted(i)
        <5> HIDE DEF counted
        <5>2. /\ IsFiniteSet(counted \cup {t})
              /\ Cardinality(counted \cup {t}) \in {Cardinality(counted), Cardinality(counted) + 1}
          <6>1. IsFiniteSet(counted)
            BY <5>1 DEF counted
          <6>2. CASE t \in counted
            BY <6>1, <6>2, FS_AddElement
          <6>3. CASE t \notin counted
            BY <6>1, <6>3, FS_AddElement
          <6> QED
            BY <6>2, <6>3
        <5> QED
          BY <5>1, <5>2 DEF counted
      <4>6. Cardinality(Counted(i)') <= Cardinality(Counted(i) \cup {t})
        BY <4>4, <4>5, FS_Subset
      <4>7. Cardinality(Admitted(i)') = Cardinality(Admitted(i)) - 1
        BY <2>1, <4>3, Sizes, FS_RemoveElement
      <4> QED
        BY <1>0, <4>5, <4>6, <4>7, Sizes, SizesAfter DEF Within
    <3> QED
      BY <3>5, <3>6
  <2> QED
    BY <2>2, <2>3
<1>3. ASSUME NEW q \in Requests, RequestLost(q)
      PROVE  Within(i)'
  BY <1>0, <1>3, <1>d, <1>f, FewerStay DEF RequestLost
<1>4. ASSUME NEW q \in Requests, NEW op \in DOMAIN From, NEW t \in Tasks, RestoreReads(q, op, t)
      PROVE  Within(i)'
  <2> DEFINE restore == [op |-> op, task |-> t, instance |-> NoInstance,
                         links |-> {}, status |-> RestoreStatus(row[t])]
  <2>1. request' = [request EXCEPT ![q] = restore] /\ UNCHANGED <<row, resumed>>
    BY <1>4 DEF RestoreReads
  <2>2. op # "add"
    BY DEF From
  <2>3. Admitted(i)' \subseteq Admitted(i)
    BY <1>0, <2>1, <2>2 DEF Admitted
  <2> QED
    BY <1>0, <1>f, <2>1, <2>3, FewerStay
<1>5. ASSUME NEW new, Write(new), Admitted(i)' \subseteq Admitted(i),
             \A u \in Tasks : /\ new[u].instance = row[u].instance
                              /\ ~Exists(u) => ~IsActive(new[u])
      PROVE  Within(i)'
  BY <1>0, <1>5, FewerStay, NoMoreCounted
<1>n. \A u \in Tasks : ~Exists(u) => ~IsActive(row[u])
  BY DEF Exists, IsActive, Active, Absent
<1>6. ASSUME NEW t \in Tasks, Exists(t), NEW changed, Write([row EXCEPT ![t] = changed]),
             changed.instance = row[t].instance, UNCHANGED request
      PROVE  Within(i)'
  <2> DEFINE table == [row EXCEPT ![t] = changed]
  <2>1. \A u \in Tasks : table[u] = IF u = t THEN changed ELSE row[u]
    BY <1>0
  <2>2. Write(table)
    BY <1>6
  <2> HIDE DEF table
  <2>3. \A u \in Tasks : /\ table[u].instance = row[u].instance
                         /\ ~Exists(u) => ~IsActive(table[u])
    BY <1>6, <1>n, <2>1
  <2> QED
    BY <1>5, <1>6, <1>a, <2>2, <2>3
<1>s. \A t \in Tasks : row[t] \in Rows
  BY <1>0
<1>7. ASSUME NEW t \in Tasks, Agent(t) \/ Dashboard(t)
      PROVE  Within(i)'
  <2>1. ASSUME NEW status \in StatusInputs \cup {"same"}, NEW links \in SUBSET Links,
               NEW saved \in SavedInputs \cup {"same"}, TaskUpdate(t, status, links, saved)
        PROVE  Within(i)'
    <3> DEFINE old == row[t]
               new == [old EXCEPT
                 !.status = IF status = "same" THEN @ ELSE status,
                 !.links = links,
                 !.saved = IF saved = "same" THEN @ ELSE saved,
                 !.outcome = IF links # old.links \/ DropsReport(old, status) THEN NoReport ELSE @,
                 !.archivedAt = @ /\ (status = "same" \/ old.status # "archived")]
    <3>1. Exists(t) /\ Write([row EXCEPT ![t] = new]) /\ UNCHANGED request
      BY <2>1 DEF TaskUpdate
    <3>2. new.instance = row[t].instance
      BY <1>s DEF Rows
    <3> HIDE DEF new
    <3> QED
      BY <1>6, <3>1, <3>2
  <2>2. ASSUME NEW body \in Bodies, NEW correction \in BOOLEAN, NEW by \in {"agent", "migration"},
               TaskOutcomeReport(t, body, correction, by)
        PROVE  Within(i)'
    <3> DEFINE new == [row[t] EXCEPT !.outcome = Len(reports) + 1]
    <3>1. Exists(t) /\ Write([row EXCEPT ![t].outcome = Len(reports) + 1]) /\ UNCHANGED request
      BY <2>2 DEF TaskOutcomeReport
    <3>2. [row EXCEPT ![t].outcome = Len(reports) + 1] = [row EXCEPT ![t] = new]
      BY <1>0
    <3>3. new.instance = row[t].instance
      BY <1>s DEF Rows
    <3> HIDE DEF new
    <3> QED
      BY <1>6, <3>1, <3>2, <3>3
  <2>3. ASSUME NEW sourced \in BOOLEAN, Archive(t, sourced)
        PROVE  Within(i)'
    <3> DEFINE new == [row[t] EXCEPT !.status = "archived", !.archivedAt = TRUE]
    <3>1. Exists(t) /\ Write([row EXCEPT ![t].status = "archived", ![t].archivedAt = TRUE]) /\ UNCHANGED request
      BY <2>3 DEF Archive, MayArchive
    <3>2. [row EXCEPT ![t].status = "archived", ![t].archivedAt = TRUE] = [row EXCEPT ![t] = new]
      BY <1>0 DEF Rows
    <3>3. new.instance = row[t].instance
      BY <1>s DEF Rows
    <3> HIDE DEF new
    <3> QED
      BY <1>6, <3>1, <3>2, <3>3
  <2>4. ASSUME NEW sourced \in BOOLEAN, ManualArchive(t, sourced)
        PROVE  Within(i)'
    <3> DEFINE new == [row[t] EXCEPT !.status = "archived", !.archivedAt = TRUE, !.outcome = NoReport]
    <3>1. /\ Exists(t) /\ UNCHANGED request
          /\ Write([row EXCEPT ![t].status = "archived", ![t].archivedAt = TRUE, ![t].outcome = NoReport])
      BY <2>4 DEF ManualArchive
    <3>2. [row EXCEPT ![t].status = "archived", ![t].archivedAt = TRUE, ![t].outcome = NoReport] =
          [row EXCEPT ![t] = new]
      BY <1>0 DEF Rows
    <3>3. new.instance = row[t].instance
      BY <1>s DEF Rows
    <3> HIDE DEF new
    <3> QED
      BY <1>6, <3>1, <3>2, <3>3
  <2>5. ASSUME Pause(t)
        PROVE  Within(i)'
    <3> DEFINE table == [u \in Tasks |->
                    IF u \in KeyRows(t) /\ IsActive(row[u])
                    THEN [row[u] EXCEPT !.status = "paused", !.saved = row[u].status, !.outcome = NoReport]
                    ELSE row[u]]
    <3>1. Write(table) /\ UNCHANGED request
      BY <2>5 DEF Pause
    <3>2. \A u \in Tasks : table[u].instance = row[u].instance
      BY <1>s DEF Rows
    <3>3. \A u \in Tasks : ~Exists(u) => ~IsActive(table[u])
      BY <1>n DEF KeyRows
    <3> HIDE DEF table
    <3> QED
      BY <1>5, <1>a, <3>1, <3>2, <3>3
  <2> QED
    BY <1>7, <2>1, <2>2, <2>3, <2>4, <2>5 DEF Agent, Dashboard
<1>8. ASSUME NEW q \in Requests, RestoreWrites(q)
      PROVE  Within(i)'
  <2> DEFINE op == request[q].op
             matching == {u \in Tasks : Key[u] = Key[request[q].task] /\ row[u].status = From[op]}
             table == [u \in Tasks |->
                  IF u \in matching
                  THEN [row[u] EXCEPT !.status = request[q].status, !.saved = "none", !.outcome = NoReport,
                                      !.archivedAt = @ /\ op = "unpause"]
                  ELSE row[u]]
  <2>1. Admitted(i)' \subseteq Admitted(i)
    BY <1>8, <1>d DEF RestoreWrites
  <2>2. CASE matching = {}
    BY <1>0, <1>8, <1>f, <2>1, <2>2, FewerStay DEF RestoreWrites
  <2>3. CASE matching # {}
    <3>1. Write(table) /\ op \in DOMAIN From
      BY <1>8, <2>3 DEF RestoreWrites
    <3>2. \A u \in Tasks : table[u].instance = row[u].instance
      BY <1>s DEF Rows
    <3>3. \A u \in Tasks : ~Exists(u) => ~IsActive(table[u])
      <4>1. op \in {"unpause", "unarchive"}
        BY <3>1 DEF From
      <4>2. From[op] # Absent
        BY <4>1 DEF From, Absent
      <4> QED
        BY <1>n, <4>2 DEF Exists
    <3> HIDE DEF table
    <3> QED
      BY <1>5, <2>1, <3>1, <3>2, <3>3
  <2> QED
    BY <2>2, <2>3
<1>9. ASSUME UNCHANGED vars
      PROVE  Within(i)'
  BY <1>0, <1>9, <1>a, <1>f, FewerStay DEF vars
<1> QED
  <2>1. ASSUME NEW q \in Requests, Add(q) \/ Restore(q) \/ RequestLost(q)
        PROVE  Within(i)'
    BY <1>1, <1>2, <1>3, <1>4, <1>8, <2>1 DEF Add, Restore
  <2> QED
    BY <1>7, <1>9, <2>1 DEF Next

(* The limit on active tasks is not exact, for the count and the insert are     *)
(* two statements: but for what was made active again, an instance's tasks      *)
(* exceed it by less than the requests under way at once (tools/tasks.py,       *)
(* task_add).                                                                   *)
THEOREM Overrun == Spec => []OverrunIsBounded
<1>1. Init => OverrunIsBounded
  <2> SUFFICES ASSUME Init, NEW i \in Instances
               PROVE  Cardinality(Counted(i)) + Cardinality(Admitted(i)) < MaxActive + Cardinality(Requests)
    BY OverrunParts
  <2>1. \A t \in Tasks : row[t].status = Absent
    BY DEF Init, NewRow
  <2>2. Counted(i) = {}
    BY <2>1 DEF Counted, ActiveFor, IsActive, Active, Absent
  <2>3. Admitted(i) = {}
    BY DEF Init, Admitted, Idle
  <2>4. Cardinality(Requests) # 0
    BY MemoryAssumption, FS_EmptySet
  <2> QED
    BY <2>2, <2>3, <2>4, FS_EmptySet, Sizes
<1>2. TypeOK /\ OverrunIsBounded /\ [Next]_vars => OverrunIsBounded'
  <2> SUFFICES ASSUME TypeOK, OverrunIsBounded, [Next]_vars
               PROVE  OverrunIsBounded'
    OBVIOUS
  <2>1. \A i \in Instances : Within(i)'
    BY NextWithin
  <2> QED
    BY <2>1 DEF OverrunIsBounded, Within, Counted, Admitted
<1> QED
  BY <1>1, <1>2, TypesKept, PTL DEF Spec
===============================================================================
