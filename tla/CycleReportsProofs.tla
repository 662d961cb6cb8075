---------------------------- MODULE CycleReportsProofs ----------------------------
(***************************************************************************)
(* Proofs about the reports of the coordinator's cycles: that the records  *)
(* of a cycle agree, that a report finds its row, that the status shown is *)
(* honest and that a run uses what its deployment allows, for any number   *)
(* of cycles, events and failures.                                         *)
(***************************************************************************)
EXTENDS CycleReports, FiniteSetTheorems, WellFoundedInduction, TLAPS

Row == [cycle : Nat, transcript : Nat]
CountNames == {"cycles", "types", "timeouts", "preflights", "failures"}

(* The step of a report that comes next. *)
Stage == IF todo = <<>> THEN "done" ELSE Head(todo)

(* What a report may have left to write. *)
AttemptRests ==
  {TerminalReport, <<"cost", "compress", "line", "post", "metrics">>,
   <<"compress", "line", "post", "metrics">>, <<"line", "post", "metrics">>,
   <<"post", "metrics">>, <<"metrics">>, <<>>}
PreflightRests ==
  {PreflightReport, <<"line", "post", "status", "metrics">>, <<"post", "status", "metrics">>,
   ErrorReport, <<"metrics">>, <<>>}
ErrorRests == {ErrorReport, <<"metrics">>, <<>>}

ControlTyped ==
  /\ place \in Places /\ cycle \in Nat /\ aborted \in BOOLEAN
  /\ decision \in {"none", "run", "idle", "error"}
  /\ place # "down" => cycle > 0
  /\ place = "sleeping" => ~aborted

(* There is something left of a report only where one is being written. *)
ReportTyped ==
  /\ place = "terminal" => todo \in AttemptRests
  /\ place = "preflight_report" => todo \in PreflightRests
  /\ place \in {"prepare_error", "run_error", "sleep_error"} => todo \in ErrorRests
  /\ place \notin Reports => todo = <<>>

RecordsTyped ==
  /\ run.tracker \in Trackers /\ run.events \in Nat
  /\ run = [tracker |-> run.tracker, events |-> run.events, terminal |-> run.terminal]
  /\ board = [shown |-> board.shown, late |-> board.late, missed |-> board.missed]
  /\ board.missed \in BOOLEAN
  /\ files = [cost |-> files.cost, transcript |-> files.transcript, line |-> files.line]

CountsTyped == counts \in [CountNames -> Nat]

TableTyped ==
  /\ rows \in Seq(Row)
  /\ posting \subseteq Nat \ {0}
  /\ stray \in BOOLEAN

(* Where a cycle stands tells its decision, the phases that failed, and       *)
(* whether there has been an attempt.                                         *)
BeforeRun == {"maintenance", "prepare", "preflight", "idle_start", "setup"}
Unplanned == {"maintenance", "prepare", "preflight"}

Decided ==
  /\ place \in {"idle_start", "setup", "running", "terminal", "run_error", "signal",
                "sleep_error", "cleanup"} => decision = "run"
  /\ place \in {"idle_skip", "preflight_report", "preflight_cleanup", "prepare_error"} =>
       decision \in {"idle", "error"}
  /\ place = "idle_skip" => decision = "idle"
  /\ place = "prepare_error" => decision = "error"
  /\ "prepare" \in reported => decision = "error"
  /\ reported \cap {"run", "sleep"} # {} => decision = "run"
  /\ place \in Unplanned => reported = {}
  /\ place \in {"idle_start", "setup", "running", "terminal"} => "run" \notin reported
  /\ place \in {"idle_start", "setup", "running", "terminal"} => "sleep" \notin reported
  /\ place = "run_error" => "run" \in reported
  /\ place = "sleep_error" => "sleep" \in reported

Attempted ==
  /\ run.terminal # NoTerminal => decision = "run"
  /\ place \in BeforeRun \cup {"prepare_error", "idle_skip", "preflight_report",
                               "preflight_cleanup"} => run = NoRun
  /\ place = "running" => run.terminal = NoTerminal
  /\ place = "terminal" => run.terminal # NoTerminal

(* A cycle that runs has passed the check of its deployment. *)
Served ==
  /\ place # "down" => deployment \in Deployments
  /\ place \in {"preflight", "idle_start", "setup", "running", "terminal"} =>
       selection \in Selections
  /\ place \in {"idle_start", "setup", "running", "terminal"} => Serves(deployment, selection)

(* Nothing of another cycle is waiting in the table or on the way to it. *)
RowsOwned ==
  ~stray =>
    /\ \A i \in DOMAIN rows : rows[i].transcript \in {0, rows[i].cycle}
    /\ \A i \in DOMAIN rows : rows[i].transcript = 0 => rows[i].cycle = cycle
    /\ posting \subseteq {cycle}

(* The cycle's own transcript is whole until it is compressed. *)
Records(attempt) == IF attempt \in DOMAIN buffers THEN buffers[attempt] ELSE 0

Buffered ==
  /\ DOMAIN buffers \subseteq 1..cycle
  /\ place \in BeforeRun => cycle \notin DOMAIN buffers
  /\ place = "running" \/ (place = "terminal" /\ Stage \in {"status", "cost", "compress"}) =>
       Records(cycle) = run.events

Transcript == <<[form |-> "zst", records |-> run.events]>>

(* What an attempt has written when. *)
Written ==
  /\ place \in BeforeRun \cup {"running"} => files = NoFiles
  /\ run.terminal # NoTerminal =>
       /\ files.cost \in {<<>>, <<CostEntry>>}
       /\ files.line \in {<<>>, <<CycleRunEntry>>}
       /\ place = "terminal" /\ Stage \in {"compress", "line", "post", "metrics"} =>
            files.cost # <<>>
       /\ place = "terminal" /\ Stage \in {"line", "post", "metrics"} =>
            files.transcript = Transcript
       /\ place = "terminal" /\ Stage \in {"status", "cost", "compress"} => files.line = <<>>
       /\ files.line # <<>> => files.cost # <<>> /\ files.transcript = Transcript

(* The table and the reports on their way know of recorded cycles alone. *)
Recorded ==
  /\ \A i \in DOMAIN rows : rows[i].transcript # 0 => rows[i].transcript \in recorded
  /\ posting \subseteq recorded
  /\ place = "terminal" /\ Stage \in {"post", "metrics"} => cycle \in recorded
  /\ place = "preflight_report" /\ Stage \in {"post", "status", "metrics"} => cycle \in recorded

(* The work of a context: the task is that of the key, unless a result did    *)
(* not say whose it was.                                                      *)
ContextOk(context) ==
  context.key # None /\ ~context.unnamed => context.task \in {None, context.key}

WorkOk == ContextOk(run.tracker.context) /\ ContextOk(run.terminal.context)

(* What a cycle has been counted as when. *)
Uncounted == counts.cycles = 0 /\ counts.types = 0 /\ counts.timeouts = 0
CountedAttempt == counts.cycles = 1 /\ counts.types + counts.timeouts = 1
CountedPreflight == counts.cycles = 0 /\ counts.types = 1 /\ counts.preflights = 1

Counted ==
  /\ place \in BeforeRun \cup {"running", "prepare_error", "idle_skip"} => Uncounted
  /\ place \in Unplanned \cup {"prepare_error", "idle_skip"} => counts.preflights = 0
  /\ place = "terminal" /\ Stage # "done" => Uncounted
  /\ /\ run.terminal # NoTerminal /\ place # "down" /\ "terminal" \notin broken
     /\ place = "terminal" => Stage = "done"
     => CountedAttempt
  /\ place = "preflight_report" => counts.cycles = 0 /\ counts.types = 1
  /\ place = "preflight_report" /\ Stage # "done" => counts.preflights = 0
  /\ place = "preflight_report" /\ Stage = "done" /\ place \notin broken => CountedPreflight
  /\ place = "preflight_cleanup" => CountedPreflight
  /\ /\ place = "sleeping" /\ run.terminal = NoTerminal
     /\ decision # "run" /\ "decision" \notin reported
     => CountedPreflight

(* The status a cycle has to end with, and from where on it is shown. *)
Failed ==
  \/ reported \cap {"prepare", "run", "sleep"} # {}
  \/ decision = "error"
  \/ run.terminal # NoTerminal /\ IsError /\ ~run.terminal.noWork

Due == IF Failed THEN "error" ELSE "idle"

Final ==
  \/ place \in {"terminal", "run_error", "sleep_error"} /\ Stage # "status"
  \/ place = "preflight_report" /\ Stage = "metrics"
  \/ place = "preflight_report" /\ Stage = "done" /\ place \notin broken
  \/ place \in {"preflight_cleanup", "signal"}
  \/ place = "cleanup" /\ ~aborted
  \/ place = "sleeping" /\ (decision = "run" \/ "decision" \notin reported)

Shown ==
  /\ place \notin {"down", "stopped", "prepare_error"} \cup Unplanned => ready
  /\ Final /\ ~board.missed => board.shown = Due

IInv ==
  /\ ControlTyped /\ ReportTyped /\ RecordsTyped /\ CountsTyped /\ TableTyped
  /\ Decided /\ Attempted /\ Served /\ RowsOwned /\ WorkOk /\ Buffered /\ Written
  /\ Recorded /\ Counted /\ Shown
-------------------------------------------------------------------------------
(* Reports, step by step. *)
Steps == {"status", "cost", "compress", "line", "post", "metrics"}

LEMMA Literals ==
  /\ ErrorReport = <<"status", "metrics">> /\ Head(ErrorReport) = "status"
  /\ Tail(ErrorReport) = <<"metrics">> /\ ErrorReport # <<>>
  /\ Head(<<"metrics">>) = "metrics" /\ Tail(<<"metrics">>) = <<>> /\ <<"metrics">> # <<>>
  /\ Head(TerminalReport) = "status" /\ TerminalReport # <<>>
  /\ Tail(TerminalReport) = <<"cost", "compress", "line", "post", "metrics">>
  /\ Head(PreflightReport) = "compress" /\ PreflightReport # <<>>
  /\ Tail(PreflightReport) = <<"line", "post", "status", "metrics">>
BY DEF ErrorReport, TerminalReport, PreflightReport

LEMMA AttemptLiterals ==
  LET a == <<"cost", "compress", "line", "post", "metrics">>
      b == <<"compress", "line", "post", "metrics">>
      c == <<"line", "post", "metrics">>
      d == <<"post", "metrics">>
  IN  /\ Head(a) = "cost" /\ Tail(a) = b /\ a # <<>>
      /\ Head(b) = "compress" /\ Tail(b) = c /\ b # <<>>
      /\ Head(c) = "line" /\ Tail(c) = d /\ c # <<>>
      /\ Head(d) = "post" /\ Tail(d) = <<"metrics">> /\ d # <<>>
OBVIOUS

LEMMA PreflightLiterals ==
  LET a == <<"line", "post", "status", "metrics">>
      b == <<"post", "status", "metrics">>
  IN  /\ Head(a) = "line" /\ Tail(a) = b /\ a # <<>>
      /\ Head(b) = "post" /\ Tail(b) = ErrorReport /\ b # <<>>
BY DEF ErrorReport

LEMMA StageOf ==
  /\ \A step : Doing(step) => Stage = step
  /\ todo = <<>> => Stage = "done"
  /\ ReportTyped /\ place \notin Reports => Stage = "done" /\ todo = <<>>
  /\ ReportTyped /\ Stage = "done" => todo = <<>> \/ place \notin Places
BY Literals, AttemptLiterals, PreflightLiterals
DEF Stage, Doing, ReportTyped, AttemptRests, PreflightRests, ErrorRests, Places, Reports

(* The steps follow one another as the report says. *)
Following ==
  /\ place = "terminal" =>
       \/ Stage = "status" /\ Stage' = "cost"
       \/ Stage = "cost" /\ Stage' = "compress"
       \/ Stage = "compress" /\ Stage' = "line"
       \/ Stage = "line" /\ Stage' = "post"
       \/ Stage = "post" /\ Stage' = "metrics"
       \/ Stage = "metrics" /\ Stage' = "done"
  /\ place = "preflight_report" =>
       \/ Stage = "compress" /\ Stage' = "line"
       \/ Stage = "line" /\ Stage' = "post"
       \/ Stage = "post" /\ Stage' = "status"
       \/ Stage = "status" /\ Stage' = "metrics"
       \/ Stage = "metrics" /\ Stage' = "done"
  /\ place \in {"prepare_error", "run_error", "sleep_error"} =>
       \/ Stage = "status" /\ Stage' = "metrics"
       \/ Stage = "metrics" /\ Stage' = "done"

LEMMA StageAdvances ==
  ASSUME ReportTyped, NEW step, Doing(step), Advance, place' = place
  PROVE  /\ ReportTyped' /\ Following
         /\ place \in Reports /\ broken' = broken /\ Stage = step
<1>0. todo # <<>> /\ place \in Reports /\ todo' = Tail(todo) /\ Stage = Head(todo)
      /\ broken' = broken /\ Stage = step
  BY DEF Doing, Advance, ReportTyped, Stage
<1>1. CASE place = "terminal"
  <2>1. todo \in AttemptRests
    BY <1>1 DEF ReportTyped
  <2>2. todo' \in AttemptRests /\ Following
    BY <2>1, <1>0, <1>1, Literals, AttemptLiterals DEF AttemptRests, Stage, Following
  <2> QED
    BY <1>0, <1>1, <2>2 DEF ReportTyped, Reports
<1>2. CASE place = "preflight_report"
  <2>1. todo \in PreflightRests
    BY <1>2 DEF ReportTyped
  <2>2. todo' \in PreflightRests /\ Following
    BY <2>1, <1>0, <1>2, Literals, PreflightLiterals DEF PreflightRests, Stage, Following
  <2> QED
    BY <1>0, <1>2, <2>2 DEF ReportTyped, Reports
<1>3. CASE place \in {"prepare_error", "run_error", "sleep_error"}
  <2>1. todo \in ErrorRests
    BY <1>3 DEF ReportTyped
  <2>2. todo' \in ErrorRests /\ Following
    BY <2>1, <1>0, <1>3, Literals DEF ErrorRests, Stage, Following
  <2> QED
    BY <1>0, <1>3, <2>2 DEF ReportTyped, Reports
<1> QED
  BY <1>0, <1>1, <1>2, <1>3 DEF Reports

LEMMA StageAbandoned ==
  Abandon => Stage' = "done" /\ todo' = <<>> /\ broken' = broken \cup {place}
BY DEF Abandon, Stage

LEMMA StageBegins ==
  /\ todo' = TerminalReport => Stage' = "status"
  /\ todo' = PreflightReport => Stage' = "compress"
  /\ todo' = ErrorReport => Stage' = "status"
  /\ todo' = <<>> => Stage' = "done"
  /\ todo' = todo => Stage' = Stage
BY Literals DEF Stage
-------------------------------------------------------------------------------
(* Observing a call keeps a context right. *)
LEMMA ObserveKeeps ==
  ASSUME NEW tracker \in Trackers, NEW event \in ToolEvents
  PROVE  /\ Observe(tracker, event) \in Trackers
         /\ ContextOk(tracker.context) => ContextOk(Observe(tracker, event).context)
<1> USE DEF Contexts
<1>1. ASSUME NEW context \in Contexts
      PROVE  LET read == ExtractToolContext(context, event)
             IN  read \in Contexts /\ (ContextOk(context) => ContextOk(read))
  <2> DEFINE selected == SelectWork(context, event.tool, event.key)
  <2>0. event.key \in Keys \cup {None}
    BY DEF ToolEvents
  <2>1. selected \in Contexts /\ (ContextOk(context) => ContextOk(selected))
    BY <2>0, <1>1 DEF SelectWork, TakeKey, ContextOk
  <2>2. TypeOf(event.tool) \in WorkTypes \cup {None}
    BY DEF TypeOf, WorkTypes
  <2>3. ExtractToolContext(context, event) = ClassifyWork(selected, event.tool)
    BY DEF ExtractToolContext
  <2> HIDE DEF selected
  <2> QED
    BY <2>1, <2>2, <2>3 DEF ClassifyWork, ContextOk
<1>2. ASSUME NEW context \in Contexts
      PROVE  LET read == ExtractTaskResult(context, event.result)
             IN  read \in Contexts /\ (ContextOk(context) => ContextOk(read))
  <2>1. event.result \in Results
    BY DEF ToolEvents
  <2>2. event.result.task = None \/ (event.result.task \in Keys /\ event.result.named \in BOOLEAN)
    BY <2>1 DEF Results, NoResult
  <2> QED
    BY <2>2, <1>2, WorkAssumption DEF ExtractTaskResult, ContextOk
<1>3. tracker.context \in Contexts /\ tracker.started \subseteq Calls /\ event.id \in Calls
      /\ tracker = [context |-> tracker.context, started |-> tracker.started]
  BY DEF Trackers, ToolEvents
<1> DEFINE read == IF event.id \in tracker.started THEN tracker.context
                   ELSE ExtractToolContext(tracker.context, event)
           answer == ExtractTaskResult(read, event.result)
<1>4. read \in Contexts /\ (ContextOk(tracker.context) => ContextOk(read))
  BY <1>1, <1>3
<1>5. answer \in Contexts /\ (ContextOk(tracker.context) => ContextOk(answer))
  <2> HIDE DEF read
  <2> QED
    BY <1>2, <1>4
<1>6. \/ Observe(tracker, event) = tracker
      \/ Observe(tracker, event) = [context |-> ExtractToolContext(tracker.context, event),
                                    started |-> tracker.started \cup {event.id}]
      \/ Observe(tracker, event) = [context |-> answer, started |-> tracker.started]
  BY <1>3 DEF Observe
<1> QED
  <2> HIDE DEF answer
  <2> QED
    BY <1>1, <1>3, <1>5, <1>6 DEF Trackers
-------------------------------------------------------------------------------
(* What a step that stays where it is leaves alone. *)
Moves ==
  \/ Launch \/ Wake \/ Abort \/ Kill
  \/ MaintenanceReturns \/ ConfigReturns \/ PreflightReturns \/ IdleStartReturns
  \/ IdleSkipReturns \/ SetUpRun \/ EndAttempt \/ PrepareErrorReported
  \/ PreflightReported \/ RunReturns \/ SignalRead \/ ErrorReported \/ CleanupReturns

LEMMA OthersStay ==
  [Next]_vars => \/ Moves
                 \/ UNCHANGED <<place, current, decision, reported, ready>>
BY DEF Next, Moves, vars, current, report, outputs,
  CleanupTimesOut, CallBridge, BridgeExits, LateStatus, Deliver, StoreProgress,
  WriteStatus, WriteCost, CompressTranscript, WriteLine, PostCycleRun, LatePost,
  ObserveMetrics

LEMMA NextControlTyped == IInv /\ [Next]_vars => ControlTyped'
<1> SUFFICES ASSUME IInv, [Next]_vars  PROVE ControlTyped'
  OBVIOUS
<1> USE DEF current, Places, Operations, Reports
<1>0. ControlTyped
  BY DEF IInv
<1>1. CASE Launch
  <2>1. NewCycle /\ aborted' = FALSE
    BY <1>1 DEF Launch
  <2>2. /\ place' = "maintenance" /\ cycle' \in Nat /\ cycle' > 0
        /\ decision' = "none"
    BY <1>0, <2>1 DEF NewCycle, ControlTyped
  <2> QED
    BY <2>1, <2>2 DEF ControlTyped
<1>2. CASE Wake
  BY <1>0, <1>2 DEF Wake, NewCycle, ControlTyped
<1>3. CASE Abort
  BY <1>0, <1>3 DEF Abort, ControlTyped
<1>4. CASE Kill
  BY <1>0, <1>4 DEF Kill, ControlTyped
<1>5. CASE MaintenanceReturns
  BY <1>0, <1>5 DEF MaintenanceReturns, BridgeReturns, PrepareFails, ReportError,
     HasStatus, AtRest, ControlTyped
<1>6. CASE ConfigReturns
  BY <1>0, <1>6 DEF ConfigReturns, BridgeReturns, PrepareFails, ReportError,
     HasStatus, AtRest, ControlTyped
<1>7. CASE PreflightReturns
  BY <1>0, <1>7 DEF PreflightReturns, BridgeReturns, PrepareFails, ReportError,
     HasStatus, BeginPreflightReport, Decision, AtRest, ControlTyped
<1>8. CASE IdleStartReturns
  BY <1>0, <1>8 DEF IdleStartReturns, BridgeReturns, ReportError, HasStatus, AtRest,
     ControlTyped
<1>9. CASE IdleSkipReturns
  BY <1>0, <1>9 DEF IdleSkipReturns, BridgeReturns, ReportError, HasStatus,
     BeginPreflightReport, AtRest, ControlTyped
<1>10. CASE SetUpRun
  BY <1>0, <1>10 DEF SetUpRun, RunThrown, AfterRun, ReportError, HasStatus, ControlTyped
<1>11. CASE EndAttempt
  BY <1>0, <1>11 DEF EndAttempt, ControlTyped
<1>12. CASE PrepareErrorReported
  BY <1>0, <1>12 DEF PrepareErrorReported, BeginPreflightReport, ControlTyped
<1>13. CASE PreflightReported
  BY <1>0, <1>13 DEF PreflightReported, ReportError, HasStatus, AtRest, ControlTyped
<1>14. CASE RunReturns
  BY <1>0, <1>14 DEF RunReturns, RunThrown, AfterRun, ReportError, HasStatus, ControlTyped
<1>15. CASE ErrorReported
  BY <1>0, <1>15 DEF ErrorReported, AfterRun, ControlTyped
<1>sr. CASE SignalRead
  BY <1>0, <1>sr DEF SignalRead, ReportError, HasStatus, ControlTyped
<1>16. CASE CleanupReturns
  BY <1>0, <1>16 DEF CleanupReturns, BridgeReturns, ReportError, HasStatus, AtRest,
     ControlTyped
<1>17. CASE UNCHANGED <<place, current, decision, reported, ready>>
  BY <1>0, <1>17 DEF ControlTyped
<1> QED
  BY <1>sr, <1>1, <1>2, <1>3, <1>4, <1>5, <1>6, <1>7, <1>8, <1>9, <1>10, <1>11, <1>12,
     <1>13, <1>14, <1>15, <1>16, <1>17, OthersStay DEF Moves

(* A writer takes one step of the report or abandons it. *)
Writes(step) ==
  /\ Doing(step) /\ Stage = step /\ place \in Reports /\ place' = place
  /\ \/ Advance /\ Following /\ broken' = broken
     \/ Abandon /\ Stage' = "done" /\ broken' = broken \cup {place}
  /\ ReportTyped'

LEMMA WritersWrite ==
  ASSUME ReportTyped
  PROVE  /\ WriteStatus => Writes("status")
         /\ WriteCost => Writes("cost")
         /\ CompressTranscript => Writes("compress")
         /\ WriteLine => Writes("line")
         /\ PostCycleRun => Writes("post") /\ Advance
         /\ ObserveMetrics => Writes("metrics") /\ Advance
<1>0. ASSUME NEW step, Doing(step), place' = place, Advance \/ Abandon
      PROVE  Writes(step)
  <2>1. place \in Reports /\ Stage = step
    BY <1>0 DEF ReportTyped, Doing, Stage
  <2>2. CASE Advance
    BY <1>0, <2>1, <2>2, StageAdvances DEF Writes
  <2>3. CASE Abandon
    BY <1>0, <2>1, <2>3, StageAbandoned
    DEF Writes, ReportTyped, AttemptRests, PreflightRests, ErrorRests, Reports
  <2> QED
    BY <1>0, <2>2, <2>3
<1>1. WriteStatus => Doing("status") /\ place' = place /\ (Advance \/ Abandon)
  BY DEF WriteStatus
<1>2. WriteCost => Doing("cost") /\ place' = place /\ (Advance \/ Abandon)
  BY DEF WriteCost
<1>3. CompressTranscript => Doing("compress") /\ place' = place /\ (Advance \/ Abandon)
  BY DEF CompressTranscript
<1>4. WriteLine => Doing("line") /\ place' = place /\ (Advance \/ Abandon)
  BY DEF WriteLine
<1>5. PostCycleRun => Doing("post") /\ place' = place /\ Advance
  BY DEF PostCycleRun
<1>6. ObserveMetrics => Doing("metrics") /\ place' = place /\ Advance
  BY DEF ObserveMetrics
<1> QED
  BY <1>0, <1>1, <1>2, <1>3, <1>4, <1>5, <1>6

LEMMA NextReportTyped == IInv /\ [Next]_vars => ReportTyped'
<1> SUFFICES ASSUME IInv, [Next]_vars  PROVE ReportTyped'
  OBVIOUS
<1> USE DEF report, current
<1>0. ReportTyped
  BY DEF IInv
<1>1. CASE Launch
  BY <1>0, <1>1 DEF Launch, NewCycle, ReportTyped, AttemptRests, PreflightRests,
     ErrorRests, Reports, Operations
<1>2. CASE Wake
  BY <1>0, <1>2 DEF Wake, NewCycle, ReportTyped, AttemptRests, PreflightRests,
     ErrorRests, Reports, Operations
<1>3. CASE Abort
  BY <1>0, <1>3 DEF Abort, ReportTyped, AttemptRests, PreflightRests, ErrorRests,
     Reports, Operations
<1>4. CASE Kill
  BY <1>0, <1>4 DEF Kill, ReportTyped, AttemptRests, PreflightRests, ErrorRests,
     Reports, Operations
<1>5. CASE MaintenanceReturns
  BY <1>0, <1>5 DEF MaintenanceReturns, BridgeReturns, PrepareFails, ReportError,
     HasStatus, ReportTyped, AttemptRests, PreflightRests, ErrorRests, Reports,
     Operations, AtRest
<1>6. CASE ConfigReturns
  BY <1>0, <1>6 DEF ConfigReturns, BridgeReturns, PrepareFails, ReportError,
     HasStatus, ReportTyped, AttemptRests, PreflightRests, ErrorRests, Reports,
     Operations, AtRest
<1>7. CASE PreflightReturns
  BY <1>0, <1>7 DEF PreflightReturns, BridgeReturns, PrepareFails, ReportError,
     HasStatus, BeginPreflightReport, Decision, ReportTyped, AttemptRests,
     PreflightRests, ErrorRests, Reports, Operations, AtRest
<1>8. CASE IdleStartReturns
  BY <1>0, <1>8 DEF IdleStartReturns, BridgeReturns, ReportError, HasStatus,
     ReportTyped, AttemptRests, PreflightRests, ErrorRests, Reports, Operations,
     AtRest
<1>9. CASE IdleSkipReturns
  BY <1>0, <1>9 DEF IdleSkipReturns, BridgeReturns, ReportError, HasStatus,
     BeginPreflightReport, AtRest, ReportTyped, AttemptRests, PreflightRests,
     ErrorRests, Reports, Operations
<1>10. CASE SetUpRun
  BY <1>0, <1>10 DEF SetUpRun, RunThrown, AfterRun, ReportError, HasStatus, ReportTyped,
     AttemptRests, PreflightRests, ErrorRests, Reports, Operations
<1>11. CASE EndAttempt
  BY <1>0, <1>11 DEF EndAttempt, ReportTyped, AttemptRests, PreflightRests,
     ErrorRests, Reports, Operations
<1>12. CASE PrepareErrorReported
  BY <1>0, <1>12 DEF PrepareErrorReported, BeginPreflightReport, ReportTyped,
     AttemptRests, PreflightRests, ErrorRests, Reports, Operations
<1>13. CASE PreflightReported
  BY <1>0, <1>13 DEF PreflightReported, ReportError, HasStatus, AtRest, ReportTyped,
     AttemptRests, PreflightRests, ErrorRests, Reports, Operations
<1>14. CASE RunReturns
  BY <1>0, <1>14 DEF RunReturns, RunThrown, AfterRun, ReportError, HasStatus, ReportTyped,
     AttemptRests, PreflightRests, ErrorRests, Reports, Operations
<1>15. CASE ErrorReported
  BY <1>0, <1>15 DEF ErrorReported, AfterRun, ReportTyped, AttemptRests, PreflightRests,
     ErrorRests, Reports, Operations
<1>sr. CASE SignalRead
  BY <1>0, <1>sr DEF SignalRead, ReportError, HasStatus, ReportTyped, AttemptRests, PreflightRests,
     ErrorRests, Reports, Operations
<1>16. CASE CleanupReturns
  BY <1>0, <1>16 DEF CleanupReturns, BridgeReturns, ReportError, HasStatus, AtRest,
     ReportTyped, AttemptRests, PreflightRests, ErrorRests, Reports, Operations
<1>17. CASE WriteStatus
  BY <1>0, <1>17, WritersWrite DEF Writes
<1>18. CASE WriteCost
  BY <1>0, <1>18, WritersWrite DEF Writes
<1>19. CASE CompressTranscript
  BY <1>0, <1>19, WritersWrite DEF Writes
<1>20. CASE WriteLine
  BY <1>0, <1>20, WritersWrite DEF Writes
<1>21. CASE PostCycleRun
  BY <1>0, <1>21, WritersWrite DEF Writes
<1>22. CASE ObserveMetrics
  BY <1>0, <1>22, WritersWrite DEF Writes
<1>23. CASE UNCHANGED <<place, report>>
  BY <1>0, <1>23 DEF report, ReportTyped
<1> QED
  BY <1>sr, <1>1, <1>2, <1>3, <1>4, <1>5, <1>6, <1>7, <1>8, <1>9, <1>10, <1>11, <1>12,
     <1>13, <1>14, <1>15, <1>16, <1>17, <1>18, <1>19, <1>20, <1>21, <1>22, <1>23 DEF
     Next, vars, CleanupTimesOut, CallBridge, BridgeExits, LateStatus, Deliver,
     StoreProgress, LatePost

(* Every status write leaves the status and says whether it missed. *)
StatusPut(status) ==
  \/ board' = [board EXCEPT !.shown = status, !.missed = FALSE]
  \/ board' = [board EXCEPT !.missed = TRUE]
  \/ board' = [board EXCEPT !.missed = TRUE, !.late = status]

LEMMA PutStatusPuts == ASSUME NEW status, PutStatus(status)  PROVE StatusPut(status)
BY DEF PutStatus, StatusWritten, StatusLost, StatusDelayed, StatusPut

LEMMA PutStatusTyped ==
  ASSUME NEW status, RecordsTyped, StatusPut(status) \/ UNCHANGED board
  PROVE  /\ board' = [shown |-> board'.shown, late |-> board'.late, missed |-> board'.missed]
         /\ board'.missed \in BOOLEAN
         /\ board'.missed \/ board'.shown = status \/ board' = board
BY DEF StatusPut, RecordsTyped

LEMMA DeliverTyped ==
  ASSUME RecordsTyped, Deliver
  PROVE  /\ \/ run'.tracker = run.tracker
            \/ \E event \in ToolEvents : run'.tracker = Observe(run.tracker, event)
         /\ run'.events = run.events + 1 /\ run'.terminal = run.terminal
         /\ run' = [tracker |-> run'.tracker, events |-> run'.events, terminal |-> run'.terminal]
         /\ StatusPut("working") \/ UNCHANGED board
<1>0. run = [tracker |-> run.tracker, events |-> run.events, terminal |-> run.terminal]
  BY DEF RecordsTyped
<1>1. StatusPut("working") \/ UNCHANGED board
  BY PutStatusPuts DEF Deliver
<1>2. \/ run' = [run EXCEPT !.events = @ + 1]
      \/ \E event \in ToolCalls :
           run' = [run EXCEPT !.events = @ + 1, !.tracker = Observe(@, event)]
  BY DEF Deliver
<1>3. CASE run' = [run EXCEPT !.events = @ + 1]
  BY <1>0, <1>1, <1>3
<1>4. ASSUME NEW event \in ToolCalls,
             run' = [run EXCEPT !.events = @ + 1, !.tracker = Observe(@, event)]
      PROVE  /\ run'.tracker = Observe(run.tracker, event) /\ event \in ToolEvents
             /\ run'.events = run.events + 1 /\ run'.terminal = run.terminal
             /\ run' = [tracker |-> run'.tracker, events |-> run'.events,
                        terminal |-> run'.terminal]
  BY <1>0, <1>4, ReportsAssumption
<1> QED
  BY <1>1, <1>2, <1>3, <1>4

LEMMA EndTyped ==
  ASSUME RecordsTyped, EndAttempt
  PROVE  /\ run'.tracker = NewTracker /\ run'.events = run.events + 1
         /\ run'.terminal.context = run.tracker.context
         /\ run'.terminal # NoTerminal /\ run'.terminal.state # "none"
         /\ run' = [tracker |-> run'.tracker, events |-> run'.events, terminal |-> run'.terminal]
<1>1. \A answer, cause : TerminalState(answer, cause) # "none"
  BY DEF TerminalState
<1>2. \E terminal :
        /\ terminal.state # "none" /\ terminal.context = run.tracker.context
        /\ run' = [run EXCEPT !.events = @ + 1, !.tracker = NewTracker, !.terminal = terminal]
  <2>1. PICK cause, answer, reason, noWork, stopFailed :
          run' = [run EXCEPT !.events = @ + 1, !.tracker = NewTracker, !.terminal =
                    [state |-> TerminalState(answer, cause), reason |-> reason,
                     noWork |-> noWork, context |-> run.tracker.context,
                     cause |-> cause, answer |-> answer, stopFailed |-> stopFailed]]
    BY DEF EndAttempt
  <2> DEFINE terminal == [state |-> TerminalState(answer, cause), reason |-> reason,
                          noWork |-> noWork, context |-> run.tracker.context,
                          cause |-> cause, answer |-> answer, stopFailed |-> stopFailed]
  <2>2. terminal.state # "none" /\ terminal.context = run.tracker.context
    BY <1>1
  <2>3. run' = [run EXCEPT !.events = @ + 1, !.tracker = NewTracker, !.terminal = terminal]
    BY <2>1
  <2> QED
    BY <2>2, <2>3
<1>3. NoTerminal.state = "none"
  BY DEF NoTerminal
<1>4. run = [tracker |-> run.tracker, events |-> run.events, terminal |-> run.terminal]
  BY DEF RecordsTyped
<1> QED
  BY <1>2, <1>3, <1>4

LEMMA NewCycleTyped ==
  NewCycle => run' = NoRun /\ files' = NoFiles /\ counts' = NoCounts /\ cycle' = cycle + 1
              /\ place' = "maintenance" /\ decision' = "none" /\ reported' = {}
BY DEF NewCycle

LEMMA NothingTyped ==
  /\ NewTracker \in Trackers /\ ContextOk(NewTracker.context)
  /\ ContextOk(NoTerminal.context)
  /\ NoRun = [tracker |-> NoRun.tracker, events |-> NoRun.events, terminal |-> NoRun.terminal]
  /\ NoRun.tracker = NewTracker /\ NoRun.events = 0 /\ NoRun.terminal = NoTerminal
  /\ NoFiles = [cost |-> NoFiles.cost, transcript |-> NoFiles.transcript, line |-> NoFiles.line]
  /\ NoFiles.cost = <<>> /\ NoFiles.line = <<>>
  /\ NoCounts \in [CountNames -> Nat]
BY DEF NewTracker, Trackers, NoContext, Contexts, ContextOk, NoTerminal, NoRun, NoFiles, NoCounts,
       CountNames

LEMMA NextRecordsTyped == IInv /\ [Next]_vars => RecordsTyped'
<1> SUFFICES ASSUME IInv, [Next]_vars  PROVE RecordsTyped'
  OBVIOUS
<1> USE DEF outputs
<1>0. RecordsTyped
  BY DEF IInv
<1>1. CASE Launch \/ Wake
  <2>1. NewCycle /\ UNCHANGED board
    BY <1>1 DEF Launch, Wake
  <2>2. run' = NoRun /\ files' = NoFiles
    BY <2>1, NewCycleTyped
  <2> QED
    BY <1>0, <2>1, <2>2, NothingTyped DEF RecordsTyped
<1>2. CASE LateStatus
  BY <1>0, <1>2 DEF LateStatus, RecordsTyped
<1>3. CASE Deliver
  <2>1. UNCHANGED files
    BY <1>3 DEF Deliver
  <2>2. /\ run'.tracker \in Trackers /\ run'.events \in Nat
        /\ run' = [tracker |-> run'.tracker, events |-> run'.events, terminal |-> run'.terminal]
        /\ StatusPut("working") \/ UNCHANGED board
    BY <1>0, <1>3, DeliverTyped, ObserveKeeps DEF RecordsTyped
  <2> QED
    BY <1>0, <2>1, <2>2, PutStatusTyped DEF RecordsTyped
<1>4. CASE EndAttempt
  <2>1. UNCHANGED <<files, board>>
    BY <1>4 DEF EndAttempt
  <2>2. /\ run'.tracker \in Trackers /\ run'.events \in Nat
        /\ run' = [tracker |-> run'.tracker, events |-> run'.events, terminal |-> run'.terminal]
    BY <1>0, <1>4, EndTyped, NothingTyped DEF RecordsTyped
  <2> QED
    BY <1>0, <2>1, <2>2 DEF RecordsTyped
<1>5. CASE WriteStatus
  <2>1. UNCHANGED <<run, files>> /\ StatusPut(Status)
    BY <1>5, PutStatusPuts DEF WriteStatus, StatusLost, StatusPut
  <2> QED
    BY <1>0, <2>1, PutStatusTyped DEF RecordsTyped
<1>6. CASE WriteCost
  BY <1>0, <1>6 DEF WriteCost, RecordsTyped
<1>7. CASE CompressTranscript
  <2>1. UNCHANGED <<run, board>>
    BY <1>7 DEF CompressTranscript
  <2>2. files' = files \/ \E form : files' = [files EXCEPT !.transcript = form]
    BY <1>7 DEF CompressTranscript
  <2> QED
    BY <1>0, <2>1, <2>2 DEF RecordsTyped
<1>8. CASE WriteLine
  <2>1. UNCHANGED <<run, board>>
    BY <1>8 DEF WriteLine
  <2>2. files' = files \/ \E line : files' = [files EXCEPT !.line = line]
    BY <1>8 DEF WriteLine
  <2> QED
    BY <1>0, <2>1, <2>2 DEF RecordsTyped
<1>9. CASE UNCHANGED <<run, board, files>>
  BY <1>0, <1>9 DEF RecordsTyped
<1> QED
  BY <1>1, <1>2, <1>3, <1>4, <1>5, <1>6, <1>7, <1>8, <1>9 DEF Next, vars, Abort,
     CleanupTimesOut, Kill, CallBridge, BridgeExits, MaintenanceReturns,
     ConfigReturns, PreflightReturns, IdleStartReturns, IdleSkipReturns, SetUpRun,
     StoreProgress, PostCycleRun, LatePost, ObserveMetrics, PrepareErrorReported,
     PreflightReported, RunReturns, ErrorReported, SignalRead, CleanupReturns

(* Counting. *)
LEMMA Counting ==
  ASSUME CountsTyped, NEW names, Count(names)
  PROVE  /\ CountsTyped'
         /\ \A n \in CountNames : counts'[n] = IF n \in names THEN counts[n] + 1 ELSE counts[n]
<1>1. DOMAIN counts = CountNames /\ \A n \in CountNames : counts[n] \in Nat
  BY DEF CountsTyped
<1>2. counts' = [n \in CountNames |-> IF n \in names THEN counts[n] + 1 ELSE counts[n]]
  BY <1>1 DEF Count
<1> QED
  BY <1>1, <1>2 DEF CountsTyped

LEMMA CountsKeepTyped ==
  ASSUME CountsTyped, (\E names : Count(names)) \/ UNCHANGED counts \/ counts' = NoCounts
  PROVE  CountsTyped'
BY Counting, NothingTyped DEF CountsTyped

(* The counts an error leaves alone or adds a failure to. *)
LEMMA ReportErrorCounts ==
  ASSUME NEW phase, NEW next, ReportError(phase, next)
  PROVE  UNCHANGED counts \/ Count({"failures"})
BY DEF ReportError

LEMMA NextCountsTyped == IInv /\ [Next]_vars => CountsTyped'
<1> SUFFICES ASSUME IInv, [Next]_vars  PROVE CountsTyped'
  OBVIOUS
<1> USE DEF outputs
<1>0. CountsTyped
  BY DEF IInv
<1>1. CASE Launch
  BY <1>0, <1>1, NewCycleTyped, CountsKeepTyped DEF Launch
<1>2. CASE Wake
  BY <1>0, <1>2, NewCycleTyped, CountsKeepTyped DEF Wake
<1>3. CASE MaintenanceReturns
  BY <1>0, <1>3, CountsKeepTyped, ReportErrorCounts DEF MaintenanceReturns,
     PrepareFails, RunThrown, AfterRun, BeginPreflightReport
<1>4. CASE ConfigReturns
  BY <1>0, <1>4, CountsKeepTyped, ReportErrorCounts DEF ConfigReturns, PrepareFails,
     RunThrown, AfterRun, BeginPreflightReport
<1>5. CASE PreflightReturns
  BY <1>0, <1>5, CountsKeepTyped, ReportErrorCounts DEF PreflightReturns,
     PrepareFails, RunThrown, AfterRun, BeginPreflightReport
<1>6. CASE IdleStartReturns
  BY <1>0, <1>6, CountsKeepTyped, ReportErrorCounts DEF IdleStartReturns,
     PrepareFails, RunThrown, AfterRun, BeginPreflightReport
<1>7. CASE IdleSkipReturns
  BY <1>0, <1>7, CountsKeepTyped, ReportErrorCounts DEF IdleSkipReturns,
     PrepareFails, RunThrown, AfterRun, BeginPreflightReport
<1>8. CASE SetUpRun
  BY <1>0, <1>8, CountsKeepTyped, ReportErrorCounts DEF SetUpRun, PrepareFails,
     RunThrown, AfterRun, BeginPreflightReport
<1>9. CASE ObserveMetrics
  BY <1>0, <1>9, CountsKeepTyped, ReportErrorCounts DEF ObserveMetrics,
     PrepareFails, RunThrown, AfterRun, BeginPreflightReport
<1>10. CASE PrepareErrorReported
  BY <1>0, <1>10, CountsKeepTyped, ReportErrorCounts DEF PrepareErrorReported,
     PrepareFails, RunThrown, AfterRun, BeginPreflightReport
<1>11. CASE PreflightReported
  BY <1>0, <1>11, CountsKeepTyped, ReportErrorCounts DEF PreflightReported,
     PrepareFails, RunThrown, AfterRun, BeginPreflightReport
<1>12. CASE RunReturns
  BY <1>0, <1>12, CountsKeepTyped, ReportErrorCounts DEF RunReturns, PrepareFails,
     RunThrown, AfterRun, BeginPreflightReport
<1>sr. CASE SignalRead
  BY <1>0, <1>sr, CountsKeepTyped, ReportErrorCounts DEF SignalRead
<1>13. CASE CleanupReturns
  BY <1>0, <1>13, CountsKeepTyped, ReportErrorCounts DEF CleanupReturns,
     PrepareFails, RunThrown, AfterRun, BeginPreflightReport
<1>14. CASE UNCHANGED counts
  BY <1>0, <1>14 DEF CountsTyped
<1> QED
  BY <1>sr, <1>1, <1>2, <1>3, <1>4, <1>5, <1>6, <1>7, <1>8, <1>9, <1>10, <1>11, <1>12,
     <1>13, <1>14 DEF Next, vars, Abort, CleanupTimesOut, Kill, CallBridge,
     BridgeExits, LateStatus, Deliver, StoreProgress, EndAttempt, WriteStatus,
     WriteCost, CompressTranscript, WriteLine, PostCycleRun, LatePost,
     ErrorReported

-------------------------------------------------------------------------------
(* The table. *)
LEMMA LatestExists ==
  ASSUME NEW n \in Nat, NEW S \in SUBSET (1..n), S # {}
  PROVE  \E i \in S : \A j \in S : j <= i
<1> DEFINE Less == OpToRel(<, Nat)
           T == {n - i : i \in S}
<1>1. T \subseteq Nat /\ T # {}
  <2>1. PICK i \in S : TRUE
    OBVIOUS
  <2>2. n - i \in T
    BY <2>1
  <2>3. ASSUME NEW t \in T  PROVE t \in Nat
    BY <2>3
  <2> QED
    BY <2>2, <2>3
<1>2. PICK t \in T : \A u \in T : ~ (<<u, t>> \in Less)
  <2> HIDE DEF T, Less
  <2>1. IsWellFoundedOn(Less, Nat)
    BY NatLessThanWellFounded DEF Less
  <2> QED
    BY <1>1, <2>1, WFMin
<1>3. \A u, v \in Nat : u < v => <<u, v>> \in Less
  BY DEF OpToRel
<1>4. ASSUME NEW u \in T  PROVE t <= u
  <2> HIDE DEF T, Less
  <2>1. u \in Nat /\ t \in Nat
    BY <1>1
  <2>2. ~ (u < t)
    BY <1>2, <1>3, <2>1
  <2> QED
    BY <2>1, <2>2
<1>5. PICK i \in S : t = n - i
  OBVIOUS
<1>6. ASSUME NEW j \in S  PROVE j <= i
  <2>1. n - j \in T
    OBVIOUS
  <2> QED
    BY <2>1, <1>4, <1>5
<1> QED
  BY <1>6


(* Completing a row: a new one, or one that was unclaimed. *)
Completes(of) ==
  /\ rows' \in Seq(Row)
  /\ \A i \in DOMAIN rows' :
       \/ i \in DOMAIN rows /\ rows'[i] = rows[i]
       \/ i \in Unclaimed /\ rows'[i].cycle = rows[i].cycle /\ rows'[i].transcript = of
       \/ rows'[i].cycle = of /\ rows'[i].transcript = of

LEMMA AddCycleRunCompletes ==
  ASSUME rows \in Seq(Row), NEW of \in Nat, AddCycleRun(of)
  PROVE  Completes(of)
<1>1. CASE Unclaimed = {}
  <2>1. rows' = Append(rows, [cycle |-> of, transcript |-> of])
    BY <1>1 DEF AddCycleRun
  <2>2. [cycle |-> of, transcript |-> of] \in Row
    BY DEF Row
  <2> QED
    BY <2>1, <2>2 DEF Completes
<1>2. CASE Unclaimed # {}
  <2> DEFINE newest == CHOOSE i \in Unclaimed : \A j \in Unclaimed : j <= i
  <2>1. Len(rows) \in Nat /\ Unclaimed \subseteq 1..Len(rows)
    BY DEF Unclaimed
  <2>2. \E i \in Unclaimed : \A j \in Unclaimed : j <= i
    BY <1>2, <2>1, LatestExists
  <2>3. newest \in Unclaimed
    BY <2>2
  <2>4. rows' = [rows EXCEPT ![newest].transcript = of]
    BY <1>2 DEF AddCycleRun
  <2> HIDE DEF newest
  <2>5. newest \in 1..Len(rows) /\ rows[newest] \in Row
    BY <2>1, <2>3
  <2>6. /\ DOMAIN rows' = 1..Len(rows)
        /\ rows'[newest] = [cycle |-> rows[newest].cycle, transcript |-> of]
        /\ \A i \in 1..Len(rows) : i # newest => rows'[i] = rows[i]
    BY <2>4, <2>5 DEF Row
  <2>7. rows' \in Seq(Row)
    <3>1. rows[newest].cycle \in Nat
      BY <2>5 DEF Row
    <3>2. [rows[newest] EXCEPT !.transcript = of] \in Row
      BY <2>5 DEF Row
    <3> QED
      BY <2>4, <2>5, <3>2
  <2> QED
    BY <2>3, <2>6, <2>7 DEF Completes
<1> QED
  BY <1>1, <1>2

LEMMA NextTableTyped == IInv /\ [Next]_vars => TableTyped'
<1> SUFFICES ASSUME IInv, [Next]_vars  PROVE TableTyped'
  OBVIOUS
<1> USE DEF table
<1>0. TableTyped /\ ControlTyped /\ ReportTyped
  BY DEF IInv
<1>1. CASE Launch
  <2>1. NewCycle /\ UNCHANGED <<rows, posting>>
    BY <1>1 DEF Launch
  <2>2. stray' \in BOOLEAN
    BY <1>0, <2>1 DEF NewCycle, TableTyped
  <2> QED
    BY <1>0, <2>1, <2>2 DEF TableTyped
<1>2. CASE Wake
  <2>1. NewCycle /\ UNCHANGED <<rows, posting>>
    BY <1>2 DEF Wake
  <2>2. stray' \in BOOLEAN
    BY <1>0, <2>1 DEF NewCycle, TableTyped
  <2> QED
    BY <1>0, <2>1, <2>2 DEF TableTyped
<1>3. CASE StoreProgress
  <2>1. [cycle |-> cycle, transcript |-> 0] \in Row
    BY <1>0 DEF Row, ControlTyped
  <2> QED
    BY <1>0, <1>3, <2>1 DEF StoreProgress, TableTyped
<1>4. CASE PostCycleRun
  <2>1. cycle \in Nat \ {0} /\ rows \in Seq(Row) /\ UNCHANGED stray
    BY <1>0, <1>4, WritersWrite DEF Writes, ControlTyped, TableTyped, Reports, PostCycleRun
  <2>2. (AddCycleRun(cycle) \/ UNCHANGED rows) /\ posting' \subseteq posting \cup {cycle}
    BY <1>4 DEF PostCycleRun
  <2> QED
    BY <1>0, <2>1, <2>2, AddCycleRunCompletes DEF Completes, TableTyped
<1>5. CASE LatePost
  <2>1. PICK c \in posting : AddCycleRun(c) /\ posting' = posting \ {c} /\ UNCHANGED stray
    BY <1>5 DEF LatePost
  <2> QED
    BY <1>0, <2>1, AddCycleRunCompletes DEF Completes, TableTyped
<1>6. CASE UNCHANGED <<rows, posting, stray>>
  BY <1>0, <1>6 DEF TableTyped
<1> QED
  BY <1>1, <1>2, <1>3, <1>4, <1>5, <1>6 DEF Next, vars, Abort, CleanupTimesOut,
     Kill, CallBridge, BridgeExits, MaintenanceReturns, ConfigReturns,
     PreflightReturns, IdleStartReturns, IdleSkipReturns, SetUpRun, LateStatus,
     Deliver, EndAttempt, WriteStatus, WriteCost, CompressTranscript, WriteLine,
     ObserveMetrics, PrepareErrorReported, PreflightReported, RunReturns,
     ErrorReported, SignalRead, CleanupReturns

-------------------------------------------------------------------------------
(* Every step keeps each of the parts. *)
LEMMA NextDecided == IInv /\ [Next]_vars => Decided'
<1> SUFFICES ASSUME IInv, [Next]_vars  PROVE Decided'
  OBVIOUS
<1> USE DEF current, report, Operations
<1>0. Decided
  BY DEF IInv
<1>1. CASE Launch
  BY <1>0, <1>1, NewCycleTyped DEF Launch, Decided, Unplanned
<1>2. CASE Wake
  BY <1>0, <1>2, NewCycleTyped DEF Wake, Decided, Unplanned
<1>3. CASE Abort
  BY <1>0, <1>3 DEF Abort, Decided, Unplanned
<1>4. CASE Kill
  BY <1>0, <1>4 DEF Kill, Decided, Unplanned
<1>5. CASE MaintenanceReturns
  BY <1>0, <1>5 DEF MaintenanceReturns, BridgeReturns, PrepareFails, ReportError,
     HasStatus, AtRest, Decided, Unplanned
<1>6. CASE ConfigReturns
  BY <1>0, <1>6 DEF ConfigReturns, BridgeReturns, PrepareFails, ReportError,
     HasStatus, AtRest, Decided, Unplanned
<1>7. CASE PreflightReturns
  BY <1>0, <1>7 DEF PreflightReturns, BridgeReturns, PrepareFails, ReportError,
     HasStatus, BeginPreflightReport, Decision, AtRest, Decided, Unplanned
<1>8. CASE IdleStartReturns
  BY <1>0, <1>8 DEF IdleStartReturns, BridgeReturns, ReportError, HasStatus, AtRest,
     Decided, Unplanned
<1>9. CASE IdleSkipReturns
  BY <1>0, <1>9 DEF IdleSkipReturns, BridgeReturns, ReportError, HasStatus,
     BeginPreflightReport, AtRest, Decided, Unplanned
<1>10. CASE SetUpRun
  BY <1>0, <1>10 DEF SetUpRun, RunThrown, AfterRun, ReportError, HasStatus, Decided, Unplanned
<1>11. CASE EndAttempt
  BY <1>0, <1>11 DEF EndAttempt, Decided, Unplanned
<1>12. CASE PrepareErrorReported
  BY <1>0, <1>12 DEF PrepareErrorReported, BeginPreflightReport, Decided, Unplanned
<1>13. CASE PreflightReported
  BY <1>0, <1>13 DEF PreflightReported, ReportError, HasStatus, AtRest, Decided,
     Unplanned
<1>14. CASE RunReturns
  BY <1>0, <1>14 DEF RunReturns, RunThrown, AfterRun, ReportError, HasStatus, Decided,
     Unplanned
<1>15. CASE ErrorReported
  BY <1>0, <1>15 DEF ErrorReported, AfterRun, Decided, Unplanned
<1>sr. CASE SignalRead
  BY <1>0, <1>sr DEF SignalRead, ReportError, HasStatus, Decided, Unplanned
<1>16. CASE CleanupReturns
  BY <1>0, <1>16 DEF CleanupReturns, BridgeReturns, ReportError, HasStatus, AtRest,
     Decided, Unplanned
<1>17. CASE UNCHANGED <<place, current, decision, reported, ready>>
  BY <1>0, <1>17 DEF Decided, Unplanned
<1> QED
  BY <1>sr, <1>1, <1>2, <1>3, <1>4, <1>5, <1>6, <1>7, <1>8, <1>9, <1>10, <1>11, <1>12,
     <1>13, <1>14, <1>15, <1>16, <1>17, OthersStay DEF Moves

LEMMA NextAttempted == IInv /\ [Next]_vars => Attempted'
<1> SUFFICES ASSUME IInv, [Next]_vars  PROVE Attempted'
  OBVIOUS
<1> USE DEF current, report, Operations
<1>0. Attempted /\ Decided /\ RecordsTyped /\ NoRun.terminal = NoTerminal
  BY NothingTyped DEF IInv
<1>1. CASE Launch
  <2>1. place' = "maintenance" /\ run' = NoRun
    BY <1>1, NewCycleTyped DEF Launch
  <2> QED
    BY <2>1, NothingTyped DEF Attempted, BeforeRun
<1>2. CASE Wake
  <2>1. place' = "maintenance" /\ run' = NoRun
    BY <1>2, NewCycleTyped DEF Wake
  <2> QED
    BY <2>1, NothingTyped DEF Attempted, BeforeRun
<1>3. CASE Abort
  BY <1>0, <1>3 DEF Abort, Attempted, BeforeRun
<1>4. CASE Kill
  BY <1>0, <1>4 DEF Kill, Attempted, BeforeRun
<1>5. CASE MaintenanceReturns
  BY <1>0, <1>5 DEF MaintenanceReturns, BridgeReturns, PrepareFails, ReportError,
     HasStatus, AtRest, Attempted, BeforeRun
<1>6. CASE ConfigReturns
  BY <1>0, <1>6 DEF ConfigReturns, BridgeReturns, PrepareFails, ReportError,
     HasStatus, AtRest, Attempted, BeforeRun
<1>7. CASE PreflightReturns
  BY <1>0, <1>7 DEF PreflightReturns, BridgeReturns, PrepareFails, ReportError,
     HasStatus, BeginPreflightReport, Decision, AtRest, Attempted, BeforeRun
<1>8. CASE IdleStartReturns
  BY <1>0, <1>8 DEF IdleStartReturns, BridgeReturns, ReportError, HasStatus, AtRest,
     Attempted, BeforeRun
<1>9. CASE IdleSkipReturns
  BY <1>0, <1>9 DEF IdleSkipReturns, BridgeReturns, ReportError, HasStatus,
     BeginPreflightReport, AtRest, Attempted, BeforeRun
<1>10. CASE SetUpRun
  BY <1>0, <1>10 DEF SetUpRun, RunThrown, AfterRun, ReportError, HasStatus, Attempted,
     BeforeRun
<1>11. CASE Deliver
  <2>1. UNCHANGED <<place, decision>> /\ place = "running" /\ run'.terminal = run.terminal
    BY <1>0, <1>11, DeliverTyped DEF Deliver
  <2> QED
    BY <1>0, <2>1 DEF Attempted, BeforeRun
<1>12. CASE EndAttempt
  <2>1. place = "running" /\ place' = "terminal" /\ UNCHANGED decision
    BY <1>12 DEF EndAttempt
  <2>2. run'.terminal # NoTerminal
    BY <1>0, <1>12, EndTyped
  <2> QED
    BY <1>0, <2>1, <2>2 DEF Attempted, BeforeRun, Decided
<1>13. CASE PrepareErrorReported
  BY <1>0, <1>13 DEF PrepareErrorReported, BeginPreflightReport, Attempted,
     BeforeRun
<1>14. CASE PreflightReported
  BY <1>0, <1>14 DEF PreflightReported, ReportError, HasStatus, AtRest, Attempted,
     BeforeRun
<1>15. CASE RunReturns
  BY <1>0, <1>15 DEF RunReturns, RunThrown, AfterRun, ReportError, HasStatus, Attempted,
     BeforeRun
<1>16. CASE ErrorReported
  BY <1>0, <1>16 DEF ErrorReported, AfterRun, Attempted, BeforeRun
<1>sr. CASE SignalRead
  BY <1>0, <1>sr DEF SignalRead, ReportError, HasStatus, Attempted, BeforeRun
<1>17. CASE CleanupReturns
  BY <1>0, <1>17 DEF CleanupReturns, BridgeReturns, ReportError, HasStatus, AtRest,
     Attempted, BeforeRun
<1>18. CASE UNCHANGED <<place, decision, run>>
  BY <1>0, <1>18 DEF Attempted, BeforeRun
<1> QED
  BY <1>sr, <1>1, <1>2, <1>3, <1>4, <1>5, <1>6, <1>7, <1>8, <1>9, <1>10, <1>11, <1>12,
     <1>13, <1>14, <1>15, <1>16, <1>17, <1>18 DEF Next, vars, CleanupTimesOut,
     CallBridge, BridgeExits, LateStatus, StoreProgress, WriteStatus, WriteCost,
     CompressTranscript, WriteLine, PostCycleRun, LatePost, ObserveMetrics

LEMMA NextServed == IInv /\ [Next]_vars => Served'
<1> SUFFICES ASSUME IInv, [Next]_vars  PROVE Served'
  OBVIOUS
<1> USE DEF current, report, Operations
<1>0. Served
  BY DEF IInv
<1>1. CASE Launch
  <2>1. place' = "maintenance" /\ deployment' \in Deployments
    BY <1>1, NewCycleTyped DEF Launch
  <2> QED
    BY <2>1 DEF Served
<1>2. CASE Wake
  <2>1. place = "sleeping" /\ place' = "maintenance" /\ UNCHANGED deployment
    BY <1>2, NewCycleTyped DEF Wake
  <2> QED
    BY <1>0, <2>1 DEF Served
<1>3. CASE Abort
  BY <1>0, <1>3 DEF Abort, Served
<1>4. CASE Kill
  BY <1>0, <1>4 DEF Kill, Served
<1>5. CASE MaintenanceReturns
  BY <1>0, <1>5 DEF MaintenanceReturns, BridgeReturns, PrepareFails, ReportError,
     HasStatus, AtRest, Served
<1>6. CASE ConfigReturns
  BY <1>0, <1>6 DEF ConfigReturns, BridgeReturns, PrepareFails, ReportError,
     HasStatus, AtRest, Served
<1>7. CASE PreflightReturns
  BY <1>0, <1>7 DEF PreflightReturns, BridgeReturns, PrepareFails, ReportError,
     HasStatus, BeginPreflightReport, Decision, AtRest, Served
<1>8. CASE IdleStartReturns
  BY <1>0, <1>8 DEF IdleStartReturns, BridgeReturns, ReportError, HasStatus, AtRest,
     Served
<1>9. CASE IdleSkipReturns
  BY <1>0, <1>9 DEF IdleSkipReturns, BridgeReturns, ReportError, HasStatus,
     BeginPreflightReport, AtRest, Served
<1>10. CASE SetUpRun
  BY <1>0, <1>10 DEF SetUpRun, RunThrown, AfterRun, ReportError, HasStatus, Served
<1>11. CASE EndAttempt
  BY <1>0, <1>11 DEF EndAttempt, Served
<1>12. CASE PrepareErrorReported
  BY <1>0, <1>12 DEF PrepareErrorReported, BeginPreflightReport, Served
<1>13. CASE PreflightReported
  BY <1>0, <1>13 DEF PreflightReported, ReportError, HasStatus, AtRest, Served
<1>14. CASE RunReturns
  BY <1>0, <1>14 DEF RunReturns, RunThrown, AfterRun, ReportError, HasStatus, Served
<1>15. CASE ErrorReported
  BY <1>0, <1>15 DEF ErrorReported, AfterRun, Served
<1>sr. CASE SignalRead
  BY <1>0, <1>sr DEF SignalRead, ReportError, HasStatus, Served
<1>16. CASE CleanupReturns
  BY <1>0, <1>16 DEF CleanupReturns, BridgeReturns, ReportError, HasStatus, AtRest,
     Served
<1>17. CASE UNCHANGED <<place, current, decision, reported, ready>>
  BY <1>0, <1>17 DEF Served
<1> QED
  BY <1>sr, <1>1, <1>2, <1>3, <1>4, <1>5, <1>6, <1>7, <1>8, <1>9, <1>10, <1>11, <1>12,
     <1>13, <1>14, <1>15, <1>16, <1>17, OthersStay DEF Moves

LEMMA NextRowsOwned == IInv /\ [Next]_vars => RowsOwned'
<1> SUFFICES ASSUME IInv, [Next]_vars  PROVE RowsOwned'
  OBVIOUS
<1> USE DEF table, current
<1>0. RowsOwned /\ TableTyped /\ ControlTyped /\ ReportTyped
  BY DEF IInv
<1>1. CASE Launch \/ Wake
  <2>1. NewCycle /\ UNCHANGED <<rows, posting>>
    BY <1>1 DEF Launch, Wake
  <2>2. ASSUME ~stray'
        PROVE  ~stray /\ posting = {} /\ \A i \in DOMAIN rows : rows[i].transcript # 0
    BY <1>0, <2>1, <2>2 DEF NewCycle, TableTyped
  <2> QED
    BY <1>0, <2>1, <2>2 DEF RowsOwned
<1>2. CASE StoreProgress
  <2>1. /\ rows' = Append(rows, [cycle |-> cycle, transcript |-> 0])
        /\ UNCHANGED <<cycle, posting, stray>>
    BY <1>2 DEF StoreProgress
  <2>2. ASSUME NEW i \in DOMAIN rows'
        PROVE  \/ i \in DOMAIN rows /\ rows'[i] = rows[i]
               \/ rows'[i] = [cycle |-> cycle, transcript |-> 0]
    BY <1>0, <2>1 DEF TableTyped
  <2> QED
    BY <1>0, <2>1, <2>2 DEF RowsOwned
<1>3. CASE PostCycleRun
  <2>1. /\ cycle \in Nat \ {0} /\ rows \in Seq(Row) /\ UNCHANGED <<cycle, stray>>
        /\ (AddCycleRun(cycle) \/ UNCHANGED rows) /\ posting' \subseteq posting \cup {cycle}
    BY <1>0, <1>3, WritersWrite DEF Writes, ControlTyped, TableTyped, Reports, PostCycleRun
  <2>2. ASSUME ~stray, AddCycleRun(cycle)
        PROVE  /\ \A i \in DOMAIN rows' : rows'[i].transcript \in {0, rows'[i].cycle}
               /\ \A i \in DOMAIN rows' : rows'[i].transcript = 0 => rows'[i].cycle = cycle
    <3>1. Completes(cycle)
      BY <2>1, <2>2, AddCycleRunCompletes
    <3> QED
      BY <1>0, <2>1, <2>2, <3>1 DEF Completes, Unclaimed, RowsOwned
  <2> QED
    BY <1>0, <2>1, <2>2 DEF RowsOwned
<1>4. CASE LatePost
  <2>1. PICK c \in posting : AddCycleRun(c) /\ posting' = posting \ {c}
    BY <1>4 DEF LatePost
  <2>2. UNCHANGED <<cycle, stray>> /\ c \in Nat \ {0} /\ rows \in Seq(Row)
    BY <1>0, <1>4 DEF LatePost, TableTyped
  <2>3. ASSUME ~stray
        PROVE  /\ \A i \in DOMAIN rows' : rows'[i].transcript \in {0, rows'[i].cycle}
               /\ \A i \in DOMAIN rows' : rows'[i].transcript = 0 => rows'[i].cycle = cycle
    <3>1. Completes(c) /\ c = cycle
      BY <1>0, <2>1, <2>2, <2>3, AddCycleRunCompletes DEF RowsOwned
    <3> QED
      BY <1>0, <2>2, <2>3, <3>1 DEF Completes, Unclaimed, RowsOwned
  <2> QED
    BY <1>0, <2>1, <2>2, <2>3 DEF RowsOwned
<1>5. CASE UNCHANGED <<cycle, rows, posting, stray>>
  BY <1>0, <1>5 DEF RowsOwned
<1> QED
  BY <1>1, <1>2, <1>3, <1>4, <1>5 DEF Next, vars, Abort, CleanupTimesOut, Kill,
     CallBridge, BridgeExits, MaintenanceReturns, ConfigReturns, PreflightReturns,
     IdleStartReturns, IdleSkipReturns, SetUpRun, LateStatus, Deliver, EndAttempt,
     WriteStatus, WriteCost, CompressTranscript, WriteLine, ObserveMetrics,
     PrepareErrorReported, PreflightReported, RunReturns, ErrorReported, SignalRead,
     CleanupReturns

LEMMA NextWorkOk == IInv /\ [Next]_vars => WorkOk'
<1> SUFFICES ASSUME IInv, [Next]_vars  PROVE WorkOk'
  OBVIOUS
<1>0. WorkOk /\ RecordsTyped
  BY DEF IInv
<1>1. CASE Launch \/ Wake
  BY <1>1, NewCycleTyped, NothingTyped DEF Launch, Wake, WorkOk
<1>2. CASE Deliver
  BY <1>0, <1>2, DeliverTyped, ObserveKeeps DEF WorkOk, RecordsTyped
<1>3. CASE EndAttempt
  BY <1>0, <1>3, EndTyped, NothingTyped DEF WorkOk
<1>4. CASE UNCHANGED run
  BY <1>0, <1>4 DEF WorkOk
<1> QED
  BY <1>1, <1>2, <1>3, <1>4
  DEF Next, vars, Abort, CleanupTimesOut, Kill, CallBridge, BridgeExits, MaintenanceReturns,
      ConfigReturns, PreflightReturns, IdleStartReturns, IdleSkipReturns, SetUpRun,
      LateStatus, StoreProgress, WriteStatus, WriteCost, CompressTranscript,
      WriteLine, PostCycleRun, LatePost, ObserveMetrics, PrepareErrorReported,
      PreflightReported, RunReturns, ErrorReported, SignalRead, CleanupReturns,
      BeginPreflightReport

(* The newest attempt is never among those that make room. *)
LEMMA Appends ==
  ASSUME cycle \in Nat \ {0}, DOMAIN buffers \subseteq 1..cycle, AppendTranscript
  PROVE  /\ DOMAIN buffers' \subseteq 1..cycle
         /\ cycle \in DOMAIN buffers' /\ buffers'[cycle] = Records(cycle) + 1
<1> DEFINE attempts == DOMAIN buffers \cup {cycle}
<1>1. attempts \subseteq 1..cycle /\ cycle \in attempts
  OBVIOUS
<1>2. cycle \notin Evicted(attempts)
  <2>1. {b \in attempts : b >= cycle} = {cycle}
    BY <1>1
  <2>2. Cardinality({cycle}) = 1
    BY FS_Singleton
  <2>3. ~ (1 > MaxBuffered)
    BY ReportsAssumption
  <2> HIDE DEF attempts
  <2> QED
    BY <2>1, <2>2, <2>3 DEF Evicted
<1>3. buffers' = [a \in attempts \ Evicted(attempts) |->
                   IF a = cycle THEN Records(a) + 1 ELSE Records(a)]
  BY DEF AppendTranscript, Records
<1> HIDE DEF attempts
<1> QED
  BY <1>1, <1>2, <1>3

LEMMA NextBuffered == IInv /\ [Next]_vars => Buffered'
<1> SUFFICES ASSUME IInv, [Next]_vars  PROVE Buffered'
  OBVIOUS
<1> USE DEF current, report, outputs, Operations
<1>0. Attempted /\ Buffered /\ ControlTyped /\ RecordsTyped /\ ReportTyped
  BY DEF IInv
<1>1. CASE Launch
  <2>1. place' = "maintenance" /\ cycle' = cycle + 1 /\ buffers' = <<>>
    BY <1>1, NewCycleTyped DEF Launch
  <2> QED
    BY <1>0, <2>1 DEF Buffered, ControlTyped
<1>2. CASE Wake
  <2>1. place' = "maintenance" /\ cycle' = cycle + 1 /\ buffers' = buffers
    BY <1>2, NewCycleTyped DEF Wake
  <2>2. DOMAIN buffers \subseteq 1..cycle /\ cycle \in Nat
    BY <1>0 DEF Buffered, ControlTyped
  <2>3. DOMAIN buffers' \subseteq 1..cycle' /\ cycle' \notin DOMAIN buffers'
    BY <2>1, <2>2
  <2> QED
    BY <2>1, <2>3 DEF Buffered
<1>3. CASE Abort
  BY <1>0, StageOf, StageBegins, <1>3 DEF Abort, Buffered, Records, BeforeRun
<1>4. CASE Kill
  <2>1. place' = "down" /\ buffers' = <<>>
    BY <1>4 DEF Kill
  <2> QED
    BY <2>1 DEF Buffered, BeforeRun
<1>5. CASE MaintenanceReturns
  BY <1>0, StageOf, StageBegins, <1>5 DEF MaintenanceReturns, BridgeReturns,
     PrepareFails, ReportError, HasStatus, AtRest, Buffered, Records, BeforeRun
<1>6. CASE ConfigReturns
  BY <1>0, StageOf, StageBegins, <1>6 DEF ConfigReturns, BridgeReturns,
     PrepareFails, ReportError, HasStatus, AtRest, Buffered, Records, BeforeRun
<1>7. CASE PreflightReturns
  BY <1>0, StageOf, StageBegins, <1>7 DEF PreflightReturns, BridgeReturns,
     PrepareFails, ReportError, HasStatus, BeginPreflightReport, Decision, AtRest,
     Buffered, Records, BeforeRun
<1>8. CASE IdleStartReturns
  BY <1>0, StageOf, StageBegins, <1>8 DEF IdleStartReturns, BridgeReturns,
     ReportError, HasStatus, AtRest, Buffered, Records, BeforeRun
<1>9. CASE IdleSkipReturns
  BY <1>0, StageOf, StageBegins, <1>9 DEF IdleSkipReturns, BridgeReturns,
     ReportError, HasStatus, BeginPreflightReport, AtRest, Buffered, Records,
     BeforeRun
<1>10. CASE SetUpRun
  <2>1. run.events = 0 /\ place = "setup" /\ UNCHANGED <<cycle, run, buffers>>
    BY <1>0, <1>10, NothingTyped DEF Attempted, BeforeRun, SetUpRun
  <2>2. place' \in {"running", "run_error", "cleanup"}
    BY <1>10 DEF SetUpRun, RunThrown, AfterRun, ReportError, HasStatus
  <2> QED
    BY <1>0, <2>1, <2>2 DEF Buffered, Records, BeforeRun
<1>11. CASE Deliver
  <2>1. place = "running" /\ UNCHANGED <<place, cycle>> /\ AppendTranscript
    BY <1>11 DEF Deliver
  <2>2. run'.events = run.events + 1
    BY <1>0, <1>11, DeliverTyped
  <2>3. cycle \in Nat \ {0} /\ DOMAIN buffers \subseteq 1..cycle /\ Records(cycle) = run.events
    BY <1>0, <2>1 DEF ControlTyped, Buffered
  <2>4. /\ DOMAIN buffers' \subseteq 1..cycle
        /\ cycle \in DOMAIN buffers' /\ buffers'[cycle] = Records(cycle) + 1
    BY <2>1, <2>3, Appends
  <2> QED
    BY <2>1, <2>2, <2>3, <2>4 DEF Buffered, Records, BeforeRun
<1>12. CASE EndAttempt
  <2>1. place = "running" /\ place' = "terminal" /\ UNCHANGED cycle /\ AppendTranscript
    BY <1>12 DEF EndAttempt
  <2>2. run'.events = run.events + 1
    BY <1>0, <1>12, EndTyped
  <2>3. cycle \in Nat \ {0} /\ DOMAIN buffers \subseteq 1..cycle /\ Records(cycle) = run.events
    BY <1>0, <2>1 DEF ControlTyped, Buffered
  <2>4. /\ DOMAIN buffers' \subseteq 1..cycle
        /\ cycle \in DOMAIN buffers' /\ buffers'[cycle] = Records(cycle) + 1
    BY <2>1, <2>3, Appends
  <2> QED
    BY <2>1, <2>2, <2>3, <2>4 DEF Buffered, Records, BeforeRun
<1>13. CASE PrepareErrorReported
  BY <1>0, StageOf, StageBegins, <1>13 DEF PrepareErrorReported,
     BeginPreflightReport, Buffered, Records, BeforeRun
<1>14. CASE PreflightReported
  BY <1>0, StageOf, StageBegins, <1>14 DEF PreflightReported, ReportError,
     HasStatus, AtRest, Buffered, Records, BeforeRun
<1>15. CASE RunReturns
  BY <1>0, StageOf, StageBegins, <1>15 DEF RunReturns, RunThrown, AfterRun, ReportError,
     HasStatus, Buffered, Records, BeforeRun
<1>16. CASE ErrorReported
  BY <1>0, StageOf, StageBegins, <1>16 DEF ErrorReported, AfterRun, Buffered, Records,
     BeforeRun
<1>sr. CASE SignalRead
  BY <1>0, StageOf, StageBegins, <1>sr DEF SignalRead, ReportError, HasStatus, Buffered, Records,
     BeforeRun
<1>17. CASE CleanupReturns
  BY <1>0, StageOf, StageBegins, <1>17 DEF CleanupReturns, BridgeReturns,
     ReportError, HasStatus, AtRest, Buffered, Records, BeforeRun
<1>18. CASE WriteStatus
  <2>1. Writes("status") /\ UNCHANGED <<cycle, run, buffers>>
    BY <1>0, <1>18, WritersWrite DEF WriteStatus
  <2> QED
    BY <1>0, <2>1 DEF Buffered, Records, Writes, Following
<1>19. CASE WriteCost
  <2>1. Writes("cost") /\ UNCHANGED <<cycle, run, buffers>>
    BY <1>0, <1>19, WritersWrite DEF WriteCost
  <2> QED
    BY <1>0, <2>1 DEF Buffered, Records, Writes, Following
<1>20. CASE CompressTranscript
  <2>1. Writes("compress") /\ UNCHANGED <<cycle, run>>
    BY <1>0, <1>20, WritersWrite DEF CompressTranscript
  <2>2. DOMAIN buffers' \subseteq DOMAIN buffers /\ place' \in Reports
    BY <1>20, <2>1 DEF CompressTranscript, Writes
  <2>3. ~ (place' = "terminal" /\ Stage' \in {"status", "cost", "compress"})
    BY <2>1 DEF Writes, Following
  <2> QED
    BY <1>0, <2>1, <2>2, <2>3 DEF Buffered, BeforeRun, Reports
<1>21. CASE WriteLine
  <2>1. Writes("line") /\ UNCHANGED <<cycle, run, buffers>>
    BY <1>0, <1>21, WritersWrite DEF WriteLine
  <2> QED
    BY <1>0, <2>1 DEF Buffered, Records, Writes, Following
<1>22. CASE PostCycleRun
  <2>1. Writes("post") /\ UNCHANGED <<cycle, run, buffers>>
    BY <1>0, <1>22, WritersWrite DEF PostCycleRun
  <2> QED
    BY <1>0, <2>1 DEF Buffered, Records, Writes, Following
<1>23. CASE ObserveMetrics
  <2>1. Writes("metrics") /\ UNCHANGED <<cycle, run, buffers>>
    BY <1>0, <1>23, WritersWrite DEF ObserveMetrics
  <2> QED
    BY <1>0, <2>1 DEF Buffered, Records, Writes, Following
<1>24. CASE UNCHANGED <<place, cycle, run, buffers, todo>>
  BY <1>0, StageOf, StageBegins, <1>24 DEF Buffered, Records, Stage
<1> QED
  BY <1>sr, <1>1, <1>2, <1>3, <1>4, <1>5, <1>6, <1>7, <1>8, <1>9, <1>10, <1>11, <1>12,
     <1>13, <1>14, <1>15, <1>16, <1>17, <1>18, <1>19, <1>20, <1>21, <1>22, <1>23,
     <1>24 DEF Next, vars, CleanupTimesOut, CallBridge, BridgeExits, LateStatus,
     StoreProgress, LatePost

LEMMA SameEntries ==
  UNCHANGED run => UNCHANGED <<CostEntry, CycleRunEntry, Transcript>>
BY DEF CostEntry, CycleRunEntry, Transcript, Context, IsError, CycleType

LEMMA NextWritten == IInv /\ [Next]_vars => Written'
<1> SUFFICES ASSUME IInv, [Next]_vars  PROVE Written'
  OBVIOUS
<1> USE DEF current, report, outputs, Operations
<1>0. Written /\ Attempted /\ Buffered /\ ControlTyped /\ RecordsTyped /\ ReportTyped
  BY DEF IInv
<1>1. CASE Launch
  <2>1. place' = "maintenance" /\ files' = NoFiles /\ run'.terminal = NoTerminal
    BY <1>1, NewCycleTyped, NothingTyped DEF Launch
  <2> QED
    BY <2>1 DEF Written
<1>2. CASE Wake
  <2>1. place' = "maintenance" /\ files' = NoFiles /\ run'.terminal = NoTerminal
    BY <1>2, NewCycleTyped, NothingTyped DEF Wake
  <2> QED
    BY <2>1 DEF Written
<1>3. CASE Abort
  BY <1>0, SameEntries, StageBegins, <1>3 DEF Abort, Written, BeforeRun
<1>4. CASE Kill
  BY <1>0, SameEntries, StageBegins, <1>4 DEF Kill, Written, BeforeRun
<1>5. CASE MaintenanceReturns
  BY <1>0, SameEntries, StageBegins, <1>5 DEF MaintenanceReturns, BridgeReturns,
     PrepareFails, ReportError, HasStatus, AtRest, Written, BeforeRun
<1>6. CASE ConfigReturns
  BY <1>0, SameEntries, StageBegins, <1>6 DEF ConfigReturns, BridgeReturns,
     PrepareFails, ReportError, HasStatus, AtRest, Written, BeforeRun
<1>7. CASE PreflightReturns
  BY <1>0, SameEntries, StageBegins, <1>7 DEF PreflightReturns, BridgeReturns,
     PrepareFails, ReportError, HasStatus, BeginPreflightReport, Decision, AtRest,
     Written, BeforeRun
<1>8. CASE IdleStartReturns
  BY <1>0, SameEntries, StageBegins, <1>8 DEF IdleStartReturns, BridgeReturns,
     ReportError, HasStatus, AtRest, Written, BeforeRun
<1>9. CASE IdleSkipReturns
  BY <1>0, SameEntries, StageBegins, <1>9 DEF IdleSkipReturns, BridgeReturns,
     ReportError, HasStatus, BeginPreflightReport, AtRest, Written, BeforeRun
<1>10. CASE SetUpRun
  BY <1>0, SameEntries, StageBegins, <1>10 DEF SetUpRun, RunThrown, AfterRun, ReportError,
     HasStatus, Written, BeforeRun
<1>11. CASE Deliver
  <2>1. place = "running" /\ UNCHANGED <<place, files>>
    BY <1>11 DEF Deliver
  <2>2. run'.terminal = NoTerminal
    BY <1>0, <1>11, <2>1, DeliverTyped DEF Attempted
  <2> QED
    BY <1>0, <2>1, <2>2 DEF Written
<1>12. CASE EndAttempt
  <2>1. place = "running" /\ place' = "terminal" /\ UNCHANGED files /\ Stage' = "status"
    BY <1>12, StageBegins DEF EndAttempt
  <2>2. files' = NoFiles
    BY <1>0, <2>1 DEF Written
  <2> QED
    BY <2>1, <2>2, NothingTyped DEF Written, BeforeRun
<1>13. CASE PrepareErrorReported
  BY <1>0, SameEntries, StageBegins, <1>13 DEF PrepareErrorReported,
     BeginPreflightReport, Written, BeforeRun
<1>14. CASE PreflightReported
  BY <1>0, SameEntries, StageBegins, <1>14 DEF PreflightReported, ReportError,
     HasStatus, AtRest, Written, BeforeRun
<1>15. CASE RunReturns
  BY <1>0, SameEntries, StageBegins, <1>15 DEF RunReturns, RunThrown, AfterRun, ReportError,
     HasStatus, Written, BeforeRun
<1>16. CASE ErrorReported
  BY <1>0, SameEntries, StageBegins, <1>16 DEF ErrorReported, AfterRun, Written, BeforeRun
<1>sr. CASE SignalRead
  BY <1>0, SameEntries, StageBegins, <1>sr DEF SignalRead, ReportError, HasStatus, Written, BeforeRun
<1>17. CASE CleanupReturns
  BY <1>0, SameEntries, StageBegins, <1>17 DEF CleanupReturns, BridgeReturns,
     ReportError, HasStatus, AtRest, Written, BeforeRun
<1>18. CASE WriteStatus
  <2>1. Writes("status") /\ UNCHANGED <<run, files>>
    BY <1>0, <1>18, WritersWrite DEF WriteStatus
  <2> QED
    BY <1>0, <2>1, SameEntries DEF Written, Writes, Following, BeforeRun, Reports
<1>19. CASE WriteCost
  <2>1. Writes("cost") /\ UNCHANGED run
    BY <1>0, <1>19, WritersWrite DEF WriteCost
  <2>2. CASE Abandon /\ UNCHANGED files
    BY <1>0, <2>1, <2>2, StageAbandoned, SameEntries DEF Written, Writes, BeforeRun, Reports
  <2>3. CASE Advance /\ files' = [files EXCEPT !.cost = <<CostEntry>>]
    <3>1. Following
      BY <1>0, <1>19, <2>1, <2>3, StageAdvances DEF WriteCost, Writes
    <3>2. /\ files'.cost = <<CostEntry>> /\ files'.line = files.line
          /\ files'.transcript = files.transcript /\ <<CostEntry>> # <<>>
      BY <1>0, <2>3 DEF RecordsTyped
    <3>3. place = "terminal" /\ place' = "terminal" /\ Stage' = "compress"
      BY <2>1, <3>1 DEF Writes, Following, Reports
    <3>4. run.terminal # NoTerminal /\ files.line = <<>>
      BY <1>0, <2>1, <3>3 DEF Attempted, Written, Writes
    <3> QED
      BY <2>1, <3>2, <3>3, <3>4, SameEntries DEF Written, BeforeRun
  <2> QED
    BY <1>19, <2>2, <2>3 DEF WriteCost
<1>20. CASE CompressTranscript
  <2>1. Writes("compress") /\ UNCHANGED run
    BY <1>0, <1>20, WritersWrite DEF CompressTranscript
  <2>2. CASE place # "terminal"
    <3>1. UNCHANGED files
      BY <1>20, <2>2 DEF CompressTranscript
    <3> QED
      BY <1>0, <2>1, <2>2, <3>1, SameEntries DEF Written, Writes, BeforeRun, Reports
  <2>3. CASE place = "terminal"
    <3>1. run.terminal # NoTerminal /\ files.line = <<>> /\ files.cost # <<>>
          /\ Records(cycle) = run.events
      BY <1>0, <2>1, <2>3 DEF Attempted, Written, Buffered, Writes
    <3>2. PICK outcome \in Compressions :
            /\ IF outcome = "compressed" THEN Advance ELSE Abandon
            /\ files' = CASE place # "terminal" \/ outcome = "not_stored" -> files
                         [] OTHER -> [files EXCEPT !.transcript =
                    <<Stored(IF outcome = "compressed" THEN "zst" ELSE "plain", cycle)>>]
      BY <1>20 DEF CompressTranscript
    <3>3. files'.cost = files.cost /\ files'.line = files.line
      BY <1>0, <2>3, <3>2 DEF RecordsTyped
    <3>4. CASE outcome = "compressed"
      <4>1. Stored("zst", cycle) = [form |-> "zst", records |-> run.events]
        BY <3>1 DEF Stored, Records
      <4>2. files'.transcript = Transcript
        BY <1>0, <2>3, <3>2, <3>4, <4>1 DEF RecordsTyped, Transcript
      <4>3. Following
        BY <1>0, <1>20, <2>1, <3>2, <3>4, StageAdvances DEF CompressTranscript, Writes
      <4> QED
        BY <1>0, <2>1, <2>3, <3>1, <3>3, <4>2, <4>3, SameEntries
        DEF Written, Writes, Following, BeforeRun
    <3>5. CASE outcome # "compressed"
      BY <1>0, <2>1, <2>3, <3>1, <3>2, <3>3, <3>5, StageAbandoned, SameEntries
      DEF Written, Writes, BeforeRun
    <3> QED
      BY <3>4, <3>5
  <2> QED
    BY <2>2, <2>3
<1>21. CASE WriteLine
  <2>1. Writes("line") /\ UNCHANGED run
    BY <1>0, <1>21, WritersWrite DEF WriteLine
  <2>2. CASE Abandon /\ UNCHANGED files
    BY <1>0, <2>1, <2>2, StageAbandoned, SameEntries DEF Written, Writes, BeforeRun, Reports
  <2>3. CASE place # "terminal"
    <3>1. \/ place = "preflight_report"
          \/ Abandon /\ UNCHANGED files
      BY <1>0, <1>21, <2>1, <2>3, StageAdvances DEF WriteLine, Writes, Following, Reports
    <3>2. place = "preflight_report" => run.terminal = NoTerminal
      BY <1>0, NothingTyped DEF Attempted
    <3> QED
      BY <2>1, <2>2, <3>1, <3>2 DEF Written, Writes, BeforeRun
  <2>4. CASE place = "terminal" /\ Advance /\ files' = [files EXCEPT !.line = <<CycleRunEntry>>]
    <3>1. run.terminal # NoTerminal /\ files.cost # <<>> /\ files.transcript = Transcript
      BY <1>0, <2>1, <2>4 DEF Attempted, Written, Writes
    <3>2. /\ files'.cost = files.cost /\ files'.line = <<CycleRunEntry>>
          /\ files'.transcript = files.transcript
      BY <1>0, <2>4 DEF RecordsTyped
    <3>3. Following
      BY <1>0, <1>21, <2>1, <2>4, StageAdvances DEF WriteLine, Writes
    <3> QED
      BY <1>0, <2>1, <2>4, <3>1, <3>2, <3>3, SameEntries DEF Written, Writes, Following, BeforeRun
  <2> QED
    BY <1>21, <2>2, <2>3, <2>4 DEF WriteLine
<1>22. CASE PostCycleRun
  <2>1. Writes("post") /\ UNCHANGED <<run, files>>
    BY <1>0, <1>22, WritersWrite DEF PostCycleRun
  <2> QED
    BY <1>0, <2>1, SameEntries DEF Written, Writes, Following, BeforeRun, Reports
<1>23. CASE ObserveMetrics
  <2>1. Writes("metrics") /\ UNCHANGED <<run, files>>
    BY <1>0, <1>23, WritersWrite DEF ObserveMetrics
  <2> QED
    BY <1>0, <2>1, SameEntries DEF Written, Writes, Following, BeforeRun, Reports
<1>24. CASE UNCHANGED <<place, run, files, todo>>
  BY <1>0, SameEntries, StageBegins, <1>24 DEF Written, BeforeRun, Stage
<1> QED
  BY <1>sr, <1>1, <1>2, <1>3, <1>4, <1>5, <1>6, <1>7, <1>8, <1>9, <1>10, <1>11, <1>12,
     <1>13, <1>14, <1>15, <1>16, <1>17, <1>18, <1>19, <1>20, <1>21, <1>22, <1>23,
     <1>24 DEF Next, vars, CleanupTimesOut, CallBridge, BridgeExits, LateStatus,
     StoreProgress, LatePost

LEMMA NextRecorded == IInv /\ [Next]_vars => Recorded'
<1> SUFFICES ASSUME IInv, [Next]_vars  PROVE Recorded'
  OBVIOUS
<1> USE DEF current, report, outputs, table, Operations
<1>0. Recorded /\ ControlTyped /\ TableTyped /\ ReportTyped
  BY DEF IInv
<1>1. CASE Launch
  <2>1. place' = "maintenance" /\ UNCHANGED <<rows, posting, recorded>>
    BY <1>1, NewCycleTyped DEF Launch
  <2> QED
    BY <1>0, <2>1 DEF Recorded
<1>2. CASE Wake
  <2>1. place' = "maintenance" /\ UNCHANGED <<rows, posting, recorded>>
    BY <1>2, NewCycleTyped DEF Wake
  <2> QED
    BY <1>0, <2>1 DEF Recorded
<1>3. CASE Abort
  BY <1>0, StageOf, StageBegins, <1>3 DEF Abort, Recorded
<1>4. CASE Kill
  BY <1>0, StageOf, StageBegins, <1>4 DEF Kill, Recorded
<1>5. CASE MaintenanceReturns
  BY <1>0, StageOf, StageBegins, <1>5 DEF MaintenanceReturns, BridgeReturns,
     PrepareFails, ReportError, HasStatus, AtRest, Recorded
<1>6. CASE ConfigReturns
  BY <1>0, StageOf, StageBegins, <1>6 DEF ConfigReturns, BridgeReturns,
     PrepareFails, ReportError, HasStatus, AtRest, Recorded
<1>7. CASE PreflightReturns
  BY <1>0, StageOf, StageBegins, <1>7 DEF PreflightReturns, BridgeReturns,
     PrepareFails, ReportError, HasStatus, BeginPreflightReport, Decision, AtRest,
     Recorded
<1>8. CASE IdleStartReturns
  BY <1>0, StageOf, StageBegins, <1>8 DEF IdleStartReturns, BridgeReturns,
     ReportError, HasStatus, AtRest, Recorded
<1>9. CASE IdleSkipReturns
  BY <1>0, StageOf, StageBegins, <1>9 DEF IdleSkipReturns, BridgeReturns,
     ReportError, HasStatus, BeginPreflightReport, AtRest, Recorded
<1>10. CASE SetUpRun
  BY <1>0, StageOf, StageBegins, <1>10 DEF SetUpRun, RunThrown, AfterRun, ReportError,
     HasStatus, Recorded
<1>11. CASE EndAttempt
  BY <1>0, StageOf, StageBegins, <1>11 DEF EndAttempt, Recorded
<1>12. CASE PrepareErrorReported
  BY <1>0, StageOf, StageBegins, <1>12 DEF PrepareErrorReported,
     BeginPreflightReport, Recorded
<1>13. CASE PreflightReported
  BY <1>0, StageOf, StageBegins, <1>13 DEF PreflightReported, ReportError,
     HasStatus, AtRest, Recorded
<1>14. CASE RunReturns
  BY <1>0, StageOf, StageBegins, <1>14 DEF RunReturns, RunThrown, AfterRun, ReportError,
     HasStatus, Recorded
<1>15. CASE ErrorReported
  BY <1>0, StageOf, StageBegins, <1>15 DEF ErrorReported, AfterRun, Recorded
<1>sr. CASE SignalRead
  BY <1>0, StageOf, StageBegins, <1>sr DEF SignalRead, ReportError, HasStatus, Recorded
<1>16. CASE CleanupReturns
  BY <1>0, StageOf, StageBegins, <1>16 DEF CleanupReturns, BridgeReturns,
     ReportError, HasStatus, AtRest, Recorded
<1>17. CASE WriteStatus
  <2>1. Writes("status") /\ UNCHANGED <<cycle, recorded, rows, posting>>
    BY <1>0, <1>17, WritersWrite DEF WriteStatus
  <2> QED
    BY <1>0, <2>1 DEF Recorded, Writes, Following
<1>18. CASE WriteCost
  <2>1. Writes("cost") /\ UNCHANGED <<cycle, recorded, rows, posting>>
    BY <1>0, <1>18, WritersWrite DEF WriteCost
  <2> QED
    BY <1>0, <2>1 DEF Recorded, Writes, Following
<1>19. CASE CompressTranscript
  <2>1. Writes("compress") /\ UNCHANGED <<cycle, recorded, rows, posting>>
    BY <1>0, <1>19, WritersWrite DEF CompressTranscript
  <2> QED
    BY <1>0, <2>1 DEF Recorded, Writes, Following
<1>20. CASE WriteLine
  <2>1. Writes("line") /\ UNCHANGED <<cycle, rows, posting>>
    BY <1>0, <1>20, WritersWrite DEF WriteLine
  <2>2. \/ Advance /\ recorded' = recorded \cup {cycle}
        \/ Abandon /\ UNCHANGED recorded
    BY <1>20 DEF WriteLine
  <2> QED
    BY <1>0, <2>1, <2>2, StageAbandoned DEF Recorded, Writes, Following
<1>21. CASE PostCycleRun
  <2>1. Writes("post") /\ UNCHANGED <<cycle, recorded>>
    BY <1>0, <1>21, WritersWrite DEF PostCycleRun
  <2>2. /\ cycle \in Nat \ {0} /\ rows \in Seq(Row) /\ posting' \subseteq posting \cup {cycle}
        /\ AddCycleRun(cycle) \/ UNCHANGED rows
    BY <1>0, <1>21, <2>1 DEF PostCycleRun, ControlTyped, TableTyped, Writes, Reports
  <2>3. Following
    BY <1>0, <1>21, <2>1, StageAdvances DEF PostCycleRun, Writes
  <2>4. cycle \in recorded
    BY <1>0, <2>1, <2>3 DEF Recorded, Writes, Following, Reports
  <2>5. \A i \in DOMAIN rows' : rows'[i].transcript # 0 => rows'[i].transcript \in recorded
    BY <1>0, <2>2, <2>4, AddCycleRunCompletes DEF Completes, Recorded
  <2> QED
    BY <1>0, <2>1, <2>2, <2>4, <2>5 DEF Recorded, Writes, Following
<1>22. CASE ObserveMetrics
  <2>1. Writes("metrics") /\ UNCHANGED <<cycle, recorded, rows, posting>>
    BY <1>0, <1>22, WritersWrite DEF ObserveMetrics
  <2> QED
    BY <1>0, <2>1 DEF Recorded, Writes, Following
<1>23. CASE StoreProgress
  <2>1. /\ rows' = Append(rows, [cycle |-> cycle, transcript |-> 0])
        /\ UNCHANGED <<place, cycle, recorded, todo, posting>>
    BY <1>23 DEF StoreProgress
  <2>2. ASSUME NEW i \in DOMAIN rows'
        PROVE  \/ i \in DOMAIN rows /\ rows'[i] = rows[i]
               \/ rows'[i] = [cycle |-> cycle, transcript |-> 0]
    BY <1>0, <2>1 DEF TableTyped
  <2> QED
    BY <1>0, <2>1, <2>2, StageBegins DEF Recorded
<1>24. CASE LatePost
  <2>1. PICK c \in posting : AddCycleRun(c) /\ posting' = posting \ {c}
    BY <1>24 DEF LatePost
  <2>2. UNCHANGED <<place, cycle, recorded, todo>> /\ c \in Nat /\ c \in recorded
        /\ rows \in Seq(Row)
    BY <1>0, <1>24 DEF LatePost, TableTyped, Recorded
  <2>3. \A i \in DOMAIN rows' : rows'[i].transcript # 0 => rows'[i].transcript \in recorded
    BY <1>0, <2>1, <2>2, AddCycleRunCompletes DEF Completes, Recorded
  <2> QED
    BY <1>0, <2>1, <2>2, <2>3, StageBegins DEF Recorded
<1>25. CASE UNCHANGED <<place, cycle, recorded, rows, posting, todo>>
  BY <1>0, StageOf, StageBegins, <1>25 DEF Recorded, Stage
<1> QED
  BY <1>sr, <1>1, <1>2, <1>3, <1>4, <1>5, <1>6, <1>7, <1>8, <1>9, <1>10, <1>11, <1>12,
     <1>13, <1>14, <1>15, <1>16, <1>17, <1>18, <1>19, <1>20, <1>21, <1>22, <1>23,
     <1>24, <1>25 DEF Next, vars, CleanupTimesOut, CallBridge, BridgeExits,
     LateStatus, Deliver

(* What counting the names that are counted comes to. *)
SameTotals ==
  /\ counts'.cycles = counts.cycles /\ counts'.types = counts.types
  /\ counts'.timeouts = counts.timeouts /\ counts'.preflights = counts.preflights

LEMMA Totals ==
  ASSUME CountsTyped
  PROVE  /\ {counts.cycles, counts.types, counts.timeouts, counts.preflights} \subseteq Nat
         /\ UNCHANGED counts => SameTotals
         /\ Count({"failures"}) => SameTotals
         /\ Count({"types"}) =>
              /\ counts'.cycles = counts.cycles /\ counts'.types = counts.types + 1
              /\ counts'.timeouts = counts.timeouts /\ counts'.preflights = counts.preflights
         /\ Count({"preflights"}) =>
              /\ counts'.cycles = counts.cycles /\ counts'.types = counts.types
              /\ counts'.timeouts = counts.timeouts
              /\ counts'.preflights = counts.preflights + 1
         /\ Count({"cycles", "types"}) =>
              /\ counts'.cycles = counts.cycles + 1 /\ counts'.types = counts.types + 1
              /\ counts'.timeouts = counts.timeouts
         /\ Count({"cycles", "timeouts"}) =>
              /\ counts'.cycles = counts.cycles + 1 /\ counts'.types = counts.types
              /\ counts'.timeouts = counts.timeouts + 1
BY Counting DEF CountsTyped, CountNames, SameTotals

LEMMA NextCounted == IInv /\ [Next]_vars => Counted'
<1> SUFFICES ASSUME IInv, [Next]_vars  PROVE Counted'
  OBVIOUS
<1> USE DEF current, report, outputs, Operations
<1>0. Counted /\ Attempted /\ Decided /\ CountsTyped /\ ControlTyped /\ RecordsTyped /\ ReportTyped
  BY DEF IInv
<1>1. CASE Launch
  <2>1. place' = "maintenance" /\ counts' = NoCounts /\ run' = NoRun
    BY <1>1, NewCycleTyped DEF Launch
  <2> QED
    BY <2>1, NothingTyped DEF NoCounts, Counted, Uncounted, CountedAttempt, CountedPreflight, BeforeRun, Unplanned
<1>2. CASE Wake
  <2>1. place' = "maintenance" /\ counts' = NoCounts /\ run' = NoRun
    BY <1>2, NewCycleTyped DEF Wake
  <2> QED
    BY <2>1, NothingTyped DEF NoCounts, Counted, Uncounted, CountedAttempt, CountedPreflight, BeforeRun, Unplanned
<1>3. CASE Abort
  BY <1>0, Totals, StageOf, StageBegins, <1>3 DEF Abort, Counted, Uncounted,
     CountedAttempt, CountedPreflight, SameTotals, BeforeRun, Unplanned
<1>4. CASE Kill
  BY <1>0, Totals, StageOf, StageBegins, <1>4 DEF Kill, Counted, Uncounted,
     CountedAttempt, CountedPreflight, SameTotals, BeforeRun, Unplanned
<1>5. CASE MaintenanceReturns
  BY <1>0, Totals, StageOf, StageBegins, <1>5 DEF MaintenanceReturns, BridgeReturns,
     PrepareFails, ReportError, HasStatus, AtRest, Counted, Uncounted,
     CountedAttempt, CountedPreflight, SameTotals, BeforeRun, Unplanned
<1>6. CASE ConfigReturns
  BY <1>0, Totals, StageOf, StageBegins, <1>6 DEF ConfigReturns, BridgeReturns,
     PrepareFails, ReportError, HasStatus, AtRest, Counted, Uncounted,
     CountedAttempt, CountedPreflight, SameTotals, BeforeRun, Unplanned
<1>7. CASE PreflightReturns
  BY <1>0, Totals, StageOf, StageBegins, <1>7 DEF PreflightReturns, BridgeReturns,
     PrepareFails, ReportError, HasStatus, BeginPreflightReport, Decision, AtRest,
     Counted, Uncounted, CountedAttempt, CountedPreflight, SameTotals, BeforeRun,
     Unplanned
<1>8. CASE IdleStartReturns
  BY <1>0, Totals, StageOf, StageBegins, <1>8 DEF IdleStartReturns, BridgeReturns,
     ReportError, HasStatus, AtRest, Counted, Uncounted, CountedAttempt,
     CountedPreflight, SameTotals, BeforeRun, Unplanned
<1>9. CASE IdleSkipReturns
  BY <1>0, Totals, StageOf, StageBegins, <1>9 DEF IdleSkipReturns, BridgeReturns,
     ReportError, HasStatus, BeginPreflightReport, AtRest, Counted, Uncounted,
     CountedAttempt, CountedPreflight, SameTotals, BeforeRun, Unplanned
<1>10. CASE SetUpRun
  BY <1>0, Totals, StageOf, StageBegins, <1>10 DEF SetUpRun, RunThrown, AfterRun, ReportError,
     HasStatus, Counted, Uncounted, CountedAttempt, CountedPreflight, SameTotals,
     BeforeRun, Unplanned
<1>11. CASE Deliver
  <2>1. place = "running" /\ UNCHANGED <<place, counts>>
    BY <1>11 DEF Deliver
  <2>2. run'.terminal = NoTerminal
    BY <1>0, <1>11, <2>1, DeliverTyped DEF Attempted
  <2> QED
    BY <1>0, <2>1, <2>2 DEF Counted, Uncounted, BeforeRun, Unplanned
<1>12. CASE EndAttempt
  <2>1. place = "running" /\ place' = "terminal" /\ UNCHANGED counts /\ Stage' = "status"
    BY <1>12, StageBegins DEF EndAttempt
  <2> QED
    BY <1>0, <2>1 DEF Counted, Uncounted, BeforeRun, Unplanned
<1>13. CASE PrepareErrorReported
  BY <1>0, Totals, StageOf, StageBegins, <1>13 DEF PrepareErrorReported,
     BeginPreflightReport, Counted, Uncounted, CountedAttempt, CountedPreflight,
     SameTotals, BeforeRun, Unplanned
<1>14. CASE PreflightReported
  BY <1>0, Totals, StageOf, StageBegins, <1>14 DEF PreflightReported, ReportError,
     HasStatus, AtRest, Counted, Uncounted, CountedAttempt, CountedPreflight,
     SameTotals, BeforeRun, Unplanned
<1>15. CASE RunReturns
  BY <1>0, Totals, StageOf, StageBegins, <1>15 DEF RunReturns, RunThrown, AfterRun,
     ReportError, HasStatus, Counted, Uncounted, CountedAttempt, CountedPreflight,
     SameTotals, BeforeRun, Unplanned
<1>16. CASE ErrorReported
  BY <1>0, Totals, StageOf, StageBegins, <1>16 DEF ErrorReported, AfterRun, Counted,
     Uncounted, CountedAttempt, CountedPreflight, SameTotals, BeforeRun, Unplanned
<1>sr. CASE SignalRead
  BY <1>0, Totals, StageOf, StageBegins, <1>sr DEF SignalRead, ReportError, HasStatus, Counted,
     Uncounted, CountedAttempt, CountedPreflight, SameTotals, BeforeRun, Unplanned
<1>17. CASE CleanupReturns
  <2>1. UNCHANGED <<run, decision, broken>> /\ place' \in {"sleeping", "stopped"}
    BY <1>17 DEF CleanupReturns, ReportError, HasStatus, AtRest
  <2>2. SameTotals
    BY <1>0, <1>17, Totals DEF CleanupReturns, ReportError, HasStatus
  <2>3. CASE place = "cleanup"
    BY <1>0, <2>1, <2>2, <2>3
    DEF Decided, Counted, CountedAttempt, SameTotals, BeforeRun, Unplanned
  <2>4. CASE place = "preflight_cleanup"
    <3>1. run.terminal = NoTerminal /\ CountedPreflight
      BY <1>0, <2>4, NothingTyped DEF Attempted, Counted
    <3> QED
      BY <2>1, <2>2, <3>1 DEF Counted, CountedPreflight, SameTotals, BeforeRun, Unplanned
  <2> QED
    BY <1>17, <2>3, <2>4 DEF CleanupReturns, BridgeReturns
<1>18. CASE WriteStatus
  <2>1. Writes("status") /\ UNCHANGED <<run, counts, decision, reported>>
    BY <1>0, <1>18, WritersWrite DEF WriteStatus
  <2> QED
    BY <1>0, <2>1
    DEF Counted, Uncounted, CountedAttempt, CountedPreflight, BeforeRun, Unplanned, Writes,
        Following, Reports
<1>19. CASE WriteCost
  <2>1. Writes("cost") /\ UNCHANGED <<run, counts, decision, reported>>
    BY <1>0, <1>19, WritersWrite DEF WriteCost
  <2> QED
    BY <1>0, <2>1
    DEF Counted, Uncounted, CountedAttempt, CountedPreflight, BeforeRun, Unplanned, Writes,
        Following, Reports
<1>20. CASE CompressTranscript
  <2>1. Writes("compress") /\ UNCHANGED <<run, counts, decision, reported>>
    BY <1>0, <1>20, WritersWrite DEF CompressTranscript
  <2> QED
    BY <1>0, <2>1
    DEF Counted, Uncounted, CountedAttempt, CountedPreflight, BeforeRun, Unplanned, Writes,
        Following, Reports
<1>21. CASE WriteLine
  <2>1. Writes("line") /\ UNCHANGED <<run, counts, decision, reported>>
    BY <1>0, <1>21, WritersWrite DEF WriteLine
  <2> QED
    BY <1>0, <2>1
    DEF Counted, Uncounted, CountedAttempt, CountedPreflight, BeforeRun, Unplanned, Writes,
        Following, Reports
<1>22. CASE PostCycleRun
  <2>1. Writes("post") /\ UNCHANGED <<run, counts, decision, reported>>
    BY <1>0, <1>22, WritersWrite DEF PostCycleRun
  <2> QED
    BY <1>0, <2>1
    DEF Counted, Uncounted, CountedAttempt, CountedPreflight, BeforeRun, Unplanned, Writes,
        Following, Reports
<1>23. CASE ObserveMetrics
  <2>1. Writes("metrics") /\ UNCHANGED <<run, decision, reported>> /\ Following /\ Stage = "metrics"
        /\ broken' = broken
    BY <1>0, <1>23, WritersWrite, StageAdvances DEF ObserveMetrics, Writes
  <2>2. Stage' = "done" /\ place' = place
    BY <2>1 DEF Writes, Following, Reports
  <2>3. CASE place = "terminal"
    <3>1. Uncounted
      BY <1>0, <2>1, <2>3 DEF Counted
    <3>2. Count({"cycles", "types"}) \/ Count({"cycles", "timeouts"})
      BY <1>23, <2>3 DEF ObserveMetrics
    <3>3. CountedAttempt'
      BY <1>0, <3>1, <3>2, Totals DEF Uncounted, CountedAttempt
    <3> QED
      BY <2>2, <2>3, <3>3 DEF Counted, BeforeRun, Unplanned
  <2>4. CASE place = "preflight_report"
    <3>1. counts.cycles = 0 /\ counts.types = 1 /\ counts.preflights = 0
      BY <1>0, <2>1, <2>4 DEF Counted
    <3>2. Count({"preflights"})
      BY <1>23, <2>4 DEF ObserveMetrics
    <3>3. CountedPreflight' /\ counts'.cycles = 0 /\ counts'.types = 1
      BY <1>0, <3>1, <3>2, Totals DEF CountedPreflight
    <3>4. run'.terminal = NoTerminal
      BY <1>0, <2>1, <2>4, NothingTyped DEF Attempted
    <3> QED
      BY <2>2, <2>4, <3>3, <3>4 DEF Counted, BeforeRun, Unplanned
  <2>5. CASE place \in {"prepare_error", "run_error", "sleep_error"}
    <3>1. SameTotals
      BY <1>0, <1>23, <2>5, Totals DEF ObserveMetrics
    <3> QED
      BY <1>0, <2>1, <2>2, <2>5, <3>1
      DEF Counted, Uncounted, CountedAttempt, SameTotals, BeforeRun, Unplanned
  <2> QED
    BY <2>1, <2>3, <2>4, <2>5 DEF Writes, Reports
<1>24. CASE UNCHANGED <<place, run, counts, report, decision>>
  BY <1>0, Totals, StageOf, StageBegins, <1>24 DEF Counted, Uncounted,
     CountedAttempt, CountedPreflight, Stage
<1> QED
  BY <1>sr, <1>1, <1>2, <1>3, <1>4, <1>5, <1>6, <1>7, <1>8, <1>9, <1>10, <1>11, <1>12,
     <1>13, <1>14, <1>15, <1>16, <1>17, <1>18, <1>19, <1>20, <1>21, <1>22, <1>23,
     <1>24 DEF Next, vars, CleanupTimesOut, CallBridge, BridgeExits, LateStatus,
     StoreProgress, LatePost

LEMMA SameDue ==
  UNCHANGED <<run, decision>> /\ reported' \subseteq reported \cup {"decision", "cleanup"}
    /\ reported \subseteq reported' => Due' = Due
BY DEF Due, Failed, IsError

LEMMA StatusDue ==
  ASSUME Decided, Attempted, place \in {"terminal", "preflight_report", "run_error", "sleep_error"}
  PROVE  Status = Due
BY NothingTyped DEF Decided, Attempted, Status, Due, Failed

LEMMA NextShown == IInv /\ [Next]_vars => Shown'
<1> SUFFICES ASSUME IInv, [Next]_vars  PROVE Shown'
  OBVIOUS
<1> USE DEF current, report, outputs, Operations
<1>0. Shown /\ Attempted /\ Decided /\ ControlTyped /\ RecordsTyped /\ ReportTyped
  BY DEF IInv
<1>1. CASE Launch
  <2>1. place' = "maintenance"
    BY <1>1, NewCycleTyped DEF Launch
  <2> QED
    BY <1>0, <2>1 DEF Final, Unplanned, Shown
<1>2. CASE Wake
  <2>1. place' = "maintenance"
    BY <1>2, NewCycleTyped DEF Wake
  <2> QED
    BY <1>0, <2>1 DEF Final, Unplanned, Shown
<1>3. CASE Abort
  <2>1. /\ UNCHANGED <<decision, run, reported, broken, board, ready>> /\ Stage' = Stage
        /\ aborted' /\ ~aborted
        /\ place' = place \/ place' = "stopped"
    BY <1>3, StageBegins DEF Abort
  <2> QED
    BY <1>0, <2>1, SameDue DEF Final, Unplanned, Shown
<1>4. CASE Kill
  <2>1. place' = "down"
    BY <1>4 DEF Kill
  <2> QED
    BY <1>0, <2>1 DEF Final, Unplanned, Shown
<1>5. CASE MaintenanceReturns
  <2>1. place' \in {"stopped", "prepare_error", "prepare"}
    BY <1>5 DEF MaintenanceReturns, PrepareFails, ReportError, HasStatus
  <2> QED
    BY <1>0, <2>1 DEF Final, Unplanned, Shown
<1>6. CASE ConfigReturns
  <2>1. place' \in {"stopped", "prepare_error", "preflight"}
    BY <1>6 DEF ConfigReturns, PrepareFails, ReportError, HasStatus
  <2> QED
    BY <1>0, <2>1 DEF Final, Unplanned, Shown
<1>7. CASE PreflightReturns
  <2>1. \/ place' \in {"stopped", "prepare_error"}
        \/ ready' /\ place' \in {"setup", "idle_start", "idle_skip"}
        \/ ready' /\ place' = "preflight_report" /\ Stage' = "compress"
    BY <1>7, StageBegins DEF PreflightReturns, PrepareFails, ReportError, HasStatus,
         BeginPreflightReport
  <2> QED
    BY <1>0, <2>1 DEF Final, Unplanned, Shown
<1>8. CASE IdleStartReturns
  <2>1. place = "idle_start" /\ place' = "setup" /\ ready' = ready
    BY <1>8 DEF IdleStartReturns, BridgeReturns, ReportError, HasStatus
  <2> QED
    BY <1>0, <2>1 DEF Final, Unplanned, Shown
<1>9. CASE IdleSkipReturns
  <2>1. /\ place = "idle_skip" /\ ready' = ready /\ decision' = "idle"
        /\ \/ place' \in {"sleeping", "stopped"} /\ "decision" \in reported'
           \/ place' = "preflight_report" /\ Stage' = "compress"
    BY <1>0, <1>9, StageBegins DEF IdleSkipReturns, BridgeReturns, ReportError, HasStatus, AtRest,
         BeginPreflightReport, Decided
  <2> QED
    BY <1>0, <2>1 DEF Final, Unplanned, Shown
<1>10. CASE SetUpRun
  <2>1. /\ place = "setup" /\ ready' = ready
        /\ \/ place' = "running"
           \/ place' = "cleanup" /\ aborted'
           \/ place' = "run_error" /\ Stage' = "status"
    BY <1>10, StageBegins DEF SetUpRun, RunThrown, AfterRun, ReportError, HasStatus
  <2> QED
    BY <1>0, <2>1 DEF Final, Unplanned, Shown
<1>11. CASE LateStatus
  <2>1. board'.missed /\ UNCHANGED <<place, ready>>
    BY <1>11 DEF LateStatus
  <2> QED
    BY <1>0, <2>1 DEF Shown
<1>12. CASE Deliver
  <2>1. place = "running" /\ place' = "running" /\ ready' = ready
    BY <1>12 DEF Deliver
  <2> QED
    BY <1>0, <2>1 DEF Final, Unplanned, Shown
<1>13. CASE EndAttempt
  <2>1. place = "running" /\ place' = "terminal" /\ Stage' = "status" /\ ready' = ready
    BY <1>13, StageBegins DEF EndAttempt
  <2> QED
    BY <1>0, <2>1 DEF Final, Unplanned, Shown
<1>14. CASE PrepareErrorReported
  <2>1. ready' /\ place' = "preflight_report" /\ Stage' = "compress"
    BY <1>14, StageBegins DEF PrepareErrorReported, BeginPreflightReport
  <2> QED
    BY <1>0, <2>1 DEF Final, Unplanned, Shown
<1>15. CASE PreflightReported
  <2>1. /\ place = "preflight_report" /\ Stage = "done" /\ decision # "run"
        /\ UNCHANGED <<run, decision, board, ready>>
    BY <1>0, <1>15, StageOf DEF PreflightReported, Decided
  <2>2. CASE place \in broken
    <3>1. place' \in {"sleeping", "stopped"} /\ "decision" \in reported'
      BY <1>15, <2>2 DEF PreflightReported, ReportError, HasStatus, AtRest
    <3> QED
      BY <1>0, <2>1, <3>1 DEF Final, Unplanned, Shown
  <2>3. CASE place \notin broken
    <3>1. place' = "preflight_cleanup" /\ reported' = reported
      BY <1>15, <2>3 DEF PreflightReported
    <3> QED
      BY <1>0, <2>1, <2>3, <3>1, SameDue DEF Final, Unplanned, Shown
  <2> QED
    BY <2>2, <2>3
<1>16. CASE RunReturns
  <2>1. place = "terminal" /\ Stage = "done" /\ UNCHANGED <<run, decision, board, ready, aborted>>
    BY <1>16, StageOf DEF RunReturns
  <2>2. \/ place' = "cleanup" /\ aborted'
        \/ place' = "run_error" /\ Stage' = "status"
        \/ place' = "signal" /\ reported' = reported
    BY <1>16, StageBegins DEF RunReturns, RunThrown, AfterRun, ReportError, HasStatus
  <2> QED
    BY <1>0, <2>1, <2>2, SameDue DEF Final, Unplanned, Shown
<1>17. CASE ErrorReported
  <2>1. /\ place \in {"run_error", "sleep_error"} /\ Stage = "done"
        /\ place' \in {"signal", "cleanup"}
        /\ UNCHANGED <<run, decision, board, ready, reported>>
    BY <1>17, StageOf DEF ErrorReported, AfterRun
  <2> QED
    BY <1>0, <2>1, SameDue DEF Final, Unplanned, Shown
<1>sr. CASE SignalRead
  <2>1. place = "signal" /\ UNCHANGED <<run, decision, board, ready, aborted>>
    BY <1>sr DEF SignalRead
  <2>2. \/ place' = "cleanup" /\ reported' = reported
        \/ place' = "sleep_error" /\ Stage' = "status"
    BY <1>sr, StageBegins DEF SignalRead, ReportError, HasStatus
  <2> QED
    BY <1>0, <2>1, <2>2, SameDue DEF Final, Unplanned, Shown
<1>18. CASE CleanupReturns
  <2>1. /\ UNCHANGED <<run, decision, board, ready, aborted>>
        /\ place' = "stopped" \/ (place' = "sleeping" /\ ~aborted)
    BY <1>18 DEF CleanupReturns, ReportError, HasStatus, AtRest
  <2>2. CASE place = "cleanup"
    <3>1. reported' = reported \/ reported' = reported \cup {"cleanup"}
      BY <1>18, <2>2 DEF CleanupReturns, ReportError, BridgeReturns
    <3> QED
      BY <1>0, <2>1, <2>2, <3>1, SameDue DEF Final, Unplanned, Shown
  <2>3. CASE place = "preflight_cleanup"
    <3>1. reported' = reported \/ reported' = reported \cup {"decision"}
      BY <1>18, <2>3 DEF CleanupReturns, ReportError, BridgeReturns
    <3>2. decision' # "run"
      BY <1>0, <2>1, <2>3 DEF Decided
    <3> QED
      BY <1>0, <2>1, <2>3, <3>1, <3>2, SameDue DEF Final, Unplanned, Shown
  <2> QED
    BY <1>18, <2>2, <2>3 DEF CleanupReturns, BridgeReturns
<1>19. CASE WriteStatus
  <2>1. Writes("status") /\ UNCHANGED <<run, decision, reported, ready>>
    BY <1>0, <1>19, WritersWrite DEF WriteStatus, Advance, Abandon
  <2>2. StatusPut(Status)
    BY <1>19, PutStatusPuts DEF WriteStatus, StatusLost, StatusPut
  <2>3. board'.missed \/ board'.shown = Status
    BY <1>0, <2>2 DEF StatusPut, RecordsTyped
  <2>4. place = "prepare_error" \/ board'.missed \/ board'.shown = Due
    BY <1>0, <2>1, <2>3, StatusDue DEF Writes, Reports
  <2>5. Due' = Due
    BY <2>1, SameDue
  <2> QED
    BY <1>0, <2>1, <2>4, <2>5 DEF Writes, Final, Unplanned, Shown, Reports
<1>20. CASE WriteCost
  <2>1. Writes("cost") /\ UNCHANGED <<run, decision, reported, board, ready>>
    BY <1>0, <1>20, WritersWrite DEF WriteCost
  <2>2. Due' = Due
    BY <2>1, SameDue
  <2> QED
    BY <1>0, <2>1, <2>2 DEF Writes, Following, Final, Unplanned, Shown, Reports
<1>21. CASE CompressTranscript
  <2>1. Writes("compress") /\ UNCHANGED <<run, decision, reported, board, ready>>
    BY <1>0, <1>21, WritersWrite DEF CompressTranscript
  <2>2. Due' = Due
    BY <2>1, SameDue
  <2> QED
    BY <1>0, <2>1, <2>2 DEF Writes, Following, Final, Unplanned, Shown, Reports
<1>22. CASE WriteLine
  <2>1. Writes("line") /\ UNCHANGED <<run, decision, reported, board, ready>>
    BY <1>0, <1>22, WritersWrite DEF WriteLine
  <2>2. Due' = Due
    BY <2>1, SameDue
  <2> QED
    BY <1>0, <2>1, <2>2 DEF Writes, Following, Final, Unplanned, Shown, Reports
<1>23. CASE PostCycleRun
  <2>1. Writes("post") /\ UNCHANGED <<run, decision, reported, board, ready>>
    BY <1>0, <1>23, WritersWrite DEF PostCycleRun
  <2>2. Due' = Due
    BY <2>1, SameDue
  <2> QED
    BY <1>0, <2>1, <2>2 DEF Writes, Following, Final, Unplanned, Shown, Reports
<1>24. CASE ObserveMetrics
  <2>1. Writes("metrics") /\ UNCHANGED <<run, decision, reported, board, ready>>
    BY <1>0, <1>24, WritersWrite DEF ObserveMetrics
  <2>2. Due' = Due
    BY <2>1, SameDue
  <2> QED
    BY <1>0, <2>1, <2>2 DEF Writes, Following, Final, Unplanned, Shown, Reports
<1>25. CASE UNCHANGED <<place, current, run, report, decision, board, ready>>
  BY <1>0, <1>25 DEF Shown, Final, Due, Failed, IsError, Stage
<1> QED
  BY <1>sr, <1>1, <1>2, <1>3, <1>4, <1>5, <1>6, <1>7, <1>8, <1>9, <1>10, <1>11, <1>12,
     <1>13, <1>14, <1>15, <1>16, <1>17, <1>18, <1>19, <1>20, <1>21, <1>22, <1>23,
     <1>24, <1>25 DEF Next, vars, CleanupTimesOut, CallBridge, BridgeExits,
     StoreProgress, LatePost
-------------------------------------------------------------------------------
LEMMA InitInvariant == Init => IInv
<1> SUFFICES ASSUME Init  PROVE IInv
  OBVIOUS
<1> USE DEF Init
<1>1. NoRun.terminal = NoTerminal /\ Stage = "done"
  BY NothingTyped DEF Stage
<1>2. ControlTyped /\ ReportTyped /\ TableTyped
  <2>1. ControlTyped
    BY DEF ControlTyped, Places
  <2>2. ReportTyped
    BY DEF ReportTyped, Reports
  <2>3. TableTyped
    <3>1. <<>> \in Seq(Row)
      OBVIOUS
    <3>2. rows = <<>> /\ posting = {} /\ stray = FALSE
      OBVIOUS
    <3> HIDE DEF Init
    <3> QED
      BY <3>1, <3>2 DEF TableTyped
  <2> QED
    BY <2>1, <2>2, <2>3
<1>3. RecordsTyped /\ CountsTyped /\ WorkOk
  BY NothingTyped DEF RecordsTyped, CountsTyped, WorkOk
<1>4. Decided /\ Attempted /\ Served /\ Recorded /\ RowsOwned
  BY <1>1 DEF Decided, Attempted, Served, Recorded, RowsOwned, BeforeRun, Unplanned
<1>5. Buffered /\ Written /\ Counted /\ Shown
  BY <1>1 DEF Buffered, Written, Counted, Shown, Final, BeforeRun, Unplanned
<1> QED
  BY <1>2, <1>3, <1>4, <1>5 DEF IInv

(* Invariance: the parts of the invariant hold of every reachable state of the *)
(* hooks around the loop (runner.ts) and of the projection, together.         *)
THEOREM Invariance == Spec => []IInv
<1>1. IInv /\ [Next]_vars => IInv'
  BY NextControlTyped, NextReportTyped, NextRecordsTyped, NextCountsTyped, NextTableTyped,
     NextDecided, NextAttempted, NextServed, NextRowsOwned, NextWorkOk, NextBuffered,
     NextWritten, NextRecorded, NextCounted, NextShown
  DEF IInv
<1> QED
  BY InitInvariant, <1>1, PTL DEF Spec
-------------------------------------------------------------------------------
(* What the check of a deployment lets through is rendered with models of the *)
(* selected provider alone, which Vertex allows and declares.                 *)
LEMMA ServedModels ==
  ASSUME NEW deployed \in Deployed, NEW selected \in Selected,
         Serves(deployed, selected), selected.runtime = "opencode",
         NEW model \in Rendered(deployed, selected)
  PROVE  /\ model.provider = selected.provider
         /\ model.provider = "vertex" =>
              model.id \in deployed.allowed \cap deployed.declared["vertex"]
<1> DEFINE small == SmallModel(deployed, selected)
<1>1. selected.model \in Names
  BY DEF Selected
<1>2. \A name, provider : Qualified(name, provider).id = name.id
                          \/ name \notin Names \cup {NoModel}
  BY DEF Qualified, Names, NoModel
<1>3. small \in Names \cup {NoModel} \/ small = [provider |-> "vertex", id |-> Preferred]
       \/ \E provider \in {"vertex", selected.provider} : small = Qualified(selected.model, provider)
  BY DEF SmallModel, DefaultSmallModel, Deployed, Gateways
<1>4. model.provider = selected.provider
  BY DEF Serves, Renders
<1>5. ASSUME model.provider = "vertex"
      PROVE  model.id \in deployed.allowed \cap deployed.declared["vertex"]
  <2>1. /\ VertexAllows(deployed, selected)
        /\ selected.model.id \in deployed.declared["vertex"]
    BY <1>4, <1>5 DEF Serves
  <2>2. /\ {selected.model.id, small.id} \subseteq deployed.allowed
           \cap deployed.declared["vertex"]
    BY <2>1 DEF VertexAllows
  <2>3. model.id \in {selected.model.id, small.id}
    <3>1. model = Qualified(selected.model, selected.provider)
           \/ model = Qualified(small, selected.provider)
      BY DEF Rendered
    <3>2. Qualified(selected.model, selected.provider).id = selected.model.id
      BY <1>1, <1>2
    <3>3. Qualified(small, selected.provider).id = small.id
      BY <1>1, <1>2, <1>3 DEF Qualified, Names
    <3> QED
      BY <3>1, <3>2, <3>3
  <2> QED
    BY <2>2, <2>3
<1> QED
  BY <1>4, <1>5

(* RunIsServed: the models OpenCode is given for an attempt (render.ts) are    *)
(* among those the deployment declares and the environment allows, whatever   *)
(* became of earlier launches with other deployments (runner.ts:186).         *)
THEOREM ModelsServed == Spec => []RunIsServed
<1>1. IInv => RunIsServed
  BY ServedModels, ReportsAssumption DEF IInv, Served, RunIsServed
<1> QED
  BY <1>1, Invariance, PTL

(* ReportsFindTheirRow: a report completes its own cycle's row (api.py:1135), *)
(* the newest unclaimed one, for any number of rows and of delayed reports.   *)
THEOREM RowsFound == Spec => []ReportsFindTheirRow
<1>1. IInv => ReportsFindTheirRow
  BY DEF IInv, RowsOwned, ReportsFindTheirRow
<1> QED
  BY <1>1, Invariance, PTL

(* RecordsAgree: the cost line, the cycle-run line, its transcript, the table *)
(* and the counters tell the same cycle (runner.ts, compatibility.ts), for    *)
(* any number of events and whatever fails on the way.                        *)
THEOREM RecordsOfACycleAgree == Spec => []RecordsAgree
<1>1. ASSUME IInv  PROVE RecordsAgree
  <2>1. \A context \in {run.tracker.context, run.terminal.context} :
          context.key # None /\ ~context.unnamed => context.task \in {None, context.key}
    BY <1>1 DEF IInv, WorkOk, ContextOk
  <2>2. ASSUME run.terminal # NoTerminal, files.line # <<>>
        PROVE  /\ files.cost # <<>>
               /\ LET line == files.line[1]
                      cost == files.cost[1]
                  IN line.key = cost.key /\ line.type = cost.type
                     /\ (line.cycleType = "error" <=> cost.error)
               /\ files.transcript = <<[form |-> "zst", records |-> run.events]>>
    <3>1. /\ files.cost # <<>> /\ files.transcript = Transcript
          /\ files.cost = <<CostEntry>> /\ files.line = <<CycleRunEntry>>
      BY <1>1, <2>2 DEF IInv, Written
    <3>2. /\ CycleRunEntry.key = CostEntry.key /\ CycleRunEntry.type = CostEntry.type
          /\ CycleRunEntry.cycleType = CycleType /\ CostEntry.error = IsError
      BY DEF CycleRunEntry, CostEntry
    <3>3. CycleType = "error" <=> IsError
      BY DEF CycleType
    <3> QED
      BY <3>1, <3>2, <3>3 DEF Transcript
  <2>3. \A i \in DOMAIN rows : rows[i].transcript # 0 => rows[i].transcript \in recorded
    BY <1>1 DEF IInv, Recorded
  <2>4. ASSUME place = "sleeping", broken = {}
        PROVE  IF run.terminal # NoTerminal
               THEN counts.cycles = 1 /\ counts.types + counts.timeouts = 1
               ELSE "decision" \notin reported /\ decision # "run" =>
                      counts.cycles = 0 /\ counts.types = 1 /\ counts.preflights = 1
    BY <1>1, <2>4 DEF IInv, Counted, CountedAttempt, CountedPreflight
  <2> QED
    BY <2>1, <2>2, <2>3, <2>4 DEF RecordsAgree
<1> QED
  BY <1>1, Invariance, PTL

(* StatusIsHonest: what a sleeping coordinator shows is how its cycle ended   *)
(* (runner.ts:523 and 586), the read of the sleep signal included             *)
(* (loop.ts:206).                                                             *)
THEOREM StatusStaysHonest == Spec => []StatusIsHonest
<1>1. ASSUME IInv  PROVE StatusIsHonest
  BY <1>1 DEF IInv, Shown, Final, Due, Failed, StatusIsHonest, Unplanned
<1> QED
  BY <1>1, Invariance, PTL
===============================================================================
