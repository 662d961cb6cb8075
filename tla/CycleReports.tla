------------------------------ MODULE CycleReports ------------------------------
(***************************************************************************)
(* What the coordinator tells the world of its cycles: the runner's hooks  *)
(* around the loop (runner.ts, cycle-input.ts), the projection of an       *)
(* attempt's events (projections/compatibility.ts) and the sink it writes  *)
(* to (adapters/compatibility.ts) - the status, the cost line, the         *)
(* cycle-run line with its transcript, the counters - and the cycle_runs   *)
(* table of the memory server the reports are posted to, which the agent's *)
(* progress_store writes to as well.                                       *)
(*                                                                         *)
(* One coordinator goes through cycle after cycle; CycleLoop has its sleep *)
(* plans and its lock, Attempt what happens inside an attempt.  The status *)
(* endpoint and the table outlive the process, everything else it keeps is *)
(* lost when it is killed.                                                 *)
(***************************************************************************)
EXTENDS WorkContext, PythonBridge, OpenCodeDeployment, Integers, Sequences

CONSTANTS
  Deployments,   \* what the deployment file of a launch may be
  Selections,    \* what the preparation of a cycle may select
  ToolCalls,     \* the tool events an agent may cause
  MaxBuffered,   \* MAX_BUFFERED_TRANSCRIPTS
  MaxEvents,     \* bound: events of an attempt
  MaxCycles,     \* bound: cycles in a behaviour
  MaxRows,       \* bound: rows of the table
  MaxMishaps     \* bound: failures in a behaviour

ASSUME ReportsAssumption ==
  /\ Deployments \subseteq Deployed /\ Selections \subseteq Selected
  /\ ToolCalls \subseteq ToolEvents
  /\ MaxBuffered \in Nat \ {0}
  /\ {MaxEvents, MaxCycles, MaxRows, MaxMishaps} \subseteq Nat

Statuses == {"working", "idle", "error"}
Causes == {"none", "budget", "timed_out", "shutdown"}
Answers == {"completed", "failed", "absent"}

(* What the run hands to the projection and the loop: the state and reason of *)
(* the terminal event, with the attempt's abort cause, the runtime's own      *)
(* answer and whether stop() failed.                                          *)
NoTerminal == [state |-> "none", reason |-> "none", noWork |-> FALSE, context |-> NoContext,
               cause |-> "none", answer |-> "absent", stopFailed |-> FALSE]

NoRun == [tracker |-> NewTracker, events |-> 0, terminal |-> NoTerminal]
NoDeployment == "none"
NoSelection == "none"
NoFiles == [cost |-> <<>>, transcript |-> <<>>, line |-> <<>>]
NoCounts == [cycles |-> 0, types |-> 0, timeouts |-> 0, preflights |-> 0, failures |-> 0]

VARIABLES
  place,       \* where the coordinator is
  cycle,       \* the current cycle, and the attempt of it
  aborted,     \* the loop's signal
  deployment,  \* the deployment the process was launched with
  selection,   \* the selection of the cycle
  decision,    \* the decision of the cycle's plan
  run,         \* the attempt
  todo,        \* what is left of the report being written
  broken,      \* the reports of this cycle that threw half-way
  reported,    \* the phases of this cycle that went to onError
  board,       \* the status endpoint: shown, a status yet to come, and whether
               \* (history) what it shows is not what was last written
  buffers,     \* the sink's transcripts: attempt -> number of records
  files,       \* what the cycle has appended to the data directory
  recorded,    \* the cycles in cycle-runs.jsonl
  counts,      \* what the cycle has added to the metrics
  ready,       \* whether this process has reported itself ready
  rows,        \* the cycle_runs table of this instance
  posting,     \* reports whose POST timed out and that may still arrive
  stray,       \* history: a cycle ended and left a row unclaimed, or a late report
  mishaps      \* how many failures there have been

current == <<cycle, aborted, deployment, selection>>
report == <<todo, broken, reported>>
outputs == <<board, buffers, files, recorded, counts, ready>>
table == <<rows, posting, stray>>
vars == <<call, place, current, decision, run, report, outputs, table, mishaps>>

Reports == {"terminal", "preflight_report", "prepare_error", "run_error", "sleep_error"}
Places == {"down", "sleeping", "stopped", "setup", "running", "signal"} \cup Operations \cup Reports
            \cup {"preflight_cleanup"}

Init ==
  /\ call = NoCall /\ place = "down" /\ cycle = 0 /\ aborted = FALSE
  /\ deployment = NoDeployment /\ selection = NoSelection
  /\ decision = "none" /\ run = NoRun
  /\ todo = <<>> /\ broken = {} /\ reported = {}
  /\ board = [shown |-> "none", late |-> "none", missed |-> FALSE]
  /\ buffers = <<>> /\ files = NoFiles /\ recorded = {} /\ counts = NoCounts
  /\ ready = FALSE /\ rows = <<>> /\ posting = {} /\ stray = FALSE
  /\ mishaps = 0

Mishap == mishaps < MaxMishaps /\ mishaps' = mishaps + 1
NoMishap == UNCHANGED mishaps

Count(names) == counts' = [n \in DOMAIN counts |-> IF n \in names THEN counts[n] + 1 ELSE counts[n]]
-------------------------------------------------------------------------------
(* The process: cycles follow one another, and an abort, a kill or the end of *)
(* the bound stops them.                                                      *)

NewCycle ==
  /\ cycle < MaxCycles
  /\ cycle' = cycle + 1
  /\ selection' = NoSelection
  /\ place' = "maintenance"
  /\ decision' = "none" /\ run' = NoRun
  /\ todo' = <<>> /\ broken' = {} /\ reported' = {}
  /\ files' = NoFiles /\ counts' = NoCounts
  /\ stray' = (stray \/ posting # {} \/ \E i \in DOMAIN rows : rows[i].transcript = 0)

Launch ==
  /\ place \in {"down", "stopped"}
  /\ NewCycle
  /\ aborted' = FALSE
  /\ deployment' \in Deployments
  /\ buffers' = <<>>
  /\ ready' = FALSE
  /\ UNCHANGED <<call, board, recorded, rows, posting, mishaps>>

Wake ==
  /\ place = "sleeping"
  /\ NewCycle
  /\ UNCHANGED <<call, aborted, deployment, board, buffers, recorded, ready, rows, posting,
                 mishaps>>

(* An abort reaches the bridge call under way through its listener; the       *)
(* housekeeping has a timer of its own instead.                               *)
Abort ==
  /\ place \notin {"down", "stopped"}
  /\ ~aborted
  /\ aborted' = TRUE
  /\ call' = IF call.op = "cleanup" THEN call ELSE Signalled
  /\ place' = IF place = "sleeping" THEN "stopped" ELSE place
  /\ UNCHANGED <<cycle, deployment, selection, decision, run, report, outputs, table, mishaps>>

CleanupTimesOut ==
  /\ call.op = "cleanup" /\ ~call.aborted
  /\ Mishap
  /\ call' = Signalled
  /\ UNCHANGED <<place, current, decision, run, report, outputs, table>>

Kill ==
  /\ place \notin {"down", "stopped"}
  /\ Mishap
  /\ place' = "down"
  /\ call' = NoCall
  /\ buffers' = <<>>
  /\ todo' = <<>>
  /\ UNCHANGED <<current, decision, run, broken, reported, board, files,
                 recorded, ready, counts, table>>

(* waitForPlan: an aborted signal ends the loop. *)
AtRest == IF aborted THEN "stopped" ELSE "sleeping"
-------------------------------------------------------------------------------
(* The Python bridge. *)

Bridging == place \in Operations \cup {"preflight_cleanup"}
Operation == IF place = "preflight_cleanup" THEN "cleanup" ELSE place

CallBridge ==
  /\ Bridging
  /\ Request(Operation, aborted /\ Operation # "cleanup")
  /\ UNCHANGED <<place, current, decision, run, report, outputs, table,
                 mishaps>>

BridgeExits ==
  /\ \E output \in Outputs :
       /\ ChildExits(output)
       /\ IF output \in Breakdowns /\ ~call.aborted THEN Mishap ELSE NoMishap
  /\ UNCHANGED <<place, current, decision, run, report, outputs, table>>

BridgeReturns(op) == place = op /\ Return
-------------------------------------------------------------------------------
(* Errors.  Every phase is counted by onError; a failed preparation or run,   *)
(* and a sleep signal that cannot be read, have a status as well.             *)

ErrorReport == <<"status", "metrics">>

(* Mutant: every phase overwrites the status. *)
MutantHasStatus(phase) == TRUE

HasStatus(phase) == phase \notin {"decision", "cleanup"}

(* onError for a phase without a status has one thing to do: count. *)
ReportError(phase, next) ==
  /\ reported' = reported \cup {phase}
  /\ IF HasStatus(phase)
     THEN /\ place' = CASE phase = "prepare" -> "prepare_error"
                        [] phase = "sleep" -> "sleep_error"
                        [] OTHER -> "run_error"
          /\ todo' = ErrorReport
          /\ UNCHANGED <<counts, broken>>
     ELSE /\ place' = next
          /\ Count({"failures"})
          /\ UNCHANGED <<todo, broken>>

(* prepare() threw: the loop breaks if it was aborted, and else plans for an  *)
(* error.                                                                     *)
PrepareFails ==
  IF aborted
  THEN place' = "stopped" /\ UNCHANGED <<decision, report, counts>>
  ELSE decision' = "error" /\ ReportError("prepare", AtRest)

(* The sleep signal is read after a run, unless the loop is aborted. *)
AfterRun == IF aborted THEN "cleanup" ELSE "signal"

(* run() threw. *)
RunThrown ==
  IF aborted THEN place' = AfterRun /\ UNCHANGED <<report, counts>>
             ELSE ReportError("run", AfterRun)
-------------------------------------------------------------------------------
(* Preparation and decision. *)

PreflightReport == <<"compress", "line", "post", "status", "metrics">>

(* onDecision for a cycle that does not run. *)
BeginPreflightReport ==
  /\ place' = "preflight_report"
  /\ todo' = PreflightReport
  /\ Count({"types"})
  /\ UNCHANGED <<broken, reported>>

MaintenanceReturns ==
  /\ BridgeReturns("maintenance")
  /\ IF Throws THEN PrepareFails
     ELSE place' = "prepare" /\ UNCHANGED <<decision, report, counts>>
  /\ UNCHANGED <<current, run, board, buffers, files, recorded, ready,
                 table, mishaps>>

(* The instructions or the native configuration are written between the two   *)
(* bridge calls, and may fail to.                                             *)
ConfigReturns ==
  /\ BridgeReturns("prepare")
  /\ \/ /\ IF Throws THEN NoMishap ELSE Mishap
        /\ PrepareFails
        /\ UNCHANGED selection
     \/ /\ ~Throws
        /\ place' = "preflight"
        /\ selection' \in Selections
        /\ UNCHANGED <<decision, report, counts, mishaps>>
  /\ UNCHANGED <<cycle, aborted, deployment, run, board, buffers, files, recorded, ready, table>>

Decision(action) ==
  CASE action \in {"null", "start"} -> "run"
    [] action = "skip" -> "idle"
    [] OTHER -> "error"

(* After the preflight, whatever it said, the intervals are checked against   *)
(* their range and the deployment against the selection.                      *)
PreflightReturns ==
  /\ BridgeReturns("preflight")
  /\ \/ /\ IF Throws \/ ~Serves(deployment, selection) THEN NoMishap ELSE Mishap
        /\ PrepareFails
        /\ UNCHANGED ready
     \/ /\ ~Throws /\ Serves(deployment, selection)
        /\ ready' = TRUE
        /\ decision' = Decision(Verdict)
        /\ IF decision' = "error" THEN BeginPreflightReport
           ELSE /\ place' = CASE Verdict = "null" -> "setup"
                              [] Verdict = "start" -> "idle_start"
                              [] OTHER -> "idle_skip"
                /\ UNCHANGED <<report, counts>>
        /\ NoMishap
  /\ UNCHANGED <<current, run, board, buffers, files, recorded, table>>

(* A run is started whatever becomes of its idle_start. *)
IdleStartReturns ==
  /\ BridgeReturns("idle_start")
  /\ IF Throws THEN ReportError("decision", "setup")
     ELSE place' = "setup" /\ Count({"preflights"}) /\ UNCHANGED report
  /\ UNCHANGED <<current, decision, run, board, buffers, files, recorded,
                 ready, table, mishaps>>

IdleSkipReturns ==
  /\ BridgeReturns("idle_skip")
  /\ IF Throws THEN ReportError("decision", AtRest) ELSE BeginPreflightReport
  /\ UNCHANGED <<current, decision, run, board, buffers, files, recorded,
                 ready, table, mishaps>>
-------------------------------------------------------------------------------
(* The run: building it and its runtime may fail before there is an attempt,  *)
(* and does for a runtime that has no factory.  The deployment is checked     *)
(* again, with the same outcome.                                              *)

SetUpRun ==
  /\ place = "setup"
  /\ \/ /\ selection.runtime # "unknown"
        /\ place' = "running"
        /\ UNCHANGED <<report, counts, mishaps>>
     \/ /\ IF selection.runtime = "unknown" THEN NoMishap ELSE Mishap
        /\ RunThrown
  /\ UNCHANGED <<call, current, decision, run, board, buffers, files,
                 recorded, ready, table>>

(* Writing a status: the line in status.jsonl, then the POST, which is given  *)
(* five seconds.                                                              *)
StatusWritten(status) ==
  NoMishap /\ board' = [board EXCEPT !.shown = status, !.missed = FALSE]
StatusLost == Mishap /\ board' = [board EXCEPT !.missed = TRUE]
StatusDelayed(status) ==
  /\ board.late = "none"
  /\ Mishap
  /\ board' = [board EXCEPT !.missed = TRUE, !.late = status]

PutStatus(status) == StatusWritten(status) \/ StatusLost \/ StatusDelayed(status)

LateStatus ==
  /\ board.late # "none"
  /\ board' = [shown |-> board.late, late |-> "none", missed |-> TRUE]
  /\ UNCHANGED <<call, place, current, decision, run, report, buffers,
                 files, recorded, ready, counts, table, mishaps>>

(* Mutant: the newest buffer makes room. *)
MutantEvicted(attempts) == IF Cardinality(attempts) > MaxBuffered
                           THEN {a \in attempts : \A b \in attempts : b <= a} ELSE {}

(* Attempts are buffered in their order; the oldest make room.  Attempts      *)
(* whose cycle run was never written are what there is to evict.              *)
Evicted(attempts) ==
  {a \in attempts : Cardinality({b \in attempts : b >= a}) > MaxBuffered}

AppendTranscript ==
  LET attempts == DOMAIN buffers \cup {cycle}
      Records(a) == IF a \in DOMAIN buffers THEN buffers[a] ELSE 0
  IN buffers' = [a \in attempts \ Evicted(attempts) |->
                   IF a = cycle THEN Records(a) + 1 ELSE Records(a)]

(* The events that may show as the coordinator's status: those of the run, of *)
(* the assistant's text and of its tool calls.  Reasoning, usage and policy   *)
(* events are not shown.                                                      *)
EventKinds == {"run", "model", "agent", "tool", "reasoning", "usage", "policy"}
MayShow(kind) == kind \in {"run", "model", "agent", "tool"}

(* An event the attempt accepts, other than its terminal one, is observed,    *)
(* appended, and shown: a call of a tool always, the others if they have      *)
(* something to say.  No failure of a status write gets past the projection.  *)
Deliver ==
  /\ place = "running"
  /\ run.events < MaxEvents
  /\ \E kind \in EventKinds :
       /\ IF kind = "tool"
          THEN \E event \in ToolCalls :
                 run' = [run EXCEPT !.events = @ + 1, !.tracker = Observe(@, event)]
          ELSE run' = [run EXCEPT !.events = @ + 1]
       /\ \/ MayShow(kind) /\ PutStatus("working")
          \/ kind # "tool" /\ UNCHANGED <<board, mishaps>>
  /\ AppendTranscript
  /\ UNCHANGED <<call, place, current, decision, report, files, recorded,
                 ready, counts, table>>

(* progress_store: the agent inserts a row of its own. *)
StoreProgress ==
  /\ place = "running"
  /\ Len(rows) < MaxRows
  /\ rows' = Append(rows, [cycle |-> cycle, transcript |-> 0])
  /\ UNCHANGED <<call, place, current, decision, run, report, outputs,
                 posting, stray, mishaps>>

TerminalState(answer, cause) ==
  CASE answer = "completed" -> "completed"
    [] cause = "timed_out" -> "timed_out"
    [] cause = "shutdown" -> "interrupted"
    [] OTHER -> "failed"

TerminalReport == <<"status", "cost", "compress", "line", "post", "metrics">>

(* The attempt comes to its terminal event, the runtime's or the              *)
(* coordinator's own, which is appended like any other before it is reported. *)
(* A "limit" is a reason of a budget or of max_turns.                         *)
EndAttempt ==
  /\ place = "running"
  /\ \E cause \in Causes, answer \in Answers, reason \in {"limit", "error"},
        noWork, stopFailed \in BOOLEAN :
       /\ cause = "shutdown" => aborted
       /\ aborted => cause # "none"
       /\ noWork => answer # "absent"
       /\ cause = "budget" => reason = "limit"
       /\ cause # "budget" /\ (cause # "none" \/ answer # "failed") => reason = "error"
       /\ IF stopFailed THEN Mishap ELSE NoMishap
       /\ run' = [run EXCEPT !.events = @ + 1, !.tracker = NewTracker, !.terminal =
                    [state |-> TerminalState(answer, cause), reason |-> reason,
                     noWork |-> noWork, context |-> run.tracker.context,
                     cause |-> cause, answer |-> answer, stopFailed |-> stopFailed]]
  /\ AppendTranscript
  /\ place' = "terminal"
  /\ todo' = TerminalReport
  /\ UNCHANGED <<call, current, decision, broken, reported, board, files,
                 recorded, ready, counts, table>>
-------------------------------------------------------------------------------
(* Writing a report, one await after the other. *)

Doing(step) == todo # <<>> /\ Head(todo) = step
Advance == todo' = Tail(todo) /\ UNCHANGED broken
Abandon == todo' = <<>> /\ broken' = broken \cup {place}

IsError == run.terminal.state # "completed"

Status ==
  CASE place = "terminal" -> IF run.terminal.noWork \/ ~IsError THEN "idle" ELSE "error"
    [] place = "preflight_report" -> decision
    [] OTHER -> "error"

(* Only the projection shields its status writes; elsewhere a line that       *)
(* cannot be appended to status.jsonl throws.                                 *)
WriteStatus ==
  /\ Doing("status")
  /\ \/ PutStatus(Status) /\ Advance
     \/ place # "terminal" /\ StatusLost /\ Abandon
  /\ UNCHANGED <<call, place, current, decision, run, reported, buffers,
                 files, recorded, ready, counts, table>>

Context == run.terminal.context

(* The cycle type follows the type of work alone: a cycle that had none to do *)
(* is still filed under what the agent's calls made of it.                    *)
CycleType ==
  CASE IsError -> "error"
    [] ~IsError /\ Context.type \in {"new_ticket", "pr_review", "ci_fix"} -> "task_work"
    [] ~IsError /\ Context.type = "memory_housekeeping" -> "idle"
    [] OTHER -> "triage_only"

(* The two lines of an attempt.  The cost line does not name the task. *)
CostEntry ==
  [key |-> Context.key, type |-> Context.type, error |-> IsError,
   noWork |-> run.terminal.noWork]

CycleRunEntry ==
  [task |-> Context.task, key |-> Context.key, type |-> Context.type, cycleType |-> CycleType]

(* The cycle-run line of a cycle that did not run. *)
PreflightEntry ==
  [task |-> None, key |-> None, type |-> decision,
   cycleType |-> IF decision = "idle" THEN "preflight_skip" ELSE "preflight_error"]

WriteCost ==
  /\ Doing("cost")
  /\ \/ NoMishap /\ files' = [files EXCEPT !.cost = <<CostEntry>>] /\ Advance
     \/ Mishap /\ UNCHANGED files /\ Abandon
  /\ UNCHANGED <<call, place, current, decision, run, reported, board,
                 buffers, recorded, ready, counts, table>>

(* The transcript is compressed and stored.  Or the zstd process cannot be    *)
(* started or written to, exits with a code other than 0 or puts out more     *)
(* than 16 MiB, or its output cannot be stored: then it is kept as it is.  Or *)
(* the directory cannot be made, or not even the plain file be written.       *)
Compressions == {"compressed", "kept", "not_stored"}

Stored(form, attempt) ==
  [form |-> form, records |-> IF attempt \in DOMAIN buffers THEN buffers[attempt] ELSE 0]

(* The buffer is gone before zstd has had its try.  An attempt's compressed   *)
(* transcript is written to a file, a preflight's only goes into the report.  *)
CompressTranscript ==
  /\ Doing("compress")
  /\ \E outcome \in Compressions :
       /\ outcome = "not_stored" => place = "terminal"
       /\ IF outcome = "compressed" THEN NoMishap /\ Advance ELSE Mishap /\ Abandon
       /\ files' =
            CASE place # "terminal" \/ outcome = "not_stored" -> files
              [] OTHER -> [files EXCEPT !.transcript =
                   <<Stored(IF outcome = "compressed" THEN "zst" ELSE "plain", cycle)>>]
  /\ buffers' = [a \in DOMAIN buffers \ {cycle} |-> buffers[a]]
  /\ UNCHANGED <<call, place, current, decision, run, reported, board,
                 recorded, counts, ready, table>>

WriteLine ==
  /\ Doing("line")
  /\ \/ /\ NoMishap
        /\ files' = [files EXCEPT !.line =
                       <<IF place = "terminal" THEN CycleRunEntry ELSE PreflightEntry>>]
        /\ recorded' = recorded \cup {cycle}
        /\ Advance
     \/ Mishap /\ UNCHANGED <<files, recorded>> /\ Abandon
  /\ UNCHANGED <<call, place, current, decision, run, reported, board,
                 buffers, counts, ready, table>>

(* Mutant: the newest row, whether it has a transcript or not. *)
MutantUnclaimed == DOMAIN rows

(* The rows that progress_store made and no report has completed. *)
Unclaimed == {i \in DOMAIN rows : rows[i].transcript = 0}

(* POST /api/cycle-runs: the newest such row of the instance is completed,    *)
(* and a new one inserted where there is none.                                *)
AddCycleRun(of) ==
  rows' = IF Unclaimed # {}
          THEN LET newest == CHOOSE i \in Unclaimed : \A j \in Unclaimed : j <= i
               IN [rows EXCEPT ![newest].transcript = of]
          ELSE Append(rows, [cycle |-> of, transcript |-> of])

(* The POST never throws: it is delivered, or lost, or delivered later. *)
PostCycleRun ==
  /\ Doing("post")
  /\ \/ NoMishap /\ AddCycleRun(cycle) /\ UNCHANGED posting
     \/ Mishap /\ UNCHANGED <<rows, posting>>
     \/ Mishap /\ UNCHANGED rows /\ posting' = posting \cup {cycle}
  /\ Advance
  /\ UNCHANGED <<call, place, current, decision, run, reported, outputs,
                 stray>>

LatePost ==
  /\ \E c \in posting : AddCycleRun(c) /\ posting' = posting \ {c}
  /\ UNCHANGED <<call, place, current, decision, run, report, outputs,
                 stray, mishaps>>

(* A timed-out cycle is counted as one instead of by its type of work. *)
ObserveMetrics ==
  /\ Doing("metrics")
  /\ Count(CASE place = "terminal" ->
                  {"cycles", IF run.terminal.state = "timed_out" THEN "timeouts" ELSE "types"}
             [] place = "preflight_report" -> {"preflights"}
             [] OTHER -> {"failures"})
  /\ Advance
  /\ UNCHANGED <<call, place, current, decision, run, reported, board,
                 buffers, files, recorded, ready, table, mishaps>>
-------------------------------------------------------------------------------
(* After a report. *)

PrepareErrorReported ==
  /\ place = "prepare_error" /\ todo = <<>>
  /\ BeginPreflightReport
  /\ ready' = TRUE
  /\ UNCHANGED <<call, current, decision, run, board, buffers, files,
                 recorded, table, mishaps>>

PreflightReported ==
  /\ place = "preflight_report" /\ todo = <<>>
  /\ IF place \in broken THEN ReportError("decision", AtRest)
     ELSE place' = "preflight_cleanup" /\ UNCHANGED <<report, counts>>
  /\ UNCHANGED <<call, current, decision, run, board, buffers, files,
                 recorded, ready, table, mishaps>>

(* The error of an attempt: the failed stop, else a failure that no abort     *)
(* from outside and no spent budget accounts for.                             *)
Surfaces ==
  LET t == run.terminal
  IN t.stopFailed \/ (t.cause = "none" /\ (t.answer = "absent" \/ "terminal" \in broken))

(* The runner makes failures of timeouts, and of failed states other than     *)
(* limits.                                                                    *)
RunThrows ==
  \/ Surfaces
  \/ run.terminal.state = "timed_out"
  \/ run.terminal.state = "failed" /\ run.terminal.reason = "error"

RunReturns ==
  /\ place = "terminal" /\ todo = <<>>
  /\ IF RunThrows THEN RunThrown ELSE place' = AfterRun /\ UNCHANGED <<report, counts>>
  /\ UNCHANGED <<call, current, decision, run, board, buffers, files,
                 recorded, ready, table, mishaps>>

ErrorReported ==
  /\ place \in {"run_error", "sleep_error"} /\ todo = <<>>
  /\ place' = IF place = "run_error" THEN AfterRun ELSE "cleanup"
  /\ UNCHANGED <<call, current, decision, run, report, outputs, table,
                 mishaps>>

(* The signal is there or not, or the file cannot be read: an error like that *)
(* of a run, whatever the run has come to.                                    *)
SignalRead ==
  /\ place = "signal"
  /\ \/ /\ NoMishap
        /\ place' = "cleanup"
        /\ UNCHANGED <<report, counts>>
     \/ /\ Mishap
        /\ ReportError("sleep", "cleanup")
  /\ UNCHANGED <<call, current, decision, run, board, buffers, files,
                 recorded, ready, table>>

CleanupReturns ==
  /\ \/ BridgeReturns("cleanup")
     \/ BridgeReturns("preflight_cleanup")
  /\ IF Throws THEN ReportError(IF place = "cleanup" THEN "cleanup" ELSE "decision", AtRest)
     ELSE place' = AtRest /\ UNCHANGED <<report, counts>>
  /\ UNCHANGED <<current, decision, run, board, buffers, files, recorded,
                 ready, table, mishaps>>
-------------------------------------------------------------------------------
Next ==
  \/ Launch \/ Wake \/ Abort \/ CleanupTimesOut \/ Kill
  \/ CallBridge \/ BridgeExits
  \/ MaintenanceReturns \/ ConfigReturns \/ PreflightReturns \/ IdleStartReturns
  \/ IdleSkipReturns \/ SetUpRun \/ LateStatus \/ Deliver \/ StoreProgress \/ EndAttempt
  \/ WriteStatus \/ WriteCost \/ CompressTranscript \/ WriteLine \/ PostCycleRun \/ LatePost
  \/ ObserveMetrics \/ PrepareErrorReported \/ PreflightReported \/ RunReturns
  \/ SignalRead \/ ErrorReported \/ CleanupReturns

Spec == Init /\ [][Next]_vars
-------------------------------------------------------------------------------
(* The records of a cycle agree (runner.ts, projections/compatibility.ts): a   *)
(* cycle-run line of an attempt has a cost line before it with the same key,  *)
(* work and outcome, and a compressed transcript of the attempt's events,     *)
(* all of them, whatever earlier attempts left in the sink's buffer; what the *)
(* memory server was told of is in the local file; and a cycle that reported  *)
(* in full is counted once, as what it was.  The task a record names is that  *)
(* of the key it names (work-context.ts:105 and 164), however the attempt's   *)
(* calls overlap, unless it comes from a result that did not say whose it was.*)
RecordsAgree ==
  /\ \A context \in {run.tracker.context, run.terminal.context} :
       context.key # None /\ ~context.unnamed => context.task \in {None, context.key}
  /\ run.terminal # NoTerminal /\ files.line # <<>> =>
       /\ files.cost # <<>>
       /\ LET line == files.line[1]
              cost == files.cost[1]
          IN line.key = cost.key /\ line.type = cost.type
             /\ (line.cycleType = "error" <=> cost.error)
       /\ files.transcript = <<[form |-> "zst", records |-> run.events]>>
  /\ \A i \in DOMAIN rows : rows[i].transcript # 0 => rows[i].transcript \in recorded
  /\ place = "sleeping" /\ broken = {} =>
       IF run.terminal # NoTerminal
       THEN counts.cycles = 1 /\ counts.types + counts.timeouts = 1
       ELSE "decision" \notin reported /\ decision # "run" =>
              counts.cycles = 0 /\ counts.types = 1 /\ counts.preflights = 1

(* A sleeping coordinator is ready, however its first cycle went              *)
(* (runner.ts:523), and shows how its cycle ended: unless a status was lost   *)
(* or late, or the cycle could not report at all, it shows an error exactly   *)
(* if the preparation, the preflight or the run failed, or the sleep signal   *)
(* could not be read after it; the cleanup and a run's idle_start "must not   *)
(* overwrite the status the cycle already published" (runner.ts:586) and do   *)
(* not.  The signal's failure (loop.ts:206) does: a cycle that ran well shows *)
(* as an error for it.                                                        *)
StatusIsHonest ==
  place = "sleeping" =>
    /\ ready
    /\ ~board.missed /\ (decision = "run" \/ "decision" \notin reported) =>
         board.shown = IF \/ reported \cap {"prepare", "run", "sleep"} # {}
                          \/ decision = "error"
                          \/ run.terminal # NoTerminal /\ IsError /\ ~run.terminal.noWork
                       THEN "error" ELSE "idle"

(* A report completes the row of its own cycle (api.py:1135): as long as no   *)
(* cycle left a row unclaimed or a report on its way when the next began.     *)
ReportsFindTheirRow ==
  ~stray => \A i \in DOMAIN rows : rows[i].transcript \in {0, rows[i].cycle}

(* A run uses what its deployment allows (runner.ts:186, "is not in           *)
(* VERTEX_ALLOWED_MODELS"), through a restart with another deployment too:    *)
(* the models OpenCode is given for an attempt are of the selected provider,  *)
(* and on Vertex every one of them is allowed and declared.                   *)
RunIsServed ==
  place \in {"running", "terminal"} /\ selection.runtime = "opencode" =>
    \A model \in Rendered(deployment, selection) :
      /\ model.provider = selection.provider
      /\ model.provider = "vertex" =>
           model.id \in deployment.allowed \cap deployment.declared["vertex"]
===============================================================================
