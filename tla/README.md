# A verification project for Rehor

TLA+ specifications of the parts of Rehor that decide when an agent runs, how one
run ends, and who may run at a time, with the TLC runs that check them on small
instances and TLAPS proofs of what matters most for every instance. Paths are
relative to the repository root.

## The system

| Part | State it keeps | Operations | Modelled |
|---|---|---|---|
| attempt (`coordinator/src/coordinator.ts`) | first abort cause, failure, memoized stop, event offset | `executeRun`, `consumeEvents`, `raceWithAbort` | `Attempt` |
| event ledger (`domain/event-ledger.ts`) | events by id and by sequence, the terminal | `ingest` | `EventRules` |
| usage and budget (`domain/usage.ts`, `CostBudgetPolicy`) | latest snapshot per model, notices sent | `record`, `observe`, `hardLimitReached` | `UsageRules` |
| abort signals (`utils.ts`) | the first cause | `combineAbortSignals` | `Attempt`, `CycleLoop` |
| coordinator loop (`loop.ts`) | cycles, failures, results, the lease | `runCoordinatorLoop` | `CycleLoop` |
| scheduler (`scheduler.ts`) | intervals, error streak, `cycle-sleep.json` | `planForPreflight`, `planAfterRun`, `consumeSleepSignal`, `sleep` | `CycleLoop` |
| admission (`adapters/file-admission.ts`) | a flock helper process | `acquire`, `release` | `CycleLoop` |
| runner (`runner.ts`, `cycle-input.ts`) | the ports given to the loop | `prepare`, `run`, `onDecision`, `onError`, cleanup, readiness | `CycleLoop`, `CycleReports` |
| compatibility projection (`projections/compatibility.ts`) | usage per attempt, completed attempts | `onEvent`, `onTerminal` | `Attempt`, its costs; `CycleReports`, its records |
| compatibility sink (`adapters/compatibility.ts`) | buffered transcripts, files, metrics | `writeStatus`, `writeCost`, `appendTranscript`, `writeCycleRun`, `writePreflightCycle`, `postJson` | `CycleReports` |
| work context (`domain/work-context.ts`) | task, key and type of an attempt's work | `observe`, `enrichTerminal` | `WorkContext` |
| Python bridge (`bridges/python.ts`) | one child process per call | `request` and its operations | `PythonBridge` |
| deployment (`runner.ts`, `runtimes/opencode/render.ts`, `model-defaults.ts`) | nothing | `validateOpenCodeDeployment`, `renderOpenCodeConfigForCycle` | `OpenCodeDeployment`, its models |
| cycle-run reports (`memory-server/bot_memory_server/api.py`, `tools/cycles.py`) | the `cycle_runs` table | `api_cycle_runs_add`, `progress_store` | `CycleReports` |
| OpenCode supervisor (`runtimes/opencode/process-supervisor.ts`) | child, crash signal, the memoized stop, the process group | `start`, `stop`, the exit and output listeners | `OpenCodeSupervisor` |
| OpenCode runtime (`runtimes/opencode/runtime.ts`, `reconcile.ts`) | session, stream, submitted prompts, cleanup | `run`, `stop`, `deliverPolicyNotice`, `cleanup`, `reconcileSession` | `OpenCodeRuntime` |
| OpenCode normalizer (`runtimes/opencode/normalizer.ts`, `reconcile.ts`, `pricing.ts`, `code-mode-bridge.ts`) | sessions, messages, usage per model, turns, nested calls | `normalizeOpenCodeEvent`, `normalizeOpenCodeMessage`, `normalizeCodeMode`, `reconcileSession` | `OpenCodeNormalizer`, `CodeModeCalls` |
| Claude adapter (`runtimes/claude-agent.ts`) | the active run, its query and controller, usage per response | `start`, `run`, `stop`, `AssistantUsage`, `collectResultUsage` | `ClaudeAgent`, in part |
| dispatcher (`packages/agent-dispatcher/`: `index.ts`, `dispatcher-cycle.ts`, `dispatch-sessions.ts`) | reservations, retained sessions, throttles, the drain | startup, cycle, `dispatch`, confirmation, `drain`, shutdown | `Dispatcher` |
| work preflight (`work-preflight.ts`, `input-envelope.ts`) | nothing | `runScript`, `runWorkPreflight`, admission of the envelope | `WorkPreflight` |
| sandbox session (`sandbox-session.ts`) | four remote resources and what is known of each | `run`, `execute`, `cleanUp`, `retryDelete` | `SandboxSession` |
| configuration repositories (`config-repositories.ts`) | the chain of calls, snapshot directories, `current.json` | `syncConfigRepositories`, `syncOne`, `prune` | `ConfigSnapshots` |
| task tools (`memory-server/bot_memory_server/tools/tasks.py`, `task_outcomes.py`, `api.py`) | tasks, outcome reports | add, update, report, archive, pause, unpause, unarchive | `MemoryTasks` |
| outcome classifier (`outcome_classifier.py`) | nothing | the decision from the evidence | `OutcomeRules` |
| Python bot, proxy, dashboard, presets, tooling | files, HTTP | sequential scripts, presentation | no |

**How the parts interact.** The runner starts one loop per process. The loop asks
the admission for a lease (a Python helper that holds a POSIX lock while its stdin
is open), then cycles: the Python bridge prepares and preflights; the scheduler
decides; an attempt runs; a skill of the run may leave `data/cycle-sleep.json`; the
loop reads it, cleans up (which deletes it) and sleeps. An attempt drives a runtime
adapter through `start`, an asynchronous event stream and `stop`, judges each event
with the ledger, hands the accepted ones to the projection, and lets the budget add
notices of its own to the stream or abort. The timeout, the caller's signal, the
shutdown signal, the adapter and the budget can all abort it. The OpenCode
adapter drives a server process of its own through a supervisor, follows its event stream
and reads the session back when the stream breaks. What a cycle comes to is told in many places: the
projection and the runner's hooks write a status, a cost line, a cycle-run line with a compressed
transcript, and counters, and post them to the memory server, in whose table the agent itself makes
a row when it stores its progress. On another host the dispatcher
synchronises the repositories it is configured with, runs the work preflight of each agent
profile, and hands the work to a session that creates a workspace, a profile, a provider and a
sandbox on a gateway, runs the agent there and deletes them again. Agents keep their tasks in
the memory server, whose requests are handled concurrently and which people use through the
dashboard as well.

**What is hard.** `executeRun` and the consumer it races run between each other's
awaits; the consumer goes on draining after an abort; failures are swallowed on
purpose in several places; coordinator notices share sequence numbers with the
adapter; the lock belongs to another process than the loop; a coordinator can be
killed between any two steps; the signal file outlives the process that read it.
The server of a run is a process group whose members may survive their leader, and both the
run and the caller may stop it; its session may go idle for an earlier prompt than the one that
is waited for. Its usage reports are cumulative and built from a stream that may lose events, from
messages read back while the server goes on, and from two lists of nested calls that lag behind each
other. The Claude adapter's stream is a generator that stands still at each `yield`, where the coordinator may leave it. The records of a cycle are
written one await after the other, any of which may fail, over a connection that may deliver late. A gateway may carry out a request it never answered, after a lookup found
nothing; a session whose cleanup is in doubt must keep its agent reserved, and a late
confirmation must not free the next session. A dispatcher may be killed while it replaces the
snapshot of a repository that others read. The memory server makes its decisions on rows
that another request changes before it writes.
`PROJECT.json` lists the hazards at their lines with the properties that cover them.

## The modules

`EventRules` and `UsageRules` are the pure rules: the ledger's verdicts on an event
given the set of events received, the sequence arithmetic, the per-model override
rules, the notice levels and the hard limit. They have no state, and every other
module sees a ledger as a set and a budget as a record.

`Attempt` is one attempt. `pc` is where `executeRun` waits, `consumer` where
`consumeEvents` waits; the code between two awaits is one action.

| Await or region in the code | Place | Actions that leave it |
|---|---|---|
| before the first statement of the `try` | `pc = "begin"` | `Begin` |
| `raceWithAbort(start)` | `"starting"` | `Started`, `StartFailed`, `StartAborted` |
| `raceWithAbort(consume)` | `"consuming"` | `ConsumeSettled`, `ConsumeAborted` |
| the race's cleanup: stop, then the consumer | `"draining"` | `Drained` |
| `await stopRuntime()` in the `finally` | `"stopping"` | `Conclude` |
| `projectEvent` of the coordinator's terminal | `"projecting"`, `"announcing"` | `FinalEventProjected`, `FinalTerminalProjected`, `FinalProjectionFails` |
| `iterator.next()` | `consumer = "next"` | `StreamYields`, `StreamEnds`, `StreamFails` |
| `projection.onEvent`, `onTerminal` | `"event"`, `"terminal"` | `ProgressProjected`, `UsageProjected`, `TerminalHandedOver`, `TerminalProjected`, `ProjectionFails` |
| `projectEvent` of a notice | `"policy"` | `PolicyProjected`, `ProjectionFails` |
| `iterator.return()` | `"closing"` | `IteratorReturns` |

The environment acts in `SignalAborts`, `TimeoutFires`, `RuntimeReportsCause`,
`StartSettles` and `StopSettles`. What an adapter may deliver is a constant: bodies,
and whether it reorders, redelivers, or goes on after its terminal (`Reorders`,
`Redelivers`, `Misbehaves`). When an abort and the awaited operation have both
settled, which of them `Promise.race` reports is left open: the order of microtasks
is an accident of how many promises are chained, and the model allows both.

`AttemptContract` is the specification the loop relies on: one outcome, announced at
most once, the runtime given up before the return, silence after it. `Attempt!ContractSpec`
maps it to the ledger, the projection and the memoized stop.

`CycleLoop` is the loop. `pc[c]` is where coordinator `c` waits (for the lock, in
`prepare`, in the decision hook, in the run, reading the signal, in the cleanup,
asleep, in `release`); `helper[c]` is its helper process; `file` is the signal file;
`orphan` a helper that a killed coordinator left. An attempt is one step, either a
result (`RunReturns`) or an exception (`RunFails`); `AttemptReturns` justifies that it
ends. Mishaps (a failing unlink, read or cleanup, a killed helper, a killed
coordinator) happen at most `MaxMishaps` kinds to a behaviour, as often as they like.
`requested` and `mishaps` are history variables that only properties read.

`WorkPreflight` holds what a preflight makes of its scripts: the status, the text handed on and
whether a session may be dispatched with it. `Dispatcher` composes it with the process
(`startup`, `exitCode`, `drain`), the loop (`loop` and `at`, where it is in the repositories and
profiles; `token`, the credential) and the sessions (`reservation` by agent, `session` with its
phase). The code between two awaits is one action: `RepositoryHead` is the loop's test of the
signal and the call that synchronises, `ProfileHead` the in-flight and throttle tests, `Dispatch`
the admission and the reservation in one turn of the event loop. `age` counts the ticks since a
profile was last checked, up to the interval. A session here only ends, with a completion;
`SandboxSession` says when.

`SandboxSession` is `run` and what it calls, against a gateway: `pc` and `on` name the step and
the resource, `state` is what the session believes of each resource, `gateway` what there is
(absent, ours, another's), `pending` the requests that were sent and may still take effect. A step
that answers, one that leaves its effect in doubt and one that refuses are three actions.
An abort interrupts the step that waits (`StepAborted`) and is no mishap. It stops a create before its request is sent, where
the code tests the signal first; the profile's create has no such test, its state is `"unknown"` and no request leaves. `strangers`, `doubtful`
(the cleanup began with a create unanswered) and `mishaps` are history variables. A policy or an answer is compared as
a whole: ours, another's, or none.

`ConfigSnapshots` is the synchronisation of one repository: `chain` is the chain of promises in
`pending`, `pc` and `job` are the running `syncOne`, `dir` and `current` the files, which outlive a
process (`Killed`). A directory is absent, partial, whole or touched, and old or not; the clone, the
checkout and the submodules are one step, since nothing reads the directory between them. `heads` is a
history variable: the HEADs of the remote since a call was made.

`OutcomeRules` is the classifier and the view that shows it. `MemoryTasks` is the table of tasks and
the reports: a handler that reads and writes in one statement or under a row lock is one action, one
that does not is two (`AddCounts` then `AddInserts`; `RestoreReads` then `RestoreWrites`), and
a request may be lost between them. Tasks share a key as their sources do.

`OpenCodeSupervisor` has no specification of its own: its variables are the child, the
stop in progress, the process group and the state directory, whose removal may fail wherever a stop forgets the child (`RemoveDirectory`;
the history variable `masked` remembers that the failure took the place of a leak). Its actions are composed by `OpenCodeRuntime`, where `pc` is the
await of `run`, `stopCall` the caller's `stop()`, `log` what the server did to the session, and `seen`
how far the client has followed it. `read` is what a reconciliation has fetched: the messages, the
session and the active list are three requests, answered in any order and at different times.

`CodeModeCalls` is the pairing of the two lists that report the nested calls of a tool; it has no
specification of its own and is composed by `OpenCodeNormalizer`. There `scene` is what the server does, `logged`
how much of it has happened, `store` its messages, `context` the normalization context with the last report per
model and the turns counted, `recovery` the state of `reconcileSession`: which sessions it has visited,
whose messages it is fetching and whose children it is listing. A list is read with any number of
messages or pages, while the server goes on. A message's usage is one number of tokens, priced at one. `since` (how much had
happened when the recovery began) and `cut` (a list was given up with pages left) are history variables.

`CycleReports` is the coordinator as it reports: `place` is where it is between its bridge calls, its run and its
reports, `todo` what is left of the report being written, `board` the status that is shown and the one a slow POST may still bring,
`files` what the cycle has appended to the data directory, `rows` the memory server's table with the cycle that made a row and the one
whose report completed it (0 for none), `posting` the reports whose POST timed out. One action writes one record, and each can fail. Between the run and the cleanup
an unaborted loop reads the sleep signal (`SignalRead`), and a failure of that is reported as one of the run is (`ErrorReported`). The
plan of `CycleLoop` and the inside of an attempt are left out: `EndAttempt` is any terminal that `Attempt` allows.
It is composed of three modules without a specification of their own. `PythonBridge` is the call under way: requested, aborted,
its child gone, its answer judged. `WorkContext` is the tracker that reads a task, a key and a type of work off the
agent's tool calls. `OpenCodeDeployment` compares the validation of a deployment (`Serves`) with the models that are
rendered from it (`Rendered`), each resolving the small model by itself.

`TypeOK` in `CycleLoop` and `OpenCodeRuntime` documents their variables; no run states it.

`ClaudeAgent` is one run of the Claude adapter, from `start()` to the end of its stream, beside the coordinator
that reads it. `place` is where the generator is: between the steps of the adapter it is `"suspended"` at a `yield`, with the
events it has still to yield in `todo` and the place it then goes to in `after`; `"reading"` is the loop over the SDK's messages,
`"closing"` the exit from that loop, which closes the SDK's iterator, `"abandoned"` a generator suspended
in its catch block with nobody to resume it. `query` is the SDK query, `signal` the coordinator's signal, `controller` the run's own.
`accepted` is what the coordinator makes of the stream, by the rules of `UsageRules`. `heard`, `result` and `left` are
history variables, from which `Owed` says what the usage of the run is.

The definitions named `Mutant...` are the plausible mistakes the properties are tested
against; no specification uses them. The `MC...` modules only give constants.

## The runs

| Run | Instance | What it shows |
|---|---|---|
| `attempt_faults` | budget 20, one model, 3 numbered events out of 5 bodies, any order, redelivery, second terminals, every failure and abort | one outcome, honest blame, honest silence, the contract, and that every attempt returns |
| `attempt_orderly` | two models, 4 events out of 7 bodies around the thresholds, in order | the hard limit stops, spend is announced, the adapter is not rejected, the cost record is complete |
| `cycle_loop` | one coordinator launched twice, limits none and 2, intervals 1 and 2, every mishap, two kinds at most | a loop sleeps as its run asked, and stops when told to |
| `cycle_contention` | two coordinators, three launches, kills | one at a time, and the lock comes free, also from the helper that a killed coordinator leaves |
| `dispatcher` | two agents, each in a repository of its own, three sessions, nine preflights | one session per agent, a clean exit means nothing unresolved, every repository is reached in turn, a shutdown ends |
| `sandbox_session` | every request answered, refused, timed out or carried out late; three mishaps | a completion is true of the gateway, children before the workspace, strangers left alone, the agent of a gateway without mishaps is freed wherever the abort came, an aborted session ends |
| `memory_tasks` | three sources of one key, two requests in flight, limit one, two reports, four changes | a staged report is fresh, archives rest on evidence, an accepted outcome is earned, the limit is overrun by no more than the concurrency |
| `config_snapshots` | two callers, two revisions, three directories, failures, pushes and kills anywhere | what is published is complete, what is returned is fresh and whole, every call settles |
| `opencode_runtime` | a prompt and a notice, crash, fork, stream failure, recovery and stop at any point | no process survives in silence (what a failed removal of the state directory puts in the leak's place is still a failure), a completed run was earned, a stop ends the run |
| `opencode_normalizer` | four scripts of 6 to 8 server events, lost, repeated or late, recovery with any page and any failure; a tool with three nested calls | reports follow the messages, a complete recovery is exact, every nested call has one identity |
| `claude_agent` | two models, responses with one id or none, three messages, every form of result, an SDK that ends, throws or does not close, and a coordinator that leaves, aborts or stops at any point | the ledger ends with the usage of the run, no query is left open after a stop, an abort ends the stream |
| `cycle_reports` | two cycles, a relaunch with another deployment, three events with two overlapping tool calls, four deployments and three selections, one failure of any write, POST, read of the sleep signal, bridge process or of the coordinator, an abort anywhere | the records of a cycle agree, the status is honest, a report finds its row, a run uses the models it may |

**Bounds.** `MaxEvents = 3` is enough for a notice between two events of the adapter and
a redelivery of either, for a terminal followed by a second terminal and by late usage,
and for two snapshots; 4 in order reach three notice levels and the hard limit by the sum
of two models. A budget of 20 puts the amounts 10, 15 (16), 18, 20 (21) and 23 on and
past every threshold. `MaxStreak` saturates the count of errors past the cap of the
backoff; `MaxBackoff = 3` is reached from both intervals. Two launches are the least in
which something outlives a process, three the least in which two coordinators and a
restart meet. Without a limit the loop's counters decide nothing and are left alone,
which keeps an endless loop finite.
One session more than agents lets a handle of a finished session meet a later session of the
same agent; an interval of one tick tells a throttled profile from one that is due. Three mishaps
let a create be in doubt, the delete of the resource be in doubt too, and the retry after it
fail. Two requests are the least that interleave, three sources let two of them be active
at the limit while a third is added; four changes pause, complete, archive and restore a task.
Three directories hold the published snapshot, the one that is made and one that a kill left; two revisions
let the HEAD move and move back.
Three messages repeat a response and leave one beside it, under either model.
Two prompts let the end of one be taken for the end of the other.
The event scripts hold what the accounting depends on: a message that moves to another model, a child of a child, a step
that is taken again, two compactions that spend the same, one that fails; three nested calls are the least in which
a repeated call has one of another kind, or one that the bridge cannot see, between its repetitions.
In `CycleReports` two cycles are the least in which one leaves something to the next, one buffered transcript the least that is
evicted, two rows what an agent that stores progress twice makes; `MaxMishaps = 1` because a second failure mostly ends what
the first began. The dashboard's URLs are configured, and a row is reported on within the two hours the
server looks back.

**Fairness.** `Attempt!Fairness`: `executeRun` resumes when what it awaits has settled
(the event loop); the timeout goes off; a `stop()` that was called settles (the adapters
bound it); a projection's promise settles; a stopped runtime closes its stream, and
`iterator.return()` settles. There is none on `start()` nor on the stream of a runtime
that nobody stopped: they may hang, and `AttemptReturns` says that it does not matter.
`CycleLoop!Fairness`: whatever a loop awaits settles (the attempt returns, timers fire; a call of the
Python bridge ends with its subprocess, which the bridge terminates on an abort, and is assumed to end) and a helper locks or, when its stdin closed, unlocks.
There is none on aborts, crashes or launches.
`Dispatcher!Fairness`: while the process lives, startup, the loop's current await and the drain go on,
and a session ends once it was aborted, which `ShutdownEndsSession` shows of `SandboxSession`; nothing is
assumed of confirmations, signals or the deadline. `SandboxSession!Fairness`: the session's own steps,
because every call has a deadline; the runner and the gateway owe nothing. `OpenCodeRuntime!Fairness`: an
aborted run's awaits reject, the supervisor's timers fire, a stop in progress settles; the server and its processes owe
nothing. `ClaudeFairness`: the coordinator goes on asking or leaves; a query that was
closed, or whose controller was aborted, ends sooner or later; closing an iterator settles, well or badly. With it `StopEndsStream` is what `Attempt!Fairness`
assumes of a stopped runtime. The SDK owes nothing before an abort. `ConfigSnapshots!FairSpec`: the running call goes on, because Git commands
have timeouts; a remote that answers, a push or a kill is not assumed. `MemoryTasks`, `OpenCodeNormalizer` and `CycleReports` state none. `CHECK_DEADLOCK` is off for `memory_tasks`, whose
reports and changes are bounded, and `cycle_reports`, whose last cycle is followed by none; elsewhere steps such as `Finished`, `Done`, `Gone`, `Over` and `RecoveryOver` are the only ways to stop.

## The proofs

All are for every value of the constants that meets the named assumptions
(`BudgetAssumption`, `AttemptAssumption`, `LoopAssumption`, `DispatcherAssumption`,
`SessionAssumption`, `SnapshotAssumption`, `OutcomeAssumption`, `MemoryAssumption`, `RuntimeAssumption`, `ReportsAssumption`, `WorkAssumption`, `DeploymentAssumption`, `NormalizerAssumption`, `ServerAssumption`, `ClaudeAssumption`): any number of models, events, bodies,
coordinators, agents, repositories, sessions, tasks, requests, reports, prompts, messages, nested calls and cycles. `SessionAssumption` wants a bound on the mishaps
of at least one: where none can be recorded, one that happens would pass for none.

`AttemptProofs` proves `Spec => []IInv` with `IInv == Typed /\ Controlled /\ Decided /\ Blamed`.
The safety properties are not inductive: that no second terminal can be accepted after the
coordinator's own depends on the consumer being over, which depends on how each place of
`executeRun` was reached. `Controlled` therefore ties every `pc` to what has settled
(a drained or settled consumer, a stop that was called, a start that succeeded before the
consumer could run); `Decided` says the ledger's terminal is unique, sequences are unique,
and how many announcements there have been in terms of `consumer` and `pc`; `Blamed` that
terminals name the first cause and that a failure has a cause from the `finally` on. One lemma
per action group, one step per conjunct. The invariants follow from `IInv`, and `CleanReturn`, which no run states because `ContractSpec` implies what matters of it.

For `SilentMeansClean` it adds `Honest`: which failure each error of the
consumer leaves, by the place of `executeRun`.

`OutcomeAnnounced` (in `AttemptProofs`), `ResultIsHonest` (in `CycleLoopProofs`), `DrainedStaysEmpty` and `FailureLeavesNothing` are proved only: no run states them.

The same module proves `Spec => ContractSpec`: the initial state maps to the
contract's, `Yield` of a terminal and `Conclude` map to `Decide`, the hand-overs to `Announce`,
`StopSettles` to `Release`, the return to `Return`, and every other step leaves the mapped
variables alone. It uses the invariant for the uniqueness of the terminal and for silence
after the return.

It proves the two properties of the orderly attempts, `BudgetIsEnforced` and `AdapterIsHeard`, each from its two
halves. `HardLimitStops` and `SpendIsAnnounced` (`Limited`, `Announced`) need that the budget does not change between the
observation of a snapshot, its notices and the comparison with the limit; `NoSpuriousRejection` and
`CostRecordComplete` (`Ordered`, `CostKept`) that an adapter which neither reorders, redelivers nor
goes on after its terminal is always ahead of what the ledger holds. The first two hold of every adapter;
the others have `~Reorders`, `~Redelivers`, `~Misbehaves` as hypotheses, as the runs' constants do,
and `CostRecordComplete` also that an empty ledger costs nothing, which is the value of a fold.

It has the two invariants of the Claude adapter too, whose stream an attempt reads. `NoQueryLeft` follows from `QueryInv`: at which
places of the stream a query may be open, and that a run stopped while it was active has its controller
aborted, so that a query made after that is stillborn. `SpendReachesLedger` needs `SpendInv`: `UsageKept`, that the adapter
holds for each response the last that was said of it and counts the anonymous ones; `Beginning`, that nothing reaches the ledger
before the run ends; and `Concluding`, where the stream is `Telling` (each model's entry is what is owed or its event is still to come,
and the terminal is the last) or has `Told` (what still comes is dropped). The snapshots and what is owed are sums of the same function, so
that no sum has to be computed; that a sequence made of a set holds its elements is `SeqOfSet`, and wants finitely many models.

`CycleLoopProofs` proves `OneAdmitted` from `LockHeld`: a lock is held by at most one helper,
orphans included, and unless a helper was killed a coordinator in a cycle holds it;
`ResultIsHonest` from what the counters are at each place of the loop (`Counted`, `CountedAt`); and
`SleepsAsRequested` from which run the signal file belongs to (`Owned`, `SignalOf`) and the delay
each place has scheduled (`Scheduled`).

`DispatcherProofs`: `IInv == TypeOK /\ Standing /\ Slots /\ InOrder`. `Slots` says that a reservation and
the session it names point at each other, which makes the test of a late confirmation sufficient;
`InOrder` in which order startup, loop, drain and waiter may be over, from which a drained dispatcher
stays empty and a clean exit leaves nothing behind.

`SandboxSessionProofs`: `TypeOK /\ Creation /\ Honest /\ Progress /\ Deletes /\ ChildrenFirst /\ Strangers /\ Clean`.
`Honest` ties what the session believes of a resource to what the gateway holds and to the requests still
pending, `Progress` each place of the cleanup to the resources already gone, `Deletes` bounds the pending deletes to what the
cleanup has come to. `Clean` is the other direction of `Honest`, which only a session without a mishap and without a create in doubt has: what the record
calls created or unknown is at the gateway, or is being removed, so that the cleanup finds what it looks for and
`CleanGatewayReleases` follows. An abort is not a mishap, so that the theorem covers one at every step but two: in the midst of a create, which
the gateway may still carry out, and before the profile's, which the record does not tell from that. Both may leave the agent reserved.

`ConfigSnapshotsProofs`: `FilesOK /\ CallsOK /\ Chained /\ Working /\ CurrentIsComplete`. `Working` says for each place
of the running call what its directory is, so that neither the pruning of a call nor its cleanup can reach what
`current.json` names; `Chained` that the revision a call wants was the remote's HEAD since the call was made.

`MemoryTasksProofs`: `TypeOK /\ Classified /\ StagedReportIsFresh /\ ArchivedOnEvidence`;
`Classified` is that a report's stored outcome is the classifier's, which `AcceptedIsEarned` reads.
`OverrunIsBounded` is an argument about cardinalities: each overrun is one of the requests in flight.

`OpenCodeProofs`: `TypeOK /\ Shared /\ Accounted /\ Kept /\ Reading`, over the run, the supervisor it shares with `stop()` and the
processes of the server. `Shared` says who awaits the stop that is under way; `Accounted` that a process group without a
child that the supervisor knows has been reported or is about to be, which is what makes `NoSilentSurvivor` inductive: the group
may outlive its leader between any two steps of the escalation. Where the removal of the state directory fails, that failure is what is reported
(`masked`), and the invariant keeps that it was raised by `start()`, the cleanup or `stop()`. `Kept` says where each failure is kept until it is
raised. `CompletedIsEarned` is an action property: of the two ways a run completes, the stream's is earned by
the entry just seen, the recovery's by the messages it read, which `Reading` ties to the log.

The same module proves the three invariants of the normalizer. `ReportsFollowMessages` is kept by
every event and every message read back once it says more (`Follows`): a model that has lost its messages must be among the `retired`
ones, because its zero is priced or not by the messages of the others. `OneIdentityPerCall` rests on
`CallsInv`: the rows held of either list are the first of the server's calls, a row once ended stays so, and an identity that was given stays with
its call (`Identified`), whichever row brought it. That repeated calls of one tool are paired in order is `PairedRight`: the k-th row of the bridge can only go with the
k-th call it saw. Both are about recursive functions (`Processed`, `Paired`): where an
induction would be natural the proofs take the least place at which the claim fails (`LeastNumber`), and that the recursive function
exists is proved in the same way (`ReadExists`). Neither asks anything of the server.

`RecoveredUsageIsExact` does. The assumption `ServerAssumption` says of each script in `Scenes` that it is `Orderly`: a session is created
before anything happens in it, by one that is there; a message has one kind and an id of its own; a session has one
compaction at a time, one that has ended is over, and the event of an end has an id of its own. The OpenCode server is an external program; these
are what the adapter relies on where it keys a message by session and id, keeps one active compaction per session (`activeCompactions`), lets an end
without a name make up a key (`normalizer.ts:312-317`), and follows a session because its parent is followed. TLC evaluates the assumption on the scripts of the
run. The property is not true of every server: a session that no visited session lists as a child is never read. `RecoveryInv`, which TLC has checked on the instance of the run, has three layers:

- `StoreRight`: the server has one message for every event about one, and an ended compaction is what its end says;
- `StreamRight`, while the stream lasts: everything known is a message the server has, or a stand-in for a
  compaction of which nothing else is known, and a known compaction that has yet to end is the active one of its session. That is what makes
  a missed start, a missed end and a repeated event harmless: a stand-in is never made beside the message it stands for;
- `RecoveryRight`, while nobody adds to the sessions: `Matched` says that there is an injection of the stand-ins into the
  server's messages that are not known yet, to an equal one of the same session, so that each message read back
  finds its stand-in, or another one's that is the same, and every stand-in is gone at the end (two compactions that came to the same are interchangeable,
  which is why it is an injection and not the identity of each that is kept). `Covering` says that the children of a visited session are
  visited or still to be listed, and that a visited session whose messages are not awaited has all of them read.

At the end nothing is awaited, so the visited sessions are closed under children. Every session that has a message is then visited (`AllVisited`: of those that are not, the one with the earliest
event was created by one that is), every message is known as it is (`CoveringKnows`), and `ReportsFollowMessages` carries
that to the reports; the turns are those of a set of counted keys (`Counts`, `TurnsBounded`).

`CycleReportsProofs` has the four invariants of what a cycle leaves behind, over any number of cycles, buffers and rows. Its `IInv` has fifteen parts: five for types,
`Decided`, `Attempted` and `Served` for what the cycle has settled before it runs, `RowsOwned` for the rows of cycles, `WorkOk` for the work
context through any sequence of overlapping tool calls, and `Buffered`, `Written`, `Recorded`, `Counted`, `Shown` for what each writer has left
when the report is at a given stage. The stages are ordered (`Stages`), every writer moves
the report one stage forward (`StageAdvances`, `WritersWrite`), and each part of the invariant says from which stage
on its record is there. `RowsFound` needs that the row a report completes is the newest running row of its key:
that one exists is a fact about the last position of a sequence, proved by a
least element and not by induction (`LatestExists`). `RecordsOfACycleAgree` needs that the buffer never evicts the
transcript of the cycle being reported (`Appends`).

**Only model-checked.** The liveness properties (`AttemptReturns`, `ShutdownStops`,
`LockComesFree`, `EveryRepositoryServed`, `ShutdownSettles`, `ShutdownEndsSession`, `CallsSettle`, `StopEndsRun`, `StopEndsStream`):
liveness under fairness is out of the prover's reach. Every invariant and every other action property that a run checks is a theorem.
That preflight errors back off by doubling follows from one definition (`Backoff`), and no property says it again.

## What the models found

Observations that no run states as such; where one limits a property, its comment says so.

- A sleep signal survives an interrupted run whose cleanup failed, and the next coordinator takes it for that of its own
  run (`loop.ts:201`), where `coordinator/README.md:449-451` says that the signal is read and removed "so stale recommendations
  cannot affect a later cycle". `SleepsAsRequested` is stated for behaviours in which no more than an unlink fails.
- A run that completed, or had no work, is shown as "idle" and then as "error" when its cost or cycle-run record cannot be
  written: the projection's failure becomes that of the run (`runner.ts:586-603`). Under an abort from outside or a spent budget such a failure is
  reported nowhere.
- A sleep signal that cannot be read (`loop.ts:201-208`) shows a cycle that ran well as "error" (`runner.ts:588-596`), in spite of the
  comment at `runner.ts:586-587`: "Housekeeping and reporting failures do not change the cycle outcome, so they must not overwrite
  the status the cycle already published." `StatusIsHonest` counts that failure with those of the preparation, the preflight and the run.
- A run whose setup fails leaves an error status and no record in the data directory; a failing `idle_skip` leaves the status of
  the cycle before and no record either.
- The report of one cycle completes the row of another when an earlier report was lost or late, or when progress was stored
  twice, although the comment at `api.py:1136-1138` speaks of a row "created by progress_store during the same cycle". `ReportsFindTheirRow` leaves
  such cycles out (`stray`).
- A status whose POST timed out may still arrive and replace a newer one until the next is written (`missed`).
- A result of `progress_store` that names no key is taken for the task of the current one (`work-context.ts:171`), which
  `RecordsAgree` leaves out (`unnamed`); selecting another key without a repository keeps the repository of the one before.
- The validation of a deployment looks at the selected model and the small model. The models that native agent definitions name are
  restricted to the provider, and not to `VERTEX_ALLOWED_MODELS`; the small model of a gateway need not be declared. The
  model id is what follows the last slash in the validation (`runner.ts:173`) and the first in the rendering (`render.ts:665`).
  The intervals of a cycle whose deployment is then refused are already in force (`runner.ts:418`).
- An event delivered again after a budget notice is renumbered by the notices inserted since its first delivery and is
  rejected as a conflicting duplicate (`coordinator.ts:382`), where `coordinator/README.md:105` says that a semantically equal
  event is accepted once. `NoSpuriousRejection` is stated for adapters that deliver an event once.
- The Claude adapter says nothing of its usage before the SDK's result, and without one nothing that has a cost: the budget
  of a run in progress (`coordinator/README.md:126-131`) can neither warn nor stop it, and a notice is queued only when no tool is
  going to flush it, where `docs/migrations/opencode-migration.md:126` describes notices as flushed by the `PostToolUse` hook.
- A Claude run that failed on its own is given the reason of an abort that came while its usage was being yielded
  (`claude-agent.ts:342`).
- A contract error during the drain of a budget abort is discarded with the consumer's error and leaves none in the
  result, against the comment at `coordinator.ts:178` that malformed events remain visible. `SilentMeansClean` allows for it.
- Usage accepted after the terminal, from an adapter that delivers out of order, counts for the budget and not for the
  cost record: the projection has closed the attempt (`projections/compatibility.ts:50`). `CostRecordComplete` is stated for
  adapters that deliver in order.
- `prune` removes superseded snapshots by their age, which counts from when they were made: one that was current for
  an hour has no grace period (`config-repositories.ts:103`) left when it is superseded, and the comment on
  `syncConfigRepositories` that published snapshots are never removed does not mention it. A `current-*.tmp` that a kill
  left is never removed.
- The lock of a running loop is gone when its helper alone is killed: `OneAdmitted` is
  stated for behaviours without that mishap.
- OpenCode's `cleanup()` keeps the first of its failures only: a leak that the supervisor finds after another
  step of the cleanup failed, or after the consumer left the stream, is not flagged as `resourceLeak`, which
  `domain/terminal-state.ts:28` describes as "True when runtime cleanup detected a child/process-group leak."
  `NoSilentSurvivor` therefore counts an earlier failure of the cleanup as a report.
- A state directory that cannot be removed hides a leak: the `rm` in the `finally` of `stopInternal` (`process-supervisor.ts:374-387`), which
  a surviving process that still writes there can make fail, replaces the `OpenCodeProcessLeakError` once the child is forgotten, and a
  later `stop()` finds nothing to stop. The terminal then lacks `resourceLeak`, against the same line of `domain/terminal-state.ts`.
  At `process-supervisor.ts:308` the error replaces that of the startup as well. `NoSilentSurvivor` asks in that case (`masked`) that `start()`, the cleanup or
  `stop()` failed with something.
- `SandboxSession.run` settles every error of its own, so that the dispatcher's handler for a
  session that rejects (`index.ts:156-159`) has nothing to do.
- Pausing, unpausing and unarchiving by key change every source of the key, and none of them
  tests the limit of active tasks (`OverrunIsBounded` counts them as `resumed`); the status that an unarchive restores
  is that of `_restore_status_from_row`, which `docs/OPERATIONS.md:342` simplifies.
- A child listing that reaches the deadline of the recovery with pages left (`reconcile.ts:198`), or a list of messages at an abort
  (`reconcile.ts:45`), does not mark the recovery incomplete, where `docs/migrations/opencode-migration.md:813` expects
  unrecovered usage to be marked. `RecoveredUsageIsExact` leaves these behaviours out (`cut`).
- When the end of one compaction and the start of the next are both missed, the next end is taken for that of the first: only a
  complete recovery puts it right.
- A text part that the stream missed is appended after later ones when it is recovered (`normalizer.ts:606`, `957`).
- A grandchild whose creation came before its parent's is followed and not announced on the stream; a recovery announces it.

## What is not modelled

In the modelled parts: schema validation and run attribution of events; tokens, rounding and floating
point (amounts are whole); progress logging and redaction; that a terminal redelivered
after a late tool event may be enriched differently and is then a conflict, not a duplicate; a caller's
signal that carries a timeout of its own; the sleep port of the loop failing for another reason than an abort;
agent subprocesses that outlive a killed coordinator; the memory of the projection across attempts (it
forgets completed attempts after 1024); signals that the system refuses to deliver to the server's process group.

Parts left out, each with its reason in `PROJECT.json`:

- of the OpenCode normalizer, text and reasoning parts, the rows of other tools and the work context; of the Claude
  adapter, the options and environment of the query, what the parts of a message say, the durations of tools and the queue of
  notices; the rendering of configuration and environment beyond the models, which only fails;
- what the Python side of the bridge does, the idle reminder, the parsing of the command line, logging;
- the dispatcher's YAML, TLS and RPC plumbing, which succeed or fail as one step;
- in `CycleReports`, a bridge process that outlives a killed coordinator, which its parent's lock does not wait for;
- the memory server's other tools, the proxy executor (stateless handlers), the dashboard (presentation),
  presets, skills and tooling.
