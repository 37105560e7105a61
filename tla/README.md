# Verification of FutureOS' run control and scheduled tasks

TLA+ models of how the FutureOS agent (`agent/`) accepts, queues, starts, stops
and closes the runs of a session, stores their events, asks for approvals and
shuts down, and of how the host (`host/`) fires scheduled tasks; model-checked
with TLC and, for the greater part, proved with TLAPS for every size of the
system.

## 1. The system

FutureOS is one Rust agent process with several front ends (terminal, desktop,
mobile, chat channels) that reach it by gRPC. A client opens *sessions*; a
session executes one *run* (a prompt and the model and tool turns it causes) at
a time. Everything about a run that can go wrong while nobody looks happens in
the control around it: the queue it waits in, the lease it holds, the task that
executes it, the stop commands and timers that interrupt it, and the records in
SQLite from which a later process knows how it ended.

### Inventory

| Component | State | Operations | Interacts with | Hard behaviour | What makes it correct | Status |
|---|---|---|---|---|---|---|
| Run control, `runtime/run_state.rs` | active run (lease, request id, phase, cause), epoch, window of recent requests | begin, install_cancellation, cancel_expected, begin_finalizing, mark_stuck, mark_persistence_degraded, finish | called under short locks by everything below | stops racing the finalizing fence; stale leases | one run at a time; an accepted stop shows in the outcome | modelled |
| Session runtime, `runtime/session_runtime.rs` | task slot, cancellation timer, completion channel | begin_scheduled, spawn, completion monitor, request_cancellation, recover_persistence_degraded, finish_cancelled_fault | run task, scheduler worker, stop commands | monitor, timer, task and commands in any order; panics | no second writer; one completion per run; stops are resolved | modelled |
| Run queue and budget, `runtime/scheduler_queue.rs`, `run_request.rs` | per session: queued, parked and active rows, identities, acknowledgements; shared: count and bytes | accept, supersede, start_next, drain_coalescing_after_first, finish_active, cancel_*, park_stale, release_held | session scheduling | limits, eviction, retries, parking and folding mixed | every prompt in one place; acceptance order; exact accounting | modelled |
| Session scheduling, `rpc/session.rs`, `rpc/session_prompt.rs` | scheduler, execution snapshots, completion worker, journal health | enqueue, start next, drain after a run, cancel queued, abort, recover | all of the above and the store | completion lag, failed starts, storage faults, crashes | nothing lost, started twice or stranded | partly |
| Queued receipts, `session/queued_receipts.rs`, `session/manager/mod.rs` | `queued_run_receipts` | record, cancel, recover receipts; append_run_start | session scheduling, process start | crash between any two writes | an outcome for every accepted prompt | partly |
| Run journal, `session/run_journal.rs`, `session/manager/mod.rs`, `session/content/recovery.rs` | `run_started`, `run_terminal`, `run_stop_requested` entries of a session | append_run_start, commit, repair, stop marker, settle_run_if_unfinished, recovery at start | run task, stop and shutdown commands, process start | marker threads, repairs and recoveries in any order, crashes | one open run; final outcomes; a stop is never undone | partly |
| Broadcaster and event journal, `rpc/broadcaster/`, `session/content/journal.rs`, `stream.rs` | admitted counter, per-run indices, writer thread with a body and a control channel, receipts, stream cursors, health | broadcast, flush, recover, publish a committed terminal, shut down | run task, session recovery, shutdown, subscribers | batches, refusals, retries and barriers in any order; a terminal committed elsewhere | true receipts; gap-free streams; barriers cover what came before; everybody is answered | partly |
| Approval gate, `rpc/approval.rs`, the tool loop of `agent/mod.rs` | pending requests and their waiters | register, decide, cancel by stop or shutdown, invalidate | tools, clients, stop commands, reviewer, shutdown | a decision racing a stop, a later run or a failing journal | no waiter forgotten; no effect on an approval whose record failed, or after a stop | modelled |
| Service start-up and shutdown, `service/` | admission, guard counts, revision, drain stage, report | enter, close, idle reservation, drain, deadline, retire | every command, session and worker | work that straddles the end of admission | a clean report means quiet; the drain ends; queued prompts get an outcome | partly |
| Scheduled tasks, `host/src/tasks.rs`, `host/src/tasks/service.rs`, `orchestration/tasks/` | task rows, run ledger, live-run registry | tick (reap, list, claim), execute, edit, stop, restart | agent by gRPC, panel, phone, CLI | whole-row writes from stale copies; crashes between two statements | no overlapping runs; a slot fires once; tasks keep moving | partly |
| Goal orchestration, `orchestration/goal/` | goals, todos, leases, event ledger | claim, heartbeat, complete, validate | agent by gRPC | expiring leases, concurrent workers | a todo has one holder | not modelled |
| Run loop otherwise, model adapters, compaction, sandbox, review, content tables, command parsing, fusion | | | | | | not modelled |
| Front ends, channels, rest of the host, remote packages, benchmark, harness | | | | | | not modelled |

`PROJECT.json` lists the same components with their sources, and under
`hazards` every place of this code that is hard to test, at its line, with the
properties that would notice it going wrong.

## 2. The modules

| Module | Models | Used by |
|---|---|---|
| `RunLifecycle` | what a session's runtime promises its scheduler (abstract) | `SessionRuntime` (refinement) |
| `SessionRuntime` | run control and session runtime, the run task's steps to its terminal, stop and recovery commands | `MCSessionRuntime`, `SessionRuntime_proofs` |
| `SessionRuntime_proofs` | the theorems about `SessionRuntime` | |
| `RunQueue` | the queues of all sessions and the shared budget | `MCRunQueue`, `RunQueue_proofs` |
| `RunQueue_proofs` | the theorems about `RunQueue` | |
| `SessionScheduler` | one session's scheduling over queue, runtime, worker and store, with crashes | `MCSessionScheduler`, `SessionScheduler_proofs` |
| `SessionScheduler_proofs` | the theorems about `SessionScheduler` | |
| `RunJournal` | one session's run markers and all who write and read them, in both storage formats | `MCRunJournal`, `RunJournal_proofs` |
| `RunJournal_proofs` | the theorems about `RunJournal` | |
| `ApprovalGate` | the pending map, the tool loop before it, deciders, stops, reviewer and the shutdown's release | `MCApprovalGate`, `ApprovalGate_proofs` |
| `ApprovalGate_proofs` | the theorems about `ApprovalGate` | |
| `ServiceShutdown` | admission and work accounting, the updater's idle reservation, deadline and drain over commands, runs, children, monitors, workers and timers | `MCServiceShutdown`, `ServiceShutdown_proofs` |
| `ServiceShutdown_proofs` | the theorems about `ServiceShutdown` | |
| `EventJournal` | one segmented session's event writer, its channels, store, barriers, and the terminal's publication | `MCEventJournal`, `EventJournal_proofs` |
| `EventJournal_proofs` | the theorems about `EventJournal` | |
| `ScheduledTasks` | the tasks store, the host's tick loop, the executors and the edit commands | `MCScheduledTasks`, `ScheduledTasks_proofs` |
| `ScheduledTasks_proofs` | the theorems about `ScheduledTasks` | |

The agent's modules meet at named seams: `SessionScheduler` uses the runtime
through the phases of `RunLifecycle`; `ApprovalGate` has the phases and the
interrupt flag of `SessionRuntime`'s stop; `ServiceShutdown` sees a run as its
guards; the health flag of `SessionRuntime` and `SessionScheduler` is what
`EventJournal` computes. `ScheduledTasks` sees the agent as a prompt that is
answered some time, or never.

Definitions with a suffix after an underscore (`BeginScheduled_NoSlotCheck`) are
mutants: a plausible bug in the definition they stand beside. They are used by
no action; replacing the definition by its mutant must make the property that
`PROJECT.json` names fail.

### SessionRuntime

A lease is its epoch. Each critical section of the code is an action, and
whatever can happen between two critical sections happens between two actions:

- `BeginScheduled`, `Spawn` and `StartFails` are the parts of a start. The
  session's write lock is held across them (`starter` is set), so commands that
  need the session's lock wait, while tasks, monitors and timers do not.
- `TaskAbandon`, `TaskFence`, `TaskCommit`, `TaskCommitFails`,
  `TaskCommitCancelled`, `TaskPublish` are the run task from the end of its
  streaming to its return (`session_prompt.rs`); `TaskPanics` is a `JoinError`.
  A failed commit may or may not have reached the store.
- `Monitor` is the completion monitor, which holds the task lock across its
  decision; the completion is sent afterwards (`Announce`).
- `RequestCancellation` is a user's or a shutdown's stop; it replaces the
  sleeping timer.
  `TimerCheck` and `TimerMark` are the two critical sections of the timer. A
  timer between the two no longer awaits anything, so `abort` cannot stop it.
- `SettleFault`, `RecoverPersistenceDegraded` and `RecoverSessionJournal` are
  the recovery commands.

The two places a terminal record comes from, the run task and the recovery
commands, are told apart by its value in `durable`. What a run does while it
streams is not modelled: it may go on for ever, end, fail or panic.

### RunQueue

Every operation of `InMemoryRunQueue` holds one mutex from beginning to end and
takes the budget's inside, so each is one action. A refused operation and a
retry answered from the identity table change nothing. Payloads are their
sizes; ages are a flag that wall-clock time sets in any order.

### SessionScheduler

Runs are named by the order they were accepted in, which `RunQueue` shows is
the order they are dequeued in (`AcceptanceOrder`); the queue can then be a
set. The runtime is the three phases that `SessionRuntime` shows to be enough
(`ImplementsLifecycle`); the limits are `RunQueue`'s business, and where a fold ends because of
them is a choice. The worker keeps the session's lock while it works through the
queue, but completions and storage faults come in between its turns, and the
process may die between any two steps (`Restart`), after which the store is all
that is left. `storeFaults`, chosen at the start, says whether writes may fail;
each write the code treats as best effort then succeeds or fails on its own.

`release_queued_run`, which sends a parked prompt after all, is not an action:
`NothingStranded` shows that in a session no prompt is ever parked, since the
queue of an idle session is empty and rows are parked by age only when an idle
session starts something. The lost acknowledgement of a start (the transaction
commits and the answer is an error) is not modelled.

### RunJournal

The journal is the sequence of a session's run markers; every append is one
transaction. A stop (`abort_run`, which holds the `fault_recovery` mutex, as
shutdown and recovery do) is three steps: the look at the active run, the start
of the thread that journals the stop, and the request itself; the thread
(`MarkerWritten`) ends whenever it likes, with or without its marker. `stopped`
remembers the runs a stop reached and was answered with success for. A stop of
a run that is finalizing and that nothing had interrupted is answered with
success and does nothing, as `stop_target` documents, so it is not among them.
The live run is reduced to what decides its terminal: its phase, the cause of
its cancellation and how far its task is. `TaskRepairReads` and
`TaskRepairWrites` are the repair of a legacy session whose commit was refused,
a read, which may fail, and a later replacement of the whole session.
`segmented`, chosen at the start, is the storage format, which decides what is read (`RunMarkerHeaders`), whether there
are repairs, and what a restart closes. Error and incomplete outcomes are
`completed` here; nothing that reads the markers tells them apart.

### ApprovalGate

A run walks its tool calls one by one as `agent/mod.rs` does: it looks at the
interrupt flag, fences the intent in the event journal, looks again, asks the
gate, fences the decision, looks again and executes. Whoever takes a request
out of the pending map owes its waiter the answer (`held`), so that the step
between the removal and the send is visible. Clients decide, abort,
abort_retry and abort_session, each command in the critical sections the
handler has; the automatic reviewer answers for some runs and is invalidated
when the context moves on; the shutdown drain interrupts all sessions and
empties the map at every poll. A client's decision "cancelled" takes the path
of "rejected". Which actions need approval is a choice.

What the gate and the run broadcast goes to the session's journal, which stores
an event, fails, or refuses it for good (`Outcomes`). A failure makes the
journal unhealthy and raises the run's interrupt flag in one step
(`StoreOutcome`), can come from any other event of the run (`OtherEvents`) and
can heal while the flag stays up; a refusal does neither, and the barriers
before an effect do not notice it. That in a segmented session one refusal
brings the next with it is `EventJournal`'s; here each event may be refused.

### ServiceShutdown

`work` is the counters under `ServiceWork`'s one mutex; the revision, which is
only compared with the value the updater read, is a bit of the updater. A
session has its run task, its control (active until the monitor released it),
a blocking child, waiting prompts, the scheduler worker and the cancellation
timer, each holding the guard it holds in the code. The supervisor's stages are
`shutdown.rs`'s, the deadline may strike in any of them, and the server's future
may end first. `fate` counts the prompts a session accepted, started and gave
an outcome to. Start-up is not modelled.

### EventJournal

An event is the number under which it was admitted, its run, its index in the
run's stream, whether a caller waits for its receipt, and whether the store can
ever take its content. The writer thread takes events and barriers from its two
channels, flushes by batch, by time or by barrier, isolates a refused event by
storing the batch one by one, and retries after a storage failure. The store
accepts exactly the event at its cursor + 1 and seals a stream with the
terminal, which the transcript's owner commits and the broadcaster publishes
afterwards. Left out: replay, projections and coalescing of events, the
session's own stream and its readers' barriers (they pass as a run's do), the
legacy format's synchronous append, and a full control lane (64 slots; the
model's callers never fill it).

### ScheduledTasks

The store's statements are transactions of their own and each may fail.
A tick reads the abandoned rows and settles them one by one, lists the due
tasks and claims them one by one, a claim being two statements; the tick, the
executor (`ExecBinds`) and a command hold the copy of the row they read until
they write the row back whole. Time counts slots of the schedule, so the
calendar is "the next slot"; a process dies between any two steps and the next
one settles what it finds. A stopping host lets one more tick begin in the
code, and any number here. After the write of its outcome an executor stays
registered while it saves the answer and removes what is not kept of the
conversation (`ExecLeaves`); the next run of the task may be claimed and
started meanwhile. What it saves and removes then is left out, as are creating
tasks, prompt revisions and feedback.

## 3. What TLC checks

| Run | Instance | Distinct states | Checks |
|---|---|---|---|
| `runtime` | 2 leases, 2 request ids, window of 1 | 84,016 | the properties of `SessionRuntime` and the refinement |
| `queue` | 2 sessions, 2 request ids, all policies, 3 sequence numbers | 485,263 | the properties of `RunQueue` |
| `scheduler` | 4 runs, with and without storage faults, restarts | 101,984 | the properties of `SessionScheduler` |
| `scheduler_pause` | 2 runs, storage faults | | violated: finding 1 |
| `journal` | 2 runs, 2 stops, both formats, restarts | 125,964 | the properties of `RunJournal` |
| `approval_gate` | 1 session with 2 runs, 2 clients of which one stops, shutdown | 492,672 | the properties of `ApprovalGate` |
| `service_shutdown` | 1 session, 2 clients with 2 commands each, 2 prompts | 528,085 | the properties of `ServiceShutdown` |
| `shutdown_queue` | the same | | violated: finding 2 |
| `event_journal` | 2 events, 2 runs, 1 fault, batches of 2 | 138,368 | the properties of `EventJournal` |
| `events_refused` | 2 events, 1 run, no fault | | violated: finding 3 |
| `scheduled_tasks` | 1 task, 2 slots, 2 run rows, 1 command, 2 failing writes, 2 hosts | 781,076 | the properties of `ScheduledTasks` |
| `tasks_stuck` | 2 tasks, 2 slots, no faults, one host | | violated: finding 4 |

**Bounds.** Every counter has its bound in a guard and the bound is a constant.
Two leases let a timer survive its run and meet the next, two request ids with
a window of one make it overflow; what three leases could add is covered by
the proofs, which hold for any number. `MaxSequence` is also the end of the u64
in the code, so that `TypeOK` of `RunQueue` covers the exhausted sequence. At
three a session accepts two prompts: one acknowledgement makes the first one's
be evicted, but a request that was evicted is not accepted again there; that
case, and every longer sequence, is the theorems' (section 4). The shared
limits are below the sum of the sessions'.
Four runs let one run while three wait, fold into each other or are superseded.
Two runs with two stops let a stop of the first land in the second, and each
overtake the other's marker. In `ApprovalGate` a second run is what a late
stop can hit, and a client that only decides beside one that stops is what a
race needs. Two prompts leave one to wait when admission ends. Two events fill
a batch, and let one be refused or fail while the other waits; a second run
makes the first one's terminal late. One task, two slots and two rows let a
slot be claimed, lost, made due again and claimed once more; two failing writes
let the executor's write and the reaper's fail one after the other. Sessions are
symmetric in `RunQueue`, since nothing orders them.

**Deadlock** is checked in the runtime, the scheduler and the journal, which
never stop as storage may fail and the process may restart. The other instances
stop when their bounds are used up, or, for the gate, the shutdown and the
event journal, when the process has ended.

**Fairness.**
- `SessionRuntime`: the monitor, the timers and the completion send are spawned
  tokio tasks that are always polled; a start runs to its end under the
  session's lock; a fenced task waits for the store, which answers in one way
  or another. Nothing obliges a streaming task to end, a client to act or the
  store to work. A stop sent again replaces the timer, and the timer action
  stays enabled whatever timer it is, which assumes clients do not repeat a
  stop faster than the timer's thirty seconds for ever.
- `SessionScheduler`: the worker and the completion send.
- `ApprovalGate`: a run's own steps, commands that were admitted, and the
  drain, which are threads and tasks that run. Nobody has to decide.
- `ServiceShutdown`: admitted commands, children, run tasks once they were
  interrupted, monitors, workers, aborted timers, background threads, the
  supervisor, and the server's future once it is abandoned. New commands,
  prompts and the deadline are never owed.
- `EventJournal`: the writer thread, and callers that read the answer they
  wait for. Storage calls return, successfully or not.
- `ScheduledTasks`: the tick loop, for as long as the process lives. Executors,
  agents and clients owe nothing.

### Properties

`SessionRuntime`
- `SingleWriter`: a run task lives only while it owns the slot and its lease is
  the active one.
- `StuckOnlyIfStoppedOrGone`: a left-over timer never marks a later run.
- `UserStopHonoured`: an accepted stop is never recorded as completed or as a
  resumable interruption.
- `CompletionHasTerminal`, `TerminalWrittenOnce`: one outcome in the store,
  lost acknowledgements included, before the completion is announced.
- `ImplementsLifecycle`: the runtime refines `RunLifecycle`.
- `RunsSettle`: accepted stops are resolved, and finalizing runs are announced
  or end in a fault.

`RunQueue`: `Accounted`, `RetryFindsItsRun`, `AcceptanceOrder`, `BudgetExact`:
every prompt in one place, idempotent retries, order, and a shared budget that
neither leaks nor counts twice (parked rows that superseding un-counts are
excepted, see the divergences).

`SessionScheduler`: `NothingLost`, `OneOpenRun`, `NothingStranded`,
`StartedOnce`, `WaitingMoves`: accepted prompts across faults and crashes.

`RunJournal`
- `SegmentedStopSurvives`: once a stop reached a run of a segmented session,
  and its marker was not lost with the process, no shutdown, recovery or
  restart leaves the run resumable.
- `OutcomeFinal`: a completed or cancelled run stays what it is as long as it is
  in the journal.
- `HeadersSuffice`: the marker headers the code reads give the answers the
  whole journal gives.
- `RunHistoryKept`: every run before the latest has its start and its outcome.

`ApprovalGate`
- `NoLostWaiter`: a blocked run has its request in the map, or somebody who
  took it out and still owes the answer, or the answer.
- `FailedAuditBlocks`: no tool runs on an approval whose record met a storage
  failure, even if the journal healed before its health was looked at. A
  record that was refused is another matter: see the divergences.
- `AbortSparesNextRun`: an abort of one run never answers a request of the next.
- `NoEffectAfterStop`: after a stop was acknowledged no tool of that run starts.
- `ShutdownEndsRuns`: a shutdown frees every run, whatever it waits for.

`ServiceShutdown`
- `StoppedIsQuiet`: a clean report means no work of any kind is left.
- `StorageOutlivesWork`: storage closes after the last guard.
- `IdleCloseIsIdle`: an updater reserves the service only if nothing ran or
  waited since it looked.
- `DrainFinishes`: the drain ends by itself.

`EventJournal`
- `ReceiptsTrue`: a receipt that says stored means stored, and one that says
  refused means not stored.
- `BarrierCovers`: a barrier answered with success covers every event admitted
  before it, the shutdown's covers all.
- `StreamsDense`: a stored stream has no hole.
- `TerminalMissedOnlyAfterLoss`: a committed terminal is published unless an
  event of the run was lost.
- `EventsSettle`, `CallersReturn`: every admitted event is stored, refused or
  lost, and every caller is answered.

`ScheduledTasks`
- `NoOverlap`: a task never has two executors at work, from the claim to the
  write of the outcome. One that still cleans up after its settled run may
  overlap with the next.
- `SlotOnce`: a slot's prompt is sent at most once.
- `OrphansSettle`: a row nobody carries is settled without a restart.

`RunQueue` and `SessionRuntime` check their `TypeOK` in the runs; those of the
other modules describe their variables and were checked on the same instances.
All are proved (section 4).

### Findings

Four runs show the code disagreeing with its own comments, docs or messages:

1. `scheduler_pause`: a completion that arrives while storage is unavailable is
   consumed, and the scheduler keeps the finished run until the agent is
   restarted, although `recover_session_journal` is the "way back"
   (`session.rs:691`).
2. `shutdown_queue`: a worker that saw the service open and then finds admission
   closed takes this for a failed start and cancels every waiting prompt in
   memory; the drain finds nothing and reports a clean stop
   (`session.rs:522`), although the drain "is the only owner allowed to start
   or cancel" them (`docs/testing/module-agent-rpc.md:681`).
3. `events_refused`: after one refused event all later events of the run are
   refused as a gap and dropped with a healthy journal
   (`journal_writer.rs:644`), although "events after it still land" (:696).
4. `tasks_stuck`: the executor of a task that reuses its conversation writes
   back the row from before its claim (`tasks.rs:873`); the slot is due again,
   its claim collides with the ledger, and the error ends every tick before the
   tasks behind it, although "the ledger does not need a human (or an app
   restart) to move again" (:282).

Further divergences, met while modelling, that no run of the project states:

- An approval whose record the journal refuses, alone or behind an event
  refused before it (finding 3), is used all the same: the gate looks at the
  journal's health, which a refusal leaves as it is (`approval.rs:607` and
  `:690`, `broadcaster/mod.rs:522`), and so does the barrier before the tool;
  although "No action may use an approval whose audit failed"
  (`approval.rs:596`) and a decision that fails to commit may not "fall through
  to an external effect" (`agent/mod.rs:536`). `ApprovedEffectsAudited` states
  it, and TLC with `MCApprovalGateRefused.cfg` refutes it in seven steps: a
  reviewer approves, the record is refused, the tool runs.
- The cancellation timer checks and marks in two steps, so a
  `persistence_degraded` run can become `cancellation_stuck`, which `begin`
  releases, though it "is intentionally NOT released" (`run_state.rs:133`).
- Superseding releases the bytes of parked prompts (`scheduler_queue.rs:614`),
  which "keep ... their quota" (:741). A session never has a parked prompt.
- The repair of a legacy session replaces it by what was read before; a stop
  marker journalled in between, and with a failing read all earlier markers
  (`session_prompt.rs:2251`), are lost, though the marker "Survives ... a stop
  racing finalization" (`run_journal.rs:85`). Hence the restriction of
  `SegmentedStopSurvives` and `RunHistoryKept` to segmented sessions.
- `handle_abort_retry` lets go of the session's lock before it cancels the
  session's approvals (`run_control.rs:376`), so it can cancel those of the
  next run, which is what the comment in `handle_abort` (:317) holds the lock
  against. `AbortSparesNextRun` is about `handle_abort`.
- `abort_session` (`run_control.rs:231`) does not cancel approvals, though
  `docs/internals/desktop/PRODUCT.md:189` says a stop does; the run's thread
  notices its flag only after a decision.
- A durable event whose one retry meets a storage failure is answered
  "unavailable" although the writer keeps it (`journal_writer.rs:94`).
- The CLI's `task feedback` rewrites a run row from an earlier read
  (`cli/src/commands/task.rs:1140`); it is not modelled.

## 4. What is proved

### SessionRuntime

`SessionRuntime_proofs` proves, for every set of request ids, window length and
number of leases (`ConstantsAssumption`: `NoRequest` is no request id, the
bounds are naturals):

| Theorem | Statement |
|---|---|
| `TypeCorrect` | `Spec => []TypeOK` |
| `Invariance` | `Spec => []IInv` |
| `SingleWriterHolds`, `StuckHolds`, `UserStopHolds`, `CompletionHolds` | the safety invariants (`CompletionHolds` with `AnnouncedOnce`: one completion per run) |
| `TerminalOnce` | `Spec => TerminalWrittenOnce` |
| `Refinement` | `Spec => ImplementsLifecycle` |

None of the safety properties is inductive. `SingleWriter` says nothing of a
task that does not exist yet, so `IInv` adds *Ownership*: the starter and the
slot exclude each other and each is the active lease. A stale timer is
harmless because leases are never reused, so *Fresh* says that nothing (task,
timer, record, announcement) exists for a lease that was not handed out.
`UserStopHonoured` needs *CauseKnown*: an active lease that was stopped by a
user carries the cause `user`, which only its own task reads, after the fence.
`TerminalWrittenOnce` and `CompletionHasTerminal` need *Progress*: a task that
has not committed has no record, and one that returned with a healthy journal
has one. *NotYetAnnounced* keeps the announced leases apart from the active
one.

The lemmas follow that argument: what each helper of run control does to the
types (`RememberType`, `ControlType`), `TypeStep` with one step per action,
`PhaseOnly` and `TaskOwns` for the steps that change only a phase, `InvStep`
with one step per action and one leaf per conjunct it can disturb; and for the
refinement `Invisible`, `TaskInvisible` and `SettleReleases`, put together by
`StepRefines`.

### ScheduledTasks

`ScheduledTasks_proofs` proves, for every number of tasks, slots, run rows,
commands, failing writes and host processes (`TasksAssumption`: the bounds are
naturals, the policies are among the two the code has):

| Theorem | Statement |
|---|---|
| `TasksInvariant` | `Spec => []IInv` |
| `TasksTypeCorrect` | `Spec => []TypeOK` |
| `NoOverlapHolds` | `Spec => []NoOverlap` |
| `SlotOnceHolds` | `Spec => []SlotOnce` |

The guard against overlap counts rows, and the claim is about executors, so
`IInv` ties them: *Carried* says an executor's row is in the ledger, is owned
by the living process, and says "running" until the executor has settled it. That a reaper never settles a
carried row needs *Reaping*: the rows found at the beginning of a tick are
still nobody's when they are settled, because executors are spawned only after
the reaping. *Claiming* bridges the gap between claim's two statements: the
last row already belongs to the task at the head of the list, and no other
executor works for it. `SlotOnce` follows from *Slots*: the ledger never holds a
slot twice, whatever rows are written back, and everything sent is in it.

Types come first, action by action (`HostActionsType`, `TickType`,
`ExecStepType`, `ClientType`), then the rest of the invariant
(`HostActionsSafe`, `TickSafe`, `ExecSafe`, `Unmoved`) with `NothingAdded`,
`TickMoves` and `ExecMoves` for what many actions have in common; `InvStep`
puts them together.

### SessionScheduler

`SessionScheduler_proofs` proves, for every number of runs
(`ConstantsAssumption`), with and without storage faults:

| Theorem | Statement |
|---|---|
| `SchedulerInvariant` | `Spec => []IInv` |
| `SchedulerTypeCorrect` | `Spec => []TypeOK` |
| `NothingLostHolds`, `OneOpenRunHolds`, `NothingStrandedHolds` | the safety invariants |
| `StartedOnceHolds` | `Spec => StartedOnce` |

`NothingStranded` speaks of memory and `NothingLost` of the store; what joins
them is *Waits*, that a prompt in the queue has its receipt in the store and no
mark in the journal, and *Unseen*, that of a prompt to come there is nothing.
`OneOpenRun` and `StartedOnce` need *Lease*: while the runtime holds a run, the
scheduler's active row is that run, its start is in the journal, and no
completion of it is pending or among the wake-ups, so that a late completion
can only name a run that is over.

A start is several writes that may each fail. `PromptFields`,
`ActivationOutcome` and `StartNextOutcome` say what the whole of it leaves,
whichever of them failed; `QueueShrinks` and `RunStarts` then show once what
taking a prompt out of the queue, and starting it, preserve. There is a lemma for
each kind of step and `InvStep` puts them together.

### ApprovalGate

`ApprovalGate_proofs` proves, for every set of sessions, clients and stopping
clients and every number of runs and tool calls (`ApprovalAssumption`: the
drain is no client, stops are the three the code has):

| Theorem | Statement |
|---|---|
| `GateInvariant` | `Spec => []IInv` |
| `GateTypeCorrect` | `Spec => []TypeOK` |
| `NoLostWaiterHolds`, `FailedAuditBlocksHolds`, `AbortSparesNextRunHolds` | the safety invariants |
| `NoEffectAfterStopHolds` | `Spec => NoEffectAfterStop` |

A request is in one place (*OnePlace*): an entry of the map belongs to a run
that waits for exactly it, and nobody holds or has answered it; what is held or
answered was raised before (*Raised*), so its number cannot come back. With
*Holders*, that only a command which is going to answer holds entries, a waiter
stays reachable through every removal. *Flagged* says that a stopped run, and
the run a command in flight has stopped, has its flag up; it holds because the
flag goes down only with a new run, whose number the command does not have.
*Audited* says a decision whose record failed also leaves the flag up, healed or
not, which is what keeps the tool from executing at the last look; a refused
one leaves no trace but the history variable `audit`. *Aborts* is the session
lock that `handle_abort` keeps while it empties the map.

Every part of the invariant is preserved on its own: the lemmas are one per
part and actor (`SessionFlagged`, `OtherFlagged`, `ClientTakesAtGate`,
`ProcessAtGate`, ...).

### ServiceShutdown

`ServiceShutdown_proofs` proves, for every set of sessions and clients (finite
or not) and every number of runs and commands (`ShutdownAssumption`):

| Theorem | Statement |
|---|---|
| `ShutdownInvariant` | `Spec => []IInv` |
| `ShutdownTypeCorrect` | `Spec => []TypeOK` |
| `StoppedIsQuietHolds`, `StorageOutlivesWorkHolds` | the safety invariants |
| `IdleCloseIsIdleHolds` | `Spec => IdleCloseIsIdle` |

The code decides by three counters. *Exact* says that each is the cardinality
of the set of guards that are held, so that a counter at zero is a fact about
every command and session; it is also why no counter underflows. From there:
closed admission keeps the commands at zero once they are (*Closing*) and the
queues empty once they were taken (*Emptied*); counts found at zero then are
final, since every step of the work needs a guard to be held already
(*Quieted*); what the drain could not record or resolve is an error of its
report (*Accounted*); and as long as no guard moved, what the updater has seen
idle still is (*Looking*). *Locks* keeps two starters of a session apart.

`SessionTally` and `CommandTally` turn the change of one record into the change
of the counts; `ProperKeeps` is the common argument for all steps of work; each
action has a lemma of its own.

### EventJournal

`EventJournal_proofs` proves, for every number of events, runs and faults,
every set of producers and every size of a batch (`BoundsAssumption`; batches
and runs are not empty):

| Theorem | Statement |
|---|---|
| `JournalInvariant` | `Spec => []IInv` |
| `JournalTypeCorrect` | `Spec => []TypeOK` |
| `ReceiptsTrueHolds`, `BarrierCoversHolds`, `StreamsDenseHolds`, `TerminalMissedHolds` | the safety invariants |

The channel holds the events from the last one taken in to the last one
admitted (*Channel*); what was taken in is buffered in the order of admission,
or settled (*Buffered*), which is what a barrier promises. In an open stream
the cursor tells exactly which events have landed (*Stored*): hence a flush,
which the store accepts up to the first gap, extends a prefix, and a refused
event, which the cursor has not reached, is not there. *Truthful* is
`ReceiptsTrue` together with the fact that nothing that can still be flushed
was reported as refused. *Fences* pairs a barrier in the lane or in the
writer's hand with the caller that waits for it; *Shut* and *Ends* are the
order of shutdown and of a run's end.

A flush is a recursion over the batch, and recursion over data has no induction
principle the provers can instantiate. `PersistedExists` and `RetryExists` show
by a least counterexample that the recursive functions exist, `PersistedSteps`
and `RetryKeeps` that they obey their equations and keep what one step keeps;
`PersistedGrows`, `OneByOnePost` and `FlushPosts` are what the rest uses.

### RunJournal

`RunJournal_proofs` proves, for every number of runs and stops and for both
storage formats (`ConstantsAssumption`):

| Theorem | Statement |
|---|---|
| `MarkersInvariant` | `Spec => []IInv` |
| `MarkersTypeCorrect` | `Spec => []TypeOK` |
| `SegmentedStopSurvivesHolds`, `HeadersSufficeHolds`, `RunHistoryKeptHolds` | the safety invariants |
| `OutcomeFinalHolds` | `Spec => OutcomeFinal` |

The properties read the journal through the functions that recovery uses, which
pick the latest start, look for what ends it and fold the rest. What makes them
inductive is where a living run stands. *Phased*: it streams until the fence
and finalizes after it, unless its writes failed. *Latest*: it is the latest
start, nothing names a later run, and after its terminal there is no start of
it. *Open*: before it commits it has no terminal, or the one the repair is going
to write again, and the repair has read the other runs as they are. *Stops*: a
stop marks the run before it asks for cancellation, so an answered stop is
journalled, being written or lost by a fault, and a `system_shutdown` terminal
only ends a run that a shutdown interrupted. *Survives* and *History* are the
two properties stated over the whole journal; `HeadersAgree` and `ResumableIs`
carry them over to the pruned one that a restart reads.

`PassExists` and `PickedExists` show by a least counterexample that the
recursive functions exist; `UnterminatedIs`, `PickedSays`, `RecoverIs` and
`StartIs` say what they compute, in terms of positions in the journal.
`LiveMoves`, `LiveEnds` and `LiveReleased` are the arguments that several
actions share; then one lemma per action, and `StepKeeps` puts them together.

### RunQueue

`RunQueue_proofs` proves, for every set of sessions, requests, run ids and
payload sizes, every limit and every number of accepted prompts
(`ConstantsAssumption`: `NoRun` is no run's name, the limits are naturals, there
is at least one sequence number):

| Theorem | Statement |
|---|---|
| `QueueInvariant` | `Spec => []IInv` |
| `QueueTypeCorrect` | `Spec => []TypeOK` |
| `AccountedHolds`, `RetryFindsItsRunHolds`, `AcceptanceOrderHolds` | the safety invariants |

The operations take rows out of the queue and end them one by one, so in the
middle of an operation a row can be in none of the lists. The invariant is
therefore stated of a session together with the rows an operation still has in
hand (`Sound(st, hand)`), and between operations the hand is empty. *Placed*:
each row is in one place, queued, parked, active or in hand. *Ordered*: the rows
of each list stand in the order of acceptance. *Identified*: no two rows have a
sequence number, every number is below the next one, and the request table says
which run a row is. *Remembered*: an acknowledgement is of a request that is
still in the table, one for each, and of no row that has not ended.
*Injective*: a run has one request, and the run table is that of the requests.
*Covered*: the request table holds nothing else. `AcceptanceOrderHolds` is then
*Ordered*, `RetryFindsItsRunHolds` is *Identified*, and `AccountedHolds` needs
the other four.

`OrderExists` and `SumExists` show by a least counterexample that sorting and
summing are defined; `PickedIs`, `SortedIs`, `SelectedIs`, `PartsIs` and
`InsertAtIs` say what selection, sorting, splitting and insertion return.
`Rearranged` is for the operations that only move rows; `EndedKeeps`,
`EvictedKeeps` and `Retires` follow `remember_terminal` over the rows in hand,
the eviction of old acknowledgements included; `EnqueuedKeeps` is acceptance.
Then one lemma per operation, and `StepKeeps` puts them together. TLC checked
`IInv` on the states of the `queue` run before it was proved.

### Only model-checked

The liveness properties are outside what the prover supports. `BudgetExact` of
`RunQueue` has no proof yet: it compares the budget with a sum over the set of
all sessions, a fold over a set, and how such a fold changes with one of its
terms would need an induction over data. Every other invariant and action
property that a passing run checks is one of the theorems above. The four runs
that are expected to fail (section 3, findings) are counterexamples and have
nothing to prove.

## 5. Plan

1. Proofs: `BudgetExact`, with the sum over sessions taken along a fixed order
   of them, as `RunQueue_proofs` does for the sum over a row sequence.
2. Goal leases and the todo ledger.
3. Replay: what a subscriber that lags, reconnects and reads projections sees
   of the event journal's streams.
4. The due-time kernel of scheduled tasks as a function checked against a
   reference definition; start-up recovery of content operations and forks.

## 6. Not modelled, and why

What a run does while it streams, and the model adapters, are a step that may
last for ever or end in any way; compaction and prompts are text; content
tables, forks and titles are data the control does not read; sandboxing is
operating-system policy; the command handlers parse and dispatch; fusion calls
remote models. The front ends, channels and remote packages, which are most of
the repository's lines (the terminal workbench, the desktop, the goal console),
lay out and forward what the agent tells them and reach the agent only through
the operations modelled here. Goal orchestration has leases and a ledger of its
own and is next in the plan.
