--------------------------- MODULE SessionRuntime ---------------------------
(***************************************************************************)
(* The execution runtime of one agent session: the lifecycle of its active *)
(* run (agent/src/runtime/run_state.rs, RunControl) together with the task *)
(* slot, the completion monitor and the cancellation timer around it       *)
(* (agent/src/runtime/session_runtime.rs, SessionRuntime).  The run task's *)
(* own steps towards its terminal come from rpc/session_prompt.rs, and the *)
(* stop and recovery commands from rpc/session.rs.                         *)
(*                                                                         *)
(* A lease (run id, epoch, sequence) is identified by its epoch, which no  *)
(* two leases of a session share.                                          *)
(*                                                                         *)
(* Who runs concurrently: the run task, its monitor and the cancellation   *)
(* timers take only the runtime's own short locks.  Starting a run and     *)
(* recovering a degraded one hold the session's write lock; stopping a run *)
(* holds its read lock and the fault_recovery mutex.  `starter' is the     *)
(* lease whose start still holds the write lock.                           *)
(***************************************************************************)
EXTENDS Integers, Sequences

CONSTANTS
  Requests,     \* client request ids
  NoRequest,    \* an empty client_request_id
  RecentLimit,  \* length of the recent_requests window (64 in the code)
  MaxEpoch      \* bound on the u64 epoch counter

ASSUME ConstantsAssumption ==
  /\ NoRequest \notin Requests
  /\ RecentLimit \in Nat
  /\ MaxEpoch \in Nat

VARIABLES
  epoch,        \* ControlState.epoch
  active,       \* ControlState.active
  recent,       \* ControlState.recent_requests
  slot,         \* SessionRuntime.task: the lease whose task is owned
  starter,      \* the lease being started under the session's write lock
  task,         \* where the run task of each lease is
  timer,        \* the sleeping cancellation timer, by its lease
  due,          \* timers that saw `cancelling' and have yet to mark the run
  announcing,   \* released leases whose completion is not sent yet
  completions,  \* leases sent to the scheduler's completion channel
  durable,      \* the run_terminal record the store holds for each lease
  storageError, \* the journal's persistence_error is set
  userStopped   \* history: leases a user's stop was accepted for

vars == <<epoch, active, recent, slot, starter, task, timer, due, announcing,
          completions, durable, storageError, userStopped>>

Leases == 1..MaxEpoch
NoLease == 0

Phases == {"starting", "running", "cancelling", "cancellation_stuck",
           "persistence_degraded", "finalizing"}
Abortable == {"starting", "running", "cancelling"}
Faulted == {"cancellation_stuck", "persistence_degraded"}
Causes == {"none", "user", "shutdown"}

\* A terminal written by the run task itself, or by a recovery command.
Outcomes == {"completed", "cancelled", "interrupted",
             "fault_cancelled", "fault_interrupted"}
\* No terminal record: not yet, or left to the next process start on purpose.
Unfinished == {"none", "left_open"}
LiveTask == {"streaming", "fenced", "committed"}

Idle == [lease |-> NoLease, req |-> NoRequest, phase |-> "idle",
         cause |-> "none"]
ActiveRun == [lease : Leases, req : Requests \cup {NoRequest},
              phase : Phases, cause : Causes]

TypeOK ==
  /\ epoch \in 0..MaxEpoch
  /\ active \in ActiveRun \cup {Idle}
  /\ recent \in Seq(Requests)
  /\ slot \in Leases \cup {NoLease}
  /\ starter \in Leases \cup {NoLease}
  /\ task \in [Leases -> LiveTask \cup {"none", "returned", "panicked"}]
  /\ timer \in Leases \cup {NoLease}
  /\ due \subseteq Leases
  /\ announcing \subseteq Leases
  /\ completions \in Seq(Leases)
  /\ durable \in [Leases -> Outcomes \cup Unfinished]
  /\ storageError \in BOOLEAN
  /\ userStopped \subseteq Leases

Init ==
  /\ epoch = 0
  /\ active = Idle
  /\ recent = << >>
  /\ slot = NoLease
  /\ starter = NoLease
  /\ task = [e \in Leases |-> "none"]
  /\ timer = NoLease
  /\ due = {}
  /\ announcing = {}
  /\ completions = << >>
  /\ durable = [e \in Leases |-> "none"]
  /\ storageError = FALSE
  /\ userStopped = {}

-----------------------------------------------------------------------------
(* RunControl: one short critical section each.                            *)

\* The idempotency check: a stuck run never completed, so its request may be
\* retried; a request in the recent window may not.
AlreadyAccepted(req) ==
  /\ req # NoRequest
  /\ \/ active.req = req /\ active.phase # "cancellation_stuck"
     \/ \E i \in 1..Len(recent) : recent[i] = req

\* Mutant: requests without an id enter the window too.
Remember_Anonymous(req) ==
  LET window == Append(recent, req) IN
  IF Len(window) > RecentLimit THEN Tail(window) ELSE window

\* The window of completed requests after `req' completes.
Remember(req) ==
  LET window == Append(recent, req) IN
  IF req = NoRequest THEN recent
  ELSE IF Len(window) > RecentLimit THEN Tail(window) ELSE window

Finish(e) ==
  IF active.lease = e
  THEN active' = Idle /\ recent' = Remember(active.req)
  ELSE UNCHANGED <<active, recent>>

\* Mutant: the lease is not compared.
MarkStuck_AnyLease(e) ==
  active' = IF active # Idle
            THEN [active EXCEPT !.phase = "cancellation_stuck"] ELSE active

MarkStuck(e) ==
  active' = IF active.lease = e
            THEN [active EXCEPT !.phase = "cancellation_stuck"] ELSE active

MarkPersistenceDegraded(e) ==
  active' = IF active.lease = e
            THEN [active EXCEPT !.phase = "persistence_degraded"] ELSE active

\* Installing the interrupt targets never resurrects a cancelled run.
InstallCancellation(e) ==
  active' = IF active.lease = e /\ active.phase = "starting"
            THEN [active EXCEPT !.phase = "running"] ELSE active

\* The cause recorded for this lease, read by the task after its fence.
CancellationKind(e) == IF active.lease = e THEN active.cause ELSE "none"

-----------------------------------------------------------------------------
(* Starting a run, under the session's write lock.                         *)

\* Mutant: begin does not look at the task slot.
BeginScheduled_NoSlotCheck(req) ==
  /\ starter = NoLease
  /\ epoch < MaxEpoch
  /\ ~AlreadyAccepted(req)
  /\ active.phase \in {"idle", "cancellation_stuck"}
  /\ epoch' = epoch + 1
  /\ active' = [lease |-> epoch + 1, req |-> req, phase |-> "starting",
                cause |-> "none"]
  /\ starter' = epoch + 1
  /\ UNCHANGED <<recent, slot, task, timer, due, announcing, completions,
                 durable, storageError, userStopped>>

\* A stuck predecessor is released here, without a completion; a degraded
\* one is not.
BeginScheduled(req) ==
  /\ starter = NoLease
  /\ slot = NoLease
  /\ epoch < MaxEpoch
  /\ ~AlreadyAccepted(req)
  /\ active.phase \in {"idle", "cancellation_stuck"}
  /\ epoch' = epoch + 1
  /\ active' = [lease |-> epoch + 1, req |-> req, phase |-> "starting",
                cause |-> "none"]
  /\ starter' = epoch + 1
  /\ UNCHANGED <<recent, slot, task, timer, due, announcing, completions,
                 durable, storageError, userStopped>>

\* The accepted run's task is spawned and registered in the slot.
Spawn ==
  /\ starter # NoLease
  /\ slot = NoLease
  /\ InstallCancellation(starter)
  /\ slot' = starter
  /\ task' = [task EXCEPT ![starter] = "streaming"]
  /\ starter' = NoLease
  /\ UNCHANGED <<epoch, recent, timer, due, announcing, completions, durable,
                 storageError, userStopped>>

\* The user message could not be persisted: the lease is released again and
\* no completion is sent.
StartFails ==
  /\ starter # NoLease
  /\ slot = NoLease
  /\ Finish(starter)
  /\ starter' = NoLease
  /\ UNCHANGED <<epoch, slot, task, timer, due, announcing, completions,
                 durable, storageError, userStopped>>

-----------------------------------------------------------------------------
(* The run task.                                                           *)

Returns(e) == task' = [task EXCEPT ![e] = "returned"]

\* The journal failed while the run streamed: abandon before the fence.
TaskAbandon(e) ==
  /\ task[e] = "streaming"
  /\ storageError
  /\ MarkPersistenceDegraded(e)
  /\ Returns(e)
  /\ UNCHANGED <<epoch, recent, slot, starter, timer, due, announcing,
                 completions, durable, storageError, userStopped>>

\* begin_finalizing: the fence that freezes cancellation.
TaskFence(e) ==
  /\ task[e] = "streaming"
  /\ ~storageError
  /\ IF active.lease = e
     THEN /\ active' = [active EXCEPT !.phase = "finalizing"]
          /\ task' = [task EXCEPT ![e] = "fenced"]
     ELSE Returns(e) /\ UNCHANGED active
  /\ UNCHANGED <<epoch, recent, slot, starter, timer, due, announcing,
                 completions, durable, storageError, userStopped>>

TerminalState(e) ==
  CASE CancellationKind(e) = "shutdown" -> "interrupted"
    [] CancellationKind(e) = "user"     -> "cancelled"
    [] OTHER                            -> "completed"

\* Mutant: the terminal record is skipped.
TaskCommit_NoRecord(e) ==
  /\ task[e] = "fenced"
  /\ task' = [task EXCEPT ![e] = "committed"]
  /\ UNCHANGED <<epoch, active, recent, slot, starter, timer, due, announcing,
                 completions, durable, storageError, userStopped>>

TaskCommit(e) ==
  /\ task[e] = "fenced"
  /\ durable' = [durable EXCEPT ![e] = TerminalState(e)]
  /\ task' = [task EXCEPT ![e] = "committed"]
  /\ UNCHANGED <<epoch, active, recent, slot, starter, timer, due, announcing,
                 completions, storageError, userStopped>>

\* The commit reports an error; its record may still have reached the store.
TaskCommitFails(e) ==
  /\ task[e] = "fenced"
  /\ \/ UNCHANGED durable
     \/ durable' = [durable EXCEPT ![e] = TerminalState(e)]
  /\ MarkPersistenceDegraded(e)
  /\ storageError' = TRUE
  /\ Returns(e)
  /\ UNCHANGED <<epoch, recent, slot, starter, timer, due, announcing,
                 completions, userStopped>>

\* The blocking commit was cancelled because the process is going away.
TaskCommitCancelled(e) ==
  /\ task[e] = "fenced"
  /\ CancellationKind(e) = "shutdown"
  /\ durable' = [durable EXCEPT ![e] = "left_open"]
  /\ Returns(e)
  /\ UNCHANGED <<epoch, active, recent, slot, starter, timer, due, announcing,
                 completions, storageError, userStopped>>

\* The committed terminal is published to subscribers, or fails to be.
TaskPublish(e) ==
  /\ task[e] = "committed"
  /\ \/ UNCHANGED <<active, storageError>>
     \/ MarkPersistenceDegraded(e) /\ storageError' = TRUE
  /\ Returns(e)
  /\ UNCHANGED <<epoch, recent, slot, starter, timer, due, announcing,
                 completions, durable, userStopped>>

TaskPanics(e) ==
  /\ task[e] \in LiveTask
  /\ task' = [task EXCEPT ![e] = "panicked"]
  /\ UNCHANGED <<epoch, active, recent, slot, starter, timer, due, announcing,
                 completions, durable, storageError, userStopped>>

-----------------------------------------------------------------------------
(* The completion monitor, under the task lock.                            *)

\* Mutant: the finished run is never announced to the scheduler.
MonitorFinishes_Silent(e) ==
  /\ task[e] = "returned"
  /\ active.lease = e /\ active.phase = "finalizing"
  /\ Finish(e)
  /\ UNCHANGED announcing

MonitorFinishes(e) ==
  /\ task[e] = "returned"
  /\ active.lease = e /\ active.phase = "finalizing"
  /\ Finish(e)
  /\ announcing' = announcing \cup {e}

MonitorMarks(e) ==
  /\ IF task[e] = "panicked" \/ active.phase \notin Faulted
     THEN MarkStuck(e) ELSE UNCHANGED active
  /\ ~(task[e] = "returned" /\ active.lease = e /\ active.phase = "finalizing")
  /\ UNCHANGED <<recent, announcing>>

Monitor(e) ==
  /\ slot = e
  /\ task[e] \in {"returned", "panicked"}
  /\ MonitorFinishes(e) \/ MonitorMarks(e)
  /\ slot' = NoLease
  /\ task' = [task EXCEPT ![e] = "none"]
  /\ UNCHANGED <<epoch, starter, timer, due, completions, durable,
                 storageError, userStopped>>

\* The completion is sent after every lock is dropped.
Announce(e) ==
  /\ e \in announcing
  /\ announcing' = announcing \ {e}
  /\ completions' = Append(completions, e)
  /\ UNCHANGED <<epoch, active, recent, slot, starter, task, timer, due,
                 durable, storageError, userStopped>>

-----------------------------------------------------------------------------
(* Stopping a run: a user's abort or the agent's shutdown.                 *)

\* Mutant: the last cause wins.
CancelledCause_LastWins(cause) == cause

CancelledCause(cause) ==
  IF cause = "shutdown" /\ active.cause # "user" THEN "shutdown" ELSE "user"

\* cancel_expected, then the acknowledgement timer replaces the previous one.
RequestCancellation(cause) ==
  /\ starter = NoLease
  /\ active.phase \in Abortable
  /\ active' = [active EXCEPT !.phase = "cancelling",
                              !.cause = CancelledCause(cause)]
  /\ timer' = active.lease
  /\ userStopped' = IF cause = "user" THEN userStopped \cup {active.lease}
                    ELSE userStopped
  /\ UNCHANGED <<epoch, recent, slot, starter, task, due, announcing,
                 completions, durable, storageError>>

\* Mutant: the timer looks for the wrong phase.
TimerCheck_WrongPhase ==
  /\ timer # NoLease
  /\ due' = IF active.lease = timer /\ active.phase = "running"
            THEN due \cup {timer} ELSE due
  /\ timer' = NoLease
  /\ UNCHANGED <<epoch, active, recent, slot, starter, task, announcing,
                 completions, durable, storageError, userStopped>>

\* The timer wakes and looks at the phase: one critical section ...
TimerCheck ==
  /\ timer # NoLease
  /\ due' = IF active.lease = timer /\ active.phase = "cancelling"
            THEN due \cup {timer} ELSE due
  /\ timer' = NoLease
  /\ UNCHANGED <<epoch, active, recent, slot, starter, task, announcing,
                 completions, durable, storageError, userStopped>>

\* ... and marks the run stuck in another.
TimerMark(e) ==
  /\ e \in due
  /\ MarkStuck(e)
  /\ due' = due \ {e}
  /\ UNCHANGED <<epoch, recent, slot, starter, task, timer, announcing,
                 completions, durable, storageError, userStopped>>

-----------------------------------------------------------------------------
(* Recovering a faulted run.                                               *)

\* Mutant: the recovery outcome overwrites a committed one.
PersistFaultOutcome_Overwrites(e, outcome) ==
  /\ slot = NoLease
  /\ storageError' = FALSE
  /\ durable' = [durable EXCEPT ![e] = outcome]

\* Storage is recovered and an unfinished run gets its one terminal record;
\* refused while the run's task is still owned.
PersistFaultOutcome(e, outcome) ==
  /\ slot = NoLease
  /\ storageError' = FALSE
  /\ durable' = IF durable[e] \in Unfinished
                THEN [durable EXCEPT ![e] = outcome] ELSE durable

\* abort_run / interrupt_for_shutdown on a run that is already faulted.
SettleFault(outcome) ==
  /\ starter = NoLease
  /\ active.phase \in Faulted
  /\ PersistFaultOutcome(active.lease, outcome)
  /\ Finish(active.lease)
  /\ timer' = NoLease
  /\ announcing' = announcing \cup {active.lease}
  /\ UNCHANGED <<epoch, slot, starter, task, due, completions, userStopped>>

\* The retry_persistence command.
RecoverPersistenceDegraded ==
  /\ starter = NoLease
  /\ active.phase = "persistence_degraded"
  /\ PersistFaultOutcome(active.lease, "fault_interrupted")
  /\ Finish(active.lease)
  /\ announcing' = announcing \cup {active.lease}
  /\ UNCHANGED <<epoch, slot, starter, task, timer, due, completions,
                 userStopped>>

\* The recover_session command, refused while a run is active.
RecoverSessionJournal ==
  /\ starter = NoLease
  /\ slot = NoLease
  /\ active = Idle
  /\ storageError' = FALSE
  /\ UNCHANGED <<epoch, active, recent, slot, starter, task, timer, due,
                 announcing, completions, durable, userStopped>>

\* External: the store refuses a journal append.
StorageFails ==
  /\ storageError' = TRUE
  /\ UNCHANGED <<epoch, active, recent, slot, starter, task, timer, due,
                 announcing, completions, durable, userStopped>>

-----------------------------------------------------------------------------
TaskStep(e) ==
  \/ TaskAbandon(e)
  \/ TaskFence(e)
  \/ TaskCommit(e)
  \/ TaskCommitFails(e)
  \/ TaskCommitCancelled(e)
  \/ TaskPublish(e)
  \/ TaskPanics(e)

Next ==
  \/ \E req \in Requests \cup {NoRequest} : BeginScheduled(req)
  \/ Spawn
  \/ StartFails
  \/ \E e \in Leases : TaskStep(e)
  \/ \E e \in Leases : Monitor(e)
  \/ \E e \in Leases : Announce(e)
  \/ \E cause \in {"user", "shutdown"} : RequestCancellation(cause)
  \/ TimerCheck
  \/ \E e \in Leases : TimerMark(e)
  \/ \E outcome \in {"fault_cancelled", "fault_interrupted"} :
        SettleFault(outcome)
  \/ RecoverPersistenceDegraded
  \/ RecoverSessionJournal
  \/ StorageFails

\* The monitor, the timers and the completion send are tokio tasks that are
\* always polled, a start runs to its end under the session lock, and a fenced
\* task only waits for the store to answer.  Nothing obliges a streaming task
\* to end, a client to stop or recover a run, or the store to fail.
Fairness ==
  /\ WF_vars(Spawn \/ StartFails)
  /\ WF_vars(TimerCheck)
  /\ \A e \in Leases :
       /\ WF_vars(TimerMark(e))
       /\ WF_vars(Monitor(e))
       /\ WF_vars(Announce(e))
       /\ WF_vars(TaskCommit(e) \/ TaskCommitFails(e) \/ TaskCommitCancelled(e))
       /\ WF_vars(TaskPublish(e))

Spec == Init /\ [][Next]_vars
FairSpec == Spec /\ Fairness
-----------------------------------------------------------------------------
(* Properties.                                                             *)

\* A run task exists only while it owns the slot and its lease is the active
\* one: whatever order stops, timers, faults and recoveries come in, no
\* session is released under a live writer and no two runs write at once.
SingleWriter ==
  \A e \in Leases : task[e] # "none" => slot = e /\ active.lease = e

\* A run that nobody asked to stop is called cancellation_stuck only after its
\* task is gone: a timer left over from an earlier run never marks a later one.
StuckOnlyIfStoppedOrGone ==
  active.phase = "cancellation_stuck" =>
    active.cause # "none" \/ slot = NoLease

\* Once a user's stop was accepted, the run task never records the run as
\* completed, nor as interrupted by the system (which would make it
\* resumable): the stop and the finalizing fence cannot cross.
UserStopHonoured ==
  \A e \in userStopped : durable[e] \notin {"completed", "interrupted"}

\* Every completion the scheduler hears of belongs to a run whose outcome is
\* in the store, or was left open for the next start by a shutdown.
CompletionHasTerminal ==
  \A e \in Leases :
    (e \in announcing \/ \E i \in 1..Len(completions) : completions[i] = e)
      => durable[e] # "none"

\* No run is announced twice: the monitor, the stop commands and the retry
\* command never both release the same lease.
AnnouncedOnce ==
  \A i \in 1..Len(completions) :
    /\ completions[i] \notin announcing \cup {active.lease}
    /\ \A j \in 1..Len(completions) :
         completions[i] = completions[j] => i = j

\* A terminal record is written for the active lease only and is never
\* replaced by a later one, a commit whose acknowledgement was lost included.
TerminalWrittenOnce ==
  [][\A e \in Leases : durable'[e] # durable[e] =>
        active.lease = e /\ durable[e] \in Unfinished]_vars

\* A run on its way out gets there.  A cancellation request is resolved: the
\* run finalizes, faults, or is declared stuck when its timer expires.  A run
\* past the finalizing fence is announced to the scheduler, or ends up faulted
\* where a stop or a recovery command can reach it.
RunsSettle ==
  \A e \in Leases :
    LET is(p) == active.lease = e /\ active.phase = p
        announced == \E i \in 1..Len(completions) : completions[i] = e
    IN /\ is("cancelling") ~> ~is("cancelling")
       /\ is("finalizing") ~> (announced \/ \E p \in Faulted : is(p))

-----------------------------------------------------------------------------
(* The abstract lifecycle this implements.                                 *)

\* A run owns the session from its begin until its task is gone; a lease
\* without a task or a start is a fault.
LifecyclePhase ==
  IF starter # NoLease THEN "starting"
  ELSE IF slot # NoLease THEN "running"
  ELSE IF active.lease # NoLease THEN "faulted" ELSE "idle"

Lifecycle == INSTANCE RunLifecycle WITH
  last <- epoch, run <- active.lease, phase <- LifecyclePhase,
  pending <- announcing, sent <- completions

\* Every step of the task, its monitor, the timers and the stop and recovery
\* commands is a step of the lifecycle the scheduler relies on, or invisible.
ImplementsLifecycle == Lifecycle!Spec
=============================================================================
