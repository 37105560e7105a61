-------------------------- MODULE SessionScheduler --------------------------
(***************************************************************************)
(* How one session accepts, queues, starts and closes its runs: the        *)
(* composition of the run queue, the runtime, the completion worker and    *)
(* the durable receipts in agent/src/rpc/session.rs and session_prompt.rs, *)
(* with the store's side in agent/src/session/queued_receipts.rs and       *)
(* manager/mod.rs.                                                         *)
(*                                                                         *)
(* RunQueue shows that rows are dequeued in the order they were accepted,  *)
(* so a run is named here by its place in that order and the queue is a    *)
(* set.  SessionRuntime shows that control and task slot are released      *)
(* together, by one announcement per run, so the runtime is three phases.  *)
(* Queue limits and byte budgets are RunQueue's; the payload limit that    *)
(* ends a fold is a choice here.                                           *)
(*                                                                         *)
(* Accepting, cancelling, recovering and the worker hold the session's     *)
(* write lock; the worker keeps it while it works through the queue.       *)
(***************************************************************************)
EXTENDS Integers, Sequences, FiniteSetsExt

CONSTANTS
  MaxRuns       \* runs accepted over all processes

ASSUME ConstantsAssumption == MaxRuns \in Nat

VARIABLES
  m,        \* the process: queue, snapshots, runtime phase, journal health
  store,    \* the database: queued_run_receipts and the run journal
  next,     \* the next run to be accepted
  pending,  \* released runs whose completion is not sent yet
  lock,     \* "worker" while the completion worker drains the queue
  storeFaults, \* environment, fixed: whether the store may refuse a write
  refused   \* history: runs whose client was answered with an error

vars == <<m, store, next, pending, lock, storeFaults, refused>>

Runs == 1..MaxRuns
NoRun == 0

ReceiptStates == {"none", "queued", "cancel_requested", "cancelled",
                  "interrupted", "started", "merged"}
\* none; run_started only; run_terminal after a start; input kept with a
\* terminal record although the run never started.
JournalStates == {"none", "open", "closed", "unstarted"}

Empty == [queued |-> {}, held |-> {}, coalescing |-> {}, active |-> NoRun,
          snapshots |-> {}, run |-> NoRun, phase |-> "idle", failed |-> FALSE,
          wakes |-> << >>]

TypeOK ==
  /\ m.queued \cup m.held \cup m.coalescing \cup m.snapshots \subseteq Runs
  /\ {m.active, m.run} \subseteq Runs \cup {NoRun}
  /\ m.phase \in {"idle", "running", "faulted"}
  /\ (m.phase = "idle") <=> (m.run = NoRun)
  /\ m.wakes \in Seq(Runs)
  /\ store.receipt \in [Runs -> ReceiptStates]
  /\ store.journal \in [Runs -> JournalStates]
  /\ next \in 1..(MaxRuns + 1)
  /\ pending \cup refused \subseteq Runs
  /\ lock \in {"free", "worker"}
  /\ storeFaults \in BOOLEAN

Init ==
  /\ m = Empty
  /\ store = [receipt |-> [r \in Runs |-> "none"],
              journal |-> [r \in Runs |-> "none"]]
  /\ next = 1
  /\ pending = {}
  /\ lock = "free"
  /\ storeFaults \in BOOLEAN
  /\ refused = {}

-----------------------------------------------------------------------------
(* The store.                                                              *)

CancelQueuedReceipts(st, runs) ==
  [st EXCEPT !.receipt = [r \in Runs |->
     IF r \in runs /\ @[r] = "queued" THEN "cancel_requested" ELSE @[r]]]

\* recover_queued_receipts: the receipts in `states' are closed and the input
\* of a run that never started is kept with a terminal record.
RecoverReceipts(st, states) ==
  LET due == {r \in Runs : st.receipt[r] \in states}
      final(r) == IF st.journal[r] # "none" THEN "started"
                  ELSE IF st.receipt[r] = "cancel_requested" THEN "cancelled"
                  ELSE "interrupted"
  IN [receipt |-> [r \in Runs |-> IF r \in due THEN final(r)
                                  ELSE st.receipt[r]],
      journal |-> [r \in Runs |-> IF r \in due /\ st.journal[r] = "none"
                                  THEN "unstarted" ELSE st.journal[r]]]

\* finish_cancelled_receipts, only while nothing runs.
FlushWhenIdle(mem, st) ==
  IF mem.phase = "idle" THEN RecoverReceipts(st, {"cancel_requested"}) ELSE st

\* Mutant: a run left open by an earlier process stays open.
AppendRunStart_LeavesOpen(st, r, merged) ==
  [receipt |-> [x \in Runs |->
     IF x \in merged THEN "merged"
     ELSE IF x = r /\ st.receipt[x] # "none" THEN "started"
     ELSE st.receipt[x]],
   journal |-> [st.journal EXCEPT ![r] = "open"]]

\* append_run_start: one transaction that closes a run left open, records the
\* new one and settles the receipts of the run and of those folded into it.
AppendRunStart(st, r, merged) ==
  [receipt |-> [x \in Runs |->
     IF x \in merged THEN "merged"
     ELSE IF x = r /\ st.receipt[x] # "none" THEN "started"
     ELSE st.receipt[x]],
   journal |-> [x \in Runs |->
     IF x = r THEN "open"
     ELSE IF st.journal[x] = "open" THEN "closed"
     ELSE st.journal[x]]]

\* The stores a best-effort update may leave behind.
Attempt(st, updated) == IF storeFaults THEN {st, updated} ELSE {updated}

-----------------------------------------------------------------------------
(* Starting the front of the queue: start_next_scheduled_at.               *)

\* The folds the queue may take: coalescing rows directly behind a coalescing
\* front.
Folds(mem) ==
  LET front == Min(mem.queued)
      behind == mem.queued \ {front}
  IN {F \in SUBSET (behind \cap mem.coalescing) :
        /\ F # {} => front \in mem.coalescing
        /\ \A x \in F, y \in behind : y < x => y \in F}

Failure(mem, st) == [m |-> mem, st |-> st, ok |-> FALSE]

\* prompt_internal: a check may refuse the prompt at any time; it begins on an
\* idle runtime only, and its start is durable before its task is spawned.
PromptInternal(mem, st, front, folded) ==
  LET begun == [mem EXCEPT !.queued = @ \ {front}]
      started == [m |-> [begun EXCEPT !.active = front, !.run = front,
                                      !.phase = "running"],
                  st |-> AppendRunStart(st, front, folded),
                  ok |-> TRUE]
      begins == mem.phase = "idle" /\ mem.active = NoRun
  IN {Failure(mem, st)}
     \cup (IF begins THEN {started} ELSE {})
     \cup (IF begins /\ storeFaults THEN {Failure(begun, st)} ELSE {})

\* Activating `front' with `folded' folded into it.  It fails before the run
\* begins (workspace, history, an existing lease) or when the start cannot be
\* persisted; either way the receipts of all of them are closed.
Activation(mem, st, front, folded) ==
  LET affected == {front} \cup folded
      taken == [mem EXCEPT !.queued = @ \ folded, !.snapshots = @ \ affected]
      results == IF affected \cap mem.snapshots = {}
                 THEN {Failure(taken, st)}
                 ELSE PromptInternal(taken, st, front, folded)
      failed == {x.m : x \in {y \in results : ~y.ok}}
      closings == UNION {Attempt(x, FlushWhenIdle(mem, x)) :
                           x \in Attempt(st, CancelQueuedReceipts(st, affected))}
  IN {x \in results : x.ok} \cup {Failure(x, c) : x \in failed, c \in closings}

\* Rows that waited on an idle session are parked first, `fresh' excepted; a
\* boundary after a run parks none.
StartNext(mem, st, fresh, boundary) ==
  IF mem.failed THEN {Failure(mem, st)} ELSE
  UNION {LET kept == [mem EXCEPT !.queued = @ \ stale, !.held = @ \cup stale] IN
         IF kept.queued = {} THEN {Failure(kept, st)}
         ELSE UNION {Activation(kept, st, Min(kept.queued), folded) :
                       folded \in Folds(kept)} :
         stale \in IF boundary = "idle" THEN SUBSET (mem.queued \ fresh)
                   ELSE {{}}}

-----------------------------------------------------------------------------
(* Accepting a prompt: enqueue_prompt_with_model_context.                  *)

Busy == m.phase # "idle" \/ m.active # NoRun

Victims(policy) == IF policy = "supersede" THEN m.queued ELSE {}

\* The queue accepts run `next'; what it supersedes leaves the queue at once.
Accepted(policy) ==
  [m EXCEPT !.queued = (@ \ Victims(policy)) \cup {next},
            !.coalescing = IF policy = "coalesce" THEN @ \cup {next} ELSE @]

\* Mutant: no receipt is written for a prompt that has to wait.
Recorded_NoReceipt == store

\* A prompt that has to wait gets a durable receipt; one that starts does not.
Recorded == IF Busy THEN [store EXCEPT !.receipt[next] = "queued"] ELSE store

Admits == lock = "free" /\ next <= MaxRuns /\ ~m.failed

Admitted(policy) ==
  [Accepted(policy) EXCEPT !.snapshots = (@ \ Victims(policy)) \cup {next}]

\* The session is busy: the prompt stays queued.
EnqueueWaits(policy) ==
  /\ Admits
  /\ Busy
  /\ m' = Admitted(policy)
  /\ store' = CancelQueuedReceipts(Recorded, Victims(policy))
  /\ next' = next + 1
  /\ UNCHANGED <<storeFaults, pending, lock, refused>>

\* The receipt cannot be written: the prompt is refused, but what it
\* superseded is already out of the queue.
EnqueueUnrecorded(policy) ==
  /\ storeFaults
  /\ Admits
  /\ Busy
  /\ m' = [Accepted(policy) EXCEPT !.queued = @ \ {next}]
  /\ next' = next + 1
  /\ refused' = refused \cup {next}
  /\ UNCHANGED <<storeFaults, store, pending, lock>>

\* The cancellation of a superseded receipt fails after earlier ones were
\* recorded: the prompt is refused and its own receipt closed if possible.
EnqueueHalfSuperseded(victim) ==
  LET done == {v \in m.queued : v < victim}
      st == CancelQueuedReceipts(Recorded, done)
  IN /\ storeFaults
     /\ Admits
     /\ victim \in m.queued
     /\ m' = [Accepted("supersede") EXCEPT !.queued = @ \ {next},
                                           !.snapshots = @ \ done]
     /\ store' \in {st, CancelQueuedReceipts(st, {next})}
     /\ next' = next + 1
     /\ refused' = refused \cup {next}
     /\ UNCHANGED <<storeFaults, pending, lock>>

\* The session is idle: the front of the queue starts now, or the prompt is
\* refused.
EnqueueStarts(policy) ==
  /\ Admits
  /\ ~Busy
  /\ \E o \in StartNext(Admitted(policy),
                        CancelQueuedReceipts(Recorded, Victims(policy)),
                        {next}, "idle") :
       /\ store' = o.st
       /\ IF o.ok THEN m' = o.m /\ UNCHANGED refused
          ELSE /\ m' = [o.m EXCEPT !.queued = @ \ {next}, !.held = @ \ {next},
                                   !.snapshots = @ \ {next}]
               /\ refused' = refused \cup {next}
  /\ next' = next + 1
  /\ UNCHANGED <<storeFaults, pending, lock>>

-----------------------------------------------------------------------------
(* Cancelling waiting prompts.                                             *)

\* Mutant: the receipt is cancelled, the row stays in the queue.
CancelQueuedRun_KeepsRow(r) ==
  /\ lock = "free"
  /\ r \in m.queued \cup m.held
  /\ store' \in {FlushWhenIdle(m, CancelQueuedReceipts(store, {r}))}
  /\ UNCHANGED <<storeFaults, m, next, pending, lock, refused>>

\* The receipt first: when it cannot be cancelled nothing else happens.
CancelQueuedRun(r) ==
  LET st == CancelQueuedReceipts(store, {r}) IN
  /\ lock = "free"
  /\ r \in m.queued \cup m.held
  /\ store' \in Attempt(st, FlushWhenIdle(m, st))
  /\ m' = [m EXCEPT !.queued = @ \ {r}, !.held = @ \ {r},
                    !.snapshots = @ \ {r}]
  /\ UNCHANGED <<storeFaults, next, pending, lock, refused>>

\* The queue first; the receipts are closed in one transaction or not at all.
CancelAllQueuedRuns ==
  LET runs == m.queued \cup m.held IN
  /\ lock = "free"
  /\ runs # {}
  /\ \E st \in Attempt(store, CancelQueuedReceipts(store, runs)) :
       store' \in Attempt(st, FlushWhenIdle(m, st))
  /\ m' = [m EXCEPT !.queued = {}, !.held = {}, !.snapshots = @ \ runs]
  /\ UNCHANGED <<storeFaults, next, pending, lock, refused>>

-----------------------------------------------------------------------------
(* The active run, as SessionRuntime describes it.                         *)

Released == [m EXCEPT !.run = NoRun, !.phase = "idle"]

\* The task commits its terminal and the monitor releases the session.
RunEnds ==
  /\ m.phase = "running"
  /\ m' = Released
  /\ store' = [store EXCEPT !.journal[m.run] = "closed"]
  /\ pending' = pending \cup {m.run}
  /\ UNCHANGED <<storeFaults, next, lock, refused>>

\* The task panics or its commit fails: the lease is kept, the journal may be
\* marked unhealthy, and the record may have reached the store all the same.
RunFaults ==
  /\ m.phase = "running"
  /\ \E failed \in {m.failed, storeFaults} :
       m' = [m EXCEPT !.phase = "faulted", !.failed = failed]
  /\ store' \in {store, [store EXCEPT !.journal[m.run] = "closed"]}
  /\ UNCHANGED <<storeFaults, next, pending, lock, refused>>

\* abort_run, retry_persistence or shutdown on a faulted run: storage is
\* recovered, the outcome recorded if there is none, the run announced.
SettleFault ==
  /\ lock = "free"
  /\ m.phase = "faulted"
  /\ m' = [Released EXCEPT !.failed = FALSE]
  /\ store' = [store EXCEPT !.journal[m.run] = "closed"]
  /\ pending' = pending \cup {m.run}
  /\ UNCHANGED <<storeFaults, next, lock, refused>>

\* Mutant: the completion is lost between the runtime and the worker.
Announce_Lost(r) ==
  /\ r \in pending
  /\ pending' = pending \ {r}
  /\ UNCHANGED <<storeFaults, m, store, next, lock, refused>>

Announce(r) ==
  /\ r \in pending
  /\ pending' = pending \ {r}
  /\ m' = [m EXCEPT !.wakes = Append(@, r)]
  /\ UNCHANGED <<storeFaults, store, next, lock, refused>>

-----------------------------------------------------------------------------
(* The completion worker: on_scheduled_run_finished.                       *)

\* The journal is unhealthy, or the cancelled receipts cannot be finished:
\* the completion is consumed and nothing else happens.
WorkerPauses ==
  /\ lock = "free"
  /\ m.wakes # << >>
  /\ m.failed \/ (storeFaults /\ m.phase = "idle")
  /\ m' = [m EXCEPT !.wakes = Tail(@)]
  /\ UNCHANGED <<storeFaults, store, next, pending, lock, refused>>

\* The finished run leaves the queue and the worker turns to what waits.
WorkerWakes ==
  /\ lock = "free"
  /\ m.wakes # << >>
  /\ ~m.failed
  /\ store' = FlushWhenIdle(m, store)
  /\ m' = [m EXCEPT !.wakes = Tail(@),
                    !.active = IF @ = Head(m.wakes) THEN NoRun ELSE @]
  /\ lock' = "worker"
  /\ UNCHANGED <<storeFaults, next, pending, refused>>

\* Mutant: the worker gives up on the queue when a start fails.
WorkerStarts_GivesUp ==
  /\ lock = "worker"
  /\ m.queued # {}
  /\ LET front == Min(m.queued) IN
     \E o \in StartNext(m, store, {}, "after_run") :
       /\ store' = o.st
       /\ IF o.ok THEN m' = o.m ELSE
          m' = [o.m EXCEPT !.queued = @ \ {front}, !.snapshots = @ \ {front}]
  /\ lock' = "free"
  /\ UNCHANGED <<storeFaults, next, pending, refused>>

\* One turn of the loop: the front starts, or is cancelled and the next tried.
WorkerStarts ==
  /\ lock = "worker"
  /\ m.queued # {}
  /\ LET front == Min(m.queued) IN
     \E o \in StartNext(m, store, {}, "after_run") :
       /\ store' = o.st
       /\ IF o.ok THEN m' = o.m /\ lock' = "free"
          ELSE /\ m' = [o.m EXCEPT !.queued = @ \ {front},
                                   !.snapshots = @ \ {front}]
               /\ UNCHANGED lock
  /\ UNCHANGED <<storeFaults, next, pending, refused>>

WorkerDone ==
  /\ lock = "worker"
  /\ m.queued = {}
  /\ lock' = "free"
  /\ UNCHANGED <<storeFaults, m, store, next, pending, refused>>

-----------------------------------------------------------------------------
(* Storage faults, and the death and restart of the process.               *)

StorageFails ==
  /\ storeFaults
  /\ ~m.failed
  /\ m' = [m EXCEPT !.failed = TRUE]
  /\ UNCHANGED <<storeFaults, store, next, pending, lock, refused>>

RecoverSessionJournal ==
  /\ lock = "free"
  /\ m.phase = "idle"
  /\ m.failed
  /\ m' = [m EXCEPT !.failed = FALSE]
  /\ UNCHANGED <<storeFaults, store, next, pending, lock, refused>>

\* Memory is lost; the next process closes every receipt still open and
\* executes none of them.  A run left open in the journal is closed at once in a
\* segmented session, and by the next run's start in a legacy one.
Restart ==
  /\ m' = Empty
  /\ LET recovered == RecoverReceipts(store, {"queued", "cancel_requested"})
         closed == [r \in Runs |-> IF recovered.journal[r] = "open" THEN "closed"
                                   ELSE recovered.journal[r]]
     IN store' \in {recovered, [recovered EXCEPT !.journal = closed]}
  /\ pending' = {}
  /\ lock' = "free"
  /\ UNCHANGED <<storeFaults, next, refused>>

-----------------------------------------------------------------------------
Next ==
  \/ \E policy \in {"plain", "coalesce", "supersede"} :
       \/ EnqueueWaits(policy)
       \/ EnqueueUnrecorded(policy)
       \/ EnqueueStarts(policy)
  \/ \E r \in Runs : EnqueueHalfSuperseded(r)
  \/ \E r \in Runs : CancelQueuedRun(r)
  \/ CancelAllQueuedRuns
  \/ RunEnds
  \/ RunFaults
  \/ SettleFault
  \/ \E r \in Runs : Announce(r)
  \/ WorkerPauses
  \/ WorkerWakes
  \/ WorkerStarts
  \/ WorkerDone
  \/ StorageFails
  \/ RecoverSessionJournal
  \/ Restart

\* The worker and the completion send are tokio tasks that are always polled.
\* Nothing obliges a run to end or a client to act.
Fairness ==
  /\ WF_vars(WorkerPauses \/ WorkerWakes)
  /\ WF_vars(WorkerStarts)
  /\ WF_vars(WorkerDone)
  /\ \A r \in Runs : WF_vars(Announce(r))

Spec == Init /\ [][Next]_vars
FairSpec == Spec /\ Fairness

-----------------------------------------------------------------------------
(* Properties.                                                             *)

\* A run starts at most once, and only while nothing has been recorded of it
\* but a waiting receipt: no order of cancelling, superseding, folding, failed
\* starts and restarts executes a prompt whose outcome is already recorded.
StartedOnce ==
  [][\A r \in Runs :
       store.journal[r] # "open" /\ store'.journal[r] = "open" =>
         /\ store.journal[r] = "none"
         /\ store.receipt[r] \in {"none", "queued"}]_vars

\* An accepted prompt is never lost: it waits, it runs, its journal says how
\* it ended, it was merged into another run, a receipt is left for the next
\* start to close, or its client was answered with an error.
NothingLost ==
  \A r \in 1..(next - 1) :
    \/ r \in m.queued \cup m.held \cup refused
    \/ store.journal[r] # "none"
    \/ store.receipt[r] \in {"queued", "cancel_requested", "merged"}

\* The journal never holds two open runs, and a running run is the open one:
\* a crash between start and end cannot hide behind a later start.
OneOpenRun ==
  /\ \A r, x \in Runs :
       store.journal[r] = "open" /\ store.journal[x] = "open" => r = x
  /\ m.phase = "running" => store.journal[m.run] = "open"

\* An idle session has no prompt waiting, so no completion wake was lost and
\* the staleness rule for idle sessions has nothing left to park.
NothingStranded ==
  /\ m.held = {}
  /\ lock = "free" /\ m.phase = "idle" /\ m.active = NoRun => m.queued = {}

\* While the store takes every write, a prompt waiting on an idle session
\* starts, is answered, or sees another run start: the wake-up after a run is
\* never lost.
WaitingMoves ==
  \A r \in Runs :
    (~storeFaults /\ r \in m.queued /\ m.phase = "idle")
      ~> (r \notin m.queued \/ m.phase # "idle")

\* session.rs, on_scheduled_run_finished: on a storage failure the scheduler
\* is "paused", and recover_session_journal is the "way back".  When storage
\* is healthy again, nothing runs and no completion is under way, the
\* scheduler holds no run.
PauseEnds ==
  ~m.failed /\ lock = "free" /\ m.phase = "idle" /\ pending = {}
    /\ m.wakes = << >> => m.active = NoRun
=============================================================================
