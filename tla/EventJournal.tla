---------------------------- MODULE EventJournal ----------------------------
(* The event journal of one segmented session: the broadcaster that stamps,   *)
(* admits and publishes events, the writer thread that stores them in         *)
(* batches, the barriers that fence them, and the end of a run, whose         *)
(* terminal is committed by the transcript's owner and published afterwards   *)
(* (src/agent/src/rpc/broadcaster/, src/agent/src/session/content/).          *)
(* Events are the numbers under which they were admitted. What the store      *)
(* makes of an event is decided by its stream, its index in it, and whether   *)
(* its content can ever be stored (bad); the content itself is left out.      *)
(* A session's own events have a stream too, numbered by session_idx; they    *)
(* pass as a run's events do and are not told apart here.                     *)
EXTENDS Naturals, Integers, Sequences, FiniteSets, FiniteSetsExt

CONSTANTS
    Producers,    \* callers of broadcast, which wait for a durable event
    MaxEvents,    \* bound: events admitted
    MaxRuns,      \* bound: runs of the session
    MaxFaults,    \* bound: storage calls that fail and admissions refused
    BatchMax      \* EVENT_BATCH_MAX_EVENTS

ASSUME BoundsAssumption ==
    /\ MaxEvents \in Nat /\ MaxRuns \in Nat \ {0} /\ MaxFaults \in Nat
    /\ BatchMax \in Nat \ {0}

VARIABLES
    ev,        \* the admitted events; Len(ev) is JournalControl::admitted
    idx,       \* per run the index of the next event (RunState::idx)
    health,    \* EventJournalHealth::last_error, "ok" when there is none
    closed,    \* EventJournalState::closed
    body,      \* the writer's channel of appended events
    lane,      \* the writer's control channel
    writer,    \* the writer thread's locals
    receipt,   \* per event the state of its durable receipt
    waiting,   \* per producer the event whose receipt it waits for, or 0
    fence,     \* per caller of a barrier its state and target
    store,     \* stream_runs.durable_cursor, stream_changes, sealed streams
    dropped,   \* events the writer gave up: refused for good, or failed
    run,       \* RunState::run_id: the run events are stamped with
    phase,     \* where the session is between two runs
    terminal,  \* per run how its agent_end reached the subscribers
    faults     \* number of failures so far

vars == <<ev, idx, health, closed, body, lane, writer, receipt, waiting,
          fence, store, dropped, run, phase, terminal, faults>>

Runs == 1..MaxRuns
Seqs == 1..MaxEvents
Callers == {"session", "shutdown"}
Control == [target : 0..MaxEvents, from : Callers]
NoControl == [target |-> 0, from |-> "nobody"]
Idle == [st |-> "none", target |-> 0]

TypeOK ==
    /\ ev \in Seq([stream : Runs, idx : Nat, bad : BOOLEAN, durable : BOOLEAN])
    /\ idx \in [Runs -> Nat]
    /\ health \in {"ok", "error"} /\ closed \in BOOLEAN
    /\ body \in Seq(Seqs) /\ lane \in Seq(Control)
    /\ writer \in [at : {"starting", "running", "exited"}, consumed : 0..MaxEvents,
                   pending : Seq(Seqs), failed : BOOLEAN, due : BOOLEAN,
                   held : Control \cup {NoControl}]
    /\ receipt \in [Seqs -> {"none", "open", "ok", "rejected", "unavailable"}]
    /\ waiting \in [Producers -> 0..MaxEvents]
    /\ fence \in [Callers -> [st : {"none", "queued", "ok", "err"}, target : 0..MaxEvents]]
    /\ store \in [cursor : [Runs -> Int], landed : SUBSET Seqs, sealed : SUBSET Runs]
    /\ dropped \in [refused : SUBSET Seqs, lost : SUBSET Seqs]
    /\ run \in Runs /\ phase \in {"active", "fencing", "commit", "publish", "ended", "starting", "recovering"}
    /\ terminal \in [Runs -> {"none", "live", "unsaved", "missing"}]
    /\ faults \in 0..MaxFaults

\* The first run has started; the session's journal was configured empty.
Init ==
    /\ ev = <<>> /\ idx = [r \in Runs |-> 0] /\ health = "ok" /\ closed = FALSE
    /\ body = <<>> /\ lane = <<>>
    /\ writer = [at |-> "starting", consumed |-> 0, pending |-> <<>>,
                 failed |-> FALSE, due |-> FALSE, held |-> NoControl]
    /\ receipt = [e \in Seqs |-> "none"] /\ waiting = [p \in Producers |-> 0]
    /\ fence = [c \in Callers |-> Idle]
    /\ store = [cursor |-> [r \in Runs |-> -1], landed |-> {}, sealed |-> {}]
    /\ dropped = [refused |-> {}, lost |-> {}]
    /\ run = 1 /\ phase = "active" /\ terminal = [r \in Runs |-> "none"] /\ faults = 0

-----------------------------------------------------------------------------
(* The store. commit_batch takes the change that continues its stream, and a *)
(* change it already has; anything else it refuses for good.                  *)

\* Mutant: a change is taken whatever its stream's cursor is.
Lands_AnyCursor(s, e) ==
    e \in s.landed \/ (~ev[e].bad /\ ev[e].stream \notin s.sealed)

Lands(s, e) ==
    \/ e \in s.landed
    \/ /\ ~ev[e].bad /\ ev[e].stream \notin s.sealed
       /\ ev[e].idx = s.cursor[ev[e].stream] + 1

Landed(s, e) ==
    [s EXCEPT !.cursor[ev[e].stream] = Max({@, ev[e].idx}), !.landed = @ \cup {e}]

\* The store after each event of a batch in turn, where the calls for the
\* events at the positions in down fail.
Persisted(s, batch, down) ==
    LET after[i \in 0..Len(batch)] ==
            IF i = 0 THEN s
            ELSE IF i \notin down /\ Lands(after[i-1], batch[i])
                 THEN Landed(after[i-1], batch[i])
                 ELSE after[i-1]
    IN  after

\* How many events from its start a batch has before one is refused.
Accepted(s, batch) ==
    LET after == Persisted(s, batch, {})
    IN  Max({n \in 0..Len(batch) : \A i \in 1..n : Lands(after[i-1], batch[i])})

-----------------------------------------------------------------------------
(* flush_event_batch: the outcomes one flush of the buffered events can have. *)

\* An answer is kept for a producer that waits; a deferred broadcast has
\* dropped the receiver.
Answered(rc, E, a) ==
    [e \in Seqs |-> IF e \notin E \/ rc[e] # "open" THEN rc[e]
                    ELSE IF \E p \in Producers : waiting[p] = e THEN a ELSE "none"]

At(batch, I) == {batch[i] : i \in I}

Outcome(s, pend, rc, h, fail, d, n) ==
    [store |-> s, pending |-> pend, receipt |-> rc, health |-> h,
     failed |-> fail, dropped |-> d, faults |-> n]

\* The whole batch is stored, in one or in several transactions.
FlushCommits(batch, rc) ==
    IF Accepted(store, batch) < Len(batch) THEN {}
    ELSE {Outcome(Persisted(store, batch, {})[Len(batch)], <<>>,
                  Answered(rc, At(batch, 1..Len(batch)), "ok"), "ok", FALSE, dropped, faults)}

\* Mutant: the buffered events are acknowledged although the store failed.
FlushFails_Acknowledges(batch, rc) ==
    IF faults = MaxFaults THEN {}
    ELSE {Outcome(store, batch, Answered(rc, At(batch, 1..Len(batch)), "ok"),
                  "error", TRUE, dropped, faults + 1)}

\* A storage error: transactions before it stay, the batch is kept whole.
FlushFails(batch, rc) ==
    IF faults = MaxFaults THEN {}
    ELSE {Outcome(Persisted(store, batch, {})[n], batch,
                  Answered(rc, At(batch, 1..Len(batch)), "unavailable"),
                  "error", TRUE, dropped, faults + 1) :
          n \in {k \in 0..Accepted(store, batch) : k < Len(batch)}}

\* The events of a batch that are in E, in their order: pushed one after the
\* other onto the vector of the next attempt.
Retry(batch, E) ==
    LET retry[i \in 0..Len(batch)] ==
            IF i = 0 THEN <<>>
            ELSE IF batch[i] \in E THEN Append(retry[i-1], batch[i]) ELSE retry[i-1]
    IN  retry[Len(batch)]

\* An event of the batch is refused: the events are tried one by one, and the
\* calls at the positions in down fail. A failed event without a receipt is
\* kept; one with a receipt is answered and not kept.
OneByOne(s, batch, rc, down) ==
    LET after == Persisted(s, batch, down)
        up == 1..Len(batch) \ down
        ok == {i \in up : Lands(after[i-1], batch[i])}
        kept == Retry(batch, {e \in At(batch, down) : rc[e] # "open"})
        lost == {e \in At(batch, down) : rc[e] = "open"} \ after[Len(batch)].landed
        answers == Answered(Answered(Answered(rc, At(batch, ok), "ok"),
                                     At(batch, up \ ok), "rejected"),
                            At(batch, down), "unavailable")
    IN  Outcome(after[Len(batch)], kept, answers,
                IF down = {} THEN health ELSE "error", down # {},
                [refused |-> dropped.refused \cup At(batch, up \ ok),
                 lost |-> dropped.lost \cup lost], faults + Cardinality(down))

FlushRefuses(batch, rc) ==
    LET n == Accepted(store, batch)
    IN  IF n = Len(batch) THEN {}
        ELSE {OneByOne(Persisted(store, batch, {})[k], batch, rc, down) :
              k \in 0..n,
              down \in {D \in SUBSET (1..Len(batch)) : Cardinality(D) <= MaxFaults - faults}}

FlushEventBatch(batch, rc) ==
    IF batch = <<>> THEN {Outcome(store, <<>>, rc, health, FALSE, dropped, faults)}
    ELSE FlushCommits(batch, rc) \cup FlushFails(batch, rc) \cup FlushRefuses(batch, rc)

\* Mutant: a failed batch is not scheduled again.
Due_OnlyHealthy(o) == o.pending # <<>> /\ ~o.failed

\* flush_and_schedule: the loop wakes again while something is buffered.
Due(o) == o.pending # <<>>

\* The flush o, with the writer's other locals as w has them.
Flushes(o, w) ==
    /\ store' = o.store /\ receipt' = o.receipt /\ health' = o.health
    /\ dropped' = o.dropped /\ faults' = o.faults
    /\ writer' = [w EXCEPT !.pending = o.pending, !.failed = o.failed, !.due = Due(o)]

-----------------------------------------------------------------------------
(* run_event_batch_writer *)

\* The thread reads the session's format before its first command, and ends
\* when it cannot.
WriterGivesUp ==
    /\ writer.at = "starting" /\ faults < MaxFaults /\ faults' = faults + 1
    /\ health' = "error" /\ writer' = [writer EXCEPT !.at = "exited"]
    /\ UNCHANGED <<ev, idx, closed, body, lane, receipt, waiting, fence, store,
                   dropped, run, phase, terminal>>

WriterTakesControl ==
    /\ writer.at # "exited" /\ writer.held = NoControl /\ lane # <<>>
    /\ writer' = [writer EXCEPT !.at = "running", !.held = Head(lane)] /\ lane' = Tail(lane)
    /\ UNCHANGED <<ev, idx, health, closed, body, receipt, waiting, fence, store,
                   dropped, run, phase, terminal, faults>>

\* Mutant: a barrier overtakes the events in the channel.
ControlReady_AtOnce == writer.held # NoControl

\* A barrier is answered only when the events up to its target were taken in.
ControlReady == writer.held # NoControl /\ writer.held.target <= writer.consumed

WriterServesControl ==
    /\ writer.at = "running" /\ ControlReady
    /\ \E o \in FlushEventBatch(writer.pending, receipt) :
         /\ Flushes(o, [writer EXCEPT !.held = NoControl,
                        !.at = IF writer.held.from = "shutdown" THEN "exited" ELSE @])
         /\ fence' = [fence EXCEPT ![writer.held.from].st = IF o.failed THEN "err" ELSE "ok"]
    /\ UNCHANGED <<ev, idx, closed, body, lane, waiting, run, phase, terminal>>

\* An append after a failed flush is answered at once and kept; a durable one,
\* or a full batch, is flushed; another waits for the batch window.
WriterTakesBody ==
    /\ writer.at # "exited" /\ ~ControlReady /\ body # <<>>
    /\ LET e == Head(body)
           rc == IF writer.failed THEN Answered(receipt, {e}, "unavailable") ELSE receipt
           batch == Append(writer.pending, e)
           w == [writer EXCEPT !.at = "running", !.consumed = e]
       IN  /\ body' = Tail(body)
           /\ IF rc[e] = "open" \/ Len(batch) >= BatchMax
              THEN \E o \in FlushEventBatch(batch, rc) : Flushes(o, w)
              ELSE /\ writer' = [w EXCEPT !.pending = batch, !.due = TRUE]
                   /\ receipt' = rc
                   /\ UNCHANGED <<health, store, dropped, faults>>
    /\ UNCHANGED <<ev, idx, closed, lane, waiting, fence, run, phase, terminal>>

\* The batch window, or the retry interval after a failure, has passed.
WriterTimer ==
    /\ writer.at = "running" /\ ~ControlReady /\ body = <<>> /\ writer.due
    /\ \E o \in FlushEventBatch(writer.pending, receipt) : Flushes(o, writer)
    /\ UNCHANGED <<ev, idx, closed, body, lane, waiting, fence, run, phase, terminal>>

-----------------------------------------------------------------------------
(* The broadcaster *)

Admits == ~closed

\* broadcast_stamped under its two locks: the event takes the next index of its
\* stream, is admitted and published; the caller may then wait for the receipt.
Broadcast(bad, durable) ==
    LET e == Len(ev) + 1
    IN  /\ Admits /\ health = "ok" /\ writer.at # "exited" /\ e <= MaxEvents
        /\ ev' = Append(ev, [stream |-> run, idx |-> idx[run], bad |-> bad, durable |-> durable])
        /\ idx' = [idx EXCEPT ![run] = @ + 1]
        /\ body' = Append(body, e)
        /\ receipt' = [receipt EXCEPT ![e] = IF durable THEN "open" ELSE "none"]
        /\ \/ UNCHANGED waiting
           \/ /\ durable
              /\ \E p \in Producers : waiting[p] = 0 /\ waiting' = [waiting EXCEPT ![p] = e]
        /\ UNCHANGED <<health, closed, lane, writer, fence, store, dropped, run,
                       phase, terminal, faults>>

\* Admission is refused - a backlog, a full channel, a writer that is gone, an
\* earlier failure: the event is dropped unstamped and the journal has failed.
BroadcastUnavailable ==
    /\ Admits /\ health = "ok"
    /\ \/ writer.at = "exited" /\ UNCHANGED faults
       \/ faults < MaxFaults /\ faults' = faults + 1
    /\ health' = "error"
    /\ UNCHANGED <<ev, idx, closed, body, lane, writer, receipt, waiting, fence,
                   store, dropped, run, phase, terminal>>

\* Mutant: the end of the worker does not wake its callers.
ReceiptAnswered_Reply(p) ==
    waiting[p] # 0 /\ receipt[waiting[p]] # "open"

\* WorkerReceipt::recv: the answer, or the end of a worker that left none.
ReceiptAnswered(p) ==
    /\ waiting[p] # 0
    /\ \/ receipt[waiting[p]] # "open"
       \/ writer.at = "exited"

\* The producer reads it later than the writer wrote it: the failure it
\* reports may be over by then.
ProducerReturns(p) ==
    /\ ReceiptAnswered(p)
    /\ health' = IF receipt[waiting[p]] \in {"ok", "rejected"} THEN health ELSE "error"
    /\ waiting' = [waiting EXCEPT ![p] = 0]
    /\ receipt' = [receipt EXCEPT ![waiting[p]] = IF @ = "open" THEN @ ELSE "none"]
    /\ UNCHANGED <<ev, idx, closed, body, lane, writer, fence, store, dropped, run,
                   phase, terminal, faults>>

-----------------------------------------------------------------------------
(* Barriers: a control command with the last admitted event as its target. A *)
(* run's start and end and a recovery take them; so do readers of stored      *)
(* content, whose barriers change nothing else and are left out.              *)

QueueFence(c) ==
    /\ fence[c] = Idle /\ writer.at # "exited"
    /\ lane' = Append(lane, [target |-> Len(ev), from |-> c])
    /\ fence' = [fence EXCEPT ![c] = [st |-> "queued", target |-> Len(ev)]]

\* The answer came, or the worker ended without one.
FenceAnswered(c) ==
    \/ fence[c].st \in {"ok", "err"}
    \/ fence[c].st = "queued" /\ writer.at = "exited"

FenceOk(c) == fence[c].st = "ok"

\* recover_storage between two runs, under the session's lock: if the barrier
\* succeeds it clears the failure, whatever has failed since.
RecoverStorage ==
    /\ phase = "ended" /\ ~closed /\ QueueFence("session") /\ phase' = "recovering"
    /\ UNCHANGED <<ev, idx, health, closed, body, writer, receipt, waiting, store,
                   dropped, run, terminal, faults>>

RecoverReturns ==
    /\ phase = "recovering" /\ FenceAnswered("session") /\ phase' = "ended"
    /\ fence' = [fence EXCEPT !["session"] = Idle]
    /\ health' = IF FenceOk("session") THEN "ok" ELSE health
    /\ UNCHANGED <<ev, idx, closed, body, lane, writer, receipt, waiting, store,
                   dropped, run, terminal, faults>>

\* shutdown_journal, or close_journal for a deletion, once the session's run
\* task is gone: admission closes first, then the writer drains and ends.
ShutdownJournal ==
    /\ phase = "ended" /\ ~closed /\ closed' = TRUE
    /\ \/ QueueFence("shutdown")
       \/ writer.at = "exited" /\ UNCHANGED <<lane, fence>>
    /\ UNCHANGED <<ev, idx, health, body, writer, receipt, waiting, store, dropped,
                   run, phase, terminal, faults>>

-----------------------------------------------------------------------------
(* The end of a run and the start of the next *)

\* abandon_run_for_persistence: two frames that no journal sees.
Abandons ==
    /\ phase' = "ended"
    /\ idx' = [idx EXCEPT ![run] = @ + 2]
    /\ terminal' = [terminal EXCEPT ![run] = "unsaved"]

\* The run task awaits flush_journal_async before it commits its terminal.
RunEnds ==
    /\ phase = "active"
    /\ IF health = "ok" /\ writer.at # "exited"
       THEN /\ QueueFence("session") /\ phase' = "fencing"
            /\ UNCHANGED <<health, idx, terminal>>
       ELSE /\ health' = "error" /\ Abandons
            /\ UNCHANGED <<lane, fence>>
    /\ UNCHANGED <<ev, closed, body, writer, receipt, waiting, store, dropped, run, faults>>

RunFenced ==
    /\ phase = "fencing" /\ FenceAnswered("session")
    /\ fence' = [fence EXCEPT !["session"] = Idle]
    /\ IF FenceOk("session") /\ health = "ok"
       THEN phase' = "commit" /\ UNCHANGED <<health, idx, terminal>>
       ELSE health' = "error" /\ Abandons
    /\ UNCHANGED <<ev, closed, body, lane, writer, receipt, waiting, store, dropped,
                   run, faults>>

\* append_boundary in the transaction of the run_terminal entry: the terminal
\* takes the cursor behind the last stored change, and seals the stream.
TerminalCommits ==
    /\ phase = "commit"
    /\ \/ /\ store' = [store EXCEPT !.cursor[run] = @ + 1, !.sealed = @ \cup {run}]
          /\ phase' = "publish"
          /\ UNCHANGED <<idx, terminal, faults>>
       \/ /\ faults < MaxFaults /\ faults' = faults + 1
          /\ Abandons /\ UNCHANGED store
    /\ UNCHANGED <<ev, health, closed, body, lane, writer, receipt, waiting, fence,
                   dropped, run>>

\* Mutant: the terminal is looked for one index too far.
TerminalFound_OffByOne == store.cursor[run] + 1 = idx[run]

\* publish_committed_terminal reads the record at the run's next index, and
\* publishes it if it is the terminal; otherwise the run is left degraded.
TerminalFound == store.cursor[run] = idx[run]

TerminalPublishes ==
    /\ phase = "publish" /\ phase' = "ended"
    /\ idx' = IF TerminalFound THEN [idx EXCEPT ![run] = @ + 1] ELSE idx
    /\ terminal' = [terminal EXCEPT ![run] = IF TerminalFound THEN "live" ELSE "missing"]
    /\ UNCHANGED <<ev, health, closed, body, lane, writer, receipt, waiting, fence,
                   store, dropped, run, faults>>

\* start_run_with_sequence: a prompt is accepted while the journal is healthy,
\* and its run fences the writer, reads its own tail and clears the failure.
RunStarts ==
    /\ phase = "ended" /\ run < MaxRuns /\ ~closed /\ health = "ok"
    /\ QueueFence("session") /\ phase' = "starting"
    /\ UNCHANGED <<ev, idx, health, closed, body, writer, receipt, waiting, store,
                   dropped, run, terminal, faults>>

RunStarted ==
    /\ phase = "starting" /\ FenceAnswered("session")
    /\ fence' = [fence EXCEPT !["session"] = Idle]
    /\ health' = IF FenceOk("session") THEN "ok" ELSE "error"
    /\ run' = run + 1 /\ phase' = "active"
    /\ UNCHANGED <<ev, idx, closed, body, lane, writer, receipt, waiting, store,
                   dropped, terminal, faults>>

-----------------------------------------------------------------------------

WriterNext == WriterTakesControl \/ WriterServesControl \/ WriterTakesBody \/ WriterTimer

Next ==
    \/ WriterNext \/ WriterGivesUp
    \/ \E bad, durable \in BOOLEAN : Broadcast(bad, durable)
    \/ BroadcastUnavailable
    \/ \E p \in Producers : ProducerReturns(p)
    \/ RecoverStorage \/ RecoverReturns \/ ShutdownJournal
    \/ RunEnds \/ RunFenced \/ TerminalCommits \/ TerminalPublishes
    \/ RunStarts \/ RunStarted

Spec == Init /\ [][Next]_vars

\* The writer thread runs, and a caller whose answer is there reads it.
FairSpec ==
    /\ Spec
    /\ WF_vars(WriterNext)
    /\ \A p \in Producers : WF_vars(ProducerReturns(p))
    /\ WF_vars(RecoverReturns) /\ WF_vars(RunFenced) /\ WF_vars(RunStarted)

-----------------------------------------------------------------------------
(* Properties *)

Settled == store.landed \cup dropped.refused \cup dropped.lost

\* A receipt tells the truth: an event acknowledged as committed is in the
\* store, and one reported as refused never gets there, whatever batches,
\* retries and partial commits it went through (flush_event_batch).
ReceiptsTrue ==
    \A e \in Seqs : /\ receipt[e] = "ok" => e \in store.landed
                    /\ receipt[e] = "rejected" => e \notin store.landed

\* A barrier that returns success covers every event admitted before it was
\* taken, although it travels in a lane that overtakes the events' channel
\* (journal_control.rs: "priority never lets it overtake that body"); and the
\* barrier of a shutdown covers every event ever admitted, because producers
\* that race it are refused (shutdown_journal closes admission before it
\* captures the target).
BarrierCovers ==
    /\ \A c \in Callers : fence[c].st = "ok" => 1..fence[c].target \subseteq Settled
    /\ fence["shutdown"].st = "ok" => 1..Len(ev) \subseteq Settled

\* What replays a stream sees no hole: the stored events of a stream are all
\* its events up to the last stored one, whatever was retried or dropped.
StreamsDense ==
    \A e, f \in 1..Len(ev) :
        /\ e < f /\ ev[e].stream = ev[f].stream /\ f \in store.landed
        => e \in store.landed

\* The committed terminal of a run fails to reach its subscribers only when
\* some event of the run did not reach the store: its cursor is taken in the
\* store and compared with the broadcaster's (publish_committed_terminal).
TerminalMissedOnlyAfterLoss ==
    \A r \in Runs : terminal[r] = "missing" =>
        \E e \in 1..Len(ev) : ev[e].stream = r /\ e \notin store.landed

\* Only what the journal can never store is given up: the events admitted with
\* a refused one, or behind it, still land (journal_writer.rs: "drop those, and
\* keep the journal live for everything else"; "events after it still land").
\* Events of a run whose end has begun are not counted.
OnlyRefusedDropped ==
    \A e \in dropped.refused \cup dropped.lost :
        ev[e].bad \/ ev[e].stream # run \/ phase # "active"

\* Every admitted event is stored or given up, unless the writer ends first:
\* a failed batch is retried without waiting for a new event or a run
\* (flush_and_schedule: "the journal heals itself while nobody is running").
EventsSettle == \A e \in Seqs : e <= Len(ev) ~> (e \in Settled \/ writer.at = "exited")

\* Nobody waits for ever: every durable broadcast and every barrier returns,
\* also when the writer gives up before it read the command.
CallersReturn ==
    /\ \A p \in Producers : waiting[p] # 0 ~> waiting[p] = 0
    /\ fence["session"] # Idle ~> fence["session"] = Idle
=============================================================================
