----------------------------- MODULE RunJournal -----------------------------
(***************************************************************************)
(* The run markers of one session's journal (run_started, run_terminal,    *)
(* run_stop_requested: agent/src/session/run_journal.rs and manager/mod.rs)*)
(* and who writes them: the start and the end of a run, a user's stop with *)
(* its marker thread, a shutdown, the recovery of a faulted run            *)
(* (agent/src/rpc/session.rs), and the start of the next process           *)
(* (agent/src/session/content/recovery.rs).                                *)
(*                                                                         *)
(* What is at stake is the outcome a later process reads: whether the      *)
(* latest run may be resumed, and that a user's stop is never undone.  The *)
(* live run is as SessionRuntime describes it.                             *)
(***************************************************************************)
EXTENDS Integers, Sequences, FiniteSetsExt

CONSTANTS
  MaxRuns,     \* runs started over all processes
  MaxStops     \* stop commands over all processes

ASSUME ConstantsAssumption == {MaxRuns, MaxStops} \subseteq Nat

VARIABLES
  segmented, \* the session's storage format: segmented, or legacy
  journal,  \* the session's run markers, in order
  live,     \* the active run: run, phase, cancellation cause, its task
  stop,     \* the abort_run call that holds the fault_recovery mutex
  markers,  \* runs whose stop marker a thread is still writing
  repair,   \* the markers a repair of the session has read, to write back
  stops,    \* stop commands so far
  stopped,  \* history: runs a stop reached and was answered with success
  lost      \* history: runs a stop marker was started for and never written

vars == <<segmented, journal, live, stop, markers, repair, stops, stopped, lost>>

Runs == 1..MaxRuns
NoRun == 0

Started(r) == [type |-> "started", run |-> r, state |-> "none", cause |-> "none"]
StopRequested(r) == [type |-> "stop", run |-> r, state |-> "none",
                     cause |-> "none"]
Terminal(r, state, cause) == [type |-> "terminal", run |-> r, state |-> state,
                              cause |-> cause]

NoTerminal == Terminal(NoRun, "none", "none")
NoStop == [at |-> "none", expected |-> NoRun]
Nothing == [run |-> NoRun, phase |-> "idle", cause |-> "none", task |-> "gone"]

-----------------------------------------------------------------------------
(* Reading the markers.                                                    *)

IndexesOf(j, type, r) ==
  {i \in 1..Len(j) : j[i].type = type /\ j[i].run = r}

LatestStarted(j) ==
  LET starts == {i \in 1..Len(j) : j[i].type = "started"} IN
  IF starts = {} THEN NoRun ELSE j[Max(starts)].run

\* The terminal of a run is the last one written for it.
FindRunTerminal(j, r) ==
  LET terminals == IndexesOf(j, "terminal", r) IN
  IF terminals = {} THEN NoTerminal ELSE j[Max(terminals)]

\* One pass that opens a run at its start and closes it at its own terminal.
FindUnterminatedRun(j) ==
  LET open[i \in 0..Len(j)] ==
        IF i = 0 THEN NoRun
        ELSE IF j[i].type = "started" THEN j[i].run
        ELSE IF j[i].type = "terminal" /\ j[i].run = open[i-1] THEN NoRun
        ELSE open[i-1]
  IN open[Len(j)]

\* Only the latest run, never one the user stopped, and only after a crash or
\* a shutdown of the system.
FindResumableRun(j) ==
  LET r == LatestStarted(j)
      t == FindRunTerminal(j, r)
  IN IF /\ IndexesOf(j, "stop", r) = {}
        /\ \/ t = NoTerminal
           \/ t.state = "interrupted"
              /\ t.cause \in {"system_shutdown", "outcome_unknown"}
     THEN r ELSE NoRun

\* The entries of j at the positions in I, in their order.
Picked(j, I) ==
  LET rows[i \in 0..Len(j)] ==
        IF i = 0 THEN << >>
        ELSE IF i \in I THEN Append(rows[i-1], j[i]) ELSE rows[i-1]
  IN rows[Len(j)]

\* Mutant: the stop marker is not among the headers that are read.
RunMarkerHeaders_NoStop(j) ==
  LET r == LatestStarted(j)
      latest == {i \in 1..Len(j) :
                   /\ j[i].run = r /\ j[i].type # "stop"
                   /\ \A k \in IndexesOf(j, j[i].type, r) : k <= i}
  IN IF segmented THEN Picked(j, latest) ELSE j

\* The segmented format reads, for the latest run only, the last marker of
\* each type; the legacy format reads every marker.
RunMarkerHeaders(j) ==
  LET r == LatestStarted(j)
      latest == {i \in 1..Len(j) :
                   /\ j[i].run = r
                   /\ \A k \in IndexesOf(j, j[i].type, r) : k <= i}
  IN IF segmented THEN Picked(j, latest) ELSE j

ResumableRunId == FindResumableRun(RunMarkerHeaders(journal))

-----------------------------------------------------------------------------
(* Writing them.                                                           *)

\* Mutant: a run left open by an earlier process is not closed.
AppendRunStart_LeavesOpen(j, r) == Append(j, Started(r))

\* append_run_start: a run left open is closed first, in one transaction.
AppendRunStart(j, r) ==
  LET open == FindUnterminatedRun(RunMarkerHeaders(j)) IN
  (IF open = NoRun THEN j ELSE Append(j, Terminal(open, "interrupted", "none")))
    \o <<Started(r)>>

\* Mutant: a recovery outcome is written whatever the store holds.
SettleRunIfUnfinished_Always(j, r, state) ==
  Append(j, Terminal(r, state, "none"))

\* settle_run_if_unfinished: a terminal that is there wins over every retry.
SettleRunIfUnfinished(j, r, state) ==
  IF FindRunTerminal(j, r) = NoTerminal
  THEN Append(j, Terminal(r, state, "none")) ELSE j

\* recover_segmented_runs: every run the store holds as running is closed, as
\* cancelled when its stop was journalled.
RecoverSegmentedRuns(j) ==
  LET running == {r \in Runs : /\ IndexesOf(j, "started", r) # {}
                               /\ FindRunTerminal(j, r) = NoTerminal}
      Closed(r) == IF IndexesOf(j, "stop", r) # {}
                   THEN Terminal(r, "cancelled", "user_stop")
                   ELSE Terminal(r, "interrupted", "process_restart")
  IN j \o Picked([r \in Runs |-> Closed(r)], running)

\* reconcile_user_stops_on_start, legacy sessions: the latest run, stopped and
\* not ended or ended by a restart, is cancelled.
ReconcileUserStops(j) ==
  LET r == LatestStarted(j)
      t == FindRunTerminal(j, r)
  IN IF /\ IndexesOf(j, "stop", r) # {}
        /\ t = NoTerminal \/ t.state = "interrupted"
     THEN Append(j, Terminal(r, "cancelled", "user_stop")) ELSE j

-----------------------------------------------------------------------------
Init ==
  /\ segmented \in BOOLEAN
  /\ journal = << >>
  /\ live = Nothing
  /\ stop = NoStop
  /\ markers = {}
  /\ repair = << >>
  /\ stops = 0
  /\ stopped = {}
  /\ lost = {}

(* The run and its task, as in SessionRuntime.                             *)

\* Under the session's write lock, so no stop is under way.
StartRun ==
  /\ live = Nothing
  /\ stop = NoStop
  /\ LatestStarted(journal) < MaxRuns
  /\ LET r == LatestStarted(journal) + 1 IN
     /\ journal' = AppendRunStart(journal, r)
     /\ live' = [run |-> r, phase |-> "running", cause |-> "none",
                 task |-> "streaming"]
  /\ UNCHANGED <<segmented, stop, markers, repair, stops, stopped, lost>>

TaskFence ==
  /\ live.task = "streaming"
  /\ live' = [live EXCEPT !.phase = "finalizing", !.task = "fenced"]
  /\ UNCHANGED <<segmented, journal, stop, markers, repair, stops, stopped, lost>>

\* The terminal the task writes after its fence.
TaskTerminal ==
  IF live.cause = "shutdown"
  THEN Terminal(live.run, "interrupted", "system_shutdown")
  ELSE Terminal(live.run,
                IF live.cause = "user" THEN "cancelled" ELSE "completed", "none")

TaskCommit ==
  /\ live.task = "fenced"
  /\ journal' = Append(journal, TaskTerminal)
  /\ live' = [live EXCEPT !.task = "committed"]
  /\ UNCHANGED <<segmented, stop, markers, repair, stops, stopped, lost>>

\* Legacy sessions only.  The commit is refused because an earlier append
\* failed, or its outcome is not known: the whole session is rewritten, from
\* the markers read now less the run's own terminal.  A failed read is taken
\* for a session without any.
TaskRepairReads ==
  /\ ~segmented
  /\ live.task = "fenced"
  /\ journal' \in {journal, Append(journal, TaskTerminal)}
  /\ LET old == Picked(journal,
                   1..Len(journal) \ IndexesOf(journal, "terminal", live.run))
         Kept(j) == IF IndexesOf(j, "started", live.run) = {}
                    THEN Append(j, Started(live.run)) ELSE j
     IN repair' \in {Kept(old), Kept(<< >>)}
  /\ live' = [live EXCEPT !.task = "repairing"]
  /\ UNCHANGED <<segmented, stop, markers, stops, stopped, lost>>

\* The rewrite replaces whatever the session holds by then.
TaskRepairWrites ==
  /\ live.task = "repairing"
  /\ journal' = Append(repair, TaskTerminal)
  /\ repair' = << >>
  /\ live' = [live EXCEPT !.task = "committed"]
  /\ UNCHANGED <<segmented, stop, markers, stops, stopped, lost>>

\* The commit is cancelled with the process: the run stays open on purpose.
TaskCommitCancelled ==
  /\ live.task = "fenced"
  /\ live.cause = "shutdown"
  /\ live' = [live EXCEPT !.task = "committed"]
  /\ UNCHANGED <<segmented, journal, stop, markers, repair, stops, stopped, lost>>

\* The commit reports an error, or the task panics; the terminal may have
\* reached the store.
TaskFaults ==
  /\ live.task # "gone"
  /\ \/ journal' = journal
     \/ live.task = "fenced" /\ journal' = Append(journal, TaskTerminal)
     \/ live.task = "repairing" /\ journal' = Append(repair, TaskTerminal)
  /\ repair' = << >>
  /\ live' = [live EXCEPT !.phase = "faulted", !.task = "gone"]
  /\ UNCHANGED <<segmented, stop, markers, stops, stopped, lost>>

\* The monitor releases a run that finalized, and keeps one marked stuck.
TaskReturns ==
  /\ live.task = "committed"
  /\ live' = IF live.phase = "finalizing" THEN Nothing
             ELSE [live EXCEPT !.task = "gone"]
  /\ UNCHANGED <<segmented, journal, stop, markers, repair, stops, stopped, lost>>

\* The acknowledgement timer of a stop saw the run cancelling; by the time it
\* marks it the run may be finalizing.
TimerMarks ==
  /\ live.phase \in {"cancelling", "finalizing"}
  /\ live.cause # "none"
  /\ live' = [live EXCEPT !.phase = "faulted"]
  /\ UNCHANGED <<segmented, journal, stop, markers, repair, stops, stopped, lost>>

-----------------------------------------------------------------------------
(* A user's stop: abort_run.                                               *)

\* Nothing is live: a resumable run is closed as cancelled, a stop of a run
\* that has its terminal, or of no run in particular, succeeds.
StopWhileIdle(expected) ==
  LET r == ResumableRunId
      closes == r # NoRun /\ expected \in {NoRun, r}
  IN /\ stop = NoStop
     /\ live = Nothing
     /\ stops < MaxStops
     /\ stops' = stops + 1
     /\ closes \/ expected = NoRun
          \/ FindRunTerminal(journal, expected) # NoTerminal
     /\ journal' = IF closes THEN Append(journal, Terminal(r, "cancelled", "none"))
                   ELSE journal
     /\ stopped' = IF expected # NoRun THEN stopped \cup {expected}
                   ELSE IF closes THEN stopped \cup {r} ELSE stopped
     /\ UNCHANGED <<segmented, live, stop, markers, repair, lost>>

\* A run is live: the stop goes on to find out whether it can still reach it.
StopBegins(expected) ==
  /\ stop = NoStop
  /\ live # Nothing
  /\ stops < MaxStops
  /\ stops' = stops + 1
  /\ stop' = [at |-> "target", expected |-> expected]
  /\ UNCHANGED <<segmented, journal, live, markers, repair, stopped, lost>>

\* Mutant: a run past its fence is no target, whatever stopped it.
StopTarget_BeforeFence ==
  IF /\ live.phase \in {"running", "cancelling"}
     /\ stop.expected \in {NoRun, live.run}
  THEN {live.run} ELSE {}

\* stop_target: the run a stop still reaches, a system interruption that is
\* already finalizing included.
StopTarget ==
  IF /\ live.phase \in {"running", "cancelling"} \/ live.cause = "shutdown"
     /\ stop.expected \in {NoRun, live.run}
  THEN {live.run} ELSE {}

\* begin_stop_marker: a thread writes the marker; the stop waits a moment.
StopMarks ==
  /\ stop.at = "target"
  /\ markers' = markers \cup StopTarget
  /\ stop' = [stop EXCEPT !.at = "request"]
  /\ UNCHANGED <<segmented, journal, live, repair, stops, stopped, lost>>

MarkerWritten(r) ==
  /\ r \in markers
  /\ markers' = markers \ {r}
  /\ \/ journal' = Append(journal, StopRequested(r)) /\ UNCHANGED lost
     \/ lost' = lost \cup {r} /\ UNCHANGED journal
  /\ UNCHANGED <<segmented, live, stop, repair, stops, stopped>>

\* request_abort, and the settling of a run that is already faulted.  On a run
\* that nothing interrupted and that is finalizing, or that is gone by now, an
\* unnamed stop succeeds and does nothing: it did not reach the run.
StopRequests ==
  /\ stop.at = "request"
  /\ stop.expected \in {NoRun, live.run}
  /\ IF live.phase \in {"running", "cancelling"}
     THEN /\ live' = [live EXCEPT !.phase = "cancelling", !.cause = "user"]
          /\ UNCHANGED journal
     ELSE IF live.phase = "faulted"
     THEN /\ live.task = "gone"
          /\ journal' = SettleRunIfUnfinished(journal, live.run, "cancelled")
          /\ live' = Nothing
     ELSE UNCHANGED <<journal, live>>
  /\ stopped' = IF live.phase \in {"running", "cancelling", "faulted"}
                    \/ live.cause # "none"
                 THEN stopped \cup {live.run} ELSE stopped
  /\ stop' = NoStop
  /\ UNCHANGED <<segmented, markers, repair, stops, lost>>

\* The stop fails: its run is no longer active, the failed run's task has not
\* exited, or its outcome cannot be stored.
StopRefused ==
  /\ stop.at = "request"
  /\ stop.expected \notin {NoRun, live.run} \/ live.phase = "faulted"
  /\ stop' = NoStop
  /\ UNCHANGED <<segmented, journal, live, markers, repair, stops, stopped, lost>>

-----------------------------------------------------------------------------
(* Shutdown, recovery and restart.                                         *)

\* interrupt_for_shutdown on a live run; a user's stop stays one.
ShutdownInterrupts ==
  /\ stop = NoStop
  /\ live.phase \in {"running", "cancelling"}
  /\ live' = [live EXCEPT !.phase = "cancelling",
                !.cause = IF @ = "user" THEN "user" ELSE "shutdown"]
  /\ UNCHANGED <<segmented, journal, stop, markers, repair, stops, stopped, lost>>

\* interrupt_for_shutdown on a faulted run: its outcome and, when that is the
\* shutdown's own, a second terminal that names the cause; the second write may
\* fail and be left to a later shutdown.
ShutdownSettles ==
  /\ stop = NoStop
  /\ live.phase = "faulted" /\ live.task = "gone"
  /\ LET r == live.run
         settled == SettleRunIfUnfinished(journal, r, "interrupted")
         own == FindRunTerminal(settled, r) = Terminal(r, "interrupted", "none")
         named == Append(settled, Terminal(r, "interrupted", "system_shutdown"))
     IN \/ /\ journal' = IF own THEN named ELSE settled
           /\ live' = Nothing
        \/ own /\ journal' = settled /\ UNCHANGED live
  /\ UNCHANGED <<segmented, stop, markers, repair, stops, stopped, lost>>

\* retry_persistence on a faulted run.
RecoverPersistenceDegraded ==
  /\ stop = NoStop
  /\ live.phase = "faulted" /\ live.task = "gone"
  /\ journal' = SettleRunIfUnfinished(journal, live.run, "interrupted")
  /\ live' = Nothing
  /\ UNCHANGED <<segmented, stop, markers, repair, stops, stopped, lost>>

\* The process dies and the next one starts; segmented sessions close what is
\* open, legacy sessions only what the user stopped.
Restart ==
  /\ journal' = IF segmented THEN RecoverSegmentedRuns(journal)
                ELSE ReconcileUserStops(journal)
  /\ live' = Nothing
  /\ stop' = NoStop
  /\ markers' = {}
  /\ repair' = << >>
  /\ lost' = lost \cup markers
  /\ UNCHANGED <<segmented, stops, stopped>>

Next ==
  \/ StartRun
  \/ TaskFence
  \/ TaskCommit
  \/ TaskRepairReads
  \/ TaskRepairWrites
  \/ TaskCommitCancelled
  \/ TaskFaults
  \/ TaskReturns
  \/ TimerMarks
  \/ \E expected \in Runs \cup {NoRun} : StopWhileIdle(expected)
  \/ \E expected \in Runs \cup {NoRun} : StopBegins(expected)
  \/ StopMarks
  \/ \E r \in Runs : MarkerWritten(r)
  \/ StopRequests
  \/ StopRefused
  \/ ShutdownInterrupts
  \/ ShutdownSettles
  \/ RecoverPersistenceDegraded
  \/ Restart

Spec == Init /\ [][Next]_vars

-----------------------------------------------------------------------------
(* Properties.                                                             *)

TypeOK ==
  /\ segmented \in BOOLEAN
  /\ live.run \in Runs \cup {NoRun}
  /\ live.phase \in {"idle", "running", "cancelling", "finalizing", "faulted"}
  /\ live.cause \in {"none", "user", "shutdown"}
  /\ stop.at \in {"none", "target", "request"}
  /\ stops \in 0..MaxStops
  /\ markers \cup stopped \cup lost \subseteq Runs
  /\ \A i \in 1..Len(journal) : journal[i].run \in Runs

\* Once a stop reached a run and was answered with success, and the run is
\* over, a segmented session, which appends and never rewrites, does not offer
\* to resume it: whatever the order of marker thread, fence, shutdown, recovery
\* and restart.  Excepted are stops whose marker was lost with the process or
\* refused by the store (run_journal.rs: the marker "survives a crash during
\* cancellation and a stop racing finalization").
SegmentedStopSurvives ==
  segmented =>
    \A r \in stopped \ (lost \cup markers \cup {live.run}) : ResumableRunId # r

\* The outcome of a run that ended by itself or was cancelled is final: no
\* recovery, late stop, shutdown, repair or restart makes it anything else as
\* long as the run is in the journal.
OutcomeFinal ==
  [][\A r \in Runs :
       LET t == FindRunTerminal(journal, r).state IN
       /\ t \in {"completed", "cancelled"}
       /\ IndexesOf(journal', "started", r) # {}
       => FindRunTerminal(journal', r).state = t]_vars

\* transcript.rs, read_run_marker_headers: "Only its latest start, stop and
\* terminal can affect admission/resume".  The few headers read answer both
\* questions as the whole journal would.
HeadersSuffice ==
  LET h == RunMarkerHeaders(journal) IN
  /\ FindUnterminatedRun(h) = FindUnterminatedRun(journal)
  /\ FindResumableRun(h) = FindResumableRun(journal)

\* In a segmented session every run before the latest has its start and its
\* outcome: what append_run_start and the recovery at start leave behind has no
\* gap.
RunHistoryKept ==
  segmented =>
    \A r \in 1..(LatestStarted(journal) - 1) :
      /\ IndexesOf(journal, "started", r) # {}
      /\ FindRunTerminal(journal, r) # NoTerminal
=============================================================================
