--------------------------- MODULE ServiceShutdown ---------------------------
(***************************************************************************)
(* Admission, work ownership and the shutdown drain of one agent service:  *)
(* agent/src/service/{work,activity,shutdown,mod}.rs, with the pieces of   *)
(* the session that take part (prompts, run tasks and their monitors,      *)
(* blocking children, scheduler workers, cancellation timers).             *)
(*                                                                         *)
(* Every command, detached thread, child, monitor, worker and timer holds  *)
(* a guard that is counted under one mutex.  Shutdown closes admission and *)
(* a native supervisor drains what is left while a native watcher enforces *)
(* the deadline; only a clean report lets the host retire the service and  *)
(* give up the instance lock.  An updater may reserve an idle service      *)
(* instead of stopping a busy one.                                         *)
(*                                                                         *)
(* Approvals are ApprovalGate's and faults of a run SessionRuntime's.  The *)
(* revision is only ever compared with the one the updater read, so it is  *)
(* one bit of the updater: clean, no guard moved since.                    *)
(***************************************************************************)
EXTENDS Naturals

CONSTANTS
  Sessions,     \* the sessions commands may create (durable ones)
  Clients,      \* connections, each with one command in flight
  MaxRuns,      \* prompts a session accepts (a bound)
  MaxCommands   \* commands a client sends (a bound)

ASSUME ShutdownAssumption == MaxRuns \in Nat /\ MaxCommands \in Nat

VARIABLES
  work,      \* ServiceWork: closed, retired and the three counts
  cmd,       \* client -> its command: place, session, number sent so far
  known,     \* the session map
  sess,      \* session -> task, control, child, queue, worker, timer
  refresh,   \* a detached background thread runs
  server,    \* the RPC server's future is alive
  drain,     \* the supervisor: stage, sessions left, errors met
  report,    \* the shutdown report
  closed,    \* sessions whose writers are closed, and the storage
  updater,   \* close_idle_admission in progress
  fate       \* history: session -> runs accepted, started, taken, recorded

vars == <<work, cmd, known, sess, refresh, server, drain, report, closed,
          updater, fate>>

Init ==
  /\ work = [closed |-> FALSE, retired |-> FALSE, commands |-> 0,
             background |-> 0, auxiliary |-> 0]
  /\ cmd = [c \in Clients |-> [pc |-> "out", session |-> "none", sent |-> 0]]
  /\ known = {}
  /\ sess = [s \in Sessions |->
       [task |-> "none", control |-> "none", child |-> FALSE, queue |-> 0,
        worker |-> "gone", timer |-> "off"]]
  /\ refresh = FALSE
  /\ server = TRUE
  /\ drain = [stage |-> "off", left |-> {}, errors |-> FALSE]
  /\ report = "none"
  /\ closed = [writers |-> {}, storage |-> FALSE]
  /\ updater = [pc |-> "off", left |-> {}, busy |-> FALSE, clean |-> FALSE]
  /\ fate = [s \in Sessions |->
       [accepted |-> 0, started |-> 0, taken |-> 0, recorded |-> 0]]

-----------------------------------------------------------------------------
(* ServiceWork.                                                            *)

\* Mutant: a guard moves its count and not the revision.
Counted_NoRevision(delta) ==
  /\ work' = delta
  /\ UNCHANGED updater

\* Guards are taken or dropped: counts and revision move together.
Counted(delta) ==
  /\ work' = delta
  /\ updater' = [updater EXCEPT !.clean = FALSE]

\* register refuses a closed service; a child of owned work is let in until
\* the service is retired.
Enter == ~work.closed /\ Counted([work EXCEPT !.commands = @ + 1])
Leave == Counted([work EXCEPT !.commands = @ - 1])

\* Mutant: native and auxiliary work is not waited for.
Counts_CommandsOnly == <<work.commands, 0>>

\* What shutdown waits for: commands, and all other work.
Counts == <<work.commands, work.background + work.auxiliary>>

\* Someone holds the session's write lock across several steps: a prompt or
\* the scheduler worker about to start a run.
WriteLocked(s) ==
  \/ \E c \in Clients : cmd[c].pc = "starting" /\ cmd[c].session = s
  \/ sess[s].worker \in {"starting", "entered"}

Owned(s) == sess[s].task # "none"

-----------------------------------------------------------------------------
(* Commands.                                                               *)

CommandEnters(c) ==
  /\ cmd[c].pc = "out" /\ cmd[c].sent < MaxCommands
  /\ Enter
  /\ cmd' = [cmd EXCEPT ![c].pc = "in", ![c].sent = @ + 1]
  /\ UNCHANGED <<known, sess, refresh, server, drain, report, closed, fate>>

CommandLeaves(c) ==
  /\ cmd[c].pc \in {"in", "done"}
  /\ Leave
  /\ cmd' = [cmd EXCEPT ![c].pc = "out", ![c].session = "none"]
  /\ UNCHANGED <<known, sess, refresh, server, drain, report, closed, fate>>

\* A session is created or hydrated; its scheduler worker is auxiliary work.
CommandCreates(c, s) ==
  /\ cmd[c].pc = "in" /\ s \notin known
  /\ updater.pc # "look"                       \* the map is read-locked
  /\ Counted([work EXCEPT !.auxiliary = @ + 1])
  /\ cmd' = [cmd EXCEPT ![c].pc = "done"]
  /\ known' = known \cup {s}
  /\ sess' = [sess EXCEPT ![s].worker = "waiting"]
  /\ UNCHANGED <<refresh, server, drain, report, closed, fate>>

\* The session has a run, or has not been told yet that it ended.
Busy(s) == Owned(s) \/ sess[s].control # "none" \/ sess[s].worker = "woken"

\* A prompt is accepted: behind a run it waits, otherwise it goes on to start.
CommandPrompts(c, s) ==
  /\ cmd[c].pc = "in" /\ s \in known /\ ~WriteLocked(s)
  /\ fate[s].accepted < MaxRuns
  /\ IF Busy(s)
     THEN /\ sess' = [sess EXCEPT ![s].queue = @ + 1]
          /\ fate' = [fate EXCEPT ![s].accepted = @ + 1]
          /\ cmd' = [cmd EXCEPT ![c].pc = "done"]
     ELSE /\ cmd' = [cmd EXCEPT ![c].pc = "starting", ![c].session = s]
          /\ UNCHANGED <<sess, fate>>
  /\ UNCHANGED <<work, known, refresh, server, drain, report, closed, updater>>

\* A task and its monitor are spawned.
Spawned(s) == [sess EXCEPT ![s].task = "working", ![s].control = "active"]

\* start_next_scheduled enters again inside the command, so a prompt that
\* was admitted is still refused when admission has closed since.
CommandStarts(c) ==
  LET s == cmd[c].session IN
  /\ cmd[c].pc = "starting"
  /\ IF work.closed
     THEN UNCHANGED <<work, updater, sess, fate>>
     ELSE /\ Counted([work EXCEPT !.auxiliary = @ + 1])
          /\ sess' = Spawned(s)
          /\ fate' = [fate EXCEPT ![s].accepted = @ + 1, ![s].started = @ + 1]
  /\ cmd' = [cmd EXCEPT ![c].pc = "done"]
  /\ UNCHANGED <<known, refresh, server, drain, report, closed>>

\* An abort arms the cancellation timer, in place of an earlier one.
CommandAborts(c, s) ==
  /\ cmd[c].pc = "in" /\ s \in known /\ ~WriteLocked(s)
  /\ sess[s].control = "active"
  /\ IF sess[s].timer = "armed" THEN UNCHANGED <<work, updater>>
     ELSE Counted([work EXCEPT !.auxiliary = @ + 1])
  /\ sess' = [sess EXCEPT ![s].timer = "armed"]
  /\ cmd' = [cmd EXCEPT ![c].pc = "done"]
  /\ UNCHANGED <<known, refresh, server, drain, report, closed, fate>>

\* A command that leaves a detached thread behind, with a guard of its own.
BackgroundStarts(c) ==
  /\ cmd[c].pc = "in" /\ ~refresh
  /\ ~work.closed
  /\ Counted([work EXCEPT !.background = @ + 1])
  /\ refresh' = TRUE
  /\ cmd' = [cmd EXCEPT ![c].pc = "done"]
  /\ UNCHANGED <<known, sess, server, drain, report, closed, fate>>

BackgroundEnds ==
  /\ refresh
  /\ Counted([work EXCEPT !.background = @ - 1])
  /\ refresh' = FALSE
  /\ UNCHANGED <<cmd, known, sess, server, drain, report, closed, fate>>

-----------------------------------------------------------------------------
(* Runs, their children, monitors, timers and scheduler workers.           *)

\* A run hands a blocking step (input snapshot, shell, commit) to a thread.
ChildStarts(s) ==
  /\ sess[s].task = "working" /\ ~sess[s].child
  /\ Counted([work EXCEPT !.background = @ + 1])
  /\ sess' = [sess EXCEPT ![s].child = TRUE]
  /\ UNCHANGED <<cmd, known, refresh, server, drain, report, closed, fate>>

ChildEnds(s) ==
  /\ sess[s].child
  /\ Counted([work EXCEPT !.background = @ - 1])
  /\ sess' = [sess EXCEPT ![s].child = FALSE]
  /\ UNCHANGED <<cmd, known, refresh, server, drain, report, closed, fate>>

\* The task returns after its children, or panics with one of them alive.
TaskEnds(s) ==
  /\ sess[s].task = "working"
  /\ \/ ~sess[s].child /\ sess' = [sess EXCEPT ![s].task = "returned"]
     \/ sess' = [sess EXCEPT ![s].task = "panicked"]
  /\ UNCHANGED <<work, cmd, known, refresh, server, drain, report, closed,
                 updater, fate>>

\* The monitor frees the slot.  A clean run releases control and wakes the
\* scheduler worker; a panic, or a timeout before, leaves the run stuck.
MonitorEnds(s) ==
  LET clean == sess[s].task = "returned" /\ sess[s].control = "active" IN
  /\ sess[s].task \in {"returned", "panicked"}
  /\ Counted([work EXCEPT !.auxiliary = @ - 1])
  /\ sess' = [sess EXCEPT ![s].task = "none",
                          ![s].control = IF clean THEN "none" ELSE "stuck",
                          ![s].worker = IF clean /\ @ = "waiting"
                                        THEN "woken" ELSE @]
  /\ UNCHANGED <<cmd, known, refresh, server, drain, report, closed, fate>>

TimerFires(s) ==
  /\ sess[s].timer = "armed"
  /\ Counted([work EXCEPT !.auxiliary = @ - 1])
  /\ sess' = [sess EXCEPT ![s].timer = "off",
                          ![s].control = IF @ = "active" THEN "stuck" ELSE @]
  /\ UNCHANGED <<cmd, known, refresh, server, drain, report, closed, fate>>

\* on_scheduled_run_finished takes the write lock and looks whether the
\* service is closed.
WorkerLooks(s) ==
  /\ sess[s].worker = "woken"
  /\ ~WriteLocked(s)
  /\ sess' = [sess EXCEPT ![s].worker =
       IF work.closed \/ sess[s].queue = 0 THEN "waiting" ELSE "starting"]
  /\ UNCHANGED <<work, cmd, known, refresh, server, drain, report, closed,
                 updater, fate>>

\* start_next_scheduled enters.  Refused, the worker takes it for a failed
\* start and drops the row and, in its loop, every row behind it.
WorkerEnters(s) ==
  /\ sess[s].worker = "starting"
  /\ IF work.closed
     THEN /\ sess' = [sess EXCEPT ![s].worker = "waiting", ![s].queue = 0]
          /\ UNCHANGED <<work, updater>>
     ELSE /\ Enter
          /\ sess' = [sess EXCEPT ![s].worker = "entered"]
  /\ UNCHANGED <<cmd, known, refresh, server, drain, report, closed, fate>>

WorkerSpawns(s) ==
  /\ sess[s].worker = "entered"
  /\ Counted([work EXCEPT !.commands = @ - 1, !.auxiliary = @ + 1])
  /\ sess' = [Spawned(s) EXCEPT ![s].worker = "waiting", ![s].queue = @ - 1]
  /\ fate' = [fate EXCEPT ![s].started = @ + 1]
  /\ UNCHANGED <<cmd, known, refresh, server, drain, report, closed>>

\* stop_scheduler aborted the worker: it ends where it waits.
WorkerAborted(s) ==
  /\ sess[s].worker = "aborted"
  /\ Counted([work EXCEPT !.auxiliary = @ - 1])
  /\ sess' = [sess EXCEPT ![s].worker = "gone"]
  /\ UNCHANGED <<cmd, known, refresh, server, drain, report, closed, fate>>

\* stop_cancellation_timer aborted the timer: it ends in its sleep.
TimerAborted(s) ==
  /\ sess[s].timer = "aborted"
  /\ Counted([work EXCEPT !.auxiliary = @ - 1])
  /\ sess' = [sess EXCEPT ![s].timer = "off"]
  /\ UNCHANGED <<cmd, known, refresh, server, drain, report, closed, fate>>

SessionStep(s) ==
  \/ ChildStarts(s) \/ ChildEnds(s) \/ TaskEnds(s) \/ MonitorEnds(s)
  \/ WorkerLooks(s) \/ WorkerEnters(s) \/ WorkerSpawns(s) \/ WorkerAborted(s)
  \/ TimerAborted(s)

-----------------------------------------------------------------------------
(* close_idle_admission: reserve the service if it is idle.                *)

UpdaterBegins ==
  /\ updater.pc = "off"
  /\ report # "Failed"
  /\ updater' = [pc |-> "counts", left |-> {}, busy |-> FALSE, clean |-> TRUE]
  /\ UNCHANGED <<work, cmd, known, sess, refresh, server, drain, report,
                 closed, fate>>

\* Commands and background work, not the auxiliary workers.
UpdaterCounts ==
  /\ updater.pc = "counts"
  /\ updater' = [updater EXCEPT !.pc = "look", !.left = known,
                                !.busy = work.commands + work.background > 0]
  /\ UNCHANGED <<work, cmd, known, sess, refresh, server, drain, report,
                 closed, fate>>

\* Each session in turn; a lock that is taken means unknown, never idle.
UpdaterLooks(s) ==
  /\ updater.pc = "look" /\ s \in updater.left
  /\ updater' =
       IF WriteLocked(s) THEN [updater EXCEPT !.pc = "off"]
       ELSE [updater EXCEPT !.left = @ \ {s},
                            !.busy = @ \/ Owned(s) \/ sess[s].queue > 0
                                       \/ sess[s].control # "none"]
  /\ UNCHANGED <<work, cmd, known, sess, refresh, server, drain, report,
                 closed, fate>>

\* close_if_revision: nothing was counted in or out since the first read.
UpdaterCloses ==
  /\ updater.pc = "look" /\ updater.left = {}
  /\ work' = [work EXCEPT !.closed =
       @ \/ (~updater.busy /\ updater.clean)]
  /\ updater' = [updater EXCEPT !.pc = "off", !.clean = FALSE]
  /\ UNCHANGED <<cmd, known, sess, refresh, server, drain, report, closed,
                 fate>>

-----------------------------------------------------------------------------
(* Shutdown.                                                               *)

\* The first request starts the supervisor and the deadline watcher.
RequestShutdown ==
  /\ drain.stage = "off"
  /\ Counted([work EXCEPT !.closed = TRUE])
  /\ drain' = [drain EXCEPT !.stage = "interrupt", !.left = known]
  /\ UNCHANGED <<cmd, known, sess, refresh, server, report, closed, fate>>

\* The host drops the serving future: it asks for the shutdown itself.
ServerDropped ==
  /\ server
  /\ server' = FALSE
  /\ Counted([work EXCEPT !.closed = TRUE])
  /\ drain' = IF drain.stage = "off"
              THEN [drain EXCEPT !.stage = "interrupt", !.left = known]
              ELSE drain
  /\ UNCHANGED <<cmd, known, sess, refresh, report, closed, fate>>

\* finish: the first report stands.
Finish(status) == report' = IF report = "none" THEN status ELSE report

\* The watcher's thread: past the deadline a missing report is a failure.
DeadlineExpires ==
  /\ drain.stage # "off" /\ report = "none"
  /\ Finish("Failed")
  /\ UNCHANGED <<work, cmd, known, sess, refresh, server, drain, closed,
                 updater, fate>>

\* The stage is over: its loop over `left' is done, or what it waits for holds.
Stage(from, ready, to, left) ==
  /\ drain.stage = from /\ ready
  /\ drain' = [drain EXCEPT !.stage = to, !.left = left]
  /\ UNCHANGED <<work, cmd, known, sess, refresh, server, report, closed,
                 updater, fate>>

\* What interrupt_for_shutdown settles: a faulted run whose task is gone, if
\* its outcome can be stored.
Settled(s) ==
  IF sess[s].control = "stuck" /\ ~Owned(s)
  THEN {[sess[s] EXCEPT !.control = c] : c \in {"none", "stuck"}}
  ELSE {sess[s]}

\* First pass, under the read lock.
DrainInterrupts(s) ==
  /\ drain.stage = "interrupt" /\ s \in drain.left /\ ~WriteLocked(s)
  /\ \E x \in Settled(s) : sess' = [sess EXCEPT ![s] = x]
  /\ drain' = [drain EXCEPT !.left = @ \ {s}]
  /\ UNCHANGED <<work, cmd, known, refresh, server, report, closed, updater,
                 fate>>

\* Mutant: the sessions of the first snapshot are used again.
DrainCommandsEnd_OldSnapshot ==
  Stage("interrupt", drain.left = {} /\ work.commands = 0, "queues", {})

\* The admitted commands have ended: the sessions they created are known.
DrainCommandsEnd ==
  Stage("interrupt", drain.left = {} /\ work.commands = 0, "queues", known)

\* stop_scheduler and stop_cancellation_timer.
StopAuxiliary(x) ==
  [x EXCEPT !.worker = IF @ \in {"waiting", "woken"} THEN "aborted" ELSE @,
            !.timer = IF @ = "armed" THEN "aborted" ELSE @]

\* Second pass, under the write lock: interrupt again, stop the scheduler
\* and the timer, take the queue.
DrainStops(s) ==
  /\ drain.stage = "queues" /\ s \in drain.left /\ ~WriteLocked(s)
  /\ \E x \in Settled(s) :
       sess' = [sess EXCEPT ![s] = [StopAuxiliary(x) EXCEPT !.queue = 0]]
  /\ fate' = [fate EXCEPT ![s].taken = sess[s].queue]
  /\ drain' = [drain EXCEPT !.left = @ \ {s}]
  /\ UNCHANGED <<work, cmd, known, refresh, server, report, closed, updater>>

DrainQueuesTaken == Stage("queues", drain.left = {}, "counts", {})

\* The wait for runs and native work: the counts, then every session's task
\* slot, then the counts again; any of them sends it back to the start.
DrainCounts == Stage("counts", Counts = <<0, 0>>, "look", known)

DrainLooks(s) ==
  /\ drain.stage = "look" /\ s \in drain.left
  /\ drain' = IF Owned(s) \/ WriteLocked(s)
              THEN [drain EXCEPT !.stage = "counts", !.left = {}]
              ELSE [drain EXCEPT !.left = @ \ {s}]
  /\ UNCHANGED <<work, cmd, known, sess, refresh, server, report, closed,
                 updater, fate>>

DrainCountsAgain ==
  Stage("look", drain.left = {},
        IF Counts = <<0, 0>> THEN "terminals" ELSE "counts",
        IF Counts = <<0, 0>> THEN known ELSE {})

\* Mutant: a terminal that could not be stored is not an error.
DrainRecords_Ignores(s) ==
  /\ drain.stage = "terminals" /\ s \in drain.left
  /\ \E n \in 0..fate[s].taken :
       fate' = [fate EXCEPT ![s].recorded = n]
  /\ drain' = [drain EXCEPT !.left = @ \ {s}]
  /\ UNCHANGED <<work, cmd, known, sess, refresh, server, report, closed,
                 updater>>

\* The queued runs taken before get their terminals; a failed write is an
\* error of the report.
DrainRecords(s) ==
  /\ drain.stage = "terminals" /\ s \in drain.left
  /\ \E n \in 0..fate[s].taken :
       /\ fate' = [fate EXCEPT ![s].recorded = n]
       /\ drain' = [drain EXCEPT !.left = @ \ {s},
                                 !.errors = @ \/ n < fate[s].taken]
  /\ UNCHANGED <<work, cmd, known, sess, refresh, server, report, closed,
                 updater>>

DrainRecorded == Stage("terminals", drain.left = {}, "monitors", {})

MonitorsSettled ==
  \A s \in known :
    sess[s].worker = "gone" /\ sess[s].timer = "off" /\ ~Owned(s)

\* Schedulers, monitors and timers have settled.
DrainMonitorsSettle == Stage("monitors", MonitorsSettled, "writers", known)

\* A session's writers are closed; a run still unresolved, or a writer that
\* cannot close, is an error.
DrainClosesWriters(s) ==
  /\ drain.stage = "writers" /\ s \in drain.left
  /\ closed' = [closed EXCEPT !.writers = @ \cup {s}]
  /\ \E failed \in BOOLEAN :
       drain' = [drain EXCEPT !.left = @ \ {s},
          !.errors = @ \/ failed \/ sess[s].control # "none"]
  /\ UNCHANGED <<work, cmd, known, sess, refresh, server, report, updater,
                 fate>>

DrainStopsListener == Stage("writers", drain.left = {}, "listener", {})

\* The listener drains on its own, or is abandoned after its grace.
ServerEnds ==
  /\ server
  /\ drain.stage \in {"listener", "abandoned"}
  /\ server' = FALSE
  /\ UNCHANGED <<work, cmd, known, sess, refresh, drain, report, closed,
                 updater, fate>>

DrainAbandonsListener == Stage("listener", server, "abandoned", {})

DrainListenerEnded ==
  /\ drain.stage \in {"listener", "abandoned"}
  /\ Stage(drain.stage, ~server, "storage", {})

DrainClosesStorage ==
  /\ drain.stage = "storage"
  /\ closed' = [closed EXCEPT !.storage = TRUE]
  /\ \E failed \in BOOLEAN :
       drain' = [drain EXCEPT !.stage = "returned", !.errors = @ \/ failed]
  /\ UNCHANGED <<work, cmd, known, sess, refresh, server, report, updater,
                 fate>>

\* The drain is in a wait that is not over.
DrainWaits ==
  \/ drain.stage = "interrupt" /\ drain.left = {} /\ work.commands > 0
  \/ drain.stage = "counts" /\ Counts # <<0, 0>>
  \/ drain.stage = "monitors" /\ ~MonitorsSettled
  \/ drain.stage = "abandoned" /\ server

\* A wait ends the drain once a report exists.
DrainGivesUp ==
  /\ report # "none"
  /\ DrainWaits
  /\ drain' = [drain EXCEPT !.stage = "returned"]
  /\ UNCHANGED <<work, cmd, known, sess, refresh, server, report, closed,
                 updater, fate>>

DrainReports ==
  /\ drain.stage = "returned"
  /\ Finish(IF drain.errors THEN "Failed" ELSE "Stopped")
  /\ drain' = [drain EXCEPT !.stage = "over"]
  /\ UNCHANGED <<work, cmd, known, sess, refresh, server, closed, updater,
                 fate>>

\* finish_scope: a clean report and no guard left retire the service.
Retire ==
  /\ report = "Stopped" /\ ~work.retired
  /\ Counts = <<0, 0>>
  /\ work' = [work EXCEPT !.retired = TRUE]
  /\ UNCHANGED <<cmd, known, sess, refresh, server, drain, report, closed,
                 updater, fate>>

DrainStep ==
  \/ \E s \in known : \/ DrainInterrupts(s) \/ DrainStops(s) \/ DrainLooks(s)
                      \/ DrainRecords(s) \/ DrainClosesWriters(s)
  \/ DrainCommandsEnd \/ DrainQueuesTaken \/ DrainCounts \/ DrainCountsAgain
  \/ DrainRecorded \/ DrainMonitorsSettle \/ DrainStopsListener
  \/ DrainAbandonsListener \/ DrainListenerEnded \/ DrainClosesStorage
  \/ DrainGivesUp \/ DrainReports

-----------------------------------------------------------------------------
CommandActs(c) ==
  \/ CommandStarts(c) \/ CommandLeaves(c) \/ BackgroundStarts(c)
  \/ \E s \in Sessions :
       CommandCreates(c, s) \/ CommandPrompts(c, s) \/ CommandAborts(c, s)

Next ==
  \/ \E c \in Clients : CommandEnters(c) \/ CommandActs(c)
  \/ BackgroundEnds
  \/ \E s \in Sessions : SessionStep(s) \/ TimerFires(s) \/ UpdaterLooks(s)
  \/ UpdaterBegins \/ UpdaterCounts \/ UpdaterCloses
  \/ RequestShutdown \/ ServerDropped \/ ServerEnds \/ DeadlineExpires
  \/ DrainStep \/ Retire

Spec == Init /\ [][Next]_vars

\* What was admitted goes on: commands, detached threads, children, tasks
\* that honour their interrupt, monitors and workers; so do the supervisor
\* and a server that was told to drop its clients.  Nothing makes a timer
\* fire, the deadline pass or a client let go of its connection.
Fairness ==
  /\ \A c \in Clients : WF_vars(CommandStarts(c) \/ CommandLeaves(c))
  /\ WF_vars(BackgroundEnds)
  /\ \A s \in Sessions :
       /\ WF_vars(ChildEnds(s))
       /\ WF_vars(TaskEnds(s))
       /\ WF_vars(MonitorEnds(s))
       /\ WF_vars(WorkerEnters(s) \/ WorkerSpawns(s) \/ WorkerAborted(s))
       /\ WF_vars(TimerAborted(s))
  /\ WF_vars(drain.stage = "abandoned" /\ ServerEnds)
  /\ WF_vars(DrainStep)

FairSpec == Spec /\ Fairness

-----------------------------------------------------------------------------
(* Properties.                                                             *)

Stages == {"off", "interrupt", "queues", "counts", "look", "terminals",
           "monitors", "writers", "listener", "abandoned", "storage",
           "returned", "over"}

\* Every variable keeps to the values its Rust type allows: no guard is
\* dropped twice.
TypeOK ==
  /\ work \in [closed : BOOLEAN, retired : BOOLEAN, commands : Nat,
               background : Nat, auxiliary : Nat]
  /\ \A c \in Clients : cmd[c].pc \in {"out", "in", "starting", "done"}
  /\ known \subseteq Sessions
  /\ \A s \in Sessions :
       /\ sess[s].task \in {"none", "working", "returned", "panicked"}
       /\ sess[s].control \in {"none", "active", "stuck"}
       /\ sess[s].queue \in Nat
       /\ sess[s].worker \in {"waiting", "woken", "starting", "entered",
                              "aborted", "gone"}
       /\ sess[s].timer \in {"off", "armed", "aborted"}
       /\ sess[s].child \in BOOLEAN
  /\ drain.stage \in Stages /\ drain.left \subseteq Sessions
  /\ report \in {"none", "Stopped", "Failed"}
  /\ closed.writers \subseteq Sessions /\ closed.storage \in BOOLEAN

\* Nothing of the session runs or can run.
Quiet(s) ==
  /\ ~Owned(s) /\ ~sess[s].child /\ sess[s].timer = "off"
  /\ sess[s].queue = 0 /\ sess[s].worker = "gone"

\* A report of Stopped means the service is quiet, sessions created by
\* commands admitted just before the boundary included, every run is
\* resolved and every queued run the drain took has its terminal.
StoppedIsQuiet ==
  report = "Stopped" =>
    /\ Counts = <<0, 0>> /\ ~server
    /\ \A s \in Sessions :
         /\ Quiet(s) /\ sess[s].control = "none"
         /\ fate[s].recorded = fate[s].taken

\* Writers and storage are closed only under work that has ended, also when
\* the deadline passed and the drain went on regardless.
StorageOutlivesWork ==
  \A s \in Sessions :
    (s \in closed.writers \/ closed.storage) => Quiet(s)

\* An updater closes only an idle service: whatever was admitted, queued or
\* started while it looked at the sessions one by one makes it give up.
IdleCloseIsIdle ==
  [][UpdaterCloses /\ ~work.closed /\ work'.closed =>
       /\ work.commands = 0 /\ work.background = 0
       /\ \A s \in Sessions :
            ~Owned(s) /\ ~sess[s].child /\ sess[s].queue = 0]_vars

\* The drain comes to its report without the deadline: no stage waits for
\* something that only a later stage would bring about.
DrainFinishes == (drain.stage # "off") ~> (report # "none")

\* A stopped service has accounted for every prompt it accepted: it was
\* started, or its cancellation is on record.
AcceptedRunsRecorded ==
  report = "Stopped" =>
    \A s \in Sessions :
      fate[s].accepted = fate[s].started + fate[s].recorded
=============================================================================
