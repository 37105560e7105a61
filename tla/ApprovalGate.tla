---------------------------- MODULE ApprovalGate ----------------------------
(***************************************************************************)
(* The approval gate (agent/src/rpc/approval.rs) between a run that wants  *)
(* to use a tool, the clients that decide or stop it, the automatic        *)
(* reviewer, and the shutdown drain.                                       *)
(*                                                                         *)
(* One run per session walks its tool calls one by one                     *)
(* (agent/src/agent/mod.rs): check the interrupt flag, fence the intent,   *)
(* check again, ask the gate, fence, check again, execute.  A human        *)
(* request is parked in the process-wide pending map and the run's thread  *)
(* blocks on a channel: whoever takes the entry out of the map owes it an  *)
(* answer.  Clients decide, abort, abort_retry and abort_session;          *)
(* shutdown interrupts every session and empties the map.                  *)
(*                                                                         *)
(* What the gate broadcasts goes to the session's event journal, which     *)
(* stores it, fails, or refuses it for good (EventJournal).                *)
(***************************************************************************)
EXTENDS Naturals, FiniteSets

CONSTANTS
  Sessions,       \* the sessions of the process
  Clients,        \* client connections, each with one command in flight
  Stoppers,       \* the clients that also send stop commands
  Drain,          \* the shutdown supervisor
  MaxRuns,        \* runs of one session (a bound)
  MaxTools,       \* tool calls of one run (a bound)
  StopCommands    \* the stop commands the clients send

ASSUME ApprovalAssumption ==
  /\ MaxRuns \in Nat /\ MaxTools \in Nat
  /\ StopCommands \subseteq {"abort", "abort_retry", "abort_session"}
  /\ Stoppers \subseteq Clients /\ Drain \notin Clients

Actors == Clients \cup {Drain}
Decisions == {"approved", "rejected", "cancelled"}
\* What a client may decide.  Its "cancelled" takes the path of "rejected".
ClientDecisions == {"approved", "rejected"}
Requests == Sessions \X Nat \X Nat

\* What becomes of a broadcast event in the journal: AppendFailure::Rejected
\* and AppendFailure::Unavailable are the last two.
Outcomes == {"stored", "refused", "failed"}

VARIABLES
  phase,       \* session -> phase of its active run
  run,         \* session -> number of its latest run
  tool,        \* session -> number of the run's current tool call
  at,          \* session -> where the run's task is
  flag,        \* session -> interrupt flag of the active run
  auto,        \* session -> the run has the automatic reviewer
  stale,       \* session -> the context generation moved since admission
  verdict,     \* session -> outcome the current call was given
  unhealthy,   \* session -> the event journal has a recorded failure
  pending,     \* the gate's map: requests awaiting a decision
  client,      \* client -> its command in flight
  held,        \* actor -> entries it took out of the map, not yet answered
  mail,        \* answers on the channels of the requests
  drain,       \* the shutdown supervisor: stage, sessions left in it
  audit,       \* history: what became of the record of the current decision
  effect,      \* history: the verdict on which the current call executed
  stopped      \* history: a stop of the active run was answered Ok

runIdentity == <<run, auto, stale>>
gateVars == <<pending, held, mail>>
actorVars == <<client, drain>>
history == <<audit, effect, stopped>>
vars == <<phase, tool, at, flag, verdict, unhealthy, runIdentity, gateVars,
          actorVars, history>>

Free == [pc |-> "free", cmd |-> "none", session |-> "none", run |-> 0,
         request |-> <<>>, decision |-> "cancelled"]

\* The request the run of session s raises for its current tool call.
Request(s) == <<s, run[s], tool[s]>>
Of(s, q) == q[1] = s

Init ==
  /\ phase = [s \in Sessions |-> "idle"]
  /\ run = [s \in Sessions |-> 0]
  /\ tool = [s \in Sessions |-> 0]
  /\ at = [s \in Sessions |-> "none"]
  /\ flag = [s \in Sessions |-> FALSE]
  /\ auto = [s \in Sessions |-> FALSE]
  /\ stale = [s \in Sessions |-> FALSE]
  /\ verdict = [s \in Sessions |-> "none"]
  /\ unhealthy = [s \in Sessions |-> FALSE]
  /\ pending = {}
  /\ client = [c \in Clients |-> Free]
  /\ held = [a \in Actors |-> {}]
  /\ mail = {}
  /\ drain = [stage |-> "serving", left |-> {}]
  /\ audit = [s \in Sessions |-> "none"]
  /\ effect = [s \in Sessions |-> "none"]
  /\ stopped = [s \in Sessions |-> FALSE]

-----------------------------------------------------------------------------
(* The run's task.                                                         *)

\* Mutant: handle_abort lets go of the session before it cancels approvals.
ReadLocked_Released(s) == FALSE

\* handle_abort keeps the session's read lock until the approvals are
\* cancelled; handle_abort_retry has let go of it by then.
ReadLocked(s) == \E c \in Clients :
  client[c].cmd = "abort" /\ client[c].session = s

\* The scheduler activates the next run, under the session's write lock:
\* admission is open, the journal has no failure, and the automatic reviewer
\* gets the context generation of now.
StartRun(s) ==
  /\ phase[s] = "idle"
  /\ run[s] < MaxRuns
  /\ ~unhealthy[s]
  /\ ~ReadLocked(s)
  /\ drain.stage = "serving"
  /\ run' = [run EXCEPT ![s] = @ + 1]
  /\ phase' = [phase EXCEPT ![s] = "running"]
  /\ at' = [at EXCEPT ![s] = "loop"]
  /\ \E b \in BOOLEAN : auto' = [auto EXCEPT ![s] = b]
  /\ stale' = [stale EXCEPT ![s] = FALSE]
  /\ UNCHANGED <<tool, flag, verdict, unhealthy, gateVars, actorVars,
                 history>>

\* The task leaves `from` for `to`.
Goes(s, from, to) == at[s] = from /\ at' = [at EXCEPT ![s] = to]

\* The loop ends, interrupted or with no more tool calls, and the task
\* finalizes whatever phase a stop left the run in.  Its flag, its reviewer
\* and its calls are gone with it.
RunEnds(s) ==
  /\ Goes(s, "loop", "none")
  /\ phase' = [phase EXCEPT ![s] = "idle"]
  /\ tool' = [tool EXCEPT ![s] = 0]
  /\ flag' = [flag EXCEPT ![s] = FALSE]
  /\ auto' = [auto EXCEPT ![s] = FALSE]
  /\ stale' = [stale EXCEPT ![s] = FALSE]
  /\ verdict' = [verdict EXCEPT ![s] = "none"]
  /\ audit' = [audit EXCEPT ![s] = "none"]
  /\ effect' = [effect EXCEPT ![s] = "none"]
  /\ stopped' = [stopped EXCEPT ![s] = FALSE]
  /\ UNCHANGED <<unhealthy, run, gateVars, actorVars>>

\* The next tool call: its intent is shown unless the run is interrupted.
ToolStarts(s) ==
  /\ ~flag[s]
  /\ tool[s] < MaxTools
  /\ Goes(s, "loop", "fence")
  /\ tool' = [tool EXCEPT ![s] = @ + 1]
  /\ verdict' = [verdict EXCEPT ![s] = "none"]
  /\ audit' = [audit EXCEPT ![s] = "none"]
  /\ effect' = [effect EXCEPT ![s] = "none"]
  /\ UNCHANGED <<phase, flag, unhealthy, runIdentity, gateVars, actorVars,
                 stopped>>

\* Mutant: a storage failure does not interrupt the run.
StoreOutcome_NoInterrupt(s, outcome) ==
  /\ unhealthy' = [unhealthy EXCEPT ![s] = @ \/ outcome = "failed"]
  /\ UNCHANGED flag

\* A storage failure records itself and raises the run's interrupt flag in
\* one transition.  A refusal does neither.
StoreOutcome(s, outcome) ==
  /\ unhealthy' = [unhealthy EXCEPT ![s] = @ \/ outcome = "failed"]
  /\ flag' = [flag EXCEPT ![s] = @ \/ outcome = "failed"]

\* An event of the run is broadcast.  An unhealthy journal takes none; a
\* refused event is dropped.  (In a segmented session all events behind a
\* refused one are refused, too, as EventJournal shows; here each may be.)
Broadcast(s, outcome) ==
  /\ unhealthy[s] => outcome = "failed"
  /\ StoreOutcome(s, outcome)

\* await_durability: the barrier of a segmented session fails with the
\* journal, and the journal with it, but not for a refused event.  (Legacy
\* sessions have none: for them it is always passed.)
Barrier(s, ok) == StoreOutcome(s, IF ok THEN "stored" ELSE "failed")

\* The other events of the run, its text and its tools' output among them,
\* can meet a storage failure at any time.
OtherEvents(s) ==
  /\ at[s] # "none"
  /\ Broadcast(s, "failed")
  /\ UNCHANGED <<phase, tool, at, verdict, runIdentity, gateVars, actorVars,
                 history>>

\* The intent is fenced, then cancellation is checked again.
Fence(s) ==
  /\ \E ok \in BOOLEAN :
       /\ Barrier(s, ok)
       /\ Goes(s, "fence", IF ok /\ ~flag[s] THEN "gate" ELSE "loop")
  /\ UNCHANGED <<phase, tool, verdict, runIdentity, gateVars, actorVars,
                 history>>

\* The policy answers without asking: allowed, or denied by a rule.
NoAsk(s) ==
  /\ \E d \in {"allowed", "rejected"} :
       /\ verdict' = [verdict EXCEPT ![s] = d]
       /\ Goes(s, "gate", IF d = "allowed" THEN "check" ELSE "loop")
  /\ UNCHANGED <<phase, tool, flag, unhealthy, runIdentity, gateVars,
                 actorVars, history>>

\* A human has to decide: the request goes into the pending map.
Register(s) ==
  /\ ~auto[s]
  /\ Goes(s, "gate", "announce")
  /\ pending' = pending \cup {Request(s)}
  /\ UNCHANGED <<phase, tool, flag, verdict, unhealthy, runIdentity, held,
                 mail, actorVars, history>>

\* The approval_request event is broadcast and saved.
Announce(s) ==
  /\ Goes(s, "announce", "announced")
  /\ \E outcome \in Outcomes : Broadcast(s, outcome)
  /\ UNCHANGED <<phase, tool, verdict, runIdentity, gateVars, actorVars,
                 history>>

\* A request that met a storage failure is withdrawn; otherwise, a refused
\* one included, the thread blocks on its channel, with no timeout.
Park(s) ==
  /\ IF unhealthy[s]
     THEN /\ Goes(s, "announced", "loop")
          /\ pending' = pending \ {Request(s)}
          /\ verdict' = [verdict EXCEPT ![s] = "cancelled"]
     ELSE /\ Goes(s, "announced", "wait")
          /\ UNCHANGED <<pending, verdict>>
  /\ UNCHANGED <<phase, tool, flag, unhealthy, runIdentity, held, mail,
                 actorVars, history>>

\* The decision arrives on the channel.
Receive(s) ==
  /\ Goes(s, "wait", "record")
  /\ \E m \in mail :
       /\ m.request = Request(s)
       /\ verdict' = [verdict EXCEPT ![s] = m.decision]
       /\ mail' = mail \ {m}
  /\ UNCHANGED <<phase, tool, flag, unhealthy, runIdentity, pending, held,
                 actorVars, history>>

\* The reviewer's context no longer holds: the run is interrupted, or a
\* setting of any session changed since the run was admitted.
Invalidated(s) == flag[s] \/ stale[s]

\* The automatic reviewer judges the action, or gives up when its context
\* has ended.
Review(s) ==
  /\ auto[s]
  /\ Goes(s, "gate", "record")
  /\ \E d \in Decisions : (Invalidated(s) <=> d = "cancelled")
                          /\ verdict' = [verdict EXCEPT ![s] = d]
  /\ UNCHANGED <<phase, tool, flag, unhealthy, runIdentity, gateVars,
                 actorVars, history>>

\* The decision, or the assessment, is broadcast and saved.
RecordDecision(s) ==
  /\ Goes(s, "record", "recorded")
  /\ \E outcome \in Outcomes :
       /\ Broadcast(s, outcome)
       /\ audit' = [audit EXCEPT ![s] = outcome]
  /\ UNCHANGED <<phase, tool, verdict, runIdentity, gateVars, actorVars,
                 effect, stopped>>

\* An approval is not used when the journal has a failure, or when the
\* reviewer's context changed while it was recorded.
UseDecision(s) ==
  /\ Goes(s, "recorded",
          IF /\ verdict[s] = "approved"
             /\ ~unhealthy[s]
             /\ ~(auto[s] /\ Invalidated(s))
          THEN "check" ELSE "loop")
  /\ UNCHANGED <<phase, tool, flag, verdict, unhealthy, runIdentity,
                 gateVars, actorVars, history>>

\* Mutant: the flag is not checked again after the gate.
Execute_NoRecheck(s) ==
  /\ Goes(s, "check", "loop")
  /\ \E ok \in BOOLEAN :
       /\ Barrier(s, ok)
       /\ effect' = IF ok
                    THEN [effect EXCEPT ![s] = verdict[s]] ELSE effect
  /\ UNCHANGED <<phase, tool, verdict, runIdentity, gateVars, actorVars,
                 audit, stopped>>

\* After the gate: fence, check the flag, and only then execute the tool.
Execute(s) ==
  /\ Goes(s, "check", "loop")
  /\ \E ok \in BOOLEAN :
       /\ Barrier(s, ok)
       /\ effect' = IF ok /\ ~flag[s]
                    THEN [effect EXCEPT ![s] = verdict[s]] ELSE effect
  /\ UNCHANGED <<phase, tool, verdict, runIdentity, gateVars, actorVars,
                 audit, stopped>>

\* The journal's writer retries on its own and clears the failure.  The
\* interrupt flag it raised stays up.
JournalHeals(s) ==
  /\ unhealthy[s]
  /\ unhealthy' = [unhealthy EXCEPT ![s] = FALSE]
  /\ UNCHANGED <<phase, tool, at, flag, verdict, runIdentity, gateVars,
                 actorVars, history>>

TaskStep(s) ==
  \/ RunEnds(s) \/ ToolStarts(s) \/ Fence(s)
  \/ NoAsk(s) \/ Register(s) \/ Announce(s) \/ Park(s) \/ Receive(s)
  \/ Review(s) \/ RecordDecision(s) \/ UseDecision(s) \/ Execute(s)

-----------------------------------------------------------------------------
(* Answering a request taken out of the map.                               *)

\* The requester still holds the receiving end of its channel.
Listening(q) ==
  \E s \in Sessions : q = Request(s) /\ at[s] \in {"announce", "announced", "wait"}

Answer(q, decision, by, r) ==
  mail' = IF Listening(q)
          THEN mail \cup {[request |-> q, decision |-> decision,
                           by |-> by, run |-> r]}
          ELSE mail

\* A command is answered and its client is free.  A stop of the active run
\* is on record.
Done(c) ==
  /\ client' = [client EXCEPT ![c] = Free]
  /\ stopped' = [s \in Sessions |->
       \/ stopped[s]
       \/ /\ client[c].cmd # "decide"
          /\ client[c].session = s /\ client[c].run = run[s]
          /\ phase[s] # "idle"]

\* One taken entry is answered; the last one ends the command.
ClientAnswers(c) ==
  /\ client[c].pc = "answer"
  /\ \E q \in held[c] :
       /\ Answer(q, client[c].decision, client[c].cmd, client[c].run)
       /\ held' = [held EXCEPT ![c] = @ \ {q}]
  /\ IF Cardinality(held[c]) = 1
     THEN Done(c)
     ELSE UNCHANGED <<client, stopped>>
  /\ UNCHANGED <<phase, tool, at, flag, verdict, unhealthy, runIdentity,
                 pending, drain, audit, effect>>

-----------------------------------------------------------------------------
(* Client commands.  Admission ends when shutdown begins.                  *)

Admitted(c) == client[c].pc = "free" /\ drain.stage = "serving"

\* decide, first critical section: the request is pending and belongs to
\* the session the client named.
DecideChecks(c, s, q, d) ==
  /\ Admitted(c)
  /\ q \in pending
  /\ Of(s, q)
  /\ client' = [client EXCEPT ![c] =
       [pc |-> "decide", cmd |-> "decide", session |-> s, run |-> q[2],
        request |-> q, decision |-> d]]
  /\ UNCHANGED <<phase, tool, at, flag, verdict, unhealthy, runIdentity,
                 gateVars, drain, history>>

\* decide, second critical section: the entry is removed, unless it is gone
\* by now and the client is told so.
DecideTakes(c) ==
  /\ client[c].pc = "decide"
  /\ IF client[c].request \in pending
     THEN /\ pending' = pending \ {client[c].request}
          /\ held' = [held EXCEPT ![c] = {client[c].request}]
          /\ client' = [client EXCEPT ![c].pc = "answer"]
     ELSE /\ client' = [client EXCEPT ![c] = Free]
          /\ UNCHANGED <<pending, held>>
  /\ UNCHANGED <<phase, tool, at, flag, verdict, unhealthy, runIdentity,
                 mail, drain, history>>

\* request_abort: an abortable run is flagged and becomes cancelling.
Cancel(s) ==
  IF phase[s] \in {"running", "cancelling"}
  THEN /\ phase' = [phase EXCEPT ![s] = "cancelling"]
       /\ flag' = [flag EXCEPT ![s] = TRUE]
  ELSE UNCHANGED <<phase, flag>>

\* A stop command up to abort_run.  A run already reported stuck while its
\* task lives makes abort_run fail, and the command ends there.
StopBegins(c, s, cmd) ==
  /\ Admitted(c)
  /\ phase[s] # "stuck"
  /\ Cancel(s)
  /\ LET r == IF phase[s] = "idle" THEN 0 ELSE run[s] IN
     IF cmd = "abort_session"
     THEN /\ stopped' = [stopped EXCEPT ![s] = phase[s] # "idle"]
          /\ UNCHANGED client
     ELSE /\ client' = [client EXCEPT ![c] =
               [Free EXCEPT !.pc = "cancel", !.cmd = cmd, !.session = s,
                            !.run = r]]
          /\ UNCHANGED stopped
  /\ UNCHANGED <<tool, at, verdict, unhealthy, runIdentity, gateVars,
                 drain, audit, effect>>

\* Mutant: a stop drops the senders of what it takes out of the map.
StopCancels_Drops(c) ==
  /\ client[c].pc = "cancel"
  /\ pending' = {q \in pending : ~Of(client[c].session, q)}
  /\ Done(c)
  /\ UNCHANGED <<phase, tool, at, flag, verdict, unhealthy, runIdentity,
                 held, mail, drain, audit, effect>>

\* cancel_session: every entry of the session leaves the map at once.
StopCancels(c) ==
  /\ client[c].pc = "cancel"
  /\ LET taken == {q \in pending : Of(client[c].session, q)} IN
     /\ pending' = pending \ taken
     /\ held' = [held EXCEPT ![c] = taken]
     /\ IF taken = {}
        THEN Done(c)
        ELSE /\ client' = [client EXCEPT ![c].pc = "answer"]
             /\ UNCHANGED stopped
  /\ UNCHANGED <<phase, tool, at, flag, verdict, unhealthy, runIdentity,
                 mail, drain, audit, effect>>

\* The cancellation timer: thirty seconds without an acknowledgement.
ReportStuck(s) ==
  /\ phase[s] = "cancelling"
  /\ phase' = [phase EXCEPT ![s] = "stuck"]
  /\ UNCHANGED <<tool, at, flag, verdict, unhealthy, runIdentity, gateVars,
                 actorVars, history>>

\* A setting that a review depends on changes in some session: the
\* generation is process-wide, so every reviewer's context goes stale.
Invalidate ==
  /\ stale' = [s \in Sessions |-> auto[s]]
  /\ UNCHANGED <<phase, tool, at, flag, verdict, unhealthy, run, auto,
                 gateVars, actorVars, history>>

-----------------------------------------------------------------------------
(* The shutdown drain.  Each step waits until the entries it took before   *)
(* are answered.                                                           *)

DrainTakes(taken) ==
  /\ pending' = pending \ taken
  /\ held' = [held EXCEPT ![Drain] = taken]

RequestShutdown ==
  /\ drain.stage = "serving"
  /\ drain' = [stage |-> "cancel_all", left |-> {}]
  /\ UNCHANGED <<phase, tool, at, flag, verdict, unhealthy, runIdentity,
                 gateVars, client, history>>

DrainCancelsAll ==
  /\ drain.stage = "cancel_all"
  /\ DrainTakes(pending)
  /\ drain' = [stage |-> "interrupt", left |-> Sessions]
  /\ UNCHANGED <<phase, tool, at, flag, verdict, unhealthy, runIdentity,
                 mail, client, history>>

\* One session is interrupted and its approvals cancelled: first under its
\* read lock, and again, with its scheduler, under its write lock once the
\* admitted commands have ended.
DrainInterrupts(s) ==
  /\ drain.stage \in {"interrupt", "queues"}
  /\ s \in drain.left
  /\ held[Drain] = {}
  /\ drain.stage = "queues" => ~ReadLocked(s)
  /\ Cancel(s)
  /\ DrainTakes({q \in pending : Of(s, q)})
  /\ drain' = [drain EXCEPT !.left = @ \ {s}]
  /\ UNCHANGED <<tool, at, verdict, unhealthy, runIdentity, mail, client,
                 history>>

DrainWaitsForCommands ==
  /\ drain.stage = "interrupt" /\ drain.left = {} /\ held[Drain] = {}
  /\ \A c \in Clients : client[c].pc = "free"
  /\ drain' = [stage |-> "queues", left |-> Sessions]
  /\ UNCHANGED <<phase, tool, at, flag, verdict, unhealthy, runIdentity,
                 gateVars, client, history>>

DrainStopsQueues ==
  /\ drain.stage = "queues" /\ drain.left = {} /\ held[Drain] = {}
  /\ drain' = [stage |-> "settle", left |-> {}]
  /\ UNCHANGED <<phase, tool, at, flag, verdict, unhealthy, runIdentity,
                 gateVars, client, history>>

\* Mutant: the last wait does not release late registrations.
DrainPolls_NoRelease ==
  /\ drain.stage = "settle" /\ held[Drain] = {}
  /\ drain' = IF \A s \in Sessions : phase[s] = "idle"
              THEN [drain EXCEPT !.stage = "stopped"] ELSE drain
  /\ UNCHANGED <<phase, tool, at, flag, verdict, unhealthy, runIdentity,
                 gateVars, client, history>>

\* One poll of the last wait: late registrations are released, and the
\* drain goes on when every run has ended.
DrainPolls ==
  /\ drain.stage = "settle" /\ held[Drain] = {}
  /\ DrainTakes(pending)
  /\ drain' = IF \A s \in Sessions : phase[s] = "idle"
              THEN [drain EXCEPT !.stage = "stopped"] ELSE drain
  /\ UNCHANGED <<phase, tool, at, flag, verdict, unhealthy, runIdentity,
                 mail, client, history>>

DrainAnswers ==
  /\ \E q \in held[Drain] :
       /\ Answer(q, "cancelled", "shutdown", 0)
       /\ held' = [held EXCEPT ![Drain] = @ \ {q}]
  /\ UNCHANGED <<phase, tool, at, flag, verdict, unhealthy, runIdentity,
                 pending, actorVars, history>>

DrainStep ==
  \/ DrainCancelsAll \/ (\E s \in Sessions : DrainInterrupts(s))
  \/ DrainWaitsForCommands \/ DrainStopsQueues \/ DrainPolls \/ DrainAnswers

-----------------------------------------------------------------------------
ClientContinues(c) == DecideTakes(c) \/ StopCancels(c) \/ ClientAnswers(c)

Next ==
  \/ \E s \in Sessions :
       StartRun(s) \/ TaskStep(s) \/ OtherEvents(s) \/ JournalHeals(s)
         \/ ReportStuck(s)
  \/ \E c \in Clients, s \in Sessions \cup {"elsewhere"} :
       \E q \in pending, d \in ClientDecisions : DecideChecks(c, s, q, d)
  \/ \E c \in Stoppers, s \in Sessions :
       \E cmd \in StopCommands : StopBegins(c, s, cmd)
  \/ \E c \in Clients : ClientContinues(c)
  \/ Invalidate
  \/ RequestShutdown
  \/ DrainStep

Spec == Init /\ [][Next]_vars

\* The run's task, a command that was admitted, and the drain keep running.
\* No human decides, no client stops anything and no setting changes.
Fairness ==
  /\ \A s \in Sessions : WF_vars(TaskStep(s))
  /\ \A c \in Clients : WF_vars(ClientContinues(c))
  /\ WF_vars(DrainStep)

FairSpec == Spec /\ Fairness

-----------------------------------------------------------------------------
(* Properties.                                                             *)

Phases == {"idle", "running", "cancelling", "stuck"}
Places == {"none", "loop", "fence", "gate", "announce", "announced", "wait",
           "record", "recorded", "check"}

\* Every variable keeps to the values its Rust type allows.
TypeOK ==
  /\ phase \in [Sessions -> Phases]
  /\ run \in [Sessions -> Nat] /\ tool \in [Sessions -> Nat]
  /\ at \in [Sessions -> Places]
  /\ flag \in [Sessions -> BOOLEAN] /\ auto \in [Sessions -> BOOLEAN]
  /\ unhealthy \in [Sessions -> BOOLEAN]
  /\ stale \in [Sessions -> BOOLEAN]
  /\ verdict \in [Sessions -> Decisions \cup {"none", "allowed"}]
  /\ pending \subseteq Requests
  /\ \A a \in Actors : held[a] \subseteq Requests
  /\ \A c \in Clients :
       client[c].pc \in {"free", "decide", "cancel", "answer"}
  /\ \A m \in mail : m.request \in Requests /\ m.decision \in Decisions

\* A run parked on the gate can always be woken: its request is in the map,
\* or its answer is on the channel, or someone who took it out of the map
\* still owes the answer.  (approval.rs blocks in recv with no timeout.)
NoLostWaiter ==
  \A s \in Sessions : at[s] = "wait" =>
    \/ Request(s) \in pending
    \/ \E m \in mail : m.request = Request(s)
    \/ \E a \in Actors : Request(s) \in held[a]

\* No tool runs on an approval whose record met a storage failure, even if the
\* journal healed between the record and the look at its health, nor on one
\* that was never put on record (approval.rs: "approval decision could not be
\* saved"; agent/mod.rs: "An approval decision can fail to commit").
FailedAuditBlocks ==
  \A s \in Sessions : effect[s] = "approved" => audit[s] \in {"stored", "refused"}

\* A tool runs on an approval only when the approval is in the journal
\* (approval.rs: "No action may use an approval whose audit failed").  The
\* code looks at the journal's health, which a refused record leaves as it is.
ApprovedEffectsAudited ==
  \A s \in Sessions : effect[s] = "approved" => audit[s] = "stored"

\* Once a stop of a run was answered Ok, no further tool of that run starts:
\* the flag is up before the answer and is checked after the gate.
NoEffectAfterStop ==
  [][\A s \in Sessions :
       effect[s] = "none" /\ effect'[s] # "none" => ~stopped[s]]_vars

\* handle_abort cancels only approvals of the run it stopped, never those of
\* a run activated since.
AbortSparesNextRun ==
  \A m \in mail : m.by = "abort" => m.request[2] = m.run

\* A shutdown ends every run without a human deciding anything, although a
\* run may register a request after its session was interrupted.
ShutdownEndsRuns ==
  (drain.stage # "serving") ~> (drain.stage = "stopped")
=============================================================================
