------------------------- MODULE ApprovalGate_proofs -------------------------
(***************************************************************************)
(* Proofs about ApprovalGate for every set of sessions and clients and     *)
(* every number of runs and tool calls.                                    *)
(***************************************************************************)
EXTENDS ApprovalGate, FiniteSetTheorems, TLAPS

Verdicts == Decisions \cup {"none", "allowed"}
Commands == {"none", "decide", "abort", "abort_retry", "abort_session"}

Command ==
  [pc : {"free", "decide", "cancel", "answer"}, cmd : Commands,
   session : Sessions \cup {"elsewhere", "none"}, run : Nat,
   request : Requests \cup {<< >>}, decision : Decisions]

Mail == [request : Requests, decision : Decisions,
         by : Commands \cup {"shutdown"}, run : Nat]

DrainRecord ==
  [stage : {"serving", "cancel_all", "interrupt", "queues", "settle", "stopped"},
   left : SUBSET Sessions]

\* Where the run of each session is.
RunTypes ==
  /\ phase \in [Sessions -> Phases]
  /\ run \in [Sessions -> Nat] /\ tool \in [Sessions -> Nat]
  /\ at \in [Sessions -> Places]
  /\ flag \in [Sessions -> BOOLEAN] /\ auto \in [Sessions -> BOOLEAN]
  /\ unhealthy \in [Sessions -> BOOLEAN]
  /\ stale \in [Sessions -> BOOLEAN]
  /\ verdict \in [Sessions -> Verdicts]
  /\ audit \in [Sessions -> Outcomes \cup {"none"}]
  /\ effect \in [Sessions -> Verdicts]
  /\ stopped \in [Sessions -> BOOLEAN]

\* What the gate, the clients and the drain keep.
GateTypes ==
  /\ pending \subseteq Requests /\ IsFiniteSet(pending)
  /\ held \in [Actors -> SUBSET Requests]
  /\ \A a \in Actors : IsFiniteSet(held[a])
  /\ mail \subseteq Mail
  /\ client \in [Clients -> Command]
  /\ drain \in DrainRecord

\* A run has a task exactly while it is active, and its number is not 0.
Active ==
  \A s \in Sessions :
    /\ at[s] = "none" <=> phase[s] = "idle"
    /\ phase[s] # "idle" => run[s] # 0

\* A run that was stopped, or that a command in flight stopped, is flagged.
Flagged ==
  /\ \A s \in Sessions :
       /\ stopped[s] => flag[s]
       /\ phase[s] \in {"cancelling", "stuck"} => flag[s]
  /\ \A c \in Clients, s \in Sessions :
       client[c].pc # "free" /\ client[c].cmd # "decide" /\ client[c].session = s =>
         /\ client[c].run <= run[s]
         /\ client[c].run = run[s] /\ phase[s] # "idle" => flag[s]

\* A decision whose record met a storage failure leaves the flag up, so that the
\* call it was for cannot execute; nothing has executed before the gate answered.
Audited ==
  \A s \in Sessions :
    /\ at[s] \in {"fence", "gate", "announce", "announced", "wait", "record"}
         => audit[s] = "none"
    /\ at[s] = "recorded" => audit[s] # "none"
    /\ at[s] = "check" /\ verdict[s] = "approved" => audit[s] # "none"
    /\ at[s] \in {"recorded", "check"} /\ audit[s] = "failed" => flag[s]
    /\ at[s] \notin {"none", "loop"} => effect[s] = "none"
    /\ effect[s] = "approved" => audit[s] \in {"stored", "refused"}

Waiting(s) == at[s] \in {"announce", "announced", "wait"}

\* Somebody can still wake the thread of a run at the gate.
Reachable(s) ==
  \/ Request(s) \in pending
  \/ \E m \in mail : m.request = Request(s)
  \/ \E a \in Actors : Request(s) \in held[a]

WaitersReachable == \A s \in Sessions : Waiting(s) => Reachable(s)

\* Only who is answering holds entries, so nobody drops what it holds.
Holders ==
  /\ \A c \in Clients : held[c] # {} => client[c].pc = "answer"
  /\ held[Drain] # {} => drain.stage \notin {"serving", "cancel_all"}

\* A request of the past: its call was raised at the gate before now.
Raised(q) ==
  /\ q[1] \in Sessions
  /\ q[2] <= run[q[1]]
  /\ q[2] = run[q[1]] /\ at[q[1]] # "none" =>
       /\ q[3] <= tool[q[1]]
       /\ q[3] = tool[q[1]] => at[q[1]] \notin {"fence", "gate"}

\* A request is in one place: an entry of the map belongs to a run that
\* waits for it, and nobody has taken or answered it.
OnePlace ==
  /\ \A q \in pending :
       /\ q[1] \in Sessions /\ q = Request(q[1]) /\ Waiting(q[1])
       /\ \A a \in Actors : q \notin held[a]
       /\ \A m \in mail : m.request # q
  /\ \A a \in Actors : \A q \in held[a] : Raised(q)
  /\ \A m \in mail : Raised(m.request)

\* An abort holds the session, so that the entries it takes belong to the
\* run it stopped.
Aborts ==
  /\ \A c \in Clients : client[c].cmd = "abort" =>
       /\ client[c].session \in Sessions /\ client[c].pc # "decide"
       /\ phase[client[c].session] # "idle" =>
            client[c].run = run[client[c].session]
       /\ \A q \in held[c] : q[2] = client[c].run
  /\ AbortSparesNextRun

IInv ==
  /\ RunTypes /\ GateTypes
  /\ Active /\ Flagged /\ Audited
  /\ WaitersReachable /\ Holders /\ OnePlace /\ Aborts

-----------------------------------------------------------------------------
(* What the steps do to the commands, the map and the channels.            *)

\* The command of one client changes, and stays a command.
Only(c) ==
  /\ client' \in [Clients -> Command]
  /\ \A d \in Clients \ {c} : client'[d] = client[d]

Freed(c) == Only(c) /\ client'[c].pc = "free" /\ client'[c].cmd = "none"

Answering(c) ==
  /\ Only(c) /\ client'[c].pc = "answer"
  /\ client'[c].cmd = client[c].cmd /\ client'[c].session = client[c].session
  /\ client'[c].run = client[c].run

\* A client whose command ended is free.
LEMMA FreedType ==
  ASSUME GateTypes, NEW c \in Clients, client' = [client EXCEPT ![c] = Free]
  PROVE  Freed(c)
<1>1. Free \in Command /\ Free.pc = "free" /\ Free.cmd = "none"
  BY DEF Free, Command, Commands, Decisions
<1> QED
  BY <1>1 DEF GateTypes, Freed, Only

\* A client that took entries goes on to answer them.
LEMMA AnsweringType ==
  ASSUME GateTypes, NEW c \in Clients, client' = [client EXCEPT ![c].pc = "answer"]
  PROVE  Answering(c)
<1>1. client[c] \in Command
  BY DEF GateTypes
<1>2. [client[c] EXCEPT !.pc = "answer"] \in Command
  BY <1>1 DEF Command
<1>3. client' = [client EXCEPT ![c] = [client[c] EXCEPT !.pc = "answer"]]
  BY DEF GateTypes
<1>4. client'[c] = [client[c] EXCEPT !.pc = "answer"]
  BY <1>3 DEF GateTypes
<1>5. Only(c)
  BY <1>2, <1>3 DEF GateTypes, Only
<1> QED
  BY <1>1, <1>4, <1>5 DEF Answering, Command

\* What StopBegins leaves of an abort or abort_retry for cancel_session.
LEMMA StoppingType ==
  ASSUME GateTypes, NEW c \in Clients, NEW s \in Sessions, NEW r \in Nat,
         NEW cmd \in {"abort", "abort_retry"},
         client' = [client EXCEPT ![c] =
           [Free EXCEPT !.pc = "cancel", !.cmd = cmd, !.session = s, !.run = r]]
  PROVE  /\ Only(c)
         /\ client'[c].pc = "cancel" /\ client'[c].cmd = cmd
         /\ client'[c].session = s /\ client'[c].run = r
<1> DEFINE new == [Free EXCEPT !.pc = "cancel", !.cmd = cmd, !.session = s, !.run = r]
<1>1. /\ new \in Command
      /\ new.pc = "cancel" /\ new.cmd = cmd /\ new.session = s /\ new.run = r
  BY DEF Free, Command, Commands, Decisions
<1>2. client' = [client EXCEPT ![c] = new]
  OBVIOUS
<1> HIDE DEF new
<1> QED
  BY <1>1, <1>2 DEF GateTypes, Only

\* decide, once the request was found.
LEMMA DecidingType ==
  ASSUME GateTypes, NEW c \in Clients, NEW s \in Sessions \cup {"elsewhere"},
         NEW q \in pending, NEW d \in ClientDecisions, DecideChecks(c, s, q, d)
  PROVE  Only(c) /\ client'[c].pc = "decide" /\ client'[c].cmd = "decide"
<1>1. q \in Requests /\ q[2] \in Nat
  BY DEF GateTypes, Requests
<1> QED
  BY <1>1 DEF DecideChecks, GateTypes, Only, Command, Commands, Decisions,
     ClientDecisions

\* A command that holds one entry holds none once that is answered.
LEMMA LastAnswer ==
  ASSUME GateTypes, NEW a \in Actors, NEW q \in held[a], Cardinality(held[a]) = 1
  PROVE  held[a] \ {q} = {}
<1>1. IsFiniteSet(held[a])
  BY DEF GateTypes
<1>2. PICK x : held[a] = {x}
  BY <1>1, FS_Singleton
<1> QED
  BY <1>2

-----------------------------------------------------------------------------
(* Each part of the invariant, step by step.                               *)

USE DEF runIdentity, gateVars, actorVars, history, Goes, Broadcast, Barrier,
        Outcomes

\* A step of a session's run, of its journal or of its cancellation timer.
SessionStep(s) ==
  StartRun(s) \/ TaskStep(s) \/ OtherEvents(s) \/ JournalHeals(s) \/ ReportStuck(s)

\* A step of the drain, or one that concerns nobody in particular.
ProcessStep == Invalidate \/ RequestShutdown \/ DrainStep

\* Every step is one of these.
LEMMA Steps ==
  ASSUME Next
  PROVE  \/ \E s \in Sessions : SessionStep(s)
         \/ \E c \in Clients, s \in Sessions \cup {"elsewhere"} :
              \E q \in pending, d \in ClientDecisions : DecideChecks(c, s, q, d)
         \/ \E c \in Clients, s \in Sessions :
              \E cmd \in StopCommands : StopBegins(c, s, cmd)
         \/ \E c \in Clients : ClientContinues(c)
         \/ ProcessStep
BY ApprovalAssumption DEF Next, SessionStep, ProcessStep

\* A stop that was answered is on record for its own run alone.
LEMMA DoneType ==
  ASSUME RunTypes, NEW c \in Clients, Done(c)
  PROVE  stopped' \in [Sessions -> BOOLEAN]
BY Zenon DEF Done, RunTypes

\* The run's own state keeps its types.
LEMMA SessionRunTypes ==
  ASSUME RunTypes, GateTypes, NEW s \in Sessions, SessionStep(s)
  PROVE  RunTypes'
<1>1. CASE StartRun(s)
  BY <1>1 DEF StartRun, RunTypes, GateTypes, Mail, Phases, Places, Verdicts,
     Decisions
<1>2. CASE RunEnds(s)
  BY <1>2 DEF RunEnds, RunTypes, GateTypes, Mail, Phases, Places, Verdicts,
     Decisions
<1>3. CASE ToolStarts(s)
  BY <1>3 DEF ToolStarts, RunTypes, GateTypes, Mail, Phases, Places, Verdicts,
     Decisions
<1>4. CASE Fence(s)
  BY <1>4 DEF Fence, StoreOutcome, RunTypes, GateTypes, Mail, Phases, Places,
     Verdicts, Decisions
<1>5. CASE NoAsk(s)
  BY <1>5 DEF NoAsk, RunTypes, GateTypes, Mail, Phases, Places, Verdicts,
     Decisions
<1>6. CASE Register(s)
  BY <1>6 DEF Register, RunTypes, GateTypes, Mail, Phases, Places, Verdicts,
     Decisions
<1>7. CASE Announce(s)
  BY <1>7 DEF Announce, StoreOutcome, RunTypes, GateTypes, Mail, Phases,
     Places, Verdicts, Decisions
<1>8. CASE Park(s)
  BY <1>8 DEF Park, RunTypes, GateTypes, Mail, Phases, Places, Verdicts,
     Decisions
<1>9. CASE Receive(s)
  BY <1>9 DEF Receive, RunTypes, GateTypes, Mail, Phases, Places, Verdicts,
     Decisions
<1>10. CASE Review(s)
  BY <1>10 DEF Review, Invalidated, RunTypes, GateTypes, Mail, Phases, Places,
     Verdicts, Decisions
<1>11. CASE RecordDecision(s)
  BY <1>11 DEF RecordDecision, StoreOutcome, RunTypes, GateTypes, Mail, Phases,
     Places, Verdicts, Decisions
<1>12. CASE UseDecision(s)
  BY <1>12 DEF UseDecision, Invalidated, RunTypes, GateTypes, Mail, Phases,
     Places, Verdicts, Decisions
<1>13. CASE Execute(s)
  BY <1>13 DEF Execute, StoreOutcome, RunTypes, GateTypes, Mail, Phases,
     Places, Verdicts, Decisions
<1>14. CASE OtherEvents(s) \/ JournalHeals(s)
  BY <1>14 DEF OtherEvents, StoreOutcome, JournalHeals, RunTypes, GateTypes,
     Mail, Phases, Places, Verdicts, Decisions
<1>15. CASE ReportStuck(s)
  BY <1>15 DEF ReportStuck, RunTypes, GateTypes, Mail, Phases, Places,
     Verdicts, Decisions
<1> QED
  BY <1>1, <1>2, <1>3, <1>4, <1>5, <1>6, <1>7, <1>8, <1>9, <1>10, <1>11, <1>12,
     <1>13, <1>14, <1>15 DEF SessionStep, TaskStep

\* A run starts and ends together with its task.
LEMMA SessionActive ==
  ASSUME RunTypes, Active, NEW s \in Sessions, SessionStep(s)
  PROVE  Active'
<1>1. CASE StartRun(s) \/ RunEnds(s)
  BY <1>1 DEF StartRun, RunEnds, RunTypes, Phases, Active
<1>2. CASE ToolStarts(s) \/ Fence(s)
  BY <1>2 DEF ToolStarts, Fence, StoreOutcome, RunTypes, Phases, Active
<1>3. CASE NoAsk(s) \/ Register(s)
  BY <1>3 DEF NoAsk, Register, RunTypes, Phases, Active
<1>4. CASE Announce(s) \/ Park(s)
  BY <1>4 DEF Announce, StoreOutcome, Park, RunTypes, Phases, Active
<1>5. CASE Receive(s) \/ Review(s)
  BY <1>5 DEF Receive, Review, Invalidated, RunTypes, Phases, Active
<1>6. CASE RecordDecision(s) \/ UseDecision(s)
  BY <1>6 DEF RecordDecision, StoreOutcome, UseDecision, Invalidated, RunTypes,
     Phases, Active
<1>7. CASE Execute(s)
  BY <1>7 DEF Execute, StoreOutcome, RunTypes, Phases, Active
<1>8. CASE OtherEvents(s) \/ JournalHeals(s) \/ ReportStuck(s)
  BY <1>8 DEF OtherEvents, StoreOutcome, JournalHeals, ReportStuck, RunTypes,
     Phases, Active
<1> QED
  BY <1>1, <1>2, <1>3, <1>4, <1>5, <1>6, <1>7, <1>8 DEF SessionStep, TaskStep

\* The flag of a run falls only when the run ends.
LEMMA SessionFlagged ==
  ASSUME RunTypes, GateTypes, Active, Flagged, NEW s \in Sessions, SessionStep(s)
  PROVE  Flagged'
<1>1. CASE StartRun(s)
  BY <1>1 DEF StartRun, RunTypes, GateTypes, Command, Phases, Active, Flagged
<1>2. CASE RunEnds(s)
  BY <1>2 DEF RunEnds, RunTypes, GateTypes, Command, Phases, Active, Flagged
<1>3. CASE ToolStarts(s)
  BY <1>3 DEF ToolStarts, RunTypes, GateTypes, Command, Phases, Active, Flagged
<1>4. CASE Fence(s)
  BY <1>4 DEF Fence, StoreOutcome, RunTypes, GateTypes, Command, Phases,
     Active, Flagged
<1>5. CASE NoAsk(s)
  BY <1>5 DEF NoAsk, RunTypes, GateTypes, Command, Phases, Active, Flagged
<1>6. CASE Register(s)
  BY <1>6 DEF Register, RunTypes, GateTypes, Command, Phases, Active, Flagged
<1>7. CASE Announce(s)
  BY <1>7 DEF Announce, StoreOutcome, RunTypes, GateTypes, Command, Phases,
     Active, Flagged
<1>8. CASE Park(s)
  BY <1>8 DEF Park, RunTypes, GateTypes, Command, Phases, Active, Flagged
<1>9. CASE Receive(s)
  BY <1>9 DEF Receive, RunTypes, GateTypes, Command, Phases, Active, Flagged
<1>10. CASE Review(s)
  BY <1>10 DEF Review, Invalidated, RunTypes, GateTypes, Command, Phases,
     Active, Flagged
<1>11. CASE RecordDecision(s)
  BY <1>11 DEF RecordDecision, StoreOutcome, RunTypes, GateTypes, Command,
     Phases, Active, Flagged
<1>12. CASE UseDecision(s)
  BY <1>12 DEF UseDecision, Invalidated, RunTypes, GateTypes, Command, Phases,
     Active, Flagged
<1>13. CASE Execute(s)
  BY <1>13 DEF Execute, StoreOutcome, RunTypes, GateTypes, Command, Phases,
     Active, Flagged
<1>14. CASE OtherEvents(s)
  BY <1>14 DEF OtherEvents, StoreOutcome, RunTypes, GateTypes, Command, Phases,
     Active, Flagged
<1>15. CASE JournalHeals(s)
  BY <1>15 DEF JournalHeals, RunTypes, GateTypes, Command, Phases, Active,
     Flagged
<1>16. CASE ReportStuck(s)
  BY <1>16 DEF ReportStuck, RunTypes, GateTypes, Command, Phases, Active,
     Flagged
<1> QED
  BY <1>1, <1>2, <1>3, <1>4, <1>5, <1>6, <1>7, <1>8, <1>9, <1>10, <1>11, <1>12,
     <1>13, <1>14, <1>15, <1>16 DEF SessionStep, TaskStep

\* A decision that could not be saved never reaches the tool.
LEMMA SessionAudited ==
  ASSUME RunTypes, Audited, NEW s \in Sessions, SessionStep(s)
  PROVE  Audited'
<1>1. CASE StartRun(s)
  BY <1>1 DEF StartRun, RunTypes, Audited
<1>2. CASE RunEnds(s)
  BY <1>2 DEF RunEnds, Goes, RunTypes, Audited
<1>3. CASE ToolStarts(s) \/ Fence(s)
  BY <1>3 DEF ToolStarts, Fence, StoreOutcome, RunTypes, Audited
<1>4. CASE NoAsk(s)
  BY <1>4 DEF NoAsk, RunTypes, Audited
<1>5. CASE Register(s)
  BY <1>5 DEF Register, RunTypes, Audited
<1>6. CASE Announce(s) \/ Park(s)
  BY <1>6 DEF Announce, StoreOutcome, Park, RunTypes, Audited
<1>7. CASE Receive(s) \/ Review(s)
  BY <1>7 DEF Receive, Review, Invalidated, RunTypes, Audited
<1>8. CASE RecordDecision(s)
  BY <1>8 DEF RecordDecision, StoreOutcome, RunTypes, Audited
<1>9. CASE UseDecision(s)
  BY <1>9 DEF UseDecision, Invalidated, RunTypes, Audited
<1>10. CASE Execute(s)
  BY <1>10 DEF Execute, StoreOutcome, RunTypes, Audited
<1>11. CASE OtherEvents(s)
  BY <1>11 DEF OtherEvents, StoreOutcome, RunTypes, Audited
<1>12. CASE JournalHeals(s) \/ ReportStuck(s)
  BY <1>12 DEF JournalHeals, ReportStuck, RunTypes, Audited
<1> QED
  BY <1>1, <1>2, <1>3, <1>4, <1>5, <1>6, <1>7, <1>8, <1>9, <1>10, <1>11,
     <1>12 DEF SessionStep, TaskStep

\* A request of the past stays one: the run's calls are numbered upwards.
LEMMA RaisedKept ==
  ASSUME RunTypes, Active, NEW q \in Requests, Raised(q), NEW s \in Sessions, SessionStep(s)
  PROVE  Raised(q)'
<1>1. CASE StartRun(s) \/ RunEnds(s)
  BY <1>1 DEF StartRun, RunEnds, RunTypes, Places, Phases, Active, Raised,
     Requests
<1>2. CASE ToolStarts(s) \/ Fence(s)
  BY <1>2 DEF ToolStarts, Fence, StoreOutcome, RunTypes, Places, Phases,
     Active, Raised, Requests
<1>3. CASE NoAsk(s) \/ Register(s)
  BY <1>3 DEF NoAsk, Register, RunTypes, Places, Phases, Active, Raised,
     Requests
<1>4. CASE Announce(s) \/ Park(s)
  BY <1>4 DEF Announce, StoreOutcome, Park, RunTypes, Places, Phases, Active,
     Raised, Requests
<1>5. CASE Receive(s) \/ Review(s)
  BY <1>5 DEF Receive, Review, Invalidated, RunTypes, Places, Phases, Active,
     Raised, Requests
<1>6. CASE RecordDecision(s) \/ UseDecision(s)
  BY <1>6 DEF RecordDecision, StoreOutcome, UseDecision, Invalidated, RunTypes,
     Places, Phases, Active, Raised, Requests
<1>7. CASE Execute(s)
  BY <1>7 DEF Execute, StoreOutcome, RunTypes, Places, Phases, Active, Raised,
     Requests
<1>8. CASE OtherEvents(s) \/ JournalHeals(s) \/ ReportStuck(s)
  BY <1>8 DEF OtherEvents, StoreOutcome, JournalHeals, ReportStuck, RunTypes,
     Places, Phases, Active, Raised, Requests
<1> QED
  BY <1>1, <1>2, <1>3, <1>4, <1>5, <1>6, <1>7, <1>8 DEF SessionStep, TaskStep

-----------------------------------------------------------------------------
\* The other steps keep the types of the runs.
LEMMA OtherRunTypes ==
  ASSUME RunTypes, GateTypes, Next, ~\E s \in Sessions : SessionStep(s)
  PROVE  RunTypes'
<1>1. ASSUME NEW c \in Clients, NEW s \in Sessions, NEW cmd \in StopCommands,
             StopBegins(c, s, cmd)
      PROVE  RunTypes'
  BY <1>1 DEF StopBegins, Cancel, RunTypes, Phases
<1>2. ASSUME NEW c \in Clients, StopCancels(c) \/ ClientAnswers(c) PROVE RunTypes'
  <2>1. stopped' \in [Sessions -> BOOLEAN]
    BY <1>2, DoneType DEF StopCancels, ClientAnswers, RunTypes
  <2> QED
    BY <1>2, <2>1 DEF StopCancels, ClientAnswers, RunTypes
<1>3. ASSUME NEW s \in Sessions, DrainInterrupts(s) PROVE RunTypes'
  BY <1>3 DEF DrainInterrupts, Cancel, RunTypes, Phases
<1>4. CASE Invalidate
  BY <1>4 DEF Invalidate, RunTypes
<1>5. CASE \/ \E c \in Clients, s \in Sessions \cup {"elsewhere"} :
                \E q \in pending, d \in ClientDecisions : DecideChecks(c, s, q, d)
           \/ \E c \in Clients : DecideTakes(c)
           \/ RequestShutdown \/ DrainCancelsAll \/ DrainWaitsForCommands
           \/ DrainStopsQueues \/ DrainPolls \/ DrainAnswers
  BY <1>5 DEF DecideChecks, DecideTakes, RequestShutdown, DrainCancelsAll,
     DrainWaitsForCommands, DrainStopsQueues, DrainPolls, DrainAnswers, RunTypes
<1> QED
  BY <1>1, <1>2, <1>3, <1>4, <1>5, Steps DEF ProcessStep, DrainStep,
     ClientContinues

\* The other steps neither start nor end a run.
LEMMA OtherActive ==
  ASSUME RunTypes, Active, Next, ~\E s \in Sessions : SessionStep(s)
  PROVE  Active'
<1>1. ASSUME NEW c \in Clients, NEW s \in Sessions, NEW cmd \in StopCommands,
             StopBegins(c, s, cmd)
      PROVE  Active'
  BY <1>1 DEF StopBegins, Cancel, RunTypes, Active
<1>2. ASSUME NEW s \in Sessions, DrainInterrupts(s) PROVE Active'
  BY <1>2 DEF DrainInterrupts, Cancel, RunTypes, Active
<1>3. CASE \/ \E c \in Clients, s \in Sessions \cup {"elsewhere"} :
                \E q \in pending, d \in ClientDecisions : DecideChecks(c, s, q, d)
           \/ \E c \in Clients : ClientContinues(c)
           \/ Invalidate \/ RequestShutdown \/ DrainCancelsAll
           \/ DrainWaitsForCommands \/ DrainStopsQueues \/ DrainPolls \/ DrainAnswers
  <2>1. UNCHANGED <<at, phase, run>>
    BY <1>3 DEF DecideChecks, ClientContinues, DecideTakes, StopCancels,
       ClientAnswers, Invalidate, RequestShutdown, DrainCancelsAll,
       DrainWaitsForCommands, DrainStopsQueues, DrainPolls, DrainAnswers
  <2> QED
    BY <2>1 DEF Active
<1> QED
  BY <1>1, <1>2, <1>3, Steps DEF ProcessStep, DrainStep

\* The other steps touch no call.
LEMMA OtherAudited ==
  ASSUME RunTypes, Audited, Next, ~\E s \in Sessions : SessionStep(s)
  PROVE  Audited'
<1>1. /\ UNCHANGED <<at, verdict, audit, effect>>
      /\ \A s \in Sessions : flag[s] => flag'[s]
  BY Steps DEF DecideChecks, StopBegins, ClientContinues, DecideTakes,
     StopCancels, ClientAnswers, ProcessStep, Invalidate, RequestShutdown,
     DrainStep, DrainCancelsAll, DrainInterrupts, DrainWaitsForCommands,
     DrainStopsQueues, DrainPolls, DrainAnswers, Cancel, RunTypes
<1> QED
  BY <1>1 DEF Audited, RunTypes

\* What a stop leaves of itself: the run it stopped, 0 when there was none.
LEMMA StopLeaves ==
  ASSUME RunTypes, GateTypes, NEW c \in Clients, NEW s \in Sessions,
         NEW cmd \in StopCommands, StopBegins(c, s, cmd)
  PROVE  /\ cmd = "abort_session" => client' = client
         /\ cmd # "abort_session" =>
              /\ Only(c) /\ client'[c].session = s
              /\ client'[c].pc = "cancel" /\ client'[c].cmd = cmd
              /\ client'[c].run \in {0, run[s]}
              /\ phase[s] = "idle" => client'[c].run = 0 /\ phase'[s] = "idle"
              /\ phase[s] # "idle" => client'[c].run = run[s]
<1> DEFINE r == IF phase[s] = "idle" THEN 0 ELSE run[s]
<1>1. /\ r \in Nat /\ r \in {0, run[s]}
      /\ phase[s] = "idle" => r = 0 /\ phase'[s] = "idle"
      /\ phase[s] # "idle" => r = run[s]
  BY DEF RunTypes, StopBegins, Cancel
<1>2. CASE cmd = "abort_session"
  BY <1>2 DEF StopBegins
<1>3. CASE cmd # "abort_session"
  <2>1. cmd \in {"abort", "abort_retry"}
    BY <1>3, ApprovalAssumption
  <2>2. client' = [client EXCEPT ![c] =
          [Free EXCEPT !.pc = "cancel", !.cmd = cmd, !.session = s, !.run = r]]
    BY <1>3 DEF StopBegins
  <2>4. r \in Nat
    BY DEF RunTypes
  <2> HIDE DEF r
  <2>3. /\ Only(c) /\ client'[c].session = s /\ client'[c].run = r
        /\ client'[c].pc = "cancel" /\ client'[c].cmd = cmd
    BY <2>1, <2>2, <2>4, StoppingType
  <2> QED
    BY <1>1, <1>3, <2>3
<1> QED
  BY <1>2, <1>3

\* A stop raises the flag before its command is answered.
LEMMA OtherFlagged ==
  ASSUME RunTypes, GateTypes, Active, Flagged, Next,
         ~\E s \in Sessions : SessionStep(s)
  PROVE  Flagged'
<1>1. ASSUME NEW c \in Clients, NEW s \in Sessions \cup {"elsewhere"},
             NEW q \in pending, NEW d \in ClientDecisions, DecideChecks(c, s, q, d)
      PROVE  Flagged'
  BY <1>1, DecidingType DEF DecideChecks, Only, Flagged
<1>2. ASSUME NEW c \in Clients, NEW s \in Sessions, NEW cmd \in StopCommands,
             StopBegins(c, s, cmd)
      PROVE  Flagged'
  <2>1. /\ phase[s] # "idle" => flag'[s]
        /\ \A u \in Sessions : /\ flag[u] => flag'[u]
                               /\ phase'[u] # "idle" => phase[u] # "idle"
                               /\ u # s => phase'[u] = phase[u]
        /\ run' = run
    BY <1>2 DEF StopBegins, Cancel, RunTypes, Phases
  <2>2. \A u \in Sessions : phase'[u] \in {"cancelling", "stuck"} => flag'[u]
    BY <1>2 DEF StopBegins, Cancel, RunTypes, Phases, Flagged
  <2>3. CASE cmd = "abort_session"
    BY <1>2, <2>1, <2>2, <2>3 DEF StopBegins, RunTypes, Flagged
  <2>4. CASE cmd # "abort_session"
    <3>1. /\ Only(c) /\ client'[c].session = s
          /\ client'[c].run <= run[s]
          /\ phase[s] = "idle" => client'[c].run = 0 /\ phase'[s] = "idle"
      BY <1>2, <2>4, StopLeaves DEF RunTypes
    <3>3. stopped' = stopped
      BY <1>2, <2>4 DEF StopBegins
    <3> QED
      BY <2>1, <2>2, <3>1, <3>3 DEF Flagged, Only
  <2> QED
    BY <2>3, <2>4
<1>3. ASSUME NEW c \in Clients, ClientContinues(c) PROVE Flagged'
  <2>1. Freed(c) \/ Answering(c) \/ client' = client
    BY <1>3, FreedType, AnsweringType
       DEF ClientContinues, DecideTakes, StopCancels, ClientAnswers, Done
  <2>2. UNCHANGED <<phase, flag, run>> /\ (UNCHANGED stopped \/ Done(c))
    BY <1>3 DEF ClientContinues, DecideTakes, StopCancels, ClientAnswers
  <2>3. client[c].pc # "free"
    BY <1>3 DEF ClientContinues, DecideTakes, StopCancels, ClientAnswers
  <2>4. \A s \in Sessions : stopped'[s] => flag'[s]
    BY <2>2, <2>3 DEF Done, Flagged
  <2> QED
    BY <2>1, <2>2, <2>3, <2>4 DEF Freed, Answering, Only, Flagged
<1>4. ASSUME NEW s \in Sessions, DrainInterrupts(s) PROVE Flagged'
  BY <1>4 DEF DrainInterrupts, Cancel, RunTypes, Phases, Flagged
<1>5. CASE \/ Invalidate \/ RequestShutdown \/ DrainCancelsAll
           \/ DrainWaitsForCommands \/ DrainStopsQueues \/ DrainPolls \/ DrainAnswers
  BY <1>5 DEF Invalidate, RequestShutdown, DrainCancelsAll,
     DrainWaitsForCommands, DrainStopsQueues, DrainPolls, DrainAnswers, Flagged
<1> QED
  BY <1>1, <1>2, <1>3, <1>4, <1>5, Steps DEF ProcessStep, DrainStep

-----------------------------------------------------------------------------
(* The map and the channels.  Entries are taken by an actor that holds     *)
(* none, and answered one by one.                                          *)

Takes(a, taken) ==
  /\ held[a] = {} /\ taken \subseteq pending
  /\ pending' = pending \ taken /\ held' = [held EXCEPT ![a] = taken]
  /\ UNCHANGED <<at, run, tool, mail>>

AnswersOne(a, q, decision, by, r) ==
  /\ q \in held[a] /\ Answer(q, decision, by, r)
  /\ held' = [held EXCEPT ![a] = held[a] \ {q}]
  /\ UNCHANGED <<pending, at, run, tool>>

\* Steps of a run that leave the gate alone: no run comes to wait or stops
\* waiting, and a waiting run's request stays the same.
Away ==
  /\ UNCHANGED <<pending, held, mail, client, drain>>
  /\ \A s \in Sessions :
       /\ Waiting(s)' <=> Waiting(s)
       /\ Waiting(s) => Request(s)' = Request(s)

\* What an actor that takes entries keeps: they are its own now.
LEMMA TakesKeeps ==
  ASSUME GateTypes, WaitersReachable, OnePlace, NEW a \in Actors, NEW taken,
         Takes(a, taken)
  PROVE  /\ pending' \subseteq Requests /\ IsFiniteSet(pending')
         /\ held' \in [Actors -> SUBSET Requests]
         /\ \A b \in Actors : IsFiniteSet(held'[b])
         /\ WaitersReachable' /\ OnePlace'
<1>1. IsFiniteSet(taken) /\ IsFiniteSet(pending')
  BY FS_Subset DEF Takes, GateTypes
<1>2. \A b \in Actors : IsFiniteSet(held'[b])
  BY <1>1 DEF Takes, GateTypes
<1>3. \A q \in held[a] \cup taken : Raised(q)
  BY DEF Takes, OnePlace, Raised, Waiting, Request, Requests, GateTypes
<1>4. OnePlace'
  BY <1>3 DEF Takes, OnePlace, Raised, Waiting, Request, GateTypes
<1>5. WaitersReachable'
  BY DEF Takes, WaitersReachable, Reachable, Waiting, Request, GateTypes
<1> QED
  BY <1>1, <1>2, <1>4, <1>5 DEF Takes, GateTypes

\* An answered entry is on the channel of a run that still waits for it.
LEMMA AnswersKeeps ==
  ASSUME GateTypes, WaitersReachable, OnePlace, NEW a \in Actors, NEW q,
         NEW decision \in Decisions, NEW by \in Commands \cup {"shutdown"},
         NEW r \in Nat, AnswersOne(a, q, decision, by, r)
  PROVE  /\ held' \in [Actors -> SUBSET Requests]
         /\ \A b \in Actors : IsFiniteSet(held'[b])
         /\ mail' \subseteq Mail
         /\ WaitersReachable' /\ OnePlace'
<1> DEFINE m == [request |-> q, decision |-> decision, by |-> by, run |-> r]
<1>1. q \in Requests /\ Raised(q)
  BY DEF AnswersOne, GateTypes, OnePlace
<1>2. m \in Mail /\ m.request = q
  BY <1>1 DEF Mail
<1>3. mail' = IF Listening(q) THEN mail \cup {m} ELSE mail
  BY DEF AnswersOne, Answer
<1> HIDE DEF m
<1>4. IsFiniteSet(held[a] \ {q})
  BY FS_Subset DEF GateTypes
<1>5. \A b \in Actors : IsFiniteSet(held'[b])
  BY <1>4 DEF AnswersOne, GateTypes
<1>6. OnePlace'
  BY <1>1, <1>2, <1>3 DEF AnswersOne, OnePlace, Raised, Waiting, Request,
     GateTypes
<1>7. WaitersReachable'
  <2> SUFFICES ASSUME NEW s \in Sessions, Waiting(s) PROVE Reachable(s)'
    BY DEF WaitersReachable, AnswersOne, Waiting
  <2>1. CASE Request(s) = q
    <3>1. Listening(q)
      BY <2>1 DEF Listening, Waiting
    <3> QED
      BY <1>2, <1>3, <2>1, <3>1 DEF Reachable, AnswersOne, Request
  <2>2. CASE Request(s) # q
    BY <1>3, <2>2 DEF WaitersReachable, Reachable, AnswersOne, Request,
       GateTypes
  <2> QED
    BY <2>1, <2>2
<1> QED
  BY <1>2, <1>3, <1>5, <1>6, <1>7 DEF AnswersOne, GateTypes

\* A step of a run other than Register, Park and Receive is away from the
\* gate.
LEMMA SessionAway ==
  ASSUME RunTypes, Active, NEW s \in Sessions, SessionStep(s),
         ~Register(s), ~Park(s), ~Receive(s)
  PROVE  Away
<1>1. CASE StartRun(s)
  BY <1>1 DEF StartRun, RunTypes, Active, Away, Waiting, Request
<1>2. CASE RunEnds(s) \/ ToolStarts(s)
  BY <1>2 DEF RunEnds, ToolStarts, RunTypes, Away, Waiting, Request
<1>3. CASE Fence(s) \/ Announce(s) \/ RecordDecision(s)
  BY <1>3 DEF Fence, Announce, RecordDecision, RunTypes, Away, Waiting, Request
<1>4. CASE NoAsk(s) \/ Review(s) \/ UseDecision(s) \/ Execute(s)
  BY <1>4 DEF NoAsk, Review, UseDecision, Execute, RunTypes, Away, Waiting,
     Request
<1>5. CASE OtherEvents(s) \/ JournalHeals(s) \/ ReportStuck(s)
  BY <1>5 DEF OtherEvents, StoreOutcome, JournalHeals, ReportStuck, RunTypes,
     Away, Waiting, Request
<1> QED
  BY <1>1, <1>2, <1>3, <1>4, <1>5 DEF SessionStep, TaskStep

\* A run's steps keep the types of the gate.
LEMMA SessionGateTypes ==
  ASSUME RunTypes, GateTypes, Active, NEW s \in Sessions, SessionStep(s)
  PROVE  GateTypes'
<1>1. CASE Register(s)
  <2>1. Request(s) \in Requests
    BY DEF Request, Requests, RunTypes
  <2>2. IsFiniteSet(pending')
    BY <1>1, FS_AddElement DEF Register, GateTypes
  <2> QED
    BY <1>1, <2>1, <2>2 DEF Register, GateTypes
<1>2. CASE Park(s)
  <2>1. pending' \subseteq pending
    BY <1>2 DEF Park
  <2>2. IsFiniteSet(pending')
    BY <2>1, FS_Subset DEF GateTypes
  <2> QED
    BY <1>2, <2>1, <2>2 DEF Park, GateTypes
<1>3. CASE Receive(s)
  BY <1>3 DEF Receive, GateTypes
<1>4. CASE Away
  BY <1>4 DEF Away, GateTypes
<1> QED
  BY <1>1, <1>2, <1>3, <1>4, SessionAway

\* A run waits only for an entry it registered, and withdraws or receives
\* only its own.
LEMMA SessionWaiters ==
  ASSUME RunTypes, GateTypes, Active, WaitersReachable,
         NEW s \in Sessions, SessionStep(s)
  PROVE  WaitersReachable'
<1>1. CASE Register(s)
  BY <1>1 DEF Register, RunTypes, WaitersReachable, Waiting, Reachable, Request
<1>2. CASE Park(s) \/ Receive(s)
  <2> SUFFICES ASSUME NEW u \in Sessions, Waiting(u)' PROVE Reachable(u)'
    BY DEF WaitersReachable
  <2>1. Waiting(u) /\ Request(u)' = Request(u) /\ held' = held
    BY <1>2 DEF Park, Receive, RunTypes, Waiting, Request
  <2>2. CASE u = s
    BY <1>2, <2>1, <2>2 DEF Park, Receive, RunTypes, WaitersReachable, Waiting,
       Reachable
  <2>3. CASE u # s
    <3>1. Request(u) # Request(s)
      BY <2>3 DEF Request
    <3>2. /\ pending' = pending \/ pending' = pending \ {Request(s)}
          /\ mail' = mail \/ \E m \in mail : m.request = Request(s) /\ mail' = mail \ {m}
      BY <1>2 DEF Park, Receive
    <3> QED
      BY <2>1, <3>1, <3>2 DEF WaitersReachable, Reachable
  <2> QED
    BY <2>2, <2>3
<1>3. CASE Away
  BY <1>3 DEF Away, WaitersReachable, Reachable
<1> QED
  BY <1>1, <1>2, <1>3, SessionAway

\* A run registers a request nobody has seen before, and leaves the gate with
\* its own entry gone from the map.
LEMMA SessionOnePlace ==
  ASSUME RunTypes, GateTypes, Active, OnePlace, NEW s \in Sessions, SessionStep(s)
  PROVE  OnePlace'
<1>1. \A q \in Requests : Raised(q) => Raised(q)'
  BY RaisedKept
<1>2. /\ \A a \in Actors : \A q \in held[a] : Raised(q)'
      /\ \A m \in mail : Raised(m.request)'
  BY <1>1 DEF OnePlace, GateTypes, Mail
<1>3. CASE Register(s)
  <2>1. /\ \A a \in Actors : Request(s) \notin held[a]
        /\ \A m \in mail : m.request # Request(s)
    BY <1>3 DEF Register, OnePlace, Raised, Request, RunTypes
  <2>2. /\ Request(s) \in Requests /\ Request(s)[1] = s
        /\ \A u \in Sessions : /\ Waiting(u) => Waiting(u)'
                               /\ Request(u)' = Request(u)
        /\ Waiting(s)'
    BY <1>3 DEF Register, RunTypes, Waiting, Request, Requests
  <2>3. /\ pending' = pending \cup {Request(s)}
        /\ UNCHANGED <<held, mail>>
    BY <1>3 DEF Register
  <2> QED
    BY <1>2, <2>1, <2>2, <2>3 DEF OnePlace
<1>4. CASE Park(s) \/ Receive(s)
  <2>1. /\ \A u \in Sessions : /\ Waiting(u) /\ u # s => Waiting(u)'
                               /\ Request(u)' = Request(u)
        /\ Waiting(s)' \/ Request(s) \notin pending'
        /\ pending' \subseteq pending /\ held' = held /\ mail' \subseteq mail
    BY <1>4 DEF Park, Receive, RunTypes, Waiting, Request, OnePlace
  <2> QED
    BY <1>2, <2>1 DEF OnePlace
<1>5. CASE Away
  BY <1>2, <1>5 DEF Away, OnePlace
<1> QED
  BY <1>3, <1>4, <1>5, SessionAway

\* No run starts in a session that an abort still holds.
LEMMA SessionAborts ==
  ASSUME RunTypes, GateTypes, Active, Aborts, NEW s \in Sessions, SessionStep(s)
  PROVE  Aborts'
<1>1. UNCHANGED <<held, client>> /\ mail' \subseteq mail
  BY DEF SessionStep, StartRun, TaskStep, RunEnds, ToolStarts, Fence, NoAsk,
     Register, Announce, Park, Receive, Review, RecordDecision, UseDecision,
     Execute, OtherEvents, JournalHeals, ReportStuck
<1>2. \A u \in Sessions :
        \/ StartRun(s) /\ u = s
        \/ run'[u] = run[u] /\ (phase'[u] # "idle" => phase[u] # "idle")
  <2>1. CASE StartRun(s) \/ RunEnds(s)
    BY <2>1 DEF StartRun, RunEnds, RunTypes
  <2>2. CASE ReportStuck(s)
    BY <2>2 DEF ReportStuck, RunTypes
  <2>3. CASE ~StartRun(s) /\ ~RunEnds(s) /\ ~ReportStuck(s)
    BY <2>3 DEF SessionStep, TaskStep, ToolStarts, Fence, NoAsk,
       Register, Announce, Park, Receive, Review, RecordDecision, UseDecision,
       Execute, OtherEvents, JournalHeals
  <2> QED
    BY <2>1, <2>2, <2>3
<1>3. ASSUME NEW c \in Clients, client[c].cmd = "abort", client[c].session = s
      PROVE  ~StartRun(s)
  BY <1>3 DEF StartRun, ReadLocked
<1> QED
  BY <1>1, <1>2, <1>3 DEF Aborts, AbortSparesNextRun

-----------------------------------------------------------------------------
(* The clients and the drain at the gate.                                  *)

\* The part of the invariant about the gate.
AtGate == GateTypes /\ WaitersReachable /\ Holders /\ OnePlace /\ Aborts

\* A run's steps keep it.
LEMMA SessionAtGate ==
  ASSUME RunTypes, Active, AtGate, NEW s \in Sessions, SessionStep(s)
  PROVE  AtGate'
<1>1. Holders'
  BY DEF AtGate, Holders, SessionStep, StartRun, TaskStep, RunEnds, ToolStarts,
     Fence, NoAsk, Register, Announce, Park, Receive, Review, RecordDecision,
     UseDecision, Execute, OtherEvents, JournalHeals, ReportStuck
<1> QED
  BY <1>1, SessionGateTypes, SessionWaiters, SessionOnePlace, SessionAborts DEF
     AtGate

\* Commands that only look at the map.
LEMMA AdmittedAtGate ==
  ASSUME RunTypes, Active, AtGate, NEW c \in Clients,
         \/ \E s \in Sessions \cup {"elsewhere"} :
              \E q \in pending, d \in ClientDecisions : DecideChecks(c, s, q, d)
         \/ \E s \in Sessions, cmd \in StopCommands : StopBegins(c, s, cmd)
  PROVE  AtGate'
<1>1. UNCHANGED <<pending, held, mail, at, run, tool, drain>>
  BY DEF DecideChecks, StopBegins
<1>2. held[c] = {}
  BY DEF AtGate, Holders, DecideChecks, StopBegins, Admitted
<1>3. client' = client \/ Only(c)
  BY DecidingType, StopLeaves DEF AtGate
<1>4. GateTypes' /\ WaitersReachable' /\ OnePlace'
  BY <1>1, <1>3 DEF AtGate, GateTypes, Only, WaitersReachable, Reachable,
     Waiting,
     Request, OnePlace, Raised
<1>5. Holders'
  BY <1>1, <1>2, <1>3 DEF AtGate, Holders, Only
<1>6. \A u \in Sessions : phase'[u] # "idle" => phase[u] # "idle"
  BY DEF DecideChecks, StopBegins, Cancel, RunTypes
<1>7. client'[c].cmd = "abort" =>
        \/ client' = client
        \/ /\ client'[c].session \in Sessions /\ client'[c].pc # "decide"
           /\ phase[client'[c].session] # "idle" =>
                client'[c].run = run[client'[c].session]
  BY DecidingType, StopLeaves DEF AtGate
<1>8. Aborts'
  BY <1>1, <1>2, <1>3, <1>6, <1>7 DEF AtGate, Aborts, AbortSparesNextRun, Only
<1> QED
  BY <1>4, <1>5, <1>8 DEF AtGate

\* A client that takes its entries, or finds them gone.
LEMMA ClientTakesAtGate ==
  ASSUME RunTypes, Active, AtGate, NEW c \in Clients,
         DecideTakes(c) \/ StopCancels(c)
  PROVE  AtGate'
<1>1. held[c] = {} /\ c \in Actors /\ c # Drain
  BY ApprovalAssumption DEF AtGate, Holders, DecideTakes, StopCancels, Actors
<1>2. PICK taken : /\ Takes(c, taken)
                   /\ taken # {} => Answering(c)
                   /\ Freed(c) \/ Answering(c)
                   /\ client[c].cmd = "abort" =>
                        \A q \in taken : Of(client[c].session, q)
  <2>1. CASE DecideTakes(c) /\ client[c].request \in pending
    <3>1. Takes(c, {client[c].request})
      BY <1>1, <2>1 DEF DecideTakes, Takes
    <3>2. Answering(c) /\ client[c].cmd # "abort"
      BY <2>1, AnsweringType DEF DecideTakes, AtGate, Aborts
    <3> QED
      BY <3>1, <3>2
  <2>2. CASE DecideTakes(c) /\ client[c].request \notin pending
    <3>1. Takes(c, {})
      BY <1>1, <2>2 DEF DecideTakes, Takes, AtGate, GateTypes
    <3>2. Freed(c)
      BY <2>2, FreedType DEF DecideTakes, AtGate
    <3> QED
      BY <3>1, <3>2
  <2>3. CASE StopCancels(c)
    <3> DEFINE taken == {q \in pending : Of(client[c].session, q)}
    <3>1. Takes(c, taken)
      BY <1>1, <2>3 DEF StopCancels, Takes
    <3>2. CASE taken = {}
      <4>1. Freed(c)
        BY <2>3, <3>2, FreedType DEF StopCancels, Done, AtGate
      <4> QED
        BY <3>1, <3>2, <4>1
    <3>3. CASE taken # {}
      <4>1. Answering(c)
        BY <2>3, <3>3, AnsweringType DEF StopCancels, AtGate
      <4> QED
        BY <3>1, <4>1
    <3> QED
      BY <3>2, <3>3
  <2> QED
    BY <2>1, <2>2, <2>3
<1>3. UNCHANGED <<phase, drain>>
  BY DEF DecideTakes, StopCancels
<1>4. GateTypes' /\ WaitersReachable' /\ OnePlace'
  BY <1>1, <1>2, <1>3, TakesKeeps DEF AtGate, GateTypes, Takes, Freed,
     Answering, Only
<1>5. Holders'
  BY <1>1, <1>2, <1>3 DEF AtGate, Holders, GateTypes, Takes, Freed, Answering,
     Only, Actors
<1>6. client[c].cmd = "abort" => \A q \in taken : q[2] = client[c].run
  BY <1>2 DEF AtGate, Aborts, OnePlace, Active, Waiting, Request, Of, Takes,
     RunTypes
<1>7. Aborts'
  BY <1>1, <1>2, <1>3, <1>6 DEF AtGate, Aborts, AbortSparesNextRun, GateTypes,
     Takes, Freed,
     Answering, Only, Actors
<1> QED
  BY <1>4, <1>5, <1>7 DEF AtGate

\* A client answers an entry, and is free after the last one.
LEMMA ClientAnswersAtGate ==
  ASSUME RunTypes, Active, AtGate, NEW c \in Clients, ClientAnswers(c)
  PROVE  AtGate'
<1>1. c \in Actors /\ c # Drain /\ client[c] \in Command
  BY ApprovalAssumption DEF Actors, AtGate, GateTypes
<1>2. PICK q \in held[c] :
        /\ Answer(q, client[c].decision, client[c].cmd, client[c].run)
        /\ held' = [held EXCEPT ![c] = held[c] \ {q}]
  BY <1>1 DEF ClientAnswers, AtGate, GateTypes
<1>3. AnswersOne(c, q, client[c].decision, client[c].cmd, client[c].run)
  BY <1>2 DEF AnswersOne, ClientAnswers
<1>4. UNCHANGED <<phase, drain, run, pending>> /\ client[c].pc = "answer"
  BY DEF ClientAnswers
<1>5. client' = client \/ (Freed(c) /\ held'[c] = {})
  BY <1>1, <1>2, FreedType, LastAnswer DEF ClientAnswers, Done, AtGate,
     GateTypes
<1>6. GateTypes' /\ WaitersReachable' /\ OnePlace'
  BY <1>1, <1>3, <1>4, <1>5, AnswersKeeps DEF AtGate, GateTypes, Freed, Only,
     Command
<1>7. Holders'
  BY <1>1, <1>2, <1>4, <1>5 DEF AtGate, Holders, GateTypes, Freed, Only, Actors
<1>8. client[c].cmd = "abort" => q[2] = client[c].run
  BY <1>2 DEF AtGate, Aborts
<1>9. AbortSparesNextRun'
  BY <1>2, <1>8 DEF AtGate, Aborts, AbortSparesNextRun, Answer
<1>10. Aborts'
  BY <1>1, <1>2, <1>4, <1>5, <1>9 DEF AtGate, Aborts, GateTypes, Freed, Only,
     Actors
<1> QED
  BY <1>6, <1>7, <1>10 DEF AtGate

\* The drain goes through its stages and never back to serving.
LEMMA DrainMoves ==
  ASSUME GateTypes, ProcessStep
  PROVE  /\ drain' \in DrainRecord
         /\ DrainCancelsAll \/ DrainPolls \/ (\E s \in Sessions : DrainInterrupts(s))
              => drain'.stage \notin {"serving", "cancel_all"}
<1>1. drain \in DrainRecord
  BY DEF GateTypes
<1>2. ASSUME NEW s \in Sessions, DrainInterrupts(s)
      PROVE  drain' \in DrainRecord /\ drain'.stage = drain.stage
  <2>1. drain' = [drain EXCEPT !.left = drain.left \ {s}]
    BY <1>2 DEF DrainInterrupts
  <2> QED
    BY <1>1, <2>1 DEF DrainRecord
<1>3. ASSUME DrainPolls
      PROVE  drain' \in DrainRecord /\ drain'.stage \in {"settle", "stopped"}
  BY <1>1, <1>3 DEF DrainPolls, DrainRecord
<1>4. ASSUME RequestShutdown \/ DrainCancelsAll \/ DrainWaitsForCommands \/ DrainStopsQueues
      PROVE  drain' \in DrainRecord
  BY <1>4 DEF RequestShutdown, DrainCancelsAll, DrainWaitsForCommands,
     DrainStopsQueues, DrainRecord
<1>5. ASSUME Invalidate \/ DrainAnswers PROVE drain' \in DrainRecord
  BY <1>1, <1>5 DEF Invalidate, DrainAnswers
<1>6. ASSUME DrainCancelsAll PROVE drain'.stage = "interrupt"
  BY <1>6 DEF DrainCancelsAll
<1>8. ASSUME NEW s \in Sessions, DrainInterrupts(s)
      PROVE  drain.stage \notin {"serving", "cancel_all"}
  BY <1>8 DEF DrainInterrupts
<1> QED
  BY <1>2, <1>3, <1>4, <1>5, <1>6, <1>8 DEF ProcessStep, DrainStep

\* The drain takes entries only with empty hands, and answers what it took.
LEMMA ProcessAtGate ==
  ASSUME RunTypes, Active, AtGate, ProcessStep
  PROVE  AtGate'
<1>0. Drain \in Actors /\ Drain \notin Clients
  BY ApprovalAssumption DEF Actors
<1>1. drain' \in DrainRecord
  BY DrainMoves DEF AtGate
<1>2. UNCHANGED <<client, at, run, tool>>
  BY DEF ProcessStep, Invalidate, RequestShutdown, DrainStep,
     DrainCancelsAll, DrainInterrupts, DrainWaitsForCommands, DrainStopsQueues,
     DrainPolls, DrainAnswers
<1>3. \A s \in Sessions : phase'[s] # "idle" => phase[s] # "idle"
  BY DEF ProcessStep, Invalidate, RequestShutdown, DrainStep,
     DrainCancelsAll, DrainInterrupts, DrainWaitsForCommands, DrainStopsQueues,
     DrainPolls, DrainAnswers, Cancel, RunTypes
<1>4. CASE Invalidate \/ RequestShutdown \/ DrainWaitsForCommands \/ DrainStopsQueues
  <2>1. UNCHANGED <<pending, held, mail>> /\ (held[Drain] # {} => drain' = drain)
    BY <1>4 DEF Invalidate, RequestShutdown, DrainWaitsForCommands,
       DrainStopsQueues,
       AtGate, Holders
  <2>2. GateTypes' /\ WaitersReachable' /\ OnePlace'
    BY <1>1, <1>2, <2>1 DEF AtGate, GateTypes, WaitersReachable, Reachable,
       Waiting,
       Request, OnePlace, Raised
  <2>3. Holders'
    BY <1>2, <2>1 DEF AtGate, Holders
  <2>4. Aborts'
    BY <1>2, <1>3, <2>1 DEF AtGate, Aborts, AbortSparesNextRun
  <2> QED
    BY <2>2, <2>3, <2>4 DEF AtGate
<1>5. CASE DrainCancelsAll \/ DrainPolls \/ \E s \in Sessions : DrainInterrupts(s)
  <2>1. PICK taken : Takes(Drain, taken)
    BY <1>5 DEF DrainCancelsAll, DrainPolls, DrainInterrupts, DrainTakes, Takes,
       AtGate, Holders
  <2>2. drain'.stage \notin {"serving", "cancel_all"}
    BY <1>5, DrainMoves DEF AtGate
  <2>3. GateTypes' /\ WaitersReachable' /\ OnePlace'
    BY <1>0, <1>1, <1>2, <2>1, TakesKeeps DEF AtGate, GateTypes, Takes
  <2>4. Holders'
    BY <1>0, <1>2, <2>1, <2>2 DEF AtGate, Holders, GateTypes, Takes, Actors
  <2>5. Aborts'
    BY <1>0, <1>2, <1>3, <2>1 DEF AtGate, Aborts, AbortSparesNextRun,
       GateTypes, Takes, Actors
  <2> QED
    BY <2>3, <2>4, <2>5 DEF AtGate
<1>6. CASE DrainAnswers
  <2>1. PICK q \in held[Drain] : AnswersOne(Drain, q, "cancelled", "shutdown", 0)
    BY <1>0, <1>6 DEF DrainAnswers, AnswersOne, AtGate, GateTypes
  <2>2. UNCHANGED <<pending, drain>>
    BY <1>6 DEF DrainAnswers
  <2>3. GateTypes' /\ WaitersReachable' /\ OnePlace'
    BY <1>0, <1>1, <1>2, <2>1, <2>2, AnswersKeeps DEF AtGate, GateTypes,
       Decisions
  <2>4. Holders'
    BY <1>0, <1>2, <2>1, <2>2 DEF AtGate, Holders, GateTypes, AnswersOne, Actors
  <2>5. AbortSparesNextRun'
    BY <2>1 DEF AtGate, Aborts, AbortSparesNextRun, AnswersOne, Answer
  <2>6. Aborts'
    BY <1>0, <1>2, <1>3, <2>1, <2>5 DEF AtGate, Aborts, GateTypes, AnswersOne,
       Actors
  <2> QED
    BY <2>3, <2>4, <2>6 DEF AtGate
<1> QED
  BY <1>4, <1>5, <1>6 DEF ProcessStep, DrainStep

-----------------------------------------------------------------------------
(* The results.                                                            *)

\* The first state.
LEMMA InitHolds == Init => IInv
<1> SUFFICES ASSUME Init PROVE IInv
  OBVIOUS
<1>1. Free \in Command /\ Free.pc = "free" /\ Free.cmd = "none"
  BY DEF Free, Command, Commands, Decisions
<1>2. GateTypes
  BY <1>1, FS_EmptySet DEF Init, GateTypes, DrainRecord
<1>3. RunTypes
  BY DEF Init, RunTypes, Phases, Places, Verdicts
<1>4. Active /\ Flagged /\ Audited
  BY <1>1 DEF Init, Active, Flagged, Audited
<1>5. WaitersReachable /\ Holders /\ OnePlace
  BY ApprovalAssumption DEF Init, WaitersReachable, Waiting, Holders, OnePlace,
     Actors
<1>6. Aborts
  BY <1>1 DEF Init, Aborts, AbortSparesNextRun
<1> QED
  BY <1>2, <1>3, <1>4, <1>5, <1>6 DEF IInv

\* Every step keeps the invariant.
LEMMA InvStep ==
  ASSUME IInv, [Next]_vars
  PROVE  IInv'
<1>1. CASE \E s \in Sessions : SessionStep(s)
  BY <1>1, SessionRunTypes, SessionActive, SessionFlagged, SessionAudited,
     SessionAtGate DEF IInv, AtGate
<1>2. CASE Next /\ ~\E s \in Sessions : SessionStep(s)
  <2>1. RunTypes' /\ Active' /\ Flagged' /\ Audited'
    BY <1>2, OtherRunTypes, OtherActive, OtherFlagged, OtherAudited DEF IInv
  <2>2. AtGate'
    BY <1>2, Steps, AdmittedAtGate, ClientTakesAtGate, ClientAnswersAtGate,
       ProcessAtGate DEF IInv, AtGate, ClientContinues
  <2> QED
    BY <2>1, <2>2 DEF IInv, AtGate
<1>3. CASE UNCHANGED vars
  <2>1. RunTypes' /\ GateTypes' /\ Active' /\ Flagged' /\ Audited'
    BY <1>3 DEF vars, IInv, RunTypes, GateTypes, Active, Flagged, Audited
  <2>2. WaitersReachable' /\ Holders'
    BY <1>3 DEF vars, IInv, WaitersReachable, Reachable, Waiting, Request,
       Holders
  <2>3. OnePlace'
    BY <1>3 DEF vars, IInv, OnePlace, Raised, Waiting, Request
  <2>4. Aborts'
    BY <1>3 DEF vars, IInv, Aborts, AbortSparesNextRun
  <2> QED
    BY <2>1, <2>2, <2>3, <2>4 DEF IInv
<1> QED
  BY <1>1, <1>2, <1>3

\* The invariant the results rest on, for every set of sessions and clients and
\* every number of runs and tool calls.
THEOREM GateInvariant == Spec => []IInv
<1>1. IInv /\ [Next]_vars => IInv'
  BY InvStep
<1> QED
  BY <1>1, InitHolds, PTL DEF Spec

\* Every variable keeps to the values its Rust type allows (approval.rs, run.rs).
THEOREM GateTypeCorrect == Spec => []TypeOK
<1>1. IInv => TypeOK
  BY DEF IInv, RunTypes, GateTypes, TypeOK, Verdicts, Command, Mail
<1> QED
  BY <1>1, GateInvariant, PTL

\* A thread blocked in the gate's recv, which has no timeout, can always be
\* woken: its request is in the map, its answer is on the channel, or whoever
\* took the entry still owes the answer, whatever clients and the drain race
\* for it (approval.rs, request_decision, decide and cancel_session).
THEOREM NoLostWaiterHolds == Spec => []NoLostWaiter
<1>1. IInv => NoLostWaiter
  BY DEF IInv, WaitersReachable, Waiting, Reachable, NoLostWaiter
<1> QED
  BY <1>1, GateInvariant, PTL

\* No tool executes on an approval whose record met a storage failure, even if
\* the journal healed in between, or that has no record (approval.rs, run loop).
THEOREM FailedAuditBlocksHolds == Spec => []FailedAuditBlocks
<1>1. IInv => FailedAuditBlocks
  BY DEF IInv, Audited, FailedAuditBlocks
<1> QED
  BY <1>1, GateInvariant, PTL

\* handle_abort cancels approvals of the run it stopped and of no later one
\* (rpc/commands: the session's read lock is held until they are cancelled).
THEOREM AbortSparesNextRunHolds == Spec => []AbortSparesNextRun
<1>1. IInv => AbortSparesNextRun
  BY DEF IInv, Aborts
<1> QED
  BY <1>1, GateInvariant, PTL

\* Once a stop of a run was answered Ok, no further tool of that run executes:
\* the flag was raised first, and the run checks it after the gate.
THEOREM NoEffectAfterStopHolds == Spec => NoEffectAfterStop
<1>1. ASSUME IInv, [Next]_vars, NEW s \in Sessions,
             effect[s] = "none", effect'[s] # "none"
      PROVE  ~stopped[s]
  <2>1. PICK u \in Sessions : Execute(u)
    <3>1. CASE \E u \in Sessions : SessionStep(u) /\ ~Execute(u)
      BY <1>1, <3>1 DEF SessionStep, StartRun, TaskStep, RunEnds, ToolStarts,
         Fence, NoAsk, Register, Announce, Park, Receive, Review, RecordDecision,
         UseDecision, OtherEvents, JournalHeals, ReportStuck, IInv, RunTypes
    <3>2. CASE Next /\ ~\E u \in Sessions : SessionStep(u)
      BY <1>1, <3>2, Steps DEF DecideChecks, StopBegins, ClientContinues,
         DecideTakes,
         StopCancels, ClientAnswers, ProcessStep, Invalidate, RequestShutdown,
         DrainStep, DrainCancelsAll, DrainInterrupts, DrainWaitsForCommands,
         DrainStopsQueues, DrainPolls, DrainAnswers
    <3>3. CASE UNCHANGED vars
      BY <1>1, <3>3 DEF vars
    <3> QED
      BY <1>1, <3>1, <3>2, <3>3
  <2>2. u = s /\ ~flag[s]
    BY <1>1, <2>1 DEF Execute, IInv, RunTypes
  <2> QED
    BY <1>1, <2>2 DEF IInv, Flagged
<1>2. IInv /\ [Next]_vars =>
        [\A s \in Sessions :
           effect[s] = "none" /\ effect'[s] # "none" => ~stopped[s]]_vars
  BY <1>1
<1> QED
  BY <1>2, GateInvariant, PTL DEF Spec, NoEffectAfterStop
=============================================================================
