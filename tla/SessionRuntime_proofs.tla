------------------------ MODULE SessionRuntime_proofs ------------------------
(***************************************************************************)
(* Proofs about SessionRuntime for every number of leases, every set of    *)
(* requests and every length of the idempotency window.                    *)
(***************************************************************************)
EXTENDS SessionRuntime, SequenceTheorems, TLAPS

\* The lease sent to, or on its way to, the scheduler's completion channel.
Announced(e) ==
  e \in announcing \/ \E i \in 1..Len(completions) : completions[i] = e

\* Who owns the session: a live task owns the slot, the slot and the starter
\* own the active lease, and they exclude each other.
Ownership ==
  /\ slot # NoLease => active.lease = slot
  /\ starter # NoLease =>
       /\ slot = NoLease
       /\ active.lease = starter
       /\ active.phase = "starting" /\ active.cause = "none"
  /\ \A e \in Leases : task[e] # "none" => slot = e

\* Leases are handed out in order, and nothing is recorded for one that has
\* not been handed out yet.
Fresh ==
  /\ active.lease <= epoch
  /\ timer <= epoch
  /\ \A e \in Leases : e > epoch =>
       /\ e \notin due \cup userStopped
       /\ durable[e] = "none"
       /\ ~Announced(e)

\* What the recorded cause says of the active run.
CauseKnown ==
  active.lease # NoLease =>
    /\ active.phase = "cancelling" => active.cause # "none"
    /\ (timer = active.lease \/ active.lease \in due) => active.cause # "none"
    /\ active.lease \in userStopped => active.cause = "user"

\* How far the run task is, against the phase and the store.
Progress ==
  /\ active.phase \in Abortable => durable[active.lease] = "none"
  /\ \A e \in Leases :
       /\ task[e] \in {"fenced", "committed"} => active.phase \notin Abortable
       /\ task[e] \in {"streaming", "fenced"} => durable[e] = "none"
       /\ task[e] = "committed" => durable[e] # "none"
       /\ task[e] = "returned" /\ active.phase = "finalizing"
            => durable[e] # "none"

\* The lease that is still active is not announced.
NotYetAnnounced == active.lease # NoLease => ~Announced(active.lease)

IInv ==
  /\ TypeOK
  /\ Ownership
  /\ Fresh
  /\ CauseKnown
  /\ Progress
  /\ NotYetAnnounced
  /\ StuckOnlyIfStoppedOrGone
  /\ UserStopHonoured
  /\ CompletionHasTerminal
  /\ AnnouncedOnce

-----------------------------------------------------------------------------
(* Type correctness.                                                        *)

\* Remember keeps the window a sequence of request ids.
LEMMA RememberType ==
  ASSUME ConstantsAssumption, recent \in Seq(Requests),
         NEW req \in Requests \cup {NoRequest}
  PROVE  Remember(req) \in Seq(Requests)
<1>1. CASE req = NoRequest
  BY <1>1 DEF Remember
<1>2. CASE req # NoRequest
  <2>1. Append(recent, req) \in Seq(Requests) /\ Append(recent, req) # << >>
    BY <1>2, AppendProperties
  <2>2. Tail(Append(recent, req)) \in Seq(Requests)
    BY <2>1, HeadTailProperties
  <2>3. QED
    BY <1>2, <2>1, <2>2 DEF Remember
<1>3. QED
  BY <1>1, <1>2

\* The steps of RunControl keep the active run and the window well-typed.
LEMMA ControlType ==
  ASSUME ConstantsAssumption, TypeOK, NEW e \in Leases
  PROVE  /\ Finish(e) => /\ active' \in ActiveRun \cup {Idle}
                         /\ recent' \in Seq(Requests)
         /\ MarkStuck(e) => active' \in ActiveRun \cup {Idle}
         /\ MarkPersistenceDegraded(e) => active' \in ActiveRun \cup {Idle}
         /\ InstallCancellation(e) => active' \in ActiveRun \cup {Idle}
<1>1. active.req \in Requests \cup {NoRequest}
  BY DEF TypeOK, ActiveRun, Idle
<1>2. Remember(active.req) \in Seq(Requests)
  BY <1>1, RememberType DEF TypeOK
<1>3. active.lease = e => active \in ActiveRun
  BY DEF TypeOK, ActiveRun, Idle, Leases, NoLease
<1>4. ASSUME NEW p \in Phases, active \in ActiveRun
      PROVE  [active EXCEPT !.phase = p] \in ActiveRun
  BY <1>4 DEF ActiveRun
<1>5. Finish(e) => /\ active' \in ActiveRun \cup {Idle}
                   /\ recent' \in Seq(Requests)
  BY <1>2 DEF Finish, TypeOK
<1>6. MarkStuck(e) => active' \in ActiveRun \cup {Idle}
  BY <1>3, <1>4 DEF MarkStuck, TypeOK, Phases
<1>7. MarkPersistenceDegraded(e) => active' \in ActiveRun \cup {Idle}
  BY <1>3, <1>4 DEF MarkPersistenceDegraded, TypeOK, Phases
<1>8. InstallCancellation(e) => active' \in ActiveRun \cup {Idle}
  BY <1>3, <1>4 DEF InstallCancellation, TypeOK, Phases
<1>9. QED
  BY <1>5, <1>6, <1>7, <1>8

\* Every step keeps the types.
LEMMA TypeStep == ConstantsAssumption /\ TypeOK /\ [Next]_vars => TypeOK'
<1> SUFFICES ASSUME ConstantsAssumption, TypeOK, [Next]_vars PROVE TypeOK'
  OBVIOUS
<1>1. ASSUME NEW req \in Requests \cup {NoRequest}, BeginScheduled(req)
      PROVE  TypeOK'
  BY <1>1 DEF BeginScheduled, TypeOK, ActiveRun, Leases, NoLease, Phases,
     Causes, ConstantsAssumption
<1>2. CASE Spawn
  BY <1>2, ControlType DEF Spawn, TypeOK, LiveTask, NoLease
<1>3. CASE StartFails
  BY <1>3, ControlType DEF StartFails, TypeOK, NoLease
<1>4. ASSUME NEW e \in Leases, TaskStep(e) PROVE TypeOK'
  <2>1. CASE TaskAbandon(e)
    BY <2>1, ControlType DEF TaskAbandon, Returns, TypeOK
  <2>2. CASE TaskFence(e)
    <3>1. active.lease = e => active \in ActiveRun
      BY DEF TypeOK, ActiveRun, Idle, Leases, NoLease
    <3>2. active' \in ActiveRun \cup {Idle}
      BY <2>2, <3>1 DEF TaskFence, TypeOK, ActiveRun, Phases
    <3>3. task' \in [Leases -> LiveTask \cup {"none", "returned", "panicked"}]
      BY <2>2 DEF TaskFence, Returns, TypeOK, LiveTask
    <3>4. QED
      BY <2>2, <3>2, <3>3 DEF TaskFence, TypeOK
  <2>3. CASE TaskCommit(e)
    BY <2>3 DEF TaskCommit, TerminalState, Outcomes, LiveTask, TypeOK
  <2>4. CASE TaskCommitFails(e)
    <3>1. durable' \in [Leases -> Outcomes \cup Unfinished]
      BY <2>4 DEF TaskCommitFails, TerminalState, Outcomes, TypeOK
    <3>2. QED
      BY <2>4, <3>1, ControlType DEF TaskCommitFails, Returns, TypeOK
  <2>5. CASE TaskCommitCancelled(e)
    BY <2>5 DEF TaskCommitCancelled, Returns, Unfinished, TypeOK
  <2>6. CASE TaskPublish(e)
    BY <2>6, ControlType DEF TaskPublish, Returns, TypeOK
  <2>7. CASE TaskPanics(e)
    BY <2>7 DEF TaskPanics, TypeOK
  <2>8. QED
    BY <1>4, <2>1, <2>2, <2>3, <2>4, <2>5, <2>6, <2>7 DEF TaskStep
<1>5. ASSUME NEW e \in Leases, Monitor(e) PROVE TypeOK'
  <2>1. active' \in ActiveRun \cup {Idle} /\ recent' \in Seq(Requests)
        /\ announcing' \subseteq Leases
    BY <1>5, ControlType DEF Monitor, MonitorFinishes, MonitorMarks, TypeOK
  <2>2. QED
    BY <1>5, <2>1 DEF Monitor, TypeOK, NoLease
<1>6. ASSUME NEW e \in Leases, Announce(e) PROVE TypeOK'
  BY <1>6 DEF Announce, TypeOK
<1>7. ASSUME NEW cause \in {"user", "shutdown"}, RequestCancellation(cause)
      PROVE  TypeOK'
  <2>1. active \in ActiveRun
    BY <1>7 DEF RequestCancellation, TypeOK, Idle, Abortable
  <2>2. QED
    BY <1>7, <2>1 DEF RequestCancellation, CancelledCause, TypeOK, ActiveRun,
       Phases, Causes
<1>8. CASE TimerCheck
  BY <1>8 DEF TimerCheck, TypeOK, NoLease
<1>9. ASSUME NEW e \in Leases, TimerMark(e) PROVE TypeOK'
  BY <1>9, ControlType DEF TimerMark, TypeOK
<1>10. ASSUME NEW outcome \in {"fault_cancelled", "fault_interrupted"},
              SettleFault(outcome)
       PROVE  TypeOK'
  <2>1. active.lease \in Leases
    BY <1>10 DEF SettleFault, TypeOK, Idle, Faulted, ActiveRun
  <2>2. QED
    BY <1>10, <2>1, ControlType DEF SettleFault, PersistFaultOutcome, TypeOK,
       Outcomes, NoLease
<1>11. CASE RecoverPersistenceDegraded
  <2>1. active.lease \in Leases
    BY <1>11 DEF RecoverPersistenceDegraded, TypeOK, Idle, ActiveRun
  <2>2. QED
    BY <1>11, <2>1, ControlType DEF RecoverPersistenceDegraded,
       PersistFaultOutcome, TypeOK, Outcomes, NoLease
<1>12. CASE RecoverSessionJournal
  BY <1>12 DEF RecoverSessionJournal, TypeOK
<1>13. CASE StorageFails
  BY <1>13 DEF StorageFails, TypeOK
<1>14. CASE UNCHANGED vars
  BY <1>14 DEF vars, TypeOK
<1>15. QED
  BY <1>1, <1>2, <1>3, <1>4, <1>5, <1>6, <1>7, <1>8, <1>9, <1>10, <1>11,
     <1>12, <1>13, <1>14 DEF Next

\* The initial state is well-typed.
LEMMA InitType == Init => TypeOK
<1> SUFFICES ASSUME Init PROVE TypeOK
  OBVIOUS
<1>1. epoch \in 0..MaxEpoch
  BY ConstantsAssumption DEF ConstantsAssumption, Init
<1>2. recent \in Seq(Requests) /\ completions \in Seq(Leases)
  BY DEF Init
<1>3. /\ task \in [Leases -> LiveTask \cup {"none", "returned", "panicked"}]
      /\ durable \in [Leases -> Outcomes \cup Unfinished]
  BY DEF Init, Unfinished
<1>4. QED
  BY <1>1, <1>2, <1>3 DEF Init, TypeOK

\* The variables of the runtime keep their types.
THEOREM TypeCorrect == Spec => []TypeOK
<1>1. Init => TypeOK
  BY InitType
<1>2. TypeOK /\ [Next]_vars => TypeOK'
  BY TypeStep, ConstantsAssumption
<1>3. QED
  BY <1>1, <1>2, PTL DEF Spec

-----------------------------------------------------------------------------
(* The inductive invariant.                                                 *)

\* A step that only sets the phase of one lease leaves the active run's lease
\* and cause alone.
LEMMA PhaseOnly ==
  ASSUME ConstantsAssumption, TypeOK, NEW e \in Leases, NEW p,
         active' = IF active.lease = e THEN [active EXCEPT !.phase = p]
                   ELSE active
  PROVE  /\ active'.lease = active.lease
         /\ active'.cause = active.cause
         /\ active'.phase = IF active.lease = e THEN p ELSE active.phase
<1>1. active.lease = e => active \in ActiveRun
  BY DEF TypeOK, ActiveRun, Idle, Leases, NoLease
<1>2. QED
  BY <1>1 DEF ActiveRun

\* Whose step it is: a run task that exists owns the slot and the active
\* lease, and no start is under way.
LEMMA TaskOwns ==
  ASSUME TypeOK, Ownership, NEW e \in Leases, task[e] # "none"
  PROVE  slot = e /\ active.lease = e /\ starter = NoLease
BY DEF TypeOK, Ownership, Leases, NoLease

\* Every step keeps the inductive invariant.
LEMMA InvStep == ASSUME IInv, [Next]_vars PROVE IInv'
<1> DEFINE Core == Ownership /\ Fresh /\ CauseKnown /\ Progress
           Says == StuckOnlyIfStoppedOrGone /\ UserStopHonoured
           Heard == NotYetAnnounced /\ CompletionHasTerminal /\ AnnouncedOnce
<1> USE DEF IInv
<1>1. ASSUME NEW req \in Requests \cup {NoRequest}, BeginScheduled(req)
  PROVE Core' /\ Says' /\ Heard'
  <2>1. Core'
    BY <1>1, ConstantsAssumption DEF TypeOK, Ownership, Fresh, CauseKnown,
         Progress, Announced, Leases, NoLease, BeginScheduled
  <2>2. Says'
    BY <1>1, ConstantsAssumption DEF StuckOnlyIfStoppedOrGone,
         UserStopHonoured, BeginScheduled
  <2>3. Heard'
    BY <1>1, ConstantsAssumption DEF TypeOK, Fresh, NotYetAnnounced,
         CompletionHasTerminal, Announced, AnnouncedOnce, NoLease,
         BeginScheduled
  <2>4. QED
    BY <2>1, <2>2, <2>3
<1>2. ASSUME Spawn
  PROVE Core' /\ Says' /\ Heard'
  <2>1. Core'
    BY <1>2, ConstantsAssumption DEF Ownership, Fresh, CauseKnown, Progress,
         Announced, Abortable, Leases, NoLease, Spawn, InstallCancellation
  <2>2. Says'
    BY <1>2, ConstantsAssumption DEF Ownership, StuckOnlyIfStoppedOrGone,
         UserStopHonoured, Spawn, InstallCancellation
  <2>3. Heard'
    BY <1>2, ConstantsAssumption DEF NotYetAnnounced, CompletionHasTerminal,
         Announced, AnnouncedOnce, Spawn, InstallCancellation
  <2>4. QED
    BY <2>1, <2>2, <2>3
<1>3. ASSUME StartFails
  PROVE Core' /\ Says' /\ Heard'
  <2>1. Core'
    BY <1>3, ConstantsAssumption DEF TypeOK, Ownership, Fresh, CauseKnown,
         Progress, Announced, Abortable, NoLease, Idle, StartFails, Finish
  <2>2. Says'
    BY <1>3, ConstantsAssumption DEF StuckOnlyIfStoppedOrGone,
         UserStopHonoured, StartFails
  <2>3. Heard'
    BY <1>3, ConstantsAssumption DEF TypeOK, NotYetAnnounced,
         CompletionHasTerminal, Announced, AnnouncedOnce, Leases, NoLease,
         Idle, StartFails, Finish
  <2>4. QED
    BY <2>1, <2>2, <2>3
<1>4. ASSUME NEW e \in Leases, TaskAbandon(e)
  PROVE Core' /\ Says' /\ Heard'
  <2>1. Core'
    BY <1>4, ConstantsAssumption DEF Ownership, Fresh, CauseKnown, Progress,
         Announced, NoLease, TaskAbandon, Returns, MarkPersistenceDegraded
  <2>2. Says'
    BY <1>4, ConstantsAssumption DEF StuckOnlyIfStoppedOrGone,
         UserStopHonoured, TaskAbandon, MarkPersistenceDegraded
  <2>3. Heard'
    BY <1>4, ConstantsAssumption DEF NotYetAnnounced, CompletionHasTerminal,
         Announced, AnnouncedOnce, TaskAbandon, MarkPersistenceDegraded
  <2>4. QED
    BY <2>1, <2>2, <2>3
<1>5. ASSUME NEW e \in Leases, TaskFence(e)
  PROVE Core' /\ Says' /\ Heard'
  <2>1. Core'
    <3>1. slot = e /\ active.lease = e /\ starter = NoLease
      BY <1>5, TaskOwns DEF TaskFence
    <3>2. /\ active'.lease = e /\ active'.cause = active.cause
          /\ active'.phase = "finalizing"
      BY <1>5, <3>1, PhaseOnly, ConstantsAssumption DEF TaskFence
    <3>3. task' = [task EXCEPT ![e] = "fenced"]
      BY <1>5, <3>1 DEF TaskFence
    <3>4. Ownership'
      BY <1>5, <3>1, <3>2, <3>3 DEF TaskFence, Ownership, TypeOK, NoLease
    <3>5. Fresh'
      BY <1>5, <3>1, <3>2 DEF TaskFence, Fresh, Announced
    <3>6. CauseKnown'
      BY <1>5, <3>1, <3>2 DEF TaskFence, CauseKnown
    <3>7. Progress'
      BY <1>5, <3>1, <3>2, <3>3 DEF TaskFence, Progress, Ownership, TypeOK,
           Abortable
    <3>8. QED
      BY <3>4, <3>5, <3>6, <3>7
  <2>2. Says'
    BY <1>5, ConstantsAssumption DEF TypeOK, StuckOnlyIfStoppedOrGone,
         UserStopHonoured, Idle, ActiveRun, TaskFence
  <2>3. Heard'
    BY <1>5, ConstantsAssumption DEF TypeOK, NotYetAnnounced,
         CompletionHasTerminal, Announced, AnnouncedOnce, Idle, ActiveRun,
         TaskFence
  <2>4. QED
    BY <2>1, <2>2, <2>3
<1>6. ASSUME NEW e \in Leases, TaskCommit(e)
  PROVE Core' /\ Says' /\ Heard'
  <2>1. Core'
    <3>1. slot = e /\ active.lease = e /\ starter = NoLease
      BY <1>6, TaskOwns DEF TaskCommit
    <3>2. durable' = [durable EXCEPT ![e] = TerminalState(e)]
          /\ TerminalState(e) # "none"
      BY <1>6 DEF TaskCommit, TerminalState
    <3>3. Ownership' /\ CauseKnown'
      BY <1>6 DEF TaskCommit, Ownership, CauseKnown, TypeOK
    <3>4. Fresh'
      BY <1>6, <3>1, <3>2 DEF TaskCommit, Fresh, Announced, TypeOK, Leases
    <3>5. Progress'
      BY <1>6, <3>1, <3>2 DEF TaskCommit, Progress, Ownership, TypeOK
    <3>6. QED
      BY <3>3, <3>4, <3>5
  <2>2. Says'
    BY <1>6, ConstantsAssumption DEF Ownership, CauseKnown,
         StuckOnlyIfStoppedOrGone, UserStopHonoured, Leases, NoLease,
         TaskCommit, TerminalState, CancellationKind
  <2>3. Heard'
    BY <1>6, ConstantsAssumption DEF NotYetAnnounced, CompletionHasTerminal,
         Announced, AnnouncedOnce, TaskCommit, TerminalState
  <2>4. QED
    BY <2>1, <2>2, <2>3
<1>7. ASSUME NEW e \in Leases, TaskCommitFails(e)
  PROVE Core' /\ Says' /\ Heard'
  <2>1. Core'
    BY <1>7, ConstantsAssumption DEF TypeOK, Ownership, Fresh, CauseKnown,
         Progress, Announced, Abortable, Leases, NoLease, TaskCommitFails,
         Returns, MarkPersistenceDegraded
  <2>2. Says'
    BY <1>7, ConstantsAssumption DEF TypeOK, Ownership, CauseKnown,
         StuckOnlyIfStoppedOrGone, UserStopHonoured, Leases, NoLease,
         TaskCommitFails, MarkPersistenceDegraded, TerminalState,
         CancellationKind
  <2>3. Heard'
    BY <1>7, ConstantsAssumption DEF TypeOK, NotYetAnnounced,
         CompletionHasTerminal, Announced, AnnouncedOnce, TaskCommitFails,
         MarkPersistenceDegraded, TerminalState
  <2>4. QED
    BY <2>1, <2>2, <2>3
<1>8. ASSUME NEW e \in Leases, TaskCommitCancelled(e)
  PROVE Core' /\ Says' /\ Heard'
  <2>1. Core'
    BY <1>8, ConstantsAssumption DEF TypeOK, Ownership, Fresh, CauseKnown,
         Progress, Announced, NoLease, Idle, ActiveRun, TaskCommitCancelled,
         Returns, CancellationKind
  <2>2. Says'
    BY <1>8, ConstantsAssumption DEF StuckOnlyIfStoppedOrGone,
         UserStopHonoured, TaskCommitCancelled
  <2>3. Heard'
    BY <1>8, ConstantsAssumption DEF NotYetAnnounced, CompletionHasTerminal,
         Announced, AnnouncedOnce, TaskCommitCancelled
  <2>4. QED
    BY <2>1, <2>2, <2>3
<1>9. ASSUME NEW e \in Leases, TaskPublish(e)
  PROVE Core' /\ Says' /\ Heard'
  <2>1. Core'
    <3>1. Ownership'
      BY <1>9, ConstantsAssumption DEF TypeOK, Ownership, Abortable, Leases, Idle,
           ActiveRun, TaskPublish, Returns, MarkPersistenceDegraded
    <3>2. Fresh'
      BY <1>9, ConstantsAssumption DEF TypeOK, Fresh, Announced, Leases, Idle,
           ActiveRun, TaskPublish, Returns, MarkPersistenceDegraded
    <3>3. CauseKnown'
      BY <1>9, ConstantsAssumption DEF TypeOK, CauseKnown, Leases, Idle,
           ActiveRun, TaskPublish, Returns, MarkPersistenceDegraded
    <3>4. Progress'
      BY <1>9, ConstantsAssumption DEF TypeOK, Ownership, Progress, Abortable,
           Leases, Idle, ActiveRun, TaskPublish, Returns, MarkPersistenceDegraded
    <3> QED
      BY <3>1, <3>2, <3>3, <3>4
  <2>2. Says'
    BY <1>9, ConstantsAssumption DEF TypeOK, StuckOnlyIfStoppedOrGone,
         UserStopHonoured, Idle, ActiveRun, TaskPublish,
         MarkPersistenceDegraded
  <2>3. Heard'
    BY <1>9, ConstantsAssumption DEF TypeOK, NotYetAnnounced,
         CompletionHasTerminal, Announced, AnnouncedOnce, Idle, ActiveRun,
         TaskPublish, MarkPersistenceDegraded
  <2>4. QED
    BY <2>1, <2>2, <2>3
<1>10. ASSUME NEW e \in Leases, TaskPanics(e)
  PROVE Core' /\ Says' /\ Heard'
  <2>1. Core'
    BY <1>10, ConstantsAssumption DEF Ownership, Fresh, CauseKnown, Progress,
         Announced, TaskPanics, LiveTask
  <2>2. Says'
    BY <1>10, ConstantsAssumption DEF StuckOnlyIfStoppedOrGone,
         UserStopHonoured, TaskPanics
  <2>3. Heard'
    BY <1>10, ConstantsAssumption DEF NotYetAnnounced, CompletionHasTerminal,
         Announced, AnnouncedOnce, TaskPanics
  <2>4. QED
    BY <2>1, <2>2, <2>3
<1>11. ASSUME NEW e \in Leases, Monitor(e), MonitorFinishes(e)
  PROVE Core' /\ Says' /\ Heard'
  <2>1. Core'
    BY <1>11, ConstantsAssumption DEF TypeOK, Ownership, Fresh, CauseKnown,
         Progress, Announced, Abortable, NoLease, Idle, Monitor,
         MonitorFinishes, Finish
  <2>2. Says'
    BY <1>11, ConstantsAssumption DEF StuckOnlyIfStoppedOrGone,
         UserStopHonoured, Monitor
  <2>3. Heard'
    BY <1>11, ConstantsAssumption DEF TypeOK, Ownership, Fresh, Progress,
         NotYetAnnounced, CompletionHasTerminal, AnnouncedOnce, Unfinished,
         Leases, NoLease, Idle, Monitor, MonitorFinishes, Finish
  <2>4. QED
    BY <2>1, <2>2, <2>3
<1>12. ASSUME NEW e \in Leases, Monitor(e), MonitorMarks(e)
  PROVE Core' /\ Says' /\ Heard'
  <2>1. Core'
    <3>1. slot = e /\ active.lease = e /\ starter = NoLease
      BY <1>12, TaskOwns DEF Monitor
    <3>2. /\ active'.lease = active.lease /\ active'.cause = active.cause
          /\ active'.phase \in {"cancellation_stuck", "persistence_degraded"}
      BY <1>12, <3>1, PhaseOnly, ConstantsAssumption
      DEF MonitorMarks, MarkStuck, Faulted
    <3>3. task' = [task EXCEPT ![e] = "none"] /\ slot' = NoLease
      BY <1>12 DEF Monitor
    <3>4. Ownership' /\ Fresh' /\ CauseKnown'
      BY <1>12, <3>1, <3>2, <3>3 DEF Monitor, MonitorMarks, Ownership, Fresh,
         CauseKnown, Announced, TypeOK, NoLease
    <3>5. Progress'
      BY <1>12, <3>1, <3>2, <3>3 DEF Monitor, Progress, Ownership, TypeOK,
         Abortable
    <3>6. QED
      BY <3>4, <3>5
  <2>2. Says'
    BY <1>12, ConstantsAssumption DEF StuckOnlyIfStoppedOrGone,
         UserStopHonoured, Monitor
  <2>3. Heard'
    <3>1. active'.lease = active.lease
      BY <1>12, PhaseOnly, ConstantsAssumption DEF MonitorMarks, MarkStuck
    <3>2. UNCHANGED <<announcing, completions, durable>>
      BY <1>12 DEF Monitor, MonitorMarks
    <3>3. QED
      BY <3>1, <3>2 DEF NotYetAnnounced, CompletionHasTerminal, AnnouncedOnce,
         Announced
  <2>4. QED
    BY <2>1, <2>2, <2>3
<1>13. ASSUME NEW e \in Leases, Announce(e)
  PROVE Core' /\ Says' /\ Heard'
  <2>1. Core'
    BY <1>13, ConstantsAssumption DEF Ownership, Fresh, CauseKnown, Progress,
         Announced, Announce
  <2>2. Says'
    BY <1>13, ConstantsAssumption DEF StuckOnlyIfStoppedOrGone,
         UserStopHonoured, Announce
  <2>3. Heard'
    BY <1>13, ConstantsAssumption DEF NotYetAnnounced, CompletionHasTerminal,
         Announced, AnnouncedOnce, Leases, NoLease, Announce
  <2>4. QED
    BY <2>1, <2>2, <2>3
<1>14. ASSUME NEW cause \in {"user", "shutdown"}, RequestCancellation(cause)
  PROVE Core' /\ Says' /\ Heard'
  <2>1. Core'
    BY <1>14, ConstantsAssumption DEF TypeOK, Ownership, Fresh, CauseKnown,
         Progress, Announced, NoLease, ActiveRun, RequestCancellation,
         CancelledCause
  <2>2. Says'
    BY <1>14, ConstantsAssumption DEF Progress, StuckOnlyIfStoppedOrGone,
         UserStopHonoured, RequestCancellation
  <2>3. Heard'
    BY <1>14, ConstantsAssumption DEF NotYetAnnounced, CompletionHasTerminal,
         Announced, AnnouncedOnce, RequestCancellation
  <2>4. QED
    BY <2>1, <2>2, <2>3
<1>15. ASSUME TimerCheck
  PROVE Core' /\ Says' /\ Heard'
  <2>1. Core'
    BY <1>15, ConstantsAssumption DEF TypeOK, Ownership, Fresh, CauseKnown,
         Progress, Announced, Leases, NoLease, TimerCheck
  <2>2. Says'
    BY <1>15, ConstantsAssumption DEF StuckOnlyIfStoppedOrGone,
         UserStopHonoured, TimerCheck
  <2>3. Heard'
    BY <1>15, ConstantsAssumption DEF NotYetAnnounced, CompletionHasTerminal,
         Announced, AnnouncedOnce, TimerCheck
  <2>4. QED
    BY <2>1, <2>2, <2>3
<1>16. ASSUME NEW e \in Leases, TimerMark(e)
  PROVE Core' /\ Says' /\ Heard'
  <2>1. Core'
    <3>1. /\ active'.lease = active.lease /\ active'.cause = active.cause
          /\ active'.phase = IF active.lease = e THEN "cancellation_stuck"
                             ELSE active.phase
      BY <1>16, PhaseOnly, ConstantsAssumption DEF TimerMark, MarkStuck
    <3>2. starter # NoLease => active.lease # e
      BY <1>16 DEF TimerMark, Ownership, CauseKnown, Leases, NoLease
    <3>3. Ownership' /\ CauseKnown'
      BY <1>16, <3>1, <3>2 DEF TimerMark, Ownership, CauseKnown
    <3>4. Fresh'
      BY <1>16, <3>1 DEF TimerMark, Fresh, Announced
    <3>5. Progress'
      BY <1>16, <3>1 DEF TimerMark, Progress, Abortable
    <3>6. QED
      BY <3>3, <3>4, <3>5
  <2>2. Says'
    BY <1>16, ConstantsAssumption DEF CauseKnown, StuckOnlyIfStoppedOrGone,
         UserStopHonoured, Leases, NoLease, TimerMark, MarkStuck
  <2>3. Heard'
    BY <1>16, ConstantsAssumption DEF NotYetAnnounced, CompletionHasTerminal,
         Announced, AnnouncedOnce, TimerMark, MarkStuck
  <2>4. QED
    BY <2>1, <2>2, <2>3
<1>17. ASSUME NEW outcome \in {"fault_cancelled", "fault_interrupted"},
              SettleFault(outcome)
  PROVE Core' /\ Says' /\ Heard'
  <2>1. Core'
    BY <1>17, ConstantsAssumption DEF TypeOK, Ownership, Fresh, CauseKnown,
         Progress, Announced, Abortable, Leases, NoLease, Idle, SettleFault,
         PersistFaultOutcome, Finish
  <2>2. Says'
    BY <1>17, ConstantsAssumption DEF StuckOnlyIfStoppedOrGone,
         UserStopHonoured, SettleFault, PersistFaultOutcome
  <2>3. Heard'
    <3>1. /\ active.lease \in Leases /\ active'.lease = NoLease
          /\ announcing' = announcing \cup {active.lease}
          /\ UNCHANGED completions
      BY <1>17 DEF SettleFault, Finish, TypeOK, Faulted, Idle,
         ActiveRun, NoLease
    <3>2. /\ durable'[active.lease] # "none"
          /\ \A e \in Leases : durable[e] # "none" => durable'[e] # "none"
      BY <1>17, <3>1 DEF SettleFault, PersistFaultOutcome, TypeOK,
         Unfinished
    <3>3. NotYetAnnounced'
      BY <3>1 DEF NotYetAnnounced
    <3>4. CompletionHasTerminal'
      BY <3>1, <3>2 DEF CompletionHasTerminal
    <3>5. AnnouncedOnce'
      <4>1. \A i \in 1..Len(completions) : completions[i] # NoLease
        BY DEF TypeOK, Leases, NoLease
      <4>2. QED
        BY <3>1, <4>1 DEF AnnouncedOnce
    <3>6. QED
      BY <3>3, <3>4, <3>5
  <2>4. QED
    BY <2>1, <2>2, <2>3
<1>18. ASSUME RecoverPersistenceDegraded
  PROVE Core' /\ Says' /\ Heard'
  <2>1. Core'
    BY <1>18, ConstantsAssumption DEF TypeOK, Ownership, Fresh, CauseKnown,
         Progress, Announced, Abortable, Leases, NoLease, Idle,
         RecoverPersistenceDegraded, PersistFaultOutcome, Finish
  <2>2. Says'
    BY <1>18, ConstantsAssumption DEF StuckOnlyIfStoppedOrGone,
         UserStopHonoured, RecoverPersistenceDegraded, PersistFaultOutcome
  <2>3. Heard'
    <3>1. /\ active.lease \in Leases /\ active'.lease = NoLease
          /\ announcing' = announcing \cup {active.lease}
          /\ UNCHANGED completions
      BY <1>18 DEF RecoverPersistenceDegraded, Finish, TypeOK, Faulted, Idle,
         ActiveRun, NoLease
    <3>2. /\ durable'[active.lease] # "none"
          /\ \A e \in Leases : durable[e] # "none" => durable'[e] # "none"
      BY <1>18, <3>1 DEF RecoverPersistenceDegraded, PersistFaultOutcome,
           TypeOK,
         Unfinished
    <3>3. NotYetAnnounced'
      BY <3>1 DEF NotYetAnnounced
    <3>4. CompletionHasTerminal'
      BY <3>1, <3>2 DEF CompletionHasTerminal
    <3>5. AnnouncedOnce'
      <4>1. \A i \in 1..Len(completions) : completions[i] # NoLease
        BY DEF TypeOK, Leases, NoLease
      <4>2. QED
        BY <3>1, <4>1 DEF AnnouncedOnce
    <3>6. QED
      BY <3>3, <3>4, <3>5
  <2>4. QED
    BY <2>1, <2>2, <2>3
<1>19. ASSUME RecoverSessionJournal
  PROVE Core' /\ Says' /\ Heard'
  <2>1. Core'
    BY <1>19, ConstantsAssumption DEF Ownership, Fresh, CauseKnown, Progress,
         Announced, RecoverSessionJournal
  <2>2. Says'
    BY <1>19, ConstantsAssumption DEF StuckOnlyIfStoppedOrGone,
         UserStopHonoured, RecoverSessionJournal
  <2>3. Heard'
    BY <1>19, ConstantsAssumption DEF NotYetAnnounced, CompletionHasTerminal,
         AnnouncedOnce, Idle, RecoverSessionJournal
  <2>4. QED
    BY <2>1, <2>2, <2>3
<1>20. ASSUME StorageFails
  PROVE Core' /\ Says' /\ Heard'
  <2>1. Core'
    BY <1>20, ConstantsAssumption DEF Ownership, Fresh, CauseKnown, Progress,
         Announced, StorageFails
  <2>2. Says'
    BY <1>20, ConstantsAssumption DEF StuckOnlyIfStoppedOrGone,
         UserStopHonoured, StorageFails
  <2>3. Heard'
    BY <1>20, ConstantsAssumption DEF NotYetAnnounced, CompletionHasTerminal,
         Announced, AnnouncedOnce, StorageFails
  <2>4. QED
    BY <2>1, <2>2, <2>3
<1>21. ASSUME UNCHANGED vars
  PROVE Core' /\ Says' /\ Heard'
  <2>1. Core'
    BY <1>21, ConstantsAssumption DEF Ownership, Fresh, CauseKnown, Progress,
         Announced, vars
  <2>2. Says'
    BY <1>21, ConstantsAssumption DEF StuckOnlyIfStoppedOrGone,
         UserStopHonoured, vars
  <2>3. Heard'
    BY <1>21, ConstantsAssumption DEF NotYetAnnounced, CompletionHasTerminal,
         Announced, AnnouncedOnce, vars
  <2>4. QED
    BY <2>1, <2>2, <2>3
<1>22. QED
  BY TypeStep, ConstantsAssumption, <1>1, <1>2, <1>3, <1>4, <1>5, <1>6, <1>7,
     <1>8, <1>9, <1>10, <1>11, <1>12, <1>13, <1>14, <1>15, <1>16, <1>17, <1>18,
     <1>19, <1>20, <1>21 DEF Next, TaskStep, Monitor

-----------------------------------------------------------------------------
(* The theorems.                                                            *)

\* The inductive invariant holds in every reachable state.
THEOREM Invariance == Spec => []IInv
<1>1. Init => IInv
  <2> SUFFICES ASSUME Init PROVE IInv
    OBVIOUS
  <2>1. TypeOK
    BY InitType
  <2>2. Ownership /\ CauseKnown
    BY DEF Init, Ownership, CauseKnown, Idle, NoLease, Leases
  <2>3. \A e \in Leases : ~Announced(e)
    BY DEF Init, Announced
  <2>4. Fresh /\ NotYetAnnounced
    BY <2>3 DEF Init, Fresh, NotYetAnnounced, Idle, NoLease
  <2>5. Progress
    BY DEF Init, Progress, Idle, Abortable
  <2>6. StuckOnlyIfStoppedOrGone /\ UserStopHonoured
    BY DEF Init, StuckOnlyIfStoppedOrGone, UserStopHonoured, Idle
  <2>7. CompletionHasTerminal /\ AnnouncedOnce
    BY DEF Init, CompletionHasTerminal, AnnouncedOnce
  <2>8. QED
    BY <2>1, <2>2, <2>4, <2>5, <2>6, <2>7 DEF IInv
<1>2. IInv /\ [Next]_vars => IInv'
  BY InvStep
<1>3. QED
  BY <1>1, <1>2, PTL DEF Spec

\* No session is ever released under a live run task, and no two run tasks
\* of a session exist at once, whatever the order of stops, timers, panics,
\* storage faults and recoveries.
THEOREM SingleWriterHolds == Spec => []SingleWriter
<1>1. IInv => SingleWriter
  BY TaskOwns DEF IInv, SingleWriter
<1>2. QED
  BY <1>1, Invariance, PTL

\* A leftover cancellation timer never condemns a run nobody asked to stop.
THEOREM StuckHolds == Spec => []StuckOnlyIfStoppedOrGone
<1>1. IInv => StuckOnlyIfStoppedOrGone
  BY DEF IInv
<1>2. QED
  BY <1>1, Invariance, PTL

\* An accepted user stop is never recorded as a completion or as a resumable
\* interruption by the run task.
THEOREM UserStopHolds == Spec => []UserStopHonoured
<1>1. IInv => UserStopHonoured
  BY DEF IInv
<1>2. QED
  BY <1>1, Invariance, PTL

\* Every completion the scheduler hears of has its outcome in the store, and
\* no run is announced twice.
THEOREM CompletionHolds == Spec => [](CompletionHasTerminal /\ AnnouncedOnce)
<1>1. IInv => CompletionHasTerminal /\ AnnouncedOnce
  BY DEF IInv
<1>2. QED
  BY <1>1, Invariance, PTL

\* A terminal record is written for the active lease only, and only once.
THEOREM TerminalOnce == Spec => TerminalWrittenOnce
<1> DEFINE Once == \A e \in Leases : durable'[e] # durable[e] =>
                     active.lease = e /\ durable[e] \in Unfinished
<1>1. ASSUME IInv, Next PROVE Once
  <2>1. ASSUME NEW e \in Leases, task[e] = "fenced",
               UNCHANGED durable \/ \E x : durable' = [durable EXCEPT ![e] = x]
        PROVE  Once
    BY <1>1, <2>1, TaskOwns DEF IInv, TypeOK, Progress, Unfinished
  <2>2. ASSUME NEW outcome, active.lease \in Leases,
               PersistFaultOutcome(active.lease, outcome)
        PROVE  Once
    BY <1>1, <2>2 DEF IInv, TypeOK, PersistFaultOutcome
  <2>3. ASSUME NEW e \in Leases, TaskStep(e) PROVE Once
    BY <2>1, <2>3 DEF TaskStep, TaskAbandon, TaskFence, TaskCommit,
       TaskCommitFails, TaskCommitCancelled, TaskPublish, TaskPanics
  <2>4. ASSUME NEW outcome, SettleFault(outcome) PROVE Once
    BY <1>1, <2>2, <2>4 DEF IInv, SettleFault, TypeOK, Faulted, Idle, ActiveRun
  <2>5. CASE RecoverPersistenceDegraded
    BY <1>1, <2>2, <2>5 DEF IInv, RecoverPersistenceDegraded, TypeOK, Idle,
       ActiveRun
  <2>6. QED
    BY <1>1, <2>3, <2>4, <2>5 DEF Next, BeginScheduled, Spawn, StartFails,
       Monitor, Announce, RequestCancellation, TimerCheck, TimerMark,
       RecoverSessionJournal, StorageFails
<1>2. IInv /\ [Next]_vars => [Once]_vars
  BY <1>1
<1>3. QED
  BY <1>2, Invariance, PTL DEF Spec, TerminalWrittenOnce

-----------------------------------------------------------------------------
(* SessionRuntime implements RunLifecycle.                                  *)

\* A step that keeps the lease, the owners and the announcements is invisible.
LEMMA Invisible ==
  ASSUME active'.lease = active.lease,
         UNCHANGED <<epoch, slot, starter, announcing, completions>>
  PROVE  UNCHANGED Lifecycle!vars
BY DEF Lifecycle!vars, LifecyclePhase

\* The steps of a live run task are invisible to the scheduler.
LEMMA TaskInvisible ==
  ASSUME IInv, NEW e \in Leases, TaskStep(e)
  PROVE  UNCHANGED Lifecycle!vars
<1>1. active'.lease = active.lease
  BY PhaseOnly, ConstantsAssumption DEF IInv, TaskStep, TaskAbandon,
       TaskFence, TaskCommit,
     TaskCommitFails, TaskCommitCancelled, TaskPublish, TaskPanics,
     MarkPersistenceDegraded
<1>2. UNCHANGED <<epoch, slot, starter, announcing, completions>>
  BY DEF TaskStep, TaskAbandon, TaskFence, TaskCommit, TaskCommitFails,
     TaskCommitCancelled, TaskPublish, TaskPanics
<1>3. QED
  BY <1>1, <1>2, Invisible

\* Settling a fault releases the session and queues its announcement.
LEMMA SettleReleases ==
  ASSUME IInv, active.phase \in Faulted, starter = NoLease, slot = NoLease,
         Finish(active.lease), announcing' = announcing \cup {active.lease},
         UNCHANGED <<epoch, slot, starter, completions>>
  PROVE  Lifecycle!Release
<1>1. active.lease # NoLease
  BY DEF IInv, TypeOK, Faulted, Idle, ActiveRun, Leases, NoLease
<1>2. active'.lease = NoLease
  BY DEF Finish, Idle
<1>3. QED
  BY <1>1, <1>2 DEF Lifecycle!Release, LifecyclePhase, NoLease

\* Every step of the runtime is a step of the lifecycle, or invisible to it.
LEMMA StepRefines ==
  ASSUME IInv, [Next]_vars
  PROVE  [Lifecycle!Next]_(Lifecycle!vars)
<1> USE DEF IInv
<1>1. ASSUME NEW req \in Requests \cup {NoRequest}, BeginScheduled(req)
      PROVE  Lifecycle!Begin
  BY <1>1 DEF BeginScheduled, Lifecycle!Begin, LifecyclePhase, NoLease, TypeOK
<1>2. ASSUME Spawn PROVE Lifecycle!Run
  <2>1. active'.lease = active.lease /\ active.lease = starter
        /\ starter \in Leases
    BY <1>2, PhaseOnly, ConstantsAssumption
    DEF Spawn, InstallCancellation, Ownership, TypeOK
  <2>2. QED
    BY <1>2, <2>1 DEF Spawn, Lifecycle!Run, LifecyclePhase, Leases, NoLease
<1>3. ASSUME StartFails PROVE Lifecycle!GiveUp
  <2>1. active.lease = starter /\ active'.lease = NoLease
    BY <1>3 DEF StartFails, Finish, Ownership, Idle
  <2>2. QED
    BY <1>3, <2>1 DEF StartFails, Lifecycle!GiveUp, LifecyclePhase, NoLease
<1>4. ASSUME NEW e \in Leases, TaskStep(e) PROVE UNCHANGED Lifecycle!vars
  BY <1>4, TaskInvisible
<1>5. ASSUME NEW e \in Leases, Monitor(e), MonitorFinishes(e)
      PROVE  Lifecycle!Release
  <2>1. slot = e /\ active.lease = e /\ starter = NoLease
    BY <1>5, TaskOwns DEF Monitor
  <2>2. active'.lease = NoLease
    BY <1>5, <2>1 DEF MonitorFinishes, Finish, Idle
  <2>3. QED
    BY <1>5, <2>1, <2>2 DEF Monitor, MonitorFinishes, Lifecycle!Release,
       LifecyclePhase, Leases, NoLease
<1>6. ASSUME NEW e \in Leases, Monitor(e), MonitorMarks(e)
      PROVE  Lifecycle!Fault
  <2>1. slot = e /\ active.lease = e /\ starter = NoLease
    BY <1>6, TaskOwns DEF Monitor
  <2>2. active'.lease = e
    BY <1>6, <2>1, PhaseOnly, ConstantsAssumption DEF MonitorMarks, MarkStuck
  <2>3. QED
    BY <1>6, <2>1, <2>2 DEF Monitor, MonitorMarks, Lifecycle!Fault,
       LifecyclePhase, Leases, NoLease
<1>7. ASSUME NEW e \in Leases, Announce(e) PROVE Lifecycle!Announce
  BY <1>7 DEF Announce, Lifecycle!Announce, LifecyclePhase
<1>8. ASSUME NEW cause, RequestCancellation(cause)
      PROVE  UNCHANGED Lifecycle!vars
  <2>1. active \in ActiveRun
    BY <1>8 DEF RequestCancellation, TypeOK, Idle, Abortable
  <2>2. active'.lease = active.lease
    BY <1>8, <2>1 DEF RequestCancellation, ActiveRun
  <2>3. QED
    BY <1>8, <2>2, Invisible DEF RequestCancellation
<1>9. CASE TimerCheck
  BY <1>9, Invisible DEF TimerCheck
<1>10. ASSUME NEW e \in Leases, TimerMark(e) PROVE UNCHANGED Lifecycle!vars
  <2>1. active'.lease = active.lease
    BY <1>10, PhaseOnly, ConstantsAssumption DEF TimerMark, MarkStuck
  <2>2. QED
    BY <1>10, <2>1, Invisible DEF TimerMark
<1>11. ASSUME NEW outcome, SettleFault(outcome) PROVE Lifecycle!Release
  BY <1>11, SettleReleases DEF SettleFault, PersistFaultOutcome
<1>12. ASSUME RecoverPersistenceDegraded PROVE Lifecycle!Release
  BY <1>12, SettleReleases DEF RecoverPersistenceDegraded,
     PersistFaultOutcome, Faulted
<1>13. CASE RecoverSessionJournal \/ StorageFails
  BY <1>13, Invisible DEF RecoverSessionJournal, StorageFails
<1>14. CASE UNCHANGED vars
  BY <1>14, Invisible DEF vars
<1>15. QED
  BY <1>1, <1>2, <1>3, <1>4, <1>5, <1>6, <1>7, <1>8, <1>9, <1>10, <1>11,
     <1>12, <1>13, <1>14 DEF Next, Monitor, Lifecycle!Next

\* The runtime implements the lifecycle the scheduler is built on: one run at
\* a time, each released once and announced once.
THEOREM Refinement == Spec => ImplementsLifecycle
<1>1. Init => Lifecycle!Init
  BY DEF Init, Lifecycle!Init, LifecyclePhase, Idle, NoLease
<1>2. IInv /\ [Next]_vars => [Lifecycle!Next]_(Lifecycle!vars)
  BY StepRefines
<1>3. QED
  BY <1>1, <1>2, Invariance, PTL DEF Spec, ImplementsLifecycle, Lifecycle!Spec
==============================================================================
