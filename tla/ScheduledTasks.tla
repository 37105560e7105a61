--------------------------- MODULE ScheduledTasks ---------------------------
(***************************************************************************)
(* Scheduled tasks: the tasks store (orchestration/tasks/src/store.rs),    *)
(* the host's tick loop and the executors of its runs (host/src/tasks.rs), *)
(* and the commands that edit a task (host/src/tasks/service.rs).          *)
(*                                                                         *)
(* A tick settles the runs that nobody carries, reads the due tasks, and   *)
(* claims them one by one: a run row is inserted, the task's row advanced  *)
(* and an executor spawned.  Each statement is a transaction of its own,   *)
(* and whoever writes a task writes the whole row from the copy it read.   *)
(* The process may die between any two steps; one host runs at a time.     *)
(*                                                                         *)
(* Time counts schedule slots.  A run's conversation, and what is removed  *)
(* of it after the run has settled, are left out; the time it takes is not.*)
(***************************************************************************)
EXTENDS Naturals, Sequences, Functions

CONSTANTS
  NumTasks,    \* tasks, numbered in the order they were created
  Policies,    \* session policies the tasks may have: "new", "existing"
  MaxTime,     \* slots of a schedule (a bound); it ends with the last one
  MaxRuns,     \* rows of the run ledger (a bound)
  MaxEdits,    \* commands of clients (a bound)
  MaxFaults,   \* failing writes of the store (a bound)
  MaxHosts     \* host processes, one after the other (a bound)

ASSUME TasksAssumption ==
  /\ NumTasks \in Nat /\ MaxTime \in Nat /\ MaxRuns \in Nat
  /\ MaxEdits \in Nat /\ MaxFaults \in Nat /\ MaxHosts \in Nat
  /\ Policies \subseteq {"new", "existing"}

Tasks == 1..NumTasks
RunIds == 1..MaxRuns

VARIABLES
  now,      \* the clock
  row,      \* task -> its row; due is 0 for NULL, pending "has a request"
  runs,     \* the run ledger, in the order of the claims
  host,     \* the host process and its tick
  exec,     \* run -> its executor: place, outcome, copy of the task's row
  client,   \* a command between its read and its write
  edits,    \* commands so far
  faults,   \* failed writes so far
  sent      \* history: run -> its prompt went to the agent

vars == <<now, row, runs, host, exec, client, edits, faults, sent>>

Row == [kind : {"schedule", "manual"}, policy : Policies, enabled : BOOLEAN,
        deleted : BOOLEAN, due : 0..MaxTime, pending : BOOLEAN, bound : BOOLEAN]

\* What whoever is about to write a row has read.
Copies == [task : Tasks, row : Row]
NoTask == [task |-> 0]
Gone == [at |-> "gone", ok |-> FALSE, copy |-> NoTask]
Down(h) == [up |-> FALSE, stopping |-> FALSE, instance |-> h.instance,
            at |-> "idle", orphans |-> {}, list |-> <<>>]

Init ==
  /\ now = 0
  /\ row \in [Tasks -> {r \in Row : /\ r.enabled /\ ~r.deleted /\ ~r.bound
                                    /\ ~r.pending
                                    /\ r.due = IF r.kind = "schedule" THEN 1 ELSE 0}]
  /\ runs = <<>>
  /\ host = Down([instance |-> 0])
  /\ exec = [r \in RunIds |-> Gone]
  /\ client = [op |-> "none", copy |-> NoTask]
  /\ edits = 0
  /\ faults = 0
  /\ sent = {}

-----------------------------------------------------------------------------
(* The store.                                                              *)

\* A statement fails.
Fault == faults < MaxFaults /\ faults' = faults + 1
NoFault == UNCHANGED faults

\* next_due: the first slot strictly later, none when the schedule is over,
\* off or not a schedule.
NextDue(r, after) ==
  IF r.enabled /\ ~r.deleted /\ r.kind = "schedule" /\ after < MaxTime
  THEN after + 1 ELSE 0

\* SQL_DUE_TASKS
IsDue(r) ==
  /\ ~r.deleted /\ r.enabled
  /\ \/ r.pending
     \/ r.kind = "schedule" /\ r.due # 0 /\ r.due <= now

\* list_due_tasks: copies of the rows, ordered by due time (NULL first), then
\* by creation.  (A set with one element, the list.)
Before(a, b) ==
  \/ a.row.due < b.row.due
  \/ a.row.due = b.row.due /\ a.task < b.task

ListDueTasks ==
  LET due == {[task |-> t, row |-> row[t]] : t \in {u \in Tasks : IsDue(row[u])}}
      lists == UNION {[1..n -> due] : n \in 0..NumTasks}
  IN {l \in lists : /\ Range(l) = due
                    /\ \A i, j \in DOMAIN l : i < j => Before(l[i], l[j])}

\* has_running_run
HasRunningRun(t) ==
  \E r \in DOMAIN runs : runs[r].task = t /\ runs[r].status = "running"

\* Mutant: the ledger accepts a second run for a slot.
SlotTaken_Never(t, due) == FALSE

\* UNIQUE(task_id, due_at): NULLs do not collide.
SlotTaken(t, due) ==
  due # 0 /\ \E r \in DOMAIN runs : runs[r].task = t /\ runs[r].due = due

Settled(rs, r, status) ==
  [rs EXCEPT ![r].status = IF @ = "running" THEN status ELSE @]

-----------------------------------------------------------------------------
(* The host process.                                                       *)

\* The loop starts: mark_interrupted_runs, whose failure is only logged.
HostStarts ==
  /\ ~host.up /\ host.instance < MaxHosts
  /\ host' = [Down(host) EXCEPT !.up = TRUE, !.instance = @ + 1]
  /\ \/ NoFault /\ runs' = [r \in DOMAIN runs |->
                              [runs[r] EXCEPT !.status =
                                 IF @ = "running" THEN "failed" ELSE @]]
     \/ Fault /\ UNCHANGED runs
  /\ UNCHANGED <<now, row, exec, client, edits, sent>>

\* The process dies, and its executors with it.
HostDies ==
  /\ host.up
  /\ host' = Down(host)
  /\ exec' = [r \in RunIds |-> Gone]
  /\ UNCHANGED <<now, row, runs, client, edits, faults, sent>>

\* stop_admission; the process ends when its executors have been dropped.
StopAdmission ==
  /\ host.up /\ ~host.stopping
  /\ host' = [host EXCEPT !.stopping = TRUE]
  /\ UNCHANGED <<now, row, runs, exec, client, edits, faults, sent>>

HostExits ==
  /\ host.up /\ host.stopping /\ host.at = "idle"
  /\ \A r \in RunIds : exec[r] = Gone
  /\ host' = Down(host)
  /\ UNCHANGED <<now, row, runs, exec, client, edits, faults, sent>>

-----------------------------------------------------------------------------
(* The tick.                                                               *)

\* The executor is registered: live_run_ids holds the run until it returns.
Live(r) == exec[r].at # "gone"

\* It has not settled its row yet.
Working(r) == exec[r].at \notin {"gone", "cleanup"}

\* Mutant: a row of this process counts as abandoned although it is carried.
Orphaned_Own(r) == runs[r].status = "running"

\* Mutant: rows of this process are never looked at.
Orphaned_Others(r) ==
  runs[r].status = "running" /\ runs[r].owner # host.instance

\* reap_orphaned_runs: claimed by another process, or by this one with no
\* executor registered.
Orphaned(r) ==
  /\ runs[r].status = "running"
  /\ runs[r].owner = host.instance => ~Live(r)

TickEnds == host' = [host EXCEPT !.at = "idle", !.orphans = {}, !.list = <<>>]

\* The registry and the running rows are read; a failure is only logged.
TickBegins ==
  /\ host.up /\ host.at = "idle"
  /\ \E found \in {{r \in DOMAIN runs : Orphaned(r)}, {}} :
       /\ host' = [host EXCEPT !.at = "reap", !.orphans = found]
       /\ IF found = {} /\ \E r \in DOMAIN runs : Orphaned(r)
          THEN Fault ELSE NoFault
  /\ UNCHANGED <<now, row, runs, exec, client, edits, sent>>

\* SQL_REAP_RUN only touches a row that still runs; a failure is only logged.
TickReaps(r) ==
  /\ host.at = "reap" /\ r \in host.orphans
  /\ host' = [host EXCEPT !.orphans = @ \ {r}]
  /\ \/ NoFault /\ runs' = Settled(runs, r, "failed")
     \/ Fault /\ UNCHANGED runs
  /\ UNCHANGED <<now, row, exec, client, edits, sent>>

TickLists ==
  /\ host.at = "reap" /\ host.orphans = {}
  /\ \/ NoFault /\ \E l \in ListDueTasks :
                     host' = [host EXCEPT !.at = "claim", !.list = l]
     \/ Fault /\ TickEnds
  /\ UNCHANGED <<now, row, runs, exec, client, edits, sent>>

\* A task that has a run in flight is skipped; a stop ends the list.
\* (So is every task once the bound on the ledger is reached.)
TickSkips ==
  /\ host.at = "claim"
  /\ IF host.list = <<>> \/ host.stopping THEN TickEnds
     ELSE /\ HasRunningRun(Head(host.list).task) \/ Len(runs) = MaxRuns
          /\ host' = [host EXCEPT !.list = Tail(@)]
  /\ UNCHANGED <<now, row, runs, exec, client, edits, faults, sent>>

\* An explicit request outranks the schedule, and is no slot.
ClaimDue(r) == IF r.pending THEN 0 ELSE r.due

\* claim, first statement: the run row.  An error, the taken slot's among
\* them, ends the whole tick.
ClaimInserts ==
  /\ host.at = "claim" /\ host.list # <<>> /\ ~host.stopping
  /\ LET c == Head(host.list) IN
     /\ ~HasRunningRun(c.task)
     /\ \/ /\ NoFault
           /\ ~SlotTaken(c.task, ClaimDue(c.row))
           /\ Len(runs) < MaxRuns
           /\ runs' = Append(runs, [task |-> c.task, due |-> ClaimDue(c.row),
                                    status |-> "running",
                                    owner |-> host.instance])
           /\ host' = [host EXCEPT !.at = "advance"]
        \/ /\ \/ NoFault /\ SlotTaken(c.task, ClaimDue(c.row))
              \/ Fault
           /\ TickEnds
           /\ UNCHANGED runs
  /\ UNCHANGED <<now, row, exec, client, edits, sent>>

\* claim, second statement: the whole row is written from the tick's copy,
\* with the schedule advanced for a slot and the request cleared.  Then the
\* executor is registered and spawned, with the copy from before the claim.
ClaimAdvances ==
  /\ host.at = "advance"
  /\ LET c == Head(host.list)
         slot == ClaimDue(c.row) # 0 IN
     \/ /\ NoFault
        /\ row' = [row EXCEPT ![c.task] =
             [c.row EXCEPT !.pending = FALSE,
                           !.due = IF slot THEN NextDue(c.row, now) ELSE @]]
        /\ exec' = [exec EXCEPT ![Len(runs)] =
             [at |-> "start", ok |-> FALSE, copy |-> c]]
        /\ host' = [host EXCEPT !.at = "claim", !.list = Tail(@)]
     \/ /\ Fault
        /\ TickEnds
        /\ UNCHANGED <<row, exec>>
  /\ UNCHANGED <<now, runs, client, edits, sent>>

Tick ==
  \/ TickBegins \/ (\E r \in RunIds : TickReaps(r)) \/ TickLists \/ TickSkips
  \/ ClaimInserts \/ ClaimAdvances

-----------------------------------------------------------------------------
(* The executor of a run.                                                  *)

\* The executor's copy of the row is kept for as long as it may be written.
Goes(r, from, to) ==
  /\ exec[r].at = from
  /\ exec' = [exec EXCEPT ![r] =
                [at |-> to, ok |-> FALSE,
                 copy |-> IF to = "bind" THEN exec[r].copy ELSE NoTask]]

\* run_inner: a conversation of its own, the task's bound one, or one that
\* is opened now and has to be bound; any of it may fail.
ExecStarts(r) ==
  /\ exec[r].at = "start"
  /\ \/ Goes(r, "start",
             IF exec[r].copy.row.policy = "new" \/ exec[r].copy.row.bound
             THEN "prompt" ELSE "bind")
     \/ Goes(r, "start", "settle")
  /\ UNCHANGED <<now, row, runs, host, client, edits, faults, sent>>

\* bind_task_thread writes the whole row from the executor's copy.
ExecBinds(r) ==
  /\ exec[r].at = "bind"
  /\ LET c == exec[r].copy IN
     \/ /\ NoFault
        /\ Goes(r, "bind", "prompt")
        /\ row' = [row EXCEPT ![c.task] = [c.row EXCEPT !.bound = TRUE]]
     \/ /\ Fault
        /\ Goes(r, "bind", "settle")
        /\ UNCHANGED row
  /\ UNCHANGED <<now, runs, host, client, edits, sent>>

\* The run row is rewritten from the executor's copy, with the conversation
\* in it; then the prompt is prepared, which may fail, and sent.  Its answer,
\* or its error, may take for ever.
ExecPrompts(r) ==
  /\ exec[r].at = "prompt"
  /\ \/ /\ NoFault
        /\ runs' = [runs EXCEPT ![r].status = "running"]
        /\ \/ Goes(r, "prompt", "answer") /\ sent' = sent \cup {r}
           \/ Goes(r, "prompt", "settle") /\ UNCHANGED sent
     \/ Fault /\ Goes(r, "prompt", "settle") /\ UNCHANGED <<runs, sent>>
  /\ UNCHANGED <<now, row, host, client, edits>>

ExecAnswered(r) ==
  /\ exec[r].at = "answer"
  /\ \E ok \in BOOLEAN :
       exec' = [exec EXCEPT ![r] = [at |-> "settle", ok |-> ok, copy |-> NoTask]]
  /\ UNCHANGED <<now, row, runs, host, client, edits, faults, sent>>

\* The executor is dropped, and with it InterruptedTask, which settles a row
\* that still runs, unless that write fails, too.
Interrupted(r) ==
  /\ exec' = [exec EXCEPT ![r] = Gone]
  /\ runs' \in {Settled(runs, r, "failed"), runs}

\* The outcome is written.  An error ends the executor here.
ExecSettles(r) ==
  /\ exec[r].at = "settle"
  /\ \/ /\ NoFault
        /\ runs' = [runs EXCEPT ![r].status =
                     IF exec[r].ok THEN "completed" ELSE "failed"]
        /\ exec' = [exec EXCEPT ![r] = [Gone EXCEPT !.at = "cleanup"]]
     \/ Fault /\ Interrupted(r)
  /\ UNCHANGED <<now, row, host, client, edits, sent>>

\* The answer is saved, an unwanted conversation removed and the panel told;
\* the executor has stayed registered all along, with its row settled.
ExecLeaves(r) ==
  /\ exec[r].at = "cleanup"
  /\ exec' = [exec EXCEPT ![r] = Gone]
  /\ UNCHANGED <<now, row, runs, host, client, edits, faults, sent>>

\* The stopping host drops its executors wherever they are.
ExecDropped(r) ==
  /\ host.stopping /\ Live(r)
  /\ Interrupted(r)
  /\ IF runs' = Settled(runs, r, "failed") THEN NoFault ELSE Fault
  /\ UNCHANGED <<now, row, host, client, edits, sent>>

\* What an executor does by itself; ExecAnswered is the agent's.
ExecStep(r) ==
  \/ ExecStarts(r) \/ ExecBinds(r) \/ ExecPrompts(r)
  \/ ExecSettles(r) \/ ExecLeaves(r) \/ ExecDropped(r)

-----------------------------------------------------------------------------
(* Commands from the panel, the phone and the CLI: the row is read, changed *)
(* and written back whole.                                                  *)

Commands == {"run", "pause", "resume", "delete", "edit"}

\* get_task finds the rows of deleted tasks, too.
CommandReads(t, op) ==
  /\ client.op = "none" /\ edits < MaxEdits
  /\ client' = [op |-> op, copy |-> [task |-> t, row |-> row[t]]]
  /\ edits' = edits + 1
  /\ UNCHANGED <<now, row, runs, host, exec, faults, sent>>

\* update_task: the schedule is resolved anew, from the millisecond before
\* this one, so that the slot that begins right now is still to come.
Edited(r) ==
  {n \in Row :
     /\ n.deleted = r.deleted /\ n.pending = r.pending /\ n.bound = r.bound
     /\ \/ n.due = NextDue(n, now)
        \/ now > 0 /\ n.due = NextDue(n, now - 1)}

\* apply_task_enabled: a schedule that is resumed lands on a real slot.
Resumed(r) ==
  LET on == [r EXCEPT !.enabled = TRUE] IN
  IF r.kind = "schedule" THEN [on EXCEPT !.due = NextDue(on, now)] ELSE on

\* run_task_now, set_task_enabled, delete_task, update_task.
Changed(op, r) ==
  {n \in {[r EXCEPT !.pending = TRUE]} : op = "run"}
    \cup {n \in {[r EXCEPT !.enabled = FALSE]} : op = "pause"}
    \cup {n \in {Resumed(r)} : op = "resume"}
    \cup {n \in {[r EXCEPT !.deleted = TRUE, !.enabled = FALSE]} : op = "delete"}
    \cup {n \in Edited(r) : op = "edit"}

\* The whole row is written back, or the client gets the error.
CommandWrites ==
  /\ client.op # "none"
  /\ \/ /\ NoFault
        /\ \E r \in Changed(client.op, client.copy.row) :
             row' = [row EXCEPT ![client.copy.task] = r]
     \/ Fault /\ UNCHANGED row
  /\ client' = [op |-> "none", copy |-> NoTask]
  /\ UNCHANGED <<now, runs, host, exec, edits, sent>>

TimePasses ==
  /\ now < MaxTime
  /\ now' = now + 1
  /\ UNCHANGED <<row, runs, host, exec, client, edits, faults, sent>>

-----------------------------------------------------------------------------
Next ==
  \/ HostStarts \/ HostDies \/ StopAdmission \/ HostExits
  \/ Tick
  \/ \E r \in RunIds : ExecStep(r) \/ ExecAnswered(r)
  \/ \E t \in Tasks, op \in Commands : CommandReads(t, op)
  \/ CommandWrites
  \/ TimePasses

Spec == Init /\ [][Next]_vars

\* The loop ticks for as long as the process lives.
FairSpec == Spec /\ WF_vars(Tick)

-----------------------------------------------------------------------------
(* Properties.                                                             *)

Run == [task : Tasks, due : 0..MaxTime, owner : 1..MaxHosts,
        status : {"running", "completed", "failed"}]
Host == [up : BOOLEAN, stopping : BOOLEAN, instance : 0..MaxHosts,
         at : {"idle", "reap", "claim", "advance"},
         orphans : SUBSET RunIds, list : Seq(Copies)]
Exec == [at : {"gone", "start", "bind", "prompt", "answer", "settle",
               "cleanup"},
         ok : BOOLEAN, copy : Copies \cup {NoTask}]

\* Every variable keeps to the columns and locals it stands for, and whoever
\* is about to write a task's row holds a copy of one.
TypeOK ==
  /\ now \in 0..MaxTime
  /\ row \in [Tasks -> Row]
  /\ runs \in Seq(Run) /\ Len(runs) <= MaxRuns
  /\ host \in Host
  /\ exec \in [RunIds -> Exec]
  /\ \A r \in RunIds : exec[r].at \in {"start", "bind"} => exec[r].copy \in Copies
  /\ client \in [op : Commands \cup {"none"}, copy : Copies \cup {NoTask}]
  /\ client.op # "none" => client.copy \in Copies
  /\ edits \in 0..MaxEdits /\ faults \in 0..MaxFaults
  /\ sent \subseteq RunIds

\* No two runs of one task are carried out at the same time, from the claim to
\* the write of the outcome: the only guard is the count of "running" rows,
\* which reaping, settling and restarts move behind the executors' backs
\* (host/src/tasks.rs, tick and reap_orphaned_runs).  An executor that cleans
\* up after its settled run may well overlap with the next one.
NoOverlap ==
  \A r, s \in DOMAIN runs :
    Working(r) /\ Working(s) /\ runs[r].task = runs[s].task => r = s

\* A slot's prompt is sent to the agent at most once, although crashes and
\* stale copies of the row make a consumed slot due again.
SlotOnce ==
  \A r, s \in sent :
    runs[r].task = runs[s].task /\ runs[r].due = runs[s].due /\ runs[r].due # 0
      => r = s

\* A run row that nobody carries is settled without a restart: whatever
\* writes failed, the next ticks find it (reap_orphaned_runs: "a failed write
\* is retried here").
OrphansSettle ==
  \A r \in RunIds :
    LET abandoned == r \in DOMAIN runs /\ runs[r].status = "running" /\ ~Live(r)
    IN abandoned ~> (~abandoned \/ ~host.up \/ host.stopping)

\* A due task is claimed, or has a run in flight, as long as the loop ticks:
\* no row left behind keeps a task off the schedule ("the reason the ledger
\* does not need a human (or an app restart) to move again").
DueTasksMove ==
  \A t \in Tasks :
    IsDue(row[t]) ~> (~IsDue(row[t]) \/ HasRunningRun(t) \/ ~host.up
                      \/ host.stopping)
=============================================================================
