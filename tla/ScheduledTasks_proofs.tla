------------------------ MODULE ScheduledTasks_proofs ------------------------
(***************************************************************************)
(* Proofs about ScheduledTasks for every number of tasks, slots, runs,     *)
(* commands, failing writes and restarts.                                  *)
(***************************************************************************)
EXTENDS ScheduledTasks, TLAPS

\* An executor carries a row of this process, which says "running" until the
\* executor has settled it.
Carried ==
  \A r \in RunIds : Live(r) =>
    /\ r \in 1..Len(runs)
    /\ runs[r].status = "running" <=> Working(r)
    /\ runs[r].owner = host.instance
    /\ host.up

\* Rows are reaped before anything is claimed, and never under an executor.
Reaping ==
  /\ host.at # "idle" => host.up
  /\ host.up => host.instance # 0
  /\ host.orphans # {} => host.at = "reap"
  /\ \A r \in host.orphans : r \in 1..Len(runs) /\ ~Live(r)

\* Between claim's two statements the last row waits for its executor, and no
\* other executor works for the task.
Claiming ==
  host.at = "advance" =>
    /\ host.list # << >> /\ Len(runs) # 0
    /\ runs[Len(runs)].task = Head(host.list).task
    /\ runs[Len(runs)].status = "running"
    /\ runs[Len(runs)].owner = host.instance
    /\ \A r \in RunIds : Working(r) => runs[r].task # Head(host.list).task

\* The ledger holds a slot once, and every prompt that was sent is in it.
Slots ==
  /\ sent \subseteq 1..Len(runs)
  /\ \A r, s \in 1..Len(runs) :
       runs[r].task = runs[s].task /\ runs[r].due = runs[s].due /\ runs[r].due # 0
         => r = s

IInv == TypeOK /\ Carried /\ Reaping /\ Claiming /\ NoOverlap /\ Slots

-----------------------------------------------------------------------------
\* The next slot is one of the schedule's.
LEMMA NextDueType ==
  ASSUME NEW r \in Row, NEW after \in 0..MaxTime
  PROVE  NextDue(r, after) \in 0..MaxTime
BY TasksAssumption DEF NextDue

\* list_due_tasks returns copies of rows.
LEMMA ListType ==
  ASSUME row \in [Tasks -> Row], NEW l \in ListDueTasks
  PROVE  l \in Seq(Copies)
<1> DEFINE due == {[task |-> t, row |-> row[t]] : t \in {u \in Tasks : IsDue(row[u])}}
<1>1. due \subseteq Copies
  BY DEF Copies
<1>2. PICK n \in 0..NumTasks : l \in [1..n -> due]
  BY DEF ListDueTasks
<1>3. l \in [1..n -> Copies]
  BY <1>1, <1>2
<1> QED
  BY <1>3, TasksAssumption

\* What a command writes is a row.
LEMMA ChangedType ==
  ASSUME NEW op \in Commands, NEW r \in Row, NEW n \in Changed(op, r),
         now \in 0..MaxTime
  PROVE  n \in Row
<1>1. [r EXCEPT !.pending = TRUE] \in Row /\ [r EXCEPT !.enabled = FALSE] \in Row
  BY DEF Row
<1>2. [r EXCEPT !.deleted = TRUE, !.enabled = FALSE] \in Row
  BY DEF Row
<1>3. Resumed(r) \in Row
  <2> DEFINE on == [r EXCEPT !.enabled = TRUE]
  <2>1. on \in Row
    BY DEF Row
  <2>2. NextDue(on, now) \in 0..MaxTime
    BY <2>1, NextDueType
  <2>3. Resumed(r) =
          (IF r.kind = "schedule" THEN [on EXCEPT !.due = NextDue(on, now)] ELSE on)
    BY DEF Resumed
  <2> HIDE DEF on
  <2> QED
    BY <2>1, <2>2, <2>3 DEF Row
<1>4. Edited(r) \subseteq Row
  BY DEF Edited
<1> QED
  BY <1>1, <1>2, <1>3, <1>4 DEF Changed

\* The writes of run rows only change a status.
LEMMA StatusWritten ==
  ASSUME runs \in Seq(Run), NEW r \in 1..Len(runs),
         NEW status \in {"running", "completed", "failed"},
         runs' = [runs EXCEPT ![r].status = status]
  PROVE  /\ runs' \in Seq(Run) /\ Len(runs') = Len(runs)
         /\ \A i \in 1..Len(runs) :
              /\ runs'[i].task = runs[i].task /\ runs'[i].due = runs[i].due
              /\ runs'[i].owner = runs[i].owner
              /\ runs'[i].status = IF i = r THEN status ELSE runs[i].status
<1>1. \A i \in 1..Len(runs) : runs[i] \in Run
  OBVIOUS
<1>2. [runs[r] EXCEPT !.status = status] \in Run
  BY <1>1 DEF Run
<1>7. runs' \in [1..Len(runs) -> Run]
  BY <1>1, <1>2
<1>3. \A i \in 1..Len(runs) :
         runs'[i] = IF i = r THEN [runs[r] EXCEPT !.status = status] ELSE runs[i]
  BY <1>1
<1>4. runs[r] \in Run /\ [runs[r] EXCEPT !.status = status].status = status
  BY <1>1 DEF Run
<1>5. /\ [runs[r] EXCEPT !.status = status].task = runs[r].task
      /\ [runs[r] EXCEPT !.status = status].due = runs[r].due
      /\ [runs[r] EXCEPT !.status = status].owner = runs[r].owner
  BY <1>4 DEF Run
<1>6. runs' \in Seq(Run) /\ Len(runs') = Len(runs)
  BY <1>7
<1> QED
  BY <1>3, <1>4, <1>5, <1>6

\* A faulty statement is counted.
LEMMA FaultType ==
  ASSUME faults \in 0..MaxFaults, Fault \/ NoFault
  PROVE  faults' \in 0..MaxFaults
BY TasksAssumption DEF Fault, NoFault

\* Admission stops.
LEMMA HostStopping ==
  ASSUME host \in Host, host' = [host EXCEPT !.stopping = TRUE]
  PROVE  /\ host' \in Host
         /\ host'.up = host.up /\ host'.stopping = TRUE /\ host'.instance = host.instance
         /\ host'.at = host.at /\ host'.orphans = host.orphans /\ host'.list = host.list
<1>1. host' \in Host
  BY DEF Host
<1>2. host'.up = host.up /\ host'.stopping = TRUE /\ host'.instance = host.instance
  BY DEF Host
<1>3. host'.at = host.at /\ host'.orphans = host.orphans /\ host'.list = host.list
  BY DEF Host
<1> QED
  BY <1>1, <1>2, <1>3

\* The tick moves on.
LEMMA HostAt ==
  ASSUME host \in Host, NEW a \in {"idle", "reap", "claim", "advance"},
         host' = [host EXCEPT !.at = a]
  PROVE  /\ host' \in Host
         /\ host'.up = host.up /\ host'.stopping = host.stopping /\ host'.instance = host.instance
         /\ host'.at = a /\ host'.orphans = host.orphans /\ host'.list = host.list
<1>1. host' \in Host
  BY DEF Host
<1>2. host'.up = host.up /\ host'.stopping = host.stopping /\ host'.instance = host.instance
  BY DEF Host
<1>3. host'.at = a /\ host'.orphans = host.orphans /\ host'.list = host.list
  BY DEF Host
<1> QED
  BY <1>1, <1>2, <1>3

\* The tick moves on with a set of rows.
LEMMA HostOrphans ==
  ASSUME host \in Host, NEW a \in {"idle", "reap", "claim", "advance"},
         NEW o \in SUBSET RunIds, host' = [host EXCEPT !.at = a, !.orphans = o]
  PROVE  /\ host' \in Host
         /\ host'.up = host.up /\ host'.stopping = host.stopping /\ host'.instance = host.instance
         /\ host'.at = a /\ host'.orphans = o /\ host'.list = host.list
<1>1. host' \in Host
  BY DEF Host
<1>2. host'.up = host.up /\ host'.stopping = host.stopping /\ host'.instance = host.instance
  BY DEF Host
<1>3. host'.at = a /\ host'.orphans = o /\ host'.list = host.list
  BY DEF Host
<1> QED
  BY <1>1, <1>2, <1>3

\* The tick moves on with a list of tasks.
LEMMA HostList ==
  ASSUME host \in Host, NEW a \in {"idle", "reap", "claim", "advance"},
         NEW l \in Seq(Copies), host' = [host EXCEPT !.at = a, !.list = l]
  PROVE  /\ host' \in Host
         /\ host'.up = host.up /\ host'.stopping = host.stopping /\ host'.instance = host.instance
         /\ host'.at = a /\ host'.orphans = host.orphans /\ host'.list = l
<1>1. host' \in Host
  BY DEF Host
<1>2. host'.up = host.up /\ host'.stopping = host.stopping /\ host'.instance = host.instance
  BY DEF Host
<1>3. host'.at = a /\ host'.orphans = host.orphans /\ host'.list = l
  BY DEF Host
<1> QED
  BY <1>1, <1>2, <1>3

\* The tick ends.
LEMMA HostEnds ==
  ASSUME host \in Host, NEW a \in {"idle", "reap", "claim", "advance"}, NEW o \in SUBSET RunIds,
         NEW l \in Seq(Copies), host' = [host EXCEPT !.at = a, !.orphans = o, !.list = l]
  PROVE  /\ host' \in Host
         /\ host'.up = host.up /\ host'.stopping = host.stopping /\ host'.instance = host.instance
         /\ host'.at = a /\ host'.orphans = o /\ host'.list = l
<1>1. host' \in Host
  BY DEF Host
<1>2. host'.up = host.up /\ host'.stopping = host.stopping /\ host'.instance = host.instance
  BY DEF Host
<1>3. host'.at = a /\ host'.orphans = o /\ host'.list = l
  BY DEF Host
<1> QED
  BY <1>1, <1>2, <1>3

\* A row has been dealt with.
LEMMA HostReaps ==
  ASSUME host \in Host, NEW o \in SUBSET RunIds,
         host' = [host EXCEPT !.orphans = o]
  PROVE  /\ host' \in Host
         /\ host'.up = host.up /\ host'.stopping = host.stopping /\ host'.instance = host.instance
         /\ host'.at = host.at /\ host'.orphans = o /\ host'.list = host.list
<1>1. host' \in Host
  BY DEF Host
<1>2. host'.up = host.up /\ host'.stopping = host.stopping /\ host'.instance = host.instance
  BY DEF Host
<1>3. host'.at = host.at /\ host'.orphans = o /\ host'.list = host.list
  BY DEF Host
<1> QED
  BY <1>1, <1>2, <1>3

\* A task has been dealt with.
LEMMA HostSkips ==
  ASSUME host \in Host, NEW l \in Seq(Copies),
         host' = [host EXCEPT !.list = l]
  PROVE  /\ host' \in Host
         /\ host'.up = host.up /\ host'.stopping = host.stopping /\ host'.instance = host.instance
         /\ host'.at = host.at /\ host'.orphans = host.orphans /\ host'.list = l
<1>1. host' \in Host
  BY DEF Host
<1>2. host'.up = host.up /\ host'.stopping = host.stopping /\ host'.instance = host.instance
  BY DEF Host
<1>3. host'.at = host.at /\ host'.orphans = host.orphans /\ host'.list = l
  BY DEF Host
<1> QED
  BY <1>1, <1>2, <1>3

\* A tick that ends forgets what it found.
LEMMA TickEndsHost ==
  ASSUME host \in Host, TickEnds
  PROVE  /\ host' \in Host
         /\ host'.up = host.up /\ host'.stopping = host.stopping /\ host'.instance = host.instance
         /\ host'.at = "idle" /\ host'.orphans = {} /\ host'.list = << >>
<1>1. << >> \in Seq(Copies) /\ {} \in SUBSET RunIds
  OBVIOUS
<1> QED
  BY <1>1, HostEnds DEF TickEnds

\* A process that is down, and one that starts.
LEMMA DownHost ==
  ASSUME host \in Host
  PROVE  /\ Down(host) \in Host
         /\ ~Down(host).up /\ Down(host).instance = host.instance
         /\ Down(host).at = "idle" /\ Down(host).orphans = {}
<1>1. << >> \in Seq(Copies) /\ {} \in SUBSET RunIds
  OBVIOUS
<1>2. host.instance \in 0..MaxHosts
  BY DEF Host
<1> QED
  BY <1>1, <1>2 DEF Down, Host

\* A host that starts is another process, with no tick under way.
LEMMA StartHost ==
  ASSUME host \in Host, HostStarts
  PROVE  /\ host' \in Host
         /\ host'.up /\ host'.instance = host.instance + 1
         /\ host'.at = "idle" /\ host'.orphans = {}
<1> DEFINE d == Down(host)
<1>1. host.instance \in 0..MaxHosts /\ host.instance < MaxHosts
  BY DEF Host, HostStarts
<1>2. host.instance + 1 \in 0..MaxHosts
  BY <1>1, TasksAssumption
<1>3. d \in Host /\ d.instance = host.instance /\ d.at = "idle" /\ d.orphans = {}
  BY DownHost
<1>4. host' = [d EXCEPT !.up = TRUE, !.instance = host.instance + 1]
  BY <1>3 DEF HostStarts
<1> HIDE DEF d
<1>5. host' \in Host
  BY <1>2, <1>3, <1>4 DEF Host
<1>6. host'.up /\ host'.instance = host.instance + 1
  BY <1>3, <1>4 DEF Host
<1>7. host'.at = d.at /\ host'.orphans = d.orphans
  BY <1>3, <1>4 DEF Host
<1> QED
  BY <1>3, <1>5, <1>6, <1>7

ExecType ==
  /\ exec \in [RunIds -> Exec]
  /\ \A r \in RunIds : exec[r].at \in {"start", "bind"} => exec[r].copy \in Copies

\* An executor that goes on keeps its copy until it is bound.
LEMMA GoesType ==
  ASSUME ExecType, NEW r \in RunIds,
         NEW from \in {"start", "bind", "prompt"},
         NEW to \in {"bind", "prompt", "answer", "settle"},
         to = "bind" => from = "start", Goes(r, from, to)
  PROVE  /\ ExecType'
         /\ \A s \in RunIds : s # r => exec'[s] = exec[s]
         /\ exec[r].at = from /\ exec'[r].at = to
<1> DEFINE c == IF to = "bind" THEN exec[r].copy ELSE NoTask
           e == [at |-> to, ok |-> FALSE, copy |-> c]
<1>1. exec[r] \in Exec /\ exec[r].at = from
  BY DEF ExecType, Goes
<1>2. c \in Copies \cup {NoTask} /\ (to = "bind" => c \in Copies)
  BY <1>1 DEF ExecType
<1>3. e \in Exec
  BY <1>2 DEF Exec
<1>4. exec' = [exec EXCEPT ![r] = e]
  BY DEF Goes
<1>5. e.at = to /\ e.copy = c
  OBVIOUS
<1> HIDE DEF e
<1> QED
  BY <1>1, <1>2, <1>3, <1>4, <1>5 DEF ExecType

\* An executor that is gone leaves nothing behind.
LEMMA GoneType ==
  ASSUME ExecType, NEW r \in RunIds, exec' = [exec EXCEPT ![r] = Gone]
  PROVE  /\ ExecType' /\ exec'[r].at = "gone"
         /\ \A s \in RunIds : s # r => exec'[s] = exec[s]
<1>1. Gone \in Exec /\ Gone.at = "gone"
  BY DEF Gone, Exec
<1> QED
  BY <1>1 DEF ExecType

\* An executor that has settled its row has no use for its copy.
LEMMA CleanupType ==
  ASSUME ExecType, NEW r \in RunIds,
         exec' = [exec EXCEPT ![r] = [Gone EXCEPT !.at = "cleanup"]]
  PROVE  /\ ExecType' /\ exec'[r].at = "cleanup"
         /\ \A s \in RunIds : s # r => exec'[s] = exec[s]
<1> DEFINE e == [Gone EXCEPT !.at = "cleanup"]
<1>1. e \in Exec /\ e.at = "cleanup"
  BY DEF Gone, Exec
<1>2. exec' = [exec EXCEPT ![r] = e]
  OBVIOUS
<1> HIDE DEF e
<1> QED
  BY <1>1, <1>2 DEF ExecType

\* A restart settles every row that runs.
LEMMA AllFailed ==
  ASSUME runs \in Seq(Run),
         runs' = [r \in DOMAIN runs |->
                    [runs[r] EXCEPT !.status = IF @ = "running" THEN "failed" ELSE @]]
  PROVE  /\ runs' \in Seq(Run) /\ Len(runs') = Len(runs)
         /\ \A i \in 1..Len(runs) :
              runs'[i].task = runs[i].task /\ runs'[i].due = runs[i].due
<1> DEFINE f(r) == [runs[r] EXCEPT !.status =
                      IF runs[r].status = "running" THEN "failed" ELSE runs[r].status]
<1>1. DOMAIN runs = 1..Len(runs) /\ Len(runs) \in Nat
  OBVIOUS
<1>2. \A i \in 1..Len(runs) : runs[i] \in Run
  OBVIOUS
<1>3. ASSUME NEW i \in 1..Len(runs)
      PROVE  /\ f(i) \in Run
             /\ f(i).task = runs[i].task /\ f(i).due = runs[i].due
  BY <1>2 DEF Run
<1>4. runs' = [r \in 1..Len(runs) |-> f(r)]
  BY <1>1, <1>2 DEF Run
<1> HIDE DEF f
<1>5. runs' \in [1..Len(runs) -> Run] /\ \A i \in 1..Len(runs) : runs'[i] = f(i)
  BY <1>3, <1>4
<1>6. runs' \in Seq(Run) /\ Len(runs') = Len(runs)
  BY <1>1, <1>5
<1> QED
  BY <1>3, <1>5, <1>6

\* To settle a row is to write its status, which stays what it was when
\* something else has settled it.
LEMMA SettledStatus ==
  ASSUME runs \in Seq(Run), NEW r \in 1..Len(runs)
  PROVE  \E st \in {"running", "completed", "failed"} :
           /\ Settled(runs, r, "failed") = [runs EXCEPT ![r].status = st]
           /\ st # "running"
<1> DEFINE st == IF runs[r].status = "running" THEN "failed" ELSE runs[r].status
<1>1. runs[r] \in Run
  OBVIOUS
<1>2. st \in {"running", "completed", "failed"} /\ st # "running"
  BY <1>1 DEF Run
<1>3. Settled(runs, r, "failed") = [runs EXCEPT ![r].status = st]
  BY <1>1 DEF Settled
<1> HIDE DEF st
<1> QED
  BY <1>2, <1>3

\* A row that is reaped is settled unless something else has settled it.
LEMMA RowReaped ==
  ASSUME runs \in Seq(Run), NEW r \in 1..Len(runs), runs' = Settled(runs, r, "failed")
  PROVE  /\ runs' \in Seq(Run) /\ Len(runs') = Len(runs)
         /\ \A i \in 1..Len(runs) :
              /\ runs'[i].task = runs[i].task /\ runs'[i].due = runs[i].due
              /\ runs'[i].owner = runs[i].owner
              /\ i # r => runs'[i].status = runs[i].status
BY SettledStatus, StatusWritten

-----------------------------------------------------------------------------
\* Type correctness, action by action.

\* The program starts with rows, an empty ledger and no process.
LEMMA InitType == Init => TypeOK
<1> SUFFICES ASSUME Init PROVE TypeOK
  OBVIOUS
<1>1. << >> \in Seq(Run) /\ Len(<< >>) = 0 /\ << >> \in Seq(Copies)
  OBVIOUS
<1>2. host \in Host
  <2>1. host = [up |-> FALSE, stopping |-> FALSE, instance |-> 0,
                at |-> "idle", orphans |-> {}, list |-> <<>>]
    BY DEF Init, Down
  <2> QED
    BY <1>1, <2>1, TasksAssumption DEF Host
<1>3. Gone \in Exec /\ Gone.at = "gone"
  BY DEF Gone, Exec
<1>4. ExecType
  BY <1>3 DEF Init, ExecType
<1>5. row \in [Tasks -> Row]
  BY DEF Init
<1>6. client \in [op : Commands \cup {"none"}, copy : Copies \cup {NoTask}]
      /\ client.op = "none"
  BY DEF Init
<1> QED
  BY <1>1, <1>2, <1>4, <1>5, <1>6, TasksAssumption DEF Init, TypeOK, ExecType

\* Starting, dying and stopping keep the types.
LEMMA HostActionsType ==
  ASSUME IInv, HostStarts \/ HostDies \/ StopAdmission \/ HostExits
  PROVE  TypeOK'
<1> USE DEF IInv
<1>0. host \in Host /\ runs \in Seq(Run) /\ Len(runs) <= MaxRuns /\ ExecType
  BY DEF TypeOK, ExecType
<1>1. CASE HostStarts
  <2>1. host' \in Host
    BY <1>0, <1>1, StartHost
  <2>2. runs' \in Seq(Run) /\ Len(runs') <= MaxRuns
    BY <1>0, <1>1, AllFailed DEF HostStarts
  <2>3. faults' \in 0..MaxFaults
    BY <1>1, FaultType DEF HostStarts, TypeOK
  <2> QED
    BY <1>1, <2>1, <2>2, <2>3 DEF HostStarts, TypeOK
<1>2. CASE HostDies
  <2>1. host' \in Host
    BY <1>0, <1>2, DownHost DEF HostDies
  <2>2. Gone \in Exec /\ Gone.at = "gone"
    BY DEF Gone, Exec
  <2>3. ExecType'
    BY <1>2, <2>2 DEF HostDies, ExecType
  <2> QED
    BY <1>2, <2>1, <2>3 DEF HostDies, TypeOK, ExecType
<1>3. CASE StopAdmission
  <2>1. host' \in Host
    BY <1>0, <1>3, HostStopping DEF StopAdmission
  <2> QED
    BY <1>3, <2>1 DEF StopAdmission, TypeOK
<1>4. CASE HostExits
  <2>1. host' \in Host
    BY <1>0, <1>4, DownHost DEF HostExits
  <2> QED
    BY <1>4, <2>1 DEF HostExits, TypeOK
<1> QED
  BY <1>1, <1>2, <1>3, <1>4

\* The rows a tick may settle are rows of the ledger.
LEMMA FoundRows ==
  ASSUME runs \in Seq(Run), Len(runs) <= MaxRuns,
         NEW found \in {{r \in DOMAIN runs : Orphaned(r)}, {}}
  PROVE  found \in SUBSET RunIds /\ \A r \in found : r \in 1..Len(runs) /\ Orphaned(r)
<1>1. DOMAIN runs = 1..Len(runs) /\ Len(runs) \in Nat
  OBVIOUS
<1> QED
  BY <1>1, TasksAssumption DEF RunIds

\* The copy at the head of the tick's list.
LEMMA HeadCopy ==
  ASSUME host \in Host, host.list # << >>
  PROVE  /\ Head(host.list) \in Copies /\ Tail(host.list) \in Seq(Copies)
         /\ Head(host.list).task \in Tasks /\ Head(host.list).row \in Row
         /\ ClaimDue(Head(host.list).row) \in 0..MaxTime
<1>1. host.list \in Seq(Copies)
  BY DEF Host
<1>2. Head(host.list) \in Copies /\ Tail(host.list) \in Seq(Copies)
  BY <1>1
<1>3. Head(host.list).task \in Tasks /\ Head(host.list).row \in Row
  BY <1>2 DEF Copies
<1>4. Head(host.list).row.due \in 0..MaxTime
  BY <1>3 DEF Row
<1> QED
  BY <1>2, <1>3, <1>4, TasksAssumption DEF ClaimDue

\* claim's first statement appends a run row.
LEMMA RowInserted ==
  ASSUME runs \in Seq(Run), Len(runs) < MaxRuns, NEW t \in Tasks,
         NEW due \in 0..MaxTime, NEW o \in 1..MaxHosts,
         runs' = Append(runs, [task |-> t, due |-> due, status |-> "running",
                               owner |-> o])
  PROVE  /\ runs' \in Seq(Run) /\ Len(runs') = Len(runs) + 1 /\ Len(runs') <= MaxRuns
         /\ \A i \in 1..Len(runs) : runs'[i] = runs[i]
         /\ runs'[Len(runs')] = [task |-> t, due |-> due, status |-> "running",
                                 owner |-> o]
<1>1. [task |-> t, due |-> due, status |-> "running", owner |-> o] \in Run
  BY DEF Run
<1> QED
  BY <1>1, TasksAssumption

\* The tick keeps the types: it holds copies of rows, and row numbers.
LEMMA TickType ==
  ASSUME IInv, Tick
  PROVE  TypeOK'
<1> USE DEF IInv
<1>0. host \in Host /\ runs \in Seq(Run) /\ Len(runs) <= MaxRuns /\ ExecType
  BY DEF TypeOK, ExecType
<1>1. CASE TickBegins
  <2>1. PICK found \in {{r \in DOMAIN runs : Orphaned(r)}, {}} :
          host' = [host EXCEPT !.at = "reap", !.orphans = found]
    BY <1>1 DEF TickBegins
  <2>2. host' \in Host
    BY <1>0, <2>1, FoundRows, HostOrphans
  <2>3. faults' \in 0..MaxFaults
    BY <1>1, FaultType DEF TickBegins, TypeOK
  <2> QED
    BY <1>1, <2>2, <2>3 DEF TickBegins, TypeOK
<1>2. ASSUME NEW r \in RunIds, TickReaps(r) PROVE TypeOK'
  <2>1. host.orphans \in SUBSET RunIds
    BY <1>0 DEF Host
  <2>2. host.orphans \ {r} \in SUBSET RunIds
    BY <2>1
  <2>3. host' \in Host
    BY <1>0, <1>2, <2>2, HostReaps DEF TickReaps
  <2>4. r \in 1..Len(runs)
    BY <1>2 DEF TickReaps, Reaping
  <2>5. runs' \in Seq(Run) /\ Len(runs') <= MaxRuns
    BY <1>0, <1>2, <2>4, RowReaped DEF TickReaps
  <2>6. faults' \in 0..MaxFaults
    BY <1>2, FaultType DEF TickReaps, TypeOK
  <2> QED
    BY <1>2, <2>3, <2>5, <2>6 DEF TickReaps, TypeOK
<1>3. CASE TickLists
  <2>1. ASSUME NEW l \in ListDueTasks, host' = [host EXCEPT !.at = "claim", !.list = l]
        PROVE  host' \in Host
    <3>1. l \in Seq(Copies)
      BY ListType DEF TypeOK
    <3> QED
      BY <1>0, <2>1, <3>1, HostList
  <2>2. host' \in Host
    BY <1>0, <1>3, <2>1, TickEndsHost DEF TickLists
  <2>3. faults' \in 0..MaxFaults
    BY <1>3, FaultType DEF TickLists, TypeOK
  <2> QED
    BY <1>3, <2>2, <2>3 DEF TickLists, TypeOK
<1>4. CASE TickSkips
  <2>1. CASE host.list = <<>> \/ host.stopping
    <3>1. host' \in Host
      BY <1>0, <1>4, <2>1, TickEndsHost DEF TickSkips
    <3> QED
      BY <1>4, <3>1 DEF TickSkips, TypeOK
  <2>2. CASE ~(host.list = <<>> \/ host.stopping)
    <3>1. Tail(host.list) \in Seq(Copies)
      BY <1>0, <2>2, HeadCopy
    <3>2. host' = [host EXCEPT !.list = Tail(host.list)]
      BY <1>4, <2>2 DEF TickSkips
    <3>3. host' \in Host
      BY <1>0, <3>1, <3>2, HostSkips
    <3> QED
      BY <1>4, <3>3 DEF TickSkips, TypeOK
  <2> QED
    BY <2>1, <2>2
<1>5. CASE ClaimInserts
  <2>1. Head(host.list).task \in Tasks /\ ClaimDue(Head(host.list).row) \in 0..MaxTime
    BY <1>0, <1>5, HeadCopy DEF ClaimInserts
  <2>2. host.instance \in 1..MaxHosts
    <3>1. host.instance \in 0..MaxHosts /\ host.instance # 0
      BY <1>0, <1>5 DEF ClaimInserts, Host, Reaping
    <3> QED
      BY <3>1, TasksAssumption
  <2>3. runs' \in Seq(Run) /\ Len(runs') <= MaxRuns
    BY <1>0, <1>5, <2>1, <2>2, RowInserted DEF ClaimInserts
  <2>4. host' \in Host
    BY <1>0, <1>5, TickEndsHost, HostAt DEF ClaimInserts
  <2>5. faults' \in 0..MaxFaults
    BY <1>5, FaultType DEF ClaimInserts, TypeOK
  <2> QED
    BY <1>5, <2>3, <2>4, <2>5 DEF ClaimInserts, TypeOK
<1>6. CASE ClaimAdvances
  <2> DEFINE c == Head(host.list)
             next == [c.row EXCEPT !.pending = FALSE,
                        !.due = IF ClaimDue(c.row) # 0 THEN NextDue(c.row, now)
                                                       ELSE c.row.due]
             e == [at |-> "start", ok |-> FALSE, copy |-> c]
  <2>1. host.list # << >> /\ Len(runs) # 0
    BY <1>6 DEF ClaimAdvances, Claiming
  <2>2. c \in Copies /\ Tail(host.list) \in Seq(Copies) /\ c.task \in Tasks /\ c.row \in Row
    BY <1>0, <2>1, HeadCopy
  <2>3. Len(runs) \in RunIds
    BY <1>0, <2>1, TasksAssumption DEF RunIds
  <2>4. next \in Row
    <3>1. NextDue(c.row, now) \in 0..MaxTime
      BY <2>2, NextDueType DEF TypeOK
    <3> HIDE DEF c
    <3> QED
      BY <2>2, <3>1 DEF Row
  <2>5. e \in Exec /\ e.copy = c
    BY <2>2 DEF Exec
  <2>6. faults' \in 0..MaxFaults
    BY <1>6, FaultType DEF ClaimAdvances, TypeOK
  <2>7. \/ /\ row' = [row EXCEPT ![c.task] = next]
           /\ exec' = [exec EXCEPT ![Len(runs)] = e]
           /\ host' = [host EXCEPT !.at = "claim", !.list = Tail(host.list)]
        \/ TickEnds /\ UNCHANGED <<row, exec>>
    BY <1>6, <2>2 DEF ClaimAdvances, Row
  <2>8. CASE TickEnds /\ UNCHANGED <<row, exec>>
    BY <1>0, <1>6, <2>6, <2>8, TickEndsHost DEF ClaimAdvances, TypeOK
  <2>9. CASE /\ row' = [row EXCEPT ![c.task] = next]
             /\ exec' = [exec EXCEPT ![Len(runs)] = e]
             /\ host' = [host EXCEPT !.at = "claim", !.list = Tail(host.list)]
    <3>2. host' \in Host
      BY <1>0, <2>2, <2>9, HostList
    <3> HIDE DEF c, next, e
    <3>3. ExecType'
      BY <1>0, <2>2, <2>3, <2>5, <2>9 DEF ExecType
    <3>4. row' \in [Tasks -> Row]
      BY <2>2, <2>4, <2>9 DEF TypeOK
    <3> QED
      BY <1>6, <2>6, <3>2, <3>3, <3>4 DEF ClaimAdvances, TypeOK, ExecType
  <2> QED
    BY <2>7, <2>8, <2>9
<1> QED
  BY <1>1, <1>2, <1>3, <1>4, <1>5, <1>6 DEF Tick

\* The executors keep the types.
LEMMA ExecStepType ==
  ASSUME IInv, NEW r \in RunIds, ExecStep(r) \/ ExecAnswered(r)
  PROVE  TypeOK'
<1> USE DEF IInv
<1>0. host \in Host /\ runs \in Seq(Run) /\ Len(runs) <= MaxRuns /\ ExecType
  BY DEF TypeOK, ExecType
<1>10. Live(r) => r \in 1..Len(runs)
  BY DEF Carried
<1>11. ASSUME NEW status \in {"running", "completed", "failed"}, Live(r),
              \/ runs' = [runs EXCEPT ![r].status = status]
              \/ runs' = runs
       PROVE  runs' \in Seq(Run) /\ Len(runs') <= MaxRuns
  <2>1. r \in 1..Len(runs)
    BY <1>10, <1>11
  <2> QED
    BY <1>0, <1>11, <2>1, StatusWritten
<1>1. CASE ExecStarts(r)
  <2>1. ExecType'
    BY <1>0, <1>1, GoesType DEF ExecStarts
  <2> QED
    BY <1>1, <2>1 DEF ExecStarts, TypeOK, ExecType
<1>2. CASE ExecBinds(r)
  <2> DEFINE c == exec[r].copy
  <2>1. ExecType'
    BY <1>0, <1>2, GoesType DEF ExecBinds
  <2>2. c \in Copies
    BY <1>0, <1>2 DEF ExecBinds, ExecType
  <2>3. c.task \in Tasks /\ c.row \in Row
    BY <2>2 DEF Copies
  <2>4. [c.row EXCEPT !.bound = TRUE] \in Row
    BY <2>3 DEF Row
  <2>5. row' \in [Tasks -> Row]
    BY <1>2, <2>3, <2>4 DEF ExecBinds, TypeOK
  <2>6. faults' \in 0..MaxFaults
    BY <1>2, FaultType DEF ExecBinds, TypeOK
  <2> QED
    BY <1>2, <2>1, <2>5, <2>6 DEF ExecBinds, TypeOK, ExecType
<1>3. CASE ExecPrompts(r)
  <2>1. ExecType'
    BY <1>0, <1>3, GoesType DEF ExecPrompts
  <2>2. runs' \in Seq(Run) /\ Len(runs') <= MaxRuns
    BY <1>3, <1>11 DEF ExecPrompts, Live
  <2>3. faults' \in 0..MaxFaults
    BY <1>3, FaultType DEF ExecPrompts, TypeOK
  <2>4. sent' \subseteq RunIds
    BY <1>3 DEF ExecPrompts, TypeOK
  <2> QED
    BY <1>3, <2>1, <2>2, <2>3, <2>4 DEF ExecPrompts, TypeOK, ExecType
<1>4. CASE ExecAnswered(r)
  <2>1. PICK ok \in BOOLEAN :
          exec' = [exec EXCEPT ![r] = [at |-> "settle", ok |-> ok, copy |-> NoTask]]
    BY <1>4 DEF ExecAnswered
  <2>2. [at |-> "settle", ok |-> ok, copy |-> NoTask] \in Exec
    BY DEF Exec
  <2>3. ExecType'
    BY <1>0, <2>1, <2>2 DEF ExecType
  <2> QED
    BY <1>4, <2>3 DEF ExecAnswered, TypeOK, ExecType
<1>12. ASSUME Live(r), Interrupted(r)
       PROVE  ExecType' /\ runs' \in Seq(Run) /\ Len(runs') <= MaxRuns
  <2>1. ExecType'
    BY <1>0, <1>12, GoneType DEF Interrupted
  <2>2. r \in 1..Len(runs)
    BY <1>10, <1>12
  <2> QED
    BY <1>0, <1>12, <2>1, <2>2, RowReaped DEF Interrupted
<1>5. CASE ExecSettles(r)
  <2>1. Live(r)
    BY <1>5 DEF ExecSettles, Live
  <2>2. ExecType'
    BY <1>0, <1>5, <1>12, <2>1, CleanupType DEF ExecSettles
  <2>3. runs' \in Seq(Run) /\ Len(runs') <= MaxRuns
    BY <1>5, <1>11, <1>12, <2>1 DEF ExecSettles
  <2>4. faults' \in 0..MaxFaults
    BY <1>5, FaultType DEF ExecSettles, TypeOK
  <2> QED
    BY <1>5, <2>2, <2>3, <2>4 DEF ExecSettles, TypeOK, ExecType
<1>6. CASE ExecLeaves(r)
  <2>1. ExecType'
    BY <1>0, <1>6, GoneType DEF ExecLeaves
  <2> QED
    BY <1>6, <2>1 DEF ExecLeaves, TypeOK, ExecType
<1>7. CASE ExecDropped(r)
  <2>1. faults' \in 0..MaxFaults
    BY <1>7, FaultType DEF ExecDropped, TypeOK
  <2> QED
    BY <1>7, <1>12, <2>1 DEF ExecDropped, TypeOK, ExecType
<1> QED
  BY <1>1, <1>2, <1>3, <1>4, <1>5, <1>6, <1>7 DEF ExecStep

\* Commands and the clock keep the types.
LEMMA ClientType ==
  ASSUME IInv,
         \/ \E t \in Tasks, op \in Commands : CommandReads(t, op)
         \/ CommandWrites \/ TimePasses
  PROVE  TypeOK'
<1> USE DEF IInv
<1>1. ASSUME NEW t \in Tasks, NEW op \in Commands, CommandReads(t, op) PROVE TypeOK'
  <2>1. [task |-> t, row |-> row[t]] \in Copies
    BY DEF TypeOK, Copies
  <2>2. client' \in [op : Commands \cup {"none"}, copy : Copies \cup {NoTask}]
        /\ client'.copy \in Copies
    BY <1>1, <2>1 DEF CommandReads
  <2>3. edits' \in 0..MaxEdits
    BY <1>1, TasksAssumption DEF CommandReads, TypeOK
  <2> QED
    BY <1>1, <2>2, <2>3 DEF CommandReads, TypeOK
<1>2. CASE CommandWrites
  <2>1. client.copy \in Copies /\ client.op \in Commands
    BY <1>2 DEF CommandWrites, TypeOK
  <2>2. client.copy.task \in Tasks /\ client.copy.row \in Row
    BY <2>1 DEF Copies
  <2>3. row' \in [Tasks -> Row]
    BY <1>2, <2>1, <2>2, ChangedType DEF CommandWrites, TypeOK
  <2>4. client' \in [op : Commands \cup {"none"}, copy : Copies \cup {NoTask}]
        /\ client'.op = "none"
    BY <1>2 DEF CommandWrites
  <2>5. faults' \in 0..MaxFaults
    BY <1>2, FaultType DEF CommandWrites, TypeOK
  <2> QED
    BY <1>2, <2>3, <2>4, <2>5 DEF CommandWrites, TypeOK
<1>3. CASE TimePasses
  BY <1>3, TasksAssumption DEF TimePasses, TypeOK
<1> QED
  BY <1>1, <1>2, <1>3

-----------------------------------------------------------------------------
\* The inductive invariant, action by action.

Safe == Carried /\ Reaping /\ Claiming /\ NoOverlap /\ Slots

\* As long as the ledger keeps its tasks and slots and no executor is added,
\* no overlap arises and no slot is repeated.
LEMMA NothingAdded ==
  ASSUME IInv, TypeOK', Len(runs') = Len(runs),
         \A i \in 1..Len(runs) :
           runs'[i].task = runs[i].task /\ runs'[i].due = runs[i].due,
         \A r \in RunIds : Working(r)' => Working(r),
         sent' \subseteq 1..Len(runs)
  PROVE  NoOverlap' /\ Slots'
<1>1. DOMAIN runs = 1..Len(runs) /\ DOMAIN runs' = 1..Len(runs)
  BY DEF IInv, TypeOK
<1>2. 1..Len(runs) \subseteq RunIds
  BY TasksAssumption DEF IInv, TypeOK, RunIds
<1>3. NoOverlap'
  BY <1>1, <1>2 DEF IInv, NoOverlap
<1>4. Slots'
  BY DEF IInv, Slots
<1> QED
  BY <1>3, <1>4

\* Nothing is claimed, carried or sent at the start.
LEMMA InitSafe == Init => Safe
<1> SUFFICES ASSUME Init PROVE Safe
  OBVIOUS
<1>1. runs = << >> /\ Len(runs) = 0 /\ sent = {} /\ DOMAIN runs = {}
  BY DEF Init
<1>2. \A r \in RunIds : ~Live(r) /\ ~Working(r)
  BY DEF Init, Live, Working, Gone
<1>3. host.at = "idle" /\ ~host.up /\ host.orphans = {}
  BY DEF Init, Down
<1> QED
  BY <1>1, <1>2, <1>3 DEF Safe, Carried, Reaping, Claiming, NoOverlap, Slots

\* No executor survives its process, so a restart may settle every row.
LEMMA HostActionsSafe ==
  ASSUME IInv, TypeOK', HostStarts \/ HostDies \/ StopAdmission \/ HostExits
  PROVE  Safe'
<1> USE DEF IInv
<1>0. host \in Host /\ runs \in Seq(Run) /\ host.instance \in 0..MaxHosts
  BY DEF TypeOK, Host
<1>1. CASE HostStarts
  <2>1. \A r \in RunIds : ~Live(r) /\ ~Live(r)' /\ ~Working(r)'
    BY <1>1 DEF HostStarts, Carried, Live, Working
  <2>2. /\ Len(runs') = Len(runs)
        /\ \A i \in 1..Len(runs) :
             runs'[i].task = runs[i].task /\ runs'[i].due = runs[i].due
    BY <1>0, <1>1, AllFailed DEF HostStarts
  <2>3. NoOverlap' /\ Slots'
    BY <1>1, <2>1, <2>2, NothingAdded DEF HostStarts, Slots
  <2>4. host'.at = "idle" /\ host'.orphans = {} /\ host'.instance # 0
    BY <1>0, <1>1, StartHost, TasksAssumption
  <2> QED
    BY <2>1, <2>3, <2>4 DEF Safe, Carried, Reaping, Claiming
<1>2. CASE HostDies \/ HostExits
  <2>1. \A r \in RunIds : ~Live(r)' /\ ~Working(r)'
    BY <1>2 DEF HostDies, HostExits, Live, Working, Gone
  <2>2. NoOverlap' /\ Slots'
    BY <1>2, <2>1, NothingAdded DEF HostDies, HostExits, Slots
  <2>3. host'.at = "idle" /\ host'.orphans = {} /\ ~host'.up
    BY <1>0, <1>2, DownHost DEF HostDies, HostExits
  <2> QED
    BY <2>1, <2>2, <2>3 DEF Safe, Carried, Reaping, Claiming
<1>3. CASE StopAdmission
  <2>1. /\ host'.up = host.up /\ host'.instance = host.instance /\ host'.at = host.at
        /\ host'.orphans = host.orphans /\ host'.list = host.list
    BY <1>0, <1>3, HostStopping DEF StopAdmission
  <2>2. runs' = runs /\ sent' = sent /\ exec' = exec
    BY <1>3 DEF StopAdmission
  <2>3. NoOverlap' /\ Slots'
    BY <2>2, NothingAdded DEF Slots, Working
  <2> QED
    BY <2>1, <2>2, <2>3 DEF Safe, Carried, Reaping, Claiming, Live, Working
<1> QED
  BY <1>1, <1>2, <1>3

\* Claiming and executors out of the picture: what a tick may do to the rest.
LEMMA TickMoves ==
  ASSUME IInv, TypeOK', UNCHANGED <<runs, exec, sent>>,
         host'.up = host.up, host'.instance = host.instance, host.up,
         host'.at # "advance",
         host'.orphans # {} => host'.at = "reap",
         \A r \in host'.orphans : r \in 1..Len(runs) /\ ~Live(r)
  PROVE  Safe'
<1>1. NoOverlap' /\ Slots'
  BY NothingAdded DEF IInv, Slots, Working
<1> QED
  BY <1>1 DEF IInv, Safe, Carried, Reaping, Claiming, Live, Working

\* The tick reaps no row that is carried, and claims a task nobody carries.
LEMMA TickSafe ==
  ASSUME IInv, TypeOK', Tick
  PROVE  Safe'
<1> USE DEF IInv
<1>0. /\ host \in Host /\ runs \in Seq(Run) /\ Len(runs) <= MaxRuns /\ ExecType
      /\ host.instance \in 0..MaxHosts /\ DOMAIN runs = 1..Len(runs) /\ Len(runs) \in Nat
  BY DEF TypeOK, ExecType, Host
<1>7. 1..Len(runs) \subseteq RunIds
  BY <1>0, TasksAssumption DEF RunIds
<1>8. CASE TickEnds /\ UNCHANGED <<runs, exec, sent>> /\ host.up
  BY <1>0, <1>8, TickEndsHost, TickMoves
<1>1. CASE TickBegins
  <2>1. PICK found \in {{r \in DOMAIN runs : Orphaned(r)}, {}} :
          host' = [host EXCEPT !.at = "reap", !.orphans = found]
    BY <1>1 DEF TickBegins
  <2>2. found \in SUBSET RunIds /\ \A r \in found : r \in 1..Len(runs) /\ Orphaned(r)
    BY <1>0, FoundRows
  <2>3. \A r \in found : ~Live(r)
    BY <2>2 DEF Orphaned, Carried
  <2>4. /\ host'.up = host.up /\ host'.instance = host.instance /\ host'.at = "reap"
        /\ host'.orphans = found
    BY <1>0, <2>1, <2>2, HostOrphans
  <2> QED
    BY <1>1, <2>2, <2>3, <2>4, TickMoves DEF TickBegins
<1>2. ASSUME NEW r \in RunIds, TickReaps(r) PROVE Safe'
  <2>1. host.orphans \ {r} \in SUBSET RunIds
    BY <1>0 DEF Host
  <2>2. /\ host'.up = host.up /\ host'.instance = host.instance /\ host'.at = host.at
        /\ host'.orphans = host.orphans \ {r}
    BY <1>0, <1>2, <2>1, HostReaps DEF TickReaps
  <2>3. r \in 1..Len(runs) /\ ~Live(r) /\ host.at = "reap"
    BY <1>2 DEF TickReaps, Reaping
  <2>4. /\ Len(runs') = Len(runs)
        /\ \A i \in 1..Len(runs) :
              /\ runs'[i].task = runs[i].task /\ runs'[i].due = runs[i].due
              /\ runs'[i].owner = runs[i].owner
              /\ i # r => runs'[i].status = runs[i].status
    BY <1>0, <1>2, <2>3, RowReaped DEF TickReaps
  <2>5. exec' = exec /\ sent' = sent
    BY <1>2 DEF TickReaps
  <2>6. NoOverlap' /\ Slots'
    BY <2>4, <2>5, NothingAdded DEF Working, Slots
  <2>7. Carried'
    BY <2>2, <2>3, <2>4, <2>5 DEF Carried, Live, Working
  <2>8. Reaping' /\ Claiming'
    BY <2>2, <2>3, <2>4, <2>5 DEF Reaping, Claiming, Live, Working
  <2> QED
    BY <2>6, <2>7, <2>8 DEF Safe
<1>3. CASE TickLists
  <2>1. host.up /\ UNCHANGED <<runs, exec, sent>> /\ host.orphans = {}
    BY <1>3 DEF TickLists, Reaping
  <2>2. ASSUME NEW l \in ListDueTasks, host' = [host EXCEPT !.at = "claim", !.list = l]
        PROVE  Safe'
    <3>1. l \in Seq(Copies)
      BY ListType DEF TypeOK
    <3>2. /\ host'.up = host.up /\ host'.instance = host.instance /\ host'.at = "claim"
          /\ host'.orphans = host.orphans
      BY <1>0, <2>2, <3>1, HostList
    <3> QED
      BY <2>1, <3>2, TickMoves
  <2> QED
    BY <1>3, <1>8, <2>1, <2>2 DEF TickLists
<1>4. CASE TickSkips
  <2>1. host.up /\ UNCHANGED <<runs, exec, sent>> /\ host.orphans = {} /\ host.at = "claim"
    BY <1>4 DEF TickSkips, Reaping
  <2>2. CASE ~(host.list = <<>> \/ host.stopping)
    <3>1. Tail(host.list) \in Seq(Copies)
      BY <1>0, <2>2, HeadCopy
    <3>2. host' = [host EXCEPT !.list = Tail(host.list)]
      BY <1>4, <2>2 DEF TickSkips
    <3>3. /\ host'.up = host.up /\ host'.instance = host.instance /\ host'.at = host.at
          /\ host'.orphans = host.orphans
      BY <1>0, <3>1, <3>2, HostSkips
    <3> QED
      BY <2>1, <3>3, TickMoves
  <2> QED
    BY <1>4, <1>8, <2>1, <2>2 DEF TickSkips
<1>5. CASE ClaimInserts
  <2> DEFINE c == Head(host.list)
             due == ClaimDue(c.row)
  <2>1. host.up /\ host.orphans = {} /\ host.at = "claim" /\ host.list # << >>
        /\ UNCHANGED <<exec, sent>> /\ ~HasRunningRun(c.task)
    BY <1>5 DEF ClaimInserts, Reaping
  <2>2. CASE TickEnds /\ UNCHANGED runs
    BY <1>8, <2>1, <2>2
  <2>3. CASE /\ ~SlotTaken(c.task, due)
             /\ Len(runs) < MaxRuns
             /\ runs' = Append(runs, [task |-> c.task, due |-> due,
                                      status |-> "running", owner |-> host.instance])
             /\ host' = [host EXCEPT !.at = "advance"]
    <3>1. /\ host'.up = host.up /\ host'.instance = host.instance /\ host'.at = "advance"
          /\ host'.orphans = host.orphans /\ host'.list = host.list
      BY <1>0, <2>3, HostAt
    <3>2. c.task \in Tasks /\ due \in 0..MaxTime
      BY <1>0, <2>1, HeadCopy
    <3>3. host.instance \in 1..MaxHosts
      BY <1>0, <2>1, TasksAssumption DEF Reaping
    <3> HIDE DEF due
    <3>4. /\ Len(runs') = Len(runs) + 1
          /\ \A i \in 1..Len(runs) : runs'[i] = runs[i]
          /\ runs'[Len(runs')] = [task |-> c.task, due |-> due, status |-> "running",
                                  owner |-> host.instance]
      BY <1>0, <2>3, <3>2, <3>3, RowInserted
    <3>5. \A r \in RunIds : Working(r) => r \in 1..Len(runs) /\ runs[r].task # c.task
      BY <1>0, <2>1 DEF Carried, HasRunningRun, Live, Working
    <3>6. Carried'
      BY <1>0, <2>1, <3>1, <3>4 DEF Carried, Live, Working
    <3>7. Reaping'
      BY <2>1, <3>1, <3>4 DEF Reaping
    <3>8. Claiming'
      BY <1>0, <2>1, <3>1, <3>4, <3>5 DEF Claiming, Working
    <3>9. DOMAIN runs' = 1..Len(runs') /\ 1..Len(runs') \subseteq RunIds
      BY TasksAssumption DEF TypeOK, RunIds
    <3>10. NoOverlap'
      BY <1>0, <1>7, <2>1, <3>4, <3>5, <3>9 DEF NoOverlap, Working
    <3>11. \A i \in 1..Len(runs) :
             runs[i].task = c.task /\ runs[i].due = due /\ due # 0 => FALSE
      BY <1>0, <2>3 DEF SlotTaken
    <3>12. Slots'
      <4>1. sent' \subseteq 1..Len(runs')
        BY <1>0, <2>1, <3>4 DEF Slots
      <4>2. runs'[Len(runs')].task = c.task /\ runs'[Len(runs')].due = due
        BY <3>4
      <4>3. \A r \in 1..Len(runs') : r \in 1..Len(runs) \/ r = Len(runs')
        BY <1>0, <3>4
      <4> HIDE DEF c
      <4> QED
        BY <3>4, <3>11, <4>1, <4>2, <4>3 DEF Slots
    <3> QED
      BY <3>6, <3>7, <3>8, <3>10, <3>12 DEF Safe
  <2> QED
    BY <1>5, <2>2, <2>3 DEF ClaimInserts
<1>6. CASE ClaimAdvances
  <2> DEFINE n == Len(runs)
             e == [at |-> "start", ok |-> FALSE, copy |-> Head(host.list)]
  <2>1. /\ host.up /\ host.orphans = {} /\ runs' = runs /\ sent' = sent
        /\ host.list # << >> /\ n # 0 /\ n \in RunIds
    BY <1>0, <1>6, TasksAssumption DEF ClaimAdvances, Reaping, Claiming, RunIds
  <2>2. /\ runs[n].task = Head(host.list).task /\ runs[n].status = "running"
        /\ runs[n].owner = host.instance
        /\ \A r \in RunIds : Working(r) => runs[r].task # Head(host.list).task
    BY <1>6 DEF ClaimAdvances, Claiming
  <2>3. CASE TickEnds /\ UNCHANGED exec
    BY <1>8, <2>1, <2>3
  <2>4. CASE /\ exec' = [exec EXCEPT ![n] = e]
             /\ host' = [host EXCEPT !.at = "claim", !.list = Tail(host.list)]
    <3>1. Tail(host.list) \in Seq(Copies)
      BY <1>0, <2>1, HeadCopy
    <3>2. /\ host'.up = host.up /\ host'.instance = host.instance /\ host'.at = "claim"
          /\ host'.orphans = host.orphans
      BY <1>0, <2>4, <3>1, HostList
    <3>3. /\ exec'[n].at = "start"
          /\ \A r \in RunIds : r # n => exec'[r] = exec[r]
      BY <1>0, <2>1, <2>4 DEF ExecType
    <3>4. n \in 1..Len(runs)
      BY <1>0, <2>1
    <3> HIDE DEF n
    <3>5. Carried'
      BY <2>1, <2>2, <3>2, <3>3, <3>4 DEF Carried, Live, Working
    <3>6. Reaping' /\ Claiming'
      BY <2>1, <3>2 DEF Reaping, Claiming
    <3>7. NoOverlap'
      BY <1>0, <1>7, <2>1, <2>2, <3>3 DEF NoOverlap, Working
    <3>8. Slots'
      BY <2>1 DEF Slots
    <3> QED
      BY <3>5, <3>6, <3>7, <3>8 DEF Safe
  <2> QED
    BY <1>6, <2>3, <2>4 DEF ClaimAdvances
<1> QED
  BY <1>1, <1>2, <1>3, <1>4, <1>5, <1>6 DEF Tick

\* An executor's step: the executor goes on or leaves, and its row runs for as
\* long as it works on it.
LEMMA ExecMoves ==
  ASSUME IInv, TypeOK', NEW r \in RunIds, Live(r), host' = host,
         \A q \in RunIds : q # r => exec'[q] = exec[q],
         NEW status \in {"running", "completed", "failed"},
         runs' = [runs EXCEPT ![r].status = status] \/ runs' = runs,
         Working(r)' => Working(r),
         Live(r)' => (runs'[r].status = "running" <=> Working(r)'),
         sent' \subseteq sent \cup {r}
  PROVE  Safe'
<1> USE DEF IInv
<1>0. /\ runs \in Seq(Run) /\ Len(runs) <= MaxRuns /\ Len(runs) \in Nat
      /\ r \in 1..Len(runs)
  BY DEF TypeOK, Carried
<1>1. /\ Len(runs') = Len(runs)
      /\ \A i \in 1..Len(runs) :
           /\ runs'[i].task = runs[i].task /\ runs'[i].due = runs[i].due
           /\ runs'[i].owner = runs[i].owner
           /\ i # r => runs'[i].status = runs[i].status
  BY <1>0, StatusWritten
<1>2. \A q \in RunIds : (Live(q)' => Live(q)) /\ (Working(q)' => Working(q))
  BY DEF Live, Working
<1>3. NoOverlap' /\ Slots'
  BY <1>0, <1>1, <1>2, NothingAdded DEF Slots
<1>4. Carried'
  <2>1. ASSUME NEW q \in RunIds, Live(q)', q # r
        PROVE  runs'[q].status = "running" <=> Working(q)'
    BY <1>1, <1>2, <2>1 DEF Carried, Working
  <2> QED
    BY <1>1, <1>2, <2>1 DEF Carried
<1>5. Reaping'
  BY <1>1, <1>2, TasksAssumption DEF Reaping, TypeOK, RunIds
<1>6. host.at = "advance" => r # Len(runs)
  BY DEF Claiming, Carried
<1>7. Claiming'
  <2> SUFFICES ASSUME host.at = "advance" PROVE Claiming'
    BY DEF Claiming
  <2> DEFINE n == Len(runs)
             t == Head(host.list).task
  <2>1. /\ host.list # << >> /\ n # 0 /\ runs[n].task = t /\ runs[n].status = "running"
        /\ runs[n].owner = host.instance
        /\ \A q \in RunIds : Working(q) => q \in 1..n /\ runs[q].task # t
    BY DEF Claiming, Carried, Live, Working
  <2>2. n \in 1..n /\ n # r
    BY <1>0, <1>6, <2>1
  <2>3. runs'[n].task = t /\ runs'[n].status = "running" /\ runs'[n].owner = host.instance
    BY <1>1, <2>1, <2>2
  <2>4. \A q \in RunIds : Working(q)' => runs'[q].task # t
    BY <1>1, <1>2, <2>1
  <2> QED
    BY <1>1, <2>1, <2>3, <2>4 DEF Claiming
<1> QED
  BY <1>3, <1>4, <1>5, <1>7 DEF Safe

\* Every step of an executor is a move of it or its end.
LEMMA ExecSafe ==
  ASSUME IInv, TypeOK', NEW r \in RunIds, ExecStep(r) \/ ExecAnswered(r)
  PROVE  Safe'
<1>0. ExecType /\ runs \in Seq(Run)
  BY DEF IInv, TypeOK, ExecType
<1>10. ASSUME Working(r)
       PROVE  Live(r) /\ r \in 1..Len(runs) /\ runs[r].status = "running"
  BY <1>10 DEF IInv, Carried, Live, Working
<1>1. CASE ExecStarts(r)
  <2>1. /\ Working(r) /\ Working(r)'
        /\ \A q \in RunIds : q # r => exec'[q] = exec[q]
    BY <1>0, <1>1, GoesType DEF ExecStarts, Working
  <2> QED
    BY <1>1, <1>10, <2>1, ExecMoves DEF ExecStarts
<1>2. CASE ExecBinds(r)
  <2>1. /\ Working(r) /\ Working(r)'
        /\ \A q \in RunIds : q # r => exec'[q] = exec[q]
    BY <1>0, <1>2, GoesType DEF ExecBinds, Working
  <2> QED
    BY <1>2, <1>10, <2>1, ExecMoves DEF ExecBinds
<1>3. CASE ExecPrompts(r)
  <2>1. /\ Working(r) /\ Working(r)'
        /\ \A q \in RunIds : q # r => exec'[q] = exec[q]
    BY <1>0, <1>3, GoesType DEF ExecPrompts, Working
  <2>2. runs' = [runs EXCEPT ![r].status = "running"] \/ runs' = runs
    BY <1>3 DEF ExecPrompts
  <2>3. runs'[r].status = "running"
    BY <1>0, <1>10, <2>1, <2>2, StatusWritten
  <2> QED
    BY <1>3, <1>10, <2>1, <2>2, <2>3, ExecMoves DEF ExecPrompts
<1>4. CASE ExecAnswered(r)
  <2>1. /\ Working(r) /\ Working(r)'
        /\ \A q \in RunIds : q # r => exec'[q] = exec[q]
    BY <1>0, <1>4 DEF ExecAnswered, Working, ExecType
  <2> QED
    BY <1>4, <1>10, <2>1, ExecMoves DEF ExecAnswered
<1>5. ASSUME Live(r), Interrupted(r), host' = host, sent' = sent PROVE Safe'
  <2>1. r \in 1..Len(runs)
    BY <1>5 DEF IInv, Carried
  <2>2. /\ ~Live(r)' /\ ~Working(r)'
        /\ \A q \in RunIds : q # r => exec'[q] = exec[q]
    BY <1>0, <1>5, GoneType DEF Interrupted, Live, Working
  <2>3. PICK st \in {"running", "completed", "failed"} :
          runs' = [runs EXCEPT ![r].status = st] \/ runs' = runs
    BY <1>0, <1>5, <2>1, SettledStatus DEF Interrupted
  <2> QED
    BY <1>5, <2>2, <2>3, ExecMoves
<1>6. CASE ExecSettles(r)
  <2> DEFINE st == IF exec[r].ok THEN "completed" ELSE "failed"
  <2>1. Working(r)
    BY <1>6 DEF ExecSettles, Working
  <2>2. CASE /\ runs' = [runs EXCEPT ![r].status = st]
             /\ exec' = [exec EXCEPT ![r] = [Gone EXCEPT !.at = "cleanup"]]
    <3>1. /\ ~Working(r)'
          /\ \A q \in RunIds : q # r => exec'[q] = exec[q]
      BY <1>0, <2>2, CleanupType DEF Working
    <3>2. st \in {"running", "completed", "failed"} /\ st # "running"
      OBVIOUS
    <3> HIDE DEF st
    <3>3. runs'[r].status # "running"
      BY <1>0, <1>10, <2>1, <2>2, <3>2, StatusWritten
    <3> QED
      BY <1>6, <1>10, <2>1, <2>2, <3>1, <3>2, <3>3, ExecMoves DEF ExecSettles
  <2> QED
    BY <1>5, <1>6, <1>10, <2>1, <2>2 DEF ExecSettles
<1>7. CASE ExecLeaves(r)
  <2>1. /\ Live(r) /\ ~Live(r)' /\ ~Working(r)'
        /\ \A q \in RunIds : q # r => exec'[q] = exec[q]
    BY <1>0, <1>7, GoneType DEF ExecLeaves, Live, Working
  <2> QED
    BY <1>7, <2>1, ExecMoves DEF ExecLeaves
<1>8. CASE ExecDropped(r)
  BY <1>5, <1>8 DEF ExecDropped
<1> QED
  BY <1>1, <1>2, <1>3, <1>4, <1>6, <1>7, <1>8 DEF ExecStep

\* Whatever leaves the ledger, the host and the executors alone.
LEMMA Unmoved ==
  ASSUME IInv, TypeOK', UNCHANGED <<runs, host, exec, sent>>
  PROVE  Safe'
<1>1. NoOverlap' /\ Slots'
  BY NothingAdded DEF IInv, Slots, Working
<1> QED
  BY <1>1 DEF IInv, Safe, Carried, Reaping, Claiming, Live, Working

\* Every step keeps the invariant.
LEMMA InvStep ==
  ASSUME IInv, [Next]_vars
  PROVE  IInv'
<1>1. CASE HostStarts \/ HostDies \/ StopAdmission \/ HostExits
  BY <1>1, HostActionsType, HostActionsSafe DEF IInv, Safe
<1>2. CASE Tick
  BY <1>2, TickType, TickSafe DEF IInv, Safe
<1>3. ASSUME NEW r \in RunIds, ExecStep(r) \/ ExecAnswered(r) PROVE IInv'
  BY <1>3, ExecStepType, ExecSafe DEF IInv, Safe
<1>4. CASE \/ \E t \in Tasks, op \in Commands : CommandReads(t, op)
           \/ CommandWrites \/ TimePasses
  <2>1. UNCHANGED <<runs, host, exec, sent>>
    BY <1>4 DEF CommandReads, CommandWrites, TimePasses
  <2> QED
    BY <1>4, <2>1, ClientType, Unmoved DEF IInv, Safe
<1>5. CASE UNCHANGED vars
  <2>1. TypeOK' /\ UNCHANGED <<runs, host, exec, sent>>
    BY <1>5 DEF vars, IInv, TypeOK
  <2> QED
    BY <2>1, Unmoved DEF IInv, Safe
<1> QED
  BY <1>1, <1>2, <1>3, <1>4, <1>5 DEF Next

\* The invariant the results rest on, for every number of tasks, slots, runs,
\* commands, failing writes and restarts.
THEOREM TasksInvariant == Spec => []IInv
<1>1. Init => IInv
  BY InitType, InitSafe DEF IInv, Safe
<1>2. IInv /\ [Next]_vars => IInv'
  BY InvStep
<1> QED
  BY <1>1, <1>2, PTL DEF Spec

\* Every row, ledger entry and copy keeps its columns (store.rs, tasks.rs):
\* whoever writes a task's row back has a row to write.
THEOREM TasksTypeCorrect == Spec => []TypeOK
<1>1. IInv => TypeOK
  BY DEF IInv
<1> QED
  BY <1>1, TasksInvariant, PTL

\* No two runs of a task are carried out at once, from the claim to the write
\* of the outcome, whatever writes fail and whenever the host dies, stops or
\* restarts (tasks.rs, tick).
THEOREM NoOverlapHolds == Spec => []NoOverlap
<1>1. IInv => NoOverlap
  BY DEF IInv
<1> QED
  BY <1>1, TasksInvariant, PTL

\* A slot's prompt is sent at most once, whatever copies of the task's row
\* are written back (store.rs, UNIQUE(task_id, due_at)).
THEOREM SlotOnceHolds == Spec => []SlotOnce
<1>1. IInv => SlotOnce
  BY DEF IInv, Slots, SlotOnce
<1> QED
  BY <1>1, TasksInvariant, PTL
=============================================================================
