----------------------- MODULE SessionScheduler_proofs -----------------------
(***************************************************************************)
(* Proofs about SessionScheduler for every number of runs and every order  *)
(* of prompts, cancellations, faults and restarts.                         *)
(***************************************************************************)
EXTENDS SessionScheduler, WellFoundedInduction, TLAPS

Memory ==
  [queued : SUBSET Runs, held : SUBSET Runs, coalescing : SUBSET Runs,
   active : Runs \cup {NoRun}, snapshots : SUBSET Runs,
   run : Runs \cup {NoRun}, phase : {"idle", "running", "faulted"},
   failed : BOOLEAN, wakes : Seq(Runs)]

Store == [receipt : [Runs -> ReceiptStates], journal : [Runs -> JournalStates]]

Types ==
  /\ m \in Memory /\ store \in Store
  /\ next \in 1..(MaxRuns + 1)
  /\ pending \subseteq Runs /\ refused \subseteq Runs
  /\ lock \in {"free", "worker"}
  /\ storeFaults \in BOOLEAN
  /\ m.phase = "idle" <=> m.run = NoRun

\* The scheduler's row of the run outlives the run itself, up to the
\* completion that names it: no completion of this run is under way before
\* it ends.
Lease ==
  /\ m.phase # "idle" => m.active = m.run
  /\ m.phase # "idle" =>
       /\ store.journal[m.run] # "none"
       /\ m.run \notin pending /\ \A i \in 1..Len(m.wakes) : m.wakes[i] # m.run
  /\ \A r \in pending : store.journal[r] # "none"
  /\ \A i \in 1..Len(m.wakes) : store.journal[m.wakes[i]] # "none"

\* A waiting prompt has its receipt, and nothing else is on record of it.
Waits ==
  \A r \in m.queued :
    r < next /\ store.journal[r] = "none" /\ store.receipt[r] = "queued"

\* Of a prompt to come there is nothing.
Unseen ==
  \A r \in Runs : r >= next =>
    store.journal[r] = "none" /\ store.receipt[r] = "none"

IInv ==
  /\ Types /\ Lease /\ Waits /\ Unseen
  /\ OneOpenRun /\ NothingStranded /\ NothingLost

-----------------------------------------------------------------------------
(* The queue's front.                                                      *)

\* A set of numbers has a least one.
LEMMA LeastElement ==
  ASSUME NEW S \in SUBSET Nat, S # {}
  PROVE  \E x \in S : \A y \in S : x <= y
<1>1. PICK x \in S : \A y \in S : ~(<<y, x>> \in OpToRel(<, Nat))
  BY NatLessThanWellFounded, WFMin, Zenon
<1>2. \A y \in S : ~(y < x)
  BY <1>1 DEF OpToRel
<1> QED
  BY <1>2

\* The front is one of the waiting runs.
LEMMA FrontWaits ==
  ASSUME NEW S \in SUBSET Runs, S # {}
  PROVE  Min(S) \in S
<1>1. S \in SUBSET Nat
  BY ConstantsAssumption DEF Runs
<1> QED
  BY <1>1, LeastElement DEF Min

-----------------------------------------------------------------------------
(* The store.                                                              *)

\* Something is on record of r that the next process would find.
Tracked(st, r) ==
  st.journal[r] # "none" \/ st.receipt[r] \in {"queued", "cancel_requested", "merged"}

\* What cancelling the receipts of `runs' and finishing cancelled ones keeps.
Keeps(st, st2, runs) ==
  /\ st2 \in Store
  /\ \A r \in Runs :
       /\ st.journal[r] # "none" => st2.journal[r] = st.journal[r]
       /\ st2.journal[r] = "open" => st.journal[r] = "open"
       /\ st.receipt[r] = "none" \/ (st.receipt[r] = "queued" /\ r \notin runs) =>
            st2.receipt[r] = st.receipt[r] /\ st2.journal[r] = st.journal[r]
       /\ Tracked(st, r) => Tracked(st2, r)

\* Nothing done keeps everything, and one keeping after another is one.
LEMMA KeepsNothing ==
  ASSUME NEW st \in Store, NEW runs
  PROVE  Keeps(st, st, runs)
BY DEF Keeps

\* One after the other.
LEMMA KeepsBoth ==
  ASSUME NEW s1 \in Store, NEW s2, NEW s3, NEW runs,
         Keeps(s1, s2, runs), Keeps(s2, s3, runs)
  PROVE  Keeps(s1, s3, runs)
BY DEF Keeps, Tracked, Store

\* cancel_queued_receipts.
LEMMA CancelKeeps ==
  ASSUME NEW st \in Store, NEW runs
  PROVE  Keeps(st, CancelQueuedReceipts(st, runs), runs)
<1> DEFINE new == CancelQueuedReceipts(st, runs)
<1>1. /\ new.journal = st.journal
      /\ new.receipt = [r \in Runs |->
           IF r \in runs /\ st.receipt[r] = "queued" THEN "cancel_requested"
           ELSE st.receipt[r]]
      /\ new \in Store
  BY DEF CancelQueuedReceipts, Store, ReceiptStates
<1>2. \A r \in Runs :
        /\ new.journal[r] = st.journal[r]
        /\ new.receipt[r] = IF r \in runs /\ st.receipt[r] = "queued"
                            THEN "cancel_requested" ELSE st.receipt[r]
  BY <1>1
<1> HIDE DEF new
<1>3. Keeps(st, new, runs)
  BY <1>1, <1>2 DEF Keeps, Tracked
<1> QED
  BY <1>3 DEF new

\* recover_queued_receipts.
LEMMA RecoverFields ==
  ASSUME NEW st \in Store, NEW states
  PROVE  /\ RecoverReceipts(st, states) \in Store
         /\ \A r \in Runs :
              IF st.receipt[r] \in states
              THEN /\ RecoverReceipts(st, states).receipt[r] \in
                        {"started", "cancelled", "interrupted"}
                   /\ RecoverReceipts(st, states).journal[r] =
                        IF st.journal[r] = "none" THEN "unstarted" ELSE st.journal[r]
              ELSE /\ RecoverReceipts(st, states).receipt[r] = st.receipt[r]
                   /\ RecoverReceipts(st, states).journal[r] = st.journal[r]
BY DEF RecoverReceipts, Store, ReceiptStates, JournalStates

\* finish_cancelled_receipts.
LEMMA FlushKeeps ==
  ASSUME NEW mem, NEW st \in Store, NEW runs
  PROVE  Keeps(st, FlushWhenIdle(mem, st), runs)
<1>1. Keeps(st, RecoverReceipts(st, {"cancel_requested"}), runs)
  BY RecoverFields DEF Keeps, Tracked
<1> QED
  BY <1>1, KeepsNothing DEF FlushWhenIdle

\* append_run_start.
LEMMA StartFields ==
  ASSUME NEW st \in Store, NEW r \in Runs, NEW merged \in SUBSET Runs
  PROVE  /\ AppendRunStart(st, r, merged) \in Store
         /\ \A x \in Runs :
              /\ AppendRunStart(st, r, merged).journal[x] =
                   IF x = r THEN "open"
                   ELSE IF st.journal[x] = "open" THEN "closed" ELSE st.journal[x]
              /\ AppendRunStart(st, r, merged).receipt[x] =
                   IF x \in merged THEN "merged"
                   ELSE IF x = r /\ st.receipt[x] # "none" THEN "started"
                   ELSE st.receipt[x]
BY DEF AppendRunStart, Store, ReceiptStates, JournalStates

-----------------------------------------------------------------------------
(* Starting the front of the queue.                                        *)

\* A start that succeeded: the front runs and the folded rows are gone.
StartsRun(mem, st, o, front) ==
  \E folded \in SUBSET (mem.queued \ {front}) :
    /\ o.ok /\ mem.phase = "idle" /\ mem.active = NoRun
    /\ o.m \in Memory
    /\ o.m.queued = mem.queued \ ({front} \cup folded)
    /\ o.m.held = mem.held /\ o.m.wakes = mem.wakes
    /\ o.m.active = front /\ o.m.run = front /\ o.m.phase = "running"
    /\ o.st = AppendRunStart(st, front, folded)

\* A start that failed: some rows are gone, and only theirs or the front's
\* receipts were touched.
FailsToStart(mem, st, o, front) ==
  \E gone \in SUBSET mem.queued :
    /\ ~o.ok
    /\ o.m \in Memory
    /\ o.m.queued \subseteq mem.queued
    /\ mem.queued \ gone \subseteq o.m.queued
    /\ o.m.queued \cap gone \subseteq {front}
    /\ o.m.held = mem.held /\ o.m.wakes = mem.wakes
    /\ o.m.active = mem.active /\ o.m.run = mem.run /\ o.m.phase = mem.phase
    /\ Keeps(st, o.st, gone)

\* prompt_internal begins a run, or leaves the runtime as it was.
LEMMA PromptFields ==
  ASSUME NEW mem \in Memory, NEW st \in Store, NEW front \in mem.queued, NEW folded,
         NEW o \in PromptInternal(mem, st, front, folded)
  PROVE  \/ /\ o.ok /\ mem.phase = "idle" /\ mem.active = NoRun
            /\ o.m \in Memory /\ o.m.queued = mem.queued \ {front}
            /\ o.m.held = mem.held /\ o.m.wakes = mem.wakes
            /\ o.m.active = front /\ o.m.run = front /\ o.m.phase = "running"
            /\ o.st = AppendRunStart(st, front, folded)
         \/ /\ ~o.ok
            /\ o.m \in Memory /\ o.m.queued \in {mem.queued, mem.queued \ {front}}
            /\ o.m.held = mem.held /\ o.m.wakes = mem.wakes
            /\ o.m.active = mem.active /\ o.m.run = mem.run
            /\ o.m.phase = mem.phase
<1> DEFINE begun == [mem EXCEPT !.queued = @ \ {front}]
           run == [begun EXCEPT !.active = front, !.run = front, !.phase = "running"]
<1>1. /\ begun \in Memory /\ begun.queued = mem.queued \ {front}
      /\ begun.held = mem.held /\ begun.wakes = mem.wakes
      /\ begun.active = mem.active /\ begun.run = mem.run
      /\ begun.phase = mem.phase
  BY DEF Memory
<1>2. /\ run \in Memory /\ run.queued = begun.queued
      /\ run.held = begun.held /\ run.wakes = begun.wakes
      /\ run.active = front /\ run.run = front /\ run.phase = "running"
  BY <1>1 DEF Memory
<1>3. \/ o = Failure(mem, st)
      \/ /\ mem.phase = "idle" /\ mem.active = NoRun
         /\ \/ o = [m |-> run, st |-> AppendRunStart(st, front, folded), ok |-> TRUE]
            \/ o = Failure(begun, st)
  BY DEF PromptInternal
<1> HIDE DEF begun, run
<1> QED
  BY <1>1, <1>2, <1>3 DEF Failure

\* The stores a failed activation leaves: the receipts of the rows it took are
\* cancelled and finished, or not.
LEMMA ClosingsKeep ==
  ASSUME NEW mem, NEW st \in Store, NEW rows,
         NEW x \in Attempt(st, CancelQueuedReceipts(st, rows)),
         NEW y \in Attempt(x, FlushWhenIdle(mem, x))
  PROVE  Keeps(st, y, rows)
<1>1. Keeps(st, x, rows)
  BY CancelKeeps, KeepsNothing DEF Attempt
<1>2. x \in Store
  BY <1>1 DEF Keeps
<1>3. Keeps(x, y, rows)
  BY <1>2, FlushKeeps, KeepsNothing DEF Attempt
<1> QED
  BY <1>1, <1>3, KeepsBoth

\* Activating the front with the rows folded into it.
LEMMA ActivationOutcome ==
  ASSUME NEW mem \in Memory, NEW st \in Store, NEW front \in mem.queued,
         NEW folded \in SUBSET (mem.queued \ {front}),
         NEW o \in Activation(mem, st, front, folded)
  PROVE  StartsRun(mem, st, o, front) \/ FailsToStart(mem, st, o, front)
<1> DEFINE affected == {front} \cup folded
           taken == [mem EXCEPT !.queued = @ \ folded, !.snapshots = @ \ affected]
           results == IF affected \cap mem.snapshots = {}
                      THEN {Failure(taken, st)}
                      ELSE PromptInternal(taken, st, front, folded)
           closings == UNION {Attempt(x, FlushWhenIdle(mem, x)) :
                                x \in Attempt(st, CancelQueuedReceipts(st, affected))}
<1>1. /\ taken \in Memory /\ taken.queued = mem.queued \ folded
      /\ taken.held = mem.held /\ taken.wakes = mem.wakes
      /\ taken.active = mem.active /\ taken.run = mem.run
      /\ taken.phase = mem.phase
  BY DEF Memory
<1>2. \A c \in closings : Keeps(st, c, affected)
  BY ClosingsKeep
<1>4. front \in taken.queued
  BY <1>1
<1>7. o \in {x \in results : x.ok}
           \cup {Failure(x, c) : x \in {z.m : z \in {y \in results : ~y.ok}},
                                 c \in closings}
  BY DEF Activation
<1> HIDE DEF taken, closings
<1>3. \/ o \in results /\ o.ok
      \/ \E y \in results, c \in closings : ~y.ok /\ o = Failure(y.m, c)
  <2> HIDE DEF results
  <2> QED
    BY <1>7
<1>5. CASE o \in results /\ o.ok
  <2>1. o \in PromptInternal(taken, st, front, folded)
    BY <1>5 DEF Failure
  <2>2. /\ mem.phase = "idle" /\ mem.active = NoRun
        /\ o.m \in Memory /\ o.m.queued = taken.queued \ {front}
        /\ o.m.held = mem.held /\ o.m.wakes = mem.wakes
        /\ o.m.active = front /\ o.m.run = front /\ o.m.phase = "running"
        /\ o.st = AppendRunStart(st, front, folded)
    BY <1>1, <1>4, <1>5, <2>1, PromptFields
  <2>3. o.m.queued = mem.queued \ ({front} \cup folded)
    BY <1>1, <2>2
  <2> QED
    BY <1>5, <2>2, <2>3 DEF StartsRun
<1>6. CASE \E y \in results, c \in closings : ~y.ok /\ o = Failure(y.m, c)
  <2>1. PICK y \in results, c \in closings : ~y.ok /\ o = Failure(y.m, c)
    BY <1>6
  <2>2. /\ y.m \in Memory /\ y.m.queued \in {taken.queued, taken.queued \ {front}}
        /\ y.m.held = mem.held /\ y.m.wakes = mem.wakes
        /\ y.m.active = mem.active /\ y.m.run = mem.run /\ y.m.phase = mem.phase
    <3>1. CASE y = Failure(taken, st)
      BY <1>1, <3>1 DEF Failure
    <3>2. CASE y \in PromptInternal(taken, st, front, folded)
      BY <1>1, <1>4, <2>1, <3>2, PromptFields
    <3> QED
      BY <3>1, <3>2
  <2>3. ~o.ok /\ o.m = y.m /\ o.st = c
    BY <2>1 DEF Failure
  <2>4. affected \in SUBSET mem.queued
    OBVIOUS
  <2>5. Keeps(st, o.st, affected)
    BY <1>2, <2>3
  <2>6. /\ o.m.queued \subseteq mem.queued
        /\ mem.queued \ affected \subseteq o.m.queued
        /\ o.m.queued \cap affected \subseteq {front}
    BY <1>1, <2>2, <2>3
  <2> QED
    BY <2>2, <2>3, <2>4, <2>5, <2>6 DEF FailsToStart
<1> QED
  BY <1>3, <1>5, <1>6

\* start_next_scheduled_at with something to start and nothing to park.
LEMMA StartNextOutcome ==
  ASSUME NEW mem \in Memory, NEW st \in Store, NEW fresh, NEW boundary,
         mem.queued # {}, boundary # "idle" \/ mem.queued \subseteq fresh,
         NEW o \in StartNext(mem, st, fresh, boundary)
  PROVE  \/ StartsRun(mem, st, o, Min(mem.queued))
         \/ FailsToStart(mem, st, o, Min(mem.queued))
<1> DEFINE front == Min(mem.queued)
<1>1. front \in mem.queued
  BY FrontWaits DEF Memory
<1>2. CASE mem.failed
  <2>1. o = Failure(mem, st)
    BY <1>2 DEF StartNext
  <2>2. Keeps(st, st, {})
    BY KeepsNothing
  <2>3. FailsToStart(mem, st, o, front)
    BY <2>1, <2>2 DEF FailsToStart, Failure
  <2> QED
    BY <2>3
<1>3. CASE ~mem.failed
  <2> DEFINE kept == [mem EXCEPT !.queued = @ \ {}, !.held = @ \cup {}]
  <2>1. kept = mem
    BY DEF Memory
  <2>2. kept.queued # {}
    BY <2>1
  <2>3. (IF boundary = "idle" THEN SUBSET (mem.queued \ fresh) ELSE {{}}) = {{}}
    BY SMT
  <2>4. o \in UNION {Activation(kept, st, Min(kept.queued), folded) : folded \in Folds(kept)}
    <3>1. PICK stale \in IF boundary = "idle" THEN SUBSET (mem.queued \ fresh) ELSE {{}} :
            o \in LET k == [mem EXCEPT !.queued = @ \ stale, !.held = @ \cup stale] IN
                  IF k.queued = {} THEN {Failure(k, st)}
                  ELSE UNION {Activation(k, st, Min(k.queued), folded) : folded \in Folds(k)}
      BY <1>3 DEF StartNext
    <3>2. stale = {}
      BY <2>3
    <3> QED
      BY <2>2, <3>1, <3>2
  <2> HIDE DEF kept
  <2>5. PICK folded \in Folds(mem) : o \in Activation(mem, st, front, folded)
    BY <2>1, <2>4
  <2>6. folded \in SUBSET (mem.queued \ {front})
    BY DEF Folds
  <2> QED
    BY <1>1, <2>5, <2>6, ActivationOutcome
<1> QED
  BY <1>2, <1>3

-----------------------------------------------------------------------------
(* Every step keeps the invariant.                                         *)

\* Steps that start nothing and end nothing: rows may leave the queue with
\* their receipts behind them, completions move on, and a prompt may be
\* refused on the way, with `st' as its receipt left the store.
LEMMA QueueShrinks ==
  ASSUME IInv, NEW st \in Store, NEW gone,
         st.journal = store.journal,
         \A r \in Runs : r # next \/ next' = next => st.receipt[r] = store.receipt[r],
         Keeps(st, store', gone),
         m' \in Memory, m'.queued \subseteq m.queued, m'.queued \cap gone = {},
         m'.held = m.held, m'.run = m.run, m'.phase = m.phase,
         m'.active = m.active \/ (lock' = "worker" /\ m.phase = "idle"),
         lock' = lock \/ lock' = "worker" \/ m'.queued = {},
         lock' \in {"free", "worker"},
         pending' \subseteq pending,
         \A i \in 1..Len(m'.wakes) :
           m'.wakes[i] \in pending \/ \E j \in 1..Len(m.wakes) : m'.wakes[i] = m.wakes[j],
         \/ next' = next /\ refused' = refused
         \/ next <= MaxRuns /\ next' = next + 1 /\ refused' = refused \cup {next},
         storeFaults' = storeFaults
  PROVE  IInv'
<1>0. Runs \subseteq Nat /\ next \in Nat /\ MaxRuns \in Nat /\ m \in Memory /\ store \in Store
  BY ConstantsAssumption DEF IInv, Types, Runs
<1>1. Types'
  <2>1. store' \in Store
    BY DEF Keeps
  <2>2. next' \in 1..(MaxRuns + 1) /\ refused' \subseteq Runs
    <3>1. next \in 1..(MaxRuns + 1) /\ refused \subseteq Runs
      BY DEF IInv, Types
    <3>2. CASE next' = next /\ refused' = refused
      BY <3>1, <3>2
    <3>3. CASE next <= MaxRuns /\ next' = next + 1 /\ refused' = refused \cup {next}
      BY <1>0, <3>1, <3>3 DEF Runs
    <3> QED
      BY <3>2, <3>3
  <2>3. pending' \subseteq Runs /\ (m'.phase = "idle" <=> m'.run = NoRun)
    BY DEF IInv, Types
  <2> QED
    BY <2>1, <2>2, <2>3 DEF IInv, Types
<1>2. Lease'
  <2>1. \A r \in Runs : store.journal[r] # "none" => store'.journal[r] # "none"
    BY DEF Keeps
  <2>2. /\ m.run \in Runs \cup {NoRun} /\ pending \subseteq Runs
        /\ \A i \in 1..Len(m.wakes) : m.wakes[i] \in Runs
    BY DEF IInv, Types, Memory
  <2>3. m.phase # "idle" => m.run \in Runs
    BY <2>2 DEF IInv, Types
  <2> QED
    BY <2>1, <2>2, <2>3 DEF IInv, Lease
<1>3. Waits'
  <2> SUFFICES ASSUME NEW r \in m'.queued
               PROVE  r < next' /\ store'.journal[r] = "none" /\ store'.receipt[r] = "queued"
    BY DEF Waits
  <2>1. r \in Runs /\ r < next /\ store.journal[r] = "none" /\ store.receipt[r] = "queued"
    BY <1>0 DEF IInv, Waits, Memory
  <2>2. r < next' /\ r # next
    BY <1>0, <2>1
  <2>3. st.receipt[r] = "queued" /\ st.journal[r] = "none" /\ r \notin gone
    BY <2>1, <2>2
  <2> QED
    BY <2>1, <2>2, <2>3 DEF Keeps
<1>4. Unseen'
  <2>1. \A r \in Runs : r >= next' => r >= next /\ (r # next \/ next' = next)
    BY <1>0
  <2> QED
    BY <2>1 DEF IInv, Unseen, Keeps
<1>5. OneOpenRun'
  <2>1. m.phase = "running" => m.run \in Runs
    BY DEF IInv, Types, Memory
  <2> QED
    BY <2>1 DEF IInv, OneOpenRun, Keeps
<1>6. NothingStranded'
  BY DEF IInv, NothingStranded
<1>7. NothingLost'
  <2> SUFFICES ASSUME NEW r \in 1..(next' - 1)
               PROVE  r \in refused' \/ r \in m'.queued \/ Tracked(store', r)
    BY DEF NothingLost, Tracked
  <2>1. CASE r = next /\ next' # next
    BY <2>1
  <2>2. CASE r # next \/ next' = next
    <3>1. r \in 1..(next - 1) /\ r \in Runs
      BY <1>0, <2>2 DEF IInv, Types, Runs
    <3>2. r \in m.queued \cup refused \/ Tracked(store, r)
      BY <3>1 DEF IInv, NothingLost, NothingStranded, Tracked
    <3>3. r \in refused \/ Tracked(st, r)
      BY <2>2, <3>1, <3>2 DEF IInv, Waits, Tracked
    <3> QED
      BY <3>1, <3>3 DEF Keeps
  <2> QED
    BY <2>1, <2>2
<1> QED
  BY <1>1, <1>2, <1>3, <1>4, <1>5, <1>6, <1>7 DEF IInv

\* A run starts: the worker's front, or the prompt an idle session accepted.
LEMMA RunStarts ==
  ASSUME IInv, NEW mem \in Memory, NEW st \in Store, NEW o, NEW front \in mem.queued,
         StartsRun(mem, st, o, front),
         \A r \in Runs : st.journal[r] = store.journal[r] /\ st.receipt[r] = store.receipt[r],
         mem.held = m.held, mem.wakes = m.wakes, mem.phase = m.phase,
         m' = o.m, store' = o.st,
         \/ next' = next /\ mem.queued = m.queued
         \/ next <= MaxRuns /\ next' = next + 1 /\ mem.queued = {next} /\ m.queued = {},
         lock' \in {"free", "worker"},
         UNCHANGED <<pending, refused, storeFaults>>
  PROVE  IInv' /\ store.journal[front] = "none" /\ store.receipt[front] \in {"none", "queued"}
<1>0. /\ Runs \subseteq Nat /\ next \in Nat /\ MaxRuns \in Nat /\ m \in Memory /\ store \in Store
      /\ Runs = 1..MaxRuns /\ 0 \notin Runs
  BY ConstantsAssumption DEF IInv, Types, Runs
<1>1. PICK folded \in SUBSET (mem.queued \ {front}) :
        /\ o.ok /\ mem.phase = "idle" /\ mem.active = NoRun
        /\ o.m \in Memory
        /\ o.m.queued = mem.queued \ ({front} \cup folded)
        /\ o.m.held = mem.held /\ o.m.wakes = mem.wakes
        /\ o.m.active = front /\ o.m.run = front /\ o.m.phase = "running"
        /\ o.st = AppendRunStart(st, front, folded)
  BY DEF StartsRun
<1>2. front \in Runs /\ folded \in SUBSET Runs /\ mem.queued \subseteq Runs
  BY DEF Memory
<1>3. /\ store' \in Store
      /\ \A x \in Runs :
           /\ store'.journal[x] = IF x = front THEN "open"
                ELSE IF store.journal[x] = "open" THEN "closed" ELSE store.journal[x]
           /\ store'.receipt[x] = IF x \in folded THEN "merged"
                ELSE IF x = front /\ store.receipt[x] # "none" THEN "started"
                ELSE store.receipt[x]
  BY <1>1, <1>2, StartFields
<1>4. store.journal[front] = "none" /\ store.receipt[front] \in {"none", "queued"}
  BY <1>0, <1>2 DEF IInv, Waits, Unseen
<1>5. Types'
  BY <1>0, <1>1, <1>2, <1>3 DEF IInv, Types, NoRun
<1>6. Lease'
  <2>1. /\ pending \subseteq Runs /\ \A i \in 1..Len(m.wakes) : m.wakes[i] \in Runs
    BY DEF IInv, Types, Memory
  <2>2. front \notin pending /\ \A i \in 1..Len(m.wakes) : m.wakes[i] # front
    BY <1>4 DEF IInv, Lease
  <2>3. \A x \in Runs : store.journal[x] # "none" => store'.journal[x] # "none"
    BY <1>3
  <2> QED
    BY <1>1, <1>2, <1>3, <2>1, <2>2, <2>3 DEF IInv, Lease
<1>7. Waits'
  <2>1. \A r \in m'.queued : r \in mem.queued /\ r # front /\ r \notin folded /\ r \in Runs
    BY <1>1, <1>2
  <2>2. \A r \in m'.queued : r \in m.queued /\ next' = next
    BY <2>1
  <2> QED
    BY <1>3, <2>1, <2>2 DEF IInv, Waits
<1>8. Unseen'
  <2>1. \A r \in mem.queued : r < next'
    BY <1>0 DEF IInv, Waits
  <2>2. \A r \in Runs : r >= next' => r >= next /\ r # front /\ r \notin folded
    BY <1>0, <1>1, <1>2, <2>1
  <2> QED
    BY <1>3, <2>2 DEF IInv, Unseen
<1>9. OneOpenRun' /\ NothingStranded'
  BY <1>1, <1>2, <1>3 DEF IInv, OneOpenRun, NothingStranded
<1>10. NothingLost'
  <2> SUFFICES ASSUME NEW r \in 1..(next' - 1)
               PROVE  r \in refused \/ r \in m'.queued \/ Tracked(store', r)
    BY DEF NothingLost, Tracked
  <2>1. CASE r \in {front} \cup folded
    BY <1>2, <1>3, <2>1 DEF Tracked
  <2>2. CASE r \notin {front} \cup folded
    <3>1. r \in 1..(next - 1) /\ r \in Runs
      BY <1>0, <1>1, <2>2 DEF IInv, Types
    <3>2. r \in m.queued \/ r \in refused \/ Tracked(store, r)
      BY <3>1 DEF IInv, NothingLost, NothingStranded, Tracked
    <3> QED
      BY <1>1, <1>3, <2>2, <3>1, <3>2 DEF Tracked
  <2> QED
    BY <2>1, <2>2
<1> QED
  BY <1>4, <1>5, <1>6, <1>7, <1>8, <1>9, <1>10 DEF IInv

\* A prompt that has to wait joins the queue with its receipt.
LEMMA EnqueueWaitsStep ==
  ASSUME IInv, NEW policy, EnqueueWaits(policy)
  PROVE  IInv'
<1> DEFINE V == Victims(policy)
<1>0. /\ Runs \subseteq Nat /\ next \in Runs /\ MaxRuns \in Nat /\ m \in Memory /\ store \in Store
      /\ Runs = 1..MaxRuns
  BY ConstantsAssumption DEF IInv, Types, Runs, EnqueueWaits, Admits
<1>1. V \subseteq m.queued
  BY DEF Victims
<1> HIDE DEF V
<1>2. /\ m' \in Memory /\ m'.queued = (m.queued \ V) \cup {next}
      /\ m'.held = m.held /\ m'.run = m.run /\ m'.phase = m.phase
      /\ m'.active = m.active /\ m'.wakes = m.wakes
  <2>1. /\ Accepted(policy) \in Memory
        /\ Accepted(policy).queued = (m.queued \ V) \cup {next}
        /\ Accepted(policy).held = m.held /\ Accepted(policy).run = m.run
        /\ Accepted(policy).phase = m.phase /\ Accepted(policy).active = m.active
        /\ Accepted(policy).wakes = m.wakes
    BY <1>0, <1>1 DEF Accepted, Memory, V
  <2> QED
    BY <1>0, <2>1 DEF EnqueueWaits, Admitted, Memory
<1>3. /\ Recorded \in Store /\ Recorded.journal = store.journal
      /\ Recorded.receipt = [store.receipt EXCEPT ![next] = "queued"]
  BY <1>0 DEF EnqueueWaits, Recorded, Store, ReceiptStates
<1>4. Keeps(Recorded, store', V)
  BY <1>3, CancelKeeps DEF EnqueueWaits, V
<1>5. \A r \in Runs : Recorded.receipt[r] = IF r = next THEN "queued" ELSE store.receipt[r]
  BY <1>0, <1>3 DEF Store
<1>6. next' = next + 1 /\ UNCHANGED <<storeFaults, pending, lock, refused>>
  BY DEF EnqueueWaits
<1>7. \A r \in m.queued : r \in Runs /\ r < next
  BY <1>0 DEF IInv, Waits, Memory
<1>8. Types'
  BY <1>0, <1>2, <1>4, <1>6 DEF IInv, Types, Keeps
<1>9. Lease'
  <2>1. \A r \in Runs : store.journal[r] # "none" => store'.journal[r] # "none"
    BY <1>3, <1>4 DEF Keeps
  <2>2. /\ m.run \in Runs \cup {NoRun} /\ pending \subseteq Runs
        /\ \A i \in 1..Len(m.wakes) : m.wakes[i] \in Runs
    BY DEF IInv, Types, Memory
  <2>3. m.phase # "idle" => m.run \in Runs
    BY <2>2 DEF IInv, Types
  <2> QED
    BY <1>2, <1>6, <2>1, <2>2, <2>3 DEF IInv, Lease
<1>10. Waits'
  <2> SUFFICES ASSUME NEW r \in m'.queued
               PROVE  r < next' /\ store'.journal[r] = "none" /\ store'.receipt[r] = "queued"
    BY DEF Waits
  <2>1. r \in Runs /\ r < next' /\ r \notin V
    BY <1>0, <1>1, <1>2, <1>6, <1>7
  <2>2. Recorded.receipt[r] = "queued" /\ Recorded.journal[r] = "none"
    BY <1>0, <1>2, <1>3, <1>5, <1>7 DEF IInv, Waits, Unseen
  <2> QED
    BY <1>4, <2>1, <2>2 DEF Keeps
<1>11. Unseen'
  <2>1. \A r \in Runs : r >= next' => r >= next /\ r # next
    BY <1>0, <1>6
  <2> QED
    BY <1>3, <1>4, <1>5, <2>1 DEF IInv, Unseen, Keeps
<1>12. OneOpenRun'
  <2>1. m.phase = "running" => m.run \in Runs
    BY DEF IInv, Types, Memory
  <2> QED
    BY <1>2, <1>3, <1>4, <2>1 DEF IInv, OneOpenRun, Keeps
<1>13. NothingStranded'
  BY <1>2, <1>6 DEF IInv, NothingStranded, EnqueueWaits, Busy
<1>14. NothingLost'
  <2> SUFFICES ASSUME NEW r \in 1..(next' - 1)
               PROVE  r \in refused \/ r \in m'.queued \/ Tracked(store', r)
    BY <1>6 DEF NothingLost, Tracked
  <2>1. CASE r = next
    BY <1>2, <2>1
  <2>2. CASE r # next
    <3>1. r \in 1..(next - 1) /\ r \in Runs
      BY <1>0, <1>6, <2>2
    <3>2. r \in m.queued \cup refused \/ Tracked(store, r)
      BY <3>1 DEF IInv, NothingLost, NothingStranded, Tracked
    <3>3. r \in refused \/ Tracked(Recorded, r)
      BY <1>3, <1>5, <2>2, <3>1, <3>2 DEF IInv, Waits, Tracked
    <3> QED
      BY <1>4, <3>1, <3>3 DEF Keeps
  <2> QED
    BY <2>1, <2>2
<1> QED
  BY <1>8, <1>9, <1>10, <1>11, <1>12, <1>13, <1>14 DEF IInv

\* A refused prompt takes what it superseded out of the queue.
LEMMA EnqueueRefusedStep ==
  ASSUME IInv, (\E policy \in {"plain", "coalesce", "supersede"} : EnqueueUnrecorded(policy))
               \/ \E r \in Runs : EnqueueHalfSuperseded(r)
  PROVE  IInv'
<1>a. Admits
  BY DEF EnqueueUnrecorded, EnqueueHalfSuperseded
<1>0. /\ Runs \subseteq Nat /\ next \in Runs /\ MaxRuns \in Nat /\ m \in Memory /\ store \in Store
      /\ Runs = 1..MaxRuns /\ next \in Nat
  BY <1>a, ConstantsAssumption DEF IInv, Types, Runs, Admits
<1>1. next \notin m.queued
  BY <1>0 DEF IInv, Waits, Memory
<1>2. ASSUME NEW policy
      PROVE  /\ Accepted(policy) \in Memory
             /\ Accepted(policy).queued = (m.queued \ Victims(policy)) \cup {next}
             /\ Accepted(policy).snapshots = m.snapshots
             /\ Accepted(policy).held = m.held /\ Accepted(policy).run = m.run
             /\ Accepted(policy).phase = m.phase /\ Accepted(policy).active = m.active
             /\ Accepted(policy).wakes = m.wakes
  BY <1>0 DEF Accepted, Memory, Victims
<1>3. ASSUME NEW policy, EnqueueUnrecorded(policy) PROVE IInv'
  <2>1. /\ m' \in Memory /\ m'.queued = m.queued \ Victims(policy)
        /\ m'.held = m.held /\ m'.run = m.run /\ m'.phase = m.phase
        /\ m'.active = m.active /\ m'.wakes = m.wakes
    BY <1>1, <1>2, <1>3 DEF EnqueueUnrecorded, Memory
  <2>2. Keeps(store, store', {})
    BY <1>0, <1>3, KeepsNothing DEF EnqueueUnrecorded
  <2>3. /\ next <= MaxRuns /\ next' = next + 1 /\ refused' = refused \cup {next}
        /\ UNCHANGED <<storeFaults, pending, lock>>
    BY <1>3 DEF EnqueueUnrecorded, Admits
  <2>4. lock' \in {"free", "worker"}
    BY <2>3 DEF IInv, Types
  <2> QED
    BY <1>0, <2>1, <2>2, <2>3, <2>4, QueueShrinks
<1>4. ASSUME NEW victim \in Runs, EnqueueHalfSuperseded(victim) PROVE IInv'
  <2> DEFINE done == {v \in m.queued : v < victim}
             st == CancelQueuedReceipts(Recorded, done)
             gone == m.queued \cup {next}
  <2>1. /\ Recorded \in Store /\ Recorded.journal = store.journal
        /\ Recorded.receipt \in {store.receipt, [store.receipt EXCEPT ![next] = "queued"]}
    BY <1>0 DEF Recorded, Store, ReceiptStates
  <2>2. \A r \in Runs : r # next => Recorded.receipt[r] = store.receipt[r]
    BY <1>0, <2>1 DEF Store
  <2>3. Keeps(Recorded, st, gone)
    <3>1. Keeps(Recorded, st, done)
      BY <2>1, CancelKeeps
    <3> QED
      BY <3>1 DEF Keeps
  <2>4. Keeps(Recorded, CancelQueuedReceipts(st, {next}), gone)
    <3>1. st \in Store
      BY <2>3 DEF Keeps
    <3> HIDE DEF st
    <3>2. Keeps(st, CancelQueuedReceipts(st, {next}), {next})
      BY <3>1, CancelKeeps
    <3>3. Keeps(st, CancelQueuedReceipts(st, {next}), gone)
      BY <3>2 DEF Keeps
    <3> QED
      BY <2>1, <2>3, <3>3, KeepsBoth
  <2>5. store' \in {st, CancelQueuedReceipts(st, {next})}
    BY <1>4 DEF EnqueueHalfSuperseded
  <2>6. Keeps(Recorded, store', gone)
    <3> HIDE DEF st, gone
    <3> QED
      BY <2>3, <2>4, <2>5
  <2>7. /\ m' \in Memory /\ m'.queued = {}
        /\ m'.held = m.held /\ m'.run = m.run /\ m'.phase = m.phase
        /\ m'.active = m.active /\ m'.wakes = m.wakes
    <3>1. Accepted("supersede").queued = {next}
      BY <1>2 DEF Victims
    <3> QED
      BY <1>2, <1>4, <3>1 DEF EnqueueHalfSuperseded, Memory
  <2>8. /\ next <= MaxRuns /\ next' = next + 1 /\ refused' = refused \cup {next}
        /\ UNCHANGED <<storeFaults, pending, lock>>
    BY <1>4 DEF EnqueueHalfSuperseded, Admits
  <2>9. lock' \in {"free", "worker"} /\ next' # next
    BY <1>0, <2>8 DEF IInv, Types
  <2> HIDE DEF st, gone
  <2> QED
    BY <2>1, <2>2, <2>6, <2>7, <2>8, <2>9, QueueShrinks
<1> QED
  BY <1>3, <1>4

\* An idle session starts the prompt it accepts, or refuses it.
LEMMA EnqueueStartsStep ==
  ASSUME IInv, NEW policy, EnqueueStarts(policy)
  PROVE  /\ IInv'
         /\ \A r \in Runs : store.journal[r] # "open" /\ store'.journal[r] = "open" =>
              store.journal[r] = "none" /\ store.receipt[r] \in {"none", "queued"}
<1>0. /\ Runs \subseteq Nat /\ next \in Runs /\ MaxRuns \in Nat /\ m \in Memory /\ store \in Store
      /\ Runs = 1..MaxRuns /\ next \in Nat
  BY ConstantsAssumption DEF IInv, Types, Runs, EnqueueStarts, Admits
<1>1. m.queued = {} /\ Victims(policy) = {}
  BY DEF IInv, NothingStranded, EnqueueStarts, Admits, Busy, Victims
<1> DEFINE mem == Admitted(policy)
           st == CancelQueuedReceipts(Recorded, Victims(policy))
<1>2. /\ mem \in Memory /\ mem.queued = {next}
      /\ mem.held = m.held /\ mem.run = m.run /\ mem.phase = m.phase
      /\ mem.active = m.active /\ mem.wakes = m.wakes
  <2>1. /\ Accepted(policy) \in Memory
        /\ Accepted(policy).queued = {next}
        /\ Accepted(policy).held = m.held /\ Accepted(policy).run = m.run
        /\ Accepted(policy).phase = m.phase /\ Accepted(policy).active = m.active
        /\ Accepted(policy).wakes = m.wakes
    BY <1>0, <1>1 DEF Accepted, Memory
  <2> QED
    BY <1>0, <2>1 DEF Admitted, Memory
<1>3. /\ st \in Store
      /\ \A r \in Runs : st.journal[r] = store.journal[r] /\ st.receipt[r] = store.receipt[r]
      /\ st.journal = store.journal
  <2>1. Recorded = store
    BY DEF EnqueueStarts, Recorded
  <2>2. Keeps(store, st, {})
    BY <1>0, <1>1, <2>1, CancelKeeps
  <2> QED
    BY <1>0, <1>1, <2>1, <2>2 DEF CancelQueuedReceipts, Keeps, Store
<1>4. PICK o \in StartNext(mem, st, {next}, "idle") :
        /\ store' = o.st
        /\ IF o.ok THEN m' = o.m /\ UNCHANGED refused
           ELSE /\ m' = [o.m EXCEPT !.queued = @ \ {next}, !.held = @ \ {next},
                                    !.snapshots = @ \ {next}]
                /\ refused' = refused \cup {next}
  BY DEF EnqueueStarts
<1>5. next <= MaxRuns /\ next' = next + 1 /\ UNCHANGED <<storeFaults, pending, lock>>
  BY DEF EnqueueStarts, Admits
<1>6. lock' \in {"free", "worker"} /\ next' # next
  BY <1>0, <1>5 DEF IInv, Types
<1> HIDE DEF mem, st
<1>7. Min(mem.queued) = next
  BY <1>0, <1>2, FrontWaits
<1>8. StartsRun(mem, st, o, next) \/ FailsToStart(mem, st, o, next)
  BY <1>2, <1>3, <1>4, <1>7, StartNextOutcome
<1>9. CASE StartsRun(mem, st, o, next)
  <2>1. PICK folded \in SUBSET (mem.queued \ {next}) :
          o.ok /\ o.st = AppendRunStart(st, next, folded)
    BY <1>9 DEF StartsRun
  <2>2. \A r \in Runs : store'.journal[r] = "open" => r = next
    BY <1>0, <1>2, <1>3, <1>4, <2>1, StartFields DEF Memory
  <2> QED
    BY <1>2, <1>3, <1>4, <1>5, <1>6, <1>9, <1>1, <2>1, <2>2, RunStarts
<1>10. CASE FailsToStart(mem, st, o, next)
  <2>1. PICK gone \in SUBSET mem.queued :
          /\ ~o.ok /\ o.m \in Memory /\ o.m.queued \subseteq mem.queued
          /\ o.m.held = mem.held /\ o.m.wakes = mem.wakes
          /\ o.m.active = mem.active /\ o.m.run = mem.run /\ o.m.phase = mem.phase
          /\ Keeps(st, o.st, gone)
    BY <1>10 DEF FailsToStart
  <2>2. /\ m' \in Memory /\ m'.queued = {}
        /\ m'.held = m.held /\ m'.run = m.run /\ m'.phase = m.phase
        /\ m'.active = m.active /\ m'.wakes = m.wakes
    <3>1. m.held = {}
      BY DEF IInv, NothingStranded
    <3>2. m' = [o.m EXCEPT !.queued = @ \ {next}, !.held = @ \ {next},
                           !.snapshots = @ \ {next}]
      BY <1>4, <2>1
    <3>3. /\ m' \in Memory /\ m'.queued = o.m.queued \ {next}
          /\ m'.held = o.m.held \ {next} /\ m'.run = o.m.run
          /\ m'.phase = o.m.phase /\ m'.active = o.m.active /\ m'.wakes = o.m.wakes
      BY <2>1, <3>2 DEF Memory
    <3> QED
      BY <1>2, <2>1, <3>1, <3>3
  <2>3. IInv'
    BY <1>1, <1>3, <1>4, <1>5, <1>6, <2>1, <2>2, QueueShrinks
  <2>4. \A r \in Runs : store'.journal[r] = "open" => store.journal[r] = "open"
    BY <1>3, <1>4, <2>1 DEF Keeps
  <2> QED
    BY <2>3, <2>4
<1> QED
  BY <1>8, <1>9, <1>10

\* The worker starts the front of the queue, or cancels it.
LEMMA WorkerStartsStep ==
  ASSUME IInv, WorkerStarts
  PROVE  /\ IInv'
         /\ \A r \in Runs : store.journal[r] # "open" /\ store'.journal[r] = "open" =>
              store.journal[r] = "none" /\ store.receipt[r] \in {"none", "queued"}
<1> DEFINE front == Min(m.queued)
<1>0. m \in Memory /\ store \in Store /\ m.queued # {} /\ m.queued \subseteq Runs
  BY DEF IInv, Types, WorkerStarts, Memory
<1>1. front \in m.queued
  BY <1>0, FrontWaits
<1>2. PICK o \in StartNext(m, store, {}, "after_run") :
        /\ store' = o.st
        /\ IF o.ok THEN m' = o.m /\ lock' = "free"
           ELSE /\ m' = [o.m EXCEPT !.queued = @ \ {front}, !.snapshots = @ \ {front}]
                /\ UNCHANGED lock
  BY DEF WorkerStarts
<1>3. UNCHANGED <<storeFaults, next, pending, refused>>
  BY DEF WorkerStarts
<1>4. StartsRun(m, store, o, front) \/ FailsToStart(m, store, o, front)
  BY <1>0, <1>2, StartNextOutcome
<1>5. lock' \in {"free", "worker"}
  BY <1>2 DEF IInv, Types
<1> HIDE DEF front
<1>6. CASE StartsRun(m, store, o, front)
  <2>1. PICK folded \in SUBSET (m.queued \ {front}) :
          o.ok /\ o.st = AppendRunStart(store, front, folded)
    BY <1>6 DEF StartsRun
  <2>2. \A r \in Runs : store'.journal[r] = "open" => r = front
    BY <1>0, <1>1, <1>2, <2>1, StartFields
  <2> QED
    BY <1>0, <1>1, <1>2, <1>3, <1>5, <1>6, <2>1, <2>2, RunStarts
<1>7. CASE FailsToStart(m, store, o, front)
  <2>1. PICK gone \in SUBSET m.queued :
          /\ ~o.ok /\ o.m \in Memory /\ o.m.queued \subseteq m.queued
          /\ o.m.queued \cap gone \subseteq {front}
          /\ o.m.held = m.held /\ o.m.wakes = m.wakes
          /\ o.m.active = m.active /\ o.m.run = m.run /\ o.m.phase = m.phase
          /\ Keeps(store, o.st, gone)
    BY <1>7 DEF FailsToStart
  <2>2. /\ m' \in Memory /\ m'.queued = o.m.queued \ {front}
        /\ m'.held = m.held /\ m'.run = m.run /\ m'.phase = m.phase
        /\ m'.active = m.active /\ m'.wakes = m.wakes
    <3>1. m' = [o.m EXCEPT !.queued = @ \ {front}, !.snapshots = @ \ {front}]
      BY <1>2, <2>1
    <3>2. /\ m' \in Memory /\ m'.queued = o.m.queued \ {front}
          /\ m'.held = o.m.held /\ m'.run = o.m.run
          /\ m'.phase = o.m.phase /\ m'.active = o.m.active /\ m'.wakes = o.m.wakes
      BY <2>1, <3>1 DEF Memory
    <3> QED
      BY <2>1, <3>2
  <2>3. m'.queued \subseteq m.queued /\ m'.queued \cap gone = {}
    BY <2>1, <2>2
  <2>4. IInv'
    BY <1>0, <1>2, <1>3, <1>5, <2>1, <2>2, <2>3, QueueShrinks
  <2>5. \A r \in Runs : store'.journal[r] = "open" => store.journal[r] = "open"
    BY <1>2, <2>1 DEF Keeps
  <2> QED
    BY <2>4, <2>5
<1> QED
  BY <1>4, <1>6, <1>7

\* Waiting prompts are cancelled.
LEMMA CancelStep ==
  ASSUME IInv, (\E r \in Runs : CancelQueuedRun(r)) \/ CancelAllQueuedRuns
  PROVE  IInv'
<1>0. m \in Memory /\ store \in Store /\ lock \in {"free", "worker"} /\ m.held = {}
  BY DEF IInv, Types, NothingStranded
<1>1. ASSUME NEW r \in Runs, CancelQueuedRun(r) PROVE IInv'
  <2> DEFINE st == CancelQueuedReceipts(store, {r})
  <2>1. Keeps(store, st, {r}) /\ st \in Store
    BY <1>0, CancelKeeps DEF Keeps
  <2>2. Keeps(store, store', {r})
    <3>1. store' \in Attempt(st, FlushWhenIdle(m, st))
      BY <1>1 DEF CancelQueuedRun
    <3> HIDE DEF st
    <3>2. Keeps(st, store', {r})
      BY <2>1, <3>1, FlushKeeps, KeepsNothing DEF Attempt
    <3> QED
      BY <1>0, <2>1, <3>2, KeepsBoth
  <2>3. m' = [m EXCEPT !.queued = @ \ {r}, !.held = @ \ {r}, !.snapshots = @ \ {r}]
    BY <1>1 DEF CancelQueuedRun
  <2>4. /\ m' \in Memory /\ m'.queued = m.queued \ {r}
        /\ m'.held = m.held \ {r} /\ m'.run = m.run
        /\ m'.phase = m.phase /\ m'.active = m.active /\ m'.wakes = m.wakes
    BY <1>0, <2>3 DEF Memory
  <2>5. UNCHANGED <<storeFaults, next, pending, lock, refused>>
    BY <1>1 DEF CancelQueuedRun
  <2> QED
    BY <1>0, <2>2, <2>4, <2>5, QueueShrinks
<1>2. ASSUME CancelAllQueuedRuns PROVE IInv'
  <2> DEFINE runs == m.queued \cup m.held
  <2>1. PICK st \in Attempt(store, CancelQueuedReceipts(store, runs)) :
          store' \in Attempt(st, FlushWhenIdle(m, st))
    BY <1>2 DEF CancelAllQueuedRuns
  <2>2. Keeps(store, store', runs)
    BY <1>0, <2>1, ClosingsKeep
  <2>3. /\ m' \in Memory /\ m'.queued = {}
        /\ m'.held = {} /\ m'.run = m.run
        /\ m'.phase = m.phase /\ m'.active = m.active /\ m'.wakes = m.wakes
    BY <1>0, <1>2 DEF CancelAllQueuedRuns, Memory
  <2>4. UNCHANGED <<storeFaults, next, pending, lock, refused>>
    BY <1>2 DEF CancelAllQueuedRuns
  <2> HIDE DEF runs
  <2> QED
    BY <1>0, <2>2, <2>3, <2>4, QueueShrinks
<1> QED
  BY <1>1, <1>2

\* The run ends, or its fault is settled: its completion is under way, and the
\* scheduler's row waits for it.
LEMMA ReleaseStep ==
  ASSUME IInv, RunEnds \/ SettleFault
  PROVE  IInv'
<1>0. /\ m \in Memory /\ store \in Store /\ m.run \in Runs /\ m.phase # "idle"
      /\ m.queued \subseteq Runs /\ 0 \notin Runs
  BY ConstantsAssumption DEF IInv, Types, Memory, RunEnds, SettleFault, NoRun,
     Runs
<1>1. /\ m' \in Memory /\ m'.queued = m.queued /\ m'.held = m.held
      /\ m'.run = NoRun /\ m'.phase = "idle" /\ m'.active = m.active /\ m'.wakes = m.wakes
  <2>1. /\ Released \in Memory /\ Released.queued = m.queued /\ Released.held = m.held
        /\ Released.run = NoRun /\ Released.phase = "idle"
        /\ Released.active = m.active /\ Released.wakes = m.wakes
    BY <1>0 DEF Released, Memory
  <2> QED
    BY <2>1 DEF RunEnds, SettleFault, Memory
<1>2. /\ store' \in Store /\ store'.receipt = store.receipt
      /\ \A r \in Runs : store'.journal[r] = IF r = m.run THEN "closed" ELSE store.journal[r]
  BY <1>0 DEF RunEnds, SettleFault, Store, JournalStates
<1>3. pending' = pending \cup {m.run} /\ UNCHANGED <<storeFaults, next, lock, refused>>
  BY DEF RunEnds, SettleFault
<1>4. \A i \in 1..Len(m.wakes) : m.wakes[i] \in Runs
  BY <1>0 DEF Memory
<1>5. Types'
  BY <1>0, <1>1, <1>2, <1>3 DEF IInv, Types
<1>6. Lease'
  BY <1>0, <1>1, <1>2, <1>3, <1>4 DEF IInv, Lease, Types
<1>7. Waits' /\ Unseen'
  <2>1. store.journal[m.run] # "none"
    BY <1>0 DEF IInv, Lease
  <2> QED
    BY <1>0, <1>1, <1>2, <1>3, <2>1 DEF IInv, Waits, Unseen
<1>8. OneOpenRun' /\ NothingStranded'
  BY <1>0, <1>1, <1>2, <1>3 DEF IInv, OneOpenRun, NothingStranded, Lease, NoRun
<1>9. NothingLost'
  <2>1. \A r \in 1..(next - 1) : r \in Runs
    BY ConstantsAssumption DEF IInv, Types, Runs
  <2> QED
    BY <1>1, <1>2, <1>3, <2>1 DEF IInv, NothingLost
<1> QED
  BY <1>5, <1>6, <1>7, <1>8, <1>9 DEF IInv

\* The run faults and keeps its lease.
LEMMA FaultStep ==
  ASSUME IInv, RunFaults
  PROVE  IInv'
<1>0. /\ m \in Memory /\ store \in Store /\ m.run \in Runs /\ m.phase = "running"
      /\ m.queued \subseteq Runs /\ 0 \notin Runs
  BY ConstantsAssumption DEF IInv, Types, Memory, RunFaults, NoRun, Runs
<1>1. /\ m' \in Memory /\ m'.queued = m.queued /\ m'.held = m.held
      /\ m'.run = m.run /\ m'.phase = "faulted" /\ m'.active = m.active
      /\ m'.wakes = m.wakes
  <2>1. PICK failed \in BOOLEAN : m' = [m EXCEPT !.phase = "faulted", !.failed = failed]
    BY <1>0 DEF RunFaults, IInv, Types, Memory
  <2> QED
    BY <1>0, <2>1 DEF Memory
<1>2. /\ store' \in Store /\ store'.receipt = store.receipt
      /\ \A r \in Runs : \/ store'.journal[r] = store.journal[r]
                         \/ r = m.run /\ store'.journal[r] = "closed"
  BY <1>0 DEF RunFaults, Store, JournalStates
<1>3. UNCHANGED <<storeFaults, next, pending, lock, refused>>
  BY DEF RunFaults
<1>4. \A i \in 1..Len(m.wakes) : m.wakes[i] \in Runs
  BY <1>0 DEF Memory
<1>5. Types'
  BY <1>0, <1>1, <1>2, <1>3 DEF IInv, Types
<1>6. Lease'
  BY <1>0, <1>1, <1>2, <1>3, <1>4 DEF IInv, Lease, Types
<1>7. Waits' /\ Unseen'
  <2>1. store.journal[m.run] # "none"
    BY <1>0 DEF IInv, Lease
  <2> QED
    BY <1>0, <1>1, <1>2, <1>3, <2>1 DEF IInv, Waits, Unseen
<1>8. OneOpenRun' /\ NothingStranded'
  BY <1>0, <1>1, <1>2, <1>3 DEF IInv, OneOpenRun, NothingStranded
<1>9. NothingLost'
  <2>1. \A r \in 1..(next - 1) : r \in Runs
    BY ConstantsAssumption DEF IInv, Types, Runs
  <2> QED
    BY <1>1, <1>2, <1>3, <2>1 DEF IInv, NothingLost
<1> QED
  BY <1>5, <1>6, <1>7, <1>8, <1>9 DEF IInv

\* The completion of a run is sent, and the worker takes it up or pauses.
LEMMA CompletionStep ==
  ASSUME IInv, (\E r \in Runs : Announce(r)) \/ WorkerPauses \/ WorkerWakes
  PROVE  IInv'
<1>0. /\ m \in Memory /\ store \in Store /\ lock \in {"free", "worker"}
      /\ m.wakes \in Seq(Runs)
  BY DEF IInv, Types, Memory
<1>1. ASSUME NEW r \in Runs, Announce(r) PROVE IInv'
  <2>1. /\ m' \in Memory /\ m'.queued = m.queued /\ m'.held = m.held
        /\ m'.run = m.run /\ m'.phase = m.phase /\ m'.active = m.active
        /\ m'.wakes = Append(m.wakes, r)
    <3>1. Append(m.wakes, r) \in Seq(Runs)
      BY <1>0
    <3>2. m' = [m EXCEPT !.wakes = Append(m.wakes, r)]
      BY <1>1 DEF Announce
    <3> QED
      BY <1>0, <3>1, <3>2 DEF Memory
  <2>2. \A i \in 1..Len(m'.wakes) :
          m'.wakes[i] = r \/ \E j \in 1..Len(m.wakes) : m'.wakes[i] = m.wakes[j]
    BY <1>0, <2>1
  <2>3. r \in pending /\ pending' \subseteq pending /\ UNCHANGED <<storeFaults, store, next, lock, refused>>
    BY <1>1 DEF Announce
  <2>4. Keeps(store, store', {})
    BY <1>0, <2>3, KeepsNothing
  <2> QED
    BY <1>0, <2>1, <2>2, <2>3, <2>4, QueueShrinks
<1>2. ASSUME WorkerPauses \/ WorkerWakes PROVE IInv'
  <2>1. m.wakes # << >>
    BY <1>2 DEF WorkerPauses, WorkerWakes
  <2>2. /\ Head(m.wakes) = m.wakes[1] /\ 1 \in 1..Len(m.wakes)
        /\ Tail(m.wakes) \in Seq(Runs)
        /\ \A i \in 1..Len(Tail(m.wakes)) :
             \E j \in 1..Len(m.wakes) : Tail(m.wakes)[i] = m.wakes[j]
    BY <1>0, <2>1
  <2>3. /\ m' \in Memory /\ m'.queued = m.queued /\ m'.held = m.held
        /\ m'.run = m.run /\ m'.phase = m.phase /\ m'.wakes = Tail(m.wakes)
        /\ WorkerPauses => m'.active = m.active
        /\ WorkerWakes => m'.active = m.active \/ m.active = Head(m.wakes)
    BY <1>0, <1>2, <2>2 DEF WorkerPauses, WorkerWakes, Memory
  <2>4. m.phase # "idle" => m.active # Head(m.wakes)
    BY <2>2 DEF IInv, Lease
  <2>5. Keeps(store, store', {})
    BY <1>0, <1>2, KeepsNothing, FlushKeeps DEF WorkerPauses, WorkerWakes
  <2>6. /\ UNCHANGED <<storeFaults, next, pending, refused>>
        /\ WorkerPauses => lock' = lock
        /\ WorkerWakes => lock' = "worker"
    BY <1>2 DEF WorkerPauses, WorkerWakes
  <2> QED
    BY <1>0, <1>2, <2>2, <2>3, <2>4, <2>5, <2>6, QueueShrinks
<1> QED
  BY <1>1, <1>2

\* The worker is done, and storage fails or is recovered.
LEMMA StorageStep ==
  ASSUME IInv, WorkerDone \/ StorageFails \/ RecoverSessionJournal
  PROVE  IInv'
<1>0. m \in Memory /\ store \in Store /\ lock \in {"free", "worker"}
  BY DEF IInv, Types
<1>1. /\ m' \in Memory /\ m'.queued = m.queued /\ m'.held = m.held
      /\ m'.run = m.run /\ m'.phase = m.phase /\ m'.active = m.active
      /\ m'.wakes = m.wakes
  BY <1>0 DEF WorkerDone, StorageFails, RecoverSessionJournal, Memory
<1>2. /\ UNCHANGED <<storeFaults, store, next, pending, refused>>
      /\ lock' = lock \/ (lock' = "free" /\ m.queued = {})
  BY DEF WorkerDone, StorageFails, RecoverSessionJournal
<1>3. Keeps(store, store', {})
  BY <1>0, <1>2, KeepsNothing
<1> QED
  BY <1>0, <1>1, <1>2, <1>3, QueueShrinks

\* The next process closes every receipt still open.
LEMMA RestartStep ==
  ASSUME IInv, Restart
  PROVE  IInv'
<1> DEFINE rec == RecoverReceipts(store, {"queued", "cancel_requested"})
<1>0. /\ m \in Memory /\ store \in Store /\ Runs = 1..MaxRuns /\ MaxRuns \in Nat
      /\ next \in 1..(MaxRuns + 1)
  BY ConstantsAssumption DEF IInv, Types, Runs
<1>1. /\ m' \in Memory /\ m'.queued = {} /\ m'.held = {} /\ m'.run = NoRun
      /\ m'.phase = "idle" /\ m'.active = NoRun /\ m'.wakes = << >>
  <2>1. << >> \in Seq(Runs)
    OBVIOUS
  <2> QED
    BY <2>1 DEF Restart, Empty, Memory
<1>2. rec \in Store
  BY <1>0, RecoverFields
<1>3. \A r \in Runs :
        IF store.receipt[r] \in {"queued", "cancel_requested"}
        THEN rec.journal[r] # "none" /\ (rec.journal[r] = "open" => store.journal[r] = "open")
        ELSE rec.receipt[r] = store.receipt[r] /\ rec.journal[r] = store.journal[r]
  BY <1>0, RecoverFields
<1>4. store' \in {rec, [rec EXCEPT !.journal =
         [r \in Runs |-> IF rec.journal[r] = "open" THEN "closed" ELSE rec.journal[r]]]}
  BY DEF Restart
<1> HIDE DEF rec
<1>5. /\ store' \in Store /\ store'.receipt = rec.receipt
      /\ \A r \in Runs :
           \/ store'.journal[r] = rec.journal[r]
           \/ rec.journal[r] = "open" /\ store'.journal[r] = "closed"
  BY <1>2, <1>4 DEF Store, JournalStates
<1>6. pending' = {} /\ lock' = "free" /\ UNCHANGED <<storeFaults, next, refused>>
  BY DEF Restart
<1>7. Types' /\ Lease' /\ Waits'
  BY <1>1, <1>5, <1>6 DEF IInv, Types, Lease, Waits
<1>8. Unseen'
  BY <1>3, <1>5, <1>6 DEF IInv, Unseen
<1>9. OneOpenRun' /\ NothingStranded'
  <2>1. \A r \in Runs : store'.journal[r] = "open" => store.journal[r] = "open"
    BY <1>3, <1>5
  <2> QED
    BY <1>1, <2>1 DEF IInv, OneOpenRun, NothingStranded
<1>10. NothingLost'
  <2> SUFFICES ASSUME NEW r \in 1..(next - 1)
               PROVE  r \in refused \/ Tracked(store', r)
    BY <1>6 DEF NothingLost, Tracked
  <2>1. r \in Runs
    BY <1>0
  <2>2. r \in refused \/ Tracked(store, r)
    BY <2>1 DEF IInv, NothingLost, NothingStranded, Waits, Tracked
  <2> QED
    BY <1>3, <1>5, <2>1, <2>2 DEF Tracked
<1> QED
  BY <1>7, <1>8, <1>9, <1>10 DEF IInv

-----------------------------------------------------------------------------
(* The results.                                                            *)

\* Every step keeps the invariant, and starts a run of which nothing but a
\* waiting receipt is on record.
LEMMA InvStep ==
  ASSUME IInv, [Next]_vars
  PROVE  /\ IInv'
         /\ \A r \in Runs : store.journal[r] # "open" /\ store'.journal[r] = "open" =>
              store.journal[r] = "none" /\ store.receipt[r] \in {"none", "queued"}
<1> DEFINE NoStart == \A r \in Runs : store'.journal[r] = "open" => store.journal[r] = "open"
<1>0. store \in Store /\ m.run \in Runs \cup {NoRun}
  BY DEF IInv, Types, Memory
<1>1. ASSUME NEW policy \in {"plain", "coalesce", "supersede"}, EnqueueWaits(policy)
      PROVE  IInv' /\ NoStart
  <2>1. store' = CancelQueuedReceipts(Recorded, Victims(policy))
    BY <1>1 DEF EnqueueWaits
  <2>2. Recorded.journal = store.journal
    BY <1>0 DEF Recorded, Store
  <2>3. store'.journal = Recorded.journal
    BY <1>0, <2>1 DEF CancelQueuedReceipts, Recorded, Store
  <2> QED
    BY <1>1, <2>2, <2>3, EnqueueWaitsStep
<1>2. CASE \/ \E policy \in {"plain", "coalesce", "supersede"} : EnqueueStarts(policy)
           \/ WorkerStarts
  BY <1>2, EnqueueStartsStep, WorkerStartsStep
<1>3. ASSUME \/ \E policy \in {"plain", "coalesce", "supersede"} : EnqueueUnrecorded(policy)
             \/ \E r \in Runs : EnqueueHalfSuperseded(r)
      PROVE  IInv' /\ NoStart
  <2>1. store'.journal = store.journal
    BY <1>0, <1>3 DEF EnqueueUnrecorded, EnqueueHalfSuperseded,
       CancelQueuedReceipts,
       Recorded, Store
  <2> QED
    BY <1>3, <2>1, EnqueueRefusedStep
<1>4. ASSUME (\E r \in Runs : CancelQueuedRun(r)) \/ CancelAllQueuedRuns \/ WorkerWakes
      PROVE  NoStart
  <2>1. ASSUME NEW st, st.journal = store.journal, st \in Store,
               store' \in Attempt(st, FlushWhenIdle(m, st))
        PROVE  NoStart
    BY <2>1, FlushKeeps, KeepsNothing DEF Attempt, Keeps
  <2>2. ASSUME NEW st \in {store} \cup {CancelQueuedReceipts(store, R) : R \in SUBSET Runs}
        PROVE  st \in Store /\ st.journal = store.journal
    <3>1. \A R \in SUBSET Runs :
            /\ CancelQueuedReceipts(store, R) \in Store
            /\ CancelQueuedReceipts(store, R).journal = store.journal
      BY <1>0 DEF CancelQueuedReceipts, Store, ReceiptStates
    <3> QED
      BY <1>0, <2>2, <3>1
  <2>3. ASSUME NEW r \in Runs, CancelQueuedRun(r) PROVE NoStart
    BY <2>1, <2>2, <2>3 DEF CancelQueuedRun
  <2>4. ASSUME CancelAllQueuedRuns PROVE NoStart
    <3>1. m.queued \cup m.held \in SUBSET Runs
      BY DEF IInv, Types, Memory
    <3> QED
      BY <2>1, <2>2, <2>4, <3>1 DEF CancelAllQueuedRuns, Attempt
  <2>5. ASSUME WorkerWakes PROVE NoStart
    BY <1>0, <2>5, FlushKeeps DEF WorkerWakes, Keeps
  <2> QED
    BY <1>4, <2>3, <2>4, <2>5
<1>5. ASSUME RunEnds \/ RunFaults \/ SettleFault PROVE NoStart
  BY <1>0, <1>5 DEF RunEnds, RunFaults, SettleFault, Store
<1>6. ASSUME \/ \E r \in Runs : Announce(r)
             \/ WorkerPauses \/ WorkerDone \/ StorageFails \/ RecoverSessionJournal
      PROVE  NoStart
  BY <1>6 DEF Announce, WorkerPauses, WorkerDone, StorageFails,
     RecoverSessionJournal
<1>7. ASSUME Restart PROVE NoStart
  <2> DEFINE rec == RecoverReceipts(store, {"queued", "cancel_requested"})
  <2>1. rec \in Store /\ \A r \in Runs : rec.journal[r] = "open" => store.journal[r] = "open"
    BY <1>0, RecoverFields
  <2>2. store' \in {rec, [rec EXCEPT !.journal =
           [r \in Runs |-> IF rec.journal[r] = "open" THEN "closed" ELSE rec.journal[r]]]}
    BY <1>7 DEF Restart
  <2> HIDE DEF rec
  <2> QED
    BY <2>1, <2>2 DEF Store
<1>8. CASE UNCHANGED vars
  <2>1. Types' /\ Lease' /\ Waits' /\ Unseen'
    BY <1>8 DEF vars, IInv, Types, Lease, Waits, Unseen
  <2>2. OneOpenRun' /\ NothingStranded' /\ NothingLost'
    BY <1>8 DEF vars, IInv, OneOpenRun, NothingStranded, NothingLost
  <2> QED
    BY <1>8, <2>1, <2>2 DEF vars, IInv
<1> HIDE DEF NoStart
<1>9. CASE Next /\ ~(\E policy \in {"plain", "coalesce", "supersede"} : EnqueueStarts(policy))
                /\ ~WorkerStarts
  <2>1. IInv' /\ NoStart
    BY <1>1, <1>3, <1>4, <1>5, <1>6, <1>7, <1>9, CancelStep, ReleaseStep,
       FaultStep,
       CompletionStep, StorageStep, RestartStep DEF Next
  <2> QED
    BY <2>1 DEF NoStart
<1> QED
  BY <1>2, <1>8, <1>9

\* The first state.
LEMMA InitHolds == Init => IInv
<1> SUFFICES ASSUME Init PROVE IInv
  OBVIOUS
<1>1. << >> \in Seq(Runs)
  OBVIOUS
<1>2. Types
  BY <1>1, ConstantsAssumption DEF Init, Empty, Types, Memory, Store,
     ReceiptStates,
     JournalStates
<1>3. Lease /\ Waits /\ Unseen
  BY DEF Init, Empty, Lease, Waits, Unseen
<1>4. OneOpenRun /\ NothingStranded /\ NothingLost
  BY DEF Init, Empty, OneOpenRun, NothingStranded, NothingLost
<1> QED
  BY <1>2, <1>3, <1>4 DEF IInv

\* The invariant the results rest on, for every number of runs.
THEOREM SchedulerInvariant == Spec => []IInv
<1>1. IInv /\ [Next]_vars => IInv'
  BY InvStep
<1> QED
  BY <1>1, InitHolds, PTL DEF Spec

\* Queue, runtime and receipts keep to the values their Rust types allow
\* (session.rs, queued_receipts.rs).
THEOREM SchedulerTypeCorrect == Spec => []TypeOK
<1>1. IInv => TypeOK
  BY DEF IInv, Types, TypeOK, Memory, Store
<1> QED
  BY <1>1, SchedulerInvariant, PTL

\* No accepted prompt is lost, whatever is superseded, folded, cancelled,
\* refused by the store, or cut off by a restart (session.rs, enqueue_prompt;
\* queued_receipts.rs).
THEOREM NothingLostHolds == Spec => []NothingLost
<1>1. IInv => NothingLost
  BY DEF IInv
<1> QED
  BY <1>1, SchedulerInvariant, PTL

\* The journal holds at most one open run, and it is the one that runs
\* (manager/mod.rs, append_run_start).
THEOREM OneOpenRunHolds == Spec => []OneOpenRun
<1>1. IInv => OneOpenRun
  BY DEF IInv
<1> QED
  BY <1>1, SchedulerInvariant, PTL

\* Nothing waits on an idle session that no worker and no completion is about
\* to turn to (session.rs, on_scheduled_run_finished).
THEOREM NothingStrandedHolds == Spec => []NothingStranded
<1>1. IInv => NothingStranded
  BY DEF IInv
<1> QED
  BY <1>1, SchedulerInvariant, PTL

\* A run starts at most once, and never after its outcome or its cancellation
\* was recorded (session_prompt.rs, prompt_internal; append_run_start).
THEOREM StartedOnceHolds == Spec => StartedOnce
<1>1. IInv /\ [Next]_vars =>
        [\A r \in Runs :
           store.journal[r] # "open" /\ store'.journal[r] = "open" =>
             /\ store.journal[r] = "none"
             /\ store.receipt[r] \in {"none", "queued"}]_vars
  BY InvStep
<1> QED
  BY <1>1, SchedulerInvariant, PTL DEF Spec, StartedOnce
=============================================================================
