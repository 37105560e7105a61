------------------------------ MODULE RunQueue ------------------------------
(***************************************************************************)
(* The process-local run queue of every session and the budget all of them *)
(* share: agent/src/runtime/scheduler_queue.rs, InMemoryRunQueue and       *)
(* GlobalQueueBudget.                                                      *)
(*                                                                         *)
(* Every operation holds its session's queue mutex from end to end and     *)
(* takes the budget's mutex inside it, so one operation is one action.  An *)
(* operation that is refused, and a retry that is answered with the        *)
(* acknowledgement it already has, changes nothing and is a stuttering     *)
(* step.  A payload is abstracted to its size; the digest of a request is  *)
(* what it was computed from.                                              *)
(***************************************************************************)
EXTENDS Integers, FiniteSets, SequencesExt

CONSTANTS
  Sessions,        \* session ids
  Requests,        \* client request ids
  RunIds,          \* run ids a client may ask for
  NoRun,           \* no run id asked for: the queue generates one
  Sizes,           \* payload sizes clients send
  Policies,        \* busy policies clients use
  Capacity,        \* queued runs per session
  MaxQueueBytes,   \* queued bytes per session
  MaxRequestBytes, \* bytes of one request
  MaxCount,        \* queued runs of all sessions
  MaxBytes,        \* queued bytes of all sessions
  AckLimit,        \* remembered terminal acknowledgements per session
  MaxSequence      \* largest u64 run sequence

AllPolicies == {"enqueue_if_busy", "enqueue_coalescing", "supersede_session"}

ASSUME ConstantsAssumption ==
  /\ Policies \subseteq AllPolicies
  /\ Sizes \subseteq Nat
  /\ NoRun \notin RunIds \cup (Sessions \X Nat)
  /\ {Capacity, MaxQueueBytes, MaxRequestBytes, MaxCount, MaxBytes, AckLimit}
       \subseteq Nat
  /\ MaxSequence \in Nat \ {0}

VARIABLES
  q,       \* the QueueState of every session
  budget   \* GlobalBudgetState

vars == <<q, budget>>

NoRow == [run |-> NoRun]
NoIdentity == [run |-> NoRun]

Init ==
  /\ q = [s \in Sessions |->
           [next |-> 1, active |-> NoRow, queued |-> << >>, held |-> << >>,
            bytes |-> 0, requests |-> [c \in Requests |-> NoIdentity],
            runs |-> {}, acks |-> << >>]]
  /\ budget = [count |-> 0, bytes |-> 0]

-----------------------------------------------------------------------------
(* Helpers on rows and on one session's state.                             *)

Coalesces(row) == row.policy = "enqueue_coalescing"

\* The elements of I by increasing key; no two have the same.
InOrder(I, key) ==
  CHOOSE p \in [1..Cardinality(I) -> I] :
    /\ \A i \in I : \E k \in DOMAIN p : p[k] = i
    /\ \A i, k \in DOMAIN p : i < k => key[p[i]] < key[p[k]]

\* The rows at the positions in I, in their order.
Picked(rows, I) ==
  [i \in 1..Cardinality(I) |-> rows[InOrder(I, [k \in I |-> k])[i]]]

\* sort_by_key(run_sequence).
BySequence(rows) ==
  LET seqs == [k \in 1..Len(rows) |-> rows[k].seq]
  IN [i \in 1..Len(rows) |-> rows[InOrder(1..Len(rows), seqs)[i]]]

\* The positions of a run, of which there is at most one.
PositionsOf(rows, run) == {i \in 1..Len(rows) : rows[i].run = run}

Minus(a, b) == IF a > b THEN a - b ELSE 0   \* usize::saturating_sub

SumBytes(rows) ==
  LET sum[i \in 0..Len(rows)] == IF i = 0 THEN 0 ELSE sum[i-1] + rows[i].bytes
  IN sum[Len(rows)]

\* GlobalQueueBudget::release, once for every row.
Released(b, rows) == [count |-> Minus(b.count, Len(rows)),
                      bytes |-> Minus(b.bytes, SumBytes(rows))]

\* Mutant: an evicted acknowledgement leaves its run id behind.
RememberTerminal_LeaksRunId(st, rows, reason) ==
  LET acks == st.acks \o [i \in 1..Len(rows) |->
                [run |-> rows[i].run, req |-> rows[i].req, reason |-> reason]]
      n == Minus(Len(acks), AckLimit)
      evicted == {acks[i] : i \in 1..n}
  IN [st EXCEPT
       !.acks = SubSeq(acks, n + 1, Len(acks)),
       !.requests = [c \in Requests |->
         IF \E a \in evicted : a.req = c THEN NoIdentity ELSE @[c]]]

\* Rows become terminal; the oldest acknowledgements beyond the limit are
\* forgotten together with the identities they kept.
RememberTerminal(st, rows, reason) ==
  LET acks == st.acks \o [i \in 1..Len(rows) |->
                [run |-> rows[i].run, req |-> rows[i].req, reason |-> reason]]
      n == Minus(Len(acks), AckLimit)
      evicted == {acks[i] : i \in 1..n}
  IN [st EXCEPT
       !.acks = SubSeq(acks, n + 1, Len(acks)),
       !.requests = [c \in Requests |->
         IF \E a \in evicted : a.req = c THEN NoIdentity ELSE @[c]],
       !.runs = @ \ {a.run : a \in evicted}]

\* The identity and the row of a newly accepted request.
RequestDigest(want, policy, bytes) == <<want, policy, bytes>>

NewRow(s, req, want, policy, bytes) ==
  [run    |-> IF want = NoRun THEN <<s, q[s].next>> ELSE want,
   seq    |-> q[s].next,
   req    |-> req,
   digest |-> RequestDigest(want, policy, bytes),
   policy |-> policy,
   bytes  |-> bytes,
   at     |-> "fresh"]

Identity(row) == [run |-> row.run, seq |-> row.seq, digest |-> row.digest]

\* Mutant: the last run sequence is handed out without a successor.
Admissible_SequenceOverrun(s, row) ==
  /\ q[s].requests[row.req] = NoIdentity
  /\ row.bytes <= MaxRequestBytes
  /\ row.run \notin q[s].runs
  /\ q[s].next <= MaxSequence

\* What accept and supersede both demand of a request.
Admissible(s, row) ==
  /\ q[s].requests[row.req] = NoIdentity
  /\ row.bytes <= MaxRequestBytes
  /\ row.run \notin q[s].runs
  /\ q[s].next + 1 <= MaxSequence

\* Mutant: the identity takes the sequence after it was advanced.
Enqueued_LateSequence(st, row) ==
  [st EXCEPT !.next = @ + 1,
             !.requests[row.req] = Identity([row EXCEPT !.seq = st.next + 1]),
             !.runs = @ \cup {row.run},
             !.queued = Append(@, row)]

Enqueued(st, row) ==
  [st EXCEPT !.next = @ + 1,
             !.requests[row.req] = Identity(row),
             !.runs = @ \cup {row.run},
             !.queued = Append(@, row)]

-----------------------------------------------------------------------------
(* Accepting.                                                              *)

Accept(s, req, want, policy, bytes) ==
  LET row == NewRow(s, req, want, policy, bytes) IN
  /\ policy # "supersede_session"
  /\ Admissible(s, row)
  /\ Len(q[s].queued) < Capacity
  /\ q[s].bytes + bytes <= MaxQueueBytes
  /\ budget.count < MaxCount
  /\ budget.bytes + bytes <= MaxBytes
  /\ q' = [q EXCEPT ![s] = [Enqueued(q[s], row) EXCEPT !.bytes = @ + bytes]]
  /\ budget' = [count |-> budget.count + 1, bytes |-> budget.bytes + bytes]

\* GlobalQueueBudget::replace_queued.
ReplaceQueued(released, releasedBytes, bytes) ==
  /\ Minus(budget.count, released) < MaxCount
  /\ Minus(budget.bytes, releasedBytes) + bytes <= MaxBytes
  /\ budget' = [count |-> Minus(budget.count, released) + 1,
                bytes |-> Minus(budget.bytes, releasedBytes) + bytes]

\* Every queued row is replaced by one successor.
Supersede(s, req, want, bytes) ==
  LET row == NewRow(s, req, want, "supersede_session", bytes)
      cleared == RememberTerminal([q[s] EXCEPT !.queued = << >>],
                                  q[s].queued, "superseded")
  IN /\ Admissible(s, row)
     /\ bytes <= MaxQueueBytes
     /\ ReplaceQueued(Len(q[s].queued), q[s].bytes, bytes)
     /\ q' = [q EXCEPT ![s] = [Enqueued(cleared, row) EXCEPT !.bytes = bytes]]

-----------------------------------------------------------------------------
(* Running.                                                                *)

StartNext(s) ==
  /\ q[s].active = NoRow
  /\ q[s].queued # << >>
  /\ LET row == Head(q[s].queued) IN
     /\ q' = [q EXCEPT ![s].active = row,
                       ![s].queued = Tail(@),
                       ![s].bytes = Minus(@, row.bytes)]
     /\ budget' = Released(budget, <<row>>)

\* The rows directly behind a coalescing front that fold into it: all of them
\* coalesce, and the merged payload stays within one request's limit.
FoldCount(rows) ==
  Max({k \in 0..(Len(rows) - 1) :
         \A i \in 2..(k + 1) :
            /\ Coalesces(rows[i])
            /\ SumBytes(SubSeq(rows, 1, i)) <= MaxRequestBytes})

DrainCoalescingAfterFirst(s) ==
  LET rows == q[s].queued IN
  /\ rows # << >>
  /\ Coalesces(rows[1])
  /\ FoldCount(rows) > 0
  /\ LET n == FoldCount(rows)
         folded == SubSeq(rows, 2, n + 1)
         kept == <<rows[1]>> \o SubSeq(rows, n + 2, Len(rows))
     IN /\ q' = [q EXCEPT ![s] = RememberTerminal(
                   [q[s] EXCEPT !.queued = kept,
                                !.bytes = Minus(@, SumBytes(folded))],
                   folded, "merged")]
        /\ budget' = Released(budget, folded)

ReleaseActivePayload(s) ==
  /\ q[s].active # NoRow
  /\ q' = [q EXCEPT ![s].active.bytes = 0]
  /\ UNCHANGED budget

FinishActive(s) ==
  /\ q[s].active # NoRow
  /\ q' = [q EXCEPT ![s] = RememberTerminal([@ EXCEPT !.active = NoRow],
                                            <<q[s].active>>, "settled")]
  /\ UNCHANGED budget

-----------------------------------------------------------------------------
(* Cancelling.                                                             *)

\* Mutant: a parked row is cancelled without giving its quota back.
CancelQueued_KeepsHeldQuota(s, run) ==
  LET st == q[s]
      held == PositionsOf(st.held, run)
      queued == PositionsOf(st.queued, run)
  IN \/ /\ held # {}
        /\ q' = [q EXCEPT ![s] = RememberTerminal(
                   [st EXCEPT !.held = RemoveAt(@, Min(held))],
                   <<st.held[Min(held)]>>, "cancelled")]
        /\ UNCHANGED budget
     \/ /\ held = {} /\ queued # {}
        /\ LET row == st.queued[Min(queued)] IN
           /\ q' = [q EXCEPT ![s] = RememberTerminal(
                      [st EXCEPT !.queued = RemoveAt(@, Min(queued)),
                                 !.bytes = Minus(@, row.bytes)],
                      <<row>>, "cancelled")]
           /\ budget' = Released(budget, <<row>>)

\* A parked row is found first; either way its quota is given back.
CancelQueued(s, run) ==
  LET st == q[s]
      held == PositionsOf(st.held, run)
      queued == PositionsOf(st.queued, run)
      row == IF held # {} THEN st.held[Min(held)] ELSE st.queued[Min(queued)]
      rest == IF held # {} THEN [st EXCEPT !.held = RemoveAt(@, Min(held))]
              ELSE [st EXCEPT !.queued = RemoveAt(@, Min(queued))]
  IN /\ held \cup queued # {}
     /\ q' = [q EXCEPT ![s] = RememberTerminal(
                [rest EXCEPT !.bytes = Minus(@, row.bytes)],
                <<row>>, "cancelled")]
     /\ budget' = Released(budget, <<row>>)

CancelAllQueued(s) ==
  LET rows == BySequence(q[s].queued \o q[s].held) IN
  /\ rows # << >>
  /\ q' = [q EXCEPT ![s] = RememberTerminal(
             [@ EXCEPT !.queued = << >>, !.held = << >>, !.bytes = 0],
             rows, "cancelled")]
  /\ budget' = Released(budget, rows)

-----------------------------------------------------------------------------
(* Parking prompts that waited too long.                                   *)

\* Wall-clock time passes the staleness line of a queued row.  accepted_at is
\* wall time, so the rows need not cross it in the order they were accepted.
GrowOld(s, i) ==
  /\ q[s].queued[i].at = "fresh"
  /\ q' = [q EXCEPT ![s].queued[i].at = "old"]
  /\ UNCHANGED budget

\* A boundary after a run charges no age; an unreadable stamp parks either way.
Parks(row, boundary) ==
  row.at = "unreadable" \/ (boundary = "idle" /\ row.at = "old")

ParkedAt(rows, boundary) == {i \in 1..Len(rows) : Parks(rows[i], boundary)}

\* Mutant: parked rows are not sorted in among the ones already held.
ParkStale_Unsorted(s, boundary) ==
  LET rows == q[s].queued
      parked == ParkedAt(rows, boundary)
  IN /\ parked # {}
     /\ q' = [q EXCEPT ![s].queued = Picked(rows, 1..Len(rows) \ parked),
                       ![s].held = @ \o Picked(rows, parked)]
     /\ UNCHANGED budget

ParkStale(s, boundary) ==
  LET rows == q[s].queued
      parked == ParkedAt(rows, boundary)
  IN /\ parked # {}
     /\ q' = [q EXCEPT ![s].queued = Picked(rows, 1..Len(rows) \ parked),
                       ![s].held = BySequence(@ \o Picked(rows, parked))]
     /\ UNCHANGED budget

\* The reader sends a parked prompt after all: back in its original place,
\* with its clock restarted.
ReleaseHeld(s, run) ==
  LET held == PositionsOf(q[s].held, run)
      row == q[s].held[Min(held)]
      later == {i \in 1..Len(q[s].queued) : q[s].queued[i].seq > row.seq}
      at == IF later = {} THEN Len(q[s].queued) + 1 ELSE Min(later)
  IN /\ held # {}
     /\ q' = [q EXCEPT ![s].held = RemoveAt(@, Min(held)),
                       ![s].queued = InsertAt(@, at, [row EXCEPT !.at = "fresh"])]
     /\ UNCHANGED budget

-----------------------------------------------------------------------------
Waiting(s) == q[s].queued \o q[s].held

Next ==
  \E s \in Sessions :
    \/ \E req \in Requests, want \in RunIds \cup {NoRun}, bytes \in Sizes :
         \/ \E policy \in Policies : Accept(s, req, want, policy, bytes)
         \/ "supersede_session" \in Policies /\ Supersede(s, req, want, bytes)
    \/ StartNext(s)
    \/ DrainCoalescingAfterFirst(s)
    \/ ReleaseActivePayload(s)
    \/ FinishActive(s)
    \/ \E run \in q[s].runs : CancelQueued(s, run)
    \/ CancelAllQueued(s)
    \/ \E i \in 1..Len(q[s].queued) : GrowOld(s, i)
    \/ \E boundary \in {"idle", "after_run"} : ParkStale(s, boundary)
    \/ \E run \in q[s].runs : ReleaseHeld(s, run)

Spec == Init /\ [][Next]_vars

-----------------------------------------------------------------------------
(* Properties.                                                             *)

Row == [run : RunIds \cup (Sessions \X Nat), seq : Nat, req : Requests,
        digest : (RunIds \cup {NoRun}) \X AllPolicies \X Sizes,
        policy : AllPolicies, bytes : Sizes \cup {0},
        at : {"fresh", "old", "unreadable"}]

TypeOK ==
  /\ budget \in [count : Nat, bytes : Nat]
  /\ \A s \in Sessions :
       /\ q[s].next \in 1..MaxSequence
       /\ q[s].active \in Row \cup {NoRow}
       /\ q[s].queued \in Seq(Row) /\ q[s].held \in Seq(Row)
       /\ q[s].bytes \in Nat
       /\ q[s].runs \subseteq RunIds \cup (Sessions \X Nat)
       /\ Len(q[s].acks) <= AckLimit

\* Everything a session still answers for: waiting, running and remembered.
LiveRows(s) == Waiting(s) \o (IF q[s].active = NoRow THEN << >>
                              ELSE <<q[s].active>>)

\* Every accepted prompt is in exactly one place (queued, parked, running or
\* remembered as terminal), under one run id and one client request id, and
\* the two identity tables hold those and nothing else: whatever is cancelled,
\* merged, superseded or evicted, nothing is lost, duplicated or leaked.
Accounted ==
  \A s \in Sessions :
    LET known == LiveRows(s) \o q[s].acks IN
    /\ \A i, j \in 1..Len(known) :
         known[i].run = known[j].run \/ known[i].req = known[j].req => i = j
    /\ q[s].runs = {known[i].run : i \in 1..Len(known)}
    /\ {c \in Requests : q[s].requests[c] # NoIdentity}
         = {known[i].req : i \in 1..Len(known)}

\* A retry of a live prompt is answered with that prompt's own run: its
\* identity still names the row that is waiting or running.
RetryFindsItsRun ==
  \A s \in Sessions : \A row \in ToSet(LiveRows(s)) :
    q[s].requests[row.req] = Identity(row)

\* The dequeue order and the order of the parked prompts are the order of
\* acceptance, through any mix of parking, releasing and folding.
AcceptanceOrder ==
  \A s \in Sessions : \A rows \in {q[s].queued, q[s].held} :
    \A i, j \in 1..Len(rows) : i < j => rows[i].seq < rows[j].seq

\* The shared budget counts every waiting prompt of every session once, and
\* each session's byte count and the shared one are the bytes waiting there.
CountExact ==
  budget.count = MapThenSumSet(LAMBDA s : Len(Waiting(s)), Sessions)

BytesExact ==
  /\ \A s \in Sessions : q[s].bytes = SumBytes(Waiting(s))
  /\ budget.bytes = MapThenSumSet(LAMBDA s : SumBytes(Waiting(s)), Sessions)

\* supersede releases the bytes of parked prompts that stay parked.
ForgetsParked(s) ==
  /\ q[s].held # << >> /\ q'[s].next > q[s].next
  /\ Last(q'[s].queued).policy = "supersede_session"

\* No step that accepts, folds, starts, parks, releases or cancels prompts
\* makes the shared count or either byte count drift from what really waits,
\* whoever competes for the budget: a release that is missed or doubled would
\* starve or overfill every session.  The one exception is the bytes of a
\* session that has parked prompts and is superseded.
BudgetExact ==
  [][/\ CountExact => CountExact'
     /\ BytesExact => BytesExact' \/ \E s \in Sessions : ForgetsParked(s)]_vars
=============================================================================
