------------------------- MODULE EventJournal_proofs -------------------------
(***************************************************************************)
(* Proofs about EventJournal, for every number of events, runs, faults and *)
(* producers and every size of a batch.                                    *)
(***************************************************************************)
EXTENDS EventJournal, FiniteSetTheorems, WellFoundedInduction, TLAPS

Event == [stream : Runs, idx : Nat, bad : BOOLEAN, durable : BOOLEAN]
Receipts == {"none", "open", "ok", "rejected", "unavailable"}
Writer == [at : {"starting", "running", "exited"}, consumed : 0..MaxEvents,
           pending : Seq(Seqs), failed : BOOLEAN, due : BOOLEAN,
           held : Control \cup {NoControl}]
Fence == [st : {"none", "queued", "ok", "err"}, target : 0..MaxEvents]
Store == [cursor : [Runs -> Int], landed : SUBSET Seqs, sealed : SUBSET Runs]
Dropped == [refused : SUBSET Seqs, lost : SUBSET Seqs]

Types ==
  /\ ev \in Seq(Event) /\ Len(ev) <= MaxEvents
  /\ idx \in [Runs -> Nat]
  /\ health \in {"ok", "error"} /\ closed \in BOOLEAN
  /\ body \in Seq(Seqs) /\ lane \in Seq(Control)
  /\ writer \in Writer
  /\ receipt \in [Seqs -> Receipts]
  /\ waiting \in [Producers -> 0..MaxEvents]
  /\ fence \in [Callers -> Fence]
  /\ store \in Store
  /\ dropped \in Dropped
  /\ run \in Runs
  /\ phase \in {"active", "fencing", "commit", "publish", "ended", "starting",
                "recovering"}
  /\ terminal \in [Runs -> {"none", "live", "unsaved", "missing"}]
  /\ faults \in 0..MaxFaults

\* The events of a stream are numbered upwards, below the stream's next index;
\* a stream to come has none.
Numbered ==
  /\ \A e \in 1..Len(ev) : ev[e].stream <= run /\ ev[e].idx < idx[ev[e].stream]
  /\ \A e, f \in 1..Len(ev) :
       e < f /\ ev[e].stream = ev[f].stream => ev[e].idx < ev[f].idx
  /\ \A r \in Runs : r > run => idx[r] = 0

\* The channel holds what was admitted and not taken in, in that order.
Channel ==
  /\ Len(ev) = writer.consumed + Len(body)
  /\ \A i \in 1..Len(body) : body[i] = writer.consumed + i

Ascending(q) == \A i, j \in 1..Len(q) : i < j => q[i] < q[j]

Elems(q) == At(q, 1..Len(q))

\* What was taken in is buffered, in the order of admission, or settled.
Buffered ==
  /\ Ascending(writer.pending)
  /\ \A i \in 1..Len(writer.pending) : writer.pending[i] <= writer.consumed
  /\ 1..writer.consumed \subseteq Elems(writer.pending) \cup Settled

\* In a store whose stream is open, the cursor tells exactly which events of
\* the stream have landed; a sealed stream keeps what it had.
Stored(s) ==
  /\ s.landed \subseteq 1..Len(ev)
  /\ \A r \in Runs \ s.sealed : -1 <= s.cursor[r] /\ s.cursor[r] < idx[r]
  /\ \A e \in 1..Len(ev) : ev[e].stream \notin s.sealed =>
       (e \in s.landed <=> ev[e].idx <= s.cursor[ev[e].stream])
  /\ \A e \in s.landed : ev[e].idx <= s.cursor[ev[e].stream]
  /\ \A e, f \in 1..Len(ev) :
       e < f /\ ev[e].stream = ev[f].stream /\ f \in s.landed => e \in s.landed

\* The answers rc say what the store s has.
Says(rc, s) ==
  \A e \in Seqs : /\ rc[e] = "ok" => e \in s.landed
                  /\ rc[e] = "rejected" => e \notin s.landed

\* Nothing that can still be flushed was reported as refused.
Truthful ==
  /\ Says(receipt, store)
  /\ \A i \in 1..Len(writer.pending) : receipt[writer.pending[i]] # "rejected"
  /\ \A e \in Seqs : e > writer.consumed => receipt[e] # "rejected"

Queued(n) == [st |-> "queued", target |-> n]

\* A barrier in the lane or in the writer's hand is the one its caller waits
\* for, and each caller has one.
Fences ==
  writer.at # "exited" =>
    /\ writer.at = "starting" => writer.held = NoControl
    /\ writer.held # NoControl =>
         /\ fence[writer.held.from] = Queued(writer.held.target)
         /\ \A i \in 1..Len(lane) : lane[i].from # writer.held.from
    /\ \A i \in 1..Len(lane) : fence[lane[i].from] = Queued(lane[i].target)
    /\ \A i, j \in 1..Len(lane) : lane[i].from = lane[j].from => i = j

\* Admission is closed before the shutdown takes its target.
Shut == fence["shutdown"] # Idle => closed /\ fence["shutdown"].target = Len(ev)

\* An event of a run that is not in the store.
Missed(r) == \E e \in 1..Len(ev) : ev[e].stream = r /\ e \notin store.landed

\* Until its end the run's next index follows its last event; when the
\* terminal is committed its cursor is that index, unless an event is missing.
Ends ==
  /\ \A r \in store.sealed : r <= run
  /\ phase \in {"active", "fencing", "commit"} =>
       /\ run \notin store.sealed
       /\ \/ idx[run] = 0
          \/ \E e \in 1..Len(ev) : ev[e].stream = run /\ ev[e].idx = idx[run] - 1
  /\ phase = "publish" =>
       run \in store.sealed /\ (store.cursor[run] = idx[run] \/ Missed(run))
  /\ phase = "starting" => run < MaxRuns
  /\ \A r \in Runs : terminal[r] = "missing" => r \in store.sealed /\ Missed(r)

IInv ==
  /\ Types /\ Numbered /\ Channel /\ Buffered /\ Stored(store) /\ Truthful
  /\ Fences /\ Shut /\ BarrierCovers /\ Ends

-----------------------------------------------------------------------------
(* Recursion and greatest elements, from least elements.                   *)

\* A set of naturals has a least element.
LEMMA LeastElement ==
  ASSUME NEW S \in SUBSET Nat, S # {}
  PROVE  \E x \in S : \A y \in S : x <= y
<1>1. PICK x \in S : \A y \in S : ~(<<y, x>> \in OpToRel(<, Nat))
  BY NatLessThanWellFounded, WFMin, Zenon
<1>2. \A y \in S : ~(y < x)
  BY <1>1 DEF OpToRel
<1> QED
  BY <1>2

\* A nonempty set of naturals up to n has the maximum that Max chooses.
LEMMA MaxBelow ==
  ASSUME NEW n \in Nat, NEW S \in SUBSET (0..n), S # {}
  PROVE  Max(S) \in S
<1> DEFINE T == {n - x : x \in S}
<1>0. \A x \in S : x \in 0..n
  OBVIOUS
<1>1. T # {}
  OBVIOUS
<1>1a. T \in SUBSET Nat
  BY <1>0
<1>2. PICK t \in T : \A y \in T : t <= y
  BY <1>1, <1>1a, LeastElement, Zenon
<1>3. PICK x \in S : t = n - x
  OBVIOUS
<1>4. \A y \in S : x >= y
  BY <1>0, <1>2, <1>3
<1> QED
  BY <1>4 DEF Max

\* The larger of two integers.
LEMMA MaxOfTwo ==
  ASSUME NEW a \in Int, NEW b \in Int
  PROVE  Max({a, b}) = IF a >= b THEN a ELSE b
<1>1. PICK x \in {a, b} : \A y \in {a, b} : x >= y
  OBVIOUS
<1>2. Max({a, b}) \in {a, b} /\ \A y \in {a, b} : Max({a, b}) >= y
  BY <1>1 DEF Max
<1> QED
  BY <1>2

\* One step of persisting a batch.
Tried(x, batch, down, i) ==
  IF i \notin down /\ Lands(x, batch[i]) THEN Landed(x, batch[i]) ELSE x

PersistsTo(f, n, s, batch, down) ==
  f = [i \in 0..n |-> IF i = 0 THEN s ELSE Tried(f[i-1], batch, down, i)]

\* The recursion of Persisted has a solution, for a prefix of every length.
LEMMA PersistedExists ==
  ASSUME NEW s, NEW batch, NEW down, NEW N \in Nat
  PROVE  \E f : PersistsTo(f, N, s, batch, down)
<1> DEFINE S == {n \in Nat : ~ \E f : PersistsTo(f, n, s, batch, down)}
<1>1. SUFFICES ASSUME S # {} PROVE FALSE
  OBVIOUS
<1>2. PICK n \in S : \A k \in S : n <= k
  BY <1>1, LeastElement, Zenon
<1>3. n # 0
  <2>1. PersistsTo([i \in 0..0 |-> s], 0, s, batch, down)
    BY DEF PersistsTo
  <2> QED
    BY <2>1
<1>4. n - 1 \in Nat /\ n - 1 \notin S
  BY <1>2, <1>3
<1>5. PICK f : PersistsTo(f, n - 1, s, batch, down)
  BY <1>4
<1> DEFINE g == [i \in 0..n |->
                   IF i < n THEN f[i] ELSE Tried(f[n-1], batch, down, n)]
<1>6. PersistsTo(g, n, s, batch, down)
  <2>1. ASSUME NEW i \in 0..n
        PROVE  g[i] = IF i = 0 THEN s ELSE Tried(g[i-1], batch, down, i)
    BY <1>3, <1>5 DEF PersistsTo
  <2>2. g = [i \in 0..n |-> g[i]]
    OBVIOUS
  <2> HIDE DEF g
  <2> QED
    BY <2>1, <2>2 DEF PersistsTo
<1> QED
  BY <1>6

\* Persisted computes the store after each event in turn.
LEMMA PersistedSteps ==
  ASSUME NEW s, NEW batch, NEW down, Len(batch) \in Nat
  PROVE  /\ Persisted(s, batch, down)[0] = s
         /\ \A i \in 1..Len(batch) :
              Persisted(s, batch, down)[i] =
                Tried(Persisted(s, batch, down)[i-1], batch, down, i)
<1>1. PICK f : PersistsTo(f, Len(batch), s, batch, down)
  BY PersistedExists
<1>2. PersistsTo(Persisted(s, batch, down), Len(batch), s, batch, down)
  BY <1>1 DEF Persisted, PersistsTo, Tried
<1> QED
  BY <1>2 DEF PersistsTo

\* One step of collecting the events in E.
Push(q, e, E) == IF e \in E THEN Append(q, e) ELSE q

Pushed(f, n, batch, E) ==
  f = [i \in 0..n |-> IF i = 0 THEN << >> ELSE Push(f[i-1], batch[i], E)]

\* The recursion of Retry has a solution, for a prefix of every length.
LEMMA RetryExists ==
  ASSUME NEW batch, NEW E, NEW N \in Nat
  PROVE  \E f : Pushed(f, N, batch, E)
<1> DEFINE S == {n \in Nat : ~ \E f : Pushed(f, n, batch, E)}
<1>1. SUFFICES ASSUME S # {} PROVE FALSE
  OBVIOUS
<1>2. PICK n \in S : \A k \in S : n <= k
  BY <1>1, LeastElement, Zenon
<1>3. n # 0
  <2>1. Pushed([i \in 0..0 |-> << >>], 0, batch, E)
    BY DEF Pushed
  <2> QED
    BY <2>1
<1>4. n - 1 \in Nat /\ n - 1 \notin S
  BY <1>2, <1>3
<1>5. PICK f : Pushed(f, n - 1, batch, E)
  BY <1>4
<1> DEFINE g == [i \in 0..n |->
                   IF i < n THEN f[i] ELSE Push(f[n-1], batch[n], E)]
<1>6. Pushed(g, n, batch, E)
  <2>1. ASSUME NEW i \in 0..n
        PROVE  g[i] = IF i = 0 THEN << >> ELSE Push(g[i-1], batch[i], E)
    BY <1>3, <1>5 DEF Pushed
  <2>2. g = [i \in 0..n |-> g[i]]
    OBVIOUS
  <2> HIDE DEF g
  <2> QED
    BY <2>1, <2>2 DEF Pushed
<1> QED
  BY <1>6

\* Retry keeps the order of a batch and exactly the events it is given.
LEMMA RetryKeeps ==
  ASSUME NEW batch \in Seq(Seqs), Ascending(batch), NEW E
  PROVE  /\ Retry(batch, E) \in Seq(Seqs) /\ Ascending(Retry(batch, E))
         /\ Elems(Retry(batch, E)) = Elems(batch) \cap E
<1>0. Len(batch) \in Nat
  OBVIOUS
<1>1. PICK f : Pushed(f, Len(batch), batch, E)
  BY <1>0, RetryExists
<1> DEFINE g == CHOOSE h : Pushed(h, Len(batch), batch, E)
<1>2. Pushed(g, Len(batch), batch, E)
  BY <1>1
<1>3. Retry(batch, E) = g[Len(batch)]
  BY DEF Retry, Pushed, Push
<1> HIDE DEF g
<1>4. /\ g[0] = << >>
      /\ \A i \in 1..Len(batch) : g[i] = Push(g[i-1], batch[i], E)
  BY <1>0, <1>2 DEF Pushed
<1> DEFINE Good(i) == /\ g[i] \in Seq(Seqs) /\ Ascending(g[i])
                      /\ Elems(g[i]) = At(batch, 1..i) \cap E
<1>5. Good(0)
  BY <1>4 DEF Ascending, Elems, At
<1>6. ASSUME NEW i \in 1..Len(batch), Good(i-1)
      PROVE  Good(i)
  <2> DEFINE q == g[i-1]
  <2>1. CASE batch[i] \notin E
    <3>1. g[i] = q
      BY <1>4, <2>1 DEF Push
    <3>2. At(batch, 1..i) \cap E = At(batch, 1..(i-1)) \cap E
      BY <1>0, <2>1 DEF At
    <3> QED
      BY <1>6, <3>1, <3>2
  <2>2. CASE batch[i] \in E
    <3>0. q \in Seq(Seqs) /\ batch[i] \in Seqs
      BY <1>6
    <3>1. g[i] = Append(q, batch[i])
      BY <1>4, <2>2 DEF Push
    <3>2. \A k \in 1..Len(q) : q[k] < batch[i]
      <4> SUFFICES ASSUME NEW k \in 1..Len(q)
                   PROVE  q[k] < batch[i]
        OBVIOUS
      <4>1. q[k] \in Elems(q)
        BY DEF Elems, At
      <4>2. PICK j \in 1..(i-1) : q[k] = batch[j]
        BY <1>6, <4>1 DEF At
      <4> QED
        BY <1>0, <4>2 DEF Ascending
    <3>3. Ascending(g[i])
      BY <1>6, <3>0, <3>1, <3>2 DEF Ascending, Seqs
    <3>4. Elems(g[i]) = Elems(q) \cup {batch[i]}
      <4> HIDE DEF q
      <4>1. Len(g[i]) = Len(q) + 1 /\ Len(q) \in Nat
        BY <3>0, <3>1
      <4>2. \A k \in 1..Len(g[i]) :
              g[i][k] = IF k <= Len(q) THEN q[k] ELSE batch[i]
        BY <3>0, <3>1
      <4> QED
        BY <4>1, <4>2 DEF Elems, At
    <3>5. At(batch, 1..i) \cap E = (At(batch, 1..(i-1)) \cap E) \cup {batch[i]}
      BY <1>0, <2>2 DEF At
    <3>6. g[i] \in Seq(Seqs)
      BY <3>0, <3>1
    <3> QED
      BY <1>6, <3>3, <3>4, <3>5, <3>6
  <2> QED
    BY <2>1, <2>2
<1>7. \A i \in 0..Len(batch) : Good(i)
  <2> DEFINE S == {i \in 0..Len(batch) : ~Good(i)}
  <2> HIDE DEF Good
  <2>1. SUFFICES ASSUME S # {} PROVE FALSE
    OBVIOUS
  <2>2. S \in SUBSET Nat
    BY <1>0
  <2>3. PICK n \in S : \A k \in S : n <= k
    BY <2>1, <2>2, LeastElement, Zenon
  <2> QED
    BY <1>0, <1>5, <1>6, <2>3
<1> QED
  BY <1>0, <1>3, <1>7 DEF Elems

-----------------------------------------------------------------------------
(* What a store makes of a batch.                                          *)

\* The store t is s with some of the events E landed.
Grown(s, t, E) ==
  /\ t \in Store /\ Stored(t) /\ t.sealed = s.sealed
  /\ s.landed \subseteq t.landed /\ t.landed \subseteq s.landed \cup E
  /\ \A r \in s.sealed : t.cursor[r] = s.cursor[r]
  /\ \A e \in t.landed : e \in s.landed \/ ev[e].stream \notin s.sealed

\* An event that lands continues its stream.
LEMMA LandedGrows ==
  ASSUME Types, Numbered, NEW s \in Store, Stored(s), NEW e \in 1..Len(ev),
         Lands(s, e)
  PROVE  Grown(s, Landed(s, e), {e}) /\ e \in Landed(s, e).landed
<1> DEFINE t == Landed(s, e)
           x == ev[e].stream
<1>0. (\A f \in 1..Len(ev) : ev[f] \in Event) /\ Len(ev) \in Nat
  BY DEF Types
<1>1. /\ x \in Runs /\ ev[e].idx \in Nat /\ e \in Seqs
      /\ \A f \in 1..Len(ev) : ev[f].stream \in Runs /\ ev[f].idx \in Nat
  BY <1>0, BoundsAssumption DEF Types, Event, Seqs
<1>2. s.cursor \in [Runs -> Int] /\ s.landed \subseteq Seqs /\ s.sealed \subseteq Runs
  BY DEF Store
<1>3. CASE e \in s.landed
  <2>1. Max({s.cursor[x], ev[e].idx}) = s.cursor[x]
    <3>1. ev[e].idx <= s.cursor[x]
      BY <1>3 DEF Stored
    <3>2. s.cursor[x] \in Int /\ ev[e].idx \in Int
      BY <1>1, <1>2
    <3> QED
      BY <3>1, <3>2, MaxOfTwo
  <2>2. t = [s EXCEPT !.cursor = [s.cursor EXCEPT ![x] = s.cursor[x]],
                      !.landed = s.landed \cup {e}]
    BY <2>1 DEF Landed
  <2>3. [s.cursor EXCEPT ![x] = s.cursor[x]] = s.cursor /\ s.landed \cup {e} = s.landed
    BY <1>2, <1>3
  <2>4. t = s
    BY <2>2, <2>3 DEF Store
  <2> QED
    BY <1>3, <2>4 DEF Grown
<1>4. CASE e \notin s.landed
  <2>1. x \notin s.sealed /\ ev[e].idx = s.cursor[x] + 1
    BY <1>4 DEF Lands
  <2>2. Max({s.cursor[x], ev[e].idx}) = ev[e].idx
    BY <1>1, <1>2, <2>1, MaxOfTwo
  <2>3. t = [s EXCEPT !.cursor = [s.cursor EXCEPT ![x] = ev[e].idx],
                      !.landed = s.landed \cup {e}]
    BY <2>2 DEF Landed
  <2>4. /\ t.cursor = [s.cursor EXCEPT ![x] = ev[e].idx]
        /\ t.landed = s.landed \cup {e} /\ t.sealed = s.sealed /\ t \in Store
    <3> DEFINE c == [s.cursor EXCEPT ![x] = ev[e].idx]
               l == s.landed \cup {e}
    <3>1. c \in [Runs -> Int] /\ l \in SUBSET Seqs
      BY <1>1, <1>2
    <3>2. t = [s EXCEPT !.cursor = c, !.landed = l]
      BY <2>3
    <3> HIDE DEF c, l, t
    <3>3. t.cursor = c /\ t.landed = l /\ t.sealed = s.sealed /\ t \in Store
      BY <3>1, <3>2 DEF Store
    <3> QED
      BY <3>3 DEF c, l
  <2> HIDE DEF t
  <2>5. /\ t.cursor[x] = ev[e].idx
        /\ \A r \in Runs : r # x => t.cursor[r] = s.cursor[r]
    BY <1>1, <1>2, <2>4
  <2>6. \A f \in 1..Len(ev) :
          ev[f].stream = x /\ ev[f].idx <= ev[e].idx => f = e \/ f \in s.landed
    <3> SUFFICES ASSUME NEW f \in 1..Len(ev), ev[f].stream = x,
                        ev[f].idx <= ev[e].idx, f # e
                 PROVE  f \in s.landed
      OBVIOUS
    <3>1. ev[f].idx \in Nat /\ ev[f].idx # ev[e].idx
      BY <1>1 DEF Numbered
    <3> QED
      BY <1>1, <1>2, <2>1, <3>1 DEF Stored
  <2>7. Stored(t)
    <3>1. t.landed \subseteq 1..Len(ev)
      BY <2>4 DEF Stored
    <3>2. \A r \in Runs \ t.sealed : -1 <= t.cursor[r] /\ t.cursor[r] < idx[r]
      BY <1>1, <2>4, <2>5 DEF Stored, Numbered
    <3>3. \A f \in t.landed : ev[f].idx <= t.cursor[ev[f].stream]
      <4> SUFFICES ASSUME NEW f \in t.landed
                   PROVE  ev[f].idx <= t.cursor[ev[f].stream]
        OBVIOUS
      <4>1. f \in 1..Len(ev) /\ ev[f].stream \in Runs /\ ev[f].idx \in Nat
        BY <1>1, <3>1
      <4>2. CASE f = e
        BY <1>1, <2>5, <4>2
      <4>3. CASE f \in s.landed
        <5>1. ev[f].idx <= s.cursor[ev[f].stream]
          BY <4>3 DEF Stored
        <5>2. s.cursor[ev[f].stream] \in Int /\ s.cursor[x] \in Int
          BY <1>1, <1>2, <4>1
        <5>3. CASE ev[f].stream = x
          BY <1>1, <2>1, <2>5, <4>1, <5>1, <5>2, <5>3
        <5>4. CASE ev[f].stream # x
          BY <2>5, <4>1, <5>1, <5>4
        <5> QED
          BY <5>3, <5>4
      <4> QED
        BY <2>4, <4>2, <4>3
    <3>4. \A f \in 1..Len(ev) : ev[f].stream \notin t.sealed =>
            (f \in t.landed <=> ev[f].idx <= t.cursor[ev[f].stream])
      <4> SUFFICES ASSUME NEW f \in 1..Len(ev), ev[f].stream \notin t.sealed,
                          ev[f].idx <= t.cursor[ev[f].stream]
                   PROVE  f \in t.landed
        BY <3>3
      <4>1. ev[f].stream \in Runs /\ ev[f].idx \in Nat
        BY <1>1
      <4> QED
        BY <2>4, <2>5, <2>6, <4>1 DEF Stored
    <3>5. \A f, g \in 1..Len(ev) :
            f < g /\ ev[f].stream = ev[g].stream /\ g \in t.landed =>
              f \in t.landed
      <4> SUFFICES ASSUME NEW f \in 1..Len(ev), NEW g \in 1..Len(ev), f < g,
                          ev[f].stream = ev[g].stream, g \in t.landed
                   PROVE  f \in t.landed
        OBVIOUS
      <4>1. CASE g \in s.landed
        BY <2>4, <4>1 DEF Stored
      <4>2. CASE g = e
        <5>1. ev[f].idx < ev[e].idx /\ ev[f].idx \in Nat
          BY <1>1, <4>2 DEF Numbered
        <5> QED
          BY <1>1, <2>4, <2>6, <4>2, <5>1
      <4> QED
        BY <2>4, <4>1, <4>2
    <3> QED
      BY <3>1, <3>2, <3>3, <3>4, <3>5 DEF Stored
  <2>8. Grown(s, t, {e})
    BY <1>1, <1>2, <2>1, <2>4, <2>5, <2>7 DEF Grown
  <2> QED
    BY <2>4, <2>8 DEF t
<1> QED
  BY <1>3, <1>4

\* Growing twice is growing.
LEMMA GrownTwice ==
  ASSUME NEW s, NEW t, NEW u, NEW E, NEW F, NEW G, Grown(s, t, E), Grown(t, u, F),
         E \cup F \subseteq G
  PROVE  Grown(s, u, G)
BY DEF Grown

\* Between two events of a batch a store grows by what was tried between them.
LEMMA PersistedGrows ==
  ASSUME Types, Numbered, NEW s, NEW batch \in Seq(Seqs), NEW down,
         \A i \in 1..Len(batch) : batch[i] <= Len(ev),
         NEW a \in 0..Len(batch), Persisted(s, batch, down)[a] \in Store,
         Stored(Persisted(s, batch, down)[a])
  PROVE  \A b \in a..Len(batch) :
           Grown(Persisted(s, batch, down)[a], Persisted(s, batch, down)[b],
                 At(batch, (a+1)..b))
<1> DEFINE P == Persisted(s, batch, down)
           Good(b) == Grown(P[a], P[b], At(batch, (a+1)..b))
<1>0. Len(batch) \in Nat
  OBVIOUS
<1>1. \A i \in 1..Len(batch) : P[i] = Tried(P[i-1], batch, down, i)
  BY <1>0, PersistedSteps
<1> HIDE DEF P
<1>2. P[a] \in Store /\ Stored(P[a])
  BY DEF P
<1>3. Good(a)
  BY <1>2 DEF Grown
<1>4. ASSUME NEW b \in (a+1)..Len(batch), Good(b-1)
      PROVE  Good(b)
  <2> DEFINE x == P[b-1]
  <2>1. x \in Store /\ Stored(x)
    BY <1>4 DEF Grown
  <2>2. batch[b] \in 1..Len(ev) /\ b \in 1..Len(batch)
    <3>1. b \in 1..Len(batch)
      BY <1>0
    <3>2. batch[b] \in Seqs /\ Len(ev) \in Nat
      BY <3>1 DEF Types
    <3> QED
      BY <3>1, <3>2 DEF Seqs
  <2>3. P[b] = Tried(x, batch, down, b)
    BY <1>1, <2>2
  <2> HIDE DEF x
  <2>4. Grown(x, P[b], {batch[b]})
    <3>1. CASE P[b] = x
      BY <2>1, <3>1 DEF Grown
    <3>2. CASE P[b] = Landed(x, batch[b]) /\ Lands(x, batch[b])
      BY <2>1, <2>2, <3>2, LandedGrows
    <3> QED
      BY <2>3, <3>1, <3>2 DEF Tried
  <2>5. At(batch, (a+1)..(b-1)) \cup {batch[b]} \subseteq At(batch, (a+1)..b)
    BY DEF At
  <2> QED
    BY <1>4, <2>4, <2>5, GrownTwice DEF x
<1>5. \A b \in a..Len(batch) : Good(b)
  <2> DEFINE S == {b \in a..Len(batch) : ~Good(b)}
  <2> HIDE DEF Good
  <2>1. SUFFICES ASSUME S # {} PROVE FALSE
    OBVIOUS
  <2>2. S \in SUBSET Nat
    BY <1>0
  <2>3. PICK n \in S : \A k \in S : n <= k
    BY <2>1, <2>2, LeastElement, Zenon
  <2> QED
    BY <1>0, <1>3, <1>4, <2>3
<1> QED
  BY <1>5 DEF P
-----------------------------------------------------------------------------
(* flush_event_batch *)

\* What a flush starts from: the buffered events with the receipts rc.
FlushPre(batch, rc) ==
  /\ batch \in Seq(Seqs) /\ Ascending(batch)
  /\ \A i \in 1..Len(batch) : batch[i] <= Len(ev)
  /\ rc \in [Seqs -> Receipts] /\ Says(rc, store)
  /\ \A i \in 1..Len(batch) : rc[batch[i]] # "rejected"

\* What it leaves: every event of the batch is stored, given up or kept, and
\* answered accordingly; a flush that did not fail keeps nothing.
FlushPost(o, batch, rc) ==
  /\ Grown(store, o.store, Elems(batch))
  /\ o.pending \in Seq(Seqs) /\ Ascending(o.pending)
  /\ Elems(o.pending) \subseteq Elems(batch)
  /\ o.dropped \in Dropped
  /\ dropped.refused \subseteq o.dropped.refused
  /\ dropped.lost \subseteq o.dropped.lost
  /\ Elems(batch) \subseteq Elems(o.pending) \cup o.store.landed
                             \cup o.dropped.refused \cup o.dropped.lost
  /\ o.receipt \in [Seqs -> Receipts] /\ Says(o.receipt, o.store)
  /\ \A e \in Elems(o.pending) : o.receipt[e] # "rejected"
  /\ \A e \in Seqs : e \notin Elems(batch) => o.receipt[e] = rc[e]
  /\ o.health \in {"ok", "error"} /\ o.failed \in BOOLEAN
  /\ o.faults \in 0..MaxFaults
  /\ ~o.failed => o.pending = << >>

\* Only open receipts are answered.
LEMMA AnsweredIs ==
  ASSUME NEW rc \in [Seqs -> Receipts], NEW E,
         NEW a \in {"ok", "rejected", "unavailable"}
  PROVE  /\ Answered(rc, E, a) \in [Seqs -> Receipts]
         /\ \A e \in Seqs :
              \/ Answered(rc, E, a)[e] = rc[e]
              \/ e \in E /\ rc[e] = "open" /\ Answered(rc, E, a)[e] \in {a, "none"}
<1> DEFINE x(e) == IF e \notin E \/ rc[e] # "open" THEN rc[e]
                   ELSE IF \E p \in Producers : waiting[p] = e THEN a ELSE "none"
<1>1. ASSUME NEW e \in Seqs
      PROVE  /\ x(e) \in Receipts
             /\ x(e) = rc[e] \/ (e \in E /\ rc[e] = "open" /\ x(e) \in {a, "none"})
  BY DEF Receipts
<1>2. Answered(rc, E, a) = [e \in Seqs |-> x(e)]
  BY DEF Answered
<1> HIDE DEF x
<1> QED
  BY <1>1, <1>2

\* The store on its way through a batch.
LEMMA BatchPersists ==
  ASSUME Types, Numbered, NEW batch \in Seq(Seqs), NEW down,
         \A i \in 1..Len(batch) : batch[i] <= Len(ev),
         NEW s, Grown(store, s, Elems(batch))
  PROVE  \A b \in 0..Len(batch) :
           /\ Grown(store, Persisted(s, batch, down)[b], Elems(batch))
           /\ \A c \in b..Len(batch) :
                Grown(Persisted(s, batch, down)[b], Persisted(s, batch, down)[c],
                      At(batch, (b+1)..c))
<1> DEFINE P == Persisted(s, batch, down)
<1>0. Len(batch) \in Nat /\ 0 \in 0..Len(batch)
  OBVIOUS
<1>1. P[0] = s /\ s \in Store /\ Stored(s)
  BY <1>0, PersistedSteps DEF Grown
<1>2. \A c \in 0..Len(batch) : Grown(P[0], P[c], At(batch, (0+1)..c))
  <2> HIDE DEF P
  <2> QED
    BY <1>0, <1>1, PersistedGrows DEF P
<1> SUFFICES ASSUME NEW b \in 0..Len(batch)
             PROVE  /\ Grown(store, P[b], Elems(batch))
                    /\ \A c \in b..Len(batch) :
                         Grown(P[b], P[c], At(batch, (b+1)..c))
  OBVIOUS
<1>3. At(batch, (0+1)..b) \subseteq Elems(batch)
  BY <1>0 DEF At, Elems
<1>4. Grown(store, P[b], Elems(batch))
  <2> HIDE DEF P
  <2>1. Grown(s, P[b], At(batch, (0+1)..b))
    BY <1>1, <1>2
  <2>2. Elems(batch) \cup At(batch, (0+1)..b) \subseteq Elems(batch)
    BY <1>3
  <2> QED
    BY <2>1, <2>2, GrownTwice
<1>5. \A c \in b..Len(batch) : Grown(P[b], P[c], At(batch, (b+1)..c))
  <2>1. P[b] \in Store /\ Stored(P[b])
    BY <1>4 DEF Grown
  <2> QED
    BY <2>1, PersistedGrows
<1> QED
  BY <1>4, <1>5

\* An event of a batch that landed when it was tried is in the store at the
\* end, and one that was refused is not.
LEMMA BatchDecides ==
  ASSUME Types, Numbered, NEW batch \in Seq(Seqs), NEW down, Ascending(batch),
         \A i \in 1..Len(batch) : batch[i] <= Len(ev),
         NEW s, Grown(store, s, Elems(batch)),
         NEW i \in 1..Len(batch), i \notin down
  PROVE  batch[i] \in Persisted(s, batch, down)[Len(batch)].landed
           <=> Lands(Persisted(s, batch, down)[i-1], batch[i])
<1> DEFINE P == Persisted(s, batch, down)
           n == Len(batch)
<1>0. n \in Nat /\ i - 1 \in 0..n /\ i \in 0..n /\ n \in i..n
  OBVIOUS
<1>1. P[i] = Tried(P[i-1], batch, down, i)
  BY <1>0, PersistedSteps
<1>2. /\ Grown(store, P[i-1], Elems(batch))
      /\ Grown(P[i], P[n], At(batch, (i+1)..n))
  BY <1>0, BatchPersists
<1> HIDE DEF P
<1>3. CASE Lands(P[i-1], batch[i])
  <2>1. P[i] = Landed(P[i-1], batch[i])
    BY <1>1, <1>3 DEF Tried
  <2>2. batch[i] \in 1..Len(ev)
    <3>1. batch[i] \in Seqs /\ Len(ev) \in Nat
      BY DEF Types
    <3> QED
      BY <3>1 DEF Seqs
  <2>3. batch[i] \in P[i].landed
    BY <1>2, <1>3, <2>1, <2>2, LandedGrows DEF Grown
  <2> QED
    BY <1>2, <1>3, <2>3 DEF Grown, P
<1>4. CASE ~Lands(P[i-1], batch[i])
  <2>1. P[i] = P[i-1] /\ batch[i] \notin P[i].landed
    BY <1>1, <1>4 DEF Tried, Lands
  <2>2. batch[i] \notin At(batch, (i+1)..n)
    <3> SUFFICES ASSUME NEW j \in (i+1)..n, batch[i] = batch[j]
                 PROVE  FALSE
      BY DEF At
    <3>1. j \in 1..n /\ i < j
      BY <1>0
    <3>2. batch[i] \in Seqs /\ batch[j] \in Seqs
      BY <3>1
    <3>3. batch[i] < batch[j]
      BY <3>1 DEF Ascending
    <3> QED
      BY <3>2, <3>3 DEF Seqs
  <2> QED
    BY <1>2, <1>4, <2>1, <2>2 DEF Grown, P
<1> QED
  BY <1>3, <1>4
\* A batch tried event by event, of which some calls fail.
LEMMA OneByOnePost ==
  ASSUME Types, Numbered, NEW batch, NEW rc, FlushPre(batch, rc),
         NEW s, Grown(store, s, Elems(batch)),
         NEW down \in SUBSET (1..Len(batch)),
         Cardinality(down) <= MaxFaults - faults
  PROVE  FlushPost(OneByOne(s, batch, rc, down), batch, rc)
<1> DEFINE o == OneByOne(s, batch, rc, down)
           P == Persisted(s, batch, down)
           n == Len(batch)
           up == 1..n \ down
           ok == {i \in up : Lands(P[i-1], batch[i])}
           K == {e \in At(batch, down) : rc[e] # "open"}
           lost == {e \in At(batch, down) : rc[e] = "open"} \ P[n].landed
           r1 == Answered(rc, At(batch, ok), "ok")
           r2 == Answered(r1, At(batch, up \ ok), "rejected")
           r3 == Answered(r2, At(batch, down), "unavailable")
<1>0. /\ batch \in Seq(Seqs) /\ n \in Nat /\ Ascending(batch)
      /\ \A i \in 1..n : batch[i] <= Len(ev) /\ batch[i] \in Seqs
      /\ rc \in [Seqs -> Receipts]
  BY DEF FlushPre
<1>1. /\ o.store = P[n] /\ o.pending = Retry(batch, K) /\ o.receipt = r3
      /\ o.health = (IF down = {} THEN health ELSE "error")
      /\ o.failed = (down # {})
      /\ o.dropped = [refused |-> dropped.refused \cup At(batch, up \ ok),
                      lost |-> dropped.lost \cup lost]
      /\ o.faults = faults + Cardinality(down)
  BY DEF OneByOne, Outcome
<1>2. Grown(store, P[n], Elems(batch))
  <2>1. n \in 0..n
    BY <1>0
  <2> QED
    BY <1>0, <2>1, BatchPersists
<1>3. \A i \in up : batch[i] \in P[n].landed <=> i \in ok
  BY <1>0, BatchDecides
<1>4. /\ r1 \in [Seqs -> Receipts] /\ r2 \in [Seqs -> Receipts]
      /\ r3 \in [Seqs -> Receipts]
  <2>1. r1 \in [Seqs -> Receipts]
    BY <1>0, AnsweredIs
  <2> HIDE DEF r1
  <2>2. r2 \in [Seqs -> Receipts]
    BY <2>1, AnsweredIs
  <2> HIDE DEF r2
  <2> QED
    BY <2>1, <2>2, AnsweredIs
<1>5. \A e \in Seqs :
        /\ r1[e] = rc[e] \/ (e \in At(batch, ok) /\ rc[e] = "open" /\ r1[e] \in {"ok", "none"})
        /\ \/ r2[e] = r1[e]
           \/ e \in At(batch, up \ ok) /\ r1[e] = "open" /\ r2[e] \in {"rejected", "none"}
        /\ \/ r3[e] = r2[e]
           \/ e \in At(batch, down) /\ r2[e] = "open" /\ r3[e] \in {"unavailable", "none"}
  <2> HIDE DEF r2, ok, up
  <2>1. \A e \in Seqs : r1[e] = rc[e] \/
          (e \in At(batch, ok) /\ rc[e] = "open" /\ r1[e] \in {"ok", "none"})
    BY <1>0, AnsweredIs
  <2>2. \A e \in Seqs : r3[e] = r2[e] \/
          (e \in At(batch, down) /\ r2[e] = "open" /\ r3[e] \in {"unavailable", "none"})
    BY <1>4, AnsweredIs
  <2>3. \A e \in Seqs : r2[e] = r1[e] \/
          (e \in At(batch, up \ ok) /\ r1[e] = "open" /\ r2[e] \in {"rejected", "none"})
    <3> HIDE DEF r1
    <3> QED
      BY <1>4, AnsweredIs DEF r2
  <2> QED
    BY <2>1, <2>2, <2>3
<1>6. /\ o.pending \in Seq(Seqs) /\ Ascending(o.pending)
      /\ Elems(o.pending) = Elems(batch) \cap K
  BY <1>0, <1>1, RetryKeeps
<1> HIDE DEF r1, r2, r3, P, o
<1>7. At(batch, up \ ok) \subseteq Seqs /\ At(batch, down) \subseteq Elems(batch)
      /\ Elems(batch) \subseteq Seqs /\ At(batch, up) \subseteq Elems(batch)
  BY <1>0 DEF At, Elems
<1>8. Elems(batch) = At(batch, ok) \cup At(batch, up \ ok) \cup At(batch, down)
  BY <1>0 DEF At, Elems
<1>9. At(batch, ok) \subseteq P[n].landed /\ At(batch, up \ ok) \cap P[n].landed = {}
  BY <1>3 DEF At
<1>a. /\ o.dropped \in Dropped /\ dropped.refused \subseteq o.dropped.refused
      /\ dropped.lost \subseteq o.dropped.lost
      /\ o.dropped.refused = dropped.refused \cup At(batch, up \ ok)
      /\ o.dropped.lost = dropped.lost \cup lost
  <2> DEFINE R == dropped.refused \cup At(batch, up \ ok)
             L == dropped.lost \cup lost
  <2>1. dropped.refused \subseteq Seqs /\ dropped.lost \subseteq Seqs
    BY DEF Types, Dropped
  <2>2. R \in SUBSET Seqs /\ L \in SUBSET Seqs
    BY <1>7, <2>1
  <2>3. o.dropped = [refused |-> R, lost |-> L]
    BY <1>1
  <2>4. dropped.refused \subseteq R /\ dropped.lost \subseteq L
    OBVIOUS
  <2> HIDE DEF R, L
  <2>5. o.dropped \in Dropped /\ o.dropped.refused = R /\ o.dropped.lost = L
    BY <2>2, <2>3 DEF Dropped
  <2> QED
    BY <2>4, <2>5 DEF R, L
<1>b. Elems(batch) \subseteq Elems(o.pending) \cup o.store.landed
                             \cup o.dropped.refused \cup o.dropped.lost
  BY <1>1, <1>6, <1>7, <1>8, <1>9, <1>a
<1>c. \A e \in Elems(batch) : rc[e] # "rejected"
  BY DEF FlushPre, Elems, At
<1>d. Says(r3, P[n])
  <2> SUFFICES ASSUME NEW e \in Seqs
               PROVE  /\ r3[e] = "ok" => e \in P[n].landed
                      /\ r3[e] = "rejected" => e \notin P[n].landed
    BY DEF Says
  <2>1. /\ rc[e] = "ok" => e \in store.landed
        /\ rc[e] = "rejected" => e \notin store.landed
    BY DEF FlushPre, Says
  <2>2. /\ store.landed \subseteq P[n].landed
        /\ P[n].landed \subseteq store.landed \cup Elems(batch)
    BY <1>2 DEF Grown
  <2> HIDE DEF ok, up
  <2>3. ASSUME r3[e] = "ok"
        PROVE  rc[e] = "ok" \/ e \in At(batch, ok)
    BY <1>5, <2>3
  <2>4. ASSUME r3[e] = "rejected"
        PROVE  rc[e] = "rejected" \/ e \in At(batch, up \ ok)
    BY <1>5, <2>4
  <2> QED
    BY <1>9, <1>c, <2>1, <2>2, <2>3, <2>4
<1>e. \A e \in Elems(o.pending) : r3[e] # "rejected"
  <2> SUFFICES ASSUME NEW e \in Elems(o.pending)
               PROVE  r3[e] # "rejected"
    OBVIOUS
  <2>1. e \in Elems(batch) /\ e \in Seqs /\ rc[e] # "open"
    BY <1>6, <1>7
  <2> HIDE DEF ok, up
  <2>2. r1[e] = rc[e]
    BY <1>5, <2>1
  <2>3. r2[e] = rc[e]
    BY <1>5, <2>1, <2>2
  <2>4. r3[e] = rc[e]
    BY <1>5, <2>1, <2>3
  <2> QED
    BY <1>c, <2>1, <2>4
<1>f. \A e \in Seqs : e \notin Elems(batch) => r3[e] = rc[e]
  <2> HIDE DEF ok, up
  <2> QED
    BY <1>5, <1>8
<1>g. o.health \in {"ok", "error"} /\ o.failed \in BOOLEAN
  BY <1>1 DEF Types
<1>h. o.faults \in 0..MaxFaults
  <2>1. IsFiniteSet(1..n)
    BY <1>0, FS_Interval
  <2>2. Cardinality(down) \in Nat
    BY <2>1, FS_Subset, FS_CardinalityType
  <2> QED
    BY <1>1, <2>2, BoundsAssumption DEF Types
<1>i. ~o.failed => o.pending = << >>
  <2> SUFFICES ASSUME down = {} PROVE o.pending = << >>
    BY <1>1
  <2>1. Elems(o.pending) = {}
    BY <1>6 DEF At
  <2>2. Len(o.pending) \in Nat
    BY <1>6
  <2>3. Len(o.pending) = 0
    <3>1. \A k \in 1..Len(o.pending) : o.pending[k] \in Elems(o.pending)
      BY DEF Elems, At
    <3> QED
      BY <2>1, <2>2, <3>1
  <2> QED
    BY <1>6, <2>3
<1> HIDE DEF K, lost, ok, up, n
<1> QED
  BY <1>1, <1>2, <1>4, <1>6, <1>a, <1>b, <1>d, <1>e, <1>f, <1>g, <1>h, <1>i
  DEF FlushPost, n, o
\* The number of events accepted at the start of a batch.
LEMMA AcceptedIs ==
  ASSUME NEW s, NEW batch, Len(batch) \in Nat
  PROVE  /\ Accepted(s, batch) \in 0..Len(batch)
         /\ \A i \in 1..Accepted(s, batch) :
              Lands(Persisted(s, batch, {})[i-1], batch[i])
<1> DEFINE P == Persisted(s, batch, {})
           S == {n \in 0..Len(batch) : \A i \in 1..n : Lands(P[i-1], batch[i])}
<1>1. 0 \in S /\ S \in SUBSET (0..Len(batch))
  OBVIOUS
<1>2. Accepted(s, batch) = Max(S)
  BY DEF Accepted
<1>3. Max(S) \in S
  <2> HIDE DEF S
  <2> QED
    BY <1>1, MaxBelow
<1> QED
  BY <1>2, <1>3

\* The whole batch is stored.
LEMMA CommitsPost ==
  ASSUME Types, Numbered, Stored(store), NEW batch, NEW rc, FlushPre(batch, rc),
         NEW o \in FlushCommits(batch, rc)
  PROVE  FlushPost(o, batch, rc)
<1> DEFINE n == Len(batch)
           P == Persisted(store, batch, {})
           r1 == Answered(rc, Elems(batch), "ok")
<1>0. /\ batch \in Seq(Seqs) /\ n \in Nat /\ Ascending(batch)
      /\ \A i \in 1..n : batch[i] <= Len(ev) /\ batch[i] \in Seqs
      /\ rc \in [Seqs -> Receipts]
  BY DEF FlushPre
<1>1. Grown(store, store, Elems(batch))
  BY DEF Grown, Types
<1>2. /\ Accepted(store, batch) >= n
      /\ o = Outcome(P[n], << >>, r1, "ok", FALSE, dropped, faults)
  <2>1. /\ ~(Accepted(store, batch) < n)
        /\ o = Outcome(P[n], << >>, r1, "ok", FALSE, dropped, faults)
    BY DEF FlushCommits, Elems
  <2>2. Accepted(store, batch) \in Nat
    BY <1>0, AcceptedIs
  <2> QED
    BY <1>0, <2>1, <2>2
<1>3. /\ o.store = P[n] /\ o.pending = << >> /\ o.receipt = r1
      /\ o.health = "ok" /\ o.failed = FALSE
      /\ o.dropped = dropped /\ o.faults = faults
  BY <1>2 DEF Outcome
<1>4. Grown(store, P[n], Elems(batch))
  <2>1. n \in 0..n
    BY <1>0
  <2> QED
    BY <1>0, <1>1, <2>1, BatchPersists
<1>5. Elems(batch) \subseteq P[n].landed
  <2> SUFFICES ASSUME NEW i \in 1..n
               PROVE  batch[i] \in P[n].landed
    BY DEF Elems, At
  <2>1. Lands(P[i-1], batch[i])
    BY <1>0, <1>2, AcceptedIs
  <2> QED
    BY <1>0, <1>1, <2>1, BatchDecides
<1>6. /\ r1 \in [Seqs -> Receipts]
      /\ \A e \in Seqs : r1[e] = rc[e] \/ (e \in Elems(batch) /\ r1[e] \in {"ok", "none"})
  BY <1>0, AnsweredIs
<1> HIDE DEF P, r1
<1>7. \A e \in Elems(batch) : rc[e] # "rejected"
  BY DEF FlushPre, Elems, At
<1>8. Says(r1, P[n])
  <2> SUFFICES ASSUME NEW e \in Seqs
               PROVE  /\ r1[e] = "ok" => e \in P[n].landed
                      /\ r1[e] = "rejected" => e \notin P[n].landed
    BY DEF Says
  <2>1. /\ rc[e] = "ok" => e \in store.landed
        /\ rc[e] = "rejected" => e \notin store.landed
    BY DEF FlushPre, Says
  <2>2. /\ store.landed \subseteq P[n].landed
        /\ P[n].landed \subseteq store.landed \cup Elems(batch)
    BY <1>4 DEF Grown
  <2> QED
    BY <1>5, <1>6, <1>7, <2>1, <2>2
<1>9. /\ o.pending \in Seq(Seqs) /\ Ascending(o.pending) /\ Elems(o.pending) = {}
  BY <1>3 DEF Ascending, Elems, At
<1>a. dropped \in Dropped /\ faults \in 0..MaxFaults
  BY DEF Types
<1> QED
  BY <1>3, <1>4, <1>5, <1>6, <1>8, <1>9, <1>a DEF FlushPost

\* The batch is kept whole, and a part of it may have been stored.
LEMMA FailsPost ==
  ASSUME Types, Numbered, Stored(store), NEW batch, NEW rc, FlushPre(batch, rc),
         NEW o \in FlushFails(batch, rc)
  PROVE  FlushPost(o, batch, rc)
<1> DEFINE P == Persisted(store, batch, {})
           r1 == Answered(rc, Elems(batch), "unavailable")
<1>0. /\ batch \in Seq(Seqs) /\ Len(batch) \in Nat /\ Ascending(batch)
      /\ \A i \in 1..Len(batch) : batch[i] <= Len(ev) /\ batch[i] \in Seqs
      /\ rc \in [Seqs -> Receipts]
  BY DEF FlushPre
<1>1. Grown(store, store, Elems(batch))
  BY DEF Grown, Types
<1>2. PICK n \in 0..Accepted(store, batch) :
        o = Outcome(P[n], batch, r1, "error", TRUE, dropped, faults + 1)
  BY DEF FlushFails, Elems
<1>3. /\ o.store = P[n] /\ o.pending = batch /\ o.receipt = r1
      /\ o.health = "error" /\ o.failed = TRUE
      /\ o.dropped = dropped /\ o.faults = faults + 1
  BY <1>2 DEF Outcome
<1>4. Grown(store, P[n], Elems(batch))
  <2>1. n \in 0..Len(batch)
    BY <1>0, AcceptedIs
  <2> QED
    BY <1>0, <1>1, <2>1, BatchPersists
<1>5. /\ r1 \in [Seqs -> Receipts]
      /\ \A e \in Seqs :
           \/ r1[e] = rc[e]
           \/ e \in Elems(batch) /\ r1[e] \in {"unavailable", "none"}
  <2>1. r1 \in [Seqs -> Receipts]
    BY <1>0, AnsweredIs
  <2>2. \A e \in Seqs : r1[e] = rc[e] \/
          (e \in Elems(batch) /\ rc[e] = "open" /\ r1[e] \in {"unavailable", "none"})
    BY <1>0, AnsweredIs
  <2> HIDE DEF r1
  <2> QED
    BY <2>1, <2>2
<1>6. \A e \in Elems(batch) : rc[e] # "rejected" /\ e \in Seqs
  BY <1>0 DEF FlushPre, Elems, At
<1> HIDE DEF P, r1
<1>7. Says(r1, P[n])
  <2> SUFFICES ASSUME NEW e \in Seqs
               PROVE  /\ r1[e] = "ok" => e \in P[n].landed
                      /\ r1[e] = "rejected" => e \notin P[n].landed
    BY DEF Says
  <2>1. /\ rc[e] = "ok" => e \in store.landed
        /\ rc[e] = "rejected" => e \notin store.landed
    BY DEF FlushPre, Says
  <2>2. /\ store.landed \subseteq P[n].landed
        /\ P[n].landed \subseteq store.landed \cup Elems(batch)
    BY <1>4 DEF Grown
  <2> QED
    BY <1>5, <1>6, <2>1, <2>2
<1>8. \A e \in Elems(batch) : r1[e] # "rejected"
  BY <1>5, <1>6
<1>9. dropped \in Dropped /\ faults + 1 \in 0..MaxFaults
  <2>1. faults # MaxFaults
    BY DEF FlushFails
  <2> QED
    BY <2>1, BoundsAssumption DEF Types
<1> QED
  BY <1>0, <1>3, <1>4, <1>5, <1>7, <1>8, <1>9 DEF FlushPost

\* Every outcome of a flush.
LEMMA FlushPosts ==
  ASSUME Types, Numbered, Stored(store), NEW batch, NEW rc, FlushPre(batch, rc),
         NEW o \in FlushEventBatch(batch, rc)
  PROVE  FlushPost(o, batch, rc)
<1>0. Len(batch) \in Nat /\ batch \in Seq(Seqs)
      /\ \A i \in 1..Len(batch) : batch[i] <= Len(ev)
  BY DEF FlushPre
<1>1. CASE batch = << >>
  <2>1. o = Outcome(store, << >>, rc, health, FALSE, dropped, faults)
    BY <1>1 DEF FlushEventBatch
  <2>2. /\ o.store = store /\ o.pending = << >> /\ o.receipt = rc
        /\ o.health = health /\ o.failed = FALSE
        /\ o.dropped = dropped /\ o.faults = faults
    BY <2>1 DEF Outcome
  <2>3. Elems(batch) = {} /\ Ascending(o.pending) /\ Elems(o.pending) = {}
    BY <1>1, <2>2 DEF Elems, At, Ascending
  <2>4. Grown(store, store, Elems(batch))
    BY DEF Grown, Types
  <2> QED
    <3>1. /\ dropped \in Dropped /\ health \in {"ok", "error"}
          /\ faults \in 0..MaxFaults
      BY DEF Types
    <3>2. rc \in [Seqs -> Receipts] /\ Says(rc, store)
      BY DEF FlushPre
    <3>3. o.pending \in Seq(Seqs)
      BY <2>2
    <3> QED
      BY <2>2, <2>3, <2>4, <3>1, <3>2, <3>3 DEF FlushPost
<1>2. CASE batch # << >>
  <2>1. CASE o \in FlushCommits(batch, rc)
    BY <2>1, CommitsPost
  <2>2. CASE o \in FlushFails(batch, rc)
    BY <2>2, FailsPost
  <2>3. CASE o \in FlushRefuses(batch, rc)
    <3> DEFINE P == Persisted(store, batch, {})
    <3>1. PICK k \in 0..Accepted(store, batch), down \in SUBSET (1..Len(batch)) :
            /\ Cardinality(down) <= MaxFaults - faults
            /\ o = OneByOne(P[k], batch, rc, down)
      BY <2>3 DEF FlushRefuses
    <3>2. k \in 0..Len(batch)
      BY <1>0, AcceptedIs
    <3>3. Grown(store, store, Elems(batch))
      BY DEF Grown, Types
    <3>4. Grown(store, P[k], Elems(batch))
      BY <1>0, <3>2, <3>3, BatchPersists
    <3> QED
      BY <3>1, <3>4, OneByOnePost
  <2> QED
    BY <1>2, <2>1, <2>2, <2>3 DEF FlushEventBatch
<1> QED
  BY <1>1, <1>2
-----------------------------------------------------------------------------
(* The writer's steps.                                                     *)

\* A grown store keeps what is known about the ends of runs.
LEMMA GrownEnds ==
  ASSUME Types, Ends, NEW E, Grown(store, store', E),
         UNCHANGED <<ev, idx, run, phase, terminal>>
  PROVE  Ends'
<1>1. ASSUME NEW r \in store.sealed, Missed(r)
      PROVE  Missed(r)'
  BY <1>1 DEF Missed, Grown
<1>2. /\ store'.sealed = store.sealed
      /\ \A r \in store.sealed : store'.cursor[r] = store.cursor[r]
  BY DEF Grown
<1>3. phase = "publish" =>
        /\ run \in store'.sealed
        /\ store'.cursor[run] = idx[run] \/ Missed(run)'
  BY <1>1, <1>2 DEF Ends
<1>4. \A r \in Runs : terminal[r] = "missing" => r \in store'.sealed /\ Missed(r)'
  BY <1>1, <1>2 DEF Ends
<1> QED
  BY <1>2, <1>3, <1>4 DEF Ends, Missed

\* A flush by the writer whose other locals become w.
LEMMA FlushKeeps ==
  ASSUME IInv, NEW batch, NEW rc, FlushPre(batch, rc),
         NEW o \in FlushEventBatch(batch, rc), NEW w \in Writer, Flushes(o, w),
         \A e \in Elems(batch) : e <= w.consumed,
         1..w.consumed \subseteq Elems(batch) \cup Settled,
         \A e \in Seqs : e > w.consumed => rc[e] # "rejected",
         UNCHANGED <<ev, idx, run, phase, terminal>>
  PROVE  /\ writer' \in Writer /\ writer'.at = w.at
         /\ writer'.consumed = w.consumed /\ writer'.held = w.held
         /\ ~o.failed => writer'.pending = << >>
         /\ store' \in Store /\ dropped' \in Dropped
         /\ receipt' \in [Seqs -> Receipts] /\ health' \in {"ok", "error"}
         /\ faults' \in 0..MaxFaults
         /\ Settled \subseteq Settled'
         /\ Buffered' /\ Stored(store)' /\ Truthful' /\ Ends'
<1>1. FlushPost(o, batch, rc)
  BY FlushPosts DEF IInv
<1>2. /\ store' = o.store /\ receipt' = o.receipt /\ health' = o.health
      /\ dropped' = o.dropped /\ faults' = o.faults
  BY DEF Flushes
<1>3. /\ writer' \in Writer /\ writer'.at = w.at
      /\ writer'.consumed = w.consumed /\ writer'.held = w.held
      /\ writer'.pending = o.pending /\ writer'.failed = o.failed
  <2>1. writer' = [w EXCEPT !.pending = o.pending, !.failed = o.failed, !.due = Due(o)]
    BY DEF Flushes
  <2>2. o.pending \in Seq(Seqs) /\ o.failed \in BOOLEAN /\ Due(o) \in BOOLEAN
    BY <1>1 DEF FlushPost, Due
  <2> QED
    BY <2>1, <2>2 DEF Writer
<1>4. Grown(store, store', Elems(batch))
  BY <1>1, <1>2 DEF FlushPost
<1>5. store' \in Store /\ Stored(store)'
  BY <1>4 DEF Grown, Stored
<1>6. Ends'
  BY <1>4, GrownEnds DEF IInv
<1>7. Settled \subseteq Settled' /\ Elems(batch) \subseteq Elems(o.pending) \cup Settled'
  BY <1>1, <1>2, <1>4 DEF FlushPost, Grown, Settled
<1>8. Buffered'
  <2>1. Ascending(o.pending) /\ Elems(o.pending) \subseteq Elems(batch)
    BY <1>1 DEF FlushPost
  <2>2. 1..w.consumed \subseteq Elems(o.pending) \cup Settled'
    BY <1>7
  <2>3. \A i \in 1..Len(o.pending) : o.pending[i] <= w.consumed
    BY <2>1 DEF Elems, At
  <2> QED
    BY <1>3, <2>1, <2>2, <2>3 DEF Buffered, Ascending, Elems, At
<1>9. Truthful'
  <2>1. Says(o.receipt, o.store)
    BY <1>1 DEF FlushPost
  <2>2. \A i \in 1..Len(o.pending) : o.receipt[o.pending[i]] # "rejected"
    BY <1>1 DEF FlushPost, Elems, At
  <2>3. ASSUME NEW e \in Seqs, e > w.consumed
        PROVE  o.receipt[e] # "rejected"
    <3>1. w.consumed \in Nat /\ e \in Nat
      BY DEF Writer, Seqs
    <3>2. e \notin Elems(batch)
      BY <2>3, <3>1
    <3> QED
      BY <1>1, <2>3, <3>2 DEF FlushPost
  <2> QED
    BY <1>2, <1>3, <2>1, <2>2, <2>3 DEF Truthful, Says
<1>a. /\ receipt' \in [Seqs -> Receipts] /\ health' \in {"ok", "error"}
      /\ faults' \in 0..MaxFaults /\ dropped' \in Dropped
      /\ ~o.failed => o.pending = << >>
  BY <1>1, <1>2 DEF FlushPost
<1> QED
  BY <1>3, <1>5, <1>6, <1>7, <1>8, <1>9, <1>a

\* The buffer can be flushed.
LEMMA PendingPre ==
  ASSUME IInv
  PROVE  /\ FlushPre(writer.pending, receipt)
         /\ \A e \in Elems(writer.pending) : e <= writer.consumed
         /\ 1..writer.consumed \subseteq Elems(writer.pending) \cup Settled
         /\ \A e \in Seqs : e > writer.consumed => receipt[e] # "rejected"
<1>1. /\ writer.pending \in Seq(Seqs) /\ writer.consumed \in Nat
      /\ receipt \in [Seqs -> Receipts] /\ Len(ev) \in Nat /\ Len(body) \in Nat
  BY DEF IInv, Types, Writer
<1>2. writer.consumed <= Len(ev)
  BY <1>1 DEF IInv, Channel
<1>3. \A i \in 1..Len(writer.pending) :
        writer.pending[i] <= Len(ev) /\ writer.pending[i] <= writer.consumed
  <2> SUFFICES ASSUME NEW i \in 1..Len(writer.pending)
               PROVE  /\ writer.pending[i] <= Len(ev)
                      /\ writer.pending[i] <= writer.consumed
    OBVIOUS
  <2>1. writer.pending[i] \in Seqs
    BY <1>1
  <2>2. writer.pending[i] <= writer.consumed
    BY DEF IInv, Buffered
  <2> QED
    BY <1>1, <1>2, <2>1, <2>2 DEF Seqs
<1>4. FlushPre(writer.pending, receipt)
  BY <1>1, <1>3 DEF IInv, FlushPre, Buffered, Truthful
<1> QED
  BY <1>3, <1>4 DEF IInv, Buffered, Truthful, Elems, At

\* The flush of the batch window and the retry.
LEMMA WriterTimerKeeps ==
  ASSUME IInv, WriterTimer
  PROVE  IInv'
<1>1. PICK o \in FlushEventBatch(writer.pending, receipt) : Flushes(o, writer)
  BY DEF WriterTimer
<1>2. UNCHANGED <<ev, idx, closed, body, lane, waiting, fence, run, phase, terminal>>
  BY DEF WriterTimer
<1>3. writer \in Writer
  BY DEF IInv, Types
<1>4. /\ writer' \in Writer /\ writer'.at = writer.at
      /\ writer'.consumed = writer.consumed /\ writer'.held = writer.held
      /\ store' \in Store /\ dropped' \in Dropped
      /\ receipt' \in [Seqs -> Receipts] /\ health' \in {"ok", "error"}
      /\ faults' \in 0..MaxFaults
      /\ Settled \subseteq Settled'
      /\ Buffered' /\ Stored(store)' /\ Truthful' /\ Ends'
  BY <1>1, <1>2, <1>3, PendingPre, FlushKeeps
<1>5. Types'
  BY <1>2, <1>4 DEF IInv, Types
<1>6. Numbered' /\ Channel' /\ Fences' /\ Shut'
  BY <1>2, <1>4 DEF IInv, Numbered, Channel, Fences, Shut
<1>7. BarrierCovers'
  BY <1>2, <1>4 DEF IInv, BarrierCovers
<1> QED
  BY <1>4, <1>5, <1>6, <1>7 DEF IInv
\* A barrier in the writer's hand is answered.
LEMMA WriterServesControlKeeps ==
  ASSUME IInv, WriterServesControl
  PROVE  IInv'
<1> DEFINE h == writer.held
           w == [writer EXCEPT !.held = NoControl,
                   !.at = IF writer.held.from = "shutdown" THEN "exited" ELSE @]
<1>1. PICK o \in FlushEventBatch(writer.pending, receipt) :
        /\ Flushes(o, w)
        /\ fence' = [fence EXCEPT ![h.from].st = IF o.failed THEN "err" ELSE "ok"]
  BY DEF WriterServesControl
<1>2. UNCHANGED <<ev, idx, closed, body, lane, waiting, run, phase, terminal>>
  BY DEF WriterServesControl
<1>3. writer \in Writer /\ writer.at = "running" /\ h # NoControl /\ h.target <= writer.consumed
  BY DEF IInv, Types, WriterServesControl, ControlReady
<1>4. h \in Control /\ h.from \in Callers /\ h.target \in Nat /\ writer.consumed \in Nat
  BY <1>3 DEF Writer, Control
<1>5. /\ w \in Writer /\ w.held = NoControl /\ w.consumed = writer.consumed
      /\ h.from # "shutdown" => w.at = "running"
      /\ h.from = "shutdown" => w.at = "exited"
  BY <1>3 DEF Writer
<1> HIDE DEF w
<1>6. /\ writer' \in Writer /\ writer'.at = w.at
      /\ writer'.consumed = writer.consumed /\ writer'.held = NoControl
      /\ ~o.failed => writer'.pending = << >>
      /\ store' \in Store /\ dropped' \in Dropped
      /\ receipt' \in [Seqs -> Receipts] /\ health' \in {"ok", "error"}
      /\ faults' \in 0..MaxFaults
      /\ Settled \subseteq Settled'
      /\ Buffered' /\ Stored(store)' /\ Truthful' /\ Ends'
  BY <1>1, <1>2, <1>5, PendingPre, FlushKeeps
<1> DEFINE a == IF o.failed THEN "err" ELSE "ok"
<1>7. /\ fence' \in [Callers -> Fence]
      /\ fence'[h.from].st = a /\ fence'[h.from].target = fence[h.from].target
      /\ \A c \in Callers : c # h.from => fence'[c] = fence[c]
  <2> DEFINE x == [fence[h.from] EXCEPT !.st = a]
  <2>1. fence' = [fence EXCEPT ![h.from] = x]
    BY <1>1
  <2>2. fence \in [Callers -> Fence] /\ fence[h.from] \in Fence
    BY <1>4 DEF IInv, Types
  <2>3. x \in Fence /\ x.st = a /\ x.target = fence[h.from].target
    BY <2>2 DEF Fence
  <2> HIDE DEF x, a
  <2> QED
    BY <1>4, <2>1, <2>2, <2>3
<1> HIDE DEF a
<1>8. fence[h.from] = Queued(h.target)
  BY <1>3 DEF IInv, Fences
<1>9. Types'
  BY <1>2, <1>6, <1>7 DEF IInv, Types
<1>10. Numbered' /\ Channel'
  BY <1>2, <1>6 DEF IInv, Numbered, Channel
<1>11. Fences'
  <2>1. SUFFICES ASSUME writer'.at # "exited" PROVE Fences'
    BY DEF Fences
  <2>2. \A i \in 1..Len(lane) : lane[i].from \in Callers /\ lane[i].from # h.from
    <3> SUFFICES ASSUME NEW i \in 1..Len(lane)
                 PROVE  lane[i].from \in Callers /\ lane[i].from # h.from
      OBVIOUS
    <3>1. lane[i] \in Control
      BY DEF IInv, Types
    <3>2. lane[i].from # h.from
      BY <1>3 DEF IInv, Fences
    <3> QED
      BY <3>1, <3>2 DEF Control
  <2> QED
    BY <1>2, <1>3, <1>5, <1>6, <1>7, <2>1, <2>2 DEF IInv, Fences
<1>12. Shut'
  <2>1. fence["shutdown"].target = fence'["shutdown"].target
    BY <1>7 DEF Callers
  <2>2. fence'["shutdown"] # Idle => fence["shutdown"] # Idle
    BY <1>7, <1>8 DEF Callers, Idle, Queued
  <2> QED
    BY <1>2, <2>1, <2>2 DEF IInv, Shut
<1>13. BarrierCovers'
  <2>1. ASSUME ~o.failed
        PROVE  1..writer.consumed \subseteq Settled'
    <3>1. writer'.pending = << >>
      BY <1>6, <2>1
    <3>2. Elems(writer'.pending) = {}
      BY <3>1 DEF Elems, At
    <3> QED
      BY <1>6, <3>2 DEF Buffered, Elems, At
  <2>2. a = "ok" => ~o.failed
    BY DEF a
  <2>3. fence[h.from].target = h.target
    BY <1>8 DEF Queued
  <2>4. \A c \in Callers : fence'[c].st = "ok" => 1..fence'[c].target \subseteq Settled'
    <3> SUFFICES ASSUME NEW c \in Callers, fence'[c].st = "ok"
                 PROVE  1..fence'[c].target \subseteq Settled'
      OBVIOUS
    <3>1. CASE c = h.from
      <4>1. 1..h.target \subseteq 1..writer.consumed
        BY <1>3, <1>4
      <4> QED
        BY <1>7, <2>1, <2>2, <2>3, <3>1, <4>1
    <3>2. CASE c # h.from
      BY <1>6, <1>7, <3>2 DEF IInv, BarrierCovers
    <3> QED
      BY <3>1, <3>2
  <2>5. fence'["shutdown"].st = "ok" => fence'["shutdown"].target = Len(ev)
    <3>1. fence'["shutdown"].st = "ok" => fence'["shutdown"] # Idle
      BY DEF Idle
    <3> QED
      BY <1>2, <1>12, <3>1 DEF Shut
  <2> QED
    BY <1>2, <2>4, <2>5 DEF BarrierCovers, Callers
<1> QED
  BY <1>6, <1>9, <1>10, <1>11, <1>12, <1>13 DEF IInv
\* The head of the channel is the next event.
LEMMA BodyHead ==
  ASSUME IInv, body # << >>
  PROVE  /\ Head(body) = writer.consumed + 1 /\ Head(body) \in Seqs
         /\ Head(body) <= Len(ev) /\ Tail(body) \in Seq(Seqs)
         /\ Len(ev) = Head(body) + Len(Tail(body))
         /\ \A i \in 1..Len(Tail(body)) : Tail(body)[i] = Head(body) + i
<1>1. body \in Seq(Seqs) /\ Len(body) \in Nat /\ writer.consumed \in Nat /\ Len(ev) \in Nat
  BY DEF IInv, Types, Writer
<1>2. /\ Len(body) > 0 /\ Head(body) = body[1] /\ Head(body) \in Seqs
      /\ Tail(body) \in Seq(Seqs) /\ Len(Tail(body)) = Len(body) - 1
      /\ \A i \in 1..Len(Tail(body)) : Tail(body)[i] = body[i+1]
  BY <1>1
<1>3. /\ Len(ev) = writer.consumed + Len(body)
      /\ \A i \in 1..Len(body) : body[i] = writer.consumed + i
  BY DEF IInv, Channel
<1>4. Head(body) = writer.consumed + 1
  BY <1>1, <1>2, <1>3
<1>5. \A i \in 1..Len(Tail(body)) : Tail(body)[i] = Head(body) + i
  BY <1>1, <1>2, <1>3, <1>4
<1> QED
  BY <1>1, <1>2, <1>3, <1>4, <1>5

\* The next event is taken in, and flushed or left for the batch window.
LEMMA WriterTakesBodyKeeps ==
  ASSUME IInv, WriterTakesBody
  PROVE  IInv'
<1> DEFINE e == Head(body)
           q == writer.pending
           rc == IF writer.failed THEN Answered(receipt, {e}, "unavailable") ELSE receipt
           batch == Append(writer.pending, e)
           w == [writer EXCEPT !.at = "running", !.consumed = e]
<1>1. /\ writer.at # "exited" /\ body # << >> /\ body' = Tail(body)
      /\ UNCHANGED <<ev, idx, closed, lane, waiting, fence, run, phase, terminal>>
  BY DEF WriterTakesBody
<1>2. \/ \E o \in FlushEventBatch(batch, rc) : Flushes(o, w)
      \/ /\ writer' = [w EXCEPT !.pending = batch, !.due = TRUE]
         /\ receipt' = rc /\ UNCHANGED <<health, store, dropped, faults>>
  BY DEF WriterTakesBody
<1>3. /\ e = writer.consumed + 1 /\ e \in Seqs /\ e <= Len(ev)
      /\ Tail(body) \in Seq(Seqs) /\ Len(ev) = e + Len(Tail(body))
      /\ \A i \in 1..Len(Tail(body)) : Tail(body)[i] = e + i
  BY <1>1, BodyHead
<1> HIDE DEF e
<1>4. /\ writer \in Writer /\ q \in Seq(Seqs) /\ Len(q) \in Nat
      /\ writer.consumed \in Nat /\ receipt \in [Seqs -> Receipts]
      /\ Len(ev) \in Nat /\ Len(ev) <= MaxEvents /\ e \in Nat
  BY <1>3 DEF IInv, Types, Writer
<1>5. /\ w \in Writer /\ w.at = "running" /\ w.consumed = e /\ w.held = writer.held
      /\ w.pending = q
  <2>1. e \in 0..MaxEvents
    BY <1>3, BoundsAssumption DEF Seqs
  <2> QED
    BY <1>4, <2>1 DEF Writer
<1>6. /\ rc \in [Seqs -> Receipts]
      /\ \A f \in Seqs : rc[f] \in {"ok", "rejected"} => rc[f] = receipt[f]
      /\ \A f \in Seqs : rc[f] # receipt[f] => rc[f] \in {"unavailable", "none"}
  <2>1. CASE ~writer.failed
    BY <1>4, <2>1
  <2>2. CASE writer.failed
    <3> DEFINE r1 == Answered(receipt, {e}, "unavailable")
    <3>1. r1 \in [Seqs -> Receipts]
      BY <1>4, AnsweredIs
    <3>2. \A f \in Seqs : r1[f] = receipt[f] \/
            (f \in {e} /\ receipt[f] = "open" /\ r1[f] \in {"unavailable", "none"})
      BY <1>4, AnsweredIs
    <3> HIDE DEF r1
    <3>3. rc = r1
      BY <2>2 DEF r1
    <3> QED
      BY <3>1, <3>2, <3>3
  <2> QED
    BY <2>1, <2>2
<1> HIDE DEF rc, w
<1>7. /\ batch \in Seq(Seqs) /\ Len(batch) = Len(q) + 1
      /\ \A i \in 1..Len(q) : batch[i] = q[i] /\ q[i] \in Seqs
      /\ batch[Len(q) + 1] = e
  BY <1>3, <1>4
<1> HIDE DEF batch
<1>8. \A i \in 1..Len(q) : q[i] <= writer.consumed /\ q[i] < e /\ q[i] <= Len(ev)
  <2> SUFFICES ASSUME NEW i \in 1..Len(q)
               PROVE  q[i] <= writer.consumed /\ q[i] < e /\ q[i] <= Len(ev)
    OBVIOUS
  <2>1. q[i] \in Nat /\ q[i] <= writer.consumed
    BY <1>7 DEF IInv, Buffered, Seqs
  <2> QED
    BY <1>3, <1>4, <2>1
<1>8a. /\ \A i \in 1..Len(batch) : i \in 1..Len(q) \/ i = Len(q) + 1
       /\ \A i \in 1..Len(q) : i \in 1..Len(batch)
       /\ Len(q) + 1 \in 1..Len(batch)
  BY <1>4, <1>7
<1>9. Ascending(batch)
  <2> SUFFICES ASSUME NEW i \in 1..Len(batch), NEW j \in 1..Len(batch), i < j
               PROVE  batch[i] < batch[j]
    BY DEF Ascending
  <2>1. i \in 1..Len(q)
    BY <1>4, <1>8a
  <2>2. CASE j \in 1..Len(q)
    BY <1>7, <2>1, <2>2 DEF IInv, Buffered, Ascending
  <2>3. CASE j = Len(q) + 1
    BY <1>7, <1>8, <2>1, <2>3
  <2> QED
    BY <1>8a, <2>2, <2>3
<1>10. Elems(batch) = Elems(q) \cup {e}
  <2> HIDE DEF q
  <2>1. \A i \in 1..Len(batch) : batch[i] \in Elems(q) \cup {e}
    BY <1>7, <1>8a DEF Elems, At
  <2>2. \A i \in 1..Len(q) : q[i] \in Elems(batch)
    BY <1>7, <1>8a DEF Elems, At
  <2>3. e \in Elems(batch)
    BY <1>7, <1>8a DEF Elems, At
  <2> QED
    BY <2>1, <2>2, <2>3 DEF Elems, At
<1>11. \A i \in 1..Len(batch) : batch[i] <= e /\ batch[i] <= Len(ev)
  <2> SUFFICES ASSUME NEW i \in 1..Len(batch)
               PROVE  batch[i] <= e /\ batch[i] <= Len(ev)
    OBVIOUS
  <2>1. CASE i \in 1..Len(q)
    <3>1. batch[i] = q[i] /\ q[i] \in Seqs /\ q[i] < e /\ q[i] <= Len(ev)
      BY <1>7, <1>8, <2>1
    <3> QED
      BY <1>4, <3>1 DEF Seqs
  <2>2. CASE i = Len(q) + 1
    BY <1>3, <1>4, <1>7, <2>2
  <2> QED
    BY <1>8a, <2>1, <2>2
<1>12. Says(rc, store)
  BY <1>6 DEF IInv, Truthful, Says
<1>13. receipt[e] # "rejected" /\ \A f \in Seqs : f > e => rc[f] # "rejected"
  BY <1>3, <1>4, <1>6 DEF IInv, Truthful, Seqs
<1>14. \A i \in 1..Len(batch) : rc[batch[i]] # "rejected"
  <2> SUFFICES ASSUME NEW i \in 1..Len(batch)
               PROVE  receipt[batch[i]] # "rejected"
    BY <1>6, <1>7
  <2>1. CASE i \in 1..Len(q)
    BY <1>7, <2>1 DEF IInv, Truthful
  <2>2. CASE i = Len(q) + 1
    BY <1>7, <1>13, <2>2
  <2> QED
    BY <1>4, <1>7, <2>1, <2>2
<1>15. FlushPre(batch, rc)
  BY <1>6, <1>7, <1>9, <1>11, <1>12, <1>14 DEF FlushPre
<1>16. 1..e \subseteq Elems(batch) \cup Settled
  <2>1. 1..writer.consumed \subseteq Elems(q) \cup Settled
    BY DEF IInv, Buffered
  <2>2. 1..e = (1..writer.consumed) \cup {e}
    BY <1>3, <1>4
  <2> QED
    BY <1>10, <2>1, <2>2
<1>17. \A f \in Elems(batch) : f <= e
  BY <1>11 DEF Elems, At
<1>18. /\ writer' \in Writer /\ writer'.at = "running"
       /\ writer'.consumed = e /\ writer'.held = writer.held
       /\ store' \in Store /\ dropped' \in Dropped
       /\ receipt' \in [Seqs -> Receipts] /\ health' \in {"ok", "error"}
       /\ faults' \in 0..MaxFaults
       /\ Settled \subseteq Settled'
       /\ Buffered' /\ Stored(store)' /\ Truthful' /\ Ends'
  <2>1. CASE \E o \in FlushEventBatch(batch, rc) : Flushes(o, w)
    <3>1. PICK o \in FlushEventBatch(batch, rc) : Flushes(o, w)
      BY <2>1
    <3> QED
      BY <1>1, <1>5, <1>13, <1>15, <1>16, <1>17, <3>1, FlushKeeps
  <2>2. CASE /\ writer' = [w EXCEPT !.pending = batch, !.due = TRUE]
             /\ receipt' = rc /\ UNCHANGED <<health, store, dropped, faults>>
    <3>1. /\ writer' \in Writer /\ writer'.at = "running" /\ writer'.consumed = e
          /\ writer'.held = writer.held /\ writer'.pending = batch
      BY <1>5, <1>7, <2>2 DEF Writer
    <3>2. /\ store' \in Store /\ dropped' \in Dropped /\ health' \in {"ok", "error"}
          /\ faults' \in 0..MaxFaults /\ receipt' \in [Seqs -> Receipts]
      BY <1>6, <2>2 DEF IInv, Types
    <3>3. Settled' = Settled
      BY <2>2 DEF Settled
    <3>4. Buffered'
      BY <1>9, <1>11, <1>16, <3>1, <3>3 DEF Buffered, Ascending, Elems, At
    <3>5. Stored(store)' /\ Ends'
      BY <1>1, <2>2 DEF IInv, Stored, Ends, Missed
    <3>6. Truthful'
      BY <1>12, <1>13, <1>14, <2>2, <3>1 DEF Truthful, Says
    <3> QED
      BY <3>1, <3>2, <3>3, <3>4, <3>5, <3>6
  <2> QED
    BY <1>2, <2>1, <2>2
<1>19. Types'
  BY <1>1, <1>3, <1>18 DEF IInv, Types
<1>20. Numbered' /\ Shut'
  BY <1>1 DEF IInv, Numbered, Shut
<1>21. Channel'
  BY <1>1, <1>3, <1>18 DEF Channel
<1>22. Fences'
  BY <1>1, <1>18 DEF IInv, Fences
<1>23. BarrierCovers'
  BY <1>1, <1>18 DEF IInv, BarrierCovers
<1> QED
  BY <1>18, <1>19, <1>20, <1>21, <1>22, <1>23 DEF IInv
\* A step that leaves events, channel, buffer and store alone.
LEMMA JournalRests ==
  ASSUME IInv, UNCHANGED <<ev, body, store, dropped, receipt>>,
         writer'.consumed = writer.consumed, writer'.pending = writer.pending
  PROVE  Channel' /\ Buffered' /\ Truthful' /\ Settled' = Settled
<1>1. Settled' = Settled
  BY DEF Settled
<1>2. Channel'
  BY DEF IInv, Channel
<1>3. Buffered'
  BY <1>1 DEF IInv, Buffered, Ascending, Elems, At
<1>4. Truthful'
  BY DEF IInv, Truthful, Says
<1> QED
  BY <1>1, <1>2, <1>3, <1>4

\* The writer ends before its first command.
LEMMA WriterGivesUpKeeps ==
  ASSUME IInv, WriterGivesUp
  PROVE  IInv'
<1>1. /\ writer \in Writer /\ faults < MaxFaults /\ faults' = faults + 1 /\ health' = "error"
      /\ writer' = [writer EXCEPT !.at = "exited"]
      /\ UNCHANGED <<ev, idx, closed, body, lane, receipt, waiting, fence, store,
                     dropped, run, phase, terminal>>
  BY DEF WriterGivesUp, IInv, Types
<1>2. /\ writer' \in Writer /\ writer'.at = "exited"
      /\ writer'.consumed = writer.consumed /\ writer'.pending = writer.pending
  BY <1>1 DEF Writer
<1>3. Types'
  <2>1. faults' \in 0..MaxFaults
    BY <1>1, BoundsAssumption DEF IInv, Types
  <2> QED
    BY <1>1, <1>2, <2>1 DEF IInv, Types
<1>4. Channel' /\ Buffered' /\ Truthful' /\ Settled' = Settled
  BY <1>1, <1>2, JournalRests
<1>5. Numbered' /\ Stored(store)' /\ Ends'
  BY <1>1 DEF IInv, Numbered, Stored, Ends, Missed
<1>6. Fences' /\ Shut' /\ BarrierCovers'
  BY <1>1, <1>2, <1>4 DEF IInv, Fences, Shut, BarrierCovers
<1> QED
  BY <1>3, <1>4, <1>5, <1>6 DEF IInv

\* The writer takes a barrier from its lane.
LEMMA WriterTakesControlKeeps ==
  ASSUME IInv, WriterTakesControl
  PROVE  IInv'
<1>1. /\ writer \in Writer /\ lane \in Seq(Control) /\ lane # << >>
      /\ writer.at # "exited" /\ writer.held = NoControl
      /\ writer' = [writer EXCEPT !.at = "running", !.held = Head(lane)]
      /\ lane' = Tail(lane)
      /\ UNCHANGED <<ev, idx, health, closed, body, receipt, waiting, fence, store,
                     dropped, run, phase, terminal, faults>>
  BY DEF WriterTakesControl, IInv, Types
<1>2. /\ Head(lane) = lane[1] /\ lane[1] \in Control /\ Len(lane) \in Nat /\ Len(lane) > 0
      /\ Tail(lane) \in Seq(Control) /\ Len(Tail(lane)) = Len(lane) - 1
      /\ \A i \in 1..Len(Tail(lane)) : Tail(lane)[i] = lane[i+1]
  BY <1>1
<1>3. /\ writer' \in Writer /\ writer'.at = "running" /\ writer'.held = lane[1]
      /\ writer'.consumed = writer.consumed /\ writer'.pending = writer.pending
  BY <1>1, <1>2 DEF Writer
<1>4. Types'
  BY <1>1, <1>2, <1>3 DEF IInv, Types
<1>5. Channel' /\ Buffered' /\ Truthful' /\ Settled' = Settled
  BY <1>1, <1>3, JournalRests
<1>6. Numbered' /\ Stored(store)' /\ Ends' /\ Shut'
  BY <1>1 DEF IInv, Numbered, Stored, Ends, Missed, Shut
<1>7. BarrierCovers'
  BY <1>1, <1>5 DEF IInv, BarrierCovers
<1>8. Fences'
  <2>1. /\ \A i \in 1..Len(lane) : fence[lane[i].from] = Queued(lane[i].target)
        /\ \A i, j \in 1..Len(lane) : lane[i].from = lane[j].from => i = j
    BY <1>1 DEF IInv, Fences
  <2>2. \A i \in 1..Len(lane') :
          lane'[i] = lane[i+1] /\ i + 1 \in 1..Len(lane) /\ i + 1 # 1
    BY <1>1, <1>2
  <2>3. 1 \in 1..Len(lane)
    BY <1>2
  <2>4. \A i \in 1..Len(lane') : lane'[i].from # lane[1].from
    BY <2>1, <2>2, <2>3
  <2>5. \A i, j \in 1..Len(lane') : lane'[i].from = lane'[j].from => i = j
    <3> SUFFICES ASSUME NEW i \in 1..Len(lane'), NEW j \in 1..Len(lane'),
                        lane'[i].from = lane'[j].from
                 PROVE  i = j
      OBVIOUS
    <3>1. i + 1 = j + 1
      BY <2>1, <2>2
    <3> QED
      BY <1>1, <1>2, <3>1
  <2>6. \A i \in 1..Len(lane') : fence'[lane'[i].from] = Queued(lane'[i].target)
    BY <1>1, <2>1, <2>2
  <2>7. fence'[lane[1].from] = Queued(lane[1].target)
    BY <1>1, <2>1, <2>3
  <2> QED
    BY <1>3, <2>4, <2>5, <2>6, <2>7 DEF Fences, Queued
<1> QED
  BY <1>4, <1>5, <1>6, <1>7, <1>8 DEF IInv

-----------------------------------------------------------------------------
(* The broadcaster's steps.                                                *)

\* A refused admission.
LEMMA BroadcastUnavailableKeeps ==
  ASSUME IInv, BroadcastUnavailable
  PROVE  IInv'
<1>1. /\ health' = "error"
      /\ UNCHANGED <<ev, idx, closed, body, lane, writer, receipt, waiting, fence,
                     store, dropped, run, phase, terminal>>
  BY DEF BroadcastUnavailable
<1>2. faults' \in 0..MaxFaults
  BY BoundsAssumption DEF BroadcastUnavailable, IInv, Types
<1>3. Types'
  BY <1>1, <1>2 DEF IInv, Types
<1>4. Channel' /\ Buffered' /\ Truthful' /\ Settled' = Settled
  BY <1>1, JournalRests
<1>5. Numbered' /\ Stored(store)' /\ Ends'
  BY <1>1 DEF IInv, Numbered, Stored, Ends, Missed
<1>6. Fences' /\ Shut' /\ BarrierCovers'
  BY <1>1, <1>4 DEF IInv, Fences, Shut, BarrierCovers
<1> QED
  BY <1>3, <1>4, <1>5, <1>6 DEF IInv

\* A producer reads its receipt.
LEMMA ProducerReturnsKeeps ==
  ASSUME IInv, NEW p \in Producers, ProducerReturns(p)
  PROVE  IInv'
<1> DEFINE x == IF receipt[waiting[p]] = "open" THEN receipt[waiting[p]] ELSE "none"
<1>1. /\ waiting[p] # 0 /\ health' \in {"ok", "error"}
      /\ waiting' = [waiting EXCEPT ![p] = 0]
      /\ receipt' = [receipt EXCEPT ![waiting[p]] = x]
      /\ UNCHANGED <<ev, idx, closed, body, lane, writer, fence, store, dropped, run,
                     phase, terminal, faults>>
  BY DEF ProducerReturns, ReceiptAnswered, IInv, Types
<1>2. waiting[p] \in Seqs /\ receipt \in [Seqs -> Receipts]
  BY <1>1, BoundsAssumption DEF IInv, Types, Seqs
<1>3. receipt' \in [Seqs -> Receipts] /\ waiting' \in [Producers -> 0..MaxEvents]
  BY <1>1, <1>2, BoundsAssumption DEF IInv, Types, Receipts
<1>4. \A e \in Seqs : receipt'[e] = receipt[e] \/ receipt'[e] = "none"
  BY <1>1, <1>2
<1>5. Types'
  BY <1>1, <1>3 DEF IInv, Types
<1>6. Numbered' /\ Stored(store)' /\ Ends' /\ Channel' /\ Fences' /\ Shut'
  BY <1>1 DEF IInv, Numbered, Stored, Ends, Missed, Channel, Fences, Shut
<1>7. Buffered' /\ BarrierCovers'
  BY <1>1 DEF IInv, Buffered, BarrierCovers, Settled, Ascending, Elems, At
<1>8. Truthful'
  <2>1. Says(receipt', store)
    BY <1>4 DEF IInv, Truthful, Says
  <2>2. \A i \in 1..Len(writer.pending) : writer.pending[i] \in Seqs
    BY DEF IInv, Types, Writer
  <2> QED
    BY <1>1, <1>4, <2>1, <2>2 DEF IInv, Truthful, Says
<1> QED
  BY <1>5, <1>6, <1>7, <1>8 DEF IInv
\* An event is admitted under the next index of its stream.
LEMMA BroadcastKeeps ==
  ASSUME IInv, NEW bad \in BOOLEAN, NEW durable \in BOOLEAN, Broadcast(bad, durable)
  PROVE  IInv'
<1> DEFINE e == Len(ev) + 1
           x == [stream |-> run, idx |-> idx[run], bad |-> bad, durable |-> durable]
           a == IF durable THEN "open" ELSE "none"
<1>1. /\ ~closed /\ e <= MaxEvents
      /\ ev' = Append(ev, x) /\ idx' = [idx EXCEPT ![run] = @ + 1]
      /\ body' = Append(body, e) /\ receipt' = [receipt EXCEPT ![e] = a]
      /\ UNCHANGED <<health, closed, lane, writer, fence, store, dropped, run,
                     phase, terminal, faults>>
  BY DEF Broadcast, Admits
<1>2. /\ ev \in Seq(Event) /\ Len(ev) \in Nat /\ idx \in [Runs -> Nat] /\ run \in Runs
      /\ body \in Seq(Seqs) /\ Len(body) \in Nat /\ receipt \in [Seqs -> Receipts]
      /\ writer \in Writer /\ writer.consumed \in Nat /\ store \in Store
  BY DEF IInv, Types, Writer
<1>3. x \in Event /\ x.stream = run /\ x.idx = idx[run] /\ idx[run] \in Nat
  BY <1>2 DEF Event
<1>4. e \in Seqs /\ e \in Nat
  BY <1>1, <1>2 DEF Seqs
<1>5. waiting' \in [Producers -> 0..MaxEvents]
  <2>1. waiting \in [Producers -> 0..MaxEvents]
    BY DEF IInv, Types
  <2>2. \/ waiting' = waiting
        \/ \E p \in Producers : waiting' = [waiting EXCEPT ![p] = e]
    BY DEF Broadcast
  <2>3. e \in 0..MaxEvents
    BY <1>1, <1>2, BoundsAssumption
  <2> HIDE DEF e
  <2> QED
    BY <2>1, <2>2, <2>3
<1> HIDE DEF x
<1>6. /\ ev' \in Seq(Event) /\ Len(ev') = e /\ ev'[e] = x
      /\ \A f \in 1..Len(ev) : ev'[f] = ev[f] /\ ev[f] \in Event
  BY <1>1, <1>2, <1>3
<1>7. /\ idx' \in [Runs -> Nat] /\ idx'[run] = idx[run] + 1
      /\ \A r \in Runs : r # run => idx'[r] = idx[r]
  BY <1>1, <1>2, <1>3
<1>7a. \A r \in Runs : idx[r] \in Nat /\ idx'[r] \in Nat /\ idx[r] <= idx'[r]
  <2> SUFFICES ASSUME NEW r \in Runs
               PROVE  idx[r] \in Nat /\ idx'[r] \in Nat /\ idx[r] <= idx'[r]
    OBVIOUS
  <2>1. idx[r] \in Nat /\ idx'[r] \in Nat
    BY <1>2, <1>7
  <2>2. idx'[r] = idx[r] \/ idx'[r] = idx[r] + 1
    BY <1>7
  <2> QED
    BY <2>1, <2>2
<1>8. /\ body' \in Seq(Seqs) /\ Len(body') = Len(body) + 1 /\ body'[Len(body) + 1] = e
      /\ \A i \in 1..Len(body) : body'[i] = body[i]
  BY <1>1, <1>2, <1>4
<1>9. /\ receipt' \in [Seqs -> Receipts] /\ receipt'[e] \in {"open", "none"}
      /\ \A f \in Seqs : f # e => receipt'[f] = receipt[f]
  BY <1>1, <1>2, <1>4 DEF Receipts
<1>10. /\ \A f \in 1..Len(ev') : f \in 1..Len(ev) \/ f = e
       /\ \A f \in 1..Len(ev) : f \in 1..Len(ev') /\ f < e /\ ev[f].stream \in Runs
                               /\ ev[f].idx \in Nat
       /\ e \in 1..Len(ev')
  <2>1. /\ \A f \in 1..Len(ev') : f \in 1..Len(ev) \/ f = e
        /\ \A f \in 1..Len(ev) : f \in 1..Len(ev') /\ f < e
        /\ e \in 1..Len(ev')
    BY <1>2, <1>6
  <2>2. \A f \in 1..Len(ev) : ev[f].stream \in Runs /\ ev[f].idx \in Nat
    BY <1>6 DEF Event
  <2> QED
    BY <2>1, <2>2
<1> HIDE DEF e, a
<1>11. Types'
  BY <1>1, <1>5, <1>6, <1>7, <1>8, <1>9 DEF IInv, Types
<1>12. Numbered'
  <2>1. \A f \in 1..Len(ev') : ev'[f].stream <= run /\ ev'[f].idx < idx'[ev'[f].stream]
    <3> SUFFICES ASSUME NEW f \in 1..Len(ev')
                 PROVE  ev'[f].stream <= run /\ ev'[f].idx < idx'[ev'[f].stream]
      OBVIOUS
    <3>1. CASE f = e
      BY <1>2, <1>3, <1>6, <1>7, <3>1, BoundsAssumption DEF Runs
    <3>2. CASE f \in 1..Len(ev)
      <4>1. /\ ev[f].stream <= run /\ ev[f].idx < idx[ev[f].stream]
            /\ ev'[f] = ev[f] /\ ev[f].stream \in Runs /\ ev[f].idx \in Nat
        BY <1>6, <1>10, <3>2 DEF IInv, Numbered
      <4>2. idx[ev[f].stream] <= idx'[ev[f].stream] /\ idx[ev[f].stream] \in Nat
        BY <1>7a, <4>1
      <4> QED
        BY <1>7a, <4>1, <4>2
    <3> QED
      BY <1>10, <3>1, <3>2
  <2>2. \A f, g \in 1..Len(ev') :
          f < g /\ ev'[f].stream = ev'[g].stream => ev'[f].idx < ev'[g].idx
    <3> SUFFICES ASSUME NEW f \in 1..Len(ev'), NEW g \in 1..Len(ev'), f < g,
                        ev'[f].stream = ev'[g].stream
                 PROVE  ev'[f].idx < ev'[g].idx
      OBVIOUS
    <3>1. f # e
      BY <1>4, <1>6
    <3>2. f \in 1..Len(ev) /\ ev'[f] = ev[f]
      BY <1>6, <1>10, <3>1
    <3>3. CASE g = e
      BY <1>3, <1>6, <3>2, <3>3 DEF IInv, Numbered
    <3>4. CASE g \in 1..Len(ev)
      BY <1>6, <3>2, <3>4 DEF IInv, Numbered
    <3> QED
      BY <1>10, <3>3, <3>4
  <2>3. \A r \in Runs : r > run => idx'[r] = 0
    BY <1>2, <1>7 DEF IInv, Numbered, Runs
  <2> QED
    BY <1>1, <2>1, <2>2, <2>3 DEF Numbered
<1>13. Channel'
  <2>1. Len(ev) = writer.consumed + Len(body)
    BY DEF IInv, Channel
  <2>2. e = writer.consumed + (Len(body) + 1)
    <3>1. Len(body) \in Nat /\ writer.consumed \in Nat
      BY <1>2
    <3> QED
      BY <2>1, <3>1 DEF e
  <2>3. \A i \in 1..Len(body') : i \in 1..Len(body) \/ i = Len(body) + 1
    BY <1>2, <1>8
  <2> QED
    BY <1>1, <1>6, <1>8, <2>2, <2>3 DEF IInv, Channel
<1>14. Buffered' /\ Settled' = Settled
  BY <1>1 DEF IInv, Buffered, Settled, Ascending, Elems, At
<1>15. e \notin store.landed
  BY <1>10 DEF IInv, Stored
<1>16. Stored(store)'
  <2>1. store.landed \subseteq 1..Len(ev')
    BY <1>10 DEF IInv, Stored
  <2>2. \A r \in Runs \ store.sealed : -1 <= store.cursor[r] /\ store.cursor[r] < idx'[r]
    <3> SUFFICES ASSUME NEW r \in Runs \ store.sealed
                 PROVE  -1 <= store.cursor[r] /\ store.cursor[r] < idx'[r]
      OBVIOUS
    <3>1. -1 <= store.cursor[r] /\ store.cursor[r] < idx[r] /\ store.cursor[r] \in Int
      BY <1>2 DEF IInv, Stored, Store
    <3> QED
      BY <1>7a, <3>1
  <2>3. \A f \in 1..Len(ev') : ev'[f].stream \notin store.sealed =>
          (f \in store.landed <=> ev'[f].idx <= store.cursor[ev'[f].stream])
    <3> SUFFICES ASSUME NEW f \in 1..Len(ev'), ev'[f].stream \notin store.sealed
                 PROVE  f \in store.landed <=> ev'[f].idx <= store.cursor[ev'[f].stream]
      OBVIOUS
    <3>1. CASE f = e
      <4>1. store.cursor[run] < idx[run] /\ store.cursor[run] \in Int
        BY <1>2, <1>3, <1>6, <3>1 DEF IInv, Stored, Store
      <4> QED
        BY <1>3, <1>6, <1>15, <3>1, <4>1
    <3>2. CASE f \in 1..Len(ev)
      BY <1>6, <3>2 DEF IInv, Stored
    <3> QED
      BY <1>10, <3>1, <3>2
  <2>4. \A f \in store.landed : ev'[f].idx <= store.cursor[ev'[f].stream]
    BY <1>6 DEF IInv, Stored
  <2>5. \A f, g \in 1..Len(ev') :
          f < g /\ ev'[f].stream = ev'[g].stream /\ g \in store.landed =>
            f \in store.landed
    <3> SUFFICES ASSUME NEW f \in 1..Len(ev'), NEW g \in 1..Len(ev'), f < g,
                        ev'[f].stream = ev'[g].stream, g \in store.landed
                 PROVE  f \in store.landed
      OBVIOUS
    <3>1. g \in 1..Len(ev)
      BY DEF IInv, Stored
    <3>2. f \in 1..Len(ev)
      BY <1>2, <3>1
    <3> QED
      BY <1>6, <3>1, <3>2 DEF IInv, Stored
  <2> QED
    BY <1>1, <2>1, <2>2, <2>3, <2>4, <2>5 DEF Stored
<1>17. Truthful'
  <2>1. Says(receipt', store)
    BY <1>9 DEF IInv, Truthful, Says
  <2>2. \A i \in 1..Len(writer.pending) : writer.pending[i] \in Seqs
    BY <1>2 DEF Writer
  <2>3. \A f \in Seqs : receipt'[f] = "rejected" => receipt[f] = "rejected"
    BY <1>9
  <2> QED
    BY <1>1, <2>1, <2>2, <2>3 DEF IInv, Truthful, Says
<1>18. Fences'
  BY <1>1 DEF IInv, Fences
<1>19. fence["shutdown"] = Idle
  BY <1>1 DEF IInv, Shut
<1>20. Shut' /\ BarrierCovers'
  <2>1. fence["shutdown"].st = "none"
    BY <1>19 DEF Idle
  <2> QED
    BY <1>1, <1>14, <1>19, <2>1 DEF IInv, Shut, BarrierCovers
<1>21. Ends'
  <2>1. Missed(run)'
    BY <1>1, <1>3, <1>6, <1>10, <1>15 DEF Missed
  <2>2. ASSUME NEW r, Missed(r)
        PROVE  Missed(r)'
    BY <1>1, <1>6, <1>10, <2>2 DEF Missed
  <2>3. \E f \in 1..Len(ev') : ev'[f].stream = run /\ ev'[f].idx = idx'[run] - 1
    BY <1>2, <1>3, <1>6, <1>7, <1>10
  <2> QED
    BY <1>1, <2>1, <2>2, <2>3 DEF IInv, Ends
<1> QED
  BY <1>11, <1>12, <1>13, <1>14, <1>16, <1>17, <1>18, <1>20, <1>21 DEF IInv
-----------------------------------------------------------------------------
(* Barriers and the ends of runs.                                          *)

\* A barrier is queued.
LEMMA QueueFenceKeeps ==
  ASSUME IInv, NEW c \in Callers, QueueFence(c), UNCHANGED <<ev, writer>>
  PROVE  /\ lane' \in Seq(Control) /\ fence' \in [Callers -> Fence] /\ Fences'
         /\ fence'[c] = Queued(Len(ev))
         /\ \A d \in Callers : d # c => fence'[d] = fence[d]
<1> DEFINE x == [target |-> Len(ev), from |-> c]
<1>1. /\ fence[c] = Idle /\ writer.at # "exited" /\ lane' = Append(lane, x)
      /\ fence' = [fence EXCEPT ![c] = Queued(Len(ev))]
  BY DEF QueueFence, Queued
<1>2. /\ lane \in Seq(Control) /\ Len(lane) \in Nat /\ fence \in [Callers -> Fence]
      /\ Len(ev) \in 0..MaxEvents
  BY BoundsAssumption DEF IInv, Types
<1>3. x \in Control /\ x.from = c /\ x.target = Len(ev) /\ Queued(Len(ev)) \in Fence
  BY <1>2 DEF Control, Queued, Fence
<1> HIDE DEF x
<1>4. /\ fence' \in [Callers -> Fence] /\ fence'[c] = Queued(Len(ev))
      /\ \A d \in Callers : d # c => fence'[d] = fence[d]
  BY <1>1, <1>2, <1>3
<1>5. /\ lane' \in Seq(Control) /\ Len(lane') = Len(lane) + 1 /\ lane'[Len(lane) + 1] = x
      /\ \A i \in 1..Len(lane) : lane'[i] = lane[i] /\ lane[i] \in Control
  BY <1>1, <1>2, <1>3
<1>6. \A i \in 1..Len(lane') : i \in 1..Len(lane) \/ i = Len(lane) + 1
  BY <1>2, <1>5
<1>7. \A n : Queued(n) # Idle
  BY DEF Queued, Idle
<1>8. \A i \in 1..Len(lane) : lane[i].from # c /\ lane[i].from \in Callers
  <2> SUFFICES ASSUME NEW i \in 1..Len(lane)
               PROVE  lane[i].from # c /\ lane[i].from \in Callers
    OBVIOUS
  <2>1. fence[lane[i].from] = Queued(lane[i].target)
    BY <1>1 DEF IInv, Fences
  <2> QED
    BY <1>1, <1>5, <1>7, <2>1 DEF Control
<1>9. writer.held # NoControl => writer.held.from # c /\ writer.held.from \in Callers
  <2> SUFFICES ASSUME writer.held # NoControl
               PROVE  writer.held.from # c /\ writer.held.from \in Callers
    OBVIOUS
  <2>1. writer.held \in Control
    BY DEF IInv, Types, Writer
  <2>2. fence[writer.held.from] = Queued(writer.held.target)
    BY <1>1 DEF IInv, Fences
  <2> QED
    BY <1>1, <1>7, <2>1, <2>2 DEF Control
<1>10. Fences'
  <2>1. /\ writer.at = "starting" => writer.held = NoControl
        /\ writer.held # NoControl =>
             fence'[writer.held.from] = Queued(writer.held.target)
    BY <1>1, <1>4, <1>9 DEF IInv, Fences
  <2>2. writer.held # NoControl =>
          \A i \in 1..Len(lane') : lane'[i].from # writer.held.from
    <3> SUFFICES ASSUME writer.held # NoControl, NEW i \in 1..Len(lane')
                 PROVE  lane'[i].from # writer.held.from
      OBVIOUS
    <3>1. CASE i \in 1..Len(lane)
      BY <1>1, <1>5, <3>1 DEF IInv, Fences
    <3>2. CASE i = Len(lane) + 1
      BY <1>3, <1>5, <1>9, <3>2
    <3> QED
      BY <1>6, <3>1, <3>2
  <2>3. \A i \in 1..Len(lane') : fence'[lane'[i].from] = Queued(lane'[i].target)
    <3> SUFFICES ASSUME NEW i \in 1..Len(lane')
                 PROVE  fence'[lane'[i].from] = Queued(lane'[i].target)
      OBVIOUS
    <3>1. CASE i \in 1..Len(lane)
      BY <1>1, <1>4, <1>5, <1>8, <3>1 DEF IInv, Fences
    <3>2. CASE i = Len(lane) + 1
      BY <1>3, <1>4, <1>5, <3>2
    <3> QED
      BY <1>6, <3>1, <3>2
  <2>4. \A i, j \in 1..Len(lane') : lane'[i].from = lane'[j].from => i = j
    <3> SUFFICES ASSUME NEW i \in 1..Len(lane'), NEW j \in 1..Len(lane'),
                        lane'[i].from = lane'[j].from
                 PROVE  i = j
      OBVIOUS
    <3>1. CASE i \in 1..Len(lane) /\ j \in 1..Len(lane)
      BY <1>1, <1>5, <3>1 DEF IInv, Fences
    <3>2. CASE i \in 1..Len(lane) /\ j = Len(lane) + 1
      BY <1>3, <1>5, <1>8, <3>2
    <3>3. CASE i = Len(lane) + 1 /\ j \in 1..Len(lane)
      BY <1>3, <1>5, <1>8, <3>3
    <3> QED
      BY <1>6, <3>1, <3>2, <3>3
  <2> QED
    BY <2>1, <2>2, <2>3, <2>4 DEF Fences, Queued
<1> QED
  BY <1>4, <1>5, <1>10

\* A caller reads the answer to its barrier.
LEMMA FenceReturns ==
  ASSUME IInv, FenceAnswered("session"), fence' = [fence EXCEPT !["session"] = Idle],
         UNCHANGED <<writer, lane>>
  PROVE  /\ fence' \in [Callers -> Fence] /\ Fences'
         /\ fence'["session"] = Idle /\ fence'["shutdown"] = fence["shutdown"]
<1>1. fence \in [Callers -> Fence] /\ Idle \in Fence
  BY BoundsAssumption DEF IInv, Types, Idle, Fence
<1>2. /\ fence' \in [Callers -> Fence] /\ fence'["session"] = Idle
      /\ \A c \in Callers : c # "session" => fence'[c] = fence[c]
  BY <1>1 DEF Callers
<1>3. Fences'
  <2>1. SUFFICES ASSUME writer.at # "exited" PROVE Fences'
    BY DEF Fences
  <2>2. \A n : fence["session"] # Queued(n)
    BY <2>1 DEF FenceAnswered, Queued
  <2>3. writer.held # NoControl => writer.held.from # "session" /\ writer.held.from \in Callers
    <3> SUFFICES ASSUME writer.held # NoControl
                 PROVE  writer.held.from # "session" /\ writer.held.from \in Callers
      OBVIOUS
    <3>1. writer.held \in Control
      BY DEF IInv, Types, Writer
    <3>2. fence[writer.held.from] = Queued(writer.held.target)
      BY <2>1 DEF IInv, Fences
    <3> QED
      BY <2>2, <3>1, <3>2 DEF Control
  <2>4. \A i \in 1..Len(lane) : lane[i].from # "session" /\ lane[i].from \in Callers
    <3> SUFFICES ASSUME NEW i \in 1..Len(lane)
                 PROVE  lane[i].from # "session" /\ lane[i].from \in Callers
      OBVIOUS
    <3>1. lane[i] \in Control
      BY DEF IInv, Types
    <3>2. fence[lane[i].from] = Queued(lane[i].target)
      BY <2>1 DEF IInv, Fences
    <3> QED
      BY <2>2, <3>1, <3>2 DEF Control
  <2>5. writer.held # NoControl =>
          /\ fence'[writer.held.from] = Queued(writer.held.target)
          /\ \A i \in 1..Len(lane) : lane[i].from # writer.held.from
    BY <1>2, <2>1, <2>3 DEF IInv, Fences
  <2>6. \A i \in 1..Len(lane) : fence'[lane[i].from] = Queued(lane[i].target)
    BY <1>2, <2>1, <2>4 DEF IInv, Fences
  <2> QED
    BY <2>1, <2>5, <2>6 DEF IInv, Fences, Queued
<1> QED
  BY <1>2, <1>3 DEF Callers

\* Nobody's barrier succeeds by a step that leaves events and store alone and
\* queues or returns the session's.
LEMMA SessionFence ==
  ASSUME IInv, UNCHANGED <<ev, closed>>, Settled' = Settled,
         fence'["shutdown"] = fence["shutdown"], fence'["session"].st # "ok"
  PROVE  Shut' /\ BarrierCovers'
BY DEF IInv, Shut, BarrierCovers, Callers

\* The session's barrier, queued or returned, in a step that leaves events,
\* channel, buffer, store and writer alone.
LEMMA FenceStep ==
  ASSUME IInv,
         UNCHANGED <<ev, closed, body, writer, receipt, waiting, store, dropped, faults>>,
         \/ QueueFence("session")
         \/ /\ FenceAnswered("session") /\ UNCHANGED lane
            /\ fence' = [fence EXCEPT !["session"] = Idle]
         \/ UNCHANGED <<lane, fence>>,
         health' \in {"ok", "error"}, idx' \in [Runs -> Nat], run' \in Runs,
         phase' \in {"active", "fencing", "commit", "publish", "ended", "starting",
                     "recovering"},
         terminal' \in [Runs -> {"none", "live", "unsaved", "missing"}]
  PROVE  /\ Types' /\ Channel' /\ Buffered' /\ Truthful'
         /\ Fences' /\ Shut' /\ BarrierCovers'
<1>1. Channel' /\ Buffered' /\ Truthful' /\ Settled' = Settled
  BY JournalRests
<1>2. /\ lane' \in Seq(Control) /\ fence' \in [Callers -> Fence] /\ Fences'
      /\ Shut' /\ BarrierCovers'
  <2>1. CASE QueueFence("session")
    <3>1. /\ lane' \in Seq(Control) /\ fence' \in [Callers -> Fence] /\ Fences'
          /\ fence'["session"] = Queued(Len(ev)) /\ fence'["shutdown"] = fence["shutdown"]
      BY <2>1, QueueFenceKeeps DEF Callers
    <3>2. fence'["session"].st # "ok"
      BY <3>1 DEF Queued
    <3> QED
      BY <1>1, <3>1, <3>2, SessionFence
  <2>2. CASE /\ FenceAnswered("session") /\ UNCHANGED lane
             /\ fence' = [fence EXCEPT !["session"] = Idle]
    <3>1. /\ fence' \in [Callers -> Fence] /\ Fences'
          /\ fence'["session"] = Idle /\ fence'["shutdown"] = fence["shutdown"]
      BY <2>2, FenceReturns
    <3>2. fence'["session"].st # "ok"
      BY <3>1 DEF Idle
    <3>3. lane' \in Seq(Control)
      BY <2>2 DEF IInv, Types
    <3> QED
      BY <1>1, <3>1, <3>2, <3>3, SessionFence
  <2>3. CASE UNCHANGED <<lane, fence>>
    BY <1>1, <2>3 DEF IInv, Types, Fences, Shut, BarrierCovers
  <2> QED
    BY <2>1, <2>2, <2>3
<1>3. Types'
  BY <1>2 DEF IInv, Types
<1> QED
  BY <1>1, <1>2, <1>3
\* The index of the run grows without an event.
LEMMA IndexGrows ==
  ASSUME IInv, UNCHANGED <<ev, store, run>>, NEW n \in Nat,
         idx' = [idx EXCEPT ![run] = @ + n]
  PROVE  idx' \in [Runs -> Nat] /\ Numbered' /\ Stored(store)'
<1>1. idx \in [Runs -> Nat] /\ run \in Runs /\ run \in Nat
  BY BoundsAssumption DEF IInv, Types, Runs
<1>2. idx[run] \in Nat /\ idx[run] + n \in Nat
  BY <1>1
<1>3. /\ idx' \in [Runs -> Nat] /\ idx'[run] = idx[run] + n
      /\ \A r \in Runs : r # run => idx'[r] = idx[r]
  BY <1>1, <1>2
<1>4. \A r \in Runs : idx[r] <= idx'[r] /\ idx[r] \in Nat /\ idx'[r] \in Nat
  <2> SUFFICES ASSUME NEW r \in Runs
               PROVE  idx[r] <= idx'[r] /\ idx[r] \in Nat /\ idx'[r] \in Nat
    OBVIOUS
  <2>1. idx[r] \in Nat /\ idx'[r] \in Nat
    BY <1>1, <1>3
  <2>2. idx'[r] = idx[r] \/ idx'[r] = idx[r] + n
    BY <1>3
  <2> QED
    BY <2>1, <2>2
<1>5. \A e \in 1..Len(ev) : ev[e].stream \in Runs /\ ev[e].idx \in Nat
  <2>1. \A e \in 1..Len(ev) : ev[e] \in Event
    BY DEF IInv, Types
  <2> QED
    BY <2>1 DEF Event
<1>6. Numbered'
  <2>1. \A e \in 1..Len(ev) : ev[e].stream <= run /\ ev[e].idx < idx'[ev[e].stream]
    <3> SUFFICES ASSUME NEW e \in 1..Len(ev)
                 PROVE  ev[e].stream <= run /\ ev[e].idx < idx'[ev[e].stream]
      OBVIOUS
    <3>1. ev[e].stream <= run /\ ev[e].idx < idx[ev[e].stream]
      BY DEF IInv, Numbered
    <3> QED
      BY <1>4, <1>5, <3>1
  <2>2. \A r \in Runs : r > run => idx'[r] = 0
    BY <1>1, <1>3 DEF IInv, Numbered, Runs
  <2> QED
    BY <2>1, <2>2 DEF IInv, Numbered
<1>7. Stored(store)'
  <2>1. \A r \in Runs \ store.sealed : -1 <= store.cursor[r] /\ store.cursor[r] < idx'[r]
    <3> SUFFICES ASSUME NEW r \in Runs \ store.sealed
                 PROVE  -1 <= store.cursor[r] /\ store.cursor[r] < idx'[r]
      OBVIOUS
    <3>1. -1 <= store.cursor[r] /\ store.cursor[r] < idx[r] /\ store.cursor[r] \in Int
      BY DEF IInv, Types, Stored, Store
    <3> QED
      BY <1>4, <3>1
  <2> QED
    BY <2>1 DEF IInv, Stored
<1> QED
  BY <1>3, <1>6, <1>7

\* A run is abandoned: nothing of it is committed.
LEMMA AbandonKeeps ==
  ASSUME IInv, Abandons, UNCHANGED <<ev, store, run>>
  PROVE  /\ idx' \in [Runs -> Nat] /\ Numbered' /\ Stored(store)' /\ Ends'
         /\ terminal' \in [Runs -> {"none", "live", "unsaved", "missing"}]
         /\ phase' = "ended"
<1>1. idx' \in [Runs -> Nat] /\ Numbered' /\ Stored(store)'
  BY IndexGrows DEF Abandons
<1>2. /\ phase' = "ended" /\ terminal' = [terminal EXCEPT ![run] = "unsaved"]
      /\ run \in Runs /\ terminal \in [Runs -> {"none", "live", "unsaved", "missing"}]
  BY DEF Abandons, IInv, Types
<1>3. /\ terminal' \in [Runs -> {"none", "live", "unsaved", "missing"}]
      /\ \A r \in Runs : terminal'[r] = "missing" => terminal[r] = "missing"
  BY <1>2
<1>4. Ends'
  BY <1>2, <1>3 DEF IInv, Ends, Missed
<1> QED
  BY <1>1, <1>2, <1>3, <1>4

\* Between two runs nothing is known about the run that ended but its terminal.
LEMMA BetweenRuns ==
  ASSUME IInv, UNCHANGED <<ev, idx, store, run, terminal>>,
         phase' \in {"ended", "recovering", "starting"},
         phase' = "starting" => run < MaxRuns
  PROVE  Numbered' /\ Stored(store)' /\ Ends'
BY DEF IInv, Numbered, Stored, Ends, Missed

\* The session's own steps between two runs, and the shutdown.
LEMMA BetweenKeeps ==
  ASSUME IInv, RecoverStorage \/ RecoverReturns \/ RunStarts
  PROVE  IInv'
<1>1. /\ UNCHANGED <<ev, idx, closed, body, writer, receipt, waiting, store, dropped,
                     run, terminal, faults>>
      /\ \/ QueueFence("session")
         \/ /\ FenceAnswered("session") /\ UNCHANGED lane
            /\ fence' = [fence EXCEPT !["session"] = Idle]
      /\ phase' \in {"ended", "recovering", "starting"}
      /\ phase' = "starting" => run < MaxRuns
  BY DEF RecoverStorage, RecoverReturns, RunStarts
<1>2. health' \in {"ok", "error"}
  BY DEF RecoverStorage, RecoverReturns, RunStarts, IInv, Types
<1>3. /\ idx' \in [Runs -> Nat] /\ run' \in Runs
      /\ terminal' \in [Runs -> {"none", "live", "unsaved", "missing"}]
  BY <1>1 DEF IInv, Types
<1>4. Numbered' /\ Stored(store)' /\ Ends'
  BY <1>1, BetweenRuns
<1>5. /\ Types' /\ Channel' /\ Buffered' /\ Truthful'
      /\ Fences' /\ Shut' /\ BarrierCovers'
  BY <1>1, <1>2, <1>3, FenceStep
<1> QED
  BY <1>4, <1>5 DEF IInv

\* Admission closes, and the shutdown takes its target.
LEMMA ShutdownJournalKeeps ==
  ASSUME IInv, ShutdownJournal
  PROVE  IInv'
<1>1. /\ ~closed /\ closed' = TRUE
      /\ UNCHANGED <<ev, idx, health, body, writer, receipt, waiting, store, dropped,
                     run, phase, terminal, faults>>
      /\ QueueFence("shutdown") \/ UNCHANGED <<lane, fence>>
  BY DEF ShutdownJournal
<1>2. Channel' /\ Buffered' /\ Truthful' /\ Settled' = Settled
  BY <1>1, JournalRests
<1>3. Numbered' /\ Stored(store)' /\ Ends'
  BY <1>1 DEF IInv, Numbered, Stored, Ends, Missed
<1>4. /\ lane' \in Seq(Control) /\ fence' \in [Callers -> Fence] /\ Fences'
      /\ Shut' /\ BarrierCovers'
  <2>1. CASE QueueFence("shutdown")
    <3>1. /\ lane' \in Seq(Control) /\ fence' \in [Callers -> Fence] /\ Fences'
          /\ fence'["shutdown"] = Queued(Len(ev)) /\ fence'["session"] = fence["session"]
      BY <1>1, <2>1, QueueFenceKeeps DEF Callers
    <3>2. fence'["shutdown"].target = Len(ev) /\ fence'["shutdown"].st # "ok"
      BY <3>1 DEF Queued
    <3> QED
      BY <1>1, <1>2, <3>1, <3>2 DEF IInv, Shut, BarrierCovers, Callers
  <2>2. CASE UNCHANGED <<lane, fence>>
    BY <1>1, <1>2, <2>2 DEF IInv, Types, Fences, Shut, BarrierCovers
  <2> QED
    BY <1>1, <2>1, <2>2
<1>5. Types'
  BY <1>1, <1>4 DEF IInv, Types
<1> QED
  BY <1>2, <1>3, <1>4, <1>5 DEF IInv

\* The run's task asks for its barrier and reads the answer.
LEMMA RunEndsKeeps ==
  ASSUME IInv, RunEnds \/ RunFenced
  PROVE  IInv'
<1>1. /\ UNCHANGED <<ev, closed, body, writer, receipt, waiting, store, dropped, run, faults>>
      /\ \/ QueueFence("session")
         \/ /\ FenceAnswered("session") /\ UNCHANGED lane
            /\ fence' = [fence EXCEPT !["session"] = Idle]
         \/ UNCHANGED <<lane, fence>>
      /\ phase \in {"active", "fencing"}
      /\ \/ phase' \in {"fencing", "commit"} /\ UNCHANGED <<health, idx, terminal>>
         \/ health' = "error" /\ Abandons
  BY DEF RunEnds, RunFenced
<1>2. /\ idx' \in [Runs -> Nat] /\ run' \in Runs /\ health' \in {"ok", "error"}
      /\ phase' \in {"fencing", "commit", "ended"}
      /\ terminal' \in [Runs -> {"none", "live", "unsaved", "missing"}]
      /\ Numbered' /\ Stored(store)' /\ Ends'
  <2>1. CASE phase' \in {"fencing", "commit"} /\ UNCHANGED <<health, idx, terminal>>
    BY <1>1, <2>1 DEF IInv, Types, Numbered, Stored, Ends, Missed
  <2>2. CASE health' = "error" /\ Abandons
    BY <1>1, <2>2, AbandonKeeps DEF IInv, Types
  <2> QED
    BY <1>1, <2>1, <2>2
<1>3. /\ Types' /\ Channel' /\ Buffered' /\ Truthful'
      /\ Fences' /\ Shut' /\ BarrierCovers'
  BY <1>1, <1>2, FenceStep
<1> QED
  BY <1>2, <1>3 DEF IInv
\* The terminal takes the cursor behind the last stored event, or fails.
LEMMA TerminalCommitsKeeps ==
  ASSUME IInv, TerminalCommits
  PROVE  IInv'
<1>1. /\ phase = "commit"
      /\ UNCHANGED <<ev, health, closed, body, lane, writer, receipt, waiting, fence,
                     dropped, run>>
  BY DEF TerminalCommits
<1>2. CASE /\ store' = [store EXCEPT !.cursor[run] = @ + 1, !.sealed = @ \cup {run}]
           /\ phase' = "publish" /\ UNCHANGED <<idx, terminal, faults>>
  <2> DEFINE c == [store.cursor EXCEPT ![run] = store.cursor[run] + 1]
             z == store.sealed \cup {run}
  <2>1. /\ store \in Store /\ store.cursor \in [Runs -> Int] /\ store.sealed \subseteq Runs
        /\ run \in Runs /\ run \in Nat /\ store.cursor[run] \in Int
        /\ idx[run] \in Nat
    BY BoundsAssumption DEF IInv, Types, Store, Runs
  <2>2. store' = [store EXCEPT !.cursor = c, !.sealed = z]
    BY <1>2
  <2>3. /\ c \in [Runs -> Int] /\ z \in SUBSET Runs /\ c[run] = store.cursor[run] + 1
        /\ \A r \in Runs : r # run => c[r] = store.cursor[r]
    BY <2>1
  <2> HIDE DEF c
  <2>4. /\ store' \in Store /\ store'.cursor = c /\ store'.sealed = z
        /\ store'.landed = store.landed
    <3> HIDE DEF z
    <3> QED
      BY <2>1, <2>2, <2>3 DEF Store
  <2>5. Settled' = Settled
    BY <1>1, <2>4 DEF Settled
  <2>6. Types'
    BY <1>1, <1>2, <2>4 DEF IInv, Types
  <2>7. Numbered' /\ Channel' /\ Fences' /\ Shut'
    BY <1>1, <1>2 DEF IInv, Numbered, Channel, Fences, Shut
  <2>8. Buffered' /\ BarrierCovers'
    BY <1>1, <2>5 DEF IInv, Buffered, BarrierCovers, Ascending, Elems, At
  <2>9. Truthful'
    BY <1>1, <2>4 DEF IInv, Truthful, Says
  <2>10. \A e \in 1..Len(ev) : ev[e].stream \in Runs /\ ev[e].idx \in Nat
    <3>1. \A e \in 1..Len(ev) : ev[e] \in Event
      BY DEF IInv, Types
    <3> QED
      BY <3>1 DEF Event
  <2>11. Stored(store)'
    <3>1. \A r \in Runs \ z : -1 <= c[r] /\ c[r] < idx[r]
      BY <2>3 DEF IInv, Stored
    <3>2. \A e \in 1..Len(ev) : ev[e].stream \notin z =>
            (e \in store.landed <=> ev[e].idx <= c[ev[e].stream])
      BY <2>3, <2>10 DEF IInv, Stored
    <3>3. \A e \in store.landed : ev[e].idx <= c[ev[e].stream]
      <4> SUFFICES ASSUME NEW e \in store.landed
                   PROVE  ev[e].idx <= c[ev[e].stream]
        OBVIOUS
      <4>1. e \in 1..Len(ev) /\ ev[e].idx <= store.cursor[ev[e].stream]
        BY DEF IInv, Stored
      <4>2. ev[e].stream \in Runs /\ ev[e].idx \in Nat
        BY <2>10, <4>1
      <4>3. CASE ev[e].stream = run
        BY <2>1, <2>3, <4>1, <4>2, <4>3
      <4>4. CASE ev[e].stream # run
        BY <2>3, <4>1, <4>2, <4>4
      <4> QED
        BY <4>3, <4>4
    <3> HIDE DEF z
    <3> QED
      BY <1>1, <1>2, <2>4, <3>1, <3>2, <3>3 DEF IInv, Stored
  <2>12. store'.cursor[run] = idx[run] \/ Missed(run)
    <3>1. -1 <= store.cursor[run] /\ store.cursor[run] < idx[run]
      BY <1>1, <2>1 DEF IInv, Ends, Stored
    <3>2. CASE idx[run] = 0
      BY <2>1, <2>3, <2>4, <3>1, <3>2
    <3>3. CASE idx[run] # 0
      <4>1. PICK e \in 1..Len(ev) : ev[e].stream = run /\ ev[e].idx = idx[run] - 1
        BY <1>1, <3>3 DEF IInv, Ends
      <4>2. CASE e \notin store.landed
        BY <4>1, <4>2 DEF Missed
      <4>3. CASE e \in store.landed
        <5>1. idx[run] - 1 <= store.cursor[run]
          BY <4>1, <4>3 DEF IInv, Stored
        <5> QED
          BY <2>1, <2>3, <2>4, <3>1, <5>1
      <4> QED
        BY <4>2, <4>3
    <3> QED
      BY <3>2, <3>3
  <2>13. Ends'
    <3>1. \A r \in store'.sealed : r <= run
      BY <2>1, <2>4 DEF IInv, Ends
    <3>2. Missed(run)' <=> Missed(run)
      BY <1>1, <2>4 DEF Missed
    <3>3. \A r \in Runs : terminal[r] = "missing" => r \in store'.sealed /\ Missed(r)'
      BY <1>1, <2>4 DEF IInv, Ends, Missed
    <3>4. run \in store'.sealed
      BY <2>4
    <3> QED
      BY <1>1, <1>2, <2>12, <3>1, <3>2, <3>3, <3>4 DEF Ends
  <2> QED
    BY <2>6, <2>7, <2>8, <2>9, <2>11, <2>13 DEF IInv
<1>3. CASE /\ faults < MaxFaults /\ faults' = faults + 1
           /\ Abandons /\ UNCHANGED store
  <2>1. /\ idx' \in [Runs -> Nat] /\ Numbered' /\ Stored(store)' /\ Ends'
        /\ terminal' \in [Runs -> {"none", "live", "unsaved", "missing"}]
        /\ phase' = "ended"
    BY <1>1, <1>3, AbandonKeeps
  <2>2. faults' \in 0..MaxFaults
    BY <1>3, BoundsAssumption DEF IInv, Types
  <2>3. Types'
    BY <1>1, <1>3, <2>1, <2>2 DEF IInv, Types
  <2>4. Channel' /\ Buffered' /\ Truthful' /\ Settled' = Settled
    BY <1>1, <1>3, JournalRests
  <2>5. Fences' /\ Shut' /\ BarrierCovers'
    BY <1>1, <2>4 DEF IInv, Fences, Shut, BarrierCovers
  <2> QED
    BY <2>1, <2>3, <2>4, <2>5 DEF IInv
<1> QED
  BY <1>2, <1>3 DEF TerminalCommits

\* The committed terminal is found at the run's next index, or an event of the
\* run is missing.
LEMMA TerminalPublishesKeeps ==
  ASSUME IInv, TerminalPublishes
  PROVE  IInv'
<1> DEFINE t == IF TerminalFound THEN "live" ELSE "missing"
<1>1. /\ phase = "publish" /\ phase' = "ended" /\ terminal' = [terminal EXCEPT ![run] = t]
      /\ UNCHANGED <<ev, health, closed, body, lane, writer, receipt, waiting, fence,
                     store, dropped, run, faults>>
  BY DEF TerminalPublishes
<1>2. run \in Runs /\ terminal \in [Runs -> {"none", "live", "unsaved", "missing"}]
  BY DEF IInv, Types
<1>3. idx' \in [Runs -> Nat] /\ Numbered' /\ Stored(store)'
  <2>1. CASE TerminalFound
    <3>1. idx' = [idx EXCEPT ![run] = @ + 1]
      BY <2>1 DEF TerminalPublishes
    <3> QED
      BY <1>1, <3>1, IndexGrows
  <2>2. CASE ~TerminalFound
    <3>1. idx' = idx
      BY <2>2 DEF TerminalPublishes
    <3> QED
      BY <1>1, <3>1 DEF IInv, Types, Numbered, Stored
  <2> QED
    BY <2>1, <2>2
<1>4. /\ terminal' \in [Runs -> {"none", "live", "unsaved", "missing"}]
      /\ terminal'[run] = t /\ \A r \in Runs : r # run => terminal'[r] = terminal[r]
  BY <1>1, <1>2
<1>5. t = "missing" => run \in store.sealed /\ Missed(run)
  BY <1>1 DEF TerminalFound, IInv, Ends
<1> HIDE DEF t
<1>6. Ends'
  <2>1. \A r \in Runs : terminal'[r] = "missing" => r \in store.sealed /\ Missed(r)
    BY <1>4, <1>5 DEF IInv, Ends
  <2> QED
    BY <1>1, <2>1 DEF IInv, Ends, Missed
<1>7. Types'
  BY <1>1, <1>3, <1>4 DEF IInv, Types
<1>8. Channel' /\ Buffered' /\ Truthful' /\ Settled' = Settled
  BY <1>1, JournalRests
<1>9. Fences' /\ Shut' /\ BarrierCovers'
  BY <1>1, <1>8 DEF IInv, Fences, Shut, BarrierCovers
<1> QED
  BY <1>3, <1>6, <1>7, <1>8, <1>9 DEF IInv

\* The next run begins with an empty stream.
LEMMA RunStartedKeeps ==
  ASSUME IInv, RunStarted
  PROVE  IInv'
<1>1. /\ phase = "starting" /\ FenceAnswered("session") /\ run' = run + 1
      /\ fence' = [fence EXCEPT !["session"] = Idle] /\ health' \in {"ok", "error"}
      /\ phase' = "active"
      /\ UNCHANGED <<ev, idx, closed, body, lane, writer, receipt, waiting, store,
                     dropped, terminal, faults>>
  BY DEF RunStarted
<1>2. run < MaxRuns /\ run \in Nat /\ run' \in Runs /\ run' > run
  BY <1>1, BoundsAssumption DEF IInv, Types, Ends, Runs
<1>3. /\ idx' \in [Runs -> Nat]
      /\ terminal' \in [Runs -> {"none", "live", "unsaved", "missing"}]
  BY <1>1 DEF IInv, Types
<1>4. /\ Types' /\ Channel' /\ Buffered' /\ Truthful'
      /\ Fences' /\ Shut' /\ BarrierCovers'
  BY <1>1, <1>2, <1>3, FenceStep
<1>5. \A e \in 1..Len(ev) : ev[e].stream \in Nat
  <2>1. \A e \in 1..Len(ev) : ev[e] \in Event
    BY DEF IInv, Types
  <2> QED
    BY <2>1, BoundsAssumption DEF Event, Runs
<1>6. Numbered'
  <2>1. \A e \in 1..Len(ev) : ev[e].stream <= run'
    BY <1>1, <1>2, <1>5 DEF IInv, Numbered
  <2>2. \A r \in Runs : r > run' => idx[r] = 0
    BY <1>1, <1>2 DEF IInv, Numbered, Runs
  <2> QED
    BY <1>1, <2>1, <2>2 DEF IInv, Numbered
<1>7. Stored(store)'
  BY <1>1 DEF IInv, Stored
<1>8. Ends'
  <2>1. \A r \in store.sealed : r \in Nat /\ r <= run
    BY BoundsAssumption DEF IInv, Types, Store, Ends, Runs
  <2>2. (\A r \in store.sealed : r <= run') /\ run' \notin store.sealed
    BY <1>1, <1>2, <2>1
  <2>3. idx[run'] = 0
    BY <1>2 DEF IInv, Numbered
  <2> QED
    BY <1>1, <2>2, <2>3 DEF IInv, Ends, Missed
<1> QED
  BY <1>4, <1>6, <1>7, <1>8 DEF IInv

-----------------------------------------------------------------------------
(* The invariant.                                                          *)

\* The session's journal begins empty.
LEMMA InitHolds == Init => IInv
<1> SUFFICES ASSUME Init PROVE IInv
  OBVIOUS
<1>1. Types
  <2>1. writer \in Writer
    BY BoundsAssumption DEF Init, Writer
  <2>2. fence \in [Callers -> Fence]
    BY BoundsAssumption DEF Init, Fence, Idle
  <2>3. store \in Store /\ dropped \in Dropped
    BY DEF Init, Store, Dropped
  <2>4. receipt \in [Seqs -> Receipts] /\ waiting \in [Producers -> 0..MaxEvents]
    BY BoundsAssumption DEF Init, Receipts
  <2>5. ev \in Seq(Event) /\ Len(ev) <= MaxEvents /\ body \in Seq(Seqs) /\ lane \in Seq(Control)
    BY BoundsAssumption DEF Init
  <2>6. /\ idx \in [Runs -> Nat]
        /\ terminal \in [Runs -> {"none", "live", "unsaved", "missing"}]
    BY DEF Init
  <2>7. health \in {"ok", "error"} /\ closed \in BOOLEAN /\ phase = "active"
    BY DEF Init
  <2>8. run \in Runs /\ faults \in 0..MaxFaults
    BY BoundsAssumption DEF Init, Runs
  <2> QED
    BY <2>1, <2>2, <2>3, <2>4, <2>5, <2>6, <2>7, <2>8 DEF Types
<1>2. /\ Len(ev) = 0 /\ Len(body) = 0 /\ Len(lane) = 0
      /\ writer.consumed = 0 /\ writer.pending = << >> /\ Len(writer.pending) = 0
      /\ writer.held = NoControl
      /\ store.landed = {} /\ store.sealed = {} /\ \A r \in Runs : store.cursor[r] = -1
      /\ \A c \in Callers : fence[c] = Idle
      /\ \A r \in Runs : idx[r] = 0 /\ terminal[r] = "none"
      /\ \A e \in Seqs : receipt[e] = "none"
      /\ run = 1 /\ phase = "active" /\ run \in Runs
  BY BoundsAssumption DEF Init, Runs
<1>3. Numbered /\ Channel /\ Buffered
  BY <1>2 DEF Numbered, Channel, Buffered, Ascending
<1>4. Stored(store)
  BY <1>2 DEF Stored
<1>5. Truthful
  BY <1>2 DEF Truthful, Says
<1>6. Fences
  BY <1>2 DEF Fences
<1>7. Shut /\ BarrierCovers
  BY <1>2 DEF Shut, BarrierCovers, Callers, Idle
<1>8. Ends
  BY <1>2 DEF Ends
<1> QED
  BY <1>1, <1>3, <1>4, <1>5, <1>6, <1>7, <1>8 DEF IInv

\* Every step keeps the invariant.
LEMMA InvStep ==
  ASSUME IInv, [Next]_vars
  PROVE  IInv'
<1>1. CASE WriterNext
  BY <1>1, WriterTakesControlKeeps, WriterServesControlKeeps, WriterTakesBodyKeeps,
     WriterTimerKeeps DEF WriterNext
<1>2. CASE WriterGivesUp
  BY <1>2, WriterGivesUpKeeps
<1>3. CASE \E bad, durable \in BOOLEAN : Broadcast(bad, durable)
  BY <1>3, BroadcastKeeps
<1>4. CASE BroadcastUnavailable
  BY <1>4, BroadcastUnavailableKeeps
<1>5. CASE \E p \in Producers : ProducerReturns(p)
  BY <1>5, ProducerReturnsKeeps
<1>6. CASE RecoverStorage \/ RecoverReturns \/ RunStarts
  BY <1>6, BetweenKeeps
<1>7. CASE ShutdownJournal
  BY <1>7, ShutdownJournalKeeps
<1>8. CASE RunEnds \/ RunFenced
  BY <1>8, RunEndsKeeps
<1>9. CASE TerminalCommits
  BY <1>9, TerminalCommitsKeeps
<1>10. CASE TerminalPublishes
  BY <1>10, TerminalPublishesKeeps
<1>11. CASE RunStarted
  BY <1>11, RunStartedKeeps
<1>12. CASE UNCHANGED vars
  <2>1. UNCHANGED <<ev, idx, health, closed, body, lane, writer, receipt, waiting,
                    fence, store, dropped, run, phase, terminal, faults>>
    BY <1>12 DEF vars
  <2>2. Types'
    BY <2>1 DEF IInv, Types
  <2>3. Channel' /\ Buffered' /\ Truthful' /\ Settled' = Settled
    BY <2>1, JournalRests
  <2>4. Numbered' /\ Stored(store)' /\ Ends'
    BY <2>1 DEF IInv, Numbered, Stored, Ends, Missed
  <2>5. Fences' /\ Shut' /\ BarrierCovers'
    BY <2>1, <2>3 DEF IInv, Fences, Shut, BarrierCovers
  <2> QED
    BY <2>2, <2>3, <2>4, <2>5 DEF IInv
<1> QED
  BY <1>1, <1>2, <1>3, <1>4, <1>5, <1>6, <1>7, <1>8, <1>9, <1>10, <1>11, <1>12 DEF Next

\* The inductive invariant of the journal: how events, channel, buffer, store,
\* receipts and barriers belong together.
THEOREM JournalInvariant == Spec => []IInv
<1>1. IInv /\ [Next]_vars => IInv'
  BY InvStep
<1> QED
  BY InitHolds, <1>1, PTL DEF Spec

\* The state of broadcaster, writer, store and session is well-typed
\* (JournalControl, EventJournalState, the writer's locals, stream_runs).
THEOREM JournalTypeCorrect == Spec => []TypeOK
<1>1. IInv => TypeOK
  BY DEF IInv, Types, TypeOK, Event, Receipts, Writer, Fence, Store, Dropped
<1> QED
  BY JournalInvariant, <1>1, PTL

\* A receipt tells the truth, through every order of batches, partial commits,
\* refusals and retries (flush_event_batch).
THEOREM ReceiptsTrueHolds == Spec => []ReceiptsTrue
<1>1. IInv => ReceiptsTrue
  BY DEF IInv, Truthful, Says, ReceiptsTrue
<1> QED
  BY JournalInvariant, <1>1, PTL

\* A barrier that succeeded covers what was admitted before it, and the
\* shutdown's covers everything (flush, shutdown_journal).
THEOREM BarrierCoversHolds == Spec => []BarrierCovers
<1>1. IInv => BarrierCovers
  BY DEF IInv
<1> QED
  BY JournalInvariant, <1>1, PTL

\* The stored events of a stream have no hole, however many transactions a
\* flush needed (commit_batch, flush_event_batch).
THEOREM StreamsDenseHolds == Spec => []StreamsDense
<1>1. IInv => StreamsDense
  BY DEF IInv, Stored, StreamsDense
<1> QED
  BY JournalInvariant, <1>1, PTL

\* A committed terminal is missed by its subscribers only if an event of its
\* run is not in the store (publish_committed_terminal).
THEOREM TerminalMissedHolds == Spec => []TerminalMissedOnlyAfterLoss
<1>1. IInv => TerminalMissedOnlyAfterLoss
  BY DEF IInv, Ends, Missed, TerminalMissedOnlyAfterLoss
<1> QED
  BY JournalInvariant, <1>1, PTL
=============================================================================
