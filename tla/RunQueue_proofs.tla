-------------------------- MODULE RunQueue_proofs --------------------------
(***************************************************************************)
(* Proofs about RunQueue, for every set of sessions, requests and run ids, *)
(* every limit and every number of accepted prompts.                       *)
(***************************************************************************)
EXTENDS RunQueue, FiniteSetTheorems, WellFoundedInduction, TLAPS

RunName == RunIds \cup (Sessions \X Nat)

Digest == (RunIds \cup {NoRun}) \X AllPolicies \X Sizes

Named == [run : RunName, seq : Nat, digest : Digest]

Ack == [run : RunName, req : Requests,
        reason : {"superseded", "merged", "settled", "cancelled"}]

QueueState ==
  [next : 1..MaxSequence, active : Row \cup {NoRow}, queued : Seq(Row),
   held : Seq(Row), bytes : Nat, requests : [Requests -> Named \cup {NoIdentity}],
   runs : SUBSET RunName, acks : Seq(Ack)]

\* What a row keeps for as long as it exists.
Keyed == [run : RunName, seq : Nat, req : Requests, digest : Digest]

Key(row) == [run |-> row.run, seq |-> row.seq, req |-> row.req, digest |-> row.digest]

KeysAt(rows, I) == {Key(rows[i]) : i \in I}

Keys(rows) == KeysAt(rows, 1..Len(rows))

ActiveKeys(st) == IF st.active = NoRow THEN {} ELSE {Key(st.active)}

\* Every row that has not ended: queued, parked, active, or in the hands of an
\* operation that is about to end it.
AllKeys(st, hand) == Keys(st.queued) \cup Keys(st.held) \cup ActiveKeys(st) \cup Keys(hand)

\* Each is in one of these places.
Placed(st, hand) ==
  /\ Keys(st.queued) \cap Keys(st.held) = {}
  /\ (Keys(st.queued) \cup Keys(st.held)) \cap ActiveKeys(st) = {}
  /\ (Keys(st.queued) \cup Keys(st.held) \cup ActiveKeys(st)) \cap Keys(hand) = {}

\* The rows stand in the order in which they were accepted.
Ordered(rows) == \A i, k \in 1..Len(rows) : i < k => rows[i].seq < rows[k].seq

\* No two rows have a number, and the request table tells which run each is.
Identified(st, R) ==
  /\ \A x, y \in R : x.seq = y.seq => x = y
  /\ \A x \in R : x.seq < st.next /\ st.requests[x.req] = Identity(x)

\* An acknowledgement is of a request that is still in the table, one each, and
\* of no row that has not ended.
Remembered(st, R) ==
  /\ \A i \in 1..Len(st.acks) : /\ st.requests[st.acks[i].req] # NoIdentity
                                /\ st.requests[st.acks[i].req].run = st.acks[i].run
  /\ \A i, k \in 1..Len(st.acks) : st.acks[i].req = st.acks[k].req => i = k
  /\ \A x \in R, i \in 1..Len(st.acks) : x.req # st.acks[i].req

\* A run has one request, and the table of runs is that of the requests.
Injective(st) ==
  /\ \A c, d \in Requests :
       /\ st.requests[c] # NoIdentity /\ st.requests[d] # NoIdentity
       /\ st.requests[c].run = st.requests[d].run
       => c = d
  /\ \A r \in st.runs : \E c \in Requests : /\ st.requests[c] # NoIdentity
                                            /\ st.requests[c].run = r
  /\ \A c \in Requests : st.requests[c] # NoIdentity => st.requests[c].run \in st.runs

\* Nothing is in the request table but rows and acknowledgements.
Covered(st, R) ==
  \A c \in Requests : st.requests[c] # NoIdentity =>
    \/ \E x \in R : x.req = c
    \/ \E i \in 1..Len(st.acks) : st.acks[i].req = c

Tables(st, R) ==
  Identified(st, R) /\ Remembered(st, R) /\ Injective(st) /\ Covered(st, R)

Sound(st, hand) ==
  /\ st \in QueueState /\ hand \in Seq(Row)
  /\ Ordered(st.queued) /\ Ordered(st.held) /\ Ordered(hand)
  /\ Placed(st, hand)
  /\ Tables(st, AllKeys(st, hand))

IInv ==
  /\ budget \in [count : Nat, bytes : Nat]
  /\ q \in [Sessions -> QueueState]
  /\ \A s \in Sessions : Sound(q[s], << >>) /\ Len(q[s].acks) <= AckLimit

-----------------------------------------------------------------------------
(* Sets of numbers and sequences.                                          *)

\* A set of naturals has a least element.
LEMMA LeastElement ==
  ASSUME NEW S \in SUBSET Nat, S # {}
  PROVE  \E x \in S : \A y \in S : x <= y
<1>1. PICK x \in S : \A y \in S : ~(<<y, x>> \in OpToRel(<, Nat))
  BY NatLessThanWellFounded, WFMin, Zenon
<1>2. \A y \in S : ~(y < x)
  BY <1>1 DEF OpToRel
<1> QED
  BY <1>2

\* The position that iter().position() finds.
LEMMA FirstOne ==
  ASSUME NEW S \in SUBSET Nat, S # {}
  PROVE  Min(S) \in S /\ \A y \in S : Min(S) <= y
<1>1. \E x \in S : \A y \in S : x <= y
  BY LeastElement
<1> QED
  BY <1>1 DEF Min

\* A bounded set of naturals has a greatest element.
LEMMA LastOne ==
  ASSUME NEW n \in Nat, NEW S \in SUBSET (0..n), S # {}
  PROVE  Max(S) \in S
<1> DEFINE T == {n - x : x \in S}
<1>0. \A x \in S : x \in 0..n
  OBVIOUS
<1>1. T # {}
  OBVIOUS
<1>2. T \in SUBSET Nat
  BY <1>0
<1> HIDE DEF T
<1>3. PICK t \in T : \A y \in T : t <= y
  BY <1>1, <1>2, LeastElement
<1>4. PICK x \in S : t = n - x
  BY DEF T
<1>5. \A y \in S : n - y \in T
  BY DEF T
<1>6. \A y \in S : y <= x
  BY <1>0, <1>3, <1>4, <1>5
<1> QED
  BY <1>6 DEF Max

\* The elements of a finite set can be put in the order of their keys.
LEMMA OrderExists ==
  ASSUME NEW key, NEW D, \A i \in D : key[i] \in Nat,
         \A i, k \in D : key[i] = key[k] => i = k,
         IsFiniteSet(D)
  PROVE  \E p \in [1..Cardinality(D) -> D] :
           /\ \A i \in D : \E k \in DOMAIN p : p[k] = i
           /\ \A i, k \in DOMAIN p : i < k => key[p[i]] < key[p[k]]
<1> DEFINE Good(p, I, n) ==
             /\ p \in [1..n -> I]
             /\ \A i \in I : \E k \in 1..n : p[k] = i
             /\ \A i, k \in 1..n : i < k => key[p[i]] < key[p[k]]
           Bad == {n \in Nat : \E I \in SUBSET D :
                     Cardinality(I) = n /\ ~ \E p : Good(p, I, n)}
<1>1. SUFFICES Bad = {}
  <2>1. Cardinality(D) \in Nat /\ D \in SUBSET D
    BY FS_CardinalityType
  <2>2. \E p : Good(p, D, Cardinality(D))
    BY <1>1, <2>1
  <2> QED
    BY <2>2
<1>2. SUFFICES ASSUME Bad # {} PROVE FALSE
  OBVIOUS
<1>3. PICK n \in Bad : \A k \in Bad : n <= k
  <2>1. Bad \in SUBSET Nat
    OBVIOUS
  <2> QED
    BY <1>2, <2>1, LeastElement
<1>4. PICK I \in SUBSET D : Cardinality(I) = n /\ ~ \E p : Good(p, I, n)
  BY <1>3
<1>5. IsFiniteSet(I) /\ n \in Nat
  BY <1>3, FS_Subset
<1>6. CASE I = {}
  <2>1. n = 0
    BY <1>4, <1>6, FS_EmptySet
  <2>2. << >> \in [1..0 -> I] /\ 1..0 = {}
    OBVIOUS
  <2>3. Good(<< >>, I, n)
    BY <1>6, <2>1, <2>2
  <2> QED
    BY <1>4, <2>3
<1>7. CASE I # {}
  <2>1. PICK m \in I : \A i \in I : key[m] <= key[i]
    <3> DEFINE K == {key[i] : i \in I}
    <3>1. K \in SUBSET Nat /\ K # {}
      BY <1>7
    <3>2. PICK x \in K : \A y \in K : x <= y
      BY <3>1, LeastElement
    <3> QED
      BY <3>2
  <2> DEFINE J == I \ {m}
  <2>2. IsFiniteSet(J) /\ Cardinality(J) = n - 1
    BY <1>4, <1>5, FS_RemoveElement
  <2>3. n - 1 \in Nat /\ J \in SUBSET D
    BY <2>2, FS_CardinalityType
  <2>4. n - 1 \notin Bad
    BY <1>3, <1>5
  <2>5. PICK p : Good(p, J, n - 1)
    BY <2>2, <2>3, <2>4
  <2> DEFINE r == [k \in 1..n |-> IF k = 1 THEN m ELSE p[k-1]]
  <2>6. r \in [1..n -> I]
    BY <1>5, <2>3, <2>5
  <2>7. \A i \in I : \E k \in 1..n : r[k] = i
    <3> SUFFICES ASSUME NEW i \in I PROVE \E k \in 1..n : r[k] = i
      OBVIOUS
    <3>1. CASE i = m
      BY <1>5, <2>3, <3>1
    <3>2. CASE i # m
      <4>1. PICK k \in 1..(n-1) : p[k] = i
        BY <2>5, <3>2
      <4>2. k + 1 \in 1..n /\ k + 1 # 1 /\ (k + 1) - 1 = k
        BY <1>5
      <4> QED
        BY <4>1, <4>2
    <3> QED
      BY <3>1, <3>2
  <2>8. ASSUME NEW i \in 1..n, NEW k \in 1..n, i < k
        PROVE  key[r[i]] < key[r[k]]
    <3>1. k - 1 \in 1..(n-1) /\ r[k] = p[k-1] /\ p[k-1] \in J
      BY <1>5, <2>5, <2>8
    <3>2. CASE i = 1
      <4>1. r[i] = m /\ p[k-1] # m /\ p[k-1] \in I /\ m \in D /\ p[k-1] \in D
        BY <3>1, <3>2
      <4>2. key[p[k-1]] # key[m] /\ key[m] <= key[p[k-1]]
        BY <2>1, <4>1
      <4>3. key[p[k-1]] \in Nat /\ key[m] \in Nat
        BY <4>1
      <4> QED
        BY <3>1, <4>1, <4>2, <4>3
    <3>3. CASE i # 1
      <4>1. i - 1 \in 1..(n-1) /\ r[i] = p[i-1] /\ i - 1 < k - 1
        BY <1>5, <2>8, <3>3
      <4> QED
        BY <2>5, <3>1, <4>1
    <3> QED
      BY <3>2, <3>3
  <2>9. Good(r, I, n)
    BY <2>6, <2>7, <2>8
  <2> QED
    BY <1>4, <2>9
<1> QED
  BY <1>6, <1>7

\* p lists the elements of I.
Lists(p, I, n) ==
  p \in [1..n -> I] /\ \A i \in I : \E k \in 1..n : p[k] = i

\* InOrder lists every element once, by increasing key.
LEMMA InOrderIs ==
  ASSUME NEW key, NEW I, \A i \in I : key[i] \in Nat,
         \A i, k \in I : key[i] = key[k] => i = k,
         IsFiniteSet(I), NEW p, p = InOrder(I, key)
  PROVE  /\ Cardinality(I) \in Nat
         /\ Lists(p, I, Cardinality(I))
         /\ \A i, k \in 1..Cardinality(I) : i < k => key[p[i]] < key[p[k]]
<1>1. \E f \in [1..Cardinality(I) -> I] :
           /\ \A i \in I : \E k \in DOMAIN f : f[k] = i
           /\ \A i, k \in DOMAIN f : i < k => key[f[i]] < key[f[k]]
  BY OrderExists
<1>2. /\ p \in [1..Cardinality(I) -> I]
      /\ \A i \in I : \E k \in DOMAIN p : p[k] = i
      /\ \A i, k \in DOMAIN p : i < k => key[p[i]] < key[p[k]]
  BY <1>1 DEF InOrder
<1> QED
  BY <1>2, FS_CardinalityType DEF Lists

\* p has the rows in the order in which f lists their positions.
Arranges(p, rows, f, n) ==
  /\ p \in [1..n -> Row]
  /\ \A i \in 1..n : p[i] = rows[f[i]]
  /\ \A i, k \in 1..n : i < k => rows[f[i]].seq < rows[f[k]].seq

\* The rows at some positions, rearranged.
LEMMA ArrangedIs ==
  ASSUME NEW rows \in Seq(Row), NEW I \in SUBSET (1..Len(rows)), NEW N \in Nat,
         NEW f, Lists(f, I, N), NEW p, Arranges(p, rows, f, N)
  PROVE  p \in Seq(Row) /\ Ordered(p) /\ ToSet(p) = {rows[i] : i \in I}
<1>0. f \in [1..N -> I] /\ \A i \in I : \E k \in 1..N : f[k] = i
  BY DEF Lists
<1>a. /\ p \in [1..N -> Row]
      /\ \A i \in 1..N : p[i] = rows[f[i]]
      /\ \A i, k \in 1..N : i < k => rows[f[i]].seq < rows[f[k]].seq
  BY DEF Arranges
<1>1. p \in Seq(Row) /\ Len(p) = N
  BY <1>a
<1>2. Ordered(p)
  BY <1>1, <1>a DEF Ordered
<1>3. ToSet(p) = {p[i] : i \in 1..N}
  BY <1>a DEF ToSet
<1>4. \A i \in 1..N : p[i] \in {rows[k] : k \in I}
  <2> SUFFICES ASSUME NEW i \in 1..N PROVE p[i] \in {rows[k] : k \in I}
    OBVIOUS
  <2>1. f[i] \in I /\ p[i] = rows[f[i]]
    BY <1>0, <1>a
  <2> QED
    BY <2>1
<1>5. \A k \in I : rows[k] \in {p[i] : i \in 1..N}
  <2> SUFFICES ASSUME NEW k \in I PROVE rows[k] \in {p[i] : i \in 1..N}
    OBVIOUS
  <2>1. PICK i \in 1..N : f[i] = k
    BY <1>0
  <2>2. p[i] = rows[k]
    BY <2>1, <1>a
  <2> QED
    BY <2>2
<1>6. {p[i] : i \in 1..N} = {rows[i] : i \in I}
  <2>1. ASSUME NEW x \in {p[i] : i \in 1..N} PROVE x \in {rows[i] : i \in I}
    BY <1>4
  <2>2. ASSUME NEW x \in {rows[i] : i \in I} PROVE x \in {p[i] : i \in 1..N}
    BY <1>5
  <2> DEFINE A == {p[i] : i \in 1..N}
             B == {rows[i] : i \in I}
  <2>3. (\A x \in A : x \in B) /\ (\A x \in B : x \in A)
    BY <2>1, <2>2
  <2> HIDE DEF A, B
  <2>4. A = B
    BY <2>3
  <2> QED
    BY <2>4 DEF A, B
<1> QED
  BY <1>1, <1>2, <1>3, <1>6

\* The elements of a sequence of rows are rows.
LEMMA RowAt ==
  ASSUME NEW rows \in Seq(Row)
  PROVE  /\ Len(rows) \in Nat
         /\ \A i \in 1..Len(rows) : rows[i] \in Row /\ rows[i].seq \in Nat
         /\ ToSet(rows) = {rows[i] : i \in 1..Len(rows)}
<1>1. \A i \in 1..Len(rows) : rows[i] \in Row
  OBVIOUS
<1>2. \A i \in 1..Len(rows) : rows[i].seq \in Nat
  BY <1>1 DEF Row
<1>3. ToSet(rows) = {rows[i] : i \in 1..Len(rows)}
  BY DEF ToSet
<1> QED
  BY <1>1, <1>2, <1>3

\* The rows at some positions, in their order.
LEMMA PickedIs ==
  ASSUME NEW rows \in Seq(Row), Ordered(rows), NEW I \in SUBSET (1..Len(rows))
  PROVE  /\ Picked(rows, I) \in Seq(Row) /\ Ordered(Picked(rows, I))
         /\ ToSet(Picked(rows, I)) = {rows[i] : i \in I}
<1> DEFINE key == [k \in I |-> k]
           g == InOrder(I, key)
           N == Cardinality(I)
           p == Picked(rows, I)
<1>0. Len(rows) \in Nat
  OBVIOUS
<1>1. IsFiniteSet(I)
  <2> DEFINE D == 1..Len(rows)
  <2>1. IsFiniteSet(D)
    BY <1>0, FS_Interval
  <2>2. I \in SUBSET D
    OBVIOUS
  <2> HIDE DEF D
  <2> QED
    BY <2>1, <2>2, FS_Subset
<1>2. /\ \A i \in I : key[i] \in Nat
      /\ \A i, k \in I : key[i] = key[k] => i = k
  OBVIOUS
<1>3. p = [i \in 1..N |-> rows[g[i]]]
  BY DEF Picked
<1>a. \A i \in I : key[i] = i
  OBVIOUS
<1> HIDE DEF key, g, p
<1>4. /\ N \in Nat /\ Lists(g, I, N)
      /\ \A i, k \in 1..N : i < k => key[g[i]] < key[g[k]]
  <2>1. g = InOrder(I, key)
    BY DEF g
  <2> QED
    BY <1>1, <1>2, <2>1, InOrderIs
<1> HIDE DEF N
<1>5. p = [i \in 1..N |-> rows[g[i]]]
  BY <1>3
<1>6. \A i \in 1..N : g[i] \in I /\ g[i] \in 1..Len(rows) /\ p[i] = rows[g[i]]
  BY <1>4, <1>5 DEF Lists
<1>7. p \in [1..N -> Row]
  BY <1>5, <1>6, RowAt
<1>8. \A i, k \in 1..N : i < k => rows[g[i]].seq < rows[g[k]].seq
  BY <1>4, <1>6, <1>a DEF Ordered
<1>9. p \in Seq(Row) /\ Ordered(p) /\ ToSet(p) = {rows[i] : i \in I}
  <2>1. Arranges(p, rows, g, N)
    BY <1>6, <1>7, <1>8 DEF Arranges
  <2> QED
    BY <1>4, <2>1, ArrangedIs
<1> QED
  BY <1>9 DEF p

\* Sorting by sequence.
LEMMA SortedIs ==
  ASSUME NEW rows \in Seq(Row),
         \A i, k \in 1..Len(rows) : rows[i].seq = rows[k].seq => i = k
  PROVE  /\ BySequence(rows) \in Seq(Row) /\ Ordered(BySequence(rows))
         /\ ToSet(BySequence(rows)) = ToSet(rows)
<1> DEFINE I == 1..Len(rows)
           key == [k \in I |-> rows[k].seq]
           g == InOrder(I, key)
           p == BySequence(rows)
<1>0. Len(rows) \in Nat /\ \A i \in I : rows[i] \in Row /\ rows[i].seq \in Nat
  BY RowAt
<1>1. IsFiniteSet(I) /\ Cardinality(I) = Len(rows)
  <2>1. IsFiniteSet(I) /\ Cardinality(I) = IF 1 > Len(rows) THEN 0 ELSE Len(rows) - 1 + 1
    BY <1>0, FS_Interval
  <2> QED
    BY <1>0, <2>1
<1>2. /\ \A i \in I : key[i] \in Nat
      /\ \A i, k \in I : key[i] = key[k] => i = k
  BY <1>0
<1>3. p = [i \in I |-> rows[g[i]]]
  BY DEF BySequence
<1>a. \A i \in I : key[i] = rows[i].seq
  OBVIOUS
<1> HIDE DEF key, g, p
<1>4. /\ Lists(g, I, Len(rows))
      /\ \A i, k \in 1..Len(rows) : i < k => key[g[i]] < key[g[k]]
  <2>1. g = InOrder(I, key)
    BY DEF g
  <2> QED
    BY <1>1, <1>2, <2>1, InOrderIs
<1>6. \A i \in 1..Len(rows) : g[i] \in I /\ p[i] = rows[g[i]]
  BY <1>3, <1>4 DEF Lists
<1>7. p \in [1..Len(rows) -> Row]
  BY <1>0, <1>3, <1>6
<1>8. ASSUME NEW i \in 1..Len(rows), NEW k \in 1..Len(rows), i < k
      PROVE  rows[g[i]].seq < rows[g[k]].seq
  <2>1. key[g[i]] < key[g[k]] /\ g[i] \in I /\ g[k] \in I
    BY <1>4, <1>6, <1>8
  <2> QED
    BY <2>1, <1>a
<1>b. I \in SUBSET (1..Len(rows)) /\ I = 1..Len(rows)
  OBVIOUS
<1> HIDE DEF I
<1>9. p \in Seq(Row) /\ Ordered(p) /\ ToSet(p) = {rows[i] : i \in I}
  <2>1. Arranges(p, rows, g, Len(rows))
    BY <1>6, <1>7, <1>8 DEF Arranges
  <2> QED
    BY <1>0, <1>4, <1>b, <2>1, ArrangedIs
<1> QED
  BY <1>9, RowAt DEF p, I

\* The same rows have the same keys.
LEMMA KeysFollow ==
  ASSUME NEW p \in Seq(Row), NEW rows, NEW I, ToSet(p) = {rows[i] : i \in I}
  PROVE  Keys(p) = KeysAt(rows, I)
<1> DEFINE D == 1..Len(p)
<1>1. {p[i] : i \in D} = {rows[i] : i \in I}
  BY RowAt
<1> HIDE DEF D
<1>2. \A i \in D : \E k \in I : p[i] = rows[k]
  BY <1>1
<1>3. \A k \in I : \E i \in D : p[i] = rows[k]
  BY <1>1
<1> DEFINE A == KeysAt(p, D)
           B == KeysAt(rows, I)
<1>4. ASSUME NEW x \in A PROVE x \in B
  <2>1. PICK i \in D : x = Key(p[i])
    BY DEF KeysAt
  <2> QED
    BY <1>2, <2>1 DEF KeysAt
<1>5. ASSUME NEW x \in B PROVE x \in A
  <2>1. PICK k \in I : x = Key(rows[k])
    BY DEF KeysAt
  <2> QED
    BY <1>3, <2>1 DEF KeysAt
<1> HIDE DEF A, B
<1>6. A = B
  BY <1>4, <1>5
<1> QED
  BY <1>6 DEF A, B, D, Keys

\* p has some rows of an ordered sequence, whose positions f lists.
Selects(p, rows, f, n) ==
  /\ p \in Seq(Row) /\ Len(p) = n
  /\ \A k \in 1..n : p[k] = rows[f[k]]
  /\ \A i, k \in 1..n : i < k => f[i] < f[k]

\* Then it is ordered too.
LEMMA SelectedIs ==
  ASSUME NEW rows \in Seq(Row), Ordered(rows), NEW I \in SUBSET (1..Len(rows)),
         NEW N \in Nat, NEW f, Lists(f, I, N), NEW p, Selects(p, rows, f, N)
  PROVE  p \in Seq(Row) /\ Ordered(p) /\ Keys(p) = KeysAt(rows, I)
<1>1. \A k \in 1..N : f[k] \in 1..Len(rows)
  BY DEF Lists
<1>2. /\ p \in Seq(Row) /\ Len(p) = N
      /\ \A k \in 1..N : p[k] = rows[f[k]]
      /\ \A i, k \in 1..N : i < k => f[i] < f[k]
  BY DEF Selects
<1>3. \A i, k \in 1..N : i < k => rows[f[i]].seq < rows[f[k]].seq
  BY <1>1, <1>2 DEF Ordered
<1>4. p \in [1..N -> Row]
  BY <1>2
<1>5. Arranges(p, rows, f, N)
  BY <1>2, <1>3, <1>4 DEF Arranges
<1>6. Ordered(p) /\ ToSet(p) = {rows[i] : i \in I}
  BY <1>5, ArrangedIs
<1> QED
  BY <1>2, <1>6, KeysFollow

\* Removing the row at a position.
LEMMA RemoveAtIs ==
  ASSUME NEW rows \in Seq(Row), Ordered(rows), NEW i \in 1..Len(rows)
  PROVE  /\ RemoveAt(rows, i) \in Seq(Row) /\ Ordered(RemoveAt(rows, i))
         /\ Keys(RemoveAt(rows, i)) = KeysAt(rows, 1..Len(rows) \ {i})
<1> DEFINE p == RemoveAt(rows, i)
           x == SubSeq(rows, 1, i-1)
           y == SubSeq(rows, i+1, Len(rows))
           N == Len(rows) - 1
           I == 1..Len(rows) \ {i}
           f == [k \in 1..N |-> IF k < i THEN k ELSE k + 1]
<1>0. Len(rows) \in Nat /\ N \in Nat /\ I \in SUBSET (1..Len(rows))
  OBVIOUS
<1>1. p = x \o y
  BY DEF RemoveAt
<1>a. x \in Seq(Row) /\ Len(x) = i-1 /\ \A k \in 1..(i-1) : x[k] = rows[k]
  OBVIOUS
<1>b. /\ y \in Seq(Row) /\ Len(y) = Len(rows) - i
      /\ \A k \in 1..(Len(rows) - i) : y[k] = rows[i+k]
  OBVIOUS
<1> HIDE DEF p, x, y
<1>c. p \in Seq(Row) /\ Len(p) = N
  BY <1>0, <1>1, <1>a, <1>b
<1>2. ASSUME NEW k \in 1..N
      PROVE  p[k] = rows[f[k]]
  <2>1. CASE k < i
    BY <1>0, <1>1, <1>a, <1>b, <2>1
  <2>2. CASE ~(k < i)
    <3>1. k - (i-1) \in 1..(Len(rows) - i) /\ i + (k - (i-1)) = k + 1
      BY <1>0, <2>2
    <3>2. p[k] = y[k - (i-1)]
      BY <1>0, <1>1, <1>a, <1>b, <2>2
    <3> QED
      BY <1>b, <2>2, <3>1, <3>2
  <2> QED
    BY <2>1, <2>2
<1>3. \A a, b \in 1..N : a < b => f[a] < f[b]
  BY <1>0
<1>4. Lists(f, I, N)
  <2>1. f \in [1..N -> I]
    BY <1>0
  <2>2. ASSUME NEW m \in I PROVE \E k \in 1..N : f[k] = m
    <3>1. CASE m < i
      <4>1. m \in 1..N /\ f[m] = m
        BY <1>0, <3>1
      <4> QED
        BY <4>1
    <3>2. CASE ~(m < i)
      <4>1. m - 1 \in 1..N /\ f[m-1] = m
        BY <1>0, <3>2
      <4> QED
        BY <4>1
    <3> QED
      BY <3>1, <3>2
  <2> QED
    BY <2>1, <2>2 DEF Lists
<1> HIDE DEF f, I, N
<1>5. Selects(p, rows, f, N)
  BY <1>c, <1>2, <1>3 DEF Selects
<1>6. p \in Seq(Row) /\ Ordered(p) /\ Keys(p) = KeysAt(rows, I)
  BY <1>0, <1>4, <1>5, SelectedIs
<1> QED
  BY <1>6 DEF p, I

\* Some rows that stand side by side.
LEMMA SubSeqIs ==
  ASSUME NEW rows \in Seq(Row), Ordered(rows),
         NEW a \in 1..Len(rows), NEW b \in a..Len(rows)
  PROVE  /\ SubSeq(rows, a, b) \in Seq(Row) /\ Ordered(SubSeq(rows, a, b))
         /\ Keys(SubSeq(rows, a, b)) = KeysAt(rows, a..b)
<1> DEFINE p == SubSeq(rows, a, b)
           N == b - a + 1
           I == a..b
           f == [k \in 1..N |-> a + k - 1]
<1>0. Len(rows) \in Nat /\ N \in Nat /\ I \in SUBSET (1..Len(rows))
  OBVIOUS
<1>1. p \in Seq(Row) /\ Len(p) = N /\ \A k \in 1..N : p[k] = rows[a + k - 1]
  OBVIOUS
<1>2. (\A k \in 1..N : f[k] = a + k - 1) /\ \A i, k \in 1..N : i < k => f[i] < f[k]
  BY <1>0
<1>3. Lists(f, I, N)
  <2>1. f \in [1..N -> I]
    BY <1>0
  <2>2. ASSUME NEW m \in I PROVE \E k \in 1..N : f[k] = m
    <3>1. m - a + 1 \in 1..N /\ f[m - a + 1] = m
      BY <1>0
    <3> QED
      BY <3>1
  <2> QED
    BY <2>1, <2>2 DEF Lists
<1> HIDE DEF f, I, N, p
<1>4. Selects(p, rows, f, N)
  BY <1>1, <1>2 DEF Selects
<1>5. p \in Seq(Row) /\ Ordered(p) /\ Keys(p) = KeysAt(rows, I)
  BY <1>0, <1>3, <1>4, SelectedIs
<1> QED
  BY <1>5 DEF p, I

\* The rows behind the first.
LEMMA TailIs ==
  ASSUME NEW rows \in Seq(Row), Ordered(rows), rows # << >>
  PROVE  /\ Tail(rows) \in Seq(Row) /\ Ordered(Tail(rows))
         /\ Keys(Tail(rows)) = KeysAt(rows, 1..Len(rows) \ {1})
<1> DEFINE p == Tail(rows)
           N == Len(rows) - 1
           I == 1..Len(rows) \ {1}
           f == [k \in 1..N |-> k + 1]
<1>0. Len(rows) \in Nat /\ N \in Nat /\ I \in SUBSET (1..Len(rows))
  OBVIOUS
<1>1. p \in Seq(Row) /\ Len(p) = N /\ \A k \in 1..N : p[k] = rows[k + 1]
  OBVIOUS
<1>2. (\A k \in 1..N : f[k] = k + 1) /\ \A i, k \in 1..N : i < k => f[i] < f[k]
  BY <1>0
<1>3. Lists(f, I, N)
  <2>1. f \in [1..N -> I]
    BY <1>0
  <2>2. ASSUME NEW m \in I PROVE \E k \in 1..N : f[k] = m
    <3>1. m - 1 \in 1..N /\ f[m - 1] = m
      BY <1>0
    <3> QED
      BY <3>1
  <2> QED
    BY <2>1, <2>2 DEF Lists
<1> HIDE DEF f, I, N, p
<1>4. Selects(p, rows, f, N)
  BY <1>1, <1>2 DEF Selects
<1>5. p \in Seq(Row) /\ Ordered(p) /\ Keys(p) = KeysAt(rows, I)
  BY <1>0, <1>3, <1>4, SelectedIs
<1> QED
  BY <1>5 DEF p, I

\* The first row and what stands behind the rows that fold into it.
LEMMA KeptIs ==
  ASSUME NEW rows \in Seq(Row), Ordered(rows), NEW n \in 1..(Len(rows) - 1)
  PROVE  /\ <<rows[1]>> \o SubSeq(rows, n + 2, Len(rows)) \in Seq(Row)
         /\ Ordered(<<rows[1]>> \o SubSeq(rows, n + 2, Len(rows)))
         /\ Keys(<<rows[1]>> \o SubSeq(rows, n + 2, Len(rows)))
              = KeysAt(rows, 1..Len(rows) \ 2..(n + 1))
<1> DEFINE y == SubSeq(rows, n + 2, Len(rows))
           p == <<rows[1]>> \o y
           N == Len(rows) - n
           I == 1..Len(rows) \ 2..(n + 1)
           f == [k \in 1..N |-> IF k = 1 THEN 1 ELSE n + k]
<1>0. Len(rows) \in Nat /\ N \in Nat /\ I \in SUBSET (1..Len(rows)) /\ rows[1] \in Row
  OBVIOUS
<1>a. y \in Seq(Row) /\ Len(y) = N - 1 /\ \A k \in 1..(N-1) : y[k] = rows[n + 1 + k]
  BY <1>0
<1> HIDE DEF y
<1>1. p \in Seq(Row) /\ Len(p) = N /\ p[1] = rows[1]
      /\ \A k \in 1..N : k # 1 => p[k] = y[k - 1]
  BY <1>0, <1>a
<1> HIDE DEF p
<1>2. \A k \in 1..N : p[k] = rows[f[k]]
  <2> SUFFICES ASSUME NEW k \in 1..N PROVE p[k] = rows[f[k]]
    OBVIOUS
  <2>1. CASE k = 1
    BY <1>1, <2>1
  <2>2. CASE k # 1
    <3>1. k - 1 \in 1..(N-1) /\ n + 1 + (k - 1) = n + k /\ f[k] = n + k
      BY <1>0, <2>2
    <3> QED
      BY <1>1, <1>a, <2>2, <3>1
  <2> QED
    BY <2>1, <2>2
<1>b. \A i, k \in 1..N : i < k => f[i] < f[k]
  BY <1>0
<1>3. Lists(f, I, N)
  <2>1. f \in [1..N -> I]
    <3> SUFFICES ASSUME NEW k \in 1..N PROVE f[k] \in I
      OBVIOUS
    <3> QED
      BY <1>0
  <2>2. ASSUME NEW m \in I PROVE \E k \in 1..N : f[k] = m
    <3>1. CASE m = 1
      BY <1>0, <3>1
    <3>2. CASE m # 1
      <4>1. m - n \in 1..N /\ f[m - n] = m
        BY <1>0, <3>2
      <4> QED
        BY <4>1
    <3> QED
      BY <3>1, <3>2
  <2> QED
    BY <2>1, <2>2 DEF Lists
<1> HIDE DEF f, I, N
<1>4. Selects(p, rows, f, N)
  BY <1>1, <1>2, <1>b DEF Selects
<1>5. p \in Seq(Row) /\ Ordered(p) /\ Keys(p) = KeysAt(rows, I)
  BY <1>0, <1>3, <1>4, SelectedIs
<1> QED
  BY <1>5 DEF p, I, y

\* Two parts of an ordered sequence have no row in common.
LEMMA PartsIs ==
  ASSUME NEW rows \in Seq(Row), Ordered(rows), NEW I \in SUBSET (1..Len(rows))
  PROVE  /\ KeysAt(rows, I) \cap KeysAt(rows, 1..Len(rows) \ I) = {}
         /\ KeysAt(rows, I) \cup KeysAt(rows, 1..Len(rows) \ I) = Keys(rows)
<1> DEFINE J == 1..Len(rows) \ I
           D == 1..Len(rows)
<1>1. /\ I \cup J = D /\ I \cap J = {}
      /\ \A i, k \in D : i = k \/ i < k \/ k < i
  <2>1. \A i \in D : i \in Nat
    OBVIOUS
  <2>2. \A i, k \in Nat : i = k \/ i < k \/ k < i
    OBVIOUS
  <2>3. I \cup J = D /\ I \cap J = {}
    OBVIOUS
  <2> HIDE DEF D, J
  <2> QED
    BY <2>1, <2>2, <2>3
<1>2. \A i \in D : rows[i].seq \in Nat
  BY RowAt
<1>3. \A i, k \in D : Key(rows[i]) = Key(rows[k]) => i = k
  <2>1. \A i, k \in D : Key(rows[i]) = Key(rows[k]) => rows[i].seq = rows[k].seq
    BY DEF Key
  <2>2. \A i, k \in D : rows[i].seq = rows[k].seq => i = k
    BY <1>1, <1>2 DEF Ordered
  <2> QED
    BY <2>1, <2>2
<1> HIDE DEF J, D
<1>4. KeysAt(rows, I) \cap KeysAt(rows, J) = {}
  <2> SUFFICES ASSUME NEW x \in KeysAt(rows, I), x \in KeysAt(rows, J) PROVE FALSE
    OBVIOUS
  <2>1. PICK i \in I : x = Key(rows[i])
    BY DEF KeysAt
  <2>2. PICK k \in J : x = Key(rows[k])
    BY DEF KeysAt
  <2> QED
    BY <1>1, <1>3, <2>1, <2>2
<1>5. KeysAt(rows, I) \cup KeysAt(rows, J) = KeysAt(rows, D)
  <2>1. \A x : x \in KeysAt(rows, I) \/ x \in KeysAt(rows, J) => x \in KeysAt(rows, D)
    BY <1>1 DEF KeysAt
  <2>2. \A x : x \in KeysAt(rows, D) => x \in KeysAt(rows, I) \/ x \in KeysAt(rows, J)
    BY <1>1 DEF KeysAt
  <2> QED
    BY <2>1, <2>2
<1> QED
  BY <1>4, <1>5 DEF J, D, Keys

\* The bytes of rows are a number: the recursion of SumBytes has a solution.
Sums(f, n, rows) ==
  f = [i \in 0..n |-> IF i = 0 THEN 0 ELSE f[i-1] + rows[i].bytes]

\* A solution for a prefix of every length.
LEMMA SumExists ==
  ASSUME NEW rows, NEW N \in Nat
  PROVE  \E f : Sums(f, N, rows)
<1> DEFINE S == {n \in Nat : n <= N /\ ~ \E f : Sums(f, n, rows)}
<1>1. SUFFICES ASSUME S # {} PROVE FALSE
  OBVIOUS
<1>2. PICK n \in S : \A k \in S : n <= k
  <2>1. S \in SUBSET Nat
    OBVIOUS
  <2> QED
    BY <1>1, <2>1, LeastElement
<1>3. n # 0
  <2> DEFINE f == [i \in 0..0 |-> 0]
  <2>1. Sums(f, 0, rows)
    BY DEF Sums
  <2> QED
    BY <1>2, <2>1
<1>4. n \in Nat /\ n - 1 \in Nat /\ n - 1 <= N /\ n - 1 \notin S
  BY <1>2, <1>3
<1>5. PICK f : Sums(f, n - 1, rows)
  BY <1>4
<1>6. \A i \in 0..(n-1) : f[i] = IF i = 0 THEN 0 ELSE f[i-1] + rows[i].bytes
  <2>1. f = [i \in 0..(n-1) |-> IF i = 0 THEN 0 ELSE f[i-1] + rows[i].bytes]
    BY <1>5, Zenon DEF Sums
  <2> QED
    BY <2>1
<1> DEFINE last == f[n-1] + rows[n].bytes
           g == [i \in 0..n |-> IF i = n THEN last ELSE f[i]]
<1>a. /\ \A i \in 0..(n-1) : g[i] = f[i]
      /\ g[n] = last
      /\ g = [i \in 0..n |-> g[i]]
  BY <1>4
<1>b. g[n] = g[n-1] + rows[n].bytes
  BY <1>4, <1>a
<1> HIDE DEF g, last
<1>7. \A i \in 0..n : g[i] = IF i = 0 THEN 0 ELSE g[i-1] + rows[i].bytes
  <2> SUFFICES ASSUME NEW i \in 0..n
               PROVE  g[i] = IF i = 0 THEN 0 ELSE g[i-1] + rows[i].bytes
    OBVIOUS
  <2>1. CASE i = n
    BY <1>3, <1>b, <2>1
  <2>2. CASE i # n
    <3>1. i \in 0..(n-1) /\ (i # 0 => i - 1 \in 0..(n-1))
      BY <1>4, <2>2
    <3>2. g[i] = f[i] /\ (i # 0 => g[i-1] = f[i-1])
      BY <1>a, <3>1
    <3>3. f[i] = IF i = 0 THEN 0 ELSE f[i-1] + rows[i].bytes
      BY <1>6, <3>1
    <3> QED
      BY <3>2, <3>3
  <2> QED
    BY <2>1, <2>2
<1>9. Sums(g, n, rows)
  <2> DEFINE h == [i \in 0..n |-> IF i = 0 THEN 0 ELSE g[i-1] + rows[i].bytes]
  <2>1. \A i \in 0..n : g[i] = h[i]
    BY <1>7
  <2>2. g = h
    BY <1>a, <2>1
  <2> QED
    BY <2>2 DEF Sums
<1> QED
  BY <1>2, <1>9

\* The sum is a natural.
LEMMA SumIs ==
  ASSUME NEW rows \in Seq(Row)
  PROVE  SumBytes(rows) \in Nat
<1> DEFINE N == Len(rows)
<1>0. \A x \in Row : x.bytes \in Nat
  <2>1. \A n \in Sizes \cup {0} : n \in Nat
    BY ConstantsAssumption
  <2>2. \A x \in Row : x.bytes \in Sizes \cup {0}
    BY DEF Row
  <2> QED
    BY <2>1, <2>2
<1>1. N \in Nat /\ \A i \in 1..N : rows[i].bytes \in Nat
  <2>1. \A i \in 1..N : rows[i] \in Row
    OBVIOUS
  <2> QED
    BY <1>0, <2>1
<1> DEFINE f == CHOOSE g : Sums(g, N, rows)
<1>2. Sums(f, N, rows)
  BY <1>1, SumExists, Zenon
<1>3. SumBytes(rows) = f[N]
  BY DEF SumBytes, Sums
<1> HIDE DEF f, N
<1>a. \A i \in 0..N : f[i] = IF i = 0 THEN 0 ELSE f[i-1] + rows[i].bytes
  <2>1. f = [i \in 0..N |-> IF i = 0 THEN 0 ELSE f[i-1] + rows[i].bytes]
    BY <1>2, Zenon DEF Sums
  <2> QED
    BY <2>1
<1> DEFINE S == {n \in Nat : n <= N /\ f[n] \notin Nat}
<1>4. S = {}
  <2> SUFFICES ASSUME S # {} PROVE FALSE
    OBVIOUS
  <2>1. PICK n \in S : \A k \in S : n <= k
    <3>1. S \in SUBSET Nat
      OBVIOUS
    <3> QED
      BY <3>1, LeastElement
  <2>a. n \in 0..N /\ f[n] \notin Nat
    BY <1>1
  <2>2. n # 0
    BY <1>a, <2>a
  <2>3. n - 1 \in Nat /\ n - 1 <= N /\ n - 1 \notin S /\ n \in 1..N
    BY <1>1, <2>1, <2>2
  <2>4. f[n-1] \in Nat
    BY <2>3
  <2>5. f[n] = f[n-1] + rows[n].bytes
    BY <1>a, <2>a, <2>2
  <2>6. rows[n].bytes \in Nat
    BY <1>1, <2>3
  <2> QED
    BY <2>a, <2>4, <2>5, <2>6
<1> QED
  BY <1>1, <1>3, <1>4

\* Two sequences, one behind the other.
LEMMA ConcatIs ==
  ASSUME NEW a \in Seq(Row), NEW b \in Seq(Row)
  PROVE  /\ a \o b \in Seq(Row) /\ Len(a \o b) = Len(a) + Len(b)
         /\ \A i \in 1..Len(a) : (a \o b)[i] = a[i]
         /\ \A i \in (Len(a) + 1)..(Len(a) + Len(b)) : (a \o b)[i] = b[i - Len(a)]
  OBVIOUS

\* Inserting a row before the first that was accepted later.
LEMMA InsertAtIs ==
  ASSUME NEW rows \in Seq(Row), Ordered(rows), NEW row \in Row,
         \A i \in 1..Len(rows) : rows[i].seq # row.seq,
         NEW at \in 1..(Len(rows) + 1),
         \A i \in 1..Len(rows) : i < at => rows[i].seq < row.seq,
         \A i \in 1..Len(rows) : at <= i => row.seq < rows[i].seq
  PROVE  /\ InsertAt(rows, at, row) \in Seq(Row) /\ Ordered(InsertAt(rows, at, row))
         /\ Keys(InsertAt(rows, at, row)) = Keys(rows) \cup {Key(row)}
<1> DEFINE p == InsertAt(rows, at, row)
           x == SubSeq(rows, 1, at-1)
           y == SubSeq(rows, at, Len(rows))
           z == x \o <<row>>
<1>0. /\ Len(rows) \in Nat /\ row.seq \in Nat
      /\ \A i \in 1..Len(rows) : rows[i].seq \in Nat
  BY RowAt DEF Row
<1>1. p = z \o y
  BY DEF InsertAt
<1>a. x \in Seq(Row) /\ Len(x) = at-1 /\ \A k \in 1..(at-1) : x[k] = rows[k]
  BY <1>0
<1>b. /\ y \in Seq(Row) /\ Len(y) = Len(rows) - at + 1
      /\ \A k \in 1..(Len(rows) - at + 1) : y[k] = rows[at + k - 1]
  BY <1>0
<1> HIDE DEF p, x, y
<1>c. z \in Seq(Row) /\ Len(z) = at /\ (\A k \in 1..(at-1) : z[k] = x[k]) /\ z[at] = row
  BY <1>a
<1> HIDE DEF z
<1>2. /\ p \in Seq(Row) /\ Len(p) = Len(rows) + 1
      /\ \A k \in 1..at : p[k] = z[k]
      /\ \A k \in (at+1)..(Len(rows) + 1) : p[k] = y[k - at]
  <2>1. y \in Seq(Row) /\ z \in Seq(Row) /\ Len(z) = at /\ at \in Nat
    BY <1>b, <1>c
  <2>2. /\ z \o y \in Seq(Row) /\ Len(z \o y) = Len(z) + Len(y)
        /\ \A k \in 1..Len(z) : (z \o y)[k] = z[k]
        /\ \A k \in (Len(z) + 1)..(Len(z) + Len(y)) : (z \o y)[k] = y[k - Len(z)]
    BY <2>1, ConcatIs
  <2>3. at + Len(y) = Len(rows) + 1
    BY <1>0, <1>b
  <2> QED
    BY <1>1, <2>1, <2>2, <2>3
<1>3. /\ \A k \in 1..Len(p) : k < at => k \in 1..Len(rows) /\ p[k] = rows[k]
      /\ at \in 1..Len(p) /\ p[at] = row
      /\ \A k \in 1..Len(p) : k > at => k-1 \in 1..Len(rows) /\ p[k] = rows[k-1]
  <2>1. ASSUME NEW k \in 1..Len(p), k < at PROVE k \in 1..Len(rows) /\ p[k] = rows[k]
    BY <1>0, <1>a, <1>c, <1>2, <2>1
  <2>2. ASSUME NEW k \in 1..Len(p), k > at PROVE k-1 \in 1..Len(rows) /\ p[k] = rows[k-1]
    <3>1. k - at \in 1..(Len(rows) - at + 1) /\ at + (k - at) - 1 = k - 1
      BY <1>0, <1>2, <2>2
    <3>2. p[k] = y[k - at]
      BY <1>0, <1>2, <2>2
    <3> QED
      BY <1>0, <1>b, <1>2, <2>2, <3>1, <3>2
  <2>3. at \in 1..Len(p) /\ p[at] = row
    BY <1>0, <1>2, <1>c
  <2> QED
    BY <2>1, <2>2, <2>3
<1>4. Ordered(p)
  <2> SUFFICES ASSUME NEW a \in 1..Len(p), NEW b \in 1..Len(p), a < b
               PROVE  p[a].seq < p[b].seq
    BY DEF Ordered
  <2>1. CASE b < at
    <3>1. p[a] = rows[a] /\ p[b] = rows[b] /\ a \in 1..Len(rows) /\ b \in 1..Len(rows)
      BY <1>3, <2>1
    <3> QED
      BY <3>1 DEF Ordered
  <2>2. CASE b = at
    <3>1. p[a] = rows[a] /\ p[b] = row /\ a \in 1..Len(rows)
      BY <1>3, <2>2
    <3> QED
      BY <2>2, <3>1
  <2>3. CASE a = at
    <3>1. p[a] = row /\ p[b] = rows[b-1] /\ b-1 \in 1..Len(rows) /\ at <= b-1
      BY <1>3, <2>3
    <3> QED
      BY <3>1
  <2>4. CASE a < at /\ at < b
    <3>1. /\ p[a] = rows[a] /\ p[b] = rows[b-1] /\ a \in 1..Len(rows)
          /\ b-1 \in 1..Len(rows) /\ at <= b-1
      BY <1>3, <2>4
    <3>2. rows[a].seq < row.seq /\ row.seq < rows[b-1].seq
      BY <2>4, <3>1
    <3> QED
      BY <1>0, <3>1, <3>2
  <2>5. CASE at < a
    <3>1. /\ p[a] = rows[a-1] /\ p[b] = rows[b-1] /\ a-1 \in 1..Len(rows)
          /\ b-1 \in 1..Len(rows) /\ a-1 < b-1
      BY <1>3, <2>5
    <3> QED
      BY <3>1 DEF Ordered
  <2> QED
    BY <1>2, <2>1, <2>2, <2>3, <2>4, <2>5
<1>5. ASSUME NEW x1 \in Keys(p) PROVE x1 \in Keys(rows) \cup {Key(row)}
  <2>1. PICK k \in 1..Len(p) : x1 = Key(p[k])
    BY DEF Keys, KeysAt
  <2>2. p[k] = row \/ \E m \in 1..Len(rows) : p[k] = rows[m]
    BY <1>3
  <2> QED
    BY <2>1, <2>2 DEF Keys, KeysAt
<1>6. Key(row) \in Keys(p)
  BY <1>3 DEF Keys, KeysAt
<1>7. ASSUME NEW x1 \in Keys(rows) PROVE x1 \in Keys(p)
  <2>1. PICK m \in 1..Len(rows) : x1 = Key(rows[m])
    BY DEF Keys, KeysAt
  <2>2. \E k \in 1..Len(p) : p[k] = rows[m]
    <3>1. CASE m < at
      <4>1. m \in 1..Len(p)
        BY <1>0, <1>2
      <4> QED
        BY <1>3, <3>1, <4>1
    <3>2. CASE ~(m < at)
      <4>1. m+1 \in 1..Len(p) /\ m+1 > at /\ (m+1)-1 = m
        BY <1>0, <1>2, <3>2
      <4> QED
        BY <1>3, <4>1
    <3> QED
      BY <3>1, <3>2
  <2> QED
    BY <2>1, <2>2 DEF Keys, KeysAt
<1>8. Keys(p) = Keys(rows) \cup {Key(row)}
  BY <1>5, <1>6, <1>7
<1> QED
  BY <1>2, <1>4, <1>8 DEF p

\* Where release_held puts a row back.
Later(rows, n) == {i \in 1..Len(rows) : rows[i].seq > n}

Place(rows, n) == IF Later(rows, n) = {} THEN Len(rows) + 1 ELSE Min(Later(rows, n))

\* Before the first row that was accepted later.
LEMMA PlaceIs ==
  ASSUME NEW rows \in Seq(Row), Ordered(rows), NEW n \in Nat,
         \A i \in 1..Len(rows) : rows[i].seq # n
  PROVE  /\ Place(rows, n) \in 1..(Len(rows) + 1)
         /\ \A i \in 1..Len(rows) : i < Place(rows, n) => rows[i].seq < n
         /\ \A i \in 1..Len(rows) : Place(rows, n) <= i => n < rows[i].seq
<1> DEFINE at == Place(rows, n)
           later == Later(rows, n)
<1>a. at = IF later = {} THEN Len(rows) + 1 ELSE Min(later)
  BY DEF Place
<1>b. /\ \A i \in 1..Len(rows) : rows[i].seq > n => i \in later
      /\ \A i \in later : i \in 1..Len(rows) /\ rows[i].seq > n
  BY DEF Later
<1> HIDE DEF at, later
<1>0. Len(rows) \in Nat /\ \A i \in 1..Len(rows) : rows[i].seq \in Nat
  BY RowAt
<1>1. CASE later = {}
  <2>1. at = Len(rows) + 1
    BY <1>1, <1>a
  <2>2. \A i \in 1..Len(rows) : ~(rows[i].seq > n)
    BY <1>1, <1>b
  <2>3. \A i \in 1..Len(rows) : rows[i].seq < n
    BY <1>0, <2>2
  <2> QED
    BY <1>0, <2>1, <2>3 DEF at
<1>2. CASE later # {}
  <2>1. later \in SUBSET Nat
    BY <1>b
  <2>2. at = Min(later)
    BY <1>2, <1>a
  <2>3. at \in later /\ \A y \in later : at <= y
    BY <1>2, <2>1, <2>2, FirstOne
  <2>4. at \in 1..Len(rows) /\ rows[at].seq > n
    BY <1>b, <2>3
  <2>5. ASSUME NEW i \in 1..Len(rows), i < at PROVE rows[i].seq < n
    <3>1. i \notin later
      BY <2>3, <2>4, <2>5
    <3>2. ~(rows[i].seq > n)
      BY <1>b, <3>1
    <3> QED
      BY <1>0, <3>2
  <2>6. ASSUME NEW i \in 1..Len(rows), at <= i PROVE n < rows[i].seq
    <3>1. CASE at = i
      BY <2>4, <3>1
    <3>2. CASE at # i
      <4>1. at < i
        BY <2>4, <2>6, <3>2
      <4>2. rows[at].seq < rows[i].seq
        BY <2>4, <4>1 DEF Ordered
      <4>3. rows[at].seq \in Nat /\ rows[i].seq \in Nat
        BY <1>0, <2>4
      <4>4. n < rows[at].seq
        BY <2>4, <4>3
      <4> QED
        BY <4>2, <4>3, <4>4
    <3> QED
      BY <3>1, <3>2
  <2>7. at \in 1..(Len(rows) + 1)
    BY <1>0, <2>4
  <2> QED
    BY <2>5, <2>6, <2>7 DEF at
<1> QED
  BY <1>1, <1>2

\* What short sequences and joined ones hold.
LEMMA ShortIs ==
  /\ << >> \in Seq(Row) /\ Ordered(<< >>) /\ Keys(<< >>) = {}
  /\ \A row \in Row : /\ <<row>> \in Seq(Row) /\ Ordered(<<row>>)
                      /\ Keys(<<row>>) = {Key(row)}
<1>1. << >> \in Seq(Row) /\ Ordered(<< >>) /\ Keys(<< >>) = {}
  BY DEF Ordered, Keys, KeysAt
<1>2. ASSUME NEW row \in Row
      PROVE  <<row>> \in Seq(Row) /\ Ordered(<<row>>) /\ Keys(<<row>>) = {Key(row)}
  <2> DEFINE p == <<row>>
  <2>1. p \in Seq(Row) /\ Len(p) = 1 /\ p[1] = row
    OBVIOUS
  <2> HIDE DEF p
  <2>2. \A i \in 1..Len(p) : i = 1
    BY <2>1
  <2>3. Ordered(p)
    BY <2>1, <2>2 DEF Ordered
  <2>4. Keys(p) = {Key(row)}
    <3>1. 1..Len(p) = {1}
      BY <2>1
    <3> QED
      BY <2>1, <3>1 DEF Keys, KeysAt
  <2> QED
    BY <2>1, <2>3, <2>4 DEF p
<1> QED
  BY <1>1, <1>2

\* Joining two sequences whose rows have different numbers.
LEMMA JoinedIs ==
  ASSUME NEW a \in Seq(Row), NEW b \in Seq(Row)
  PROVE  /\ a \o b \in Seq(Row)
         /\ Keys(a \o b) = Keys(a) \cup Keys(b)
         /\ Ordered(a) /\ Ordered(b) /\ (\A x \in Keys(a), y \in Keys(b) : x.seq # y.seq)
            => \A i, k \in 1..Len(a \o b) : (a \o b)[i].seq = (a \o b)[k].seq => i = k
<1> DEFINE p == a \o b
<1>0. Len(a) \in Nat /\ Len(b) \in Nat
  OBVIOUS
<1>1. p \in Seq(Row) /\ Len(p) = Len(a) + Len(b)
  OBVIOUS
<1>2. /\ \A i \in 1..Len(a) : i \in 1..Len(p) /\ p[i] = a[i]
      /\ \A k \in 1..Len(b) : Len(a) + k \in 1..Len(p) /\ p[Len(a) + k] = b[k]
      /\ \A i \in 1..Len(p) : i \notin 1..Len(a) =>
           i - Len(a) \in 1..Len(b) /\ p[i] = b[i - Len(a)]
  BY <1>0
<1> HIDE DEF p
<1>3. ASSUME NEW x \in Keys(p) PROVE x \in Keys(a) \cup Keys(b)
  <2>1. PICK i \in 1..Len(p) : x = Key(p[i])
    BY DEF Keys, KeysAt
  <2>2. (i \in 1..Len(a) /\ p[i] = a[i]) \/ \E k \in 1..Len(b) : p[i] = b[k]
    BY <1>2
  <2> QED
    BY <2>1, <2>2 DEF Keys, KeysAt
<1>4. ASSUME NEW x \in Keys(a) PROVE x \in Keys(p)
  <2>1. PICK i \in 1..Len(a) : x = Key(a[i])
    BY DEF Keys, KeysAt
  <2> QED
    BY <1>2, <2>1 DEF Keys, KeysAt
<1>5. ASSUME NEW x \in Keys(b) PROVE x \in Keys(p)
  <2>1. PICK k \in 1..Len(b) : x = Key(b[k])
    BY DEF Keys, KeysAt
  <2>2. \E i \in 1..Len(p) : p[i] = b[k]
    BY <1>2
  <2> QED
    BY <2>1, <2>2 DEF Keys, KeysAt
<1>6. ASSUME Ordered(a), Ordered(b), \A x \in Keys(a), y \in Keys(b) : x.seq # y.seq,
             NEW i \in 1..Len(p), NEW k \in 1..Len(p), p[i].seq = p[k].seq
      PROVE  i = k
  <2>0. /\ \A m \in 1..Len(a) : a[m].seq \in Nat
        /\ \A m \in 1..Len(b) : b[m].seq \in Nat
    BY RowAt
  <2>1. \A m \in 1..Len(a), n \in 1..Len(b) : a[m].seq # b[n].seq
    <3>1. \A m \in 1..Len(a), n \in 1..Len(b) :
            Key(a[m]) \in Keys(a) /\ Key(b[n]) \in Keys(b)
      BY DEF Keys, KeysAt
    <3>2. \A m \in 1..Len(a), n \in 1..Len(b) : Key(a[m]).seq # Key(b[n]).seq
      BY <1>6, <3>1
    <3> QED
      BY <3>2 DEF Key
  <2>2. CASE i \in 1..Len(a) /\ k \in 1..Len(a)
    <3>1. a[i].seq = a[k].seq
      BY <1>2, <1>6, <2>2
    <3> QED
      BY <1>6, <2>0, <2>2, <3>1 DEF Ordered
  <2>3. CASE i \notin 1..Len(a) /\ k \notin 1..Len(a)
    <3>1. /\ i - Len(a) \in 1..Len(b) /\ k - Len(a) \in 1..Len(b)
          /\ b[i - Len(a)].seq = b[k - Len(a)].seq
      BY <1>2, <1>6, <2>3
    <3>2. i - Len(a) = k - Len(a)
      <4> DEFINE m == i - Len(a)
                 n == k - Len(a)
      <4>1. m \in 1..Len(b) /\ n \in 1..Len(b) /\ b[m].seq = b[n].seq
        BY <3>1
      <4> HIDE DEF m, n
      <4>2. ~(m < n) /\ ~(n < m)
        BY <1>6, <2>0, <4>1 DEF Ordered
      <4>3. m = n
        BY <4>1, <4>2
      <4> QED
        BY <4>3 DEF m, n
    <3> QED
      BY <1>0, <3>2
  <2>4. CASE i \in 1..Len(a) /\ k \notin 1..Len(a)
    BY <1>2, <1>6, <2>1, <2>4
  <2>5. CASE i \notin 1..Len(a) /\ k \in 1..Len(a)
    BY <1>2, <1>6, <2>1, <2>5
  <2> QED
    BY <2>2, <2>3, <2>4, <2>5
<1>7. Keys(p) = Keys(a) \cup Keys(b)
  BY <1>3, <1>4, <1>5
<1>8. Ordered(a) /\ Ordered(b) /\ (\A x \in Keys(a), y \in Keys(b) : x.seq # y.seq)
      => \A i, k \in 1..Len(p) : p[i].seq = p[k].seq => i = k
  BY <1>6
<1> QED
  BY <1>1, <1>7, <1>8 DEF p

\* Appending a row that was accepted after all others.
LEMMA AppendedIs ==
  ASSUME NEW rows \in Seq(Row), Ordered(rows), NEW row \in Row,
         \A x \in Keys(rows) : x.seq < row.seq
  PROVE  /\ Append(rows, row) \in Seq(Row) /\ Ordered(Append(rows, row))
         /\ Keys(Append(rows, row)) = Keys(rows) \cup {Key(row)}
<1> DEFINE p == Append(rows, row)
<1>0. Len(rows) \in Nat
  OBVIOUS
<1>1. /\ p \in Seq(Row) /\ Len(p) = Len(rows) + 1 /\ p[Len(rows) + 1] = row
      /\ \A i \in 1..Len(rows) : p[i] = rows[i]
  OBVIOUS
<1> HIDE DEF p
<1>2. \A i \in 1..Len(rows) : rows[i].seq < row.seq
  <2>1. \A i \in 1..Len(rows) : Key(rows[i]) \in Keys(rows)
    BY DEF Keys, KeysAt
  <2>2. \A i \in 1..Len(rows) : Key(rows[i]).seq < row.seq
    BY <2>1
  <2> QED
    BY <2>2 DEF Key
<1>a. \A i \in 1..Len(p) : i \in 1..Len(rows) \/ i = Len(rows) + 1
  BY <1>0, <1>1
<1>3. Ordered(p)
  <2> SUFFICES ASSUME NEW i \in 1..Len(p), NEW k \in 1..Len(p), i < k
               PROVE  p[i].seq < p[k].seq
    BY DEF Ordered
  <2>1. i \in 1..Len(rows)
    BY <1>0, <1>1
  <2> QED
    BY <1>1, <1>2, <1>a, <2>1 DEF Ordered
<1>4. Keys(p) = Keys(rows) \cup {Key(row)}
  <2> DEFINE D == 1..Len(rows)
             n == Len(rows) + 1
  <2>1. 1..Len(p) = D \cup {n}
    BY <1>0, <1>1
  <2>2. (\A i \in D : p[i] = rows[i]) /\ p[n] = row
    BY <1>1
  <2> HIDE DEF D, n
  <2>3. KeysAt(p, D \cup {n}) = KeysAt(rows, D) \cup {Key(row)}
    <3> DEFINE A == KeysAt(p, D \cup {n})
               B == KeysAt(rows, D) \cup {Key(row)}
    <3>1. \A x \in A : x \in B
      BY <2>2 DEF KeysAt
    <3>2. \A x \in B : x \in A
      BY <2>2 DEF KeysAt
    <3> HIDE DEF A, B
    <3>3. A = B
      BY <3>1, <3>2
    <3> QED
      BY <3>3 DEF A, B
  <2> QED
    BY <2>1, <2>3 DEF Keys, D
<1> QED
  BY <1>1, <1>3, <1>4 DEF p

\* Keys of rows.
LEMMA KeyTyped ==
  /\ \A row \in Row : Key(row) \in Keyed /\ Key(row).seq = row.seq
  /\ \A rows \in Seq(Row) : Keys(rows) \in SUBSET Keyed
<1>1. \A row \in Row : Key(row) \in Keyed /\ Key(row).seq = row.seq
  BY DEF Row, Key, Keyed, Digest, RunName
<1>2. ASSUME NEW rows \in Seq(Row) PROVE Keys(rows) \in SUBSET Keyed
  <2>1. \A i \in 1..Len(rows) : rows[i] \in Row
    OBVIOUS
  <2> QED
    BY <1>1, <2>1 DEF Keys, KeysAt
<1> QED
  BY <1>1, <1>2

-----------------------------------------------------------------------------
(* One session: moving rows, ending them, accepting one.                   *)

\* The rows of a sound session are typed, and an identity is not NoIdentity.
LEMMA SoundTyped ==
  ASSUME NEW st, NEW hand, Sound(st, hand)
  PROVE  /\ AllKeys(st, hand) \in SUBSET Keyed
         /\ \A x \in AllKeys(st, hand) : /\ x.req \in Requests /\ x.run \in RunName
                                         /\ st.requests[x.req] # NoIdentity
                                         /\ st.requests[x.req].run = x.run
<1>1. /\ st \in QueueState /\ hand \in Seq(Row)
      /\ Identified(st, AllKeys(st, hand))
  BY DEF Sound, Tables
<1>2. st.queued \in Seq(Row) /\ st.held \in Seq(Row) /\ st.active \in Row \cup {NoRow}
  BY <1>1 DEF QueueState
<1>3. ActiveKeys(st) \in SUBSET Keyed
  BY <1>2, KeyTyped DEF ActiveKeys
<1>4. AllKeys(st, hand) \in SUBSET Keyed
  BY <1>1, <1>2, <1>3, KeyTyped DEF AllKeys
<1>5. ASSUME NEW x \in AllKeys(st, hand)
      PROVE  /\ x.req \in Requests /\ x.run \in RunName
             /\ st.requests[x.req] # NoIdentity /\ st.requests[x.req].run = x.run
  <2>1. x.req \in Requests /\ x.run \in RunName
    BY <1>4 DEF Keyed
  <2>2. st.requests[x.req] = Identity(x)
    BY <1>1 DEF Identified
  <2>3. Identity(x).run = x.run /\ NoIdentity.run = NoRun /\ NoRun # x.run
    BY <2>1, ConstantsAssumption DEF Identity, NoIdentity, RunName
  <2> QED
    BY <2>1, <2>2, <2>3
<1> QED
  BY <1>4, <1>5

\* Two rows with one request are one row.
LEMMA OneRequest ==
  ASSUME NEW st, NEW R, Identified(st, R), R \in SUBSET Keyed,
         NEW x \in R, NEW y \in R, x.req = y.req
  PROVE  x = y
<1>1. Identity(x) = Identity(y)
  BY DEF Identified
<1>2. x.seq = y.seq
  BY <1>1 DEF Identity
<1> QED
  BY <1>2 DEF Identified

\* Rows that only move stay sound.
LEMMA Rearranged ==
  ASSUME NEW st, NEW hand, NEW t, NEW rest, Sound(st, hand),
         t \in QueueState, rest \in Seq(Row),
         t.next = st.next, t.requests = st.requests, t.runs = st.runs, t.acks = st.acks,
         Ordered(t.queued), Ordered(t.held), Ordered(rest),
         Placed(t, rest), AllKeys(t, rest) = AllKeys(st, hand)
  PROVE  Sound(t, rest)
<1> DEFINE R == AllKeys(st, hand)
<1>1. Identified(st, R) /\ Remembered(st, R) /\ Injective(st) /\ Covered(st, R)
  BY DEF Sound, Tables
<1> HIDE DEF R
<1>2. Identified(t, R)
  BY <1>1 DEF Identified
<1>3. Remembered(t, R)
  BY <1>1 DEF Remembered
<1>4. Injective(t)
  BY <1>1 DEF Injective
<1>5. Covered(t, R)
  BY <1>1 DEF Covered
<1> QED
  BY <1>2, <1>3, <1>4, <1>5 DEF Sound, Tables, R

\* The acknowledgements of rows.
AcksOf(rows, reason) ==
  [i \in 1..Len(rows) |-> [run |-> rows[i].run, req |-> rows[i].req, reason |-> reason]]

Reasons == {"superseded", "merged", "settled", "cancelled"}

\* They are appended in the order of the rows.
LEMMA AcksIs ==
  ASSUME NEW acks \in Seq(Ack), NEW rows \in Seq(Row), NEW reason \in Reasons
  PROVE  /\ acks \o AcksOf(rows, reason) \in Seq(Ack)
         /\ Len(acks \o AcksOf(rows, reason)) = Len(acks) + Len(rows)
         /\ \A i \in 1..Len(acks) : (acks \o AcksOf(rows, reason))[i] = acks[i]
         /\ \A i \in 1..(Len(acks) + Len(rows)) : i \notin 1..Len(acks) =>
              /\ i - Len(acks) \in 1..Len(rows)
              /\ (acks \o AcksOf(rows, reason))[i].req = rows[i - Len(acks)].req
              /\ (acks \o AcksOf(rows, reason))[i].run = rows[i - Len(acks)].run
<1> DEFINE b == AcksOf(rows, reason)
           p == acks \o b
<1>0. Len(rows) \in Nat /\ Len(acks) \in Nat
  OBVIOUS
<1>1. \A i \in 1..Len(rows) : rows[i].run \in RunName /\ rows[i].req \in Requests
  BY RowAt DEF Row, RunName
<1>2. \A i \in 1..Len(rows) : /\ b[i] \in Ack
                              /\ b[i].req = rows[i].req /\ b[i].run = rows[i].run
  BY <1>1 DEF AcksOf, Ack, Reasons
<1>3. b = [i \in 1..Len(rows) |-> b[i]]
  BY DEF AcksOf
<1> HIDE DEF b
<1>4. b \in Seq(Ack) /\ Len(b) = Len(rows)
  BY <1>0, <1>2, <1>3
<1>5. p \in Seq(Ack) /\ Len(p) = Len(acks) + Len(rows)
  BY <1>4
<1>6. \A i \in 1..Len(acks) : p[i] = acks[i]
  BY <1>4
<1>7. \A i \in 1..(Len(acks) + Len(rows)) : i \notin 1..Len(acks) =>
        i - Len(acks) \in 1..Len(rows) /\ p[i] = b[i - Len(acks)]
  BY <1>0, <1>4
<1> HIDE DEF p
<1>8. \A i \in 1..(Len(acks) + Len(rows)) : i \notin 1..Len(acks) =>
        /\ i - Len(acks) \in 1..Len(rows)
        /\ p[i].req = rows[i - Len(acks)].req
        /\ p[i].run = rows[i - Len(acks)].run
  BY <1>2, <1>7
<1> QED
  BY <1>5, <1>6, <1>8 DEF p, b

\* Rows that end are acknowledged.
LEMMA EndedKeeps ==
  ASSUME NEW st, NEW rows, NEW reason \in Reasons, Sound(st, rows)
  PROVE  Sound([st EXCEPT !.acks = @ \o AcksOf(rows, reason)], << >>)
<1> DEFINE p == st.acks \o AcksOf(rows, reason)
           t == [st EXCEPT !.acks = p]
           R == AllKeys(st, rows)
           L == AllKeys(t, << >>)
           a == Len(st.acks)
           n == Len(rows)
<1>1. /\ st \in QueueState /\ rows \in Seq(Row)
      /\ Ordered(st.queued) /\ Ordered(st.held) /\ Ordered(rows)
      /\ Placed(st, rows)
      /\ Identified(st, R) /\ Remembered(st, R) /\ Injective(st) /\ Covered(st, R)
  BY DEF Sound, Tables
<1>2. st.acks \in Seq(Ack) /\ a \in Nat /\ n \in Nat
  BY <1>1 DEF QueueState
<1>3. /\ p \in Seq(Ack) /\ Len(p) = a + n
      /\ \A i \in 1..a : p[i] = st.acks[i]
      /\ \A i \in 1..(a + n) : i \notin 1..a =>
           i - a \in 1..n /\ p[i].req = rows[i - a].req /\ p[i].run = rows[i - a].run
  BY <1>1, <1>2, AcksIs
<1> HIDE DEF p
<1>4. /\ t \in QueueState /\ t.next = st.next /\ t.queued = st.queued /\ t.held = st.held
      /\ t.active = st.active /\ t.requests = st.requests /\ t.runs = st.runs /\ t.acks = p
  BY <1>1, <1>3 DEF QueueState
<1> HIDE DEF t
<1>5. ActiveKeys(t) = ActiveKeys(st)
  BY <1>4 DEF ActiveKeys
<1>6. R = L \cup Keys(rows) /\ L \cap Keys(rows) = {} /\ Placed(t, << >>)
  <2>1. Keys(<< >>) = {}
    BY ShortIs
  <2>2. L = Keys(st.queued) \cup Keys(st.held) \cup ActiveKeys(st)
    BY <1>4, <1>5, <2>1 DEF AllKeys
  <2>3. R = Keys(st.queued) \cup Keys(st.held) \cup ActiveKeys(st) \cup Keys(rows)
    BY DEF AllKeys
  <2>4. /\ Keys(st.queued) \cap Keys(st.held) = {}
        /\ (Keys(st.queued) \cup Keys(st.held)) \cap ActiveKeys(st) = {}
        /\ L \cap Keys(rows) = {}
    BY <1>1, <2>2 DEF Placed
  <2>5. Placed(t, << >>)
    BY <1>4, <1>5, <2>1, <2>4 DEF Placed
  <2>6. R = L \cup Keys(rows)
    BY <2>2, <2>3
  <2> QED
    BY <2>4, <2>5, <2>6
<1>7. R \in SUBSET Keyed /\ \A x \in R : /\ x.req \in Requests
                                         /\ st.requests[x.req] # NoIdentity
                                         /\ st.requests[x.req].run = x.run
  BY SoundTyped
<1> HIDE DEF R, L
<1>8. \A k \in 1..n : /\ Key(rows[k]) \in R /\ Key(rows[k]) \in Keys(rows)
                      /\ Key(rows[k]).req = rows[k].req /\ Key(rows[k]).run = rows[k].run
                      /\ Key(rows[k]).seq = rows[k].seq
  BY <1>6 DEF Keys, KeysAt, Key
<1>a. ASSUME NEW i \in 1..(a + n), i \notin 1..a
      PROVE  \E x \in Keys(rows) : x \in R /\ p[i].req = x.req /\ p[i].run = x.run
  <2>1. i - a \in 1..n /\ p[i].req = rows[i - a].req /\ p[i].run = rows[i - a].run
    BY <1>3, <1>a
  <2> QED
    BY <1>8, <2>1
<1>9. \A x, y \in R : x.req = y.req => x = y
  BY <1>1, <1>7, OneRequest
<1>10. \A k, m \in 1..n : rows[k].req = rows[m].req => k = m
  <2> SUFFICES ASSUME NEW k \in 1..n, NEW m \in 1..n, rows[k].req = rows[m].req
               PROVE  k = m
    OBVIOUS
  <2>1. rows[k].seq = rows[m].seq
    BY <1>8, <1>9
  <2>2. rows[k].seq \in Nat /\ rows[m].seq \in Nat
    BY <1>1, RowAt
  <2>3. ~(k < m) /\ ~(m < k)
    BY <1>1, <2>1, <2>2 DEF Ordered
  <2> QED
    BY <1>2, <2>3
<1>11. \A i \in 1..(a + n) : /\ st.requests[p[i].req] # NoIdentity
                             /\ st.requests[p[i].req].run = p[i].run
  <2> SUFFICES ASSUME NEW i \in 1..(a + n)
               PROVE  /\ st.requests[p[i].req] # NoIdentity
                      /\ st.requests[p[i].req].run = p[i].run
    OBVIOUS
  <2>1. CASE i \in 1..a
    BY <1>1, <1>3, <2>1 DEF Remembered
  <2>2. CASE i \notin 1..a
    BY <1>7, <1>a, <2>2
  <2> QED
    BY <2>1, <2>2
<1>12. \A i, k \in 1..(a + n) : p[i].req = p[k].req => i = k
  <2> SUFFICES ASSUME NEW i \in 1..(a + n), NEW k \in 1..(a + n), p[i].req = p[k].req
               PROVE  i = k
    OBVIOUS
  <2>0. \A x \in R, m \in 1..a : x.req # st.acks[m].req
    BY <1>1 DEF Remembered
  <2>1. CASE i \in 1..a /\ k \in 1..a
    BY <1>1, <1>3, <2>1 DEF Remembered
  <2>2. CASE i \in 1..a /\ k \notin 1..a
    <3>1. PICK x \in Keys(rows) : x \in R /\ p[k].req = x.req
      BY <1>a, <2>2
    <3> QED
      BY <1>3, <2>0, <2>2, <3>1
  <2>3. CASE i \notin 1..a /\ k \in 1..a
    <3>1. PICK x \in Keys(rows) : x \in R /\ p[i].req = x.req
      BY <1>a, <2>3
    <3> QED
      BY <1>3, <2>0, <2>3, <3>1
  <2>4. CASE i \notin 1..a /\ k \notin 1..a
    <3>1. i - a \in 1..n /\ k - a \in 1..n /\ rows[i - a].req = rows[k - a].req
      BY <1>3, <2>4
    <3>2. i - a = k - a
      BY <1>10, <3>1
    <3> QED
      BY <1>2, <3>2
  <2> QED
    BY <2>1, <2>2, <2>3, <2>4
<1>13. \A x \in L, i \in 1..(a + n) : x.req # p[i].req
  <2> SUFFICES ASSUME NEW x \in L, NEW i \in 1..(a + n) PROVE x.req # p[i].req
    OBVIOUS
  <2>1. CASE i \in 1..a
    BY <1>1, <1>3, <1>6, <2>1 DEF Remembered
  <2>2. CASE i \notin 1..a
    <3>1. PICK y \in Keys(rows) : y \in R /\ p[i].req = y.req
      BY <1>a, <2>2
    <3>2. y # x /\ x \in R
      BY <1>6
    <3> QED
      BY <1>9, <3>1, <3>2
  <2> QED
    BY <2>1, <2>2
<1>14. Identified(t, L)
  BY <1>1, <1>4, <1>6 DEF Identified
<1>15. Remembered(t, L)
  <2> DEFINE N == a + n
  <2>1. Len(t.acks) = N /\ t.acks = p /\ t.requests = st.requests
    BY <1>3, <1>4
  <2>2. /\ \A i \in 1..N : /\ st.requests[p[i].req] # NoIdentity
                           /\ st.requests[p[i].req].run = p[i].run
        /\ \A i, k \in 1..N : p[i].req = p[k].req => i = k
        /\ \A x \in L, i \in 1..N : x.req # p[i].req
    BY <1>11, <1>12, <1>13
  <2> HIDE DEF N
  <2> QED
    BY <2>1, <2>2 DEF Remembered
<1>16. Injective(t)
  BY <1>1, <1>4 DEF Injective
<1>17. Covered(t, L)
  <2> SUFFICES ASSUME NEW c \in Requests, st.requests[c] # NoIdentity
               PROVE  (\E x \in L : x.req = c) \/ \E i \in 1..(a + n) : p[i].req = c
    BY <1>3, <1>4 DEF Covered
  <2>1. (\E x \in R : x.req = c) \/ \E i \in 1..a : st.acks[i].req = c
    BY <1>1 DEF Covered
  <2>2. ASSUME NEW x \in Keys(rows), x.req = c PROVE \E i \in 1..(a + n) : p[i].req = c
    <3>1. PICK k \in 1..n : x = Key(rows[k])
      BY DEF Keys, KeysAt
    <3>2. a + k \in 1..(a + n) /\ a + k \notin 1..a /\ (a + k) - a = k
      BY <1>2
    <3>3. p[a + k].req = rows[k].req
      BY <1>3, <3>2
    <3> QED
      BY <1>8, <2>2, <3>1, <3>2, <3>3
  <2>3. ASSUME NEW i \in 1..a, st.acks[i].req = c PROVE \E k \in 1..(a + n) : p[k].req = c
    <3>1. i \in 1..(a + n)
      BY <1>2
    <3> QED
      BY <1>3, <2>3, <3>1
  <2> QED
    BY <1>6, <2>1, <2>2, <2>3
<1>18. Sound(t, << >>)
  BY <1>1, <1>4, <1>6, <1>14, <1>15, <1>16, <1>17, ShortIs DEF Sound, Tables, L
<1> QED
  BY <1>18 DEF t, p

\* The oldest acknowledgements are forgotten, together with the identities they
\* kept.
Evicted(st, n) ==
  LET evicted == {st.acks[i] : i \in 1..n}
  IN [st EXCEPT
       !.acks = SubSeq(@, n + 1, Len(@)),
       !.requests = [c \in Requests |->
         IF \E a \in evicted : a.req = c THEN NoIdentity ELSE @[c]],
       !.runs = @ \ {a.run : a \in evicted}]

\* What is left is sound.
LEMMA EvictedKeeps ==
  ASSUME NEW st, Sound(st, << >>), NEW n \in 0..Len(st.acks)
  PROVE  /\ Sound(Evicted(st, n), << >>) /\ Len(Evicted(st, n).acks) = Len(st.acks) - n
         /\ Evicted(st, n).next = st.next /\ Evicted(st, n).queued = st.queued
         /\ Evicted(st, n).bytes = st.bytes
         /\ \A c \in Requests : Evicted(st, n).requests[c] # NoIdentity =>
              st.requests[c] # NoIdentity
         /\ Evicted(st, n).runs \in SUBSET st.runs
<1> DEFINE t == Evicted(st, n)
           R == AllKeys(st, << >>)
           N == Len(st.acks)
           gone == {c \in Requests : \E i \in 1..n : st.acks[i].req = c}
<1>1. /\ st \in QueueState
      /\ Ordered(st.queued) /\ Ordered(st.held)
      /\ Placed(st, << >>)
      /\ Identified(st, R) /\ Remembered(st, R) /\ Injective(st) /\ Covered(st, R)
  BY DEF Sound, Tables
<1>2. /\ st.acks \in Seq(Ack) /\ N \in Nat /\ st.runs \in SUBSET RunName
      /\ st.requests \in [Requests -> Named \cup {NoIdentity}]
      /\ \A i \in 1..N : st.acks[i] \in Ack /\ st.acks[i].req \in Requests
  <2>1. /\ st.acks \in Seq(Ack) /\ N \in Nat /\ st.runs \in SUBSET RunName
        /\ st.requests \in [Requests -> Named \cup {NoIdentity}]
    BY <1>1 DEF QueueState
  <2>2. \A i \in 1..N : st.acks[i] \in Ack
    BY <2>1
  <2> QED
    BY <2>1, <2>2 DEF Ack
<1> DEFINE p == SubSeq(st.acks, n + 1, N)
           req == [c \in Requests |->
                    IF \E a \in {st.acks[i] : i \in 1..n} : a.req = c THEN NoIdentity
                    ELSE st.requests[c]]
           runs == st.runs \ {a.run : a \in {st.acks[i] : i \in 1..n}}
<1>3. /\ p \in Seq(Ack) /\ Len(p) = N - n
      /\ \A i \in 1..(N - n) : n + i \in 1..N /\ n + i \notin 1..n /\ p[i] = st.acks[n + i]
  BY <1>2
<1>4. /\ req \in [Requests -> Named \cup {NoIdentity}]
      /\ \A c \in Requests : req[c] = IF c \in gone THEN NoIdentity ELSE st.requests[c]
  BY <1>2
<1>5. /\ runs \in SUBSET RunName
      /\ \A r : r \in runs <=> r \in st.runs /\ ~ \E i \in 1..n : st.acks[i].run = r
  BY <1>2
<1>6. /\ t \in QueueState /\ t.next = st.next /\ t.queued = st.queued /\ t.held = st.held
      /\ t.active = st.active /\ t.requests = req /\ t.runs = runs /\ t.acks = p
      /\ t.bytes = st.bytes
  <2>1. t = [st EXCEPT !.acks = p, !.requests = req, !.runs = runs]
    BY <1>1 DEF Evicted, QueueState
  <2> HIDE DEF t, p, req, runs
  <2> QED
    BY <1>1, <1>3, <1>4, <1>5, <2>1 DEF QueueState
<1>7. 1..n \subseteq 1..N /\ \A c \in gone : \E i \in 1..n : st.acks[i].req = c
  BY <1>2
<1>a. \A i \in 1..n : st.acks[i].req \in gone
  BY <1>2, <1>7
<1> HIDE DEF t, p, req, runs, gone, N
<1>8. AllKeys(t, << >>) = R /\ Placed(t, << >>)
  <2>1. ActiveKeys(t) = ActiveKeys(st)
    BY <1>6 DEF ActiveKeys
  <2> QED
    BY <1>1, <1>6, <2>1 DEF AllKeys, Placed
<1>9. R \in SUBSET Keyed /\ \A x \in R : x.req \in Requests
  BY SoundTyped
<1> HIDE DEF R
<1>10. /\ \A i \in 1..N : /\ st.requests[st.acks[i].req] # NoIdentity
                           /\ st.requests[st.acks[i].req].run = st.acks[i].run
       /\ \A i, k \in 1..N : st.acks[i].req = st.acks[k].req => i = k
       /\ \A x \in R, i \in 1..N : x.req # st.acks[i].req
  BY <1>1 DEF Remembered, N
<1>11. \A x \in R : x.req \notin gone
  BY <1>7, <1>10
<1>12. \A i \in 1..(N - n) : p[i].req \in Requests /\ p[i].req \notin gone
  <2> SUFFICES ASSUME NEW i \in 1..(N - n)
               PROVE  p[i].req \in Requests /\ p[i].req \notin gone
    OBVIOUS
  <2>1. n + i \in 1..N /\ n + i \notin 1..n /\ p[i] = st.acks[n + i]
    BY <1>3
  <2>2. st.acks[n + i].req \in Requests
    BY <1>2, <2>1
  <2>3. ASSUME st.acks[n + i].req \in gone PROVE FALSE
    <3>1. PICK k \in 1..n : st.acks[k].req = st.acks[n + i].req
      BY <1>7, <2>3
    <3>2. k \in 1..N
      BY <1>7
    <3>3. k = n + i
      BY <1>10, <2>1, <3>1, <3>2
    <3> QED
      BY <2>1, <3>3
  <2> QED
    BY <2>1, <2>2, <2>3
<1>13. Identified(t, R)
  <2>1. \A x \in R : req[x.req] = st.requests[x.req]
    BY <1>4, <1>9, <1>11
  <2> QED
    BY <1>1, <1>6, <2>1 DEF Identified
<1>14. Remembered(t, R)
  <2> DEFINE M == N - n
  <2>1. \A i \in 1..M : req[p[i].req] # NoIdentity /\ req[p[i].req].run = p[i].run
    BY <1>3, <1>4, <1>10, <1>12
  <2>2. ASSUME NEW i \in 1..M, NEW k \in 1..M, p[i].req = p[k].req PROVE i = k
    <3>1. /\ n + i \in 1..N /\ n + k \in 1..N
          /\ st.acks[n + i].req = st.acks[n + k].req
      BY <1>3, <2>2
    <3>2. n + i = n + k
      BY <1>10, <3>1
    <3> QED
      BY <3>2
  <2>3. \A x \in R, i \in 1..M : x.req # p[i].req
    BY <1>3, <1>10
  <2>4. Len(t.acks) = M /\ t.acks = p /\ t.requests = req
    BY <1>3, <1>6
  <2> HIDE DEF M
  <2> QED
    BY <2>1, <2>2, <2>3, <2>4 DEF Remembered
<1>15. Injective(t)
  <2>0. /\ \A c, d \in Requests :
             /\ st.requests[c] # NoIdentity /\ st.requests[d] # NoIdentity
             /\ st.requests[c].run = st.requests[d].run
             => c = d
        /\ \A r \in st.runs : \E c \in Requests : /\ st.requests[c] # NoIdentity
                                                  /\ st.requests[c].run = r
        /\ \A c \in Requests : st.requests[c] # NoIdentity => st.requests[c].run \in st.runs
    BY <1>1 DEF Injective
  <2>1. \A c, d \in Requests :
             /\ req[c] # NoIdentity /\ req[d] # NoIdentity
             /\ req[c].run = req[d].run
             => c = d
    BY <1>4, <2>0
  <2>2. ASSUME NEW r \in runs
        PROVE  \E c \in Requests : req[c] # NoIdentity /\ req[c].run = r
    <3>1. r \in st.runs /\ ~ \E i \in 1..n : st.acks[i].run = r
      BY <1>5
    <3>2. PICK c \in Requests : st.requests[c] # NoIdentity /\ st.requests[c].run = r
      BY <2>0, <3>1
    <3>3. c \notin gone
      BY <1>7, <1>10, <3>1, <3>2
    <3> QED
      BY <1>4, <3>2, <3>3
  <2>3. ASSUME NEW c \in Requests, req[c] # NoIdentity PROVE req[c].run \in runs
    <3>1. c \notin gone /\ st.requests[c] # NoIdentity /\ req[c] = st.requests[c]
      BY <1>4, <2>3
    <3>2. ASSUME NEW i \in 1..n, st.acks[i].run = st.requests[c].run PROVE FALSE
      <4>1. i \in 1..N
        BY <1>7
      <4>2. st.acks[i].req \in Requests /\ st.acks[i].req \in gone
        BY <1>2, <1>a, <4>1
      <4>3. st.acks[i].req = c
        BY <1>10, <2>0, <3>1, <3>2, <4>1, <4>2
      <4> QED
        BY <3>1, <4>2, <4>3
    <3> QED
      BY <1>5, <2>0, <3>1, <3>2
  <2> QED
    BY <1>6, <2>1, <2>2, <2>3 DEF Injective
<1>16. Covered(t, R)
  <2> SUFFICES ASSUME NEW c \in Requests, req[c] # NoIdentity
               PROVE  (\E x \in R : x.req = c) \/ \E i \in 1..(N - n) : p[i].req = c
    BY <1>3, <1>6 DEF Covered
  <2>1. c \notin gone /\ st.requests[c] # NoIdentity
    BY <1>4
  <2>2. (\E x \in R : x.req = c) \/ \E i \in 1..N : st.acks[i].req = c
    BY <1>1, <2>1 DEF Covered, N
  <2>3. ASSUME NEW i \in 1..N, st.acks[i].req = c PROVE \E k \in 1..(N - n) : p[k].req = c
    <3>1. i \notin 1..n
      BY <1>a, <2>1, <2>3
    <3>2. i - n \in 1..(N - n) /\ n + (i - n) = i
      BY <1>2, <3>1
    <3> QED
      BY <1>3, <2>3, <3>2
  <2> QED
    BY <2>2, <2>3
<1>17. Sound(t, << >>)
  BY <1>1, <1>6, <1>8, <1>13, <1>14, <1>15, <1>16, ShortIs DEF Sound, Tables
<1>18. /\ \A c \in Requests : req[c] # NoIdentity => st.requests[c] # NoIdentity
       /\ runs \in SUBSET st.runs
  BY <1>4, <1>5
<1> QED
  BY <1>3, <1>6, <1>17, <1>18 DEF t, N

\* Rows that become terminal are acknowledged, and the oldest acknowledgements
\* beyond the limit go.
LEMMA Retires ==
  ASSUME NEW st, NEW rows, NEW reason \in Reasons, Sound(st, rows)
  PROVE  LET t == RememberTerminal(st, rows, reason)
         IN /\ Sound(t, << >>) /\ Len(t.acks) <= AckLimit
            /\ t.next = st.next /\ t.queued = st.queued
            /\ \A c \in Requests : st.requests[c] = NoIdentity => t.requests[c] = NoIdentity
            /\ t.runs \in SUBSET st.runs
<1> DEFINE p == st.acks \o AcksOf(rows, reason)
           u == [st EXCEPT !.acks = p]
           n == Minus(Len(p), AckLimit)
           t == RememberTerminal(st, rows, reason)
<1>1. Sound(u, << >>) /\ st \in QueueState
  <2>1. st \in QueueState
    BY DEF Sound
  <2>2. Sound([st EXCEPT !.acks = @ \o AcksOf(rows, reason)], << >>)
    BY EndedKeeps
  <2> QED
    BY <2>1, <2>2
<1>2. /\ u.next = st.next /\ u.queued = st.queued /\ u.requests = st.requests
      /\ u.runs = st.runs /\ u.acks = p /\ u \in QueueState
  <2>1. u \in QueueState
    BY <1>1 DEF Sound
  <2> QED
    BY <1>1, <2>1 DEF QueueState
<1>3. Len(p) \in Nat /\ AckLimit \in Nat
  <2>1. u.acks \in Seq(Ack)
    BY <1>2 DEF QueueState
  <2>2. AckLimit \in Nat
    BY ConstantsAssumption
  <2> QED
    BY <1>2, <2>1, <2>2
<1>4. n \in 0..Len(p) /\ Len(p) - n <= AckLimit
  BY <1>3 DEF Minus
<1>5. t = Evicted(u, n)
  <2> DEFINE evicted == {p[i] : i \in 1..n}
  <2>1. t = [st EXCEPT !.acks = SubSeq(p, n + 1, Len(p)),
                       !.requests = [c \in Requests |->
                          IF \E a \in evicted : a.req = c THEN NoIdentity ELSE @[c]],
                       !.runs = @ \ {a.run : a \in evicted}]
    BY DEF RememberTerminal, AcksOf
  <2> DEFINE x == SubSeq(p, n + 1, Len(p))
             y == [c \in Requests |->
                    IF \E a \in evicted : a.req = c THEN NoIdentity ELSE st.requests[c]]
             z == st.runs \ {a.run : a \in evicted}
  <2>3. t = [st EXCEPT !.acks = x, !.requests = y, !.runs = z]
    BY <1>1, <2>1 DEF QueueState
  <2>4. Evicted(u, n) = [u EXCEPT !.acks = x, !.requests = y, !.runs = z]
    <3> DEFINE E == {u.acks[i] : i \in 1..n}
               xu == SubSeq(u.acks, n + 1, Len(u.acks))
               yu == [c \in Requests |->
                       IF \E a \in E : a.req = c THEN NoIdentity ELSE u.requests[c]]
               zu == u.runs \ {a.run : a \in E}
    <3> HIDE DEF u
    <3>1. Evicted(u, n) = [u EXCEPT !.acks = xu, !.requests = yu, !.runs = zu]
      BY <1>2 DEF Evicted, QueueState
    <3>2. E = evicted /\ xu = x /\ yu = y /\ zu = z
      BY <1>2
    <3> HIDE DEF xu, yu, zu, x, y, z
    <3> QED
      BY <3>1, <3>2
  <2> HIDE DEF x, y, z, t, p
  <2>5. [u EXCEPT !.acks = x, !.requests = y, !.runs = z]
          = [st EXCEPT !.acks = x, !.requests = y, !.runs = z]
    BY <1>1 DEF QueueState
  <2> QED
    BY <2>3, <2>4, <2>5
<1>6. n \in 0..Len(u.acks)
  BY <1>2, <1>4
<1> HIDE DEF n, u, p, t
<1>7. /\ Sound(Evicted(u, n), << >>) /\ Len(Evicted(u, n).acks) = Len(u.acks) - n
      /\ Evicted(u, n).next = u.next /\ Evicted(u, n).queued = u.queued
      /\ \A c \in Requests : Evicted(u, n).requests[c] # NoIdentity =>
           u.requests[c] # NoIdentity
      /\ Evicted(u, n).runs \in SUBSET u.runs
  BY <1>1, <1>6, EvictedKeeps
<1>8. /\ Sound(t, << >>) /\ Len(t.acks) <= AckLimit
      /\ t.next = st.next /\ t.queued = st.queued
      /\ \A c \in Requests : st.requests[c] = NoIdentity => t.requests[c] = NoIdentity
      /\ t.runs \in SUBSET st.runs
  BY <1>2, <1>4, <1>5, <1>7
<1> QED
  BY <1>8 DEF t

\* A request that nobody knows becomes the last row of the queue.
LEMMA EnqueuedKeeps ==
  ASSUME NEW st, Sound(st, << >>), NEW row \in Row, NEW b \in Nat,
         st.requests[row.req] = NoIdentity, row.run \notin st.runs,
         row.seq = st.next, st.next + 1 <= MaxSequence
  PROVE  /\ Sound([Enqueued(st, row) EXCEPT !.bytes = b], << >>)
         /\ [Enqueued(st, row) EXCEPT !.bytes = b].acks = st.acks
<1> DEFINE t == [Enqueued(st, row) EXCEPT !.bytes = b]
           R == AllKeys(st, << >>)
           id == Identity(row)
           req == [st.requests EXCEPT ![row.req] = id]
           rows == Append(st.queued, row)
<1>1. /\ st \in QueueState
      /\ Ordered(st.queued) /\ Ordered(st.held)
      /\ Placed(st, << >>)
      /\ Identified(st, R) /\ Remembered(st, R) /\ Injective(st) /\ Covered(st, R)
  BY DEF Sound, Tables
<1>2. /\ st.next \in 1..MaxSequence /\ st.queued \in Seq(Row)
      /\ st.requests \in [Requests -> Named \cup {NoIdentity}]
      /\ st.runs \in SUBSET RunName /\ MaxSequence \in Nat
      /\ st.acks \in Seq(Ack)
  BY <1>1, ConstantsAssumption DEF QueueState
<1>3. /\ row.req \in Requests /\ row.run \in RunName /\ row.seq \in Nat
      /\ row.digest \in Digest /\ id \in Named /\ id.run = row.run
      /\ id # NoIdentity
  <2>1. /\ row.req \in Requests /\ row.run \in RunName /\ row.seq \in Nat
        /\ row.digest \in Digest
    BY DEF Row, RunName, Digest
  <2>2. id \in Named /\ id.run = row.run
    BY <2>1 DEF Identity, Named
  <2>3. NoIdentity.run = NoRun /\ NoRun # row.run
    BY <2>1, ConstantsAssumption DEF NoIdentity, RunName
  <2> QED
    BY <2>1, <2>2, <2>3
<1>4. Keys(<< >>) = {}
  BY ShortIs
<1>5. R = Keys(st.queued) \cup Keys(st.held) \cup ActiveKeys(st)
  BY <1>4 DEF AllKeys
<1>6. \A x \in R : x.seq < row.seq
  BY <1>1 DEF Identified
<1>7. /\ rows \in Seq(Row) /\ Ordered(rows)
      /\ Keys(rows) = Keys(st.queued) \cup {Key(row)}
  <2>1. \A x \in Keys(st.queued) : x.seq < row.seq
    BY <1>5, <1>6
  <2> QED
    BY <1>1, <1>2, <2>1, AppendedIs
<1>8. req \in [Requests -> Named \cup {NoIdentity}]
  BY <1>2, <1>3
<1>9. \A c \in Requests : req[c] = IF c = row.req THEN id ELSE st.requests[c]
  BY <1>2
<1>10. /\ t \in QueueState /\ t.next = st.next + 1 /\ t.requests = req
       /\ t.runs = st.runs \cup {row.run} /\ t.queued = rows /\ t.held = st.held
       /\ t.active = st.active /\ t.acks = st.acks
  <2>1. t = [st EXCEPT !.next = st.next + 1, !.requests = req,
                       !.runs = st.runs \cup {row.run}, !.queued = rows, !.bytes = b]
    BY <1>1 DEF Enqueued, QueueState
  <2>2. st.next + 1 \in 1..MaxSequence /\ st.runs \cup {row.run} \in SUBSET RunName
    BY <1>2, <1>3
  <2> HIDE DEF req, rows, t, id
  <2> QED
    BY <1>1, <1>7, <1>8, <2>1, <2>2 DEF QueueState
<1> HIDE DEF t, req, rows, id
<1>11. ActiveKeys(t) = ActiveKeys(st)
  BY <1>10 DEF ActiveKeys
<1>12. AllKeys(t, << >>) = R \cup {Key(row)}
  BY <1>4, <1>5, <1>7, <1>10, <1>11 DEF AllKeys
<1>13. Key(row).seq = row.seq /\ Key(row).req = row.req /\ Key(row) \notin R
  <2>1. Key(row).seq = row.seq /\ Key(row).req = row.req
    BY DEF Key
  <2> QED
    BY <1>3, <1>6, <2>1
<1>14. Placed(t, << >>)
  <2>1. /\ Keys(st.queued) \cap Keys(st.held) = {}
        /\ (Keys(st.queued) \cup Keys(st.held)) \cap ActiveKeys(st) = {}
    BY <1>1 DEF Placed
  <2> QED
    BY <1>4, <1>5, <1>7, <1>10, <1>11, <1>13, <2>1 DEF Placed
<1>15. R \in SUBSET Keyed /\ \A x \in R : /\ x.req \in Requests
                                          /\ st.requests[x.req] # NoIdentity
  BY SoundTyped
<1> HIDE DEF R
<1>16. Identified(t, R \cup {Key(row)})
  <2>1. \A x \in R : x.seq \in Nat
    BY <1>15 DEF Keyed
  <2>2. \A x, y \in R \cup {Key(row)} : x.seq = y.seq => x = y
    <3>1. \A x, y \in R : x.seq = y.seq => x = y
      BY <1>1 DEF Identified
    <3>2. \A x \in R : x.seq # Key(row).seq
      BY <1>3, <1>6, <1>13, <2>1
    <3> QED
      BY <3>1, <3>2
  <2>3. ASSUME NEW x \in R PROVE x.seq < t.next /\ t.requests[x.req] = Identity(x)
    <3>1. x.seq < st.next /\ st.requests[x.req] = Identity(x)
      BY <1>1 DEF Identified
    <3>2. x.req # row.req
      BY <1>15
    <3>3. t.requests[x.req] = st.requests[x.req]
      BY <1>9, <1>10, <1>15, <3>2
    <3> QED
      BY <1>2, <1>10, <2>1, <3>1, <3>3
  <2>4. Identity(Key(row)) = id
    BY DEF Identity, Key, id
  <2>5. Key(row).seq < t.next /\ t.requests[Key(row).req] = Identity(Key(row))
    BY <1>2, <1>3, <1>9, <1>10, <1>13, <2>4
  <2> QED
    BY <2>2, <2>3, <2>5 DEF Identified
<1>17. /\ \A i \in 1..Len(st.acks) : /\ st.acks[i].req \in Requests
                                     /\ st.requests[st.acks[i].req] # NoIdentity
       /\ \A i \in 1..Len(st.acks) : st.acks[i].req # row.req
  <2>1. \A i \in 1..Len(st.acks) : st.acks[i] \in Ack
    BY <1>2
  <2>2. \A i \in 1..Len(st.acks) : st.acks[i].req \in Requests
    BY <2>1 DEF Ack
  <2> QED
    BY <1>1, <2>2 DEF Remembered
<1>18. Remembered(t, R \cup {Key(row)})
  <2>1. \A i \in 1..Len(st.acks) : t.requests[st.acks[i].req] = st.requests[st.acks[i].req]
    BY <1>9, <1>10, <1>17
  <2> QED
    BY <1>1, <1>10, <1>13, <1>17, <2>1 DEF Remembered
<1>19. Injective(t)
  <2>0. /\ \A c, d \in Requests :
             /\ st.requests[c] # NoIdentity /\ st.requests[d] # NoIdentity
             /\ st.requests[c].run = st.requests[d].run
             => c = d
        /\ \A r \in st.runs : \E c \in Requests : /\ st.requests[c] # NoIdentity
                                                  /\ st.requests[c].run = r
        /\ \A c \in Requests : st.requests[c] # NoIdentity => st.requests[c].run \in st.runs
    BY <1>1 DEF Injective
  <2>1. \A c, d \in Requests :
             /\ req[c] # NoIdentity /\ req[d] # NoIdentity
             /\ req[c].run = req[d].run
             => c = d
    <3> SUFFICES ASSUME NEW c \in Requests, NEW d \in Requests,
                        req[c] # NoIdentity, req[d] # NoIdentity, req[c].run = req[d].run
                 PROVE  c = d
      OBVIOUS
    <3>1. CASE c # row.req /\ d # row.req
      BY <1>9, <2>0, <3>1
    <3>2. CASE c # row.req /\ d = row.req
      BY <1>3, <1>9, <2>0, <3>2
    <3>3. CASE c = row.req /\ d # row.req
      BY <1>3, <1>9, <2>0, <3>3
    <3> QED
      BY <3>1, <3>2, <3>3
  <2>2. ASSUME NEW r \in st.runs \cup {row.run}
        PROVE  \E c \in Requests : req[c] # NoIdentity /\ req[c].run = r
    <3>1. CASE r = row.run
      BY <1>3, <1>9, <3>1
    <3>2. CASE r \in st.runs
      <4>1. PICK c \in Requests : st.requests[c] # NoIdentity /\ st.requests[c].run = r
        BY <2>0, <3>2
      <4>2. c # row.req
        BY <4>1
      <4> QED
        BY <1>9, <4>1, <4>2
    <3> QED
      BY <3>1, <3>2
  <2>3. ASSUME NEW c \in Requests, req[c] # NoIdentity
        PROVE  req[c].run \in st.runs \cup {row.run}
    BY <1>3, <1>9, <2>0, <2>3
  <2> QED
    BY <1>10, <2>1, <2>2, <2>3 DEF Injective
<1>20. Covered(t, R \cup {Key(row)})
  <2> SUFFICES ASSUME NEW c \in Requests, req[c] # NoIdentity
               PROVE  \/ \E x \in R \cup {Key(row)} : x.req = c
                      \/ \E i \in 1..Len(st.acks) : st.acks[i].req = c
    BY <1>10 DEF Covered
  <2>1. CASE c = row.req
    BY <1>13, <2>1
  <2>2. CASE c # row.req
    BY <1>1, <1>9, <2>2 DEF Covered
  <2> QED
    BY <2>1, <2>2
<1>21. Sound(t, << >>)
  BY <1>1, <1>7, <1>10, <1>12, <1>14, <1>16, <1>18, <1>19, <1>20, ShortIs
     DEF Sound, Tables
<1> QED
  BY <1>10, <1>21 DEF t

-----------------------------------------------------------------------------
(* The operations.                                                         *)

\* A step of one session that leaves it sound.
LEMMA SessionStep ==
  ASSUME IInv, NEW s \in Sessions, NEW t, Sound(t, << >>), Len(t.acks) <= AckLimit,
         q' = [q EXCEPT ![s] = t], budget' \in [count : Nat, bytes : Nat]
  PROVE  IInv'
<1>1. t \in QueueState
  BY DEF Sound
<1>2. q' \in [Sessions -> QueueState]
  BY <1>1 DEF IInv
<1>3. \A r \in Sessions : q'[r] = IF r = s THEN t ELSE q[r]
  BY DEF IInv
<1>4. \A r \in Sessions : Sound(q'[r], << >>) /\ Len(q'[r].acks) <= AckLimit
  BY <1>3 DEF IInv
<1> QED
  BY <1>2, <1>4 DEF IInv

\* A row is no absent row, and its size is a number.
LEMMA RowTyped ==
  ASSUME NEW row \in Row
  PROVE  /\ row # NoRow /\ row.bytes \in Nat /\ row.seq \in Nat /\ row.req \in Requests
         /\ row.run \in RunName
<1>1. /\ row.run \in RunName /\ row.bytes \in Sizes \cup {0} /\ row.seq \in Nat
      /\ row.req \in Requests
  BY DEF Row, RunName
<1>2. NoRow.run = NoRun /\ NoRun \notin RunName /\ Sizes \cup {0} \subseteq Nat
  BY ConstantsAssumption DEF NoRow, RunName
<1> QED
  BY <1>1, <1>2

\* Giving quota back.
LEMMA BudgetTyped ==
  ASSUME NEW b \in [count : Nat, bytes : Nat], NEW rows \in Seq(Row)
  PROVE  Released(b, rows) \in [count : Nat, bytes : Nat]
<1>1. \A m, n \in Nat : Minus(m, n) \in Nat
  BY DEF Minus
<1>2. SumBytes(rows) \in Nat /\ Len(rows) \in Nat /\ b.count \in Nat /\ b.bytes \in Nat
  BY SumIs
<1>3. Minus(b.count, Len(rows)) \in Nat /\ Minus(b.bytes, SumBytes(rows)) \in Nat
  BY <1>1, <1>2
<1> QED
  BY <1>3 DEF Released

\* What IInv says of one session.
LEMMA SessionIs ==
  ASSUME IInv, NEW s \in Sessions
  PROVE  /\ Sound(q[s], << >>) /\ Len(q[s].acks) <= AckLimit
         /\ q[s] \in QueueState /\ q[s].next \in 1..MaxSequence
         /\ q[s].queued \in Seq(Row) /\ q[s].held \in Seq(Row) /\ q[s].bytes \in Nat
         /\ q[s].active \in Row \cup {NoRow}
         /\ Ordered(q[s].queued) /\ Ordered(q[s].held)
         /\ Keys(q[s].queued) \cap Keys(q[s].held) = {}
         /\ (Keys(q[s].queued) \cup Keys(q[s].held)) \cap ActiveKeys(q[s]) = {}
         /\ AllKeys(q[s], << >>)
              = Keys(q[s].queued) \cup Keys(q[s].held) \cup ActiveKeys(q[s])
         /\ \A x \in Keys(q[s].queued), y \in Keys(q[s].held) : x.seq # y.seq
<1> DEFINE st == q[s]
<1>1. Sound(st, << >>) /\ Len(st.acks) <= AckLimit
  BY DEF IInv
<1> HIDE DEF st
<1>2. /\ st \in QueueState /\ Ordered(st.queued) /\ Ordered(st.held)
      /\ Placed(st, << >>) /\ Identified(st, AllKeys(st, << >>))
  BY <1>1 DEF Sound, Tables
<1>3. /\ st.next \in 1..MaxSequence
      /\ st.queued \in Seq(Row) /\ st.held \in Seq(Row) /\ st.bytes \in Nat
      /\ st.active \in Row \cup {NoRow}
  BY <1>2 DEF QueueState
<1>4. Keys(<< >>) = {}
  BY ShortIs
<1>5. /\ Keys(st.queued) \cap Keys(st.held) = {}
      /\ (Keys(st.queued) \cup Keys(st.held)) \cap ActiveKeys(st) = {}
  BY <1>2 DEF Placed
<1>6. AllKeys(st, << >>) = Keys(st.queued) \cup Keys(st.held) \cup ActiveKeys(st)
  BY <1>4 DEF AllKeys
<1>7. \A x \in Keys(st.queued), y \in Keys(st.held) : x.seq # y.seq
  BY <1>2, <1>5, <1>6 DEF Identified
<1> QED
  BY <1>1, <1>2, <1>3, <1>5, <1>6, <1>7 DEF st

\* A new row is a row.
LEMMA NewRowIs ==
  ASSUME IInv, NEW s \in Sessions, NEW req \in Requests,
         NEW want \in RunIds \cup {NoRun}, NEW policy \in AllPolicies, NEW bytes \in Sizes
  PROVE  /\ NewRow(s, req, want, policy, bytes) \in Row
         /\ NewRow(s, req, want, policy, bytes).seq = q[s].next
         /\ NewRow(s, req, want, policy, bytes).req = req
         /\ NewRow(s, req, want, policy, bytes).bytes = bytes
<1>1. q[s].next \in Nat
  BY SessionIs, ConstantsAssumption
<1>2. (IF want = NoRun THEN <<s, q[s].next>> ELSE want) \in RunIds \cup (Sessions \X Nat)
  BY <1>1
<1>3. RequestDigest(want, policy, bytes) \in (RunIds \cup {NoRun}) \X AllPolicies \X Sizes
  BY DEF RequestDigest
<1> QED
  BY <1>1, <1>2, <1>3 DEF NewRow, Row

\* accept.
LEMMA AcceptKeeps ==
  ASSUME IInv, NEW s \in Sessions, NEW req \in Requests, NEW want \in RunIds \cup {NoRun},
         NEW policy \in Policies, NEW bytes \in Sizes, Accept(s, req, want, policy, bytes)
  PROVE  IInv'
<1> DEFINE st == q[s]
           row == NewRow(s, req, want, policy, bytes)
           b == st.bytes + bytes
           t == [Enqueued(st, row) EXCEPT !.bytes = b]
<1>1. policy \in AllPolicies /\ bytes \in Nat
  BY ConstantsAssumption
<1>2. row \in Row /\ row.seq = st.next /\ row.req = req
  BY <1>1, NewRowIs
<1>3. /\ Sound(st, << >>) /\ Len(st.acks) <= AckLimit /\ st \in QueueState
      /\ st.bytes \in Nat /\ b \in Nat
  BY <1>1, SessionIs
<1>4. /\ st.requests[row.req] = NoIdentity /\ row.run \notin st.runs
      /\ st.next + 1 <= MaxSequence
  BY DEF Accept, Admissible
<1>5. /\ q' = [q EXCEPT ![s] = [Enqueued(q[s], row) EXCEPT !.bytes = @ + bytes]]
      /\ budget' = [count |-> budget.count + 1, bytes |-> budget.bytes + bytes]
  BY DEF Accept
<1> HIDE DEF row
<1>6. Enqueued(st, row).bytes = st.bytes
  BY <1>3 DEF Enqueued, QueueState
<1>7. q' = [q EXCEPT ![s] = t]
  <2> DEFINE X == Enqueued(q[s], row)
  <2>1. q' = [q EXCEPT ![s] = [X EXCEPT !.bytes = X.bytes + bytes]]
    BY <1>5, Zenon
  <2>2. X.bytes + bytes = b
    BY <1>6
  <2> QED
    BY <2>1, <2>2
<1>8. budget' \in [count : Nat, bytes : Nat]
  BY <1>1, <1>5 DEF IInv
<1> HIDE DEF st, b
<1>9. Sound(t, << >>) /\ t.acks = st.acks
  BY <1>2, <1>3, <1>4, EnqueuedKeeps
<1> HIDE DEF t
<1> QED
  BY <1>3, <1>7, <1>8, <1>9, SessionStep

\* supersede.
LEMMA SupersedeKeeps ==
  ASSUME IInv, NEW s \in Sessions, NEW req \in Requests, NEW want \in RunIds \cup {NoRun},
         NEW bytes \in Sizes, Supersede(s, req, want, bytes)
  PROVE  IInv'
<1> DEFINE st == q[s]
           rows == st.queued
           row == NewRow(s, req, want, "supersede_session", bytes)
           u == [st EXCEPT !.queued = << >>]
           cleared == RememberTerminal(u, rows, "superseded")
           t == [Enqueued(cleared, row) EXCEPT !.bytes = bytes]
<1>1. bytes \in Nat /\ "supersede_session" \in AllPolicies /\ "superseded" \in Reasons
  BY ConstantsAssumption DEF AllPolicies, Reasons
<1>2. row \in Row /\ row.seq = st.next /\ row.req = req
  BY <1>1, NewRowIs
<1>3. /\ Sound(st, << >>) /\ st \in QueueState /\ rows \in Seq(Row)
      /\ st.held \in Seq(Row) /\ Ordered(rows) /\ Ordered(st.held)
      /\ Keys(rows) \cap Keys(st.held) = {}
      /\ (Keys(rows) \cup Keys(st.held)) \cap ActiveKeys(st) = {}
      /\ AllKeys(st, << >>) = Keys(rows) \cup Keys(st.held) \cup ActiveKeys(st)
      /\ st.bytes \in Nat
  BY SessionIs
<1>4. /\ st.requests[row.req] = NoIdentity /\ row.run \notin st.runs
      /\ st.next + 1 <= MaxSequence
  BY DEF Supersede, Admissible
<1>5. /\ q' = [q EXCEPT ![s] = t]
      /\ ReplaceQueued(Len(rows), st.bytes, bytes)
  BY DEF Supersede
<1> HIDE DEF row
<1>6. budget' \in [count : Nat, bytes : Nat]
  <2>1. \A m, n \in Nat : Minus(m, n) \in Nat
    BY DEF Minus
  <2>2. budget.count \in Nat /\ budget.bytes \in Nat /\ Len(rows) \in Nat
    BY <1>3 DEF IInv
  <2>3. Minus(budget.count, Len(rows)) \in Nat /\ Minus(budget.bytes, st.bytes) \in Nat
    BY <1>3, <2>1, <2>2
  <2>4. budget' = [count |-> Minus(budget.count, Len(rows)) + 1,
                   bytes |-> Minus(budget.bytes, st.bytes) + bytes]
    BY <1>5 DEF ReplaceQueued
  <2> QED
    BY <1>1, <2>3, <2>4
<1>7. /\ u \in QueueState /\ u.queued = << >> /\ u.held = st.held /\ u.active = st.active
      /\ u.next = st.next /\ u.requests = st.requests /\ u.runs = st.runs /\ u.acks = st.acks
  BY <1>3, ShortIs DEF QueueState
<1> HIDE DEF st, u, rows
<1>8. ActiveKeys(u) = ActiveKeys(st) /\ Keys(u.queued) = {} /\ Keys(u.held) = Keys(st.held)
  BY <1>7, ShortIs DEF ActiveKeys
<1>9. Placed(u, rows) /\ AllKeys(u, rows) = AllKeys(st, << >>)
  BY <1>3, <1>8 DEF Placed, AllKeys
<1>10. Ordered(u.queued) /\ Ordered(u.held)
  BY <1>3, <1>7, ShortIs
<1>11. Sound(u, rows)
  BY <1>3, <1>7, <1>9, <1>10, Rearranged
<1>12. /\ Sound(cleared, << >>) /\ Len(cleared.acks) <= AckLimit
       /\ cleared.next = u.next
       /\ \A c \in Requests : u.requests[c] = NoIdentity => cleared.requests[c] = NoIdentity
       /\ cleared.runs \in SUBSET u.runs
  BY <1>1, <1>11, Retires
<1> HIDE DEF cleared
<1>13. /\ cleared.requests[row.req] = NoIdentity /\ row.run \notin cleared.runs
       /\ row.seq = cleared.next /\ cleared.next + 1 <= MaxSequence
  BY <1>2, <1>4, <1>7, <1>12
<1>14. Sound(t, << >>) /\ t.acks = cleared.acks
  BY <1>1, <1>2, <1>12, <1>13, EnqueuedKeeps
<1> HIDE DEF t
<1> QED
  BY <1>5, <1>6, <1>12, <1>14, SessionStep

\* start_next.
LEMMA StartNextKeeps ==
  ASSUME IInv, NEW s \in Sessions, StartNext(s)
  PROVE  IInv'
<1> DEFINE st == q[s]
           rows == st.queued
           row == Head(rows)
           t == [st EXCEPT !.active = row, !.queued = Tail(rows),
                           !.bytes = Minus(st.bytes, row.bytes)]
           I == {1}
           J == 1..Len(rows) \ I
<1>1. /\ Sound(st, << >>) /\ Len(st.acks) <= AckLimit /\ st \in QueueState
      /\ rows \in Seq(Row) /\ st.held \in Seq(Row) /\ Ordered(rows) /\ Ordered(st.held)
      /\ Keys(rows) \cap Keys(st.held) = {}
      /\ (Keys(rows) \cup Keys(st.held)) \cap ActiveKeys(st) = {}
      /\ AllKeys(st, << >>) = Keys(rows) \cup Keys(st.held) \cup ActiveKeys(st)
      /\ st.bytes \in Nat
  BY SessionIs
<1>2. st.active = NoRow /\ rows # << >> /\ budget' = Released(budget, <<row>>)
  BY DEF StartNext
<1>3. q' = [q EXCEPT ![s] = t]
  BY DEF StartNext, IInv
<1>4. row \in Row /\ row = rows[1] /\ 1 \in 1..Len(rows)
  BY <1>1, <1>2
<1>5. row # NoRow /\ row.bytes \in Nat
  BY <1>4, RowTyped
<1>6. /\ Tail(rows) \in Seq(Row) /\ Ordered(Tail(rows))
      /\ Keys(Tail(rows)) = KeysAt(rows, J)
  BY <1>1, <1>2, TailIs
<1>7. /\ KeysAt(rows, I) \cap KeysAt(rows, J) = {}
      /\ KeysAt(rows, I) \cup KeysAt(rows, J) = Keys(rows)
  <2>1. I \in SUBSET (1..Len(rows))
    BY <1>4
  <2> HIDE DEF I
  <2> QED
    BY <1>1, <2>1, PartsIs
<1>8. KeysAt(rows, I) = {Key(row)}
  BY <1>4 DEF KeysAt
<1>9. budget' \in [count : Nat, bytes : Nat]
  <2>1. <<row>> \in Seq(Row) /\ budget \in [count : Nat, bytes : Nat]
    BY <1>4 DEF IInv
  <2> QED
    BY <1>2, <2>1, BudgetTyped
<1>10. /\ t \in QueueState /\ t.queued = Tail(rows) /\ t.held = st.held /\ t.active = row
       /\ t.next = st.next /\ t.requests = st.requests /\ t.runs = st.runs /\ t.acks = st.acks
  <2>1. Minus(st.bytes, row.bytes) \in Nat
    BY <1>1, <1>5 DEF Minus
  <2> HIDE DEF row, rows, st
  <2> QED
    BY <1>1, <1>4, <1>6, <2>1 DEF QueueState
<1> HIDE DEF t, I, J, st, row, rows
<1>11. /\ ActiveKeys(t) = KeysAt(rows, I) /\ ActiveKeys(st) = {}
       /\ Keys(t.queued) = KeysAt(rows, J) /\ Keys(t.held) = Keys(st.held)
       /\ Keys(<< >>) = {}
  BY <1>2, <1>5, <1>6, <1>8, <1>10, ShortIs DEF ActiveKeys
<1>12. Placed(t, << >>) /\ AllKeys(t, << >>) = AllKeys(st, << >>)
  BY <1>1, <1>7, <1>11 DEF Placed, AllKeys
<1>13. Sound(t, << >>)
  BY <1>1, <1>6, <1>10, <1>12, ShortIs, Rearranged
<1> QED
  BY <1>1, <1>3, <1>9, <1>10, <1>13, SessionStep

\* release_active_payload.
LEMMA ReleasePayloadKeeps ==
  ASSUME IInv, NEW s \in Sessions, ReleaseActivePayload(s)
  PROVE  IInv'
<1> DEFINE st == q[s]
           row == [st.active EXCEPT !.bytes = 0]
           t == [st EXCEPT !.active = row]
<1>1. /\ Sound(st, << >>) /\ Len(st.acks) <= AckLimit /\ st \in QueueState
      /\ Ordered(st.queued) /\ Ordered(st.held)
      /\ Keys(st.queued) \cap Keys(st.held) = {}
      /\ (Keys(st.queued) \cup Keys(st.held)) \cap ActiveKeys(st) = {}
      /\ AllKeys(st, << >>) = Keys(st.queued) \cup Keys(st.held) \cup ActiveKeys(st)
      /\ st.active \in Row
  <2>1. st.active \in Row
    BY SessionIs DEF ReleaseActivePayload
  <2> QED
    BY <2>1, SessionIs
<1>2. q' = [q EXCEPT ![s] = t] /\ budget' = budget
  BY DEF ReleaseActivePayload, IInv
<1>3. row \in Row /\ Key(row) = Key(st.active)
  BY <1>1 DEF Row, Key
<1>4. row # NoRow /\ st.active # NoRow
  BY <1>1, <1>3, RowTyped
<1> HIDE DEF row
<1>5. /\ t \in QueueState /\ t.queued = st.queued /\ t.held = st.held /\ t.active = row
      /\ t.next = st.next /\ t.requests = st.requests /\ t.runs = st.runs /\ t.acks = st.acks
  BY <1>1, <1>3 DEF QueueState
<1> HIDE DEF t, st
<1>6. ActiveKeys(t) = ActiveKeys(st) /\ Keys(<< >>) = {}
  BY <1>3, <1>4, <1>5, ShortIs DEF ActiveKeys
<1>7. Placed(t, << >>) /\ AllKeys(t, << >>) = AllKeys(st, << >>)
  BY <1>1, <1>5, <1>6 DEF Placed, AllKeys
<1>8. Sound(t, << >>)
  BY <1>1, <1>5, <1>7, ShortIs, Rearranged
<1>9. budget' \in [count : Nat, bytes : Nat]
  BY <1>2 DEF IInv
<1> QED
  BY <1>1, <1>2, <1>5, <1>8, <1>9, SessionStep

\* finish_active.
LEMMA FinishActiveKeeps ==
  ASSUME IInv, NEW s \in Sessions, FinishActive(s)
  PROVE  IInv'
<1> DEFINE st == q[s]
           hand == <<st.active>>
           u == [st EXCEPT !.active = NoRow]
           t == RememberTerminal(u, hand, "settled")
<1>1. /\ Sound(st, << >>) /\ st \in QueueState
      /\ Ordered(st.queued) /\ Ordered(st.held)
      /\ Keys(st.queued) \cap Keys(st.held) = {}
      /\ (Keys(st.queued) \cup Keys(st.held)) \cap ActiveKeys(st) = {}
      /\ AllKeys(st, << >>) = Keys(st.queued) \cup Keys(st.held) \cup ActiveKeys(st)
      /\ st.active \in Row
  <2>1. st.active \in Row
    BY SessionIs DEF FinishActive
  <2> QED
    BY <2>1, SessionIs
<1>2. q' = [q EXCEPT ![s] = t] /\ budget' = budget /\ st.active # NoRow
  BY DEF FinishActive, IInv
<1>3. /\ u \in QueueState /\ u.queued = st.queued /\ u.held = st.held /\ u.active = NoRow
      /\ u.next = st.next /\ u.requests = st.requests /\ u.runs = st.runs /\ u.acks = st.acks
  BY <1>1 DEF QueueState
<1>4. hand \in Seq(Row) /\ Ordered(hand) /\ Keys(hand) = {Key(st.active)}
  BY <1>1, ShortIs
<1> HIDE DEF u, hand, st
<1>5. ActiveKeys(u) = {} /\ ActiveKeys(st) = Keys(hand)
  BY <1>2, <1>3, <1>4 DEF ActiveKeys
<1>6. Placed(u, hand) /\ AllKeys(u, hand) = AllKeys(st, << >>)
  BY <1>1, <1>3, <1>5 DEF Placed, AllKeys
<1>7. Sound(u, hand)
  BY <1>1, <1>3, <1>4, <1>6, Rearranged
<1>8. Sound(t, << >>) /\ Len(t.acks) <= AckLimit
  <2>1. "settled" \in Reasons
    BY DEF Reasons
  <2> QED
    BY <1>7, <2>1, Retires
<1>9. budget' \in [count : Nat, bytes : Nat]
  BY <1>2 DEF IInv
<1> HIDE DEF t
<1> QED
  BY <1>2, <1>8, <1>9, SessionStep

\* cancel_queued, of a row at a position of one of the two sequences.
LEMMA CancelQueuedKeeps ==
  ASSUME IInv, NEW s \in Sessions, NEW run, CancelQueued(s, run)
  PROVE  IInv'
<1> DEFINE st == q[s]
           held == PositionsOf(st.held, run)
           queued == PositionsOf(st.queued, run)
           row == IF held # {} THEN st.held[Min(held)] ELSE st.queued[Min(queued)]
           rest == IF held # {} THEN [st EXCEPT !.held = RemoveAt(st.held, Min(held))]
                   ELSE [st EXCEPT !.queued = RemoveAt(st.queued, Min(queued))]
           u == [rest EXCEPT !.bytes = Minus(rest.bytes, row.bytes)]
           hand == <<row>>
           t == RememberTerminal(u, hand, "cancelled")
<1>1. /\ Sound(st, << >>) /\ st \in QueueState
      /\ st.queued \in Seq(Row) /\ st.held \in Seq(Row) /\ st.bytes \in Nat
      /\ Ordered(st.queued) /\ Ordered(st.held)
      /\ Keys(st.queued) \cap Keys(st.held) = {}
      /\ (Keys(st.queued) \cup Keys(st.held)) \cap ActiveKeys(st) = {}
      /\ AllKeys(st, << >>) = Keys(st.queued) \cup Keys(st.held) \cup ActiveKeys(st)
  BY SessionIs
<1>2. held \cup queued # {} /\ q' = [q EXCEPT ![s] = t] /\ budget' = Released(budget, hand)
  BY DEF CancelQueued
<1>3. held \in SUBSET (1..Len(st.held)) /\ queued \in SUBSET (1..Len(st.queued))
  BY DEF PositionsOf
<1> HIDE DEF held, queued, st
<1>4. /\ row \in Row /\ u \in QueueState /\ u.active = st.active
      /\ u.next = st.next /\ u.requests = st.requests /\ u.runs = st.runs /\ u.acks = st.acks
      /\ Ordered(u.queued) /\ Ordered(u.held)
      /\ Keys(u.queued) \cup Keys(u.held) \cup {Key(row)} = Keys(st.queued) \cup Keys(st.held)
      /\ Keys(u.queued) \cap Keys(u.held) = {}
      /\ Key(row) \notin Keys(u.queued) \cup Keys(u.held)
  <2>1. CASE held # {}
    <3> DEFINE i == Min(held)
               p == RemoveAt(st.held, i)
               I == {i}
               b == Minus(st.bytes, row.bytes)
    <3>1. i \in 1..Len(st.held)
      <4>1. held \in SUBSET Nat
        BY <1>3
      <4>2. i \in held
        BY <2>1, <4>1, FirstOne
      <4> QED
        BY <1>3, <4>2
    <3>2. row = st.held[i] /\ rest = [st EXCEPT !.held = p]
      BY <2>1
    <3> HIDE DEF i
    <3>3. row \in Row
      BY <1>1, <3>1, <3>2
    <3>4. p \in Seq(Row) /\ Ordered(p) /\ Keys(p) = KeysAt(st.held, 1..Len(st.held) \ I)
      BY <1>1, <3>1, RemoveAtIs
    <3>5. /\ KeysAt(st.held, I) \cap KeysAt(st.held, 1..Len(st.held) \ I) = {}
          /\ KeysAt(st.held, I) \cup KeysAt(st.held, 1..Len(st.held) \ I) = Keys(st.held)
      <4>1. I \in SUBSET (1..Len(st.held))
        BY <3>1
      <4> HIDE DEF I
      <4> QED
        BY <1>1, <4>1, PartsIs
    <3>6. KeysAt(st.held, I) = {Key(row)}
      BY <3>2 DEF KeysAt
    <3>7. b \in Nat
      BY <1>1, <3>3, RowTyped DEF Minus
    <3> HIDE DEF row, rest, p, b
    <3>8. /\ rest.bytes = st.bytes /\ u = [rest EXCEPT !.bytes = b]
      BY <1>1, <3>2 DEF QueueState, b
    <3> HIDE DEF u
    <3>9. /\ u \in QueueState /\ u.active = st.active /\ u.queued = st.queued /\ u.held = p
          /\ u.next = st.next /\ u.requests = st.requests /\ u.runs = st.runs
          /\ u.acks = st.acks
      BY <1>1, <3>2, <3>4, <3>7, <3>8 DEF QueueState
    <3>10. Keys(p) \cup {Key(row)} = Keys(st.held) /\ Key(row) \notin Keys(p)
      BY <3>4, <3>5, <3>6
    <3> QED
      BY <1>1, <3>3, <3>4, <3>9, <3>10
  <2>2. CASE held = {}
    <3> DEFINE i == Min(queued)
               p == RemoveAt(st.queued, i)
               I == {i}
               b == Minus(st.bytes, row.bytes)
    <3>1. i \in 1..Len(st.queued)
      <4>1. queued \in SUBSET Nat /\ queued # {}
        BY <1>2, <1>3, <2>2
      <4>2. i \in queued
        BY <4>1, FirstOne
      <4> QED
        BY <1>3, <4>2
    <3>2. row = st.queued[i] /\ rest = [st EXCEPT !.queued = p]
      BY <2>2
    <3> HIDE DEF i
    <3>3. row \in Row
      BY <1>1, <3>1, <3>2
    <3>4. p \in Seq(Row) /\ Ordered(p) /\ Keys(p) = KeysAt(st.queued, 1..Len(st.queued) \ I)
      BY <1>1, <3>1, RemoveAtIs
    <3>5. /\ KeysAt(st.queued, I) \cap KeysAt(st.queued, 1..Len(st.queued) \ I) = {}
          /\ KeysAt(st.queued, I) \cup KeysAt(st.queued, 1..Len(st.queued) \ I)
               = Keys(st.queued)
      <4>1. I \in SUBSET (1..Len(st.queued))
        BY <3>1
      <4> HIDE DEF I
      <4> QED
        BY <1>1, <4>1, PartsIs
    <3>6. KeysAt(st.queued, I) = {Key(row)}
      BY <3>2 DEF KeysAt
    <3>7. b \in Nat
      BY <1>1, <3>3, RowTyped DEF Minus
    <3> HIDE DEF row, rest, p, b
    <3>8. /\ rest.bytes = st.bytes /\ u = [rest EXCEPT !.bytes = b]
      BY <1>1, <3>2 DEF QueueState, b
    <3> HIDE DEF u
    <3>9. /\ u \in QueueState /\ u.active = st.active /\ u.queued = p /\ u.held = st.held
          /\ u.next = st.next /\ u.requests = st.requests /\ u.runs = st.runs
          /\ u.acks = st.acks
      BY <1>1, <3>2, <3>4, <3>7, <3>8 DEF QueueState
    <3>10. Keys(p) \cup {Key(row)} = Keys(st.queued) /\ Key(row) \notin Keys(p)
      BY <3>4, <3>5, <3>6
    <3> QED
      BY <1>1, <3>3, <3>4, <3>9, <3>10
  <2> QED
    BY <2>1, <2>2
<1> HIDE DEF row, rest, u
<1>5. hand \in Seq(Row) /\ Ordered(hand) /\ Keys(hand) = {Key(row)}
  BY <1>4, ShortIs
<1>6. ActiveKeys(u) = ActiveKeys(st)
  BY <1>4 DEF ActiveKeys
<1> HIDE DEF hand
<1>7. Placed(u, hand) /\ AllKeys(u, hand) = AllKeys(st, << >>)
  BY <1>1, <1>4, <1>5, <1>6 DEF Placed, AllKeys
<1>8. Sound(u, hand)
  BY <1>1, <1>4, <1>5, <1>7, Rearranged
<1>9. Sound(t, << >>) /\ Len(t.acks) <= AckLimit
  <2>1. "cancelled" \in Reasons
    BY DEF Reasons
  <2> QED
    BY <1>8, <2>1, Retires
<1>10. budget' \in [count : Nat, bytes : Nat]
  BY <1>2, <1>5, BudgetTyped DEF IInv
<1> HIDE DEF t
<1> QED
  BY <1>2, <1>9, <1>10, SessionStep

\* Sorting by sequence, of rows that have different numbers.
LEMMA SortedKeys ==
  ASSUME NEW a \in Seq(Row), NEW b \in Seq(Row), Ordered(a), Ordered(b),
         \A x \in Keys(a), y \in Keys(b) : x.seq # y.seq
  PROVE  /\ BySequence(a \o b) \in Seq(Row) /\ Ordered(BySequence(a \o b))
         /\ Keys(BySequence(a \o b)) = Keys(a) \cup Keys(b)
<1> DEFINE c == a \o b
           p == BySequence(c)
<1>1. /\ c \in Seq(Row) /\ Keys(c) = Keys(a) \cup Keys(b)
      /\ \A i, k \in 1..Len(c) : c[i].seq = c[k].seq => i = k
  BY JoinedIs
<1> HIDE DEF c
<1>2. p \in Seq(Row) /\ Ordered(p) /\ ToSet(p) = ToSet(c)
  BY <1>1, SortedIs
<1>3. ToSet(p) = {c[i] : i \in 1..Len(c)}
  BY <1>1, <1>2, RowAt
<1> HIDE DEF p
<1>4. Keys(p) = KeysAt(c, 1..Len(c))
  BY <1>2, <1>3, KeysFollow
<1> QED
  BY <1>1, <1>2, <1>4 DEF Keys, p, c

\* cancel_all_queued.
LEMMA CancelAllKeeps ==
  ASSUME IInv, NEW s \in Sessions, CancelAllQueued(s)
  PROVE  IInv'
<1> DEFINE st == q[s]
           hand == BySequence(st.queued \o st.held)
           u == [st EXCEPT !.queued = << >>, !.held = << >>, !.bytes = 0]
           t == RememberTerminal(u, hand, "cancelled")
<1>1. /\ Sound(st, << >>) /\ st \in QueueState
      /\ st.queued \in Seq(Row) /\ st.held \in Seq(Row)
      /\ Ordered(st.queued) /\ Ordered(st.held)
      /\ Keys(st.queued) \cap Keys(st.held) = {}
      /\ (Keys(st.queued) \cup Keys(st.held)) \cap ActiveKeys(st) = {}
      /\ AllKeys(st, << >>) = Keys(st.queued) \cup Keys(st.held) \cup ActiveKeys(st)
      /\ \A x \in Keys(st.queued), y \in Keys(st.held) : x.seq # y.seq
  BY SessionIs
<1>2. q' = [q EXCEPT ![s] = t] /\ budget' = Released(budget, hand)
  BY DEF CancelAllQueued
<1>3. /\ hand \in Seq(Row) /\ Ordered(hand)
      /\ Keys(hand) = Keys(st.queued) \cup Keys(st.held)
  BY <1>1, SortedKeys
<1>4. /\ u \in QueueState /\ u.queued = << >> /\ u.held = << >> /\ u.active = st.active
      /\ u.next = st.next /\ u.requests = st.requests /\ u.runs = st.runs /\ u.acks = st.acks
  BY <1>1, ShortIs DEF QueueState
<1> HIDE DEF hand, u, st
<1>5. ActiveKeys(u) = ActiveKeys(st) /\ Keys(u.queued) = {} /\ Keys(u.held) = {}
  BY <1>4, ShortIs DEF ActiveKeys
<1>6. Placed(u, hand) /\ AllKeys(u, hand) = AllKeys(st, << >>)
  BY <1>1, <1>3, <1>5 DEF Placed, AllKeys
<1>7. Ordered(u.queued) /\ Ordered(u.held)
  BY <1>4, ShortIs
<1>8. Sound(u, hand)
  BY <1>1, <1>3, <1>4, <1>6, <1>7, Rearranged
<1>9. Sound(t, << >>) /\ Len(t.acks) <= AckLimit
  <2>1. "cancelled" \in Reasons
    BY DEF Reasons
  <2> QED
    BY <1>8, <2>1, Retires
<1>10. budget' \in [count : Nat, bytes : Nat]
  BY <1>2, <1>3, BudgetTyped DEF IInv
<1> HIDE DEF t
<1> QED
  BY <1>2, <1>9, <1>10, SessionStep

\* How many rows fold.
LEMMA FoldCountIs ==
  ASSUME NEW rows \in Seq(Row), rows # << >>
  PROVE  FoldCount(rows) \in 0..(Len(rows) - 1)
<1> DEFINE n == Len(rows) - 1
           S == {k \in 0..n : \A i \in 2..(k + 1) :
                   /\ Coalesces(rows[i])
                   /\ SumBytes(SubSeq(rows, 1, i)) <= MaxRequestBytes}
<1>1. n \in Nat
  OBVIOUS
<1>2. 0 \in S
  BY <1>1
<1>3. S \in SUBSET (0..n) /\ S # {}
  BY <1>2
<1>4. FoldCount(rows) = Max(S)
  BY DEF FoldCount
<1> HIDE DEF S, n
<1>5. Max(S) \in S
  BY <1>1, <1>3, LastOne
<1> QED
  BY <1>3, <1>4, <1>5 DEF n

\* drain_coalescing_after_first.
LEMMA DrainKeeps ==
  ASSUME IInv, NEW s \in Sessions, DrainCoalescingAfterFirst(s)
  PROVE  IInv'
<1> DEFINE st == q[s]
           rows == st.queued
           n == FoldCount(rows)
           hand == SubSeq(rows, 2, n + 1)
           kept == <<rows[1]>> \o SubSeq(rows, n + 2, Len(rows))
           b == Minus(st.bytes, SumBytes(hand))
           u == [st EXCEPT !.queued = kept, !.bytes = b]
           t == RememberTerminal(u, hand, "merged")
           I == 2..(n + 1)
           J == 1..Len(rows) \ I
<1>1. /\ Sound(st, << >>) /\ st \in QueueState
      /\ rows \in Seq(Row) /\ st.held \in Seq(Row) /\ st.bytes \in Nat
      /\ Ordered(rows) /\ Ordered(st.held)
      /\ Keys(rows) \cap Keys(st.held) = {}
      /\ (Keys(rows) \cup Keys(st.held)) \cap ActiveKeys(st) = {}
      /\ AllKeys(st, << >>) = Keys(rows) \cup Keys(st.held) \cup ActiveKeys(st)
  BY SessionIs
<1>2. /\ rows # << >> /\ n > 0
      /\ q' = [q EXCEPT ![s] = t] /\ budget' = Released(budget, hand)
  BY DEF DrainCoalescingAfterFirst
<1>3. n \in 1..(Len(rows) - 1) /\ Len(rows) \in Nat
  <2>1. n \in 0..(Len(rows) - 1)
    BY <1>1, <1>2, FoldCountIs
  <2> QED
    BY <1>1, <1>2, <2>1
<1> HIDE DEF n, rows
<1>4. hand \in Seq(Row) /\ Ordered(hand) /\ Keys(hand) = KeysAt(rows, I)
  <2> DEFINE e == n + 1
  <2>1. 2 \in 1..Len(rows) /\ e \in 2..Len(rows)
    BY <1>3
  <2> HIDE DEF e
  <2>2. /\ SubSeq(rows, 2, e) \in Seq(Row) /\ Ordered(SubSeq(rows, 2, e))
        /\ Keys(SubSeq(rows, 2, e)) = KeysAt(rows, 2..e)
    BY <1>1, <2>1, SubSeqIs
  <2> QED
    BY <2>2 DEF e
<1>5. kept \in Seq(Row) /\ Ordered(kept) /\ Keys(kept) = KeysAt(rows, J)
  BY <1>1, <1>3, KeptIs
<1>6. /\ KeysAt(rows, I) \cap KeysAt(rows, J) = {}
      /\ KeysAt(rows, I) \cup KeysAt(rows, J) = Keys(rows)
  <2>1. I \in SUBSET (1..Len(rows))
    BY <1>3
  <2> HIDE DEF I
  <2> QED
    BY <1>1, <2>1, PartsIs
<1> HIDE DEF hand, kept, I, J
<1>7. b \in Nat
  BY <1>1, <1>4, SumIs DEF Minus
<1> HIDE DEF b
<1>8. /\ u \in QueueState /\ u.queued = kept /\ u.held = st.held /\ u.active = st.active
      /\ u.next = st.next /\ u.requests = st.requests /\ u.runs = st.runs /\ u.acks = st.acks
  BY <1>1, <1>5, <1>7 DEF QueueState
<1> HIDE DEF u, st
<1>9. ActiveKeys(u) = ActiveKeys(st)
  BY <1>8 DEF ActiveKeys
<1>10. Placed(u, hand) /\ AllKeys(u, hand) = AllKeys(st, << >>)
  BY <1>1, <1>4, <1>5, <1>6, <1>8, <1>9 DEF Placed, AllKeys
<1>11. Sound(u, hand)
  BY <1>1, <1>4, <1>5, <1>8, <1>10, Rearranged
<1>12. Sound(t, << >>) /\ Len(t.acks) <= AckLimit
  <2>1. "merged" \in Reasons
    BY DEF Reasons
  <2> QED
    BY <1>11, <2>1, Retires
<1>13. budget' \in [count : Nat, bytes : Nat]
  BY <1>2, <1>4, BudgetTyped DEF IInv
<1> HIDE DEF t
<1> QED
  BY <1>2, <1>12, <1>13, SessionStep

\* A queued row crosses the staleness line.
LEMMA GrowOldKeeps ==
  ASSUME IInv, NEW s \in Sessions, NEW i \in 1..Len(q[s].queued), GrowOld(s, i)
  PROVE  IInv'
<1> DEFINE st == q[s]
           rows == st.queued
           row == [rows[i] EXCEPT !.at = "old"]
           p == [rows EXCEPT ![i] = row]
           t == [st EXCEPT !.queued = p]
<1>1. /\ Sound(st, << >>) /\ Len(st.acks) <= AckLimit /\ st \in QueueState
      /\ rows \in Seq(Row) /\ st.held \in Seq(Row) /\ Ordered(rows) /\ Ordered(st.held)
      /\ Keys(rows) \cap Keys(st.held) = {}
      /\ (Keys(rows) \cup Keys(st.held)) \cap ActiveKeys(st) = {}
      /\ AllKeys(st, << >>) = Keys(rows) \cup Keys(st.held) \cup ActiveKeys(st)
  BY SessionIs
<1>2. q' = [q EXCEPT ![s] = t] /\ budget' = budget
  BY DEF GrowOld, IInv
<1>3. rows[i] \in Row
  BY <1>1
<1>4. row \in Row /\ Key(row) = Key(rows[i]) /\ row.seq = rows[i].seq
  BY <1>3 DEF Row, Key
<1> HIDE DEF row
<1>5. /\ p \in Seq(Row) /\ Len(p) = Len(rows)
      /\ \A k \in 1..Len(rows) : p[k] = IF k = i THEN row ELSE rows[k]
  BY <1>1, <1>4
<1> HIDE DEF p
<1>6. \A k \in 1..Len(rows) : p[k].seq = rows[k].seq /\ Key(p[k]) = Key(rows[k])
  BY <1>4, <1>5
<1>7. Ordered(p)
  BY <1>1, <1>5, <1>6 DEF Ordered
<1>8. Keys(p) = Keys(rows)
  BY <1>5, <1>6 DEF Keys, KeysAt
<1>9. /\ t \in QueueState /\ t.queued = p /\ t.held = st.held /\ t.active = st.active
      /\ t.next = st.next /\ t.requests = st.requests /\ t.runs = st.runs /\ t.acks = st.acks
  BY <1>1, <1>5 DEF QueueState
<1> HIDE DEF t, st, rows
<1>10. ActiveKeys(t) = ActiveKeys(st) /\ Keys(<< >>) = {}
  BY <1>9, ShortIs DEF ActiveKeys
<1>11. Placed(t, << >>) /\ AllKeys(t, << >>) = AllKeys(st, << >>)
  BY <1>1, <1>8, <1>9, <1>10 DEF Placed, AllKeys
<1>12. Sound(t, << >>)
  BY <1>1, <1>7, <1>9, <1>11, ShortIs, Rearranged
<1>13. budget' \in [count : Nat, bytes : Nat]
  BY <1>2 DEF IInv
<1> QED
  BY <1>1, <1>2, <1>9, <1>12, <1>13, SessionStep

\* The rows at some positions, in their order.
LEMMA PickedKeys ==
  ASSUME NEW rows \in Seq(Row), Ordered(rows), NEW I \in SUBSET (1..Len(rows))
  PROVE  /\ Picked(rows, I) \in Seq(Row) /\ Ordered(Picked(rows, I))
         /\ Keys(Picked(rows, I)) = KeysAt(rows, I)
<1> DEFINE p == Picked(rows, I)
<1>1. p \in Seq(Row) /\ Ordered(p) /\ ToSet(p) = {rows[i] : i \in I}
  BY PickedIs
<1> HIDE DEF p
<1>2. Keys(p) = KeysAt(rows, I)
  BY <1>1, KeysFollow
<1> QED
  BY <1>1, <1>2 DEF p

\* park_stale.
LEMMA ParkStaleKeeps ==
  ASSUME IInv, NEW s \in Sessions, NEW boundary, ParkStale(s, boundary)
  PROVE  IInv'
<1> DEFINE st == q[s]
           rows == st.queued
           I == ParkedAt(rows, boundary)
           J == 1..Len(rows) \ I
           kept == Picked(rows, J)
           parked == Picked(rows, I)
           held == BySequence(st.held \o parked)
           t == [st EXCEPT !.queued = kept, !.held = held]
<1>1. /\ Sound(st, << >>) /\ Len(st.acks) <= AckLimit /\ st \in QueueState
      /\ rows \in Seq(Row) /\ st.held \in Seq(Row) /\ Ordered(rows) /\ Ordered(st.held)
      /\ Keys(rows) \cap Keys(st.held) = {}
      /\ (Keys(rows) \cup Keys(st.held)) \cap ActiveKeys(st) = {}
      /\ AllKeys(st, << >>) = Keys(rows) \cup Keys(st.held) \cup ActiveKeys(st)
      /\ \A x \in Keys(rows), y \in Keys(st.held) : x.seq # y.seq
  BY SessionIs
<1>2. q' = [q EXCEPT ![s] = t] /\ budget' = budget
  BY DEF ParkStale, IInv
<1>3. I \in SUBSET (1..Len(rows)) /\ J \in SUBSET (1..Len(rows))
  BY DEF ParkedAt
<1> HIDE DEF I, rows
<1>4. /\ KeysAt(rows, I) \cap KeysAt(rows, J) = {}
      /\ KeysAt(rows, I) \cup KeysAt(rows, J) = Keys(rows)
  BY <1>1, <1>3, PartsIs
<1> HIDE DEF J
<1>5. /\ kept \in Seq(Row) /\ Ordered(kept) /\ Keys(kept) = KeysAt(rows, J)
      /\ parked \in Seq(Row) /\ Ordered(parked) /\ Keys(parked) = KeysAt(rows, I)
  BY <1>1, <1>3, PickedKeys
<1> HIDE DEF kept, parked
<1>6. held \in Seq(Row) /\ Ordered(held) /\ Keys(held) = Keys(st.held) \cup Keys(parked)
  <2>1. \A x \in Keys(st.held), y \in Keys(parked) : x.seq # y.seq
    BY <1>1, <1>4, <1>5
  <2> QED
    BY <1>1, <1>5, <2>1, SortedKeys
<1> HIDE DEF held
<1>7. /\ t \in QueueState /\ t.queued = kept /\ t.held = held /\ t.active = st.active
      /\ t.next = st.next /\ t.requests = st.requests /\ t.runs = st.runs /\ t.acks = st.acks
  BY <1>1, <1>5, <1>6 DEF QueueState
<1> HIDE DEF t, st
<1>8. ActiveKeys(t) = ActiveKeys(st) /\ Keys(<< >>) = {}
  BY <1>7, ShortIs DEF ActiveKeys
<1>9. Placed(t, << >>) /\ AllKeys(t, << >>) = AllKeys(st, << >>)
  BY <1>1, <1>4, <1>5, <1>6, <1>7, <1>8 DEF Placed, AllKeys
<1>10. Sound(t, << >>)
  BY <1>1, <1>5, <1>6, <1>7, <1>9, ShortIs, Rearranged
<1>11. budget' \in [count : Nat, bytes : Nat]
  BY <1>2 DEF IInv
<1> QED
  BY <1>1, <1>2, <1>7, <1>10, <1>11, SessionStep

\* release_held.
LEMMA ReleaseHeldKeeps ==
  ASSUME IInv, NEW s \in Sessions, NEW run, ReleaseHeld(s, run)
  PROVE  IInv'
<1> DEFINE st == q[s]
           rows == st.queued
           at == PositionsOf(st.held, run)
           i == Min(at)
           row == st.held[i]
           fresh == [row EXCEPT !.at = "fresh"]
           p == RemoveAt(st.held, i)
           r == InsertAt(rows, Place(rows, row.seq), fresh)
           t == [st EXCEPT !.held = p, !.queued = r]
           I == {i}
           J == 1..Len(st.held) \ I
<1>1. /\ Sound(st, << >>) /\ Len(st.acks) <= AckLimit /\ st \in QueueState
      /\ rows \in Seq(Row) /\ st.held \in Seq(Row) /\ Ordered(rows) /\ Ordered(st.held)
      /\ Keys(rows) \cap Keys(st.held) = {}
      /\ (Keys(rows) \cup Keys(st.held)) \cap ActiveKeys(st) = {}
      /\ AllKeys(st, << >>) = Keys(rows) \cup Keys(st.held) \cup ActiveKeys(st)
      /\ \A x \in Keys(rows), y \in Keys(st.held) : x.seq # y.seq
  BY SessionIs
<1>2. q' = [q EXCEPT ![s] = t] /\ budget' = budget /\ at # {}
  BY DEF ReleaseHeld, IInv, Place, Later
<1>3. i \in 1..Len(st.held)
  <2>1. at \in SUBSET Nat /\ at \in SUBSET (1..Len(st.held))
    BY DEF PositionsOf
  <2> HIDE DEF at
  <2>2. i \in at
    BY <1>2, <2>1, FirstOne
  <2> QED
    BY <2>1, <2>2
<1> HIDE DEF i, at
<1>4. row \in Row /\ row.seq \in Nat /\ Key(row) \in Keys(st.held)
  BY <1>1, <1>3, RowAt DEF Keys, KeysAt
<1>5. fresh \in Row /\ Key(fresh) = Key(row) /\ fresh.seq = row.seq
  BY <1>4 DEF Row, Key
<1>6. /\ p \in Seq(Row) /\ Ordered(p) /\ Keys(p) = KeysAt(st.held, J)
  BY <1>1, <1>3, RemoveAtIs
<1>7. /\ KeysAt(st.held, I) \cap KeysAt(st.held, J) = {}
      /\ KeysAt(st.held, I) \cup KeysAt(st.held, J) = Keys(st.held)
      /\ KeysAt(st.held, I) = {Key(row)}
  <2>1. I \in SUBSET (1..Len(st.held))
    BY <1>3
  <2>2. KeysAt(st.held, I) = {Key(row)}
    BY DEF KeysAt
  <2> HIDE DEF I
  <2> QED
    BY <1>1, <2>1, <2>2, PartsIs
<1>8. \A k \in 1..Len(rows) : rows[k].seq # row.seq
  <2>1. \A k \in 1..Len(rows) : Key(rows[k]) \in Keys(rows)
    BY DEF Keys, KeysAt
  <2>2. \A k \in 1..Len(rows) : Key(rows[k]).seq # Key(row).seq
    BY <1>1, <1>4, <2>1
  <2> QED
    BY <2>2 DEF Key
<1> HIDE DEF row, fresh, I, J, p
<1>9. r \in Seq(Row) /\ Ordered(r) /\ Keys(r) = Keys(rows) \cup {Key(row)}
  <2> DEFINE x == Place(rows, row.seq)
  <2>1. /\ x \in 1..(Len(rows) + 1)
        /\ \A k \in 1..Len(rows) : k < x => rows[k].seq < fresh.seq
        /\ \A k \in 1..Len(rows) : x <= k => fresh.seq < rows[k].seq
        /\ \A k \in 1..Len(rows) : rows[k].seq # fresh.seq
    BY <1>1, <1>4, <1>5, <1>8, PlaceIs
  <2> HIDE DEF x, rows
  <2>2. /\ InsertAt(rows, x, fresh) \in Seq(Row) /\ Ordered(InsertAt(rows, x, fresh))
        /\ Keys(InsertAt(rows, x, fresh)) = Keys(rows) \cup {Key(fresh)}
    BY <1>1, <1>5, <2>1, InsertAtIs
  <2> QED
    BY <1>5, <2>2 DEF x
<1> HIDE DEF r
<1>10. /\ t \in QueueState /\ t.queued = r /\ t.held = p /\ t.active = st.active
       /\ t.next = st.next /\ t.requests = st.requests /\ t.runs = st.runs /\ t.acks = st.acks
  BY <1>1, <1>6, <1>9 DEF QueueState
<1> HIDE DEF t, st, rows
<1>11. ActiveKeys(t) = ActiveKeys(st) /\ Keys(<< >>) = {}
  BY <1>10, ShortIs DEF ActiveKeys
<1>12. Placed(t, << >>) /\ AllKeys(t, << >>) = AllKeys(st, << >>)
  BY <1>1, <1>6, <1>7, <1>9, <1>10, <1>11 DEF Placed, AllKeys
<1>13. Sound(t, << >>)
  BY <1>1, <1>6, <1>9, <1>10, <1>12, ShortIs, Rearranged
<1>14. budget' \in [count : Nat, bytes : Nat]
  BY <1>2 DEF IInv
<1> QED
  BY <1>1, <1>2, <1>10, <1>13, <1>14, SessionStep

-----------------------------------------------------------------------------
(* The theorems.                                                           *)

\* The queues start empty.
LEMMA InitIs == ASSUME Init PROVE IInv
<1> DEFINE st == [next |-> 1, active |-> NoRow, queued |-> << >>, held |-> << >>,
                  bytes |-> 0, requests |-> [c \in Requests |-> NoIdentity],
                  runs |-> {}, acks |-> << >>]
<1>1. st \in QueueState
  <2>1. 1 \in 1..MaxSequence /\ << >> \in Seq(Row) /\ << >> \in Seq(Ack)
    BY ConstantsAssumption
  <2> QED
    BY <2>1 DEF QueueState
<1>2. /\ st.next = 1 /\ st.active = NoRow /\ st.queued = << >> /\ st.held = << >>
      /\ \A c \in Requests : st.requests[c] = NoIdentity
      /\ st.runs = {} /\ st.acks = << >>
  OBVIOUS
<1>3. q = [s \in Sessions |-> st] /\ budget = [count |-> 0, bytes |-> 0]
  BY DEF Init
<1> HIDE DEF st
<1>4. Keys(st.queued) = {} /\ Keys(st.held) = {} /\ ActiveKeys(st) = {} /\ Keys(<< >>) = {}
  BY <1>2, ShortIs DEF ActiveKeys
<1>5. AllKeys(st, << >>) = {} /\ Placed(st, << >>)
  BY <1>4 DEF AllKeys, Placed
<1>6. 1..Len(st.acks) = {} /\ Len(st.acks) <= AckLimit
  BY <1>2, ConstantsAssumption
<1>7. Tables(st, {})
  BY <1>2, <1>6 DEF Tables, Identified, Remembered, Injective, Covered
<1>8. Sound(st, << >>)
  BY <1>1, <1>2, <1>5, <1>7, ShortIs DEF Sound
<1> QED
  BY <1>1, <1>3, <1>6, <1>8 DEF IInv

\* Every step keeps the invariant.
LEMMA StepKeeps == ASSUME IInv, [Next]_vars PROVE IInv'
<1>1. CASE UNCHANGED vars
  BY <1>1 DEF vars, IInv
<1>2. ASSUME NEW s \in Sessions, NEW req \in Requests, NEW want \in RunIds \cup {NoRun},
             NEW bytes \in Sizes, NEW policy \in Policies,
             Accept(s, req, want, policy, bytes)
      PROVE  IInv'
  BY <1>2, AcceptKeeps
<1>3. ASSUME NEW s \in Sessions, NEW req \in Requests, NEW want \in RunIds \cup {NoRun},
             NEW bytes \in Sizes, Supersede(s, req, want, bytes)
      PROVE  IInv'
  BY <1>3, SupersedeKeeps
<1>4. ASSUME NEW s \in Sessions,
             \/ StartNext(s) \/ DrainCoalescingAfterFirst(s) \/ ReleaseActivePayload(s)
             \/ FinishActive(s) \/ CancelAllQueued(s)
      PROVE  IInv'
  BY <1>4, StartNextKeeps, DrainKeeps, ReleasePayloadKeeps, FinishActiveKeeps,
     CancelAllKeeps
<1>5. ASSUME NEW s \in Sessions, NEW run, CancelQueued(s, run) \/ ReleaseHeld(s, run)
      PROVE  IInv'
  BY <1>5, CancelQueuedKeeps, ReleaseHeldKeeps
<1>6. ASSUME NEW s \in Sessions, NEW i \in 1..Len(q[s].queued), GrowOld(s, i)
      PROVE  IInv'
  BY <1>6, GrowOldKeeps
<1>7. ASSUME NEW s \in Sessions, NEW boundary, ParkStale(s, boundary)
      PROVE  IInv'
  BY <1>7, ParkStaleKeeps
<1> QED
  BY <1>1, <1>2, <1>3, <1>4, <1>5, <1>6, <1>7 DEF Next

\* Spec => []IInv: whatever is accepted, folded, superseded, parked, released,
\* cancelled or evicted, in whatever order, a row is in one place and the tables
\* of InMemoryRunQueue tell exactly what there is.
THEOREM QueueInvariant == Spec => []IInv
<1>1. Init => IInv
  BY InitIs
<1>2. IInv /\ [Next]_vars => IInv'
  BY StepKeeps
<1> QED
  BY <1>1, <1>2, PTL DEF Spec

\* The type invariant, with the bound on the remembered acknowledgements and on
\* the run sequence.
THEOREM QueueTypeCorrect == Spec => []TypeOK
<1>1. IInv => TypeOK
  <2> SUFFICES ASSUME IInv, NEW s \in Sessions
               PROVE  /\ budget \in [count : Nat, bytes : Nat]
                      /\ q[s].next \in 1..MaxSequence
                      /\ q[s].active \in Row \cup {NoRow}
                      /\ q[s].queued \in Seq(Row) /\ q[s].held \in Seq(Row)
                      /\ q[s].bytes \in Nat
                      /\ q[s].runs \subseteq RunIds \cup (Sessions \X Nat)
                      /\ Len(q[s].acks) <= AckLimit
    BY DEF TypeOK, IInv
  <2>1. q[s].runs \subseteq RunIds \cup (Sessions \X Nat)
    BY SessionIs DEF QueueState, RunName
  <2> QED
    BY <2>1, SessionIs DEF IInv
<1> QED
  BY <1>1, QueueInvariant, PTL

\* Dequeue order and parked order are the order of acceptance, whatever was
\* parked and released in between.
THEOREM AcceptanceOrderHolds == Spec => []AcceptanceOrder
<1>1. IInv => AcceptanceOrder
  <2> SUFFICES ASSUME IInv, NEW s \in Sessions
               PROVE  Ordered(q[s].queued) /\ Ordered(q[s].held)
    BY DEF AcceptanceOrder, Ordered
  <2> QED
    BY SessionIs
<1> QED
  BY <1>1, QueueInvariant, PTL

\* The rows a session answers for, in the order of LiveRows.
LEMMA LiveIs ==
  ASSUME IInv, NEW s \in Sessions
  PROVE  /\ LiveRows(s) \in Seq(Row)
         /\ Keys(LiveRows(s)) = AllKeys(q[s], << >>)
         /\ \A i, k \in 1..Len(LiveRows(s)) :
              Key(LiveRows(s)[i]) = Key(LiveRows(s)[k]) => i = k
<1> DEFINE st == q[s]
           c == IF st.active = NoRow THEN << >> ELSE <<st.active>>
           w == st.queued \o st.held
           p == w \o c
           R == AllKeys(st, << >>)
<1>1. /\ st.queued \in Seq(Row) /\ st.held \in Seq(Row)
      /\ Ordered(st.queued) /\ Ordered(st.held)
      /\ Keys(st.queued) \cap Keys(st.held) = {}
      /\ (Keys(st.queued) \cup Keys(st.held)) \cap ActiveKeys(st) = {}
      /\ R = Keys(st.queued) \cup Keys(st.held) \cup ActiveKeys(st)
      /\ \A x \in Keys(st.queued), y \in Keys(st.held) : x.seq # y.seq
      /\ st.active \in Row \cup {NoRow}
  BY SessionIs
<1>2. LiveRows(s) = p
  BY DEF LiveRows, Waiting
<1>3. c \in Seq(Row) /\ Keys(c) = ActiveKeys(st) /\ Len(c) \in 0..1
  <2>1. CASE st.active = NoRow
    BY <2>1, ShortIs DEF ActiveKeys
  <2>2. CASE st.active # NoRow
    <3>1. st.active \in Row /\ c = <<st.active>>
      BY <1>1, <2>2
    <3> QED
      BY <2>2, <3>1, ShortIs DEF ActiveKeys
  <2> QED
    BY <2>1, <2>2
<1> HIDE DEF c, st, R
<1>4. /\ w \in Seq(Row) /\ Keys(w) = Keys(st.queued) \cup Keys(st.held)
      /\ \A i, k \in 1..Len(w) : w[i].seq = w[k].seq => i = k
  BY <1>1, JoinedIs
<1> HIDE DEF w
<1>5. p \in Seq(Row) /\ Keys(p) = R
  BY <1>1, <1>3, <1>4, JoinedIs
<1>6. ASSUME NEW i \in 1..Len(p), NEW k \in 1..Len(p), Key(p[i]) = Key(p[k])
      PROVE  i = k
  <2>1. /\ Len(p) = Len(w) + Len(c)
        /\ \A m \in 1..Len(w) : p[m] = w[m]
        /\ \A m \in (Len(w) + 1)..(Len(w) + Len(c)) : p[m] = c[m - Len(w)]
    BY <1>3, <1>4, ConcatIs
  <2>2. Len(w) \in Nat
    BY <1>4
  <2> HIDE DEF p
  <2>3. \A m \in 1..Len(p) : m \notin 1..Len(w) =>
          m = Len(w) + 1 /\ m - Len(w) \in 1..Len(c) /\ p[m] = c[m - Len(w)]
    BY <1>3, <2>1, <2>2
  <2>4. /\ \A m \in 1..Len(w) : Key(p[m]) \in Keys(w)
        /\ \A m \in 1..Len(p) : m \notin 1..Len(w) => Key(p[m]) \in Keys(c)
    BY <2>1, <2>3 DEF Keys, KeysAt
  <2>5. Keys(w) \cap Keys(c) = {}
    BY <1>1, <1>3, <1>4
  <2>6. CASE i \in 1..Len(w) /\ k \in 1..Len(w)
    <3>1. p[i].seq = p[k].seq
      BY <1>6 DEF Key
    <3> QED
      BY <1>4, <2>1, <2>6, <3>1
  <2>7. CASE i \notin 1..Len(w) /\ k \notin 1..Len(w)
    BY <2>3, <2>7
  <2>8. CASE i \in 1..Len(w) /\ k \notin 1..Len(w)
    BY <1>6, <2>4, <2>5, <2>8
  <2>9. CASE i \notin 1..Len(w) /\ k \in 1..Len(w)
    BY <1>6, <2>4, <2>5, <2>9
  <2> QED
    BY <2>6, <2>7, <2>8, <2>9
<1> QED
  BY <1>2, <1>5, <1>6 DEF st, R

\* A retry of a prompt that is queued, parked or running finds that prompt's run
\* in the request table.
THEOREM RetryFindsItsRunHolds == Spec => []RetryFindsItsRun
<1>1. IInv => RetryFindsItsRun
  <2> SUFFICES ASSUME IInv, NEW s \in Sessions, NEW row \in ToSet(LiveRows(s))
               PROVE  q[s].requests[row.req] = Identity(row)
    BY DEF RetryFindsItsRun
  <2>1. /\ LiveRows(s) \in Seq(Row) /\ Keys(LiveRows(s)) = AllKeys(q[s], << >>)
    BY LiveIs
  <2>2. PICK i \in 1..Len(LiveRows(s)) : row = LiveRows(s)[i]
    BY <2>1, RowAt
  <2>3. Key(row) \in AllKeys(q[s], << >>)
    BY <2>1, <2>2 DEF Keys, KeysAt
  <2>4. Identified(q[s], AllKeys(q[s], << >>))
    BY SessionIs DEF Sound, Tables
  <2>5. q[s].requests[Key(row).req] = Identity(Key(row))
    BY <2>3, <2>4 DEF Identified
  <2> QED
    BY <2>5 DEF Key, Identity
<1> QED
  BY <1>1, QueueInvariant, PTL

\* Every accepted prompt is in one place under one run id and one request id, and
\* the tables hold those and nothing else.
THEOREM AccountedHolds == Spec => []Accounted
<1>1. ASSUME IInv, NEW s \in Sessions
      PROVE  LET known == LiveRows(s) \o q[s].acks IN
             /\ \A i, j \in 1..Len(known) :
                  known[i].run = known[j].run \/ known[i].req = known[j].req => i = j
             /\ q[s].runs = {known[i].run : i \in 1..Len(known)}
             /\ {c \in Requests : q[s].requests[c] # NoIdentity}
                  = {known[i].req : i \in 1..Len(known)}
  <2> DEFINE st == q[s]
             live == LiveRows(s)
             acks == st.acks
             known == live \o acks
             R == AllKeys(st, << >>)
             n == Len(live)
             D == 1..Len(known)
  <2>1. /\ live \in Seq(Row) /\ Keys(live) = R
        /\ \A i, k \in 1..n : Key(live[i]) = Key(live[k]) => i = k
    BY <1>1, LiveIs
  <2>2. Sound(st, << >>) /\ st \in QueueState
    BY <1>1, SessionIs
  <2> HIDE DEF st, live
  <2>3. Identified(st, R) /\ Remembered(st, R) /\ Injective(st) /\ Covered(st, R)
    BY <2>2 DEF Sound, Tables
  <2>4. /\ R \in SUBSET Keyed
        /\ \A x \in R : /\ x.req \in Requests /\ st.requests[x.req] # NoIdentity
                        /\ st.requests[x.req].run = x.run
    BY <2>2, SoundTyped
  <2>5. acks \in Seq(Ack) /\ n \in Nat /\ Len(acks) \in Nat
    BY <2>1, <2>2 DEF QueueState
  <2>6. \A i \in 1..Len(acks) : acks[i].req \in Requests
    <3>1. \A i \in 1..Len(acks) : acks[i] \in Ack
      BY <2>5
    <3> QED
      BY <3>1 DEF Ack
  <2>7. /\ \A i \in D : \/ i \in 1..n /\ known[i] = live[i]
                        \/ i - n \in 1..Len(acks) /\ known[i] = acks[i - n] /\ i \notin 1..n
        /\ \A i \in 1..n : i \in D /\ known[i] = live[i]
        /\ \A i \in 1..Len(acks) : n + i \in D /\ known[n + i] = acks[i]
    BY <2>1, <2>5
  <2> HIDE DEF known, D, R, n, acks
  <2>8. \A i \in 1..n : /\ Key(live[i]) \in R /\ Key(live[i]).req = live[i].req
                        /\ Key(live[i]).run = live[i].run
    BY <2>1 DEF Keys, KeysAt, Key, n
  <2>9. /\ \A i \in 1..Len(acks) : /\ st.requests[acks[i].req] # NoIdentity
                                   /\ st.requests[acks[i].req].run = acks[i].run
        /\ \A i, k \in 1..Len(acks) : acks[i].req = acks[k].req => i = k
        /\ \A x \in R, i \in 1..Len(acks) : x.req # acks[i].req
    BY <2>3 DEF Remembered, acks
  <2>10. \A i \in D : /\ known[i].req \in Requests
                      /\ st.requests[known[i].req] # NoIdentity
                      /\ st.requests[known[i].req].run = known[i].run
    <3> SUFFICES ASSUME NEW i \in D
                 PROVE  /\ known[i].req \in Requests
                        /\ st.requests[known[i].req] # NoIdentity
                        /\ st.requests[known[i].req].run = known[i].run
      OBVIOUS
    <3>1. CASE i \in 1..n /\ known[i] = live[i]
      BY <2>4, <2>8, <3>1
    <3>2. CASE i - n \in 1..Len(acks) /\ known[i] = acks[i - n]
      BY <2>6, <2>9, <3>2
    <3> QED
      BY <2>7, <3>1, <3>2
  <2>11. ASSUME NEW i \in D, NEW j \in D, known[i].req = known[j].req PROVE i = j
    <3>1. CASE i \in 1..n /\ j \in 1..n
      <4>1. known[i] = live[i] /\ known[j] = live[j]
        BY <2>7, <3>1
      <4>2. Key(live[i]) = Key(live[j])
        <5>1. Key(live[i]).req = Key(live[j]).req
          BY <2>8, <2>11, <3>1, <4>1
        <5> QED
          BY <2>3, <2>4, <2>8, <3>1, <5>1, OneRequest
      <4> QED
        BY <2>1, <3>1, <4>2
    <3>2. CASE i \in 1..n /\ j \notin 1..n
      <4>1. known[i] = live[i] /\ j - n \in 1..Len(acks) /\ known[j] = acks[j - n]
        BY <2>7, <3>2
      <4> QED
        BY <2>8, <2>9, <2>11, <3>2, <4>1
    <3>3. CASE i \notin 1..n /\ j \in 1..n
      <4>1. known[j] = live[j] /\ i - n \in 1..Len(acks) /\ known[i] = acks[i - n]
        BY <2>7, <3>3
      <4> QED
        BY <2>8, <2>9, <2>11, <3>3, <4>1
    <3>4. CASE i \notin 1..n /\ j \notin 1..n
      <4>1. /\ i - n \in 1..Len(acks) /\ known[i] = acks[i - n]
            /\ j - n \in 1..Len(acks) /\ known[j] = acks[j - n]
        BY <2>7, <3>4
      <4>2. i - n = j - n
        BY <2>9, <2>11, <4>1
      <4>3. i \in Int /\ j \in Int
        BY DEF D
      <4> QED
        BY <2>5, <4>2, <4>3
    <3> QED
      BY <3>1, <3>2, <3>3, <3>4
  <2>12. ASSUME NEW i \in D, NEW j \in D, known[i].run = known[j].run PROVE i = j
    <3>1. known[i].req = known[j].req
      BY <2>3, <2>10, <2>12 DEF Injective
    <3> QED
      BY <2>11, <3>1
  <2>13. ASSUME NEW c \in Requests, st.requests[c] # NoIdentity
         PROVE  \E i \in D : known[i].req = c
    <3>1. CASE \E x \in R : x.req = c
      <4>1. PICK x \in Keys(live) : x.req = c
        BY <2>1, <3>1
      <4>2. PICK i \in 1..n : x = Key(live[i])
        BY DEF Keys, KeysAt, n
      <4> QED
        BY <2>7, <2>8, <4>1, <4>2
    <3>2. CASE \E i \in 1..Len(acks) : acks[i].req = c
      BY <2>7, <3>2
    <3> QED
      BY <2>3, <2>13, <3>1, <3>2 DEF Covered, acks
  <2>14. {c \in Requests : st.requests[c] # NoIdentity} = {known[i].req : i \in D}
    BY <2>10, <2>13
  <2>15. st.runs = {known[i].run : i \in D}
    <3>1. ASSUME NEW r \in st.runs PROVE \E i \in D : known[i].run = r
      <4>1. PICK c \in Requests : st.requests[c] # NoIdentity /\ st.requests[c].run = r
        BY <2>3, <3>1 DEF Injective
      <4>2. PICK i \in D : known[i].req = c
        BY <2>13, <4>1
      <4> QED
        BY <2>10, <4>1, <4>2
    <3>2. \A i \in D : known[i].run \in st.runs
      BY <2>3, <2>10 DEF Injective
    <3> DEFINE A == {known[i].run : i \in D}
    <3>3. (\A r \in st.runs : r \in A) /\ (\A r \in A : r \in st.runs)
      BY <3>1, <3>2
    <3> HIDE DEF A
    <3>4. st.runs = A
      BY <3>3
    <3> QED
      BY <3>4 DEF A
  <2> QED
    BY <2>11, <2>12, <2>14, <2>15 DEF known, D, st, live, acks
<1>2. IInv => Accounted
  BY <1>1 DEF Accounted
<1> QED
  BY <1>2, QueueInvariant, PTL
=============================================================================
