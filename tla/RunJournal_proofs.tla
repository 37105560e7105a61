------------------------- MODULE RunJournal_proofs -------------------------
(***************************************************************************)
(* Proofs about RunJournal, for every number of runs and stops and both    *)
(* storage formats.                                                        *)
(***************************************************************************)
EXTENDS RunJournal, WellFoundedInduction, TLAPS

Entry == [type : {"started", "stop", "terminal"}, run : Runs,
          state : {"none", "completed", "cancelled", "interrupted"},
          cause : {"none", "system_shutdown", "user_stop", "process_restart"}]

LiveRun == [run : Runs \cup {NoRun},
            phase : {"idle", "running", "cancelling", "finalizing", "faulted"},
            cause : {"none", "user", "shutdown"},
            task : {"streaming", "fenced", "repairing", "committed", "gone"}]

StopCall == [at : {"none", "target", "request"}, expected : Runs \cup {NoRun}]

Types ==
  /\ segmented \in BOOLEAN
  /\ journal \in Seq(Entry) /\ repair \in Seq(Entry)
  /\ live \in LiveRun /\ stop \in StopCall
  /\ markers \subseteq Runs /\ stopped \subseteq Runs /\ lost \subseteq Runs
  /\ stops \in 0..MaxStops

\* A run is streaming until its fence, and finalizing after it unless a fault
\* or a timer marked it; only a legacy session is repaired.
Phased ==
  /\ live.run = NoRun <=> live = Nothing
  /\ live.phase = "idle" <=> live = Nothing
  /\ live.phase \in {"running", "cancelling"} => live.task = "streaming"
  /\ live.task = "streaming" => live.phase # "finalizing"
  /\ live.task = "gone" => live = Nothing \/ live.phase = "faulted"
  /\ live.task = "repairing" => ~segmented

Has(j, type, r) == IndexesOf(j, type, r) # {}

\* The latest run of j is L, and j is about no run after it; no run starts
\* after its terminal.
Upto(j, L) ==
  /\ LatestStarted(j) = L
  /\ \A i \in 1..Len(j) : j[i].run <= L
  /\ \A i, k \in 1..Len(j) :
       /\ j[i].type = "terminal" /\ j[k].type = "started"
       /\ j[i].run = j[k].run
       => k < i

\* The live run is the latest, and so is everything else that names a run.
Latest ==
  /\ Upto(journal, LatestStarted(journal))
  /\ live # Nothing => LatestStarted(journal) = live.run
  /\ live.task = "repairing" => Upto(repair, live.run)
  /\ \A r \in markers \cup stopped \cup lost : r <= LatestStarted(journal)

\* Until its task commits a run has no terminal, or the one the repair is
\* going to write once more; the repair read the other runs as they are.
Open ==
  /\ live.task \in {"streaming", "fenced"} => ~Has(journal, "terminal", live.run)
  /\ live.task = "repairing" =>
       /\ ~Has(repair, "terminal", live.run)
       /\ FindRunTerminal(journal, live.run) \in {NoTerminal, TaskTerminal}
       /\ \A r \in Runs \ {live.run} : Has(repair, "started", r) =>
            FindRunTerminal(repair, r) = FindRunTerminal(journal, r)

\* A stop of the run was journalled, or is being, or was lost.
Marked(r) == r \in markers \cup lost \/ Has(journal, "stop", r)

\* A stop marks the run it reaches before it asks for the cancellation; so a
\* run whose stop was answered is marked, and a terminal of the system's own
\* only ends a run that a shutdown interrupted.
Stops ==
  segmented /\ live # Nothing =>
    /\ /\ stop.at = "request" /\ stop.expected \in {NoRun, live.run}
       /\ live.phase \in {"running", "cancelling"} \/ live.cause = "shutdown"
       => Marked(live.run)
    /\ live.cause = "user" \/ live.run \in stopped => Marked(live.run)
    /\ FindRunTerminal(journal, live.run).cause = "system_shutdown" =>
         live.cause = "shutdown"

\* The run that a later process would resume.
Resumes(j, r) ==
  /\ LatestStarted(j) = r /\ ~Has(j, "stop", r)
  /\ \/ FindRunTerminal(j, r) = NoTerminal
     \/ /\ FindRunTerminal(j, r).state = "interrupted"
        /\ FindRunTerminal(j, r).cause \in {"system_shutdown", "outcome_unknown"}

\* SegmentedStopSurvives and RunHistoryKept, of the whole journal.
Survives ==
  segmented =>
    \A r \in stopped \ (lost \cup markers \cup {live.run}) : ~Resumes(journal, r)

History ==
  segmented =>
    \A r \in 1..(LatestStarted(journal) - 1) :
      Has(journal, "started", r) /\ Has(journal, "terminal", r)

IInv ==
  /\ Types /\ Phased /\ Latest /\ Open /\ Stops /\ Survives /\ History

-----------------------------------------------------------------------------
(* Least and greatest elements.                                            *)

\* A set of naturals has a least element.
LEMMA LeastElement ==
  ASSUME NEW S \in SUBSET Nat, S # {}
  PROVE  \E x \in S : \A y \in S : x <= y
<1>1. PICK x \in S : \A y \in S : ~(<<y, x>> \in OpToRel(<, Nat))
  BY NatLessThanWellFounded, WFMin, Zenon
<1>2. \A y \in S : ~(y < x)
  BY <1>1 DEF OpToRel
<1> QED
  BY <1>2

\* A nonempty set of positions of a sequence has a last one, which Max is.
LEMMA LastOne ==
  ASSUME NEW n \in Nat, NEW S \in SUBSET (1..n), S # {}
  PROVE  Max(S) \in S /\ \A y \in S : y <= Max(S)
<1> DEFINE T == {n - x : x \in S}
<1>0. \A x \in S : x \in 1..n
  OBVIOUS
<1>1. T # {}
  OBVIOUS
<1>2. T \in SUBSET Nat
  BY <1>0
<1>3. PICK t \in T : \A y \in T : t <= y
  BY <1>1, <1>2, LeastElement, Zenon
<1>4. PICK x \in S : t = n - x
  OBVIOUS
<1>5. \A y \in S : x >= y
  BY <1>0, <1>3, <1>4
<1>6. Max(S) \in S /\ \A y \in S : Max(S) >= y
  BY <1>5 DEF Max
<1> QED
  BY <1>0, <1>6

\* The greatest element is the one Max chooses.
LEMMA MaxIs ==
  ASSUME NEW n \in Nat, NEW S \in SUBSET (1..n),
         NEW x \in S, \A y \in S : y <= x
  PROVE  Max(S) = x
<1>1. Max(S) \in S /\ \A y \in S : y <= Max(S)
  BY LastOne
<1>a. \A y \in S : y \in 1..n
  OBVIOUS
<1>b. \A y \in S : y \in Int
  BY <1>a
<1>2. x \in Int /\ Max(S) \in Int
  BY <1>1, <1>b
<1>3. x <= Max(S) /\ Max(S) <= x
  BY <1>1
<1> QED
  BY <1>2, <1>3

-----------------------------------------------------------------------------
(* What a journal says.                                                    *)

Starts(j) == {i \in 1..Len(j) : j[i].type = "started"}

\* i is the last of the positions S.
IsLast(i, S) == i \in S /\ \A k \in S : k <= i

\* The latest run is that of the last start.
LEMMA LatestIs ==
  ASSUME NEW j \in Seq(Entry)
  PROVE  /\ Starts(j) = {} => LatestStarted(j) = NoRun
         /\ \A i : IsLast(i, Starts(j)) => LatestStarted(j) = j[i].run
         /\ Starts(j) # {} => IsLast(Max(Starts(j)), Starts(j))
         /\ LatestStarted(j) \in Runs \cup {NoRun}
         /\ LatestStarted(j) = NoRun => Starts(j) = {}
<1>0. Len(j) \in Nat /\ Starts(j) \in SUBSET (1..Len(j))
  BY DEF Starts
<1>1. LatestStarted(j) =
        IF Starts(j) = {} THEN NoRun ELSE j[Max(Starts(j))].run
  BY DEF LatestStarted, Starts
<1>2. Starts(j) # {} => IsLast(Max(Starts(j)), Starts(j))
  BY <1>0, LastOne DEF IsLast
<1>3. ASSUME NEW i, IsLast(i, Starts(j)) PROVE Max(Starts(j)) = i
  BY <1>0, <1>3, MaxIs DEF IsLast
<1>4. \A i \in Starts(j) : j[i] \in Entry
  BY DEF Starts
<1>5. \A i \in Starts(j) : j[i].run \in Runs
  BY <1>4 DEF Entry
<1>6. NoRun \notin Runs
  BY DEF NoRun, Runs
<1>7. Starts(j) # {} => LatestStarted(j) \in Runs
  BY <1>1, <1>2, <1>5 DEF IsLast
<1> QED
  BY <1>1, <1>2, <1>3, <1>6, <1>7 DEF IsLast

\* The terminal of a run is the last one.
LEMMA TerminalIs ==
  ASSUME NEW j \in Seq(Entry), NEW r
  PROVE  /\ ~Has(j, "terminal", r) => FindRunTerminal(j, r) = NoTerminal
         /\ \A i : IsLast(i, IndexesOf(j, "terminal", r)) =>
                     FindRunTerminal(j, r) = j[i]
         /\ Has(j, "terminal", r) =>
              /\ IsLast(Max(IndexesOf(j, "terminal", r)),
                        IndexesOf(j, "terminal", r))
              /\ FindRunTerminal(j, r) \in Entry
              /\ FindRunTerminal(j, r).run = r
              /\ FindRunTerminal(j, r) # NoTerminal
<1> DEFINE S == IndexesOf(j, "terminal", r)
<1>0. Len(j) \in Nat /\ S \in SUBSET (1..Len(j))
  BY DEF IndexesOf
<1>1. FindRunTerminal(j, r) = IF S = {} THEN NoTerminal ELSE j[Max(S)]
  BY DEF FindRunTerminal
<1>4. \A i \in S : j[i] \in Entry /\ j[i].run = r
  BY DEF IndexesOf
<1>5. \A e \in Entry : e # NoTerminal
  BY DEF Entry, NoTerminal, Terminal, Runs, NoRun
<1> HIDE DEF S
<1>2. S # {} => IsLast(Max(S), S)
  BY <1>0, LastOne DEF IsLast
<1>3. ASSUME NEW i, IsLast(i, S) PROVE Max(S) = i
  BY <1>0, <1>3, MaxIs DEF IsLast
<1>6. Has(j, "terminal", r) <=> S # {}
  BY DEF Has, S
<1>7. /\ S = {} => FindRunTerminal(j, r) = NoTerminal
      /\ \A i : IsLast(i, S) => FindRunTerminal(j, r) = j[i]
      /\ S # {} =>
           /\ IsLast(Max(S), S) /\ FindRunTerminal(j, r) \in Entry
           /\ FindRunTerminal(j, r).run = r /\ FindRunTerminal(j, r) # NoTerminal
  BY <1>1, <1>2, <1>3, <1>4, <1>5 DEF IsLast
<1> QED
  BY <1>6, <1>7 DEF S

\* What one more entry changes.
LEMMA Appended ==
  ASSUME NEW j \in Seq(Entry), NEW e \in Entry
  PROVE  /\ Append(j, e) \in Seq(Entry)
         /\ LatestStarted(Append(j, e)) =
              IF e.type = "started" THEN e.run ELSE LatestStarted(j)
         /\ \A r : FindRunTerminal(Append(j, e), r) =
                     IF e.type = "terminal" /\ e.run = r THEN e
                     ELSE FindRunTerminal(j, r)
         /\ \A t, r : Has(Append(j, e), t, r) <=>
                        Has(j, t, r) \/ (e.type = t /\ e.run = r)
<1> DEFINE k == Append(j, e)
           n == Len(j) + 1
<1>0. /\ k \in Seq(Entry) /\ Len(j) \in Nat /\ Len(k) = n /\ k[n] = e
      /\ \A i \in 1..Len(j) : k[i] = j[i]
  OBVIOUS
<1> HIDE DEF k
<1>1. Starts(k) = IF e.type = "started" THEN Starts(j) \cup {n} ELSE Starts(j)
  BY <1>0 DEF Starts
<1>2. \A t, r : IndexesOf(k, t, r) = IF e.type = t /\ e.run = r
                                     THEN IndexesOf(j, t, r) \cup {n}
                                     ELSE IndexesOf(j, t, r)
  BY <1>0 DEF IndexesOf
<1>3. LatestStarted(k) = IF e.type = "started" THEN e.run ELSE LatestStarted(j)
  <2>1. CASE e.type = "started"
    <3>1. IsLast(n, Starts(k))
      BY <1>0, <1>1, <2>1 DEF IsLast, Starts
    <3> QED
      BY <1>0, <2>1, <3>1, LatestIs
  <2>2. CASE e.type # "started" /\ Starts(j) = {}
    BY <1>0, <1>1, <2>2, LatestIs
  <2>3. CASE e.type # "started" /\ Starts(j) # {}
    <3> DEFINE i == Max(Starts(j))
    <3>1. IsLast(i, Starts(j)) /\ IsLast(i, Starts(k))
      BY <1>1, <2>3, LatestIs
    <3>2. i \in 1..Len(j)
      BY <3>1 DEF IsLast, Starts
    <3> HIDE DEF i
    <3> QED
      BY <1>0, <2>3, <3>1, <3>2, LatestIs
  <2> QED
    BY <2>1, <2>2, <2>3
<1>4. ASSUME NEW r
      PROVE  FindRunTerminal(k, r) = IF e.type = "terminal" /\ e.run = r THEN e
                                     ELSE FindRunTerminal(j, r)
  <2> DEFINE S == IndexesOf(j, "terminal", r)
             T == IndexesOf(k, "terminal", r)
  <2>0. S \subseteq 1..Len(j)
    BY DEF IndexesOf
  <2>1. CASE e.type = "terminal" /\ e.run = r
    <3>1. IsLast(n, T)
      BY <1>0, <1>2, <2>0, <2>1 DEF IsLast
    <3> QED
      BY <1>0, <2>1, <3>1, TerminalIs
  <2>2. CASE ~(e.type = "terminal" /\ e.run = r) /\ S = {}
    <3>1. ~Has(j, "terminal", r) /\ ~Has(k, "terminal", r)
      BY <1>2, <2>2 DEF Has
    <3> QED
      BY <1>0, <2>2, <3>1, TerminalIs
  <2>3. CASE ~(e.type = "terminal" /\ e.run = r) /\ S # {}
    <3> DEFINE i == Max(S)
    <3>1. T = S
      BY <1>2, <2>3
    <3>2. Has(j, "terminal", r)
      BY <2>3 DEF Has
    <3>3. IsLast(i, S) /\ IsLast(i, T)
      BY <3>1, <3>2, TerminalIs
    <3>4. i \in 1..Len(j)
      BY <2>0, <3>3 DEF IsLast
    <3> HIDE DEF i
    <3> QED
      BY <1>0, <2>3, <3>3, <3>4, TerminalIs
  <2> QED
    BY <2>1, <2>2, <2>3
<1>5. \A t, r : Has(k, t, r) <=> Has(j, t, r) \/ (e.type = t /\ e.run = r)
  BY <1>2 DEF Has
<1> QED
  BY <1>0, <1>3, <1>4, <1>5 DEF k

\* One more entry of a known run, and the start of a new one.
LEMMA AppendedUpto ==
  ASSUME NEW j \in Seq(Entry), NEW e \in Entry, NEW L \in Nat, Upto(j, L)
  PROVE  /\ e.type # "started" /\ e.run <= L => Upto(Append(j, e), L)
         /\ e.type = "started" /\ e.run >= L /\ ~Has(j, "terminal", e.run) =>
              Upto(Append(j, e), e.run)
<1> DEFINE k == Append(j, e)
           n == Len(j) + 1
<1>0. /\ k \in Seq(Entry) /\ Len(j) \in Nat /\ Len(k) = n /\ k[n] = e
      /\ \A i \in 1..Len(j) : k[i] = j[i]
  OBVIOUS
<1>1. LatestStarted(k) = IF e.type = "started" THEN e.run ELSE LatestStarted(j)
  BY Appended
<1>a. \A i \in 1..Len(j) : j[i] \in Entry
  OBVIOUS
<1>2. \A i \in 1..Len(j) : j[i].run \in Nat
  BY <1>a DEF Entry, Runs
<1>3. e.run \in Nat
  BY DEF Entry, Runs
<1> HIDE DEF k
<1>4. ASSUME e.type # "started", e.run <= L PROVE Upto(k, L)
  BY <1>0, <1>1, <1>4 DEF Upto
<1>5. ASSUME e.type = "started", e.run >= L, ~Has(j, "terminal", e.run)
      PROVE  Upto(k, e.run)
  <2>1. \A i \in 1..Len(k) : k[i].run <= e.run
    BY <1>0, <1>2, <1>3, <1>5 DEF Upto
  <2>2. \A i \in 1..Len(j) : ~(j[i].type = "terminal" /\ j[i].run = e.run)
    BY <1>5 DEF Has, IndexesOf
  <2>3. ASSUME NEW i \in 1..Len(k), NEW m \in 1..Len(k),
               k[i].type = "terminal", k[m].type = "started",
               k[i].run = k[m].run
        PROVE  m < i
    <3>1. i # n
      BY <1>0, <1>5, <2>3
    <3>2. i \in 1..Len(j) /\ k[i] = j[i]
      BY <1>0, <3>1
    <3>3. m # n
      BY <1>0, <2>2, <2>3, <3>2
    <3>4. m \in 1..Len(j) /\ k[m] = j[m]
      BY <1>0, <3>3
    <3> QED
      BY <2>3, <3>2, <3>4 DEF Upto
  <2> QED
    BY <1>1, <1>5, <2>1, <2>3 DEF Upto
<1> QED
  BY <1>4, <1>5 DEF k

-----------------------------------------------------------------------------
(* The two recursions: the pass of find_unterminated_run, and the entries  *)
(* a query picks.                                                          *)

\* One step of the pass.
PassStep(open, e) ==
  IF e.type = "started" THEN e.run
  ELSE IF e.type = "terminal" /\ e.run = open THEN NoRun
  ELSE open

Passes(f, n, j) ==
  f = [i \in 0..n |-> IF i = 0 THEN NoRun ELSE PassStep(f[i-1], j[i])]

\* The recursion of the pass has a solution, for a prefix of every length.
LEMMA PassExists ==
  ASSUME NEW j, NEW N \in Nat
  PROVE  \E f : Passes(f, N, j)
<1> DEFINE S == {n \in Nat : ~ \E f : Passes(f, n, j)}
<1>1. SUFFICES ASSUME S # {} PROVE FALSE
  OBVIOUS
<1>2. PICK n \in S : \A k \in S : n <= k
  BY <1>1, LeastElement, Zenon
<1>3. n # 0
  <2>1. Passes([i \in 0..0 |-> NoRun], 0, j)
    BY DEF Passes
  <2> QED
    BY <2>1
<1>4. n - 1 \in Nat /\ n - 1 \notin S
  BY <1>2, <1>3
<1>5. PICK f : Passes(f, n - 1, j)
  BY <1>4
<1> DEFINE g == [i \in 0..n |-> IF i < n THEN f[i] ELSE PassStep(f[n-1], j[n])]
<1>6. Passes(g, n, j)
  <2>1. ASSUME NEW i \in 0..n
        PROVE  g[i] = IF i = 0 THEN NoRun ELSE PassStep(g[i-1], j[i])
    BY <1>3, <1>5 DEF Passes
  <2>2. g = [i \in 0..n |-> g[i]]
    OBVIOUS
  <2> HIDE DEF g
  <2> QED
    BY <2>1, <2>2 DEF Passes
<1> QED
  BY <1>6

\* The run of the start i has no terminal up to n.
OpenAt(j, i, n) ==
  \A k \in i..n : ~(j[k].type = "terminal" /\ j[k].run = j[i].run)

\* The pass finds the latest run, unless its terminal follows its last start.
LEMMA UnterminatedIs ==
  ASSUME NEW j \in Seq(Entry)
  PROVE  /\ Starts(j) = {} => FindUnterminatedRun(j) = NoRun
         /\ \A i : IsLast(i, Starts(j)) =>
              FindUnterminatedRun(j) =
                IF OpenAt(j, i, Len(j)) THEN j[i].run ELSE NoRun
<1>0. Len(j) \in Nat
  OBVIOUS
<1>1. PICK f : Passes(f, Len(j), j)
  BY <1>0, PassExists
<1> DEFINE g == CHOOSE h : Passes(h, Len(j), j)
<1>2. Passes(g, Len(j), j)
  BY <1>1
<1>3. FindUnterminatedRun(j) = g[Len(j)]
  BY DEF FindUnterminatedRun, Passes, PassStep
<1> HIDE DEF g
<1>4. g[0] = NoRun /\ \A i \in 1..Len(j) : g[i] = PassStep(g[i-1], j[i])
  BY <1>0, <1>2 DEF Passes
<1>5. \A i \in 1..Len(j) : j[i] \in Entry
  OBVIOUS
<1>6. \A i \in 1..Len(j) : j[i].run # NoRun
  BY <1>5 DEF Entry, Runs, NoRun
<1> DEFINE Until(n) == {i \in Starts(j) : i <= n}
           Good(n) ==
             /\ Until(n) = {} => g[n] = NoRun
             /\ \A i : IsLast(i, Until(n)) =>
                  g[n] = IF OpenAt(j, i, n) THEN j[i].run ELSE NoRun
<1>7. Good(0)
  <2>1. Until(0) = {}
    BY DEF Starts
  <2> QED
    BY <1>4, <2>1 DEF IsLast
<1>8. ASSUME NEW n \in 1..Len(j), Good(n-1)
      PROVE  Good(n)
  <2>0. n \in Nat /\ n - 1 \in Nat /\ \A i \in Starts(j) : i \in Nat
    BY <1>0 DEF Starts
  <2>1. CASE j[n].type = "started"
    <3>1. g[n] = j[n].run
      BY <1>4, <2>1 DEF PassStep
    <3>2. n \in Until(n)
      BY <2>1 DEF Starts
    <3>3. ASSUME NEW i, IsLast(i, Until(n)) PROVE i = n
      BY <2>0, <3>2, <3>3 DEF IsLast
    <3>4. OpenAt(j, n, n)
      BY <2>0, <2>1 DEF OpenAt
    <3> QED
      BY <3>1, <3>2, <3>3, <3>4
  <2>2. CASE j[n].type # "started"
    <3>1. Until(n) = Until(n-1)
      BY <2>0, <2>2 DEF Starts
    <3>2. CASE Until(n) = {}
      <4>1. g[n-1] = NoRun
        BY <1>8, <3>1, <3>2
      <4>2. g[n] = NoRun
        BY <1>4, <2>2, <4>1 DEF PassStep
      <4> QED
        BY <3>2, <4>2 DEF IsLast
    <3>3. ASSUME NEW i, IsLast(i, Until(n))
          PROVE  g[n] = IF OpenAt(j, i, n) THEN j[i].run ELSE NoRun
      <4>1. g[n-1] = IF OpenAt(j, i, n-1) THEN j[i].run ELSE NoRun
        BY <1>8, <3>1, <3>3
      <4>2. i \in 1..Len(j) /\ i <= n - 1
        BY <2>0, <3>1, <3>3 DEF IsLast, Starts
      <4>3. OpenAt(j, i, n) <=>
              OpenAt(j, i, n-1) /\ ~(j[n].type = "terminal" /\ j[n].run = j[i].run)
        BY <2>0, <4>2 DEF OpenAt
      <4>4. g[n] = IF j[n].type = "terminal" /\ j[n].run = g[n-1] THEN NoRun
                   ELSE g[n-1]
        BY <1>4, <2>2 DEF PassStep
      <4> QED
        BY <1>6, <4>1, <4>2, <4>3, <4>4
    <3> QED
      BY <3>2, <3>3
  <2> QED
    BY <2>1, <2>2
<1>9. \A n \in 0..Len(j) : Good(n)
  <2> DEFINE S == {n \in 0..Len(j) : ~Good(n)}
  <2> HIDE DEF Good
  <2>1. SUFFICES ASSUME S # {} PROVE FALSE
    OBVIOUS
  <2>2. S \in SUBSET Nat
    BY <1>0
  <2>3. PICK n \in S : \A k \in S : n <= k
    BY <2>1, <2>2, LeastElement, Zenon
  <2> QED
    BY <1>0, <1>7, <1>8, <2>3
<1>10. Until(Len(j)) = Starts(j)
  BY <1>0 DEF Starts
<1> QED
  BY <1>0, <1>3, <1>9, <1>10

PickStep(rows, i, j, I) == IF i \in I THEN Append(rows, j[i]) ELSE rows

Picks(f, n, j, I) ==
  f = [i \in 0..n |-> IF i = 0 THEN << >> ELSE PickStep(f[i-1], i, j, I)]

\* The recursion of Picked has a solution, for a prefix of every length.
LEMMA PickedExists ==
  ASSUME NEW j, NEW I, NEW N \in Nat
  PROVE  \E f : Picks(f, N, j, I)
<1> DEFINE S == {n \in Nat : ~ \E f : Picks(f, n, j, I)}
<1>1. SUFFICES ASSUME S # {} PROVE FALSE
  OBVIOUS
<1>2. PICK n \in S : \A k \in S : n <= k
  BY <1>1, LeastElement, Zenon
<1>3. n # 0
  <2>1. Picks([i \in 0..0 |-> << >>], 0, j, I)
    BY DEF Picks
  <2> QED
    BY <2>1
<1>4. n - 1 \in Nat /\ n - 1 \notin S
  BY <1>2, <1>3
<1>5. PICK f : Picks(f, n - 1, j, I)
  BY <1>4
<1> DEFINE g == [i \in 0..n |-> IF i < n THEN f[i] ELSE PickStep(f[n-1], n, j, I)]
<1>6. Picks(g, n, j, I)
  <2>1. ASSUME NEW i \in 0..n
        PROVE  g[i] = IF i = 0 THEN << >> ELSE PickStep(g[i-1], i, j, I)
    BY <1>3, <1>5 DEF Picks
  <2>2. g = [i \in 0..n |-> g[i]]
    OBVIOUS
  <2> HIDE DEF g
  <2> QED
    BY <2>1, <2>2 DEF Picks
<1> QED
  BY <1>6

\* at says at which positions of j, up to n and in I, the entries of p were.
Origin(at, p, n, j, I) ==
  /\ at \in [1..Len(p) -> I \cap (1..n)]
  /\ \A k \in 1..Len(p) : p[k] = j[at[k]]
  /\ \A k, m \in 1..Len(p) : k < m => at[k] < at[m]
  /\ \A i \in I \cap (1..n) : \E k \in 1..Len(p) : at[k] = i

\* Picked keeps the entries at the positions in I, each once, in their order.
LEMMA PickedIs ==
  ASSUME NEW E, NEW j \in Seq(E), NEW I
  PROVE  /\ Picked(j, I) \in Seq(E)
         /\ \E at : Origin(at, Picked(j, I), Len(j), j, I)
<1>0. Len(j) \in Nat
  OBVIOUS
<1>1. PICK f : Picks(f, Len(j), j, I)
  BY <1>0, PickedExists
<1> DEFINE g == CHOOSE h : Picks(h, Len(j), j, I)
<1>2. Picks(g, Len(j), j, I)
  BY <1>1
<1>3. Picked(j, I) = g[Len(j)]
  BY DEF Picked, Picks, PickStep
<1> HIDE DEF g
<1>4. g[0] = << >> /\ \A i \in 1..Len(j) : g[i] = PickStep(g[i-1], i, j, I)
  BY <1>0, <1>2 DEF Picks
<1> DEFINE Good(n) == g[n] \in Seq(E) /\ \E at : Origin(at, g[n], n, j, I)
<1>5. Good(0)
  <2>1. Origin(<< >>, << >>, 0, j, I)
    BY DEF Origin
  <2> QED
    BY <1>4, <2>1
<1>6. ASSUME NEW n \in 1..Len(j), Good(n-1)
      PROVE  Good(n)
  <2> DEFINE p == g[n-1]
  <2>0. n \in Nat /\ n - 1 \in Nat /\ p \in Seq(E) /\ Len(p) \in Nat
    BY <1>0, <1>6
  <2>a. PICK at : Origin(at, p, n-1, j, I)
    BY <1>6
  <2> HIDE DEF p
  <2>1. CASE n \notin I
    <3>1. g[n] = p
      BY <1>4, <2>1 DEF PickStep, p
    <3>2. I \cap (1..n) = I \cap (1..(n-1))
      BY <2>0, <2>1
    <3>3. Origin(at, p, n, j, I)
      BY <2>a, <3>2 DEF Origin
    <3> QED
      BY <2>0, <3>1, <3>3
  <2>2. CASE n \in I
    <3> DEFINE to == [k \in 1..(Len(p)+1) |-> IF k <= Len(p) THEN at[k] ELSE n]
    <3>1. g[n] = Append(p, j[n])
      BY <1>4, <2>2 DEF PickStep, p
    <3>2. /\ g[n] \in Seq(E) /\ Len(g[n]) = Len(p) + 1
          /\ \A k \in 1..(Len(p)+1) :
               g[n][k] = IF k <= Len(p) THEN p[k] ELSE j[n]
      BY <2>0, <3>1
    <3>3. I \cap (1..n) = (I \cap (1..(n-1))) \cup {n}
      BY <2>0, <2>2
    <3>4. \A k \in 1..Len(p) : at[k] \in I \cap (1..(n-1)) /\ at[k] < n
      BY <2>0, <2>a DEF Origin
    <3>5. to \in [1..(Len(p)+1) -> I \cap (1..n)]
      BY <2>0, <3>3, <3>4
    <3>6. \A k \in 1..(Len(p)+1) : g[n][k] = j[to[k]]
      BY <2>0, <2>a, <3>2 DEF Origin
    <3>7. \A k, m \in 1..(Len(p)+1) : k < m => to[k] < to[m]
      BY <2>0, <2>a, <3>4 DEF Origin
    <3>8. \A i \in I \cap (1..n) : \E k \in 1..(Len(p)+1) : to[k] = i
      <4> SUFFICES ASSUME NEW i \in I \cap (1..n)
                   PROVE  \E k \in 1..(Len(p)+1) : to[k] = i
        OBVIOUS
      <4>1. CASE i = n
        <5>1. to[Len(p)+1] = n /\ Len(p)+1 \in 1..(Len(p)+1)
          BY <2>0
        <5> QED
          BY <4>1, <5>1
      <4>2. CASE i # n
        <5>1. i \in I \cap (1..(n-1))
          BY <3>3, <4>2
        <5>2. PICK k \in 1..Len(p) : at[k] = i
          BY <2>a, <5>1 DEF Origin
        <5>3. to[k] = i /\ k \in 1..(Len(p)+1)
          BY <2>0, <5>2
        <5> QED
          BY <5>3
      <4> QED
        BY <4>1, <4>2
    <3> HIDE DEF to
    <3>9. Origin(to, g[n], n, j, I)
      BY <3>2, <3>5, <3>6, <3>7, <3>8 DEF Origin
    <3> QED
      BY <3>2, <3>9
  <2> QED
    BY <2>1, <2>2
<1>7. \A n \in 0..Len(j) : Good(n)
  <2> DEFINE S == {n \in 0..Len(j) : ~Good(n)}
  <2> HIDE DEF Good
  <2>1. SUFFICES ASSUME S # {} PROVE FALSE
    OBVIOUS
  <2>2. S \in SUBSET Nat
    BY <1>0
  <2>3. PICK n \in S : \A k \in S : n <= k
    BY <2>1, <2>2, LeastElement, Zenon
  <2> QED
    BY <1>0, <1>5, <1>6, <2>3
<1> QED
  BY <1>0, <1>3, <1>7

\* What picked entries say, as long as the deciding ones are among them.
LEMMA PickedSays ==
  ASSUME NEW j \in Seq(Entry), NEW I \in SUBSET (1..Len(j)), NEW p,
         p = Picked(j, I)
  PROVE  /\ p \in Seq(Entry)
         /\ \A i \in I : IsLast(i, Starts(j)) => LatestStarted(p) = j[i].run
         /\ \A r, i : i \in I /\ IsLast(i, IndexesOf(j, "terminal", r)) =>
              FindRunTerminal(p, r) = j[i]
         /\ \A t, r : Has(p, t, r) <=> \E i \in I : j[i].type = t /\ j[i].run = r
         /\ \A i \in I : IsLast(i, Starts(j)) /\
              (\A m \in IndexesOf(j, "terminal", j[i].run) :
                 \E n \in IndexesOf(j, "terminal", j[i].run) \cap I : m <= n)
              => FindUnterminatedRun(p) = FindUnterminatedRun(j)
         /\ \A L : Upto(j, L) /\ LatestStarted(p) = L => Upto(p, L)
<1>0. p \in Seq(Entry) /\ Len(p) \in Nat /\ Len(j) \in Nat
  BY PickedIs
<1>1. PICK at : Origin(at, p, Len(j), j, I)
  BY PickedIs
<1>2. /\ \A k \in 1..Len(p) : at[k] \in I /\ at[k] \in 1..Len(j) /\ p[k] = j[at[k]]
      /\ \A k, m \in 1..Len(p) : k < m => at[k] < at[m]
      /\ \A i \in I : \E k \in 1..Len(p) : at[k] = i
  BY <1>1 DEF Origin
<1>3. \A k, m \in 1..Len(p) : at[k] <= at[m] => k <= m
  BY <1>0, <1>2
<1>4. ASSUME NEW i \in I, IsLast(i, Starts(j))
      PROVE  \E k \in 1..Len(p) : at[k] = i /\ IsLast(k, Starts(p))
  <2>1. PICK k \in 1..Len(p) : at[k] = i
    BY <1>2
  <2>2. \A m \in Starts(p) : m \in 1..Len(p) /\ at[m] \in Starts(j)
    BY <1>2 DEF Starts
  <2>3. k \in Starts(p)
    BY <1>2, <1>4, <2>1 DEF IsLast, Starts
  <2>4. \A m \in Starts(p) : m <= k
    BY <1>3, <1>4, <2>1, <2>2 DEF IsLast
  <2> QED
    BY <2>1, <2>3, <2>4 DEF IsLast
<1>5. \A i \in I : IsLast(i, Starts(j)) => LatestStarted(p) = j[i].run
  BY <1>0, <1>2, <1>4, LatestIs
<1>6. ASSUME NEW r, NEW i \in I, IsLast(i, IndexesOf(j, "terminal", r))
      PROVE  FindRunTerminal(p, r) = j[i]
  <2> DEFINE T == IndexesOf(j, "terminal", r)
             U == IndexesOf(p, "terminal", r)
  <2>1. PICK k \in 1..Len(p) : at[k] = i
    BY <1>2
  <2>2. \A m \in U : m \in 1..Len(p) /\ at[m] \in T
    BY <1>2 DEF IndexesOf
  <2>3. i \in T /\ \A m \in T : m <= i
    BY <1>6 DEF IsLast
  <2>4. k \in U
    BY <1>2, <2>1, <2>3 DEF IndexesOf
  <2> HIDE DEF T, U
  <2>5. \A m \in U : m <= k
    BY <1>3, <2>1, <2>2, <2>3
  <2>6. IsLast(k, U)
    BY <2>4, <2>5 DEF IsLast
  <2> QED
    BY <1>0, <1>2, <2>1, <2>6, TerminalIs DEF U
<1>7. ASSUME NEW t, NEW r
      PROVE  Has(p, t, r) <=> \E i \in I : j[i].type = t /\ j[i].run = r
  <2>1. Has(p, t, r) <=> \E k \in 1..Len(p) : p[k].type = t /\ p[k].run = r
    BY DEF Has, IndexesOf
  <2> QED
    BY <1>2, <2>1
<1>8. ASSUME NEW i \in I, IsLast(i, Starts(j)),
             \A m \in IndexesOf(j, "terminal", j[i].run) :
               \E n \in IndexesOf(j, "terminal", j[i].run) \cap I : m <= n
      PROVE  FindUnterminatedRun(p) = FindUnterminatedRun(j)
  <2> DEFINE T == IndexesOf(j, "terminal", j[i].run)
  <2>1. PICK k \in 1..Len(p) : at[k] = i /\ IsLast(k, Starts(p))
    BY <1>4, <1>8
  <2>2. p[k] = j[i] /\ i \in 1..Len(j)
    BY <1>2, <2>1
  <2>3. OpenAt(j, i, Len(j)) => OpenAt(p, k, Len(p))
    <3> SUFFICES ASSUME OpenAt(j, i, Len(j)), NEW m \in k..Len(p)
                 PROVE  ~(p[m].type = "terminal" /\ p[m].run = p[k].run)
      BY DEF OpenAt
    <3>1. m \in 1..Len(p) /\ (k = m \/ k < m)
      BY <1>0
    <3>2. at[m] \in i..Len(j) /\ p[m] = j[at[m]]
      BY <1>2, <2>1, <2>2, <3>1
    <3> QED
      BY <2>2, <3>2 DEF OpenAt
  <2>4. ASSUME OpenAt(p, k, Len(p)) PROVE OpenAt(j, i, Len(j))
    <3> SUFFICES ASSUME NEW m \in i..Len(j),
                        j[m].type = "terminal", j[m].run = j[i].run
                 PROVE  FALSE
      BY DEF OpenAt
    <3>1. m \in T
      BY <2>2 DEF IndexesOf
    <3>2. PICK n \in T \cap I : m <= n
      BY <1>8, <3>1
    <3>3. /\ n \in 1..Len(j) /\ i <= n
          /\ j[n].type = "terminal" /\ j[n].run = j[i].run
      BY <2>2, <3>2 DEF IndexesOf
    <3>4. PICK x \in 1..Len(p) : at[x] = n
      BY <1>2, <3>2
    <3>5. k <= x
      BY <1>3, <2>1, <3>3, <3>4
    <3>6. x \in k..Len(p) /\ p[x] = j[n]
      BY <1>0, <1>2, <3>4, <3>5
    <3> QED
      BY <2>2, <2>4, <3>3, <3>6 DEF OpenAt
  <2>5. FindUnterminatedRun(j) = IF OpenAt(j, i, Len(j)) THEN j[i].run ELSE NoRun
    BY <1>8, UnterminatedIs
  <2>6. FindUnterminatedRun(p) = IF OpenAt(p, k, Len(p)) THEN p[k].run ELSE NoRun
    BY <1>0, <2>1, UnterminatedIs
  <2> QED
    BY <2>2, <2>3, <2>4, <2>5, <2>6
<1>9. ASSUME NEW L, Upto(j, L), LatestStarted(p) = L PROVE Upto(p, L)
  <2>1. \A k \in 1..Len(p) : p[k].run <= L
    BY <1>2, <1>9 DEF Upto
  <2>2. ASSUME NEW i \in 1..Len(p), NEW k \in 1..Len(p),
               p[i].type = "terminal", p[k].type = "started", p[i].run = p[k].run
        PROVE  k < i
    <3>a. /\ at[i] \in 1..Len(j) /\ p[i] = j[at[i]]
          /\ at[k] \in 1..Len(j) /\ p[k] = j[at[k]]
      BY <1>2
    <3>1. at[k] < at[i]
      BY <1>9, <2>2, <3>a DEF Upto
    <3>2. at[k] \in Int /\ at[i] \in Int
      BY <1>2
    <3> QED
      BY <1>0, <1>2, <3>1, <3>2
  <2> QED
    BY <1>9, <2>1, <2>2 DEF Upto
<1> QED
  BY <1>0, <1>5, <1>6, <1>7, <1>8, <1>9

\* The headers that are read answer as the whole journal does.
LEMMA HeadersAgree ==
  ASSUME NEW j \in Seq(Entry)
  PROVE  /\ FindUnterminatedRun(RunMarkerHeaders(j)) = FindUnterminatedRun(j)
         /\ FindResumableRun(RunMarkerHeaders(j)) = FindResumableRun(j)
<1>1. CASE ~segmented
  BY <1>1 DEF RunMarkerHeaders
<1>2. CASE segmented
  <2> DEFINE L == LatestStarted(j)
             I == {i \in 1..Len(j) :
                     /\ j[i].run = L
                     /\ \A k \in IndexesOf(j, j[i].type, L) : k <= i}
             p == Picked(j, I)
  <2>1. RunMarkerHeaders(j) = p
    BY <1>2 DEF RunMarkerHeaders
  <2>2. I \in SUBSET (1..Len(j)) /\ Len(j) \in Nat
    OBVIOUS
  <2>3. \A t, i : IsLast(i, IndexesOf(j, t, L)) => i \in I
    BY DEF IsLast, IndexesOf
  <2>4. \A t : IndexesOf(j, t, L) # {} =>
          IsLast(Max(IndexesOf(j, t, L)), IndexesOf(j, t, L))
    <3> SUFFICES ASSUME NEW t, IndexesOf(j, t, L) # {}
                 PROVE  IsLast(Max(IndexesOf(j, t, L)), IndexesOf(j, t, L))
      OBVIOUS
    <3>1. IndexesOf(j, t, L) \in SUBSET (1..Len(j))
      BY DEF IndexesOf
    <3> QED
      BY <2>2, <3>1, LastOne DEF IsLast
  <2>5. \A i \in I : j[i].run = L
    OBVIOUS
  <2> HIDE DEF I, p
  <2>6. p \in Seq(Entry)
    BY <2>2, PickedSays DEF p
  <2>7. ASSUME NEW t PROVE Has(p, t, L) <=> Has(j, t, L)
    <3>1. Has(p, t, L) <=> \E i \in I : j[i].type = t /\ j[i].run = L
      BY <2>2, PickedSays DEF p
    <3>2. Has(j, t, L) => \E i \in I : i \in IndexesOf(j, t, L)
      BY <2>3, <2>4 DEF Has, IsLast
    <3> QED
      BY <2>2, <3>1, <3>2 DEF Has, IndexesOf
  <2>8. CASE L = NoRun
    <3>1. Starts(j) = {}
      BY <2>8, LatestIs
    <3>2. \A i \in 1..Len(j) : j[i] \in Entry
      OBVIOUS
    <3>3. \A i \in 1..Len(j) : j[i].run # NoRun
      BY <3>2 DEF Entry, Runs, NoRun
    <3>4. I = {}
      BY <2>2, <2>5, <2>8, <3>3
    <3>5. \A t, r : ~Has(p, t, r)
      BY <2>2, <3>4, PickedSays DEF p
    <3>6. Starts(p) = {}
      <4> SUFFICES ASSUME NEW i \in Starts(p) PROVE FALSE
        OBVIOUS
      <4>1. Has(p, "started", p[i].run)
        BY DEF Has, IndexesOf, Starts
      <4> QED
        BY <3>5, <4>1
    <3>7. FindUnterminatedRun(p) = NoRun /\ FindUnterminatedRun(j) = NoRun
      BY <2>6, <3>1, <3>6, UnterminatedIs
    <3>8. LatestStarted(p) = NoRun
      BY <2>6, <3>6, LatestIs
    <3> QED
      BY <2>1, <2>8, <3>7, <3>8 DEF FindResumableRun
  <2>9. CASE L # NoRun
    <3> DEFINE i == Max(Starts(j))
    <3>1. IsLast(i, Starts(j)) /\ j[i].run = L
      BY <2>9, LatestIs
    <3> HIDE DEF i
    <3>2. IsLast(i, IndexesOf(j, "started", L))
      BY <3>1 DEF IsLast, Starts, IndexesOf
    <3>3. i \in I
      BY <2>3, <3>2
    <3>4. LatestStarted(p) = L
      BY <2>2, <3>1, <3>3, PickedSays DEF p
    <3>5. \A m \in IndexesOf(j, "terminal", L) :
            \E n \in IndexesOf(j, "terminal", L) \cap I : m <= n
      BY <2>3, <2>4 DEF IsLast
    <3>6. FindUnterminatedRun(p) = FindUnterminatedRun(j)
      BY <2>2, <3>1, <3>3, <3>5, PickedSays DEF p
    <3>7. FindRunTerminal(p, L) = FindRunTerminal(j, L)
      <4>1. CASE Has(j, "terminal", L)
        <5> DEFINE k == Max(IndexesOf(j, "terminal", L))
        <5>1. IsLast(k, IndexesOf(j, "terminal", L))
          BY <2>4, <4>1 DEF Has
        <5> HIDE DEF k
        <5>2. k \in I
          BY <2>3, <5>1
        <5>3. FindRunTerminal(p, L) = j[k]
          BY <2>2, <5>1, <5>2, PickedSays DEF p
        <5> QED
          BY <5>1, <5>3, TerminalIs
      <4>2. CASE ~Has(j, "terminal", L)
        BY <2>6, <2>7, <4>2, TerminalIs
      <4> QED
        BY <4>1, <4>2
    <3>8. IndexesOf(p, "stop", L) = {} <=> IndexesOf(j, "stop", L) = {}
      BY <2>7 DEF Has
    <3> QED
      BY <2>1, <3>4, <3>6, <3>7, <3>8 DEF FindResumableRun
  <2> QED
    BY <2>8, <2>9
<1> QED
  BY <1>1, <1>2

-----------------------------------------------------------------------------
(* What the recovery at start and the start of a run append.               *)

Running(j, r) == Has(j, "started", r) /\ ~Has(j, "terminal", r)

Closing(j, r) == IF Has(j, "stop", r) THEN Terminal(r, "cancelled", "user_stop")
                 ELSE Terminal(r, "interrupted", "process_restart")

\* Recovery closes every run without a terminal, and says nothing else.
LEMMA RecoverIs ==
  ASSUME NEW j \in Seq(Entry), NEW k, k = RecoverSegmentedRuns(j)
  PROVE  /\ k \in Seq(Entry)
         /\ LatestStarted(k) = LatestStarted(j)
         /\ \A r \in Runs : FindRunTerminal(k, r) =
              IF Running(j, r) THEN Closing(j, r) ELSE FindRunTerminal(j, r)
         /\ \A r : /\ Has(k, "started", r) <=> Has(j, "started", r)
                   /\ Has(k, "stop", r) <=> Has(j, "stop", r)
         /\ \A L : Upto(j, L) => Upto(k, L)
<1> DEFINE s == [r \in Runs |-> Closing(j, r)]
           R == {r \in Runs : Running(j, r)}
           c == Picked(s, R)
<1>1. k = j \o c
  <2>1. RecoverSegmentedRuns(j) =
          j \o Picked([r \in Runs |-> Closing(j, r)],
                 {r \in Runs : /\ IndexesOf(j, "started", r) # {}
                               /\ FindRunTerminal(j, r) = NoTerminal})
    BY DEF RecoverSegmentedRuns, Closing, Has
  <2>2. R = {r \in Runs : /\ IndexesOf(j, "started", r) # {}
                          /\ FindRunTerminal(j, r) = NoTerminal}
    <3>1. \A r : FindRunTerminal(j, r) = NoTerminal <=> ~Has(j, "terminal", r)
      BY TerminalIs
    <3> QED
      BY <3>1 DEF Running, Has
  <2> QED
    BY <2>1, <2>2
<1>2. \A r \in Runs : Closing(j, r) \in Entry
  BY DEF Closing, Terminal, Entry
<1>3. s \in Seq(Entry) /\ Len(s) = MaxRuns /\ MaxRuns \in Nat
  BY <1>2, ConstantsAssumption DEF Runs
<1>4. c \in Seq(Entry) /\ Len(c) \in Nat /\ Len(j) \in Nat
  <2> HIDE DEF s, R
  <2>1. c \in Seq(Entry)
    BY <1>3, PickedIs
  <2> HIDE DEF c
  <2> QED
    BY <2>1
<1>5. PICK at : Origin(at, c, Len(s), s, R)
  BY <1>3, PickedIs
<1>6. /\ \A m \in 1..Len(c) : at[m] \in R /\ c[m] = s[at[m]]
      /\ \A m, n \in 1..Len(c) : m < n => at[m] < at[n]
      /\ \A r \in R : \E m \in 1..Len(c) : at[m] = r
  <2>1. R \cap (1..Len(s)) = R
    BY <1>3 DEF Runs
  <2> HIDE DEF R, s, c
  <2> QED
    BY <1>5, <2>1 DEF Origin
<1>7. \A m \in 1..Len(c) :
        /\ at[m] \in Runs /\ Running(j, at[m])
        /\ c[m] = Closing(j, at[m])
        /\ c[m].type = "terminal" /\ c[m].run = at[m]
  BY <1>6 DEF Closing, Terminal
<1>8. \A r \in Runs : Running(j, r) => \E m \in 1..Len(c) : at[m] = r
  BY <1>6
<1> HIDE DEF c, R, s
<1>9. /\ k \in Seq(Entry) /\ Len(k) = Len(j) + Len(c)
      /\ \A i \in 1..Len(j) : k[i] = j[i]
      /\ \A i \in 1..Len(k) : i \notin 1..Len(j) =>
           i - Len(j) \in 1..Len(c) /\ k[i] = c[i - Len(j)]
      /\ \A m \in 1..Len(c) : Len(j) + m \in 1..Len(k) /\ k[Len(j) + m] = c[m]
  BY <1>1, <1>4
<1>10. \A m, n \in 1..Len(c) : at[m] = at[n] => m = n
  BY <1>4, <1>6, <1>7 DEF Runs
<1>11. ASSUME NEW t, NEW r, t # "terminal"
       PROVE  IndexesOf(k, t, r) = IndexesOf(j, t, r)
  <2>1. ASSUME NEW i \in IndexesOf(k, t, r) PROVE i \in IndexesOf(j, t, r)
    <3>1. i \in 1..Len(k) /\ k[i].type = t /\ k[i].run = r
      BY DEF IndexesOf
    <3>2. i \in 1..Len(j)
      BY <1>7, <1>9, <1>11, <3>1
    <3> QED
      BY <1>9, <3>1, <3>2 DEF IndexesOf
  <2>2. ASSUME NEW i \in IndexesOf(j, t, r) PROVE i \in IndexesOf(k, t, r)
    BY <1>4, <1>9 DEF IndexesOf
  <2> QED
    BY <2>1, <2>2
<1>12. Starts(k) = Starts(j)
  <2>1. ASSUME NEW i \in Starts(k) PROVE i \in Starts(j)
    <3>1. i \in 1..Len(k) /\ k[i].type = "started"
      BY DEF Starts
    <3>2. i \in 1..Len(j)
      BY <1>7, <1>9, <3>1
    <3> QED
      BY <1>9, <3>1, <3>2 DEF Starts
  <2>2. ASSUME NEW i \in Starts(j) PROVE i \in Starts(k)
    BY <1>4, <1>9 DEF Starts
  <2> QED
    BY <2>1, <2>2
<1>13. LatestStarted(k) = LatestStarted(j)
  <2>1. CASE Starts(j) = {}
    BY <1>9, <1>12, <2>1, LatestIs
  <2>2. CASE Starts(j) # {}
    <3> DEFINE i == Max(Starts(j))
    <3>1. IsLast(i, Starts(j)) /\ IsLast(i, Starts(k))
      BY <1>12, <2>2, LatestIs
    <3>2. i \in 1..Len(j)
      BY <3>1 DEF IsLast, Starts
    <3> HIDE DEF i
    <3> QED
      BY <1>9, <3>1, <3>2, LatestIs
  <2> QED
    BY <2>1, <2>2
<1>14. ASSUME NEW r \in Runs, Running(j, r)
       PROVE  FindRunTerminal(k, r) = Closing(j, r)
  <2> DEFINE T == IndexesOf(k, "terminal", r)
  <2>1. PICK m \in 1..Len(c) : at[m] = r
    BY <1>8, <1>14
  <2>2. IndexesOf(j, "terminal", r) = {}
    BY <1>14 DEF Running, Has
  <2>3. T \subseteq {Len(j) + m}
    <3> SUFFICES ASSUME NEW i \in T PROVE i = Len(j) + m
      OBVIOUS
    <3>1. i \in 1..Len(k) /\ k[i].type = "terminal" /\ k[i].run = r
      BY DEF IndexesOf
    <3>2. i \notin 1..Len(j)
      BY <1>9, <2>2, <3>1 DEF IndexesOf
    <3>3. i - Len(j) \in 1..Len(c) /\ k[i] = c[i - Len(j)]
      BY <1>9, <3>1, <3>2
    <3>4. at[i - Len(j)] = r
      BY <1>7, <3>1, <3>3
    <3>5. i - Len(j) = m
      BY <1>10, <2>1, <3>3, <3>4
    <3>6. i \in Int
      BY <3>1
    <3> QED
      BY <1>4, <3>5, <3>6
  <2>4. Len(j) + m \in T
    BY <1>7, <1>9, <2>1 DEF IndexesOf
  <2>5. IsLast(Len(j) + m, T)
    <3> HIDE DEF T
    <3> QED
      BY <1>4, <2>3, <2>4 DEF IsLast
  <2>6. FindRunTerminal(k, r) = k[Len(j) + m]
    BY <1>9, <2>5, TerminalIs
  <2> QED
    BY <1>7, <1>9, <2>1, <2>6
<1>15. ASSUME NEW r \in Runs, ~Running(j, r)
       PROVE  FindRunTerminal(k, r) = FindRunTerminal(j, r)
  <2> DEFINE S == IndexesOf(j, "terminal", r)
             T == IndexesOf(k, "terminal", r)
  <2>1. T = S
    <3>1. S \subseteq T
      BY <1>4, <1>9 DEF IndexesOf
    <3>2. ASSUME NEW i \in T PROVE i \in S
      <4>1. i \in 1..Len(k) /\ k[i].type = "terminal" /\ k[i].run = r
        BY DEF IndexesOf
      <4>2. CASE i \in 1..Len(j)
        BY <1>9, <4>1, <4>2 DEF IndexesOf
      <4>3. CASE i \notin 1..Len(j)
        BY <1>7, <1>9, <1>15, <4>1, <4>3
      <4> QED
        BY <4>2, <4>3
    <3> QED
      BY <3>1, <3>2
  <2>2. CASE S = {}
    BY <1>9, <2>1, <2>2, TerminalIs DEF Has
  <2>3. CASE S # {}
    <3> DEFINE i == Max(S)
    <3>1. IsLast(i, S) /\ IsLast(i, T)
      BY <2>1, <2>3, TerminalIs DEF Has
    <3>2. i \in 1..Len(j)
      BY <3>1 DEF IsLast, IndexesOf
    <3> HIDE DEF i
    <3> QED
      BY <1>9, <3>1, <3>2, TerminalIs
  <2> QED
    BY <2>2, <2>3
<1>16. ASSUME NEW L, Upto(j, L) PROVE Upto(k, L)
  <2>1. \A r : Has(j, "started", r) => r <= L
    BY <1>16 DEF Upto, Has, IndexesOf
  <2>2. \A i \in 1..Len(k) : k[i].run <= L
    <3> SUFFICES ASSUME NEW i \in 1..Len(k) PROVE k[i].run <= L
      OBVIOUS
    <3>1. CASE i \in 1..Len(j)
      BY <1>9, <1>16, <3>1 DEF Upto
    <3>2. CASE i \notin 1..Len(j)
      BY <1>7, <1>9, <2>1, <3>2 DEF Running
    <3> QED
      BY <3>1, <3>2
  <2>3. ASSUME NEW i \in 1..Len(k), NEW m \in 1..Len(k),
               k[i].type = "terminal", k[m].type = "started", k[i].run = k[m].run
        PROVE  m < i
    <3>1. m \in 1..Len(j)
      BY <1>7, <1>9, <2>3
    <3>2. CASE i \in 1..Len(j)
      BY <1>9, <1>16, <2>3, <3>1, <3>2 DEF Upto
    <3>3. CASE i \notin 1..Len(j)
      BY <1>4, <1>9, <3>1, <3>3
    <3> QED
      BY <3>2, <3>3
  <2> QED
    BY <1>13, <1>16, <2>2, <2>3 DEF Upto
<1>17. \A r : /\ Has(k, "started", r) <=> Has(j, "started", r)
              /\ Has(k, "stop", r) <=> Has(j, "stop", r)
  BY <1>11 DEF Has
<1> QED
  BY <1>9, <1>13, <1>14, <1>15, <1>16, <1>17

\* The start of a run closes the latest one unless it has its terminal.
LEMMA StartIs ==
  ASSUME NEW j \in Seq(Entry), NEW L \in Nat, Upto(j, L), L < MaxRuns,
         NEW k, k = AppendRunStart(j, L + 1)
  PROVE  /\ k \in Seq(Entry)
         /\ Upto(k, L + 1)
         /\ \A r \in Runs : r # L => FindRunTerminal(k, r) = FindRunTerminal(j, r)
         /\ L # NoRun => /\ FindRunTerminal(k, L) # NoTerminal
                         /\ FindRunTerminal(j, L) # NoTerminal =>
                              FindRunTerminal(k, L) = FindRunTerminal(j, L)
         /\ \A t, r : Has(j, t, r) => Has(k, t, r)
         /\ Has(k, "started", L + 1) /\ ~Has(k, "terminal", L + 1)
<1> DEFINE open == FindUnterminatedRun(j)
           e == Terminal(open, "interrupted", "none")
           h == IF open = NoRun THEN j ELSE Append(j, e)
<1>1. k = h \o <<Started(L + 1)>>
  BY HeadersAgree DEF AppendRunStart
<1>2. L + 1 \in Runs /\ MaxRuns \in Nat
  BY ConstantsAssumption DEF Runs
<1>3. Started(L + 1) \in Entry
  BY <1>2 DEF Started, Entry
<1>4. /\ Starts(j) = {} => open = NoRun /\ L = NoRun
      /\ Starts(j) # {} => L \in Runs
      /\ open # NoRun => open = L /\ ~Has(j, "terminal", L) /\ L \in Runs
      /\ open = NoRun /\ L # NoRun => Has(j, "terminal", L)
  <2>1. LatestStarted(j) = L
    BY DEF Upto
  <2>2. CASE Starts(j) = {}
    BY <2>1, <2>2, LatestIs, UnterminatedIs
  <2>3. CASE Starts(j) # {}
    <3> DEFINE i == Max(Starts(j))
    <3>1. IsLast(i, Starts(j)) /\ L = j[i].run
      BY <2>1, <2>3, LatestIs
    <3>2. i \in 1..Len(j) /\ j[i].type = "started" /\ j[i] \in Entry
      BY <3>1 DEF IsLast, Starts
    <3>3. L \in Runs /\ L # NoRun
      BY <3>1, <3>2 DEF Entry, Runs, NoRun
    <3> HIDE DEF i
    <3>4. open = IF OpenAt(j, i, Len(j)) THEN L ELSE NoRun
      BY <3>1, UnterminatedIs
    <3>5. ASSUME OpenAt(j, i, Len(j)) PROVE ~Has(j, "terminal", L)
      <4> SUFFICES ASSUME NEW m \in 1..Len(j), j[m].type = "terminal", j[m].run = L
                   PROVE  FALSE
        BY DEF Has, IndexesOf
      <4>1. i < m
        BY <3>1, <3>2 DEF Upto
      <4>2. m \in i..Len(j)
        BY <3>2, <4>1
      <4> QED
        BY <3>1, <3>5, <4>2 DEF OpenAt
    <3>6. ASSUME ~OpenAt(j, i, Len(j)) PROVE Has(j, "terminal", L)
      BY <3>1, <3>2, <3>6 DEF OpenAt, Has, IndexesOf
    <3> QED
      BY <2>3, <3>3, <3>4, <3>5, <3>6
  <2> QED
    BY <2>2, <2>3
<1> HIDE DEF open
<1>5. open # NoRun => e \in Entry /\ e.type = "terminal" /\ e.run = L
  BY <1>4 DEF Terminal, Entry
<1>6. h \in Seq(Entry)
  BY <1>5, Appended
<1>7. k = Append(h, Started(L + 1))
  <2> HIDE DEF h
  <2> QED
    BY <1>1, <1>3, <1>6
<1>8. Upto(h, L)
  <2>1. CASE open = NoRun
    BY <2>1
  <2>2. CASE open # NoRun
    BY <1>5, <2>2, AppendedUpto
  <2> QED
    BY <2>1, <2>2
<1>9. /\ \A r \in Runs : r # L => FindRunTerminal(h, r) = FindRunTerminal(j, r)
      /\ L # NoRun => /\ FindRunTerminal(h, L) # NoTerminal
                      /\ FindRunTerminal(j, L) # NoTerminal =>
                           FindRunTerminal(h, L) = FindRunTerminal(j, L)
      /\ \A t, r : Has(j, t, r) => Has(h, t, r)
  <2>1. CASE open = NoRun
    <3>1. L # NoRun => FindRunTerminal(j, L) # NoTerminal
      BY <1>4, <2>1, TerminalIs
    <3> QED
      BY <2>1, <3>1
  <2>2. CASE open # NoRun
    <3>1. /\ \A r : FindRunTerminal(h, r) =
                      IF r = L THEN e ELSE FindRunTerminal(j, r)
          /\ \A t, r : Has(j, t, r) => Has(h, t, r)
      BY <1>5, <2>2, Appended
    <3>2. FindRunTerminal(j, L) = NoTerminal
      BY <1>4, <2>2, TerminalIs
    <3>3. e # NoTerminal
      BY <1>4, <2>2 DEF Terminal, NoTerminal
    <3> HIDE DEF e, h
    <3> QED
      BY <3>1, <3>2, <3>3
  <2> QED
    BY <2>1, <2>2
<1> HIDE DEF h, e
<1>10. ~Has(h, "terminal", L + 1)
  <2> SUFFICES ASSUME NEW i \in 1..Len(h), h[i].run = L + 1
               PROVE  FALSE
    BY DEF Has, IndexesOf
  <2>1. L + 1 <= L
    BY <1>8 DEF Upto
  <2> QED
    BY <2>1
<1>11. /\ Started(L + 1).type = "started" /\ Started(L + 1).run = L + 1
  BY DEF Started
<1>12. Upto(k, L + 1)
  <2>1. L + 1 >= L
    OBVIOUS
  <2> QED
    BY <1>3, <1>6, <1>7, <1>8, <1>10, <1>11, <2>1, AppendedUpto
<1>13. /\ k \in Seq(Entry)
       /\ \A r : FindRunTerminal(k, r) = FindRunTerminal(h, r)
       /\ \A t, r : Has(k, t, r) <=>
                      Has(h, t, r) \/ (t = "started" /\ r = L + 1)
  <2> DEFINE b == Started(L + 1)
  <2>1. b \in Entry /\ b.type = "started" /\ b.run = L + 1 /\ k = Append(h, b)
    BY <1>3, <1>7, <1>11
  <2> HIDE DEF b
  <2>2. /\ Append(h, b) \in Seq(Entry)
        /\ \A r : FindRunTerminal(Append(h, b), r) =
                     IF b.type = "terminal" /\ b.run = r THEN b
                     ELSE FindRunTerminal(h, r)
        /\ \A t, r : Has(Append(h, b), t, r) <=>
                        Has(h, t, r) \/ (b.type = t /\ b.run = r)
    BY <1>6, <2>1, Appended
  <2>3. \A r : FindRunTerminal(k, r) = FindRunTerminal(h, r)
    BY <2>1, <2>2
  <2>4. ASSUME NEW t, NEW r
        PROVE  Has(k, t, r) <=> Has(h, t, r) \/ (t = "started" /\ r = L + 1)
    <3>1. Has(k, t, r) <=> Has(h, t, r) \/ (b.type = t /\ b.run = r)
      BY <2>1, <2>2
    <3>2. b.type = t <=> t = "started"
      BY <2>1
    <3>3. b.run = r <=> r = L + 1
      BY <2>1
    <3> QED
      BY <3>1, <3>2, <3>3
  <2> QED
    BY <2>1, <2>2, <2>3, <2>4
<1> QED
  BY <1>9, <1>10, <1>12, <1>13

-----------------------------------------------------------------------------
(* What a step does to the journal and the live run.                       *)

\* What a run's end needs to be final across a step.
Final ==
  \A r \in Runs :
    /\ FindRunTerminal(journal, r).state \in {"completed", "cancelled"}
    /\ Has(journal', "started", r)
    => FindRunTerminal(journal', r).state = FindRunTerminal(journal, r).state

\* The journal has the latest run it had, and of the other runs the same ends.
Extends ==
  /\ journal' \in Seq(Entry)
  /\ Upto(journal', LatestStarted(journal))
  /\ segmented => \A t, r : Has(journal, t, r) => Has(journal', t, r)

\* The latest run is a number.
LEMMA LatestNumber ==
  ASSUME Types
  PROVE  LatestStarted(journal) \in Nat
<1>1. LatestStarted(journal) \in Runs \cup {NoRun}
  BY LatestIs DEF Types
<1> QED
  BY <1>1 DEF Runs, NoRun

\* Nothing is appended.
LEMMA SameJournal ==
  ASSUME Types, Latest, journal' = journal
  PROVE  Extends /\ Final
BY DEF Types, Latest, Extends, Final

\* One entry of a known run is appended.
LEMMA Grown ==
  ASSUME Types, Latest, NEW e \in Entry, journal' = Append(journal, e),
         e.type # "started", e.run <= LatestStarted(journal)
  PROVE  /\ Extends
         /\ \A r : FindRunTerminal(journal', r) =
                     IF e.type = "terminal" /\ e.run = r THEN e
                     ELSE FindRunTerminal(journal, r)
         /\ \A t, r : Has(journal', t, r) <=>
                        Has(journal, t, r) \/ (e.type = t /\ e.run = r)
         /\ LatestStarted(journal') = LatestStarted(journal)
<1>1. journal \in Seq(Entry) /\ LatestStarted(journal) \in Nat
  BY LatestNumber DEF Types
<1>2. Upto(journal, LatestStarted(journal))
  BY DEF Latest
<1>3. Upto(journal', LatestStarted(journal))
  BY <1>1, <1>2, AppendedUpto
<1>4. /\ journal' \in Seq(Entry)
      /\ \A r : FindRunTerminal(journal', r) =
                  IF e.type = "terminal" /\ e.run = r THEN e
                  ELSE FindRunTerminal(journal, r)
      /\ \A t, r : Has(journal', t, r) <=>
                     Has(journal, t, r) \/ (e.type = t /\ e.run = r)
  BY <1>1, Appended
<1>5. LatestStarted(journal') = LatestStarted(journal)
  BY <1>3 DEF Upto
<1> QED
  BY <1>3, <1>4, <1>5 DEF Extends

\* A terminal is appended to a run that had none, or none that is final.
LEMMA GrownFinal ==
  ASSUME Types, Latest, NEW e \in Entry, journal' = Append(journal, e),
         e.type # "started", e.run <= LatestStarted(journal),
         e.type = "terminal" =>
           FindRunTerminal(journal, e.run).state \notin {"completed", "cancelled"}
  PROVE  Final
<1>1. \A r : FindRunTerminal(journal', r) =
               IF e.type = "terminal" /\ e.run = r THEN e
               ELSE FindRunTerminal(journal, r)
  BY Grown
<1> QED
  BY <1>1 DEF Final

\* A run without a terminal has no final one.
LEMMA NoneIsOpen ==
  ASSUME NEW j \in Seq(Entry), NEW r
  PROVE  /\ ~Has(j, "terminal", r) <=> FindRunTerminal(j, r) = NoTerminal
         /\ FindRunTerminal(j, r) \in Entry \cup {NoTerminal}
         /\ FindRunTerminal(j, r) = NoTerminal =>
              /\ FindRunTerminal(j, r).state \notin {"completed", "cancelled"}
              /\ FindRunTerminal(j, r).cause # "system_shutdown"
<1>1. NoTerminal.state = "none" /\ NoTerminal.cause = "none"
  BY DEF NoTerminal, Terminal
<1> QED
  BY <1>1, TerminalIs

\* The fields of the records that are written.
LEMMA Fields ==
  ASSUME NEW r, NEW s, NEW c
  PROVE  /\ Terminal(r, s, c).type = "terminal" /\ Terminal(r, s, c).run = r
         /\ Terminal(r, s, c).state = s /\ Terminal(r, s, c).cause = c
         /\ StopRequested(r).type = "stop" /\ StopRequested(r).run = r
         /\ Nothing.run = NoRun /\ Nothing.phase = "idle"
         /\ Nothing.cause = "none" /\ Nothing.task = "gone"
         /\ NoStop.at = "none"
         /\ Nothing \in LiveRun /\ NoStop \in StopCall
BY DEF Terminal, StopRequested, Nothing, NoStop, LiveRun, StopCall

\* The live run is the latest.
LEMMA LiveIsRun ==
  ASSUME Types, Phased, Latest, live # Nothing
  PROVE  /\ live.run \in Runs /\ live.run # NoRun
         /\ live.run = LatestStarted(journal) /\ live.phase # "idle"
<1>1. live.run \in Runs \cup {NoRun}
  BY DEF Types, LiveRun
<1> QED
  BY <1>1 DEF Phased, Latest

\* What a task writes at its end.
LEMMA TaskTerminalIs ==
  ASSUME Types, Phased, live # Nothing
  PROVE  /\ TaskTerminal \in Entry /\ TaskTerminal.type = "terminal"
         /\ TaskTerminal.run = live.run
         /\ TaskTerminal.cause = "system_shutdown" <=> live.cause = "shutdown"
<1>1. live.run \in Runs
  BY DEF Types, LiveRun, Phased
<1> QED
  BY <1>1 DEF TaskTerminal, Terminal, Entry

RC == {"running", "cancelling"}

\* The live run moves on with the journal left alone, or an interruption
\* reaches it before its fence.
LEMMA LiveMoves ==
  ASSUME IInv, Phased', live # Nothing, live' \in LiveRun, live' # Nothing,
         live'.run = live.run,
         UNCHANGED <<segmented, journal, stop, markers, repair, stops, stopped,
                     lost>>,
         \/ stop.at = "none"
         \/ live'.cause = live.cause /\ (live'.phase \in RC => live.phase \in RC),
         live'.cause = live.cause \/ live.task = "streaming",
         live'.cause = "user" => live.cause = "user",
         live'.task \in {"streaming", "fenced"} =>
           live.task \in {"streaming", "fenced"},
         live'.task = "repairing" =>
           live.task = "repairing" /\ live'.cause = live.cause
  PROVE  IInv'
<1>0. Types /\ Phased /\ Latest /\ Open /\ Stops /\ Survives /\ History
  BY DEF IInv
<1>1. Types'
  BY <1>0 DEF Types
<1>2. Latest'
  BY <1>0 DEF Latest
<1>3. Open'
  <2>1. live'.task = "repairing" => TaskTerminal' = TaskTerminal
    BY DEF TaskTerminal
  <2> QED
    BY <1>0, <2>1 DEF Open
<1>4. Stops'
  <2>1. live.task = "streaming" =>
          FindRunTerminal(journal, live.run).cause # "system_shutdown"
    <3>1. journal \in Seq(Entry)
      BY <1>0 DEF Types
    <3> QED
      BY <1>0, <3>1, NoneIsOpen DEF Open
  <2>2. \A r : Marked(r)' <=> Marked(r)
    BY DEF Marked
  <2>3. stop'.at = stop.at /\ stop'.expected = stop.expected
    OBVIOUS
  <2> QED
    BY <1>0, <2>1, <2>2, <2>3 DEF Stops, RC
<1>5. Survives'
  BY <1>0 DEF Survives
<1>6. History'
  BY <1>0 DEF History
<1> QED
  BY <1>1, <1>2, <1>3, <1>4, <1>5, <1>6 DEF IInv

\* A task ends, in the journal or without it, and the run is still held.
LEMMA LiveEnds ==
  ASSUME IInv, Phased', Extends, live # Nothing, live' \in LiveRun,
         live' # Nothing, live'.run = live.run, live'.cause = live.cause,
         live'.phase \notin RC, live'.task \in {"committed", "gone"},
         repair' \in Seq(Entry),
         UNCHANGED <<segmented, stop, markers, stops, stopped, lost>>,
         segmented =>
           (FindRunTerminal(journal', live.run).cause = "system_shutdown" =>
              live.cause = "shutdown")
  PROVE  IInv'
<1>0. Types /\ Phased /\ Latest /\ Open /\ Stops /\ Survives /\ History
  BY DEF IInv
<1>1. Types'
  BY <1>0 DEF Types, Extends
<1>a. LatestStarted(journal') = LatestStarted(journal)
  BY DEF Extends, Upto
<1>2. Latest'
  BY <1>0, <1>a DEF Latest, Extends
<1>3. Open'
  BY DEF Open
<1>4. Stops'
  <2>1. segmented => \A r : Marked(r) => Marked(r)'
    BY DEF Marked, Extends
  <2>2. stop'.at = stop.at /\ stop'.expected = stop.expected
    OBVIOUS
  <2> QED
    BY <1>0, <2>1, <2>2 DEF Stops, RC
<1>5. Survives'
  <2>1. \A r \in stopped \ {live.run} : ~Resumes(journal', r)
    BY <1>0, <1>a, LiveIsRun DEF Resumes
  <2> QED
    BY <2>1 DEF Survives
<1>6. History'
  BY <1>0, <1>a DEF History, Extends
<1> QED
  BY <1>1, <1>2, <1>3, <1>4, <1>5, <1>6 DEF IInv

\* The run is let go of; a stop that reached it is on record, or it cannot be
\* resumed.
LEMMA LiveReleased ==
  ASSUME IInv, Extends, live # Nothing, live' = Nothing,
         repair' \in Seq(Entry), stop' \in StopCall, stops' \in 0..MaxStops,
         stopped' \in {stopped, stopped \cup {live.run}},
         UNCHANGED <<segmented, markers, lost>>,
         segmented /\ live.run \in stopped' =>
           Marked(live.run) \/ ~Resumes(journal', live.run)
  PROVE  IInv'
<1>0. Types /\ Phased /\ Latest /\ Open /\ Stops /\ Survives /\ History
  BY DEF IInv
<1>b. live.run \in Runs /\ live.run = LatestStarted(journal)
  BY <1>0, LiveIsRun
<1>1. Types'
  BY <1>0, <1>b, Fields DEF Types, Extends
<1>a. LatestStarted(journal') = LatestStarted(journal)
  BY DEF Extends, Upto
<1>c. live'.run = NoRun /\ live'.phase = "idle" /\ live'.task = "gone"
  BY Fields
<1>2. Latest'
  <2>1. live.run <= LatestStarted(journal)
    BY <1>b DEF Runs
  <2> QED
    BY <1>0, <1>a, <1>c, <2>1 DEF Latest, Extends
<1>3. Open'
  BY <1>c DEF Open
<1>4. Stops'
  BY DEF Stops
<1>5. Survives'
  <2> SUFFICES ASSUME segmented, NEW r \in stopped' \ (lost \cup markers)
               PROVE  ~Resumes(journal', r)
    BY DEF Survives
  <2>1. CASE r = live.run
    <3>1. Marked(r) => Has(journal', "stop", r)
      BY DEF Marked, Extends
    <3> QED
      BY <2>1, <3>1 DEF Resumes
  <2>2. CASE r # live.run
    BY <1>a, <1>b, <2>2 DEF Resumes
  <2> QED
    BY <2>1, <2>2
<1>6. History'
  BY <1>0, <1>a DEF History, Extends
<1>7. Phased'
  BY <1>c DEF Phased
<1> QED
  BY <1>1, <1>2, <1>3, <1>4, <1>5, <1>6, <1>7 DEF IInv

\* settle_run_if_unfinished adds a terminal to a run that has none.
LEMMA Settles ==
  ASSUME IInv, live # Nothing, NEW s \in {"cancelled", "interrupted"},
         NEW j, j = SettleRunIfUnfinished(journal, live.run, s)
  PROVE  /\ j = journal \/ j = Append(journal, Terminal(live.run, s, "none"))
         /\ FindRunTerminal(journal, live.run) # NoTerminal => j = journal
         /\ FindRunTerminal(journal, live.run) = NoTerminal =>
              j = Append(journal, Terminal(live.run, s, "none"))
         /\ Terminal(live.run, s, "none") \in Entry
<1>1. live.run \in Runs
  BY LiveIsRun DEF IInv
<1> QED
  BY <1>1 DEF SettleRunIfUnfinished, Terminal, Entry

-----------------------------------------------------------------------------
(* The actions.                                                            *)

\* A run is started.
LEMMA StartRunKeeps ==
  ASSUME IInv, StartRun
  PROVE  IInv' /\ Final
<1>0. Types /\ Latest /\ History
  BY DEF IInv
<1> DEFINE L == LatestStarted(journal)
<1>1. L \in Nat /\ L < MaxRuns /\ MaxRuns \in Nat /\ Upto(journal, L)
  BY <1>0, LatestNumber, ConstantsAssumption DEF StartRun, Latest
<1>2. journal' = AppendRunStart(journal, L + 1) /\ journal \in Seq(Entry)
  BY <1>0 DEF StartRun, Types
<1> HIDE DEF L
<1>3. /\ journal' \in Seq(Entry)
      /\ Upto(journal', L + 1)
      /\ \A r \in Runs : r # L =>
           FindRunTerminal(journal', r) = FindRunTerminal(journal, r)
      /\ L # NoRun => /\ FindRunTerminal(journal', L) # NoTerminal
                      /\ FindRunTerminal(journal, L) # NoTerminal =>
                           FindRunTerminal(journal', L) =
                             FindRunTerminal(journal, L)
      /\ \A t, r : Has(journal, t, r) => Has(journal', t, r)
      /\ Has(journal', "started", L + 1) /\ ~Has(journal', "terminal", L + 1)
  BY <1>1, <1>2, StartIs
<1>4. LatestStarted(journal') = L + 1 /\ L + 1 \in Runs /\ L + 1 # NoRun
  BY <1>1, <1>3 DEF Upto, Runs, NoRun
<1>5. /\ live' \in LiveRun /\ live'.run = L + 1 /\ live'.phase = "running"
      /\ live'.cause = "none" /\ live'.task = "streaming"
  BY <1>4 DEF StartRun, L, LiveRun
<1>6. live' # Nothing
  BY <1>5, Fields
<1>7. stop'.at = "none" /\ UNCHANGED <<segmented, stop, markers, repair, stops,
                                       stopped, lost>>
  BY Fields DEF StartRun
<1>8. \A r \in markers \cup stopped \cup lost : r \in Int /\ r <= L
  BY <1>0 DEF Latest, L, Types, Runs
<1>9. Types'
  BY <1>0, <1>3, <1>5, <1>7 DEF Types
<1>10. Phased'
  BY <1>4, <1>5, <1>6 DEF Phased
<1>11. Latest'
  BY <1>1, <1>3, <1>4, <1>5, <1>7, <1>8 DEF Latest
<1>12. Open'
  BY <1>3, <1>5 DEF Open
<1>13. Stops'
  <2>1. L + 1 \notin stopped'
    BY <1>1, <1>7, <1>8
  <2>2. FindRunTerminal(journal', L + 1).cause # "system_shutdown"
    BY <1>3, NoneIsOpen
  <2> QED
    BY <1>5, <1>7, <2>1, <2>2 DEF Stops
<1>14. Survives'
  BY <1>1, <1>4, <1>7, <1>8 DEF Survives, Resumes
<1>15. History'
  <2> SUFFICES ASSUME segmented, NEW r \in 1..L
               PROVE  Has(journal', "started", r) /\ Has(journal', "terminal", r)
    BY <1>1, <1>4, <1>7 DEF History
  <2>1. CASE r = L
    <3>1. Has(journal', "terminal", L)
      BY <1>3, <2>1, NoneIsOpen DEF NoRun
    <3>2. Has(journal, "started", L)
      <4> DEFINE i == Max(Starts(journal))
      <4>1. Starts(journal) # {}
        BY <1>2, <2>1, LatestIs DEF L, NoRun
      <4>2. IsLast(i, Starts(journal)) /\ journal[i].run = L
        BY <1>2, <4>1, LatestIs DEF L
      <4> HIDE DEF i
      <4> QED
        BY <4>2 DEF IsLast, Starts, Has, IndexesOf
    <3> QED
      BY <1>3, <2>1, <3>1, <3>2
  <2>2. CASE r # L
    BY <1>0, <1>1, <1>3, <2>2 DEF History, L
  <2> QED
    BY <2>1, <2>2
<1>16. Final
  <2> SUFFICES ASSUME NEW r \in Runs,
                      FindRunTerminal(journal, r).state \in {"completed", "cancelled"}
               PROVE  FindRunTerminal(journal', r) = FindRunTerminal(journal, r)
    BY DEF Final
  <2>1. FindRunTerminal(journal, r) # NoTerminal
    BY <1>2, NoneIsOpen
  <2>2. r # NoRun
    BY DEF Runs, NoRun
  <2> QED
    BY <1>3, <2>1, <2>2
<1> QED
  BY <1>9, <1>10, <1>11, <1>12, <1>13, <1>14, <1>15, <1>16 DEF IInv

\* The task fences, its commit is cancelled, a timer marks the run, or a
\* shutdown interrupts it.
LEMMA LiveOnlyKeeps ==
  ASSUME IInv, TaskFence \/ TaskCommitCancelled \/ TimerMarks \/ ShutdownInterrupts
  PROVE  IInv' /\ Final
<1>0. Types /\ Phased /\ Latest
  BY DEF IInv
<1>1. live \in LiveRun
  BY <1>0 DEF Types
<1>2. /\ live # Nothing
      /\ UNCHANGED <<segmented, journal, stop, markers, repair, stops, stopped, lost>>
  BY Fields DEF TaskFence, TaskCommitCancelled, TimerMarks, ShutdownInterrupts
<1>3. Final
  BY <1>0, <1>2, SameJournal
<1>a. live.run # NoRun
  BY <1>0, <1>2 DEF Phased
<1>4. CASE TaskFence
  <2>1. /\ live' \in LiveRun /\ live'.run = live.run /\ live'.cause = live.cause
        /\ live'.phase = "finalizing" /\ live'.task = "fenced"
        /\ live.task = "streaming"
    BY <1>1, <1>4 DEF TaskFence, LiveRun
  <2>2. live' # Nothing
    BY <2>1, Fields
  <2>3. Phased'
    BY <1>a, <2>1, <2>2 DEF Phased
  <2> QED
    BY <1>2, <1>3, <2>1, <2>2, <2>3, LiveMoves DEF RC
<1>5. CASE TaskCommitCancelled
  <2>1. /\ live' \in LiveRun /\ live'.run = live.run /\ live'.cause = live.cause
        /\ live'.phase = live.phase /\ live'.task = "committed"
        /\ live.task = "fenced"
    BY <1>1, <1>5 DEF TaskCommitCancelled, LiveRun
  <2>2. live' # Nothing
    BY <2>1, Fields
  <2>3. Phased'
    BY <1>0, <1>2, <1>a, <2>1, <2>2 DEF Phased
  <2> QED
    BY <1>2, <1>3, <2>1, <2>2, <2>3, LiveMoves DEF RC
<1>6. CASE TimerMarks
  <2>1. /\ live' \in LiveRun /\ live'.run = live.run /\ live'.cause = live.cause
        /\ live'.phase = "faulted" /\ live'.task = live.task
    BY <1>1, <1>6 DEF TimerMarks, LiveRun
  <2>2. live' # Nothing
    BY <2>1, Fields
  <2>3. Phased'
    BY <1>0, <1>2, <1>a, <2>1, <2>2 DEF Phased
  <2> QED
    BY <1>2, <1>3, <2>1, <2>2, <2>3, LiveMoves DEF RC
<1>7. CASE ShutdownInterrupts
  <2>1. /\ live' \in LiveRun /\ live'.run = live.run
        /\ live'.cause = "user" => live.cause = "user"
        /\ live'.phase = "cancelling" /\ live'.task = live.task
        /\ live.phase \in RC
    BY <1>1, <1>7 DEF ShutdownInterrupts, LiveRun, RC
  <2>2. live' # Nothing /\ stop.at = "none"
    BY <1>7, <2>1, Fields DEF ShutdownInterrupts
  <2>3. live.task = "streaming"
    BY <1>0, <2>1 DEF Phased, RC
  <2>4. Phased'
    BY <1>0, <1>2, <1>a, <2>1, <2>2, <2>3 DEF Phased
  <2> QED
    BY <1>2, <1>3, <2>1, <2>2, <2>3, <2>4, LiveMoves DEF RC
<1> QED
  BY <1>4, <1>5, <1>6, <1>7

\* The task's own terminal of a run that has none.
LEMMA CommitGrows ==
  ASSUME IInv, live.task = "fenced", journal' = Append(journal, TaskTerminal)
  PROVE  /\ Extends /\ Final
         /\ FindRunTerminal(journal', live.run) = TaskTerminal
         /\ \A r : r # live.run =>
              FindRunTerminal(journal', r) = FindRunTerminal(journal, r)
         /\ LatestStarted(journal') = LatestStarted(journal)
<1>0. Types /\ Phased /\ Latest /\ Open
  BY DEF IInv
<1>1. live # Nothing
  BY Fields
<1>2. live.run = LatestStarted(journal) /\ live.run \in Runs
  BY <1>0, <1>1, LiveIsRun
<1>3. /\ TaskTerminal \in Entry /\ TaskTerminal.type = "terminal"
      /\ TaskTerminal.run = live.run
  BY <1>0, <1>1, TaskTerminalIs
<1>4. live.run <= LatestStarted(journal)
  BY <1>2 DEF Runs
<1>5. FindRunTerminal(journal, live.run).state \notin {"completed", "cancelled"}
  <2>1. ~Has(journal, "terminal", live.run) /\ journal \in Seq(Entry)
    BY <1>0 DEF Open, Types
  <2> QED
    BY <2>1, NoneIsOpen
<1> DEFINE e == TaskTerminal
<1> HIDE DEF e
<1>6. /\ e \in Entry /\ e.type = "terminal" /\ e.run = live.run
      /\ journal' = Append(journal, e) /\ e = TaskTerminal
  BY <1>3 DEF e
<1>7. Final
  BY <1>0, <1>4, <1>5, <1>6, GrownFinal
<1>8. Extends /\ LatestStarted(journal') = LatestStarted(journal)
  BY <1>0, <1>4, <1>6, Grown
<1>9. \A r : FindRunTerminal(journal', r) =
               IF e.type = "terminal" /\ e.run = r THEN e
               ELSE FindRunTerminal(journal, r)
  BY <1>0, <1>4, <1>6, Grown
<1> QED
  BY <1>6, <1>7, <1>8, <1>9

\* The task commits.
LEMMA TaskCommitKeeps ==
  ASSUME IInv, TaskCommit
  PROVE  IInv' /\ Final
<1>0. Types /\ Phased
  BY DEF IInv
<1>1. live # Nothing /\ live \in LiveRun /\ live.task = "fenced"
  BY <1>0, Fields DEF TaskCommit, Types
<1>2. /\ live' \in LiveRun /\ live'.run = live.run /\ live'.cause = live.cause
      /\ live'.phase = live.phase /\ live'.task = "committed"
  BY <1>1 DEF TaskCommit, LiveRun
<1>3. live' # Nothing /\ live.phase \notin RC
  BY <1>0, <1>1, <1>2, Fields DEF RC, Phased
<1>4. Phased' /\ segmented' = segmented
  BY <1>0, <1>1, <1>2, <1>3 DEF Phased, TaskCommit
<1>5. Extends /\ Final /\ FindRunTerminal(journal', live.run) = TaskTerminal
  BY <1>1, CommitGrows DEF TaskCommit
<1>6. TaskTerminal.cause = "system_shutdown" => live.cause = "shutdown"
  BY <1>0, <1>1, TaskTerminalIs
<1>7. /\ repair' \in Seq(Entry)
      /\ UNCHANGED <<segmented, stop, markers, stops, stopped, lost>>
  BY <1>0 DEF TaskCommit, Types
<1> QED
  BY <1>1, <1>2, <1>3, <1>4, <1>5, <1>6, <1>7, LiveEnds

\* What a repair reads of a journal without a terminal of the live run.
LEMMA RepairReads ==
  ASSUME IInv, TaskRepairReads
  PROVE  /\ repair' \in Seq(Entry) /\ Upto(repair', live.run)
         /\ ~Has(repair', "terminal", live.run)
         /\ \A r \in Runs \ {live.run} : Has(repair', "started", r) =>
              FindRunTerminal(repair', r) = FindRunTerminal(journal, r)
<1>0. Types /\ Phased /\ Latest /\ Open /\ journal \in Seq(Entry)
  BY DEF IInv, Types
<1>1. live # Nothing /\ live.task = "fenced"
  BY Fields DEF TaskRepairReads
<1>2. live.run = LatestStarted(journal) /\ live.run \in Runs /\ live.run # NoRun
  BY <1>0, <1>1, LiveIsRun
<1> DEFINE R == live.run
           I == 1..Len(journal) \ IndexesOf(journal, "terminal", R)
           old == Picked(journal, I)
           b == Started(R)
           Kept(j) == IF IndexesOf(j, "started", R) = {} THEN Append(j, b) ELSE j
<1>3. repair' \in {Kept(old), Kept(<< >>)}
  BY DEF TaskRepairReads
<1>4. ~Has(journal, "terminal", R)
  BY <1>0, <1>1 DEF Open
<1>5. I = 1..Len(journal)
  BY <1>4 DEF Has
<1>6. b \in Entry /\ b.type = "started" /\ b.run = R
  BY <1>2 DEF Started, Entry
<1>7. Upto(journal, R) /\ R \in Nat
  BY <1>0, <1>2 DEF Latest, Runs
<1>8. I \in SUBSET (1..Len(journal))
  OBVIOUS
<1> HIDE DEF I, b
<1>9. /\ old \in Seq(Entry)
      /\ \A i \in I : IsLast(i, Starts(journal)) => LatestStarted(old) = journal[i].run
      /\ \A r, i : i \in I /\ IsLast(i, IndexesOf(journal, "terminal", r)) =>
           FindRunTerminal(old, r) = journal[i]
      /\ \A t, r : Has(old, t, r) <=>
                     \E i \in I : journal[i].type = t /\ journal[i].run = r
      /\ Upto(journal, R) /\ LatestStarted(old) = R => Upto(old, R)
  BY <1>0, <1>8, PickedSays
<1> HIDE DEF R, old
<1>10. \A t, r : Has(old, t, r) <=> Has(journal, t, r)
  BY <1>5, <1>9 DEF Has, IndexesOf
<1> DEFINE i == Max(Starts(journal))
<1>11. IsLast(i, Starts(journal)) /\ journal[i].run = R
  BY <1>0, <1>2, LatestIs DEF R
<1>12. i \in I /\ Has(journal, "started", R)
  BY <1>5, <1>11 DEF IsLast, Starts, Has, IndexesOf
<1> HIDE DEF i
<1>13. Upto(old, R)
  BY <1>7, <1>9, <1>11, <1>12
<1>14. CASE repair' = Kept(old)
  <2>1. repair' = old
    BY <1>10, <1>12, <1>14 DEF Has
  <2>2. ASSUME NEW r PROVE FindRunTerminal(old, r) = FindRunTerminal(journal, r)
    <3>1. CASE Has(journal, "terminal", r)
      <4> DEFINE k == Max(IndexesOf(journal, "terminal", r))
      <4>1. IsLast(k, IndexesOf(journal, "terminal", r))
        BY <1>0, <3>1, TerminalIs
      <4> HIDE DEF k
      <4>2. k \in I
        BY <1>5, <4>1 DEF IsLast, IndexesOf
      <4> QED
        BY <1>0, <1>9, <4>1, <4>2, TerminalIs
    <3>2. CASE ~Has(journal, "terminal", r)
      BY <1>0, <1>9, <1>10, <3>2, TerminalIs
    <3> QED
      BY <3>1, <3>2
  <2> QED
    BY <1>4, <1>9, <1>10, <1>13, <2>1, <2>2 DEF R
<1>15. CASE repair' = Kept(<< >>)
  <2>1. /\ << >> \in Seq(Entry) /\ Starts(<< >>) = {}
        /\ \A t, r : IndexesOf(<< >>, t, r) = {}
    BY DEF Starts, IndexesOf
  <2>2. repair' = Append(<< >>, b)
    BY <1>15, <2>1
  <2>3. Upto(<< >>, 0)
    <3>1. LatestStarted(<< >>) = 0
      BY <2>1, LatestIs DEF NoRun
    <3>2. 1..Len(<< >>) = {}
      OBVIOUS
    <3> QED
      BY <3>1, <3>2 DEF Upto
  <2>4. R >= 0 /\ ~Has(<< >>, "terminal", R)
    BY <1>7, <2>1 DEF Has
  <2>5. Upto(repair', R)
    BY <1>6, <2>1, <2>2, <2>3, <2>4, AppendedUpto
  <2>6. /\ repair' \in Seq(Entry)
        /\ \A t, r : Has(repair', t, r) <=>
                       Has(<< >>, t, r) \/ (b.type = t /\ b.run = r)
    BY <1>6, <2>1, <2>2, Appended
  <2>7. ~Has(repair', "terminal", R) /\ \A r : Has(repair', "started", r) => r = R
    BY <1>6, <2>1, <2>6 DEF Has
  <2> QED
    BY <2>5, <2>6, <2>7 DEF R
<1> QED
  BY <1>3, <1>14, <1>15

\* The repair reads.
LEMMA TaskRepairReadsKeeps ==
  ASSUME IInv, TaskRepairReads
  PROVE  IInv' /\ Final
<1>0. Types /\ Phased /\ Latest /\ Open /\ journal \in Seq(Entry)
  BY DEF IInv, Types
<1>1. live # Nothing /\ live.task = "fenced" /\ ~segmented /\ live \in LiveRun
  BY <1>0, Fields DEF TaskRepairReads, Types
<1>2. live.run = LatestStarted(journal) /\ live.run \in Runs /\ live.run # NoRun
  BY <1>0, <1>1, LiveIsRun
<1>3. /\ live' \in LiveRun /\ live'.run = live.run /\ live'.cause = live.cause
      /\ live'.phase = live.phase /\ live'.task = "repairing"
  BY <1>1 DEF TaskRepairReads, LiveRun
<1>4. live' # Nothing
  BY <1>3, Fields
<1>5. /\ ~segmented' /\ segmented' = segmented
      /\ UNCHANGED <<stop, markers, stops, stopped, lost>>
  BY <1>1 DEF TaskRepairReads
<1>6. /\ repair' \in Seq(Entry) /\ Upto(repair', live.run)
      /\ ~Has(repair', "terminal", live.run)
      /\ \A r \in Runs \ {live.run} : Has(repair', "started", r) =>
           FindRunTerminal(repair', r) = FindRunTerminal(journal, r)
  BY RepairReads
<1>7. /\ Extends /\ Final
      /\ FindRunTerminal(journal', live.run) \in {NoTerminal, TaskTerminal}
      /\ \A r : r # live.run =>
           FindRunTerminal(journal', r) = FindRunTerminal(journal, r)
      /\ LatestStarted(journal') = LatestStarted(journal)
  <2>1. CASE journal' = journal
    <3>1. FindRunTerminal(journal, live.run) = NoTerminal
      BY <1>0, <1>1, TerminalIs DEF Open
    <3> QED
      BY <1>0, <2>1, <3>1, SameJournal
  <2>2. CASE journal' = Append(journal, TaskTerminal)
    BY <1>1, <2>2, CommitGrows
  <2> QED
    BY <2>1, <2>2 DEF TaskRepairReads
<1>8. TaskTerminal' = TaskTerminal
  BY <1>3 DEF TaskTerminal
<1>9. Types'
  BY <1>0, <1>3, <1>5, <1>6, <1>7 DEF Types, Extends
<1>10. Phased'
  BY <1>0, <1>1, <1>2, <1>3, <1>4, <1>5 DEF Phased
<1>11. Latest'
  BY <1>0, <1>2, <1>3, <1>5, <1>6, <1>7 DEF Latest, Extends
<1>12. Open'
  BY <1>3, <1>6, <1>7, <1>8 DEF Open
<1>13. Stops' /\ Survives' /\ History'
  BY <1>5 DEF Stops, Survives, History
<1> QED
  BY <1>7, <1>9, <1>10, <1>11, <1>12, <1>13 DEF IInv

\* The rewrite of a repair, whatever happened to the journal since the read.
LEMMA RepairGrows ==
  ASSUME IInv, live.task = "repairing", journal' = Append(repair, TaskTerminal)
  PROVE  Extends /\ Final /\ ~segmented
<1>0. Types /\ Phased /\ Latest /\ Open /\ repair \in Seq(Entry)
  BY DEF IInv, Types
<1>1. live # Nothing
  BY Fields
<1>2. live.run = LatestStarted(journal) /\ live.run \in Runs /\ live.run # NoRun
  BY <1>0, <1>1, LiveIsRun
<1> DEFINE e == TaskTerminal
<1>3. /\ e \in Entry /\ e.type = "terminal" /\ e.run = live.run
  BY <1>0, <1>1, TaskTerminalIs
<1>4. Upto(repair, live.run) /\ live.run \in Nat /\ e.run <= live.run
  BY <1>0, <1>2, <1>3 DEF Latest, Runs
<1>5. /\ FindRunTerminal(journal, live.run) \in {NoTerminal, e}
      /\ \A r \in Runs \ {live.run} : Has(repair, "started", r) =>
            FindRunTerminal(repair, r) = FindRunTerminal(journal, r)
      /\ journal' = Append(repair, e) /\ ~segmented
  BY <1>0 DEF Open, Phased
<1> HIDE DEF e
<1>6. Upto(journal', live.run)
  BY <1>0, <1>3, <1>4, <1>5, AppendedUpto
<1>7. /\ journal' \in Seq(Entry)
      /\ \A r : FindRunTerminal(journal', r) =
                  IF e.type = "terminal" /\ e.run = r THEN e
                  ELSE FindRunTerminal(repair, r)
      /\ \A t, r : Has(journal', t, r) <=>
                     Has(repair, t, r) \/ (e.type = t /\ e.run = r)
  BY <1>0, <1>3, <1>5, Appended
<1>8. Extends
  BY <1>2, <1>5, <1>6, <1>7 DEF Extends
<1>9. Final
  <2> SUFFICES ASSUME NEW r \in Runs, Has(journal', "started", r),
                      FindRunTerminal(journal, r).state \in {"completed", "cancelled"}
               PROVE  FindRunTerminal(journal', r) = FindRunTerminal(journal, r)
    BY DEF Final
  <2>1. FindRunTerminal(journal, r) # NoTerminal
    BY <1>0, NoneIsOpen DEF Types
  <2>2. CASE r = live.run
    BY <1>3, <1>5, <1>7, <2>1, <2>2
  <2>3. CASE r # live.run
    <3>1. Has(repair, "started", r)
      BY <1>3, <1>7
    <3> QED
      BY <1>3, <1>5, <1>7, <2>3, <3>1
  <2> QED
    BY <2>2, <2>3
<1> QED
  BY <1>5, <1>8, <1>9

\* The repair writes.
LEMMA TaskRepairWritesKeeps ==
  ASSUME IInv, TaskRepairWrites
  PROVE  IInv' /\ Final
<1>0. Types /\ Phased
  BY DEF IInv
<1>1. live # Nothing /\ live.task = "repairing" /\ live \in LiveRun
  BY <1>0, Fields DEF TaskRepairWrites, Types
<1>2. /\ live' \in LiveRun /\ live'.run = live.run /\ live'.cause = live.cause
      /\ live'.phase = live.phase /\ live'.task = "committed"
  BY <1>1 DEF TaskRepairWrites, LiveRun
<1>3. live' # Nothing /\ live.phase \notin RC
  BY <1>0, <1>1, <1>2, Fields DEF RC, Phased
<1>4. /\ repair' \in Seq(Entry)
      /\ UNCHANGED <<segmented, stop, markers, stops, stopped, lost>>
  BY DEF TaskRepairWrites
<1>5. Phased'
  BY <1>0, <1>1, <1>2, <1>3, <1>4 DEF Phased
<1>6. Extends /\ Final /\ ~segmented
  BY <1>1, RepairGrows DEF TaskRepairWrites
<1> QED
  BY <1>1, <1>2, <1>3, <1>4, <1>5, <1>6, LiveEnds

\* The task fails, with or without its terminal in the store.
LEMMA TaskFaultsKeeps ==
  ASSUME IInv, TaskFaults
  PROVE  IInv' /\ Final
<1>0. Types /\ Phased /\ Latest /\ Stops
  BY DEF IInv
<1>1. live # Nothing /\ live \in LiveRun
  BY <1>0, Fields DEF TaskFaults, Types
<1>2. /\ live' \in LiveRun /\ live'.run = live.run /\ live'.cause = live.cause
      /\ live'.phase = "faulted" /\ live'.task = "gone"
  BY <1>1 DEF TaskFaults, LiveRun
<1>3. live' # Nothing /\ live'.phase \notin RC
  BY <1>2, Fields DEF RC
<1>4. /\ repair' \in Seq(Entry)
      /\ UNCHANGED <<segmented, stop, markers, stops, stopped, lost>>
  BY DEF TaskFaults
<1>5. Phased'
  BY <1>0, <1>1, <1>2, <1>3, <1>4 DEF Phased
<1>6. /\ Extends /\ Final
      /\ segmented =>
           (FindRunTerminal(journal', live.run).cause = "system_shutdown" =>
              live.cause = "shutdown")
  <2>1. CASE journal' = journal
    BY <1>0, <1>1, <2>1, SameJournal DEF Stops
  <2>2. CASE live.task = "fenced" /\ journal' = Append(journal, TaskTerminal)
    <3>1. TaskTerminal.cause = "system_shutdown" => live.cause = "shutdown"
      BY <1>0, <1>1, TaskTerminalIs
    <3> QED
      BY <2>2, <3>1, CommitGrows
  <2>3. CASE live.task = "repairing" /\ journal' = Append(repair, TaskTerminal)
    BY <2>3, RepairGrows
  <2> QED
    BY <2>1, <2>2, <2>3 DEF TaskFaults
<1> QED
  BY <1>1, <1>2, <1>3, <1>4, <1>5, <1>6, LiveEnds

\* The task returns.
LEMMA TaskReturnsKeeps ==
  ASSUME IInv, TaskReturns
  PROVE  IInv' /\ Final
<1>0. Types /\ Phased /\ Latest /\ Stops
  BY DEF IInv
<1>1. live # Nothing /\ live \in LiveRun /\ live.task = "committed"
  BY <1>0, Fields DEF TaskReturns, Types
<1>2. UNCHANGED <<segmented, journal, stop, markers, repair, stops, stopped, lost>>
  BY DEF TaskReturns
<1>3. Extends /\ Final
  BY <1>0, <1>2, SameJournal
<1>4. repair' \in Seq(Entry) /\ stop' \in StopCall /\ stops' \in 0..MaxStops
  BY <1>0, <1>2 DEF Types
<1>5. CASE live.phase = "finalizing"
  <2>1. live' = Nothing
    BY <1>5 DEF TaskReturns
  <2>2. segmented /\ live.run \in stopped' => Marked(live.run)
    BY <1>0, <1>1, <1>2 DEF Stops
  <2> QED
    BY <1>1, <1>2, <1>3, <1>4, <2>1, <2>2, LiveReleased
<1>6. CASE live.phase # "finalizing"
  <2>1. /\ live' \in LiveRun /\ live'.run = live.run /\ live'.cause = live.cause
        /\ live'.phase = live.phase /\ live'.task = "gone"
    BY <1>1, <1>6 DEF TaskReturns, LiveRun
  <2>2. live.phase = "faulted"
    BY <1>0, <1>1, <1>6 DEF Phased, LiveRun
  <2>3. live' # Nothing /\ live'.phase \notin RC
    BY <2>1, <2>2, Fields DEF RC
  <2>4. Phased'
    BY <1>0, <1>1, <1>2, <2>1, <2>2, <2>3 DEF Phased
  <2>5. segmented =>
          (FindRunTerminal(journal', live.run).cause = "system_shutdown" =>
             live.cause = "shutdown")
    BY <1>0, <1>1, <1>2 DEF Stops
  <2> QED
    BY <1>1, <1>2, <1>3, <1>4, <2>1, <2>3, <2>4, <2>5, LiveEnds
<1> QED
  BY <1>5, <1>6

\* What a later process resumes is what the whole journal says.
LEMMA ResumableIs ==
  ASSUME Types
  PROVE  /\ ResumableRunId \in Runs \cup {NoRun}
         /\ \A r \in Runs : ResumableRunId = r <=> Resumes(journal, r)
<1>1. journal \in Seq(Entry)
  BY DEF Types
<1>2. ResumableRunId = FindResumableRun(journal)
  BY <1>1, HeadersAgree DEF ResumableRunId
<1>3. LatestStarted(journal) \in Runs \cup {NoRun}
  BY <1>1, LatestIs
<1>4. NoRun \notin Runs
  BY DEF Runs, NoRun
<1> QED
  BY <1>2, <1>3, <1>4 DEF FindResumableRun, Resumes, Has

\* A run with a terminal or a stop in the journal is a known run.
LEMMA KnownRun ==
  ASSUME Types, Latest, NEW t, NEW r, Has(journal, t, r)
  PROVE  r \in Runs /\ r <= LatestStarted(journal)
<1>1. PICK i \in 1..Len(journal) : journal[i].run = r
  BY DEF Has, IndexesOf
<1>2. journal[i] \in Entry
  BY DEF Types
<1> QED
  BY <1>1, <1>2 DEF Latest, Upto, Entry

\* A stop while nothing is live.
LEMMA StopWhileIdleKeeps ==
  ASSUME IInv, NEW x \in Runs \cup {NoRun}, StopWhileIdle(x)
  PROVE  IInv' /\ Final
<1>0. Types /\ Phased /\ Latest /\ Survives /\ History /\ journal \in Seq(Entry)
  BY DEF IInv, Types
<1> DEFINE r == ResumableRunId
           closes == r # NoRun /\ x \in {NoRun, r}
           e == Terminal(r, "cancelled", "none")
<1>1. /\ live = Nothing /\ stop = NoStop /\ stops < MaxStops /\ stops' = stops + 1
      /\ closes \/ x = NoRun \/ FindRunTerminal(journal, x) # NoTerminal
      /\ journal' = IF closes THEN Append(journal, e) ELSE journal
      /\ stopped' = IF x # NoRun THEN stopped \cup {x}
                    ELSE IF closes THEN stopped \cup {r} ELSE stopped
      /\ UNCHANGED <<segmented, live, stop, markers, repair, lost>>
  BY DEF StopWhileIdle
<1>2. /\ r \in Runs \cup {NoRun}
      /\ \A y \in Runs : r = y <=> Resumes(journal, y)
  BY <1>0, ResumableIs
<1>3. r \in Runs => r = LatestStarted(journal)
  BY <1>2 DEF Resumes
<1>4. LatestStarted(journal) \in Nat
  BY <1>0, LatestNumber
<1> HIDE DEF r
<1>5. closes => /\ e \in Entry /\ e.type = "terminal" /\ e.run = r
                /\ e.state = "cancelled" /\ r \in Runs
                /\ r <= LatestStarted(journal)
  BY <1>2, <1>3, <1>4 DEF Terminal, Entry
<1> HIDE DEF e
<1>6. /\ Extends /\ LatestStarted(journal') = LatestStarted(journal)
      /\ \A y : FindRunTerminal(journal', y) =
                  IF closes /\ y = r THEN e ELSE FindRunTerminal(journal, y)
      /\ \A t, y : Has(journal, t, y) => Has(journal', t, y)
  <2>1. CASE closes
    <3>1. journal' = Append(journal, e)
      BY <1>1, <2>1
    <3>2. /\ Extends /\ LatestStarted(journal') = LatestStarted(journal)
          /\ \A y : FindRunTerminal(journal', y) =
                      IF e.type = "terminal" /\ e.run = y THEN e
                      ELSE FindRunTerminal(journal, y)
          /\ \A t, y : Has(journal', t, y) <=>
                         Has(journal, t, y) \/ (e.type = t /\ e.run = y)
      BY <1>0, <1>5, <2>1, <3>1, Grown
    <3> QED
      BY <1>5, <2>1, <3>2
  <2>2. CASE ~closes
    <3>1. journal' = journal
      BY <1>1, <2>2
    <3> QED
      BY <1>0, <2>2, <3>1, SameJournal
  <2> QED
    BY <2>1, <2>2
<1>7. Final
  <2>1. CASE closes
    <3>1. Resumes(journal, r)
      BY <1>2, <1>5, <2>1
    <3>2. FindRunTerminal(journal, r).state \notin {"completed", "cancelled"}
      BY <1>0, <3>1, NoneIsOpen DEF Resumes
    <3> QED
      BY <1>6, <2>1, <3>2 DEF Final
  <2>2. CASE ~closes
    BY <1>0, <1>1, <2>2, SameJournal
  <2> QED
    BY <2>1, <2>2
<1>8. \A y \in stopped' : \/ y \in stopped
                          \/ y = x /\ x # NoRun
                          \/ y = r /\ closes
  <2>1. CASE x # NoRun
    BY <1>1, <2>1
  <2>2. CASE x = NoRun /\ closes
    <3>1. stopped' = stopped \cup {r}
      BY <1>1, <2>2
    <3> QED
      BY <2>2, <3>1
  <2>3. CASE x = NoRun /\ ~closes
    <3>1. stopped' = stopped
      BY <1>1, <2>3
    <3> QED
      BY <3>1
  <2> QED
    BY <2>1, <2>2, <2>3
<1>9. \A y \in stopped' : y \in Runs /\ y <= LatestStarted(journal)
  <2> SUFFICES ASSUME NEW y \in stopped'
               PROVE  y \in Runs /\ y <= LatestStarted(journal)
    OBVIOUS
  <2>1. CASE y \in stopped
    BY <1>0, <2>1 DEF Types, Latest
  <2>2. CASE y = r /\ closes
    BY <1>5, <2>2
  <2>3. CASE y = x /\ x # NoRun /\ ~closes
    <3>1. Has(journal, "terminal", x)
      BY <1>0, <1>1, <2>3, NoneIsOpen
    <3> QED
      BY <1>0, <2>3, <3>1, KnownRun
  <2> QED
    BY <1>8, <2>1, <2>2, <2>3
<1>10. Types'
  <2>1. stops' \in 0..MaxStops
    BY <1>0, <1>1, ConstantsAssumption DEF Types
  <2> QED
    BY <1>0, <1>1, <1>6, <1>9, <2>1 DEF Types, Extends
<1>11. live'.task = "gone" /\ live' = Nothing /\ live.run = NoRun /\ live' = live
  BY <1>1, Fields
<1>12. Phased'
  BY <1>0, <1>1 DEF Phased
<1>13. Latest'
  BY <1>0, <1>1, <1>6, <1>9, <1>11 DEF Latest, Extends
<1>14. Open' /\ Stops'
  BY <1>11 DEF Open, Stops
<1>15. Survives'
  <2> SUFFICES ASSUME segmented, NEW y \in stopped' \ (lost \cup markers)
               PROVE  ~Resumes(journal', y)
    BY <1>1 DEF Survives
  <2>0. y \in Runs /\ y # NoRun
    BY <1>9 DEF Runs, NoRun
  <2>1. CASE closes /\ y = r
    BY <1>5, <1>6, <2>1, Fields DEF Resumes, e, Terminal, NoTerminal
  <2>2. CASE closes /\ y # r
    BY <1>3, <1>5, <1>6, <2>2 DEF Resumes
  <2>3. CASE ~closes /\ y \in stopped
    BY <1>0, <1>1, <1>11, <2>0, <2>3 DEF Survives
  <2>4. CASE ~closes /\ y = x
    BY <1>1, <1>2, <2>0, <2>4
  <2> QED
    BY <1>8, <2>1, <2>2, <2>3, <2>4
<1>16. History'
  BY <1>0, <1>1, <1>6 DEF History
<1> QED
  BY <1>7, <1>10, <1>12, <1>13, <1>14, <1>15, <1>16 DEF IInv

\* A stop begins, or is refused.
LEMMA StopOnlyKeeps ==
  ASSUME IInv, NEW x \in Runs \cup {NoRun}, StopBegins(x) \/ StopRefused
  PROVE  IInv' /\ Final
<1>0. Types /\ Phased /\ Latest /\ Open /\ Stops /\ Survives /\ History
  BY DEF IInv
<1>1. UNCHANGED <<segmented, journal, live, markers, repair, stopped, lost>>
  BY DEF StopBegins, StopRefused
<1>2. Final
  BY <1>0, <1>1, SameJournal
<1>3. stop' \in StopCall /\ stop'.at # "request" /\ stops' \in 0..MaxStops
  <2>1. CASE StopBegins(x)
    <3>1. stop' \in StopCall /\ stop'.at # "request"
      BY <2>1 DEF StopBegins, StopCall
    <3>2. stops' \in 0..MaxStops
      BY <1>0, <2>1, ConstantsAssumption DEF StopBegins, Types
    <3> QED
      BY <3>1, <3>2
  <2>2. CASE StopRefused
    BY <1>0, <2>2, Fields DEF StopRefused, Types
  <2> QED
    BY <2>1, <2>2
<1>4. Types' /\ Phased' /\ Latest'
  BY <1>0, <1>1, <1>3 DEF Types, Phased, Latest
<1>5. Open'
  BY <1>0, <1>1 DEF Open, TaskTerminal
<1>6. Stops'
  BY <1>0, <1>1, <1>3 DEF Stops, Marked
<1>7. Survives' /\ History'
  BY <1>0, <1>1 DEF Survives, History
<1> QED
  BY <1>2, <1>4, <1>5, <1>6, <1>7 DEF IInv

\* A stop's marker thread is started for the run it reaches.
LEMMA StopMarksKeeps ==
  ASSUME IInv, StopMarks
  PROVE  IInv' /\ Final
<1>0. Types /\ Phased /\ Latest /\ Open /\ Stops /\ Survives /\ History
  BY DEF IInv
<1>1. /\ UNCHANGED <<segmented, journal, live, repair, stops, stopped, lost>>
      /\ markers' = markers \cup StopTarget
  BY DEF StopMarks
<1>2. Final
  BY <1>0, <1>1, SameJournal
<1>3. /\ stop' \in StopCall /\ stop'.expected = stop.expected
  BY <1>0 DEF StopMarks, StopCall, Types
<1>4. StopTarget \subseteq {live.run}
  BY DEF StopTarget
<1>5. StopTarget # {} => live # Nothing
  BY Fields DEF StopTarget
<1>6. \A r \in StopTarget : r \in Runs /\ r <= LatestStarted(journal)
  <2>1. live # Nothing => live.run \in Runs /\ live.run = LatestStarted(journal)
    BY <1>0, LiveIsRun
  <2> QED
    BY <1>4, <1>5, <2>1 DEF Runs
<1>7. Types' /\ Phased'
  BY <1>0, <1>1, <1>3, <1>6 DEF Types, Phased
<1>8. Latest'
  BY <1>0, <1>1, <1>6 DEF Latest
<1>9. Open'
  BY <1>0, <1>1 DEF Open, TaskTerminal
<1>10. Stops'
  <2>1. \A r : Marked(r) => Marked(r)'
    BY <1>1 DEF Marked
  <2>2. /\ stop'.expected \in {NoRun, live.run}
        /\ live.phase \in {"running", "cancelling"} \/ live.cause = "shutdown"
        => Marked(live.run)'
    BY <1>1, <1>3 DEF Marked, StopTarget
  <2> QED
    BY <1>0, <1>1, <2>1, <2>2 DEF Stops
<1>11. Survives' /\ History'
  BY <1>0, <1>1 DEF Survives, History
<1> QED
  BY <1>2, <1>7, <1>8, <1>9, <1>10, <1>11 DEF IInv

\* A marker thread ends, with its marker or without it.
LEMMA MarkerWrittenKeeps ==
  ASSUME IInv, NEW m \in Runs, MarkerWritten(m)
  PROVE  IInv' /\ Final
<1>0. Types /\ Phased /\ Latest /\ Open /\ Stops /\ Survives /\ History
  BY DEF IInv
<1>1. /\ m \in markers /\ markers' = markers \ {m}
      /\ UNCHANGED <<segmented, live, stop, repair, stops, stopped>>
  BY DEF MarkerWritten
<1>2. m <= LatestStarted(journal)
  BY <1>0, <1>1 DEF Latest
<1>3. /\ Extends /\ Final /\ LatestStarted(journal') = LatestStarted(journal)
      /\ \A r : FindRunTerminal(journal', r) = FindRunTerminal(journal, r)
      /\ \A t, r : Has(journal, t, r) => Has(journal', t, r)
      /\ \A r : Has(journal', "terminal", r) => Has(journal, "terminal", r)
      /\ m \in lost' \/ Has(journal', "stop", m)
      /\ lost \subseteq lost' /\ lost' \subseteq lost \cup {m}
  <2>1. CASE journal' = Append(journal, StopRequested(m)) /\ UNCHANGED lost
    <3> DEFINE e == StopRequested(m)
    <3>1. e \in Entry /\ e.type = "stop" /\ e.run = m
      BY DEF StopRequested, Entry
    <3>2. journal' = Append(journal, e)
      BY <2>1
    <3> HIDE DEF e
    <3>3. /\ Extends /\ LatestStarted(journal') = LatestStarted(journal)
          /\ \A r : FindRunTerminal(journal', r) =
                      IF e.type = "terminal" /\ e.run = r THEN e
                      ELSE FindRunTerminal(journal, r)
          /\ \A t, r : Has(journal', t, r) <=>
                         Has(journal, t, r) \/ (e.type = t /\ e.run = r)
      BY <1>0, <1>2, <3>1, <3>2, Grown
    <3>4. Final
      BY <1>0, <1>2, <3>1, <3>2, GrownFinal
    <3> QED
      BY <2>1, <3>1, <3>3, <3>4
  <2>2. CASE lost' = lost \cup {m} /\ UNCHANGED journal
    BY <1>0, <2>2, SameJournal
  <2> QED
    BY <2>1, <2>2 DEF MarkerWritten
<1>4. Types' /\ Phased'
  <2>1. lost' \subseteq Runs
    BY <1>0, <1>3 DEF Types
  <2> QED
    BY <1>0, <1>1, <1>3, <2>1 DEF Types, Phased, Extends
<1>5. Latest'
  BY <1>0, <1>1, <1>2, <1>3 DEF Latest, Extends
<1>6. Open'
  BY <1>0, <1>1, <1>3 DEF Open, TaskTerminal
<1>7. Stops'
  <2>1. \A r : Marked(r) => Marked(r)'
    BY <1>1, <1>3 DEF Marked
  <2> QED
    BY <1>0, <1>1, <1>3, <2>1 DEF Stops
<1>8. Survives'
  <2> SUFFICES ASSUME segmented, NEW r \in stopped \ (lost' \cup markers' \cup {live.run})
               PROVE  ~Resumes(journal', r)
    BY <1>1 DEF Survives
  <2>1. CASE r = m
    BY <1>3, <2>1 DEF Resumes
  <2>2. CASE r # m
    <3>1. ~Resumes(journal, r)
      BY <1>0, <1>1, <1>3, <2>2 DEF Survives
    <3> QED
      BY <1>3, <3>1 DEF Resumes
  <2> QED
    BY <2>1, <2>2
<1>9. History'
  BY <1>0, <1>1, <1>3 DEF History
<1> QED
  BY <1>3, <1>4, <1>5, <1>6, <1>7, <1>8, <1>9 DEF IInv

\* What settle_run_if_unfinished leaves in the store.
LEMMA SettledIs ==
  ASSUME IInv, live # Nothing, NEW s \in {"cancelled", "interrupted"},
         NEW j, j = SettleRunIfUnfinished(journal, live.run, s)
  PROVE  /\ j \in Seq(Entry) /\ Upto(j, LatestStarted(journal))
         /\ \A t, r : Has(journal, t, r) => Has(j, t, r)
         /\ \A r : r # live.run => FindRunTerminal(j, r) = FindRunTerminal(journal, r)
         /\ FindRunTerminal(journal, live.run) = NoTerminal =>
              FindRunTerminal(j, live.run) = Terminal(live.run, s, "none")
         /\ FindRunTerminal(journal, live.run) # NoTerminal => j = journal
<1>0. Types /\ Phased /\ Latest /\ journal \in Seq(Entry)
  BY DEF IInv, Types
<1>1. live.run = LatestStarted(journal) /\ LatestStarted(journal) \in Nat
  BY <1>0, LiveIsRun, LatestNumber
<1>2. Upto(journal, LatestStarted(journal))
  BY <1>0 DEF Latest
<1> DEFINE e == Terminal(live.run, s, "none")
<1>3. e \in Entry /\ e.type = "terminal" /\ e.run = live.run
  BY Settles, Fields
<1>4. CASE FindRunTerminal(journal, live.run) # NoTerminal
  BY <1>0, <1>2, <1>4, Settles
<1>5. CASE FindRunTerminal(journal, live.run) = NoTerminal
  <2>1. j = Append(journal, e)
    BY <1>5, Settles
  <2> HIDE DEF e
  <2>a. e.run <= LatestStarted(journal) /\ e.type # "started"
    BY <1>1, <1>3
  <2>2. Upto(j, LatestStarted(journal))
    BY <1>0, <1>1, <1>2, <1>3, <2>1, <2>a, AppendedUpto
  <2>3. /\ j \in Seq(Entry)
        /\ \A r : FindRunTerminal(j, r) =
                    IF e.type = "terminal" /\ e.run = r THEN e
                    ELSE FindRunTerminal(journal, r)
        /\ \A t, r : Has(j, t, r) <=>
                       Has(journal, t, r) \/ (e.type = t /\ e.run = r)
    BY <1>0, <1>3, <2>1, Appended
  <2>4. FindRunTerminal(j, live.run) = e
    BY <1>3, <2>3
  <2> QED
    BY <1>3, <1>5, <2>2, <2>3, <2>4 DEF e
<1> QED
  BY <1>4, <1>5

\* A settled run that had an outcome keeps it.
LEMMA SettledKeeps ==
  ASSUME IInv, live # Nothing, NEW s \in {"cancelled", "interrupted"},
         journal' = SettleRunIfUnfinished(journal, live.run, s)
  PROVE  Extends /\ Final
<1>0. Types /\ journal \in Seq(Entry)
  BY DEF IInv, Types
<1> DEFINE j == journal'
<1>1. /\ j \in Seq(Entry) /\ Upto(j, LatestStarted(journal))
      /\ \A t, r : Has(journal, t, r) => Has(j, t, r)
      /\ \A r : r # live.run => FindRunTerminal(j, r) = FindRunTerminal(journal, r)
      /\ FindRunTerminal(journal, live.run) # NoTerminal => j = journal
  BY SettledIs
<1>2. Extends
  BY <1>1 DEF Extends
<1>3. FindRunTerminal(journal, live.run) = NoTerminal =>
        FindRunTerminal(journal, live.run).state \notin {"completed", "cancelled"}
  BY <1>0, NoneIsOpen
<1>4. Final
  BY <1>1, <1>3 DEF Final
<1> QED
  BY <1>2, <1>4

\* A stop asks for the cancellation of its run, or settles it.
LEMMA StopRequestsKeeps ==
  ASSUME IInv, StopRequests
  PROVE  IInv' /\ Final
<1>0. Types /\ Phased /\ Latest /\ Open /\ Stops /\ Survives /\ History
  BY DEF IInv
<1>1. /\ stop.at = "request" /\ stop.expected \in {NoRun, live.run}
      /\ stop' = NoStop
      /\ UNCHANGED <<segmented, markers, repair, stops, lost>>
  BY DEF StopRequests
<1>2. /\ stop' \in StopCall /\ stop'.at = "none" /\ live \in LiveRun
      /\ journal \in Seq(Entry) /\ repair' \in Seq(Entry) /\ stops' \in 0..MaxStops
  BY <1>0, <1>1, Fields DEF Types
<1>3. CASE live.phase \in RC
  <2>1. /\ live' = [live EXCEPT !.phase = "cancelling", !.cause = "user"]
        /\ journal' = journal /\ stopped' = stopped \cup {live.run}
    BY <1>3 DEF StopRequests, RC
  <2>2. /\ live' \in LiveRun /\ live'.run = live.run /\ live'.cause = "user"
        /\ live'.phase = "cancelling" /\ live'.task = live.task
    BY <1>2, <2>1 DEF LiveRun
  <2>3. live # Nothing /\ live' # Nothing /\ live.task = "streaming"
    BY <1>0, <1>3, <2>2, Fields DEF RC, Phased
  <2>4. live.run \in Runs /\ live.run # NoRun /\ live.run = LatestStarted(journal)
    BY <1>0, <2>3, LiveIsRun
  <2>5. Types'
    BY <1>0, <1>1, <1>2, <2>1, <2>2, <2>4 DEF Types
  <2>6. Phased'
    BY <2>2, <2>3, <2>4 DEF Phased
  <2>7. Latest'
    <3>1. live.run <= LatestStarted(journal)
      BY <2>4 DEF Runs
    <3> QED
      BY <1>0, <1>1, <2>1, <2>2, <2>3, <2>4, <3>1 DEF Latest
  <2>8. Open'
    BY <1>0, <2>1, <2>2, <2>3 DEF Open
  <2>9. Stops'
    <3>1. segmented => Marked(live.run)
      BY <1>0, <1>1, <1>3, <2>3 DEF Stops, RC
    <3>2. Marked(live.run)' <=> Marked(live.run)
      BY <1>1, <2>1, <2>2 DEF Marked
    <3>3. FindRunTerminal(journal', live.run).cause # "system_shutdown"
      BY <1>0, <1>2, <2>1, <2>3, NoneIsOpen DEF Open
    <3> QED
      BY <1>1, <1>2, <2>2, <3>1, <3>2, <3>3 DEF Stops
  <2>10. Survives' /\ History'
    BY <1>0, <1>1, <2>1, <2>2 DEF Survives, History
  <2> QED
    BY <1>0, <2>1, <2>5, <2>6, <2>7, <2>8, <2>9, <2>10, SameJournal DEF IInv
<1>4. CASE live.phase = "faulted"
  <2>1. /\ journal' = SettleRunIfUnfinished(journal, live.run, "cancelled")
        /\ live' = Nothing /\ stopped' = stopped \cup {live.run}
    BY <1>4 DEF StopRequests
  <2>2. live # Nothing
    BY <1>4, Fields
  <2>3. Extends /\ Final
    BY <2>1, <2>2, SettledKeeps
  <2> DEFINE j == journal'
             t == FindRunTerminal(journal, live.run)
  <2>4. /\ t = NoTerminal =>
             FindRunTerminal(j, live.run) = Terminal(live.run, "cancelled", "none")
        /\ t # NoTerminal => j = journal
    BY <2>1, <2>2, SettledIs
  <2>5. segmented => Marked(live.run) \/ ~Resumes(journal', live.run)
    <3>1. CASE t = NoTerminal
      BY <2>4, <3>1, Fields DEF Resumes, NoTerminal
    <3>2. CASE t # NoTerminal /\ t.cause = "system_shutdown"
      BY <1>0, <1>1, <2>2, <3>2 DEF Stops
    <3>3. CASE t # NoTerminal /\ t.cause # "system_shutdown"
      <4>1. t \in Entry
        BY <1>2, <3>3, NoneIsOpen
      <4> QED
        BY <2>4, <3>3, <4>1 DEF Resumes, Entry
    <3> QED
      BY <3>1, <3>2, <3>3
  <2> QED
    BY <1>1, <1>2, <2>1, <2>2, <2>3, <2>5, LiveReleased
<1>5. CASE live.phase \notin RC \cup {"faulted"}
  <2>1. /\ UNCHANGED <<journal, live>>
        /\ stopped' = IF live.cause # "none" THEN stopped \cup {live.run} ELSE stopped
    BY <1>5 DEF StopRequests, RC
  <2>2. live.cause # "none" =>
          /\ live # Nothing /\ live.run \in Runs /\ live.run <= LatestStarted(journal)
    <3>1. live.cause # "none" => live # Nothing
      BY Fields
    <3>2. live # Nothing => live.run \in Runs /\ live.run = LatestStarted(journal)
      BY <1>0, LiveIsRun
    <3> QED
      BY <3>1, <3>2 DEF Runs
  <2>3. stopped' \subseteq Runs /\ \A r \in stopped' : r <= LatestStarted(journal)
    BY <1>0, <2>1, <2>2 DEF Types, Latest
  <2>4. Types' /\ Phased'
    BY <1>0, <1>1, <1>2, <2>1, <2>3 DEF Types, Phased
  <2>5. Latest'
    BY <1>0, <1>1, <2>1, <2>3 DEF Latest
  <2>6. Open'
    BY <1>0, <1>1, <2>1 DEF Open, TaskTerminal
  <2>7. Stops'
    <3>1. \A r : Marked(r)' <=> Marked(r)
      BY <1>1, <2>1 DEF Marked
    <3>2. live.cause \in {"none", "user", "shutdown"}
      BY <1>2 DEF LiveRun
    <3>3. segmented /\ live # Nothing /\ live.cause # "none" => Marked(live.run)
      BY <1>0, <1>1, <3>2 DEF Stops
    <3>4. live.run \in stopped' => live.run \in stopped \/ live.cause # "none"
      BY <2>1
    <3> QED
      BY <1>0, <1>1, <1>2, <2>1, <3>1, <3>3, <3>4 DEF Stops
  <2>8. Survives' /\ History'
    <3>1. stopped' \ {live.run} = stopped \ {live.run}
      BY <2>1
    <3> QED
      BY <1>0, <1>1, <2>1, <3>1 DEF Survives, History
  <2> QED
    BY <1>0, <2>1, <2>4, <2>5, <2>6, <2>7, <2>8, SameJournal DEF IInv
<1> QED
  BY <1>3, <1>4, <1>5

\* retry_persistence settles a faulted run.
LEMMA RecoverPersistenceDegradedKeeps ==
  ASSUME IInv, RecoverPersistenceDegraded
  PROVE  IInv' /\ Final
<1>0. Types /\ Stops
  BY DEF IInv
<1>1. /\ journal' = SettleRunIfUnfinished(journal, live.run, "interrupted")
      /\ live' = Nothing /\ live # Nothing
      /\ UNCHANGED <<segmented, stop, markers, repair, stops, stopped, lost>>
  BY Fields DEF RecoverPersistenceDegraded
<1>2. repair' \in Seq(Entry) /\ stop' \in StopCall /\ stops' \in 0..MaxStops
  BY <1>0, <1>1 DEF Types
<1>3. Extends /\ Final
  BY <1>1, SettledKeeps
<1>4. segmented /\ live.run \in stopped' => Marked(live.run)
  BY <1>0, <1>1 DEF Stops
<1> QED
  BY <1>1, <1>2, <1>3, <1>4, LiveReleased

\* A shutdown settles a faulted run, and names its cause if the outcome is its
\* own.
LEMMA ShutdownSettlesKeeps ==
  ASSUME IInv, ShutdownSettles
  PROVE  IInv' /\ Final
<1>0. Types /\ Phased /\ Latest /\ Stops /\ journal \in Seq(Entry)
  BY DEF IInv, Types
<1> DEFINE R == live.run
           j == SettleRunIfUnfinished(journal, R, "interrupted")
           w == Terminal(R, "interrupted", "none")
           e == Terminal(R, "interrupted", "system_shutdown")
           own == FindRunTerminal(j, R) = w
<1>1. /\ live # Nothing /\ live.phase = "faulted" /\ live.task = "gone"
      /\ UNCHANGED <<segmented, stop, markers, repair, stops, stopped, lost>>
      /\ \/ journal' = (IF own THEN Append(j, e) ELSE j) /\ live' = Nothing
         \/ own /\ journal' = j /\ UNCHANGED live
  BY Fields DEF ShutdownSettles
<1>2. repair' \in Seq(Entry) /\ stop' \in StopCall /\ stops' \in 0..MaxStops
  BY <1>0, <1>1 DEF Types
<1>3. journal' = j => Extends /\ Final
  BY <1>1, SettledKeeps
<1>4. own /\ journal' = Append(j, e) => Extends /\ Final
  <2> SUFFICES ASSUME own, journal' = Append(j, e) PROVE Extends /\ Final
    OBVIOUS
  <2>1. /\ j \in Seq(Entry) /\ Upto(j, LatestStarted(journal))
        /\ \A t, r : Has(journal, t, r) => Has(j, t, r)
        /\ \A r : r # R => FindRunTerminal(j, r) = FindRunTerminal(journal, r)
        /\ FindRunTerminal(journal, R) # NoTerminal => j = journal
    BY <1>1, SettledIs
  <2>2. R \in Runs /\ R = LatestStarted(journal) /\ R \in Nat /\ R <= R
    BY <1>0, <1>1, LiveIsRun DEF Runs
  <2>3. e \in Entry /\ e.type = "terminal" /\ e.run = R /\ w.state = "interrupted"
    BY <2>2 DEF Terminal, Entry
  <2>4. own
    OBVIOUS
  <2> HIDE DEF R, j, e, w
  <2>5. Upto(journal', LatestStarted(journal))
    BY <2>1, <2>2, <2>3, AppendedUpto
  <2>6. /\ journal' \in Seq(Entry)
        /\ \A r : FindRunTerminal(journal', r) =
                    IF e.type = "terminal" /\ e.run = r THEN e
                    ELSE FindRunTerminal(j, r)
        /\ \A t, r : Has(journal', t, r) <=>
                       Has(j, t, r) \/ (e.type = t /\ e.run = r)
    BY <2>1, <2>3, Appended
  <2>7. Extends
    BY <2>1, <2>5, <2>6 DEF Extends
  <2>8. FindRunTerminal(journal, R).state \notin {"completed", "cancelled"}
    BY <1>0, <2>1, <2>3, <2>4, NoneIsOpen
  <2>9. Final
    BY <2>1, <2>3, <2>6, <2>8 DEF Final
  <2> QED
    BY <2>7, <2>9
<1>5. CASE live' = Nothing
  <2>1. Extends /\ Final
    BY <1>1, <1>3, <1>4
  <2>2. segmented /\ live.run \in stopped' => Marked(live.run)
    BY <1>0, <1>1 DEF Stops
  <2> QED
    BY <1>1, <1>2, <1>5, <2>1, <2>2, LiveReleased
<1>6. CASE own /\ journal' = j /\ UNCHANGED live
  <2>1. Extends /\ Final
    BY <1>3, <1>6
  <2>2. FindRunTerminal(journal', live.run).cause = "none"
    BY <1>6, Fields
  <2>3. Phased'
    BY <1>0, <1>1, <1>6 DEF Phased
  <2>4. live' \in LiveRun /\ live'.phase \notin RC
    BY <1>0, <1>1, <1>6 DEF Types, RC
  <2> QED
    BY <1>1, <1>2, <1>6, <2>1, <2>2, <2>3, <2>4, LiveEnds
<1> QED
  BY <1>1, <1>5, <1>6

\* The next process of a segmented session closes what is open.
LEMMA RestartSegmentedKeeps ==
  ASSUME IInv, Restart, segmented
  PROVE  IInv' /\ Final
<1>0. /\ Types /\ Phased /\ Latest /\ Stops /\ Survives /\ History
      /\ journal \in Seq(Entry)
  BY DEF IInv, Types
<1>1. /\ journal' = RecoverSegmentedRuns(journal) /\ live' = Nothing
      /\ stop' = NoStop /\ markers' = {} /\ repair' = << >>
      /\ lost' = lost \cup markers /\ UNCHANGED <<segmented, stops, stopped>>
  BY DEF Restart
<1> DEFINE k == journal'
<1>2. /\ k \in Seq(Entry)
      /\ LatestStarted(k) = LatestStarted(journal)
      /\ \A r \in Runs : FindRunTerminal(k, r) =
           IF Running(journal, r) THEN Closing(journal, r)
           ELSE FindRunTerminal(journal, r)
      /\ \A r : /\ Has(k, "started", r) <=> Has(journal, "started", r)
                /\ Has(k, "stop", r) <=> Has(journal, "stop", r)
      /\ Upto(journal, LatestStarted(journal)) => Upto(k, LatestStarted(journal))
  BY <1>0, <1>1, RecoverIs
<1>3. /\ live'.run = NoRun /\ live'.phase = "idle" /\ live'.task = "gone"
      /\ live' \in LiveRun /\ stop' \in StopCall
  BY <1>1, Fields
<1>4. Types'
  BY <1>0, <1>1, <1>2, <1>3 DEF Types
<1>5. Phased'
  BY <1>1, <1>3 DEF Phased
<1>6. Latest'
  BY <1>0, <1>1, <1>2, <1>3 DEF Latest
<1>7. Open' /\ Stops'
  BY <1>1, <1>3 DEF Open, Stops
<1>8. Survives'
  <2> SUFFICES ASSUME NEW r \in stopped \ (lost \cup markers), Resumes(k, r)
               PROVE  FALSE
    BY <1>1 DEF Survives
  <2>1. r \in Runs /\ r # NoRun
    BY <1>0 DEF Types, Runs, NoRun
  <2>2. LatestStarted(journal) = r /\ ~Has(journal, "stop", r)
    BY <1>2 DEF Resumes
  <2>3. CASE Running(journal, r)
    <3>1. FindRunTerminal(k, r) = Terminal(r, "interrupted", "process_restart")
      BY <1>2, <2>1, <2>2, <2>3 DEF Closing
    <3> QED
      BY <3>1, Fields DEF Resumes, NoTerminal
  <2>4. CASE ~Running(journal, r)
    <3>1. Resumes(journal, r)
      BY <1>2, <2>1, <2>2, <2>4 DEF Resumes
    <3>2. r = live.run
      BY <1>0, <3>1 DEF Survives
    <3>3. Marked(r)
      BY <1>0, <2>1, <3>2, Fields DEF Stops
    <3> QED
      BY <2>2, <3>3 DEF Marked
  <2> QED
    BY <2>3, <2>4
<1>a. \A r \in Runs : Has(journal, "terminal", r) =>
        FindRunTerminal(k, r) = FindRunTerminal(journal, r)
  BY <1>2 DEF Running
<1>9. History'
  <2> SUFFICES ASSUME NEW r \in 1..(LatestStarted(journal) - 1)
               PROVE  Has(k, "started", r) /\ Has(k, "terminal", r)
    BY <1>2 DEF History
  <2>1. Has(journal, "started", r) /\ Has(journal, "terminal", r)
    BY <1>0 DEF History
  <2>2. r \in Runs
    BY <1>0, <2>1, KnownRun
  <2>3. FindRunTerminal(k, r) # NoTerminal
    BY <1>0, <1>a, <2>1, <2>2, NoneIsOpen
  <2> QED
    BY <1>2, <2>1, <2>3, NoneIsOpen
<1>10. Final
  <2> SUFFICES ASSUME NEW r \in Runs,
                      FindRunTerminal(journal, r).state \in {"completed", "cancelled"}
               PROVE  FindRunTerminal(k, r) = FindRunTerminal(journal, r)
    BY DEF Final
  <2>1. Has(journal, "terminal", r)
    BY <1>0, NoneIsOpen
  <2> QED
    BY <1>a, <2>1
<1> QED
  BY <1>4, <1>5, <1>6, <1>7, <1>8, <1>9, <1>10 DEF IInv

\* The next process of a legacy session closes what the user stopped.
LEMMA RestartLegacyKeeps ==
  ASSUME IInv, Restart, ~segmented
  PROVE  IInv' /\ Final
<1>0. Types /\ Latest /\ journal \in Seq(Entry)
  BY DEF IInv, Types
<1>1. /\ journal' = ReconcileUserStops(journal) /\ live' = Nothing
      /\ stop' = NoStop /\ markers' = {} /\ repair' = << >>
      /\ lost' = lost \cup markers /\ UNCHANGED <<segmented, stops, stopped>>
  BY DEF Restart
<1>2. Extends /\ Final
  <2> DEFINE r == LatestStarted(journal)
             t == FindRunTerminal(journal, r)
             e == Terminal(r, "cancelled", "user_stop")
  <2>1. CASE Has(journal, "stop", r) /\ (t = NoTerminal \/ t.state = "interrupted")
    <3>1. r \in Runs /\ r <= LatestStarted(journal)
      BY <1>0, <2>1, KnownRun
    <3>2. e \in Entry /\ e.type = "terminal" /\ e.run = r
      BY <3>1 DEF Terminal, Entry
    <3>3. journal' = Append(journal, e)
      BY <1>1, <2>1 DEF ReconcileUserStops, Has
    <3>4. t.state \notin {"completed", "cancelled"}
      BY <1>0, <2>1, NoneIsOpen
    <3> HIDE DEF e
    <3>5. Final
      BY <1>0, <3>1, <3>2, <3>3, <3>4, GrownFinal
    <3>6. Extends
      BY <1>0, <3>1, <3>2, <3>3, Grown
    <3> QED
      BY <3>5, <3>6
  <2>2. CASE ~(Has(journal, "stop", r) /\ (t = NoTerminal \/ t.state = "interrupted"))
    <3>1. journal' = journal
      BY <1>1, <2>2 DEF ReconcileUserStops, Has
    <3> QED
      BY <1>0, <3>1, SameJournal
  <2> QED
    BY <2>1, <2>2
<1>3. /\ live'.run = NoRun /\ live'.phase = "idle" /\ live'.task = "gone"
      /\ live' \in LiveRun /\ stop' \in StopCall
  BY <1>1, Fields
<1>4. Types'
  BY <1>0, <1>1, <1>2, <1>3 DEF Types, Extends
<1>5. Phased'
  BY <1>1, <1>3 DEF Phased
<1>6. Latest'
  <2>1. LatestStarted(journal') = LatestStarted(journal)
    BY <1>2 DEF Extends, Upto
  <2> QED
    BY <1>0, <1>1, <1>2, <1>3, <2>1 DEF Latest, Extends
<1>7. Open' /\ Stops' /\ Survives' /\ History'
  BY <1>1, <1>3 DEF Open, Stops, Survives, History
<1> QED
  BY <1>2, <1>4, <1>5, <1>6, <1>7 DEF IInv

-----------------------------------------------------------------------------
(* The invariant and what follows from it.                                 *)

\* The first process begins with an empty journal.
LEMMA InitHolds ==
  Init => IInv
<1> SUFFICES ASSUME Init PROVE IInv
  OBVIOUS
<1>1. /\ journal = << >> /\ repair = << >> /\ live = Nothing /\ stop = NoStop
      /\ markers = {} /\ stopped = {} /\ lost = {} /\ stops = 0
      /\ segmented \in BOOLEAN
  BY DEF Init
<1>2. /\ live.run = NoRun /\ live.phase = "idle" /\ live.task = "gone"
      /\ live \in LiveRun /\ stop \in StopCall
  BY <1>1, Fields
<1>3. journal \in Seq(Entry) /\ Starts(journal) = {} /\ 1..Len(journal) = {}
  BY <1>1 DEF Starts
<1>4. LatestStarted(journal) = 0
  BY <1>3, LatestIs DEF NoRun
<1>5. Types
  BY <1>1, <1>2, <1>3, ConstantsAssumption DEF Types
<1>6. Phased
  BY <1>1, <1>2 DEF Phased
<1>7. Latest
  BY <1>1, <1>2, <1>3, <1>4 DEF Latest, Upto
<1>8. Open /\ Stops
  BY <1>1, <1>2 DEF Open, Stops
<1>9. Survives /\ History
  BY <1>1, <1>4 DEF Survives, History
<1> QED
  BY <1>5, <1>6, <1>7, <1>8, <1>9 DEF IInv

\* Every step keeps the invariant and the ends that are final.
LEMMA StepKeeps ==
  IInv /\ [Next]_vars => IInv' /\ Final
<1> SUFFICES ASSUME IInv, [Next]_vars PROVE IInv' /\ Final
  OBVIOUS
<1>1. CASE StartRun
  BY <1>1, StartRunKeeps
<1>2. CASE TaskFence \/ TaskCommitCancelled \/ TimerMarks \/ ShutdownInterrupts
  BY <1>2, LiveOnlyKeeps
<1>3. CASE TaskCommit
  BY <1>3, TaskCommitKeeps
<1>4. CASE TaskRepairReads
  BY <1>4, TaskRepairReadsKeeps
<1>5. CASE TaskRepairWrites
  BY <1>5, TaskRepairWritesKeeps
<1>6. CASE TaskFaults
  BY <1>6, TaskFaultsKeeps
<1>7. CASE TaskReturns
  BY <1>7, TaskReturnsKeeps
<1>8. CASE \E x \in Runs \cup {NoRun} : StopWhileIdle(x)
  BY <1>8, StopWhileIdleKeeps
<1>9. CASE \E x \in Runs \cup {NoRun} : StopBegins(x)
  BY <1>9, StopOnlyKeeps
<1>10. CASE StopRefused
  <2>1. NoRun \in Runs \cup {NoRun}
    OBVIOUS
  <2> QED
    BY <1>10, <2>1, StopOnlyKeeps
<1>11. CASE StopMarks
  BY <1>11, StopMarksKeeps
<1>12. CASE \E r \in Runs : MarkerWritten(r)
  BY <1>12, MarkerWrittenKeeps
<1>13. CASE StopRequests
  BY <1>13, StopRequestsKeeps
<1>14. CASE ShutdownSettles
  BY <1>14, ShutdownSettlesKeeps
<1>15. CASE RecoverPersistenceDegraded
  BY <1>15, RecoverPersistenceDegradedKeeps
<1>16. CASE Restart
  BY <1>16, RestartSegmentedKeeps, RestartLegacyKeeps
<1>17. CASE UNCHANGED vars
  <2>1. UNCHANGED <<segmented, journal, live, stop, markers, repair, stops,
                    stopped, lost>>
    BY <1>17 DEF vars
  <2>2. Types' /\ Phased' /\ Latest'
    BY <2>1 DEF IInv, Types, Phased, Latest
  <2>3. Open' /\ Stops' /\ Survives' /\ History'
    BY <2>1 DEF IInv, Open, TaskTerminal, Stops, Marked, Survives, History
  <2> QED
    BY <2>1, <2>2, <2>3, SameJournal DEF IInv
<1> QED
  BY <1>1, <1>2, <1>3, <1>4, <1>5, <1>6, <1>7, <1>8, <1>9, <1>10, <1>11, <1>12,
     <1>13, <1>14, <1>15, <1>16, <1>17 DEF Next

\* The inductive invariant holds in every reachable state.
THEOREM MarkersInvariant ==
  Spec => []IInv
<1>1. IInv /\ [Next]_vars => IInv'
  BY StepKeeps
<1> QED
  BY <1>1, InitHolds, PTL DEF Spec

\* The state has its types.
THEOREM MarkersTypeCorrect ==
  Spec => []TypeOK
<1>1. IInv => TypeOK
  <2> SUFFICES ASSUME Types PROVE TypeOK
    BY DEF IInv
  <2>1. /\ live.run \in Runs \cup {NoRun}
        /\ live.phase \in {"idle", "running", "cancelling", "finalizing", "faulted"}
        /\ live.cause \in {"none", "user", "shutdown"}
        /\ stop.at \in {"none", "target", "request"}
    BY DEF Types, LiveRun, StopCall
  <2>2. \A i \in 1..Len(journal) : journal[i].run \in Runs
    <3> SUFFICES ASSUME NEW i \in 1..Len(journal) PROVE journal[i].run \in Runs
      OBVIOUS
    <3>1. journal[i] \in Entry
      BY DEF Types
    <3> QED
      BY <3>1 DEF Entry
  <2> QED
    BY <2>1, <2>2 DEF Types, TypeOK
<1> QED
  BY <1>1, MarkersInvariant, PTL

\* A user's stop of a run survives whatever ends the run: a segmented session
\* never offers to resume a run whose stop was answered with success and whose
\* marker was not lost.
THEOREM SegmentedStopSurvivesHolds ==
  Spec => []SegmentedStopSurvives
<1>1. IInv => SegmentedStopSurvives
  <2> SUFFICES ASSUME IInv, segmented,
                      NEW r \in stopped \ (lost \cup markers \cup {live.run})
               PROVE  ResumableRunId # r
    BY DEF SegmentedStopSurvives
  <2>1. r \in Runs /\ ~Resumes(journal, r)
    BY DEF IInv, Types, Survives
  <2> QED
    BY <2>1, ResumableIs DEF IInv
<1> QED
  BY <1>1, MarkersInvariant, PTL

\* read_run_marker_headers: the few headers read answer which run is open and
\* which may be resumed as the whole journal would, in every journal reached.
THEOREM HeadersSufficeHolds ==
  Spec => []HeadersSuffice
<1>1. IInv => HeadersSuffice
  <2> SUFFICES ASSUME Types PROVE HeadersSuffice
    BY DEF IInv
  <2>1. journal \in Seq(Entry)
    BY DEF Types
  <2> QED
    BY <2>1, HeadersAgree DEF HeadersSuffice
<1> QED
  BY <1>1, MarkersInvariant, PTL

\* A segmented session has the start and the outcome of every run before the
\* latest, across crashes and restarts.
THEOREM RunHistoryKeptHolds ==
  Spec => []RunHistoryKept
<1>1. IInv => RunHistoryKept
  <2> SUFFICES ASSUME IInv, segmented, NEW r \in 1..(LatestStarted(journal) - 1)
               PROVE  /\ IndexesOf(journal, "started", r) # {}
                      /\ FindRunTerminal(journal, r) # NoTerminal
    BY DEF RunHistoryKept
  <2>1. Has(journal, "started", r) /\ Has(journal, "terminal", r)
    BY DEF IInv, History
  <2>2. journal \in Seq(Entry)
    BY DEF IInv, Types
  <2> QED
    BY <2>1, <2>2, NoneIsOpen DEF Has
<1> QED
  BY <1>1, MarkersInvariant, PTL

\* The outcome of a run that ended or was cancelled is final: no later step
\* makes it anything else as long as the run is in the journal.
THEOREM OutcomeFinalHolds ==
  Spec => OutcomeFinal
<1>1. IInv /\ [Next]_vars =>
        [\A r \in Runs :
           LET t == FindRunTerminal(journal, r).state IN
           /\ t \in {"completed", "cancelled"}
           /\ IndexesOf(journal', "started", r) # {}
           => FindRunTerminal(journal', r).state = t]_vars
  BY StepKeeps DEF Final, Has
<1> QED
  BY <1>1, MarkersInvariant, PTL DEF Spec, OutcomeFinal
=============================================================================
