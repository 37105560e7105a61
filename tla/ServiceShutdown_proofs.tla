------------------------ MODULE ServiceShutdown_proofs ------------------------
(***************************************************************************)
(* Proofs about ServiceShutdown, for every set of sessions and clients and *)
(* every number of runs and commands.                                      *)
(*                                                                         *)
(* The counts of ServiceWork are the cardinalities of the sets of guards   *)
(* that are held (Exact), so a count of zero is a fact about every command *)
(* and session.  Closed admission keeps the commands at zero once they are *)
(* (Closing) and the queues empty (Emptied); counts found at zero then are *)
(* final (Quieted), since every step of the work needs a guard to be held. *)
(* Those steps are handled together, by what they do to one session and    *)
(* the counts (Proper); the steps of the updater and the stages of the     *)
(* drain one by one.                                                       *)
(***************************************************************************)
EXTENDS ServiceShutdown, FiniteSetTheorems, TLAPS

Work == [closed : BOOLEAN, retired : BOOLEAN, commands : Nat,
         background : Nat, auxiliary : Nat]
Command == [pc : {"out", "in", "starting", "done"},
            session : Sessions \cup {"none"}, sent : Nat]
Session == [task : {"none", "working", "returned", "panicked"},
            control : {"none", "active", "stuck"}, child : BOOLEAN,
            queue : Nat,
            worker : {"waiting", "woken", "starting", "entered", "aborted",
                      "gone"},
            timer : {"off", "armed", "aborted"}]
Supervisor == [stage : Stages, left : SUBSET Sessions, errors : BOOLEAN]
Updater == [pc : {"off", "counts", "look"}, left : SUBSET Sessions,
            busy : BOOLEAN, clean : BOOLEAN]
Fate == [accepted : Nat, started : Nat, taken : Nat, recorded : Nat]

Types ==
  /\ work \in Work /\ cmd \in [Clients -> Command] /\ known \subseteq Sessions
  /\ sess \in [Sessions -> Session] /\ refresh \in BOOLEAN /\ server \in BOOLEAN
  /\ drain \in Supervisor /\ report \in {"none", "Stopped", "Failed"}
  /\ closed \in [writers : SUBSET Sessions, storage : BOOLEAN]
  /\ updater \in Updater /\ fate \in [Sessions -> Fate]

-----------------------------------------------------------------------------
(* The guards behind the three counts.                                     *)

Commanding == {c \in Clients : cmd[c].pc # "out"}
Entering == {s \in Sessions : sess[s].worker = "entered"}
Children == {s \in Sessions : sess[s].child}
Workers == {s \in Sessions : sess[s].worker # "gone"}
Monitors == {s \in Sessions : sess[s].task # "none"}
Timers == {s \in Sessions : sess[s].timer # "off"}

\* Every count is the number of the guards that are held.
Exact ==
  /\ IsFiniteSet(Commanding) /\ IsFiniteSet(Entering) /\ IsFiniteSet(Children)
  /\ IsFiniteSet(Workers) /\ IsFiniteSet(Monitors) /\ IsFiniteSet(Timers)
  /\ work.commands = Cardinality(Commanding) + Cardinality(Entering)
  /\ work.background = Cardinality(Children) + (IF refresh THEN 1 ELSE 0)
  /\ work.auxiliary =
       Cardinality(Workers) + Cardinality(Monitors) + Cardinality(Timers)

\* A session no command created has nothing.
Unknown ==
  \A s \in Sessions \ known :
    /\ sess[s].task = "none" /\ sess[s].control = "none" /\ ~sess[s].child
    /\ sess[s].queue = 0 /\ sess[s].worker = "gone" /\ sess[s].timer = "off"
    /\ fate[s].taken = 0 /\ fate[s].recorded = 0

\* A worker on its way to start a run.
Starters == {"woken", "starting", "entered"}

\* Whoever holds a session's write lock to start a run is alone with it, and
\* no run is under way.
Locks ==
  /\ \A c \in Clients : cmd[c].pc = "starting" =>
       /\ cmd[c].session \in known
       /\ sess[cmd[c].session].task = "none"
       /\ sess[cmd[c].session].worker \notin Starters
       /\ \A d \in Clients :
            cmd[d].pc = "starting" /\ cmd[d].session = cmd[c].session => d = c
  /\ \A s \in Sessions :
       /\ sess[s].worker \in Starters => sess[s].task = "none"
       /\ sess[s].worker \in {"starting", "entered"} => sess[s].queue # 0

Late == {"queues", "counts", "look", "terminals", "monitors", "writers",
         "listener", "abandoned", "storage"}

\* Admission is closed as soon as the drain begins; once its commands have
\* ended there are none again, and only then are workers and timers aborted.
Closing ==
  /\ drain.stage # "off" => work.closed
  /\ drain.stage \in Late => work.commands = 0
  /\ drain.stage = "interrupt" => drain.left \subseteq known
  /\ \A s \in Sessions :
       sess[s].timer = "aborted" \/ sess[s].worker = "aborted" =>
         work.closed /\ work.commands = 0

\* Queues that were taken stay empty.
Emptied ==
  /\ drain.stage = "queues" => \A s \in known \ drain.left : sess[s].queue = 0
  /\ drain.stage \in Late \ {"queues"} => \A s \in Sessions : sess[s].queue = 0

\* The supervisor went through storage to its return.
Through == drain.stage = "returned" /\ report = "none"

\* No guard is held, nothing is queued and nothing is admitted.
AllQuiet ==
  /\ work.closed
  /\ work.commands = 0 /\ work.background = 0 /\ work.auxiliary = 0
  /\ \A s \in Sessions : sess[s].queue = 0

\* So it is from the second look at the counts on, also after the drain gave
\* up with writers closed.
Quieted ==
  \/ drain.stage \in {"terminals", "monitors", "writers", "listener",
                      "abandoned", "storage"}
  \/ closed.writers # {} \/ closed.storage \/ report = "Stopped" \/ Through
  => AllQuiet

\* What could not be recorded or resolved is an error of the report.
Accounted ==
  /\ drain.stage = "terminals" => \A s \in known \ drain.left :
       drain.errors \/ fate[s].recorded = fate[s].taken
  /\ drain.stage \in {"monitors", "writers", "listener", "abandoned",
         "storage"}
       \/ Through => \A s \in Sessions :
       drain.errors \/ fate[s].recorded = fate[s].taken
  /\ drain.stage = "writers" => \A s \in known \ drain.left :
       drain.errors \/ sess[s].control = "none"
  /\ drain.stage \in {"listener", "abandoned", "storage"} \/ Through =>
       \A s \in Sessions : drain.errors \/ sess[s].control = "none"
  /\ drain.stage = "storage" \/ Through => ~server
  /\ report = "Stopped" =>
       /\ ~server /\ drain.stage = "over"
       /\ \A s \in Sessions :
            sess[s].control = "none" /\ fate[s].recorded = fate[s].taken

\* While no guard moved, what the updater has seen idle is idle.
Looking ==
  updater.pc = "look" /\ updater.clean /\ ~updater.busy =>
    /\ work.commands = 0 /\ work.background = 0
    /\ \A s \in known \ updater.left :
         sess[s].task = "none" /\ sess[s].queue = 0

IInv ==
  /\ Types /\ Exact /\ Unknown /\ Locks /\ Closing /\ Emptied /\ Quieted
  /\ Accounted /\ Looking

-----------------------------------------------------------------------------
(* What a step does to a session, a command and the counts.                *)

\* Of the sessions at most s changes.
OnlySession(s) ==
  /\ sess' \in [Sessions -> Session]
  /\ \A t \in Sessions \ {s} : sess'[t] = sess[t]

\* Of the sessions only s changes, and these are its fields.
SessionIs(s, task, control, child, queue, worker, timer) ==
  /\ OnlySession(s)
  /\ sess'[s].task = task /\ sess'[s].control = control
  /\ sess'[s].child = child /\ sess'[s].queue = queue
  /\ sess'[s].worker = worker /\ sess'[s].timer = timer

\* Of the commands only that of c changes, to this place and session.
CommandIs(c, pc, session) ==
  /\ cmd' \in [Clients -> Command]
  /\ \A d \in Clients \ {c} : cmd'[d] = cmd[d]
  /\ cmd'[c].pc = pc /\ cmd'[c].session = session

\* The work, before its counts are known to be natural numbers.
WideWork == [closed : BOOLEAN, retired : BOOLEAN, commands : Int,
             background : Int, auxiliary : Int]

\* The counts are these, and nothing else of the work changes.
CountsAre(commands, background, auxiliary) ==
  /\ work' \in WideWork
  /\ work'.closed = work.closed /\ work'.retired = work.retired
  /\ work'.commands = commands /\ work'.background = background
  /\ work'.auxiliary = auxiliary

\* The updater is told that a guard moved.
Moved ==
  /\ updater' \in Updater /\ ~updater'.clean /\ updater'.pc = updater.pc
  /\ updater'.left = updater.left /\ updater'.busy = updater.busy

\* What the drain took from the queues and recorded stays.
FateKept ==
  /\ fate' \in [Sessions -> Fate]
  /\ \A s \in Sessions : /\ fate'[s].taken = fate[s].taken
                         /\ fate'[s].recorded = fate[s].recorded

\* A session is changed through its record.
LEMMA SessionChanges ==
  ASSUME Types, NEW s \in Sessions, NEW x \in Session,
         sess' = [sess EXCEPT ![s] = x]
  PROVE OnlySession(s) /\ sess'[s] = x
BY DEF OnlySession, Types

\* A command is changed through its record.
LEMMA CommandChanges ==
  ASSUME Types, NEW c \in Clients, NEW x \in Command,
         cmd' = [cmd EXCEPT ![c] = x]
  PROVE CommandIs(c, x.pc, x.session)
BY DEF CommandIs, Types

\* The work is of the wider type.
LEMMA WorkIsWide ==
  ASSUME Types
  PROVE work \in WideWork
BY DEF Types, Work, WideWork

\* The updater is told of every guard that moves.
LEMMA CountedMoves ==
  ASSUME Types, NEW w, Counted(w)
  PROVE work' = w /\ Moved
<1>1. updater' = [updater EXCEPT !.clean = FALSE]
  BY DEF Counted
<1>2. Moved
  BY <1>1 DEF Moved, Types, Updater
<1> QED BY <1>2 DEF Counted

-----------------------------------------------------------------------------
(* Counting the guards.                                                    *)

\* A set that gains or loses one element: its cardinality follows.
LEMMA Tally ==
  ASSUME NEW S, IsFiniteSet(S), NEW x, NEW T, T \cup {x} = S \cup {x}
  PROVE /\ IsFiniteSet(T)
        /\ Cardinality(S) \in Nat /\ Cardinality(T) \in Nat
        /\ Cardinality(T) = Cardinality(S) + (IF x \in T THEN 1 ELSE 0)
                                           - (IF x \in S THEN 1 ELSE 0)
<1>0. Cardinality(S) \in Nat
  BY FS_CardinalityType
<1>1. CASE x \in S /\ x \in T
  BY <1>0, <1>1, T = S
<1>2. CASE x \notin S /\ x \in T
  <2>1. T = S \cup {x}
    BY <1>2
  <2> QED BY <1>0, <1>2, <2>1, FS_AddElement
<1>3. CASE x \in S /\ x \notin T
  <2>1. T = S \ {x}
    BY <1>3
  <2>2. IsFiniteSet(T) /\ Cardinality(T) = Cardinality(S) - 1
    BY <1>3, <2>1, FS_RemoveElement
  <2>3. Cardinality(T) \in Nat
    BY <2>2, FS_CardinalityType
  <2> QED BY <1>0, <1>3, <2>2, <2>3
<1>4. CASE x \notin S /\ x \notin T
  BY <1>0, <1>4, T = S
<1> QED BY <1>1, <1>2, <1>3, <1>4

\* 1 for a guard that is held.
One(held) == IF held THEN 1 ELSE 0

\* The guards of kind G move with that of one session or client: from old to
\* new.
Follows(G, H, new, old) ==
  /\ IsFiniteSet(H) /\ Cardinality(G) \in Nat /\ Cardinality(H) \in Nat
  /\ Cardinality(H) = Cardinality(G) + One(new) - One(old)

\* The guards of one session move: so do the five cardinalities.
LEMMA SessionTally ==
  ASSUME Types, Exact, NEW s \in Sessions, OnlySession(s)
  PROVE /\ Follows(Entering, Entering', sess'[s].worker = "entered",
                   sess[s].worker = "entered")
        /\ Follows(Children, Children', sess'[s].child, sess[s].child)
        /\ Follows(Workers, Workers', sess'[s].worker # "gone",
                   sess[s].worker # "gone")
        /\ Follows(Monitors, Monitors', sess'[s].task # "none",
                   sess[s].task # "none")
        /\ Follows(Timers, Timers', sess'[s].timer # "off",
                   sess[s].timer # "off")
<1>1. Follows(Entering, Entering', sess'[s].worker = "entered",
          sess[s].worker = "entered")
  <2>1. IsFiniteSet(Entering)
    BY DEF Exact
  <2>2. Entering' \cup {s} = Entering \cup {s}
    BY DEF OnlySession, Entering
  <2>3. /\ s \in Entering' <=> sess'[s].worker = "entered"
        /\ s \in Entering <=> sess[s].worker = "entered"
    BY DEF Entering
  <2> QED BY <2>1, <2>2, <2>3, Tally DEF Follows, One
<1>2. Follows(Children, Children', sess'[s].child, sess[s].child)
  <2>1. IsFiniteSet(Children)
    BY DEF Exact
  <2>2. Children' \cup {s} = Children \cup {s}
    BY DEF OnlySession, Children
  <2>3. /\ s \in Children' <=> sess'[s].child
        /\ s \in Children <=> sess[s].child
    BY DEF Children
  <2> QED BY <2>1, <2>2, <2>3, Tally DEF Follows, One
<1>3. Follows(Workers, Workers', sess'[s].worker # "gone",
          sess[s].worker # "gone")
  <2>1. IsFiniteSet(Workers)
    BY DEF Exact
  <2>2. Workers' \cup {s} = Workers \cup {s}
    BY DEF OnlySession, Workers
  <2>3. /\ s \in Workers' <=> sess'[s].worker # "gone"
        /\ s \in Workers <=> sess[s].worker # "gone"
    BY DEF Workers
  <2> QED BY <2>1, <2>2, <2>3, Tally DEF Follows, One
<1>4. Follows(Monitors, Monitors', sess'[s].task # "none",
          sess[s].task # "none")
  <2>1. IsFiniteSet(Monitors)
    BY DEF Exact
  <2>2. Monitors' \cup {s} = Monitors \cup {s}
    BY DEF OnlySession, Monitors
  <2>3. /\ s \in Monitors' <=> sess'[s].task # "none"
        /\ s \in Monitors <=> sess[s].task # "none"
    BY DEF Monitors
  <2> QED BY <2>1, <2>2, <2>3, Tally DEF Follows, One
<1>5. Follows(Timers, Timers', sess'[s].timer # "off", sess[s].timer # "off")
  <2>1. IsFiniteSet(Timers)
    BY DEF Exact
  <2>2. Timers' \cup {s} = Timers \cup {s}
    BY DEF OnlySession, Timers
  <2>3. /\ s \in Timers' <=> sess'[s].timer # "off"
        /\ s \in Timers <=> sess[s].timer # "off"
    BY DEF Timers
  <2> QED BY <2>1, <2>2, <2>3, Tally DEF Follows, One
<1> QED BY <1>1, <1>2, <1>3, <1>4, <1>5

\* One command enters or leaves: so does the cardinality.
LEMMA CommandTally ==
  ASSUME Types, Exact, NEW c \in Clients,
         \A d \in Clients \ {c} : cmd'[d] = cmd[d]
  PROVE Follows(Commanding, Commanding', cmd'[c].pc # "out", cmd[c].pc # "out")
<1>1. IsFiniteSet(Commanding)
  BY DEF Exact
<1>2. Commanding' \cup {c} = Commanding \cup {c}
  BY DEF Commanding
<1>3. /\ c \in Commanding' <=> cmd'[c].pc # "out"
      /\ c \in Commanding <=> cmd[c].pc # "out"
  BY DEF Commanding
<1> QED BY <1>1, <1>2, <1>3, Tally DEF Follows, One

\* The counts move as the guards of session s do.
Balanced(s) ==
  /\ work'.commands = work.commands
       + One(sess'[s].worker = "entered") - One(sess[s].worker = "entered")
  /\ work'.background = work.background
       + One(sess'[s].child) - One(sess[s].child)
  /\ work'.auxiliary = work.auxiliary
       + One(sess'[s].worker # "gone") - One(sess[s].worker # "gone")
       + One(sess'[s].task # "none") - One(sess[s].task # "none")
       + One(sess'[s].timer # "off") - One(sess[s].timer # "off")

\* The counts stay exact when they move with the guards of one session.
LEMMA SessionExact ==
  ASSUME Types, Exact, NEW s \in Sessions, OnlySession(s), Balanced(s),
         Commanding' = Commanding, refresh' = refresh
  PROVE Exact'
<1>1. Cardinality(Commanding) \in Nat
  BY FS_CardinalityType DEF Exact
<1> QED BY <1>1, SessionTally DEF Exact, Balanced, Follows, One

\* The counts stay exact when they move with one command's guard.
LEMMA CommandExact ==
  ASSUME Types, Exact, NEW c \in Clients, UNCHANGED sess,
         \A d \in Clients \ {c} : cmd'[d] = cmd[d],
         refresh' \in BOOLEAN,
         work'.commands = work.commands
           + One(cmd'[c].pc # "out") - One(cmd[c].pc # "out"),
         work'.background = work.background + One(refresh') - One(refresh),
         work'.auxiliary = work.auxiliary
  PROVE Exact'
<1>1. /\ Entering' = Entering /\ Children' = Children /\ Workers' = Workers
      /\ Monitors' = Monitors /\ Timers' = Timers
  BY DEF Entering, Children, Workers, Monitors, Timers
<1>2. /\ Cardinality(Entering) \in Nat /\ Cardinality(Children) \in Nat
      /\ Cardinality(Workers) \in Nat /\ Cardinality(Monitors) \in Nat
      /\ Cardinality(Timers) \in Nat
  BY FS_CardinalityType DEF Exact
<1> QED BY <1>1, <1>2, CommandTally DEF Exact, Follows, One, Types

\* Exact counts are natural numbers: dropping a guard never underflows.
LEMMA WorkTyped ==
  ASSUME Exact', refresh' \in BOOLEAN, work' \in WideWork
  PROVE work' \in Work
<1>1. /\ Cardinality(Commanding)' \in Nat /\ Cardinality(Entering)' \in Nat
      /\ Cardinality(Children)' \in Nat /\ Cardinality(Workers)' \in Nat
      /\ Cardinality(Monitors)' \in Nat /\ Cardinality(Timers)' \in Nat
  BY FS_CardinalityType DEF Exact
<1>2. /\ work'.commands \in Nat /\ work'.background \in Nat
      /\ work'.auxiliary \in Nat
  BY <1>1 DEF Exact
<1> QED BY <1>2 DEF Work, WideWork

\* A finite set of cardinality zero is empty.
LEMMA NoneHeld ==
  ASSUME NEW G, IsFiniteSet(G)
  PROVE Cardinality(G) \in Nat /\ (Cardinality(G) = 0 => G = {})
BY FS_CardinalityType, FS_EmptySet

\* A count of zero means that nobody holds a guard of its kind.
LEMMA Zero ==
  ASSUME Types, Exact
  PROVE /\ work.commands = 0 =>
             /\ \A c \in Clients : cmd[c].pc = "out"
             /\ \A s \in Sessions : sess[s].worker # "entered"
        /\ work.background = 0 =>
             ~refresh /\ \A s \in Sessions : ~sess[s].child
        /\ work.auxiliary = 0 => \A s \in Sessions :
             /\ sess[s].worker = "gone" /\ sess[s].task = "none"
             /\ sess[s].timer = "off"
<1>1. work.commands = 0 => Commanding = {} /\ Entering = {}
  BY NoneHeld DEF Exact
<1>2. work.background = 0 => ~refresh /\ Children = {}
  BY NoneHeld DEF Exact, Types
<1>3. work.auxiliary = 0 => Workers = {} /\ Monitors = {} /\ Timers = {}
  BY NoneHeld DEF Exact
<1> QED BY <1>1, <1>2, <1>3
  DEF Commanding, Entering, Children, Workers, Monitors, Timers, Types

-----------------------------------------------------------------------------
(* The steps of the work itself.                                           *)

\* What a step of a command, run, child, monitor, worker or timer keeps: it
\* leaves shutdown alone, and there is none once everything is quiet.
Kept ==
  /\ Types' /\ Exact' /\ Unknown' /\ Locks' /\ Closing' /\ Emptied' /\ Looking'
  /\ UNCHANGED <<server, drain, report, closed>>
  /\ ~AllQuiet

\* A step that leaves shutdown alone and is impossible once all is quiet
\* cannot disturb what shutdown has reached.
LEMMA KeptSuffices ==
  ASSUME IInv, Kept
  PROVE IInv'
<1>1. Quieted'
  BY DEF IInv, Quieted, Kept, Through
<1>2. Accounted'
  BY DEF IInv, Quieted, Accounted, Kept, Through
<1> QED BY <1>1, <1>2 DEF IInv, Kept

\* The session respects whoever is starting a run in it.
Respects(s) ==
  /\ sess'[s].worker \in Starters => sess'[s].task = "none"
  /\ sess'[s].worker \in {"starting", "entered"} => sess'[s].queue # 0
  /\ \A d \in Clients : cmd'[d].pc = "starting" /\ cmd'[d].session = s =>
       sess'[s].task = "none" /\ sess'[s].worker \notin Starters

\* A step of session s: its guards and the counts move together; without a
\* command in flight it admits and queues nothing and starts no run.
Proper(s) ==
  /\ OnlySession(s) /\ Balanced(s) /\ Respects(s) /\ FateKept /\ ~AllQuiet
  /\ work' \in WideWork /\ work'.closed = work.closed
  /\ cmd' \in [Clients -> Command] /\ Commanding' = Commanding
  /\ \A d \in Clients : cmd'[d].pc = "starting" => cmd'[d] = cmd[d]
  /\ known \subseteq known' /\ known' \subseteq Sessions /\ s \in known'
  /\ Moved \/ UNCHANGED <<work, updater>>
  /\ UNCHANGED <<refresh, server, drain, report, closed>>
  /\ work.commands = 0 =>
       /\ known' = known
       /\ work.closed => work'.commands = 0
       /\ sess[s].queue = 0 => sess'[s].queue = 0
       /\ sess[s].task = "none" => sess'[s].task = "none"
  /\ sess'[s].timer = "aborted" => sess[s].timer = "aborted"
  /\ sess'[s].worker = "aborted" => sess[s].worker = "aborted"

\* The locks stay sound under a session that respects them while no command
\* newly holds one.
LEMMA SessionLocks ==
  ASSUME Types, Locks, NEW s \in Sessions, OnlySession(s), Respects(s),
         known \subseteq known',
         \A d \in Clients : cmd'[d].pc = "starting" => cmd'[d] = cmd[d]
  PROVE Locks'
<1>1. ASSUME NEW c \in Clients, cmd'[c].pc = "starting"
      PROVE /\ cmd'[c].session \in known'
            /\ sess'[cmd'[c].session].task = "none"
            /\ sess'[cmd'[c].session].worker \notin Starters
            /\ \A d \in Clients :
                 cmd'[d].pc = "starting" /\ cmd'[d].session = cmd'[c].session
                   => d = c
  <2>1. cmd'[c] = cmd[c]
    BY <1>1
  <2>2. /\ cmd[c].session \in known /\ cmd[c].session \in Sessions
        /\ sess[cmd[c].session].task = "none"
        /\ sess[cmd[c].session].worker \notin Starters
        /\ \A d \in Clients :
             cmd[d].pc = "starting" /\ cmd[d].session = cmd[c].session => d = c
    BY <1>1, <2>1 DEF Locks, Types
  <2>3. CASE cmd[c].session = s
    BY <1>1, <2>1, <2>2, <2>3 DEF Respects
  <2>4. CASE cmd[c].session # s
    BY <2>1, <2>2, <2>4 DEF OnlySession
  <2> QED BY <2>3, <2>4
<1>2. ASSUME NEW r \in Sessions
      PROVE /\ sess'[r].worker \in Starters => sess'[r].task = "none"
            /\ sess'[r].worker \in {"starting", "entered"}
                   => sess'[r].queue # 0
  <2>1. CASE r = s
    BY <2>1 DEF Respects
  <2>2. CASE r # s
    BY <2>2 DEF Locks, OnlySession
  <2> QED BY <2>1, <2>2
<1> QED BY <1>1, <1>2 DEF Locks

\* A proper step of one session keeps the invariant.
LEMMA ProperKeeps ==
  ASSUME IInv, NEW s \in Sessions, Proper(s)
  PROVE Kept
<1>1. Types /\ Exact /\ Unknown /\ Locks /\ Closing /\ Emptied /\ Looking
  BY DEF IInv
<1>2. Exact'
  BY <1>1, SessionExact DEF Proper
<1>3. Types'
  <2>1. updater' \in Updater
    BY <1>1 DEF Proper, Moved, Types
  <2>2. refresh' \in BOOLEAN
    BY <1>1 DEF Proper, Types
  <2>3. work' \in Work
    BY <1>2, <2>2, WorkTyped DEF Proper
  <2> QED BY <1>1, <2>1, <2>2, <2>3 DEF Proper, OnlySession, FateKept, Types
<1>4. Unknown'
  BY <1>1 DEF Unknown, Proper, OnlySession, FateKept, Types
<1>5. Locks'
  BY <1>1, SessionLocks DEF Proper
<1>6. Closing'
  <2>1. \A r \in Sessions :
          sess'[r].timer = "aborted" \/ sess'[r].worker = "aborted" =>
            sess[r].timer = "aborted" \/ sess[r].worker = "aborted"
    BY DEF Proper, OnlySession
  <2>2. /\ work'.closed = work.closed /\ UNCHANGED drain /\ known \subseteq known'
        /\ work.closed /\ work.commands = 0 => work'.commands = 0
    BY DEF Proper
  <2>3. drain.stage \in Late => work.closed
    BY <1>1 DEF Closing, Late
  <2> QED BY <1>1, <2>1, <2>2, <2>3 DEF Closing
<1>7. Emptied'
  <2>1. CASE work.commands = 0
    <3>1. known' = known
          /\ \A r \in Sessions : sess[r].queue = 0 => sess'[r].queue = 0
      BY <2>1 DEF Proper, OnlySession
    <3> QED BY <1>1, <3>1 DEF Proper, Emptied, Types
  <2>2. CASE work.commands # 0
    BY <1>1, <2>2 DEF Proper, Emptied, Closing, Late
  <2> QED BY <2>1, <2>2
<1>8. Looking'
  <2>1. CASE Moved
    BY <2>1 DEF Moved, Looking
  <2>2. CASE UNCHANGED <<work, updater>>
    BY <1>1, <2>2 DEF Proper, OnlySession, Looking, Types
  <2> QED BY <2>1, <2>2 DEF Proper
<1> QED BY <1>2, <1>3, <1>4, <1>5, <1>6, <1>7, <1>8 DEF Kept, Proper

\* The run of s ends cleanly and before any timeout.
Clean(s) == sess[s].task = "returned" /\ sess[s].control = "active"

\* A run's thread starts under a guard of its own.
LEMMA ChildStartsKeeps ==
  ASSUME IInv, NEW s \in Sessions, ChildStarts(s)
  PROVE Kept
<1>1. Types /\ Exact /\ Unknown /\ Locks /\ Closing /\ Emptied /\ Looking
  BY DEF IInv
<1>2. /\ sess[s].task = "working" /\ ~sess[s].child
      /\ UNCHANGED <<cmd, known, refresh, server, drain, report, closed, fate>>
  BY DEF ChildStarts
<1>3. SessionIs(s, sess[s].task, sess[s].control, TRUE, sess[s].queue,
                sess[s].worker, sess[s].timer)
  <2> DEFINE x == [sess[s] EXCEPT !.child = TRUE]
  <2>1. sess' = [sess EXCEPT ![s] = x]
    BY <1>1 DEF ChildStarts, Types, Session
  <2>2. sess[s] \in Session
    BY <1>1 DEF Types, Session
  <2>3. x \in Session
    BY <2>2 DEF Session
  <2>4. /\ x.task = sess[s].task /\ x.control = sess[s].control
        /\ x.child = TRUE /\ x.queue = sess[s].queue
        /\ x.worker = sess[s].worker /\ x.timer = sess[s].timer
    BY <2>2 DEF Session
  <2> HIDE DEF x
  <2> QED BY <1>1, <2>1, <2>3, <2>4, SessionChanges DEF SessionIs
<1>4. /\ CountsAre(work.commands, work.background + 1, work.auxiliary)
      /\ Moved
  <2>1. Counted([work EXCEPT !.background = @ + 1])
    BY <1>1 DEF ChildStarts
  <2>2. work' = [work EXCEPT !.background = @ + 1] /\ Moved
    BY <1>1, <2>1, CountedMoves
  <2>3. CountsAre(work.commands, work.background + 1, work.auxiliary)
    BY <1>1, <2>2 DEF CountsAre, WideWork, Types, Work
  <2> QED BY <2>2, <2>3
<1>5. Balanced(s)
  BY <1>1, <1>2, <1>3, <1>4
  DEF SessionIs, CountsAre, Balanced, One, Types, Work, Session
<1>6. Respects(s)
  BY <1>1, <1>2, <1>3, <1>4 DEF SessionIs, Respects, Locks, Starters
<1>7. ~AllQuiet
  BY <1>1, <1>2, Zero DEF AllQuiet
<1>8. s \in known' /\ Commanding' = Commanding
  BY <1>1, <1>2 DEF Commanding, Unknown
<1>9. FateKept
  BY <1>1, <1>2 DEF FateKept, Types
<1>10. work' \in WideWork /\ work'.closed = work.closed
  BY <1>4 DEF CountsAre
<1>11. Proper(s)
  BY <1>1, <1>2, <1>3, <1>4, <1>5, <1>6, <1>7, <1>8, <1>9, <1>10
  DEF SessionIs, CountsAre, Proper, Types
<1> QED BY <1>11, ProperKeeps

\* The thread drops its guard.
LEMMA ChildEndsKeeps ==
  ASSUME IInv, NEW s \in Sessions, ChildEnds(s)
  PROVE Kept
<1>1. Types /\ Exact /\ Unknown /\ Locks /\ Closing /\ Emptied /\ Looking
  BY DEF IInv
<1>2. /\ sess[s].child
      /\ UNCHANGED <<cmd, known, refresh, server, drain, report, closed, fate>>
  BY DEF ChildEnds
<1>3. SessionIs(s, sess[s].task, sess[s].control, FALSE, sess[s].queue,
                sess[s].worker, sess[s].timer)
  <2> DEFINE x == [sess[s] EXCEPT !.child = FALSE]
  <2>1. sess' = [sess EXCEPT ![s] = x]
    BY <1>1 DEF ChildEnds, Types, Session
  <2>2. sess[s] \in Session
    BY <1>1 DEF Types, Session
  <2>3. x \in Session
    BY <2>2 DEF Session
  <2>4. /\ x.task = sess[s].task /\ x.control = sess[s].control
        /\ x.child = FALSE /\ x.queue = sess[s].queue
        /\ x.worker = sess[s].worker /\ x.timer = sess[s].timer
    BY <2>2 DEF Session
  <2> HIDE DEF x
  <2> QED BY <1>1, <2>1, <2>3, <2>4, SessionChanges DEF SessionIs
<1>4. /\ CountsAre(work.commands, work.background - 1, work.auxiliary)
      /\ Moved
  <2>1. Counted([work EXCEPT !.background = @ - 1])
    BY <1>1 DEF ChildEnds
  <2>2. work' = [work EXCEPT !.background = @ - 1] /\ Moved
    BY <1>1, <2>1, CountedMoves
  <2>3. CountsAre(work.commands, work.background - 1, work.auxiliary)
    BY <1>1, <2>2 DEF CountsAre, WideWork, Types, Work
  <2> QED BY <2>2, <2>3
<1>5. Balanced(s)
  BY <1>1, <1>2, <1>3, <1>4
  DEF SessionIs, CountsAre, Balanced, One, Types, Work, Session
<1>6. Respects(s)
  BY <1>1, <1>2, <1>3, <1>4 DEF SessionIs, Respects, Locks, Starters
<1>7. ~AllQuiet
  BY <1>1, <1>2, Zero DEF AllQuiet
<1>8. s \in known' /\ Commanding' = Commanding
  BY <1>1, <1>2 DEF Commanding, Unknown
<1>9. FateKept
  BY <1>1, <1>2 DEF FateKept, Types
<1>10. work' \in WideWork /\ work'.closed = work.closed
  BY <1>4 DEF CountsAre
<1>11. Proper(s)
  BY <1>1, <1>2, <1>3, <1>4, <1>5, <1>6, <1>7, <1>8, <1>9, <1>10
  DEF SessionIs, CountsAre, Proper, Types
<1> QED BY <1>11, ProperKeeps

\* The monitor frees the slot, drops its guard and may wake the worker.
LEMMA MonitorEndsKeeps ==
  ASSUME IInv, NEW s \in Sessions, MonitorEnds(s)
  PROVE Kept
<1>1. Types /\ Exact /\ Unknown /\ Locks /\ Closing /\ Emptied /\ Looking
  BY DEF IInv
<1>2. /\ sess[s].task \in {"returned", "panicked"}
      /\ UNCHANGED <<cmd, known, refresh, server, drain, report, closed, fate>>
  BY DEF MonitorEnds
<1>3. SessionIs(s, "none", IF Clean(s) THEN "none" ELSE "stuck", sess[s].child,
                sess[s].queue,
                IF Clean(s) /\ sess[s].worker = "waiting" THEN "woken"
                    ELSE sess[s].worker,
                sess[s].timer)
  <2> DEFINE x == [sess[s] EXCEPT !.task = "none",
                                  !.control = IF Clean(s) THEN "none"
                                      ELSE "stuck",
                                  !.worker =
                                    IF Clean(s) /\ sess[s].worker = "waiting"
                                    THEN "woken" ELSE sess[s].worker]
  <2>1. sess' = [sess EXCEPT ![s] = x]
    BY <1>1 DEF MonitorEnds, Clean, Types, Session
  <2>2. sess[s] \in Session
    BY <1>1 DEF Types, Session
  <2>3. x \in Session
    BY <2>2 DEF Session
  <2>4. /\ x.task = "none" /\ x.control = IF Clean(s) THEN "none" ELSE "stuck"
        /\ x.child = sess[s].child /\ x.queue = sess[s].queue
        /\ x.worker = IF Clean(s) /\ sess[s].worker = "waiting"
               THEN "woken" ELSE sess[s].worker
        /\ x.timer = sess[s].timer
    BY <2>2 DEF Session
  <2> HIDE DEF x
  <2> QED BY <1>1, <2>1, <2>3, <2>4, SessionChanges DEF SessionIs
<1>4. /\ CountsAre(work.commands, work.background, work.auxiliary - 1)
      /\ Moved
  <2>1. Counted([work EXCEPT !.auxiliary = @ - 1])
    BY <1>1 DEF MonitorEnds
  <2>2. work' = [work EXCEPT !.auxiliary = @ - 1] /\ Moved
    BY <1>1, <2>1, CountedMoves
  <2>3. CountsAre(work.commands, work.background, work.auxiliary - 1)
    BY <1>1, <2>2 DEF CountsAre, WideWork, Types, Work
  <2> QED BY <2>2, <2>3
<1>5. Balanced(s)
  BY <1>1, <1>2, <1>3, <1>4
  DEF SessionIs, CountsAre, Balanced, One, Types, Work, Session
<1>6. Respects(s)
  BY <1>1, <1>2, <1>3, <1>4 DEF SessionIs, Respects, Locks, Starters
<1>7. ~AllQuiet
  BY <1>1, <1>2, Zero DEF AllQuiet
<1>8. s \in known' /\ Commanding' = Commanding
  BY <1>1, <1>2 DEF Commanding, Unknown
<1>9. FateKept
  BY <1>1, <1>2 DEF FateKept, Types
<1>10. work' \in WideWork /\ work'.closed = work.closed
  BY <1>4 DEF CountsAre
<1>11. Proper(s)
  BY <1>1, <1>2, <1>3, <1>4, <1>5, <1>6, <1>7, <1>8, <1>9, <1>10
  DEF SessionIs, CountsAre, Proper, Types
<1> QED BY <1>11, ProperKeeps

\* The cancellation timer fires and drops its guard.
LEMMA TimerFiresKeeps ==
  ASSUME IInv, NEW s \in Sessions, TimerFires(s)
  PROVE Kept
<1>1. Types /\ Exact /\ Unknown /\ Locks /\ Closing /\ Emptied /\ Looking
  BY DEF IInv
<1>2. /\ sess[s].timer = "armed"
      /\ UNCHANGED <<cmd, known, refresh, server, drain, report, closed, fate>>
  BY DEF TimerFires
<1>3. SessionIs(s, sess[s].task,
                IF sess[s].control = "active" THEN "stuck"
                    ELSE sess[s].control,
                sess[s].child, sess[s].queue, sess[s].worker, "off")
  <2> DEFINE x == [sess[s] EXCEPT !.timer = "off",
                                  !.control = IF sess[s].control = "active"
                                      THEN "stuck" ELSE sess[s].control]
  <2>1. sess' = [sess EXCEPT ![s] = x]
    BY <1>1 DEF TimerFires, Types, Session
  <2>2. sess[s] \in Session
    BY <1>1 DEF Types, Session
  <2>3. x \in Session
    BY <2>2 DEF Session
  <2>4. /\ x.task = sess[s].task
        /\ x.control = IF sess[s].control = "active" THEN "stuck"
               ELSE sess[s].control
        /\ x.child = sess[s].child /\ x.queue = sess[s].queue
        /\ x.worker = sess[s].worker /\ x.timer = "off"
    BY <2>2 DEF Session
  <2> HIDE DEF x
  <2> QED BY <1>1, <2>1, <2>3, <2>4, SessionChanges DEF SessionIs
<1>4. /\ CountsAre(work.commands, work.background, work.auxiliary - 1)
      /\ Moved
  <2>1. Counted([work EXCEPT !.auxiliary = @ - 1])
    BY <1>1 DEF TimerFires
  <2>2. work' = [work EXCEPT !.auxiliary = @ - 1] /\ Moved
    BY <1>1, <2>1, CountedMoves
  <2>3. CountsAre(work.commands, work.background, work.auxiliary - 1)
    BY <1>1, <2>2 DEF CountsAre, WideWork, Types, Work
  <2> QED BY <2>2, <2>3
<1>5. Balanced(s)
  BY <1>1, <1>2, <1>3, <1>4
  DEF SessionIs, CountsAre, Balanced, One, Types, Work, Session
<1>6. Respects(s)
  BY <1>1, <1>2, <1>3, <1>4 DEF SessionIs, Respects, Locks, Starters
<1>7. ~AllQuiet
  BY <1>1, <1>2, Zero DEF AllQuiet
<1>8. s \in known' /\ Commanding' = Commanding
  BY <1>1, <1>2 DEF Commanding, Unknown
<1>9. FateKept
  BY <1>1, <1>2 DEF FateKept, Types
<1>10. work' \in WideWork /\ work'.closed = work.closed
  BY <1>4 DEF CountsAre
<1>11. Proper(s)
  BY <1>1, <1>2, <1>3, <1>4, <1>5, <1>6, <1>7, <1>8, <1>9, <1>10
  DEF SessionIs, CountsAre, Proper, Types
<1> QED BY <1>11, ProperKeeps

\* The worker looks before it starts: a queue that is not empty.
LEMMA WorkerLooksKeeps ==
  ASSUME IInv, NEW s \in Sessions, WorkerLooks(s)
  PROVE Kept
<1>1. Types /\ Exact /\ Unknown /\ Locks /\ Closing /\ Emptied /\ Looking
  BY DEF IInv
<1>2. /\ sess[s].worker = "woken" /\ ~WriteLocked(s)
      /\ UNCHANGED <<work, cmd, known, refresh, server, drain, report, closed,
                    updater, fate>>
  BY DEF WorkerLooks
<1>3. SessionIs(s, sess[s].task, sess[s].control, sess[s].child, sess[s].queue,
                IF work.closed \/ sess[s].queue = 0 THEN "waiting"
                    ELSE "starting",
                sess[s].timer)
  <2> DEFINE x == [sess[s] EXCEPT !.worker =
                     IF work.closed \/ sess[s].queue = 0 THEN "waiting"
                     ELSE "starting"]
  <2>1. sess' = [sess EXCEPT ![s] = x]
    BY <1>1 DEF WorkerLooks, Types, Session
  <2>2. sess[s] \in Session
    BY <1>1 DEF Types, Session
  <2>3. x \in Session
    BY <2>2 DEF Session
  <2>4. /\ x.task = sess[s].task /\ x.control = sess[s].control
        /\ x.child = sess[s].child /\ x.queue = sess[s].queue
        /\ x.worker = IF work.closed \/ sess[s].queue = 0 THEN "waiting"
               ELSE "starting"
        /\ x.timer = sess[s].timer
    BY <2>2 DEF Session
  <2> HIDE DEF x
  <2> QED BY <1>1, <2>1, <2>3, <2>4, SessionChanges DEF SessionIs
<1>4. Balanced(s)
  BY <1>1, <1>2, <1>3 DEF SessionIs, Balanced, One, Types, Work, Session
<1>5. Respects(s)
  BY <1>1, <1>2, <1>3 DEF SessionIs, Respects, Locks, Starters, WriteLocked
<1>6. ~AllQuiet
  BY <1>1, <1>2, Zero DEF AllQuiet
<1>7. s \in known' /\ Commanding' = Commanding
  BY <1>1, <1>2 DEF Commanding, Unknown
<1>8. FateKept
  BY <1>1, <1>2 DEF FateKept, Types
<1>9. work' \in WideWork /\ work'.closed = work.closed
  BY <1>1, <1>2, WorkIsWide
<1>10. Proper(s)
  BY <1>1, <1>2, <1>3, <1>4, <1>5, <1>6, <1>7, <1>8, <1>9
  DEF SessionIs, Proper, Types
<1> QED BY <1>10, ProperKeeps

\* A refused worker drops the queue.
LEMMA WorkerRefusedKeeps ==
  ASSUME IInv, NEW s \in Sessions, WorkerEnters(s), work.closed
  PROVE Kept
<1>1. Types /\ Exact /\ Unknown /\ Locks /\ Closing /\ Emptied /\ Looking
  BY DEF IInv
<1>2. /\ sess[s].worker = "starting"
      /\ UNCHANGED <<work, cmd, known, refresh, server, drain, report, closed,
                    updater, fate>>
  BY DEF WorkerEnters
<1>3. SessionIs(s, sess[s].task, sess[s].control, sess[s].child, 0, "waiting",
                sess[s].timer)
  <2> DEFINE x == [sess[s] EXCEPT !.worker = "waiting", !.queue = 0]
  <2>1. sess' = [sess EXCEPT ![s] = x]
    BY <1>1 DEF WorkerEnters, Types, Session
  <2>2. sess[s] \in Session
    BY <1>1 DEF Types, Session
  <2>3. x \in Session
    BY <2>2 DEF Session
  <2>4. /\ x.task = sess[s].task /\ x.control = sess[s].control
        /\ x.child = sess[s].child /\ x.queue = 0 /\ x.worker = "waiting"
        /\ x.timer = sess[s].timer
    BY <2>2 DEF Session
  <2> HIDE DEF x
  <2> QED BY <1>1, <2>1, <2>3, <2>4, SessionChanges DEF SessionIs
<1>4. Balanced(s)
  BY <1>1, <1>2, <1>3 DEF SessionIs, Balanced, One, Types, Work, Session
<1>5. Respects(s)
  BY <1>1, <1>2, <1>3 DEF SessionIs, Respects, Locks, Starters
<1>6. ~AllQuiet
  BY <1>1, <1>2, Zero DEF AllQuiet
<1>7. s \in known' /\ Commanding' = Commanding
  BY <1>1, <1>2 DEF Commanding, Unknown
<1>8. FateKept
  BY <1>1, <1>2 DEF FateKept, Types
<1>9. work' \in WideWork /\ work'.closed = work.closed
  BY <1>1, <1>2, WorkIsWide
<1>10. Proper(s)
  BY <1>1, <1>2, <1>3, <1>4, <1>5, <1>6, <1>7, <1>8, <1>9
  DEF SessionIs, Proper, Types
<1> QED BY <1>10, ProperKeeps

\* The worker is admitted and holds a command guard.
LEMMA WorkerEntersKeeps ==
  ASSUME IInv, NEW s \in Sessions, WorkerEnters(s), ~work.closed
  PROVE Kept
<1>1. Types /\ Exact /\ Unknown /\ Locks /\ Closing /\ Emptied /\ Looking
  BY DEF IInv
<1>2. /\ sess[s].worker = "starting"
      /\ UNCHANGED <<cmd, known, refresh, server, drain, report, closed, fate>>
  BY DEF WorkerEnters
<1>3. SessionIs(s, sess[s].task, sess[s].control, sess[s].child, sess[s].queue,
                "entered", sess[s].timer)
  <2> DEFINE x == [sess[s] EXCEPT !.worker = "entered"]
  <2>1. sess' = [sess EXCEPT ![s] = x]
    BY <1>1 DEF WorkerEnters, Types, Session
  <2>2. sess[s] \in Session
    BY <1>1 DEF Types, Session
  <2>3. x \in Session
    BY <2>2 DEF Session
  <2>4. /\ x.task = sess[s].task /\ x.control = sess[s].control
        /\ x.child = sess[s].child /\ x.queue = sess[s].queue
        /\ x.worker = "entered" /\ x.timer = sess[s].timer
    BY <2>2 DEF Session
  <2> HIDE DEF x
  <2> QED BY <1>1, <2>1, <2>3, <2>4, SessionChanges DEF SessionIs
<1>4. /\ CountsAre(work.commands + 1, work.background, work.auxiliary)
      /\ Moved
  <2>1. Counted([work EXCEPT !.commands = @ + 1])
    BY <1>1 DEF WorkerEnters, Enter
  <2>2. work' = [work EXCEPT !.commands = @ + 1] /\ Moved
    BY <1>1, <2>1, CountedMoves
  <2>3. CountsAre(work.commands + 1, work.background, work.auxiliary)
    BY <1>1, <2>2 DEF CountsAre, WideWork, Types, Work
  <2> QED BY <2>2, <2>3
<1>5. Balanced(s)
  BY <1>1, <1>2, <1>3, <1>4
  DEF SessionIs, CountsAre, Balanced, One, Types, Work, Session
<1>6. Respects(s)
  BY <1>1, <1>2, <1>3, <1>4 DEF SessionIs, Respects, Locks, Starters
<1>7. ~AllQuiet
  BY <1>1, <1>2, Zero DEF AllQuiet
<1>8. s \in known' /\ Commanding' = Commanding
  BY <1>1, <1>2 DEF Commanding, Unknown
<1>9. FateKept
  BY <1>1, <1>2 DEF FateKept, Types
<1>10. work' \in WideWork /\ work'.closed = work.closed
  BY <1>4 DEF CountsAre
<1>11. Proper(s)
  BY <1>1, <1>2, <1>3, <1>4, <1>5, <1>6, <1>7, <1>8, <1>9, <1>10
  DEF SessionIs, CountsAre, Proper, Types
<1> QED BY <1>11, ProperKeeps

\* The worker gives up its command guard for the monitor's.
LEMMA WorkerSpawnsKeeps ==
  ASSUME IInv, NEW s \in Sessions, WorkerSpawns(s)
  PROVE Kept
<1>1. Types /\ Exact /\ Unknown /\ Locks /\ Closing /\ Emptied /\ Looking
  BY DEF IInv
<1>2. /\ sess[s].worker = "entered"
      /\ UNCHANGED <<cmd, known, refresh, server, drain, report, closed>>
  BY DEF WorkerSpawns
<1>3. /\ sess[s].queue # 0 /\ sess[s].task = "none"
      /\ work.commands # 0
  BY <1>1, <1>2, Zero DEF Locks, Starters
<1>4. SessionIs(s, "working", "active", sess[s].child, sess[s].queue - 1,
                "waiting", sess[s].timer)
  <2> DEFINE x == [sess[s] EXCEPT !.task = "working", !.control = "active",
                                  !.worker = "waiting",
                                  !.queue = sess[s].queue - 1]
  <2>1. sess' = [sess EXCEPT ![s] = x]
    BY <1>1, <1>3 DEF WorkerSpawns, Spawned, Types, Session
  <2>2. sess[s] \in Session /\ sess[s].queue - 1 \in Nat
    BY <1>1, <1>3 DEF Types, Session
  <2>3. x \in Session
    BY <2>2 DEF Session
  <2>4. /\ x.task = "working" /\ x.control = "active"
        /\ x.child = sess[s].child /\ x.queue = sess[s].queue - 1
        /\ x.worker = "waiting" /\ x.timer = sess[s].timer
    BY <2>2 DEF Session
  <2> HIDE DEF x
  <2> QED BY <1>1, <2>1, <2>3, <2>4, SessionChanges DEF SessionIs
<1>5. /\ CountsAre(work.commands - 1, work.background, work.auxiliary + 1)
      /\ Moved
  <2>1. Counted([work EXCEPT !.commands = @ - 1, !.auxiliary = @ + 1])
    BY <1>1 DEF WorkerSpawns
  <2>2. work' = [work EXCEPT !.commands = @ - 1, !.auxiliary = @ + 1] /\ Moved
    BY <1>1, <2>1, CountedMoves
  <2>3. work' = [closed |-> work.closed, retired |-> work.retired,
                 commands |-> work.commands - 1,
                 background |-> work.background,
                 auxiliary |-> work.auxiliary + 1]
    BY <1>1, <2>2 DEF Types, Work
  <2>4. CountsAre(work.commands - 1, work.background, work.auxiliary + 1)
    BY <1>1, <2>3 DEF CountsAre, WideWork, Types, Work
  <2> QED BY <2>2, <2>4
<1>6. FateKept
  <2> DEFINE x == [fate[s] EXCEPT !.started = @ + 1]
  <2>1. fate' = [fate EXCEPT ![s] = x]
    BY <1>1, <1>3 DEF WorkerSpawns, Types, Fate
  <2>2. /\ fate[s] \in Fate /\ fate[s].started + 1 \in Nat
    BY <1>1 DEF Types, Fate
  <2>3. x \in Fate
    BY <2>2 DEF Fate
  <2>4. x.taken = fate[s].taken /\ x.recorded = fate[s].recorded
    BY <2>2 DEF Fate
  <2> HIDE DEF x
  <2> QED BY <1>1, <2>1, <2>3, <2>4 DEF FateKept, Types
<1>7. Balanced(s)
  BY <1>1, <1>2, <1>3, <1>4, <1>5, <1>6
  DEF SessionIs, CountsAre, Balanced, One, Types, Work, Session
<1>8. Respects(s)
  BY <1>1, <1>2, <1>3, <1>4, <1>5, <1>6
  DEF SessionIs, Respects, Locks, Starters
<1>9. ~AllQuiet
  BY <1>1, <1>2, Zero DEF AllQuiet
<1>10. s \in known' /\ Commanding' = Commanding
  BY <1>1, <1>2, <1>3 DEF Commanding, Unknown
<1>11. work' \in WideWork /\ work'.closed = work.closed
  BY <1>5 DEF CountsAre
<1>12. Proper(s)
  BY <1>1, <1>2, <1>3, <1>4, <1>5, <1>6, <1>7, <1>8, <1>9, <1>10, <1>11
  DEF SessionIs, CountsAre, Proper, Types
<1> QED BY <1>12, ProperKeeps

\* An aborted worker ends and drops its guard.
LEMMA WorkerAbortedKeeps ==
  ASSUME IInv, NEW s \in Sessions, WorkerAborted(s)
  PROVE Kept
<1>1. Types /\ Exact /\ Unknown /\ Locks /\ Closing /\ Emptied /\ Looking
  BY DEF IInv
<1>2. /\ sess[s].worker = "aborted"
      /\ UNCHANGED <<cmd, known, refresh, server, drain, report, closed, fate>>
  BY DEF WorkerAborted
<1>3. SessionIs(s, sess[s].task, sess[s].control, sess[s].child, sess[s].queue,
                "gone", sess[s].timer)
  <2> DEFINE x == [sess[s] EXCEPT !.worker = "gone"]
  <2>1. sess' = [sess EXCEPT ![s] = x]
    BY <1>1 DEF WorkerAborted, Types, Session
  <2>2. sess[s] \in Session
    BY <1>1 DEF Types, Session
  <2>3. x \in Session
    BY <2>2 DEF Session
  <2>4. /\ x.task = sess[s].task /\ x.control = sess[s].control
        /\ x.child = sess[s].child /\ x.queue = sess[s].queue
        /\ x.worker = "gone" /\ x.timer = sess[s].timer
    BY <2>2 DEF Session
  <2> HIDE DEF x
  <2> QED BY <1>1, <2>1, <2>3, <2>4, SessionChanges DEF SessionIs
<1>4. /\ CountsAre(work.commands, work.background, work.auxiliary - 1)
      /\ Moved
  <2>1. Counted([work EXCEPT !.auxiliary = @ - 1])
    BY <1>1 DEF WorkerAborted
  <2>2. work' = [work EXCEPT !.auxiliary = @ - 1] /\ Moved
    BY <1>1, <2>1, CountedMoves
  <2>3. CountsAre(work.commands, work.background, work.auxiliary - 1)
    BY <1>1, <2>2 DEF CountsAre, WideWork, Types, Work
  <2> QED BY <2>2, <2>3
<1>5. Balanced(s)
  BY <1>1, <1>2, <1>3, <1>4
  DEF SessionIs, CountsAre, Balanced, One, Types, Work, Session
<1>6. Respects(s)
  BY <1>1, <1>2, <1>3, <1>4 DEF SessionIs, Respects, Locks, Starters
<1>7. ~AllQuiet
  BY <1>1, <1>2, Zero DEF AllQuiet
<1>8. s \in known' /\ Commanding' = Commanding
  BY <1>1, <1>2 DEF Commanding, Unknown
<1>9. FateKept
  BY <1>1, <1>2 DEF FateKept, Types
<1>10. work' \in WideWork /\ work'.closed = work.closed
  BY <1>4 DEF CountsAre
<1>11. Proper(s)
  BY <1>1, <1>2, <1>3, <1>4, <1>5, <1>6, <1>7, <1>8, <1>9, <1>10
  DEF SessionIs, CountsAre, Proper, Types
<1> QED BY <1>11, ProperKeeps

\* An aborted timer ends and drops its guard.
LEMMA TimerAbortedKeeps ==
  ASSUME IInv, NEW s \in Sessions, TimerAborted(s)
  PROVE Kept
<1>1. Types /\ Exact /\ Unknown /\ Locks /\ Closing /\ Emptied /\ Looking
  BY DEF IInv
<1>2. /\ sess[s].timer = "aborted"
      /\ UNCHANGED <<cmd, known, refresh, server, drain, report, closed, fate>>
  BY DEF TimerAborted
<1>3. SessionIs(s, sess[s].task, sess[s].control, sess[s].child, sess[s].queue,
                sess[s].worker, "off")
  <2> DEFINE x == [sess[s] EXCEPT !.timer = "off"]
  <2>1. sess' = [sess EXCEPT ![s] = x]
    BY <1>1 DEF TimerAborted, Types, Session
  <2>2. sess[s] \in Session
    BY <1>1 DEF Types, Session
  <2>3. x \in Session
    BY <2>2 DEF Session
  <2>4. /\ x.task = sess[s].task /\ x.control = sess[s].control
        /\ x.child = sess[s].child /\ x.queue = sess[s].queue
        /\ x.worker = sess[s].worker /\ x.timer = "off"
    BY <2>2 DEF Session
  <2> HIDE DEF x
  <2> QED BY <1>1, <2>1, <2>3, <2>4, SessionChanges DEF SessionIs
<1>4. /\ CountsAre(work.commands, work.background, work.auxiliary - 1)
      /\ Moved
  <2>1. Counted([work EXCEPT !.auxiliary = @ - 1])
    BY <1>1 DEF TimerAborted
  <2>2. work' = [work EXCEPT !.auxiliary = @ - 1] /\ Moved
    BY <1>1, <2>1, CountedMoves
  <2>3. CountsAre(work.commands, work.background, work.auxiliary - 1)
    BY <1>1, <2>2 DEF CountsAre, WideWork, Types, Work
  <2> QED BY <2>2, <2>3
<1>5. Balanced(s)
  BY <1>1, <1>2, <1>3, <1>4
  DEF SessionIs, CountsAre, Balanced, One, Types, Work, Session
<1>6. Respects(s)
  BY <1>1, <1>2, <1>3, <1>4 DEF SessionIs, Respects, Locks, Starters
<1>7. ~AllQuiet
  BY <1>1, <1>2, Zero DEF AllQuiet
<1>8. s \in known' /\ Commanding' = Commanding
  BY <1>1, <1>2 DEF Commanding, Unknown
<1>9. FateKept
  BY <1>1, <1>2 DEF FateKept, Types
<1>10. work' \in WideWork /\ work'.closed = work.closed
  BY <1>4 DEF CountsAre
<1>11. Proper(s)
  BY <1>1, <1>2, <1>3, <1>4, <1>5, <1>6, <1>7, <1>8, <1>9, <1>10
  DEF SessionIs, CountsAre, Proper, Types
<1> QED BY <1>11, ProperKeeps

\* The task returns or panics; its monitor keeps the guard.
LEMMA TaskEndsKeeps ==
  ASSUME IInv, NEW s \in Sessions, TaskEnds(s)
  PROVE Kept
<1>1. Types /\ Exact /\ Unknown /\ Locks /\ Closing /\ Emptied /\ Looking
  BY DEF IInv
<1>2. /\ sess[s].task = "working"
      /\ UNCHANGED <<work, cmd, known, refresh, server, drain, report, closed,
                    updater, fate>>
  BY DEF TaskEnds
<1>t. PICK task \in {"returned", "panicked"} :
        sess' = [sess EXCEPT ![s].task = task]
  BY DEF TaskEnds
<1>3. SessionIs(s, task, sess[s].control, sess[s].child, sess[s].queue,
                sess[s].worker, sess[s].timer)
  <2> DEFINE x == [sess[s] EXCEPT !.task = task]
  <2>1. sess' = [sess EXCEPT ![s] = x]
    BY <1>1, <1>t DEF Types, Session
  <2>2. sess[s] \in Session
    BY <1>1 DEF Types, Session
  <2>3. x \in Session
    BY <2>2 DEF Session
  <2>4. /\ x.task = task /\ x.control = sess[s].control
        /\ x.child = sess[s].child /\ x.queue = sess[s].queue
        /\ x.worker = sess[s].worker /\ x.timer = sess[s].timer
    BY <2>2 DEF Session
  <2> HIDE DEF x
  <2> QED BY <1>1, <2>1, <2>3, <2>4, SessionChanges DEF SessionIs
<1>4. Balanced(s)
  BY <1>1, <1>t, <1>2, <1>3 DEF SessionIs, Balanced, One, Types, Work, Session
<1>5. Respects(s)
  BY <1>1, <1>2, <1>3 DEF SessionIs, Respects, Locks, Starters
<1>6. ~AllQuiet
  BY <1>1, <1>2, Zero DEF AllQuiet
<1>7. s \in known' /\ Commanding' = Commanding
  BY <1>1, <1>2 DEF Commanding, Unknown
<1>8. FateKept
  BY <1>1, <1>2 DEF FateKept, Types
<1>9. work' \in WideWork /\ work'.closed = work.closed
  BY <1>1, <1>2, WorkIsWide
<1>10. Proper(s)
  BY <1>1, <1>2, <1>3, <1>4, <1>5, <1>6, <1>7, <1>8, <1>9
  DEF SessionIs, Proper, Types
<1> QED BY <1>10, ProperKeeps

\* A session is created with its worker, which holds a guard.
LEMMA CommandCreatesKeeps ==
  ASSUME IInv, NEW c \in Clients, NEW s \in Sessions, CommandCreates(c, s)
  PROVE Kept
<1>1. Types /\ Exact /\ Unknown /\ Locks /\ Closing /\ Emptied /\ Looking
  BY DEF IInv
<1>2. /\ cmd[c].pc = "in" /\ s \notin known
      /\ known' = known \cup {s}
      /\ UNCHANGED <<refresh, server, drain, report, closed, fate>>
  BY DEF CommandCreates
<1>3. work.commands # 0 /\ drain.stage \notin Late
  BY <1>1, <1>2, Zero DEF Closing
<1>4. sess[s].worker = "gone" /\ sess[s].task = "none"
  BY <1>1, <1>2, <1>3 DEF Unknown
<1>5. SessionIs(s, sess[s].task, sess[s].control, sess[s].child, sess[s].queue,
                "waiting", sess[s].timer)
  <2> DEFINE x == [sess[s] EXCEPT !.worker = "waiting"]
  <2>1. sess' = [sess EXCEPT ![s] = x]
    BY <1>1, <1>4 DEF CommandCreates, Types, Session
  <2>2. sess[s] \in Session
    BY <1>1, <1>4 DEF Types, Session
  <2>3. x \in Session
    BY <2>2 DEF Session
  <2>4. /\ x.task = sess[s].task /\ x.control = sess[s].control
        /\ x.child = sess[s].child /\ x.queue = sess[s].queue
        /\ x.worker = "waiting" /\ x.timer = sess[s].timer
    BY <2>2 DEF Session
  <2> HIDE DEF x
  <2> QED BY <1>1, <2>1, <2>3, <2>4, SessionChanges DEF SessionIs
<1>6. CommandIs(c, "done", cmd[c].session)
  <2> DEFINE x == [cmd[c] EXCEPT !.pc = "done"]
  <2>1. cmd' = [cmd EXCEPT ![c] = x]
    BY <1>1, <1>4 DEF CommandCreates, Types, Command
  <2>2. cmd[c] \in Command
    BY <1>1, <1>4 DEF Types, Command
  <2>3. x \in Command /\ x.pc = "done" /\ x.session = cmd[c].session
    BY <2>2 DEF Command
  <2> HIDE DEF x
  <2> QED BY <1>1, <2>1, <2>3, CommandChanges
<1>7. /\ CountsAre(work.commands, work.background, work.auxiliary + 1)
      /\ Moved
  <2>1. Counted([work EXCEPT !.auxiliary = @ + 1])
    BY <1>1 DEF CommandCreates
  <2>2. work' = [work EXCEPT !.auxiliary = @ + 1] /\ Moved
    BY <1>1, <2>1, CountedMoves
  <2>3. CountsAre(work.commands, work.background, work.auxiliary + 1)
    BY <1>1, <2>2 DEF CountsAre, WideWork, Types, Work
  <2> QED BY <2>2, <2>3
<1>8. Balanced(s)
  BY <1>1, <1>2, <1>3, <1>4, <1>5, <1>6, <1>7
  DEF SessionIs, CountsAre, Balanced, One, Types, Work, Session
<1>9. Respects(s)
  BY <1>1, <1>2, <1>3, <1>4, <1>5, <1>6, <1>7
  DEF SessionIs, CommandIs, Respects, Locks, Starters
<1>10. ~AllQuiet
  BY <1>1, <1>2, Zero DEF AllQuiet
<1>11. s \in known' /\ Commanding' = Commanding
  BY <1>1, <1>2, <1>3, <1>4, <1>5, <1>6 DEF Commanding, Unknown, CommandIs
<1>12. FateKept
  BY <1>1, <1>2 DEF FateKept, Types
<1>13. work' \in WideWork /\ work'.closed = work.closed
  BY <1>7 DEF CountsAre
<1>14. Proper(s)
  BY <1>1, <1>2, <1>3, <1>4, <1>5, <1>6, <1>7, <1>8, <1>9, <1>10, <1>11, <1>12,
     <1>13 DEF SessionIs, CommandIs, CountsAre, Proper, Types
<1> QED BY <1>14, ProperKeeps

\* A prompt is queued behind a run.
LEMMA CommandQueuesKeeps ==
  ASSUME IInv, NEW c \in Clients, NEW s \in Sessions, CommandPrompts(c, s),
         Busy(s)
  PROVE Kept
<1>1. Types /\ Exact /\ Unknown /\ Locks /\ Closing /\ Emptied /\ Looking
  BY DEF IInv
<1>2. /\ cmd[c].pc = "in" /\ s \in known /\ ~WriteLocked(s)
      /\ UNCHANGED <<work, known, refresh, server, drain, report, closed,
                    updater>>
  BY DEF CommandPrompts
<1>3. work.commands # 0 /\ drain.stage \notin Late
  BY <1>1, <1>2, Zero DEF Closing
<1>4. SessionIs(s, sess[s].task, sess[s].control, sess[s].child,
                sess[s].queue + 1, sess[s].worker, sess[s].timer)
  <2> DEFINE x == [sess[s] EXCEPT !.queue = sess[s].queue + 1]
  <2>1. sess' = [sess EXCEPT ![s] = x]
    BY <1>1 DEF CommandPrompts, Types, Session
  <2>2. sess[s] \in Session /\ sess[s].queue + 1 \in Nat
    BY <1>1 DEF Types, Session
  <2>3. x \in Session
    BY <2>2 DEF Session
  <2>4. /\ x.task = sess[s].task /\ x.control = sess[s].control
        /\ x.child = sess[s].child /\ x.queue = sess[s].queue + 1
        /\ x.worker = sess[s].worker /\ x.timer = sess[s].timer
    BY <2>2 DEF Session
  <2> HIDE DEF x
  <2> QED BY <1>1, <2>1, <2>3, <2>4, SessionChanges DEF SessionIs
<1>5. CommandIs(c, "done", cmd[c].session)
  <2> DEFINE x == [cmd[c] EXCEPT !.pc = "done"]
  <2>1. cmd' = [cmd EXCEPT ![c] = x]
    BY <1>1 DEF CommandPrompts, Types, Command
  <2>2. cmd[c] \in Command
    BY <1>1 DEF Types, Command
  <2>3. x \in Command /\ x.pc = "done" /\ x.session = cmd[c].session
    BY <2>2 DEF Command
  <2> HIDE DEF x
  <2> QED BY <1>1, <2>1, <2>3, CommandChanges
<1>6. FateKept
  <2> DEFINE x == [fate[s] EXCEPT !.accepted = @ + 1]
  <2>1. fate' = [fate EXCEPT ![s] = x]
    BY <1>1 DEF CommandPrompts, Types, Fate
  <2>2. /\ fate[s] \in Fate /\ fate[s].accepted + 1 \in Nat
    BY <1>1 DEF Types, Fate
  <2>3. x \in Fate
    BY <2>2 DEF Fate
  <2>4. x.taken = fate[s].taken /\ x.recorded = fate[s].recorded
    BY <2>2 DEF Fate
  <2> HIDE DEF x
  <2> QED BY <1>1, <2>1, <2>3, <2>4 DEF FateKept, Types
<1>7. Balanced(s)
  BY <1>1, <1>2, <1>3, <1>4, <1>5, <1>6
  DEF SessionIs, Balanced, One, Types, Work, Session
<1>8. Respects(s)
  BY <1>1, <1>2, <1>3, <1>4, <1>5, <1>6
  DEF SessionIs, CommandIs, Respects, Locks, Starters, WriteLocked
<1>9. ~AllQuiet
  BY <1>1, <1>2, Zero DEF AllQuiet
<1>10. s \in known' /\ Commanding' = Commanding
  BY <1>1, <1>2, <1>3, <1>4, <1>5 DEF Commanding, Unknown, CommandIs
<1>11. work' \in WideWork /\ work'.closed = work.closed
  BY <1>1, <1>2, WorkIsWide
<1>12. Proper(s)
  BY <1>1, <1>2, <1>3, <1>4, <1>5, <1>6, <1>7, <1>8, <1>9, <1>10, <1>11
  DEF SessionIs, CommandIs, Proper, Types
<1> QED BY <1>12, ProperKeeps

\* An abort arms a timer, which holds a guard.
LEMMA CommandArmsKeeps ==
  ASSUME IInv, NEW c \in Clients, NEW s \in Sessions, CommandAborts(c, s),
         sess[s].timer # "armed"
  PROVE Kept
<1>1. Types /\ Exact /\ Unknown /\ Locks /\ Closing /\ Emptied /\ Looking
  BY DEF IInv
<1>2. /\ cmd[c].pc = "in" /\ s \in known
      /\ UNCHANGED <<known, refresh, server, drain, report, closed, fate>>
  BY DEF CommandAborts
<1>3. work.commands # 0 /\ drain.stage \notin Late
  BY <1>1, <1>2, Zero DEF Closing
<1>4. sess[s].timer = "off"
  BY <1>1, <1>2, <1>3 DEF Closing, Types, Session
<1>5. SessionIs(s, sess[s].task, sess[s].control, sess[s].child, sess[s].queue,
                sess[s].worker, "armed")
  <2> DEFINE x == [sess[s] EXCEPT !.timer = "armed"]
  <2>1. sess' = [sess EXCEPT ![s] = x]
    BY <1>1, <1>4 DEF CommandAborts, Types, Session
  <2>2. sess[s] \in Session
    BY <1>1, <1>4 DEF Types, Session
  <2>3. x \in Session
    BY <2>2 DEF Session
  <2>4. /\ x.task = sess[s].task /\ x.control = sess[s].control
        /\ x.child = sess[s].child /\ x.queue = sess[s].queue
        /\ x.worker = sess[s].worker /\ x.timer = "armed"
    BY <2>2 DEF Session
  <2> HIDE DEF x
  <2> QED BY <1>1, <2>1, <2>3, <2>4, SessionChanges DEF SessionIs
<1>6. CommandIs(c, "done", cmd[c].session)
  <2> DEFINE x == [cmd[c] EXCEPT !.pc = "done"]
  <2>1. cmd' = [cmd EXCEPT ![c] = x]
    BY <1>1, <1>4 DEF CommandAborts, Types, Command
  <2>2. cmd[c] \in Command
    BY <1>1, <1>4 DEF Types, Command
  <2>3. x \in Command /\ x.pc = "done" /\ x.session = cmd[c].session
    BY <2>2 DEF Command
  <2> HIDE DEF x
  <2> QED BY <1>1, <2>1, <2>3, CommandChanges
<1>7. /\ CountsAre(work.commands, work.background, work.auxiliary + 1)
      /\ Moved
  <2>1. Counted([work EXCEPT !.auxiliary = @ + 1])
    BY <1>1 DEF CommandAborts
  <2>2. work' = [work EXCEPT !.auxiliary = @ + 1] /\ Moved
    BY <1>1, <2>1, CountedMoves
  <2>3. CountsAre(work.commands, work.background, work.auxiliary + 1)
    BY <1>1, <2>2 DEF CountsAre, WideWork, Types, Work
  <2> QED BY <2>2, <2>3
<1>8. Balanced(s)
  BY <1>1, <1>2, <1>3, <1>4, <1>5, <1>6, <1>7
  DEF SessionIs, CountsAre, Balanced, One, Types, Work, Session
<1>9. Respects(s)
  BY <1>1, <1>2, <1>3, <1>4, <1>5, <1>6, <1>7
  DEF SessionIs, CommandIs, Respects, Locks, Starters
<1>10. ~AllQuiet
  BY <1>1, <1>2, Zero DEF AllQuiet
<1>11. s \in known' /\ Commanding' = Commanding
  BY <1>1, <1>2, <1>3, <1>4, <1>5, <1>6 DEF Commanding, Unknown, CommandIs
<1>12. FateKept
  BY <1>1, <1>2 DEF FateKept, Types
<1>13. work' \in WideWork /\ work'.closed = work.closed
  BY <1>7 DEF CountsAre
<1>14. Proper(s)
  BY <1>1, <1>2, <1>3, <1>4, <1>5, <1>6, <1>7, <1>8, <1>9, <1>10, <1>11, <1>12,
     <1>13 DEF SessionIs, CommandIs, CountsAre, Proper, Types
<1> QED BY <1>14, ProperKeeps

\* An abort arms the timer in place of an earlier one.
LEMMA CommandArmsAgainKeeps ==
  ASSUME IInv, NEW c \in Clients, NEW s \in Sessions, CommandAborts(c, s),
         sess[s].timer = "armed"
  PROVE Kept
<1>1. Types /\ Exact /\ Unknown /\ Locks /\ Closing /\ Emptied /\ Looking
  BY DEF IInv
<1>2. /\ cmd[c].pc = "in" /\ s \in known
      /\ UNCHANGED <<work, known, refresh, server, drain, report, closed,
                    updater, fate>>
  BY DEF CommandAborts
<1>3. work.commands # 0 /\ drain.stage \notin Late
  BY <1>1, <1>2, Zero DEF Closing
<1>4. SessionIs(s, sess[s].task, sess[s].control, sess[s].child, sess[s].queue,
                sess[s].worker, "armed")
  <2> DEFINE x == [sess[s] EXCEPT !.timer = "armed"]
  <2>1. sess' = [sess EXCEPT ![s] = x]
    BY <1>1 DEF CommandAborts, Types, Session
  <2>2. sess[s] \in Session
    BY <1>1 DEF Types, Session
  <2>3. x \in Session
    BY <2>2 DEF Session
  <2>4. /\ x.task = sess[s].task /\ x.control = sess[s].control
        /\ x.child = sess[s].child /\ x.queue = sess[s].queue
        /\ x.worker = sess[s].worker /\ x.timer = "armed"
    BY <2>2 DEF Session
  <2> HIDE DEF x
  <2> QED BY <1>1, <2>1, <2>3, <2>4, SessionChanges DEF SessionIs
<1>5. CommandIs(c, "done", cmd[c].session)
  <2> DEFINE x == [cmd[c] EXCEPT !.pc = "done"]
  <2>1. cmd' = [cmd EXCEPT ![c] = x]
    BY <1>1 DEF CommandAborts, Types, Command
  <2>2. cmd[c] \in Command
    BY <1>1 DEF Types, Command
  <2>3. x \in Command /\ x.pc = "done" /\ x.session = cmd[c].session
    BY <2>2 DEF Command
  <2> HIDE DEF x
  <2> QED BY <1>1, <2>1, <2>3, CommandChanges
<1>6. Balanced(s)
  BY <1>1, <1>2, <1>3, <1>4, <1>5
  DEF SessionIs, Balanced, One, Types, Work, Session
<1>7. Respects(s)
  BY <1>1, <1>2, <1>3, <1>4, <1>5
  DEF SessionIs, CommandIs, Respects, Locks, Starters
<1>8. ~AllQuiet
  BY <1>1, <1>2, Zero DEF AllQuiet
<1>9. s \in known' /\ Commanding' = Commanding
  BY <1>1, <1>2, <1>3, <1>4, <1>5 DEF Commanding, Unknown, CommandIs
<1>10. FateKept
  BY <1>1, <1>2 DEF FateKept, Types
<1>11. work' \in WideWork /\ work'.closed = work.closed
  BY <1>1, <1>2, WorkIsWide
<1>12. Proper(s)
  BY <1>1, <1>2, <1>3, <1>4, <1>5, <1>6, <1>7, <1>8, <1>9, <1>10, <1>11
  DEF SessionIs, CommandIs, Proper, Types
<1> QED BY <1>12, ProperKeeps

\* A run is started, its monitor holds a guard.
LEMMA CommandStartsKeeps ==
  ASSUME IInv, NEW c \in Clients, NEW s \in Sessions, CommandStarts(c),
         cmd[c].session = s, ~work.closed
  PROVE Kept
<1>1. Types /\ Exact /\ Unknown /\ Locks /\ Closing /\ Emptied /\ Looking
  BY DEF IInv
<1>2. /\ cmd[c].pc = "starting"
      /\ UNCHANGED <<known, refresh, server, drain, report, closed>>
  BY DEF CommandStarts
<1>3. work.commands # 0 /\ drain.stage \notin Late
  BY <1>1, <1>2, Zero DEF Closing
<1>4. /\ s \in known /\ sess[s].task = "none" /\ sess[s].worker \notin Starters
      /\ \A d \in Clients \ {c} : cmd[d].pc = "starting" => cmd[d].session # s
  BY <1>1, <1>2, <1>3 DEF Locks
<1>5. SessionIs(s, "working", "active", sess[s].child, sess[s].queue,
                sess[s].worker, sess[s].timer)
  <2> DEFINE x == [sess[s] EXCEPT !.task = "working", !.control = "active"]
  <2>1. sess' = [sess EXCEPT ![s] = x]
    BY <1>1, <1>4 DEF CommandStarts, Spawned, Types, Session
  <2>2. sess[s] \in Session
    BY <1>1, <1>4 DEF Types, Session
  <2>3. x \in Session
    BY <2>2 DEF Session
  <2>4. /\ x.task = "working" /\ x.control = "active"
        /\ x.child = sess[s].child /\ x.queue = sess[s].queue
        /\ x.worker = sess[s].worker /\ x.timer = sess[s].timer
    BY <2>2 DEF Session
  <2> HIDE DEF x
  <2> QED BY <1>1, <2>1, <2>3, <2>4, SessionChanges DEF SessionIs
<1>6. CommandIs(c, "done", cmd[c].session)
  <2> DEFINE x == [cmd[c] EXCEPT !.pc = "done"]
  <2>1. cmd' = [cmd EXCEPT ![c] = x]
    BY <1>1, <1>4 DEF CommandStarts, Types, Command
  <2>2. cmd[c] \in Command
    BY <1>1, <1>4 DEF Types, Command
  <2>3. x \in Command /\ x.pc = "done" /\ x.session = cmd[c].session
    BY <2>2 DEF Command
  <2> HIDE DEF x
  <2> QED BY <1>1, <2>1, <2>3, CommandChanges
<1>7. /\ CountsAre(work.commands, work.background, work.auxiliary + 1)
      /\ Moved
  <2>1. Counted([work EXCEPT !.auxiliary = @ + 1])
    BY <1>1 DEF CommandStarts
  <2>2. work' = [work EXCEPT !.auxiliary = @ + 1] /\ Moved
    BY <1>1, <2>1, CountedMoves
  <2>3. CountsAre(work.commands, work.background, work.auxiliary + 1)
    BY <1>1, <2>2 DEF CountsAre, WideWork, Types, Work
  <2> QED BY <2>2, <2>3
<1>8. FateKept
  <2> DEFINE x == [fate[s] EXCEPT !.accepted = @ + 1, !.started = @ + 1]
  <2>1. fate' = [fate EXCEPT ![s] = x]
    BY <1>1, <1>4 DEF CommandStarts, Types, Fate
  <2>2. /\ fate[s] \in Fate /\ fate[s].accepted + 1 \in Nat
        /\ fate[s].started + 1 \in Nat
    BY <1>1 DEF Types, Fate
  <2>3. x \in Fate
    BY <2>2 DEF Fate
  <2>4. x.taken = fate[s].taken /\ x.recorded = fate[s].recorded
    BY <2>2 DEF Fate
  <2> HIDE DEF x
  <2> QED BY <1>1, <2>1, <2>3, <2>4 DEF FateKept, Types
<1>9. Balanced(s)
  BY <1>1, <1>2, <1>3, <1>4, <1>5, <1>6, <1>7, <1>8
  DEF SessionIs, CountsAre, Balanced, One, Types, Work, Session
<1>10. Respects(s)
  BY <1>1, <1>2, <1>3, <1>4, <1>5, <1>6, <1>7, <1>8
  DEF SessionIs, CommandIs, Respects, Locks, Starters
<1>11. ~AllQuiet
  BY <1>1, <1>2, Zero DEF AllQuiet
<1>12. s \in known' /\ Commanding' = Commanding
  BY <1>1, <1>2, <1>3, <1>4, <1>5, <1>6 DEF Commanding, Unknown, CommandIs
<1>13. work' \in WideWork /\ work'.closed = work.closed
  BY <1>7 DEF CountsAre
<1>14. Proper(s)
  BY <1>1, <1>2, <1>3, <1>4, <1>5, <1>6, <1>7, <1>8, <1>9, <1>10, <1>11, <1>12,
     <1>13 DEF SessionIs, CommandIs, CountsAre, Proper, Types
<1> QED BY <1>14, ProperKeeps

\* A command steps without touching a session: its guard and the counts move
\* together, and a lock it takes is free.
LEMMA CommandOnlyKeeps ==
  ASSUME IInv, NEW c \in Clients, NEW pc, NEW session,
         CommandIs(c, pc, session),
         UNCHANGED <<known, sess, server, drain, report, closed, fate>>,
         work' \in WideWork, work'.closed = work.closed, refresh' \in BOOLEAN,
         work'.commands = work.commands
           + One(cmd'[c].pc # "out") - One(cmd[c].pc # "out"),
         work'.background = work.background + One(refresh') - One(refresh),
         work'.auxiliary = work.auxiliary,
         work.commands # 0 \/ ~work.closed,
         Moved \/ (UNCHANGED updater /\ work.commands # 0 /\ UNCHANGED work),
         pc = "starting" =>
           session \in known /\ ~WriteLocked(session) /\ ~Busy(session)
  PROVE Kept
<1>1. Types /\ Exact /\ Unknown /\ Locks /\ Closing /\ Emptied /\ Looking
  BY DEF IInv
<1>2. Exact'
  BY <1>1, CommandExact DEF CommandIs
<1>3. Types'
  <2>1. work' \in Work
    BY <1>2, WorkTyped
  <2>2. updater' \in Updater
    BY <1>1 DEF Moved, Types
  <2> QED BY <1>1, <2>1, <2>2 DEF CommandIs, Types
<1>4. Unknown'
  BY <1>1 DEF Unknown
<1>5. Locks'
  <2>1. ASSUME pc = "starting"
        PROVE /\ session \in known /\ session \in Sessions
              /\ sess[session].task = "none"
              /\ sess[session].worker \notin Starters
              /\ \A d \in Clients :
                   ~(cmd[d].pc = "starting" /\ cmd[d].session = session)
    BY <1>1, <2>1 DEF WriteLocked, Busy, Owned, Starters, Types
  <2> QED BY <1>1, <2>1 DEF CommandIs, Locks
<1>6. drain.stage \notin Late
  BY <1>1 DEF Closing, Late
<1>7. Closing'
  BY <1>1, <1>6 DEF Closing
<1>8. Emptied'
  BY <1>6 DEF Emptied, Late
<1>9. Looking'
  BY <1>1 DEF Looking, Moved
<1>10. ~AllQuiet
  BY DEF AllQuiet
<1> QED BY <1>2, <1>3, <1>4, <1>5, <1>7, <1>8, <1>9, <1>10 DEF Kept

\* A command enters an open service.
LEMMA CommandEntersKeeps ==
  ASSUME IInv, NEW c \in Clients, CommandEnters(c)
  PROVE Kept
<1>1. Types /\ Exact
  BY DEF IInv
<1>2. /\ cmd[c].pc = "out" /\ ~work.closed
      /\ UNCHANGED <<known, sess, refresh, server, drain, report, closed,
                    fate>>
  BY DEF CommandEnters, Enter
<1>3. CommandIs(c, "in", cmd[c].session)
  <2> DEFINE x == [cmd[c] EXCEPT !.pc = "in", !.sent = cmd[c].sent + 1]
  <2>1. cmd' = [cmd EXCEPT ![c] = x]
    BY <1>1 DEF CommandEnters, Types, Command
  <2>2. cmd[c] \in Command /\ cmd[c].sent + 1 \in Nat
    BY <1>1 DEF Types, Command
  <2>3. x \in Command /\ x.pc = "in" /\ x.session = cmd[c].session
    BY <2>2 DEF Command
  <2> HIDE DEF x
  <2> QED BY <1>1, <2>1, <2>3, CommandChanges
<1>4. /\ CountsAre(work.commands + 1, work.background, work.auxiliary)
      /\ Moved
  <2>1. Counted([work EXCEPT !.commands = @ + 1])
    BY <1>1 DEF CommandEnters, Enter
  <2>2. work' = [work EXCEPT !.commands = @ + 1] /\ Moved
    BY <1>1, <2>1, CountedMoves
  <2>3. CountsAre(work.commands + 1, work.background, work.auxiliary)
    BY <1>1, <2>2 DEF CountsAre, WideWork, Types, Work
  <2> QED BY <2>2, <2>3
<1> QED
  BY <1>1, <1>2, <1>3, <1>4, CommandOnlyKeeps
  DEF CommandIs, CountsAre, One, Types, Work

\* A command leaves.
LEMMA CommandLeavesKeeps ==
  ASSUME IInv, NEW c \in Clients, CommandLeaves(c)
  PROVE Kept
<1>1. Types /\ Exact
  BY DEF IInv
<1>2. /\ cmd[c].pc \in {"in", "done"}
      /\ UNCHANGED <<known, sess, refresh, server, drain, report, closed,
                    fate>>
  BY DEF CommandLeaves
<1>3. CommandIs(c, "out", "none")
  <2> DEFINE x == [cmd[c] EXCEPT !.pc = "out", !.session = "none"]
  <2>1. cmd' = [cmd EXCEPT ![c] = x]
    BY <1>1 DEF CommandLeaves, Types, Command
  <2>2. cmd[c] \in Command
    BY <1>1 DEF Types, Command
  <2>3. x \in Command /\ x.pc = "out" /\ x.session = "none"
    BY <2>2 DEF Command
  <2> HIDE DEF x
  <2> QED BY <1>1, <2>1, <2>3, CommandChanges
<1>4. /\ CountsAre(work.commands - 1, work.background, work.auxiliary)
      /\ Moved
  <2>1. Counted([work EXCEPT !.commands = @ - 1])
    BY <1>1 DEF CommandLeaves, Leave
  <2>2. work' = [work EXCEPT !.commands = @ - 1] /\ Moved
    BY <1>1, <2>1, CountedMoves
  <2>3. CountsAre(work.commands - 1, work.background, work.auxiliary)
    BY <1>1, <2>2 DEF CountsAre, WideWork, Types, Work
  <2> QED BY <2>2, <2>3
<1>5. work.commands # 0
  BY <1>1, <1>2, Zero
<1> QED
  BY <1>1, <1>2, <1>3, <1>4, <1>5, CommandOnlyKeeps
  DEF CommandIs, CountsAre, One, Types, Work

\* A prompt takes the write lock of a session without a run.
LEMMA CommandPromptsKeeps ==
  ASSUME IInv, NEW c \in Clients, NEW s \in Sessions, CommandPrompts(c, s),
         ~Busy(s)
  PROVE Kept
<1>1. Types /\ Exact
  BY DEF IInv
<1>2. /\ cmd[c].pc = "in" /\ s \in known /\ ~WriteLocked(s)
      /\ UNCHANGED <<work, known, sess, refresh, server, drain, report, closed,
                    updater, fate>>
  BY DEF CommandPrompts
<1>3. CommandIs(c, "starting", s)
  <2> DEFINE x == [cmd[c] EXCEPT !.pc = "starting", !.session = s]
  <2>1. cmd' = [cmd EXCEPT ![c] = x]
    BY <1>1 DEF CommandPrompts, Types, Command
  <2>2. cmd[c] \in Command
    BY <1>1 DEF Types, Command
  <2>3. x \in Command /\ x.pc = "starting" /\ x.session = s
    BY <2>2 DEF Command
  <2> HIDE DEF x
  <2> QED BY <1>1, <2>1, <2>3, CommandChanges
<1>4. work.commands # 0
  BY <1>1, <1>2, Zero
<1> QED
  BY <1>1, <1>2, <1>3, <1>4, CommandOnlyKeeps, WorkIsWide
  DEF CommandIs, One, Types, Work

\* A start is refused once admission has closed.
LEMMA CommandRefusedKeeps ==
  ASSUME IInv, NEW c \in Clients, CommandStarts(c), work.closed
  PROVE Kept
<1>1. Types /\ Exact
  BY DEF IInv
<1>2. /\ cmd[c].pc = "starting"
      /\ UNCHANGED <<work, known, sess, refresh, server, drain, report, closed,
                    updater, fate>>
  BY DEF CommandStarts
<1>3. CommandIs(c, "done", cmd[c].session)
  <2> DEFINE x == [cmd[c] EXCEPT !.pc = "done"]
  <2>1. cmd' = [cmd EXCEPT ![c] = x]
    BY <1>1 DEF CommandStarts, Types, Command
  <2>2. cmd[c] \in Command
    BY <1>1 DEF Types, Command
  <2>3. x \in Command /\ x.pc = "done" /\ x.session = cmd[c].session
    BY <2>2 DEF Command
  <2> HIDE DEF x
  <2> QED BY <1>1, <2>1, <2>3, CommandChanges
<1>4. work.commands # 0
  BY <1>1, <1>2, Zero
<1>5. work' \in WideWork /\ work'.closed = work.closed /\ refresh' \in BOOLEAN
  BY <1>1, <1>2, WorkIsWide DEF Types
<1>6. /\ work'.commands = work.commands
           + One(cmd'[c].pc # "out") - One(cmd[c].pc # "out")
      /\ work'.background = work.background + One(refresh') - One(refresh)
      /\ work'.auxiliary = work.auxiliary
  BY <1>1, <1>2, <1>3 DEF CommandIs, One, Types, Work
<1> QED BY <1>2, <1>3, <1>4, <1>5, <1>6, CommandOnlyKeeps

\* A command leaves a detached thread behind, with a guard of its own.
LEMMA BackgroundStartsKeeps ==
  ASSUME IInv, NEW c \in Clients, BackgroundStarts(c)
  PROVE Kept
<1>1. Types /\ Exact
  BY DEF IInv
<1>2. /\ cmd[c].pc = "in" /\ ~refresh
      /\ refresh' = TRUE
      /\ UNCHANGED <<known, sess, server, drain, report, closed, fate>>
  BY DEF BackgroundStarts
<1>3. CommandIs(c, "done", cmd[c].session)
  <2> DEFINE x == [cmd[c] EXCEPT !.pc = "done"]
  <2>1. cmd' = [cmd EXCEPT ![c] = x]
    BY <1>1 DEF BackgroundStarts, Types, Command
  <2>2. cmd[c] \in Command
    BY <1>1 DEF Types, Command
  <2>3. x \in Command /\ x.pc = "done" /\ x.session = cmd[c].session
    BY <2>2 DEF Command
  <2> HIDE DEF x
  <2> QED BY <1>1, <2>1, <2>3, CommandChanges
<1>4. /\ CountsAre(work.commands, work.background + 1, work.auxiliary)
      /\ Moved
  <2>1. Counted([work EXCEPT !.background = @ + 1])
    BY <1>1 DEF BackgroundStarts
  <2>2. work' = [work EXCEPT !.background = @ + 1] /\ Moved
    BY <1>1, <2>1, CountedMoves
  <2>3. CountsAre(work.commands, work.background + 1, work.auxiliary)
    BY <1>1, <2>2 DEF CountsAre, WideWork, Types, Work
  <2> QED BY <2>2, <2>3
<1>5. work.commands # 0
  BY <1>1, <1>2, Zero
<1> QED
  BY <1>1, <1>2, <1>3, <1>4, <1>5, CommandOnlyKeeps
  DEF CommandIs, CountsAre, One, Types, Work

\* The detached thread ends and drops its guard.
LEMMA BackgroundEndsKeeps ==
  ASSUME IInv, BackgroundEnds
  PROVE Kept
<1>1. Types /\ Exact /\ Unknown /\ Locks /\ Closing /\ Emptied /\ Looking
  BY DEF IInv
<1>2. /\ CountsAre(work.commands, work.background - 1, work.auxiliary)
      /\ Moved
  <2>1. Counted([work EXCEPT !.background = @ - 1])
    BY <1>1 DEF BackgroundEnds
  <2>2. work' = [work EXCEPT !.background = @ - 1] /\ Moved
    BY <1>1, <2>1, CountedMoves
  <2>3. CountsAre(work.commands, work.background - 1, work.auxiliary)
    BY <1>1, <2>2 DEF CountsAre, WideWork, Types, Work
  <2> QED BY <2>2, <2>3
<1>3. /\ refresh /\ ~refresh'
      /\ UNCHANGED <<cmd, known, sess, server, drain, report, closed, fate>>
  BY <1>1 DEF BackgroundEnds
<1>4. Exact'
  <2>1. /\ Commanding' = Commanding /\ Entering' = Entering /\ Children' = Children
        /\ Workers' = Workers /\ Monitors' = Monitors /\ Timers' = Timers
    BY <1>3 DEF Commanding, Entering, Children, Workers, Monitors, Timers
  <2>2. Cardinality(Children) \in Nat
    BY <1>1, FS_CardinalityType DEF Exact
  <2> QED BY <1>1, <1>2, <1>3, <2>1, <2>2 DEF Exact, CountsAre, Types, Work
<1>5. Types'
  <2>1. refresh' \in BOOLEAN
    BY DEF BackgroundEnds
  <2> QED BY <1>1, <1>2, <1>3, <1>4, <2>1, WorkTyped DEF CountsAre, Moved,
      Types
<1>6. ~AllQuiet
  BY <1>1, <1>3, Zero DEF AllQuiet
<1>7. Unknown' /\ Locks' /\ Closing' /\ Emptied' /\ Looking'
  BY <1>1, <1>2, <1>3 DEF Unknown, Locks, Closing, Emptied, Looking, CountsAre,
     Moved
<1> QED BY <1>3, <1>4, <1>5, <1>6, <1>7 DEF Kept

\* What shutdown settles changes a run's control and nothing else.
Settles(s, control) ==
  /\ control \in {"none", "active", "stuck"}
  /\ control = sess[s].control \/ (control = "none" /\ sess[s].task = "none")

-----------------------------------------------------------------------------
(* The updater.                                                            *)

\* The updater's own reads: they disturb only what it has seen so far.
LEMMA UpdaterReads ==
  ASSUME IInv, \/ UpdaterBegins \/ UpdaterCounts
               \/ \E s \in Sessions : UpdaterLooks(s)
  PROVE IInv'
<1>1. Types /\ Exact /\ Looking
  BY DEF IInv
<1>2. UNCHANGED <<work, cmd, known, sess, refresh, server, drain, report,
                  closed, fate>>
  BY DEF UpdaterBegins, UpdaterCounts, UpdaterLooks
<1>3. updater' \in Updater /\ Looking'
  <2>1. CASE UpdaterBegins
    BY <1>1, <2>1 DEF UpdaterBegins, Updater, Looking
  <2>2. CASE UpdaterCounts
    <3>1. updater' = [updater EXCEPT !.pc = "look", !.left = known,
                                     !.busy = work.commands + work.background > 0]
      BY <2>2 DEF UpdaterCounts
    <3> DEFINE busy == work.commands + work.background > 0
    <3>2. busy \in BOOLEAN
      OBVIOUS
    <3>3. ~busy => work.commands = 0 /\ work.background = 0
      BY <1>1 DEF Types, Work
    <3>4. updater' = [pc |-> "look", left |-> known, busy |-> busy,
                      clean |-> updater.clean]
      BY <1>1, <3>1 DEF Types, Updater
    <3> HIDE DEF busy
    <3>5. updater' \in Updater
      BY <1>1, <3>2, <3>4 DEF Types, Updater
    <3>6. Looking'
      BY <1>1, <1>2, <3>3, <3>4 DEF Looking
    <3> QED BY <3>5, <3>6
  <2>3. ASSUME NEW s \in Sessions, UpdaterLooks(s)
        PROVE updater' \in Updater /\ Looking'
    <3> DEFINE busy == \/ updater.busy \/ Owned(s) \/ sess[s].queue > 0
                       \/ sess[s].control # "none"
    <3>1. CASE WriteLocked(s)
      <4>1. updater' = [updater EXCEPT !.pc = "off"]
        BY <2>3, <3>1 DEF UpdaterLooks
      <4>2. updater' \in Updater /\ updater'.pc = "off"
        BY <1>1, <4>1 DEF Types, Updater
      <4> QED BY <4>2 DEF Looking
    <3>2. CASE ~WriteLocked(s)
      <4>1. updater' = [updater EXCEPT !.left = updater.left \ {s},
                !.busy = busy]
        BY <2>3, <3>2 DEF UpdaterLooks
      <4>2. busy \in BOOLEAN
        BY <1>1 DEF Types, Updater
      <4>3. ~busy
                => ~updater.busy /\ sess[s].task = "none" /\ sess[s].queue = 0
        BY <1>1 DEF Types, Session, Owned
      <4> HIDE DEF busy
      <4>4. /\ updater' \in Updater /\ updater'.pc = updater.pc
            /\ updater'.left = updater.left \ {s} /\ updater'.busy = busy
            /\ updater'.clean = updater.clean
        BY <1>1, <4>1, <4>2 DEF Types, Updater
      <4> QED BY <1>1, <1>2, <4>3, <4>4 DEF Looking, Types
    <3> QED BY <3>1, <3>2
  <2> QED BY <2>1, <2>2, <2>3
<1> QED BY <1>1, <1>2, <1>3
  DEF IInv, Types, Exact, Commanding, Entering, Children, Workers, Monitors,
      Timers,
      Unknown, Locks, Closing, Emptied, Quieted, AllQuiet, Accounted, Through

\* The work is that of before, admission perhaps closed and the service retired.
Recorded ==
  /\ work' \in Work /\ (work.closed => work'.closed)
  /\ work'.commands = work.commands /\ work'.background = work.background
  /\ work'.auxiliary = work.auxiliary

\* Closing admission, or retiring, disturbs none of what is said of the work.
LEMMA RecordedKeeps ==
  ASSUME IInv, Recorded, UNCHANGED <<cmd, known, sess, refresh, fate>>
  PROVE /\ Exact' /\ Unknown' /\ Locks'
        /\ AllQuiet => AllQuiet'
        /\ UNCHANGED drain => Closing' /\ Emptied'
<1>1. Exact'
  BY DEF IInv, Exact, Commanding, Entering, Children, Workers, Monitors,
     Timers, Recorded
<1>2. Unknown' /\ Locks'
  BY DEF IInv, Unknown, Locks
<1>3. AllQuiet => AllQuiet'
  BY DEF AllQuiet, Recorded
<1>4. UNCHANGED drain => Closing' /\ Emptied'
  BY DEF IInv, Closing, Emptied, Recorded
<1> QED BY <1>1, <1>2, <1>3, <1>4

\* UpdaterCloses: admission may close, no guard moves.
LEMMA UpdaterClosesKeeps ==
  ASSUME IInv, UpdaterCloses
  PROVE IInv'
<1>1. Types
  BY DEF IInv
<1>2. /\ work' = [work EXCEPT !.closed = @ \/ (~updater.busy /\ updater.clean)]
      /\ updater' = [updater EXCEPT !.pc = "off", !.clean = FALSE]
      /\ UNCHANGED <<cmd, known, sess, refresh, server, drain, report, closed,
                     fate>>
  BY DEF UpdaterCloses
<1>3. Recorded
  BY <1>1, <1>2 DEF Recorded, Types, Work, Updater
<1>4. updater' \in Updater /\ updater'.pc = "off"
  BY <1>1, <1>2 DEF Types, Updater
<1>5. /\ Exact' /\ Unknown' /\ Locks' /\ Closing' /\ Emptied'
      /\ (AllQuiet => AllQuiet')
  BY <1>2, <1>3, RecordedKeeps
<1>6. Types' /\ Looking'
  BY <1>1, <1>2, <1>3, <1>4 DEF Types, Looking, Recorded
<1>7. Quieted' /\ Accounted'
  BY <1>2, <1>5 DEF IInv, Quieted, Accounted, Through
<1> QED BY <1>5, <1>6, <1>7 DEF IInv

\* Retire: only the flag is set.
LEMMA RetireKeeps ==
  ASSUME IInv, Retire
  PROVE IInv'
<1>1. Types
  BY DEF IInv
<1>2. /\ work' = [work EXCEPT !.retired = TRUE]
      /\ UNCHANGED <<cmd, known, sess, refresh, server, drain, report, closed,
                     updater, fate>>
  BY DEF Retire
<1>3. Recorded
  BY <1>1, <1>2 DEF Recorded, Types, Work
<1>5. /\ Exact' /\ Unknown' /\ Locks' /\ Closing' /\ Emptied'
      /\ (AllQuiet => AllQuiet')
  BY <1>2, <1>3, RecordedKeeps
<1>6. Types' /\ Looking'
  BY <1>1, <1>2, <1>3 DEF IInv, Types, Looking, Recorded
<1>7. Quieted' /\ Accounted'
  BY <1>2, <1>5 DEF IInv, Quieted, Accounted, Through
<1> QED BY <1>5, <1>6, <1>7 DEF IInv

-----------------------------------------------------------------------------
(* Shutdown.                                                               *)

\* The supervisor is here.
DrainIs(stage, left, errors) ==
  /\ drain' \in Supervisor /\ drain'.stage = stage /\ drain'.left = left
  /\ drain'.errors = errors

\* RequestShutdown and ServerDropped close admission and start the drain.
LEMMA ShutdownBegins ==
  ASSUME IInv, RequestShutdown \/ ServerDropped
  PROVE IInv'
<1>1. Types /\ Closing /\ Emptied
  BY DEF IInv
<1>2. /\ Counted([work EXCEPT !.closed = TRUE])
      /\ UNCHANGED <<cmd, known, sess, refresh, report, closed, fate>>
      /\ server' \in BOOLEAN /\ (server' => server)
      /\ \/ /\ drain.stage = "off"
            /\ drain' = [drain EXCEPT !.stage = "interrupt", !.left = known]
         \/ drain.stage # "off" /\ UNCHANGED drain
  <2>1. CASE RequestShutdown
    BY <1>1, <2>1 DEF RequestShutdown, Types
  <2>2. CASE ServerDropped
    BY <1>1, <2>2 DEF ServerDropped, Types
  <2> QED BY <2>1, <2>2
<1>3. work' = [work EXCEPT !.closed = TRUE] /\ Moved
  BY <1>1, <1>2, CountedMoves
<1>4. Recorded /\ work'.closed
  BY <1>1, <1>3 DEF Recorded, Types, Work
<1>5. Exact' /\ Unknown' /\ Locks' /\ (AllQuiet => AllQuiet')
  BY <1>2, <1>4, RecordedKeeps
<1>6. \/ drain.stage = "off" /\ DrainIs("interrupt", known, drain.errors)
      \/ UNCHANGED drain
  BY <1>1, <1>2 DEF DrainIs, Types, Supervisor, Stages
<1>7. Types' /\ Looking'
  BY <1>1, <1>2, <1>3, <1>4, <1>6 DEF DrainIs, Types, Looking, Recorded, Moved
<1>8. CASE UNCHANGED drain
  <2>1. Closing' /\ Emptied'
    BY <1>2, <1>4, <1>8, RecordedKeeps
  <2>2. Quieted' /\ Accounted'
    BY <1>2, <1>5, <1>8 DEF IInv, Quieted, Accounted, Through
  <2> QED BY <1>5, <1>7, <2>1, <2>2 DEF IInv
<1>9. CASE drain.stage = "off" /\ DrainIs("interrupt", known, drain.errors)
  <2>1. Closing' /\ Emptied'
    BY <1>1, <1>2, <1>4, <1>9 DEF DrainIs, Closing, Emptied, Late, Recorded
  <2>2. Quieted' /\ Accounted'
    BY <1>2, <1>5, <1>9 DEF DrainIs, IInv, Quieted, Accounted, Through
  <2> QED BY <1>5, <1>7, <2>1, <2>2 DEF IInv
<1> QED BY <1>6, <1>8, <1>9

\* ServerEnds and DeadlineExpires: a report of Failed claims nothing.
LEMMA ShutdownEnds ==
  ASSUME IInv, ServerEnds \/ DeadlineExpires
  PROVE IInv'
<1>1. /\ UNCHANGED <<work, cmd, known, sess, refresh, drain, closed, updater,
                     fate>>
      /\ \/ server' = FALSE /\ UNCHANGED report
         \/ UNCHANGED server /\ report = "none" /\ report' = "Failed"
  BY DEF ServerEnds, DeadlineExpires, Finish
<1>2. Types'
  BY <1>1 DEF IInv, Types
<1>3. Exact' /\ Unknown' /\ Locks' /\ Closing' /\ Emptied' /\ Looking'
  BY <1>1 DEF IInv, Exact, Commanding, Entering, Children, Workers, Monitors,
     Timers,
     Unknown, Locks, Closing, Emptied, Looking
<1>4. Quieted' /\ Accounted'
  BY <1>1 DEF IInv, Quieted, AllQuiet, Accounted, Through
<1> QED BY <1>2, <1>3, <1>4 DEF IInv

-----------------------------------------------------------------------------
(* The stages of the drain.                                                *)

\* A step of the supervisor that only moves it on leaves the work alone.
LEMMA DrainFrame ==
  ASSUME IInv, UNCHANGED <<work, cmd, known, sess, refresh, updater>>
  PROVE /\ Exact' /\ Locks' /\ Looking' /\ (AllQuiet => AllQuiet')
        /\ UNCHANGED fate => Unknown'
        /\ UNCHANGED <<server, report, closed, fate>> /\ drain' \in Supervisor
             => Types'
<1>1. Exact'
  BY DEF IInv, Exact, Commanding, Entering, Children, Workers, Monitors, Timers
<1>2. Locks' /\ Looking' /\ (UNCHANGED fate => Unknown')
  BY DEF IInv, Unknown, Locks, Looking
<1>3. AllQuiet => AllQuiet'
  BY DEF AllQuiet
<1>4. UNCHANGED <<server, report, closed, fate>> /\ drain' \in Supervisor
        => Types'
  BY DEF IInv, Types
<1> QED BY <1>1, <1>2, <1>3, <1>4

\* Before the counts are found at zero a second time, nothing that shutdown
\* promises is claimed yet: a step from one such stage to another.
LEMMA EarlyStage ==
  ASSUME IInv, UNCHANGED <<server, report, closed>>, AllQuiet => AllQuiet',
         drain.stage \in {"off", "interrupt", "queues", "counts", "look"},
         drain'.stage \in {"off", "interrupt", "queues", "counts", "look"}
  PROVE Quieted' /\ Accounted'
<1>1. report # "Stopped"
  BY DEF IInv, Accounted
<1> QED BY <1>1 DEF IInv, Quieted, Accounted, Through

\* DrainCommandsEnd: no command is left, and with admission closed none
\* will come.
LEMMA DrainCommandsEndKeeps ==
  ASSUME IInv, DrainCommandsEnd
  PROVE IInv'
<1>1. Types /\ Exact /\ Unknown /\ Closing /\ Emptied /\ Quieted /\ Accounted
  BY DEF IInv
<1>2. /\ drain.stage = "interrupt" /\ work.commands = 0
      /\ drain' = [drain EXCEPT !.stage = "queues", !.left = known]
      /\ UNCHANGED <<work, cmd, known, sess, refresh, server, report, closed,
                     updater, fate>>
  BY DEF DrainCommandsEnd, Stage
<1>3. DrainIs("queues", known, drain.errors)
  BY <1>1, <1>2 DEF DrainIs, Types, Supervisor, Stages
<1>4. /\ Exact' /\ Locks' /\ Looking' /\ Unknown' /\ Types'
      /\ (AllQuiet => AllQuiet')
  BY <1>2, <1>3, DrainFrame DEF DrainIs
<1>5. Closing'
  BY <1>1, <1>2, <1>3 DEF DrainIs, Closing, Late
<1>6. Emptied'
  BY <1>1, <1>2, <1>3 DEF DrainIs, Emptied, Late
<1>7. Quieted' /\ Accounted'
  BY <1>2, <1>3, <1>4, EarlyStage DEF DrainIs
<1> QED BY <1>4, <1>5, <1>6, <1>7 DEF IInv

\* DrainQueuesTaken: every queue is empty, known session or not.
LEMMA DrainQueuesTakenKeeps ==
  ASSUME IInv, DrainQueuesTaken
  PROVE IInv'
<1>1. Types /\ Exact /\ Unknown /\ Closing /\ Emptied /\ Quieted /\ Accounted
  BY DEF IInv
<1>2. /\ drain.stage = "queues" /\ drain.left = {}
      /\ drain' = [drain EXCEPT !.stage = "counts", !.left = {}]
      /\ UNCHANGED <<work, cmd, known, sess, refresh, server, report, closed,
                     updater, fate>>
  BY DEF DrainQueuesTaken, Stage
<1>3. DrainIs("counts", {}, drain.errors)
  BY <1>1, <1>2 DEF DrainIs, Types, Supervisor, Stages
<1>4. /\ Exact' /\ Locks' /\ Looking' /\ Unknown' /\ Types'
      /\ (AllQuiet => AllQuiet')
  BY <1>2, <1>3, DrainFrame DEF DrainIs
<1>5. Closing'
  BY <1>1, <1>2, <1>3 DEF DrainIs, Closing, Late
<1>6. Emptied'
  BY <1>1, <1>2, <1>3 DEF DrainIs, Emptied, Late, Unknown, Types
<1>7. Quieted' /\ Accounted'
  BY <1>2, <1>3, <1>4, EarlyStage DEF DrainIs
<1> QED BY <1>4, <1>5, <1>6, <1>7 DEF IInv

\* DrainCounts.
LEMMA DrainCountsKeeps ==
  ASSUME IInv, DrainCounts
  PROVE IInv'
<1>1. Types /\ Exact /\ Unknown /\ Closing /\ Emptied /\ Quieted /\ Accounted
  BY DEF IInv
<1>2. /\ drain.stage = "counts" /\ TRUE
      /\ drain' = [drain EXCEPT !.stage = "look", !.left = known]
      /\ UNCHANGED <<work, cmd, known, sess, refresh, server, report, closed,
                     updater, fate>>
  BY DEF DrainCounts, Stage
<1>3. DrainIs("look", known, drain.errors)
  BY <1>1, <1>2 DEF DrainIs, Types, Supervisor, Stages
<1>4. /\ Exact' /\ Locks' /\ Looking' /\ Unknown' /\ Types'
      /\ (AllQuiet => AllQuiet')
  BY <1>2, <1>3, DrainFrame DEF DrainIs
<1>5. Closing'
  BY <1>1, <1>2, <1>3 DEF DrainIs, Closing, Late
<1>6. Emptied'
  BY <1>1, <1>2, <1>3 DEF DrainIs, Emptied, Late
<1>7. Quieted' /\ Accounted'
  BY <1>2, <1>3, <1>4, EarlyStage DEF DrainIs
<1> QED BY <1>4, <1>5, <1>6, <1>7 DEF IInv

\* DrainRecorded: the terminals of all sessions are accounted for.
LEMMA DrainRecordedKeeps ==
  ASSUME IInv, DrainRecorded
  PROVE IInv'
<1>1. Types /\ Exact /\ Unknown /\ Closing /\ Emptied /\ Quieted /\ Accounted
  BY DEF IInv
<1>2. /\ drain.stage = "terminals" /\ drain.left = {}
      /\ drain' = [drain EXCEPT !.stage = "monitors", !.left = {}]
      /\ UNCHANGED <<work, cmd, known, sess, refresh, server, report, closed,
                     updater, fate>>
  BY DEF DrainRecorded, Stage
<1>3. DrainIs("monitors", {}, drain.errors)
  BY <1>1, <1>2 DEF DrainIs, Types, Supervisor, Stages
<1>4. /\ Exact' /\ Locks' /\ Looking' /\ Unknown' /\ Types'
      /\ (AllQuiet => AllQuiet')
  BY <1>2, <1>3, DrainFrame DEF DrainIs
<1>5. Closing'
  BY <1>1, <1>2, <1>3 DEF DrainIs, Closing, Late
<1>6. Emptied'
  BY <1>1, <1>2, <1>3 DEF DrainIs, Emptied, Late
<1>7. Quieted' /\ Accounted'
  BY <1>1, <1>2, <1>3, <1>4 DEF DrainIs, Quieted, Accounted, Through, Unknown
<1> QED BY <1>4, <1>5, <1>6, <1>7 DEF IInv

\* DrainMonitorsSettle.
LEMMA DrainMonitorsSettleKeeps ==
  ASSUME IInv, DrainMonitorsSettle
  PROVE IInv'
<1>1. Types /\ Exact /\ Unknown /\ Closing /\ Emptied /\ Quieted /\ Accounted
  BY DEF IInv
<1>2. /\ drain.stage = "monitors" /\ TRUE
      /\ drain' = [drain EXCEPT !.stage = "writers", !.left = known]
      /\ UNCHANGED <<work, cmd, known, sess, refresh, server, report, closed,
                     updater, fate>>
  BY DEF DrainMonitorsSettle, Stage
<1>3. DrainIs("writers", known, drain.errors)
  BY <1>1, <1>2 DEF DrainIs, Types, Supervisor, Stages
<1>4. /\ Exact' /\ Locks' /\ Looking' /\ Unknown' /\ Types'
      /\ (AllQuiet => AllQuiet')
  BY <1>2, <1>3, DrainFrame DEF DrainIs
<1>5. Closing'
  BY <1>1, <1>2, <1>3 DEF DrainIs, Closing, Late
<1>6. Emptied'
  BY <1>1, <1>2, <1>3 DEF DrainIs, Emptied, Late
<1>7. Quieted' /\ Accounted'
  BY <1>1, <1>2, <1>3, <1>4 DEF DrainIs, Quieted, Accounted, Through, Unknown
<1> QED BY <1>4, <1>5, <1>6, <1>7 DEF IInv

\* DrainStopsListener: every session is resolved, or the drain has an error.
LEMMA DrainStopsListenerKeeps ==
  ASSUME IInv, DrainStopsListener
  PROVE IInv'
<1>1. Types /\ Exact /\ Unknown /\ Closing /\ Emptied /\ Quieted /\ Accounted
  BY DEF IInv
<1>2. /\ drain.stage = "writers" /\ drain.left = {}
      /\ drain' = [drain EXCEPT !.stage = "listener", !.left = {}]
      /\ UNCHANGED <<work, cmd, known, sess, refresh, server, report, closed,
                     updater, fate>>
  BY DEF DrainStopsListener, Stage
<1>3. DrainIs("listener", {}, drain.errors)
  BY <1>1, <1>2 DEF DrainIs, Types, Supervisor, Stages
<1>4. /\ Exact' /\ Locks' /\ Looking' /\ Unknown' /\ Types'
      /\ (AllQuiet => AllQuiet')
  BY <1>2, <1>3, DrainFrame DEF DrainIs
<1>5. Closing'
  BY <1>1, <1>2, <1>3 DEF DrainIs, Closing, Late
<1>6. Emptied'
  BY <1>1, <1>2, <1>3 DEF DrainIs, Emptied, Late
<1>7. Quieted' /\ Accounted'
  BY <1>1, <1>2, <1>3, <1>4 DEF DrainIs, Quieted, Accounted, Through, Unknown
<1> QED BY <1>4, <1>5, <1>6, <1>7 DEF IInv

\* DrainAbandonsListener.
LEMMA DrainAbandonsListenerKeeps ==
  ASSUME IInv, DrainAbandonsListener
  PROVE IInv'
<1>1. Types /\ Exact /\ Unknown /\ Closing /\ Emptied /\ Quieted /\ Accounted
  BY DEF IInv
<1>2. /\ drain.stage = "listener" /\ TRUE
      /\ drain' = [drain EXCEPT !.stage = "abandoned", !.left = {}]
      /\ UNCHANGED <<work, cmd, known, sess, refresh, server, report, closed,
                     updater, fate>>
  BY DEF DrainAbandonsListener, Stage
<1>3. DrainIs("abandoned", {}, drain.errors)
  BY <1>1, <1>2 DEF DrainIs, Types, Supervisor, Stages
<1>4. /\ Exact' /\ Locks' /\ Looking' /\ Unknown' /\ Types'
      /\ (AllQuiet => AllQuiet')
  BY <1>2, <1>3, DrainFrame DEF DrainIs
<1>5. Closing'
  BY <1>1, <1>2, <1>3 DEF DrainIs, Closing, Late
<1>6. Emptied'
  BY <1>1, <1>2, <1>3 DEF DrainIs, Emptied, Late
<1>7. Quieted' /\ Accounted'
  BY <1>1, <1>2, <1>3, <1>4 DEF DrainIs, Quieted, Accounted, Through, Unknown
<1> QED BY <1>4, <1>5, <1>6, <1>7 DEF IInv

\* DrainListenerEnded: the server is gone.
LEMMA DrainListenerEndedKeeps ==
  ASSUME IInv, DrainListenerEnded
  PROVE IInv'
<1>1. Types /\ Exact /\ Unknown /\ Closing /\ Emptied /\ Quieted /\ Accounted
  BY DEF IInv
<1>2. /\ drain.stage \in {"listener", "abandoned"} /\ ~server
      /\ drain' = [drain EXCEPT !.stage = "storage", !.left = {}]
      /\ UNCHANGED <<work, cmd, known, sess, refresh, server, report, closed,
                     updater, fate>>
  BY DEF DrainListenerEnded, Stage
<1>3. DrainIs("storage", {}, drain.errors)
  BY <1>1, <1>2 DEF DrainIs, Types, Supervisor, Stages
<1>4. /\ Exact' /\ Locks' /\ Looking' /\ Unknown' /\ Types'
      /\ (AllQuiet => AllQuiet')
  BY <1>2, <1>3, DrainFrame DEF DrainIs
<1>5. Closing'
  BY <1>1, <1>2, <1>3 DEF DrainIs, Closing, Late
<1>6. Emptied'
  BY <1>1, <1>2, <1>3 DEF DrainIs, Emptied, Late
<1>7. Quieted' /\ Accounted'
  BY <1>1, <1>2, <1>3, <1>4 DEF DrainIs, Quieted, Accounted, Through, Unknown
<1> QED BY <1>4, <1>5, <1>6, <1>7 DEF IInv

\* DrainGivesUp: a report exists, so nothing more is claimed by returning.
LEMMA DrainGivesUpKeeps ==
  ASSUME IInv, DrainGivesUp
  PROVE IInv'
<1>1. Types /\ Exact /\ Unknown /\ Closing /\ Emptied /\ Quieted /\ Accounted
  BY DEF IInv
<1>2. /\ report # "none" /\ drain.stage \in {"interrupt", "counts", "monitors",
             "abandoned"}
      /\ drain' = [drain EXCEPT !.stage = "returned"]
      /\ UNCHANGED <<work, cmd, known, sess, refresh, server, report, closed,
                     updater, fate>>
  BY DEF DrainGivesUp, DrainWaits
<1>3. DrainIs("returned", drain.left, drain.errors)
  BY <1>1, <1>2 DEF DrainIs, Types, Supervisor, Stages
<1>4. /\ Exact' /\ Locks' /\ Looking' /\ Unknown' /\ Types'
      /\ (AllQuiet => AllQuiet')
  BY <1>2, <1>3, DrainFrame DEF DrainIs
<1>5. Closing'
  BY <1>1, <1>2, <1>3 DEF DrainIs, Closing, Late
<1>6. Emptied'
  BY <1>1, <1>2, <1>3 DEF DrainIs, Emptied, Late
<1>7. Quieted' /\ Accounted'
  BY <1>1, <1>2, <1>3, <1>4 DEF DrainIs, Quieted, Accounted, Through, Unknown
<1> QED BY <1>4, <1>5, <1>6, <1>7 DEF IInv

\* DrainCountsAgain: counts of zero under closed admission with empty
\* queues are final.
LEMMA DrainCountsAgainKeeps ==
  ASSUME IInv, DrainCountsAgain
  PROVE IInv'
<1>1. Types /\ Exact /\ Unknown /\ Closing /\ Emptied /\ Quieted /\ Accounted
  BY DEF IInv
<1>2. /\ drain.stage = "look"
      /\ \/ Counts = <<0, 0>> /\ drain' = [drain EXCEPT !.stage = "terminals",
                !.left = known]
         \/ drain' = [drain EXCEPT !.stage = "counts", !.left = {}]
      /\ UNCHANGED <<work, cmd, known, sess, refresh, server, report, closed,
                     updater, fate>>
  BY DEF DrainCountsAgain, Stage
<1>3. \/ Counts = <<0, 0>> /\ DrainIs("terminals", known, drain.errors)
      \/ DrainIs("counts", {}, drain.errors)
  BY <1>1, <1>2 DEF DrainIs, Types, Supervisor, Stages
<1>4. /\ Exact' /\ Locks' /\ Looking' /\ Unknown' /\ Types'
      /\ (AllQuiet => AllQuiet')
  BY <1>2, <1>3, DrainFrame DEF DrainIs
<1>5. Closing'
  BY <1>1, <1>2, <1>3 DEF DrainIs, Closing, Late
<1>6. Emptied'
  BY <1>1, <1>2, <1>3 DEF DrainIs, Emptied, Late
<1>7. Quieted' /\ Accounted'
  <2>1. CASE DrainIs("counts", {}, drain.errors)
    BY <1>2, <1>4, <2>1, EarlyStage DEF DrainIs
  <2>2. CASE Counts = <<0, 0>> /\ DrainIs("terminals", known, drain.errors)
    <3>1. work.commands = 0 /\ work.background = 0 /\ work.auxiliary = 0
      BY <1>1, <2>2 DEF Counts, Types, Work
    <3>2. AllQuiet
      BY <1>1, <1>2, <3>1 DEF AllQuiet, Closing, Emptied, Late
    <3> QED BY <1>1, <1>2, <1>4, <2>2, <3>2 DEF DrainIs, Quieted, Accounted,
        Through
  <2> QED BY <1>3, <2>1, <2>2
<1> QED BY <1>4, <1>5, <1>6, <1>7 DEF IInv

\* DrainLooks.
LEMMA DrainLooksKeeps ==
  ASSUME IInv, NEW s \in known, DrainLooks(s)
  PROVE IInv'
<1>1. Types /\ Exact /\ Unknown /\ Closing /\ Emptied /\ Quieted /\ Accounted
  BY DEF IInv
<1>2. /\ drain.stage = "look"
      /\ \/ drain' = [drain EXCEPT !.stage = "counts", !.left = {}]
         \/ drain' = [drain EXCEPT !.left = drain.left \ {s}]
      /\ UNCHANGED <<work, cmd, known, sess, refresh, server, report, closed,
                     updater, fate>>
  BY DEF DrainLooks
<1>3. \/ DrainIs("counts", {}, drain.errors)
      \/ DrainIs("look", drain.left \ {s}, drain.errors)
  <2>1. CASE drain' = [drain EXCEPT !.stage = "counts", !.left = {}]
    BY <1>1, <2>1 DEF DrainIs, Types, Supervisor, Stages
  <2>2. CASE drain' = [drain EXCEPT !.left = drain.left \ {s}]
    BY <1>1, <1>2, <2>2 DEF DrainIs, Types, Supervisor
  <2> QED BY <1>2, <2>1, <2>2
<1>4. /\ Exact' /\ Locks' /\ Looking' /\ Unknown' /\ Types'
      /\ (AllQuiet => AllQuiet')
  BY <1>2, <1>3, DrainFrame DEF DrainIs
<1>5. Closing'
  BY <1>1, <1>2, <1>3 DEF DrainIs, Closing, Late
<1>6. Emptied'
  BY <1>1, <1>2, <1>3 DEF DrainIs, Emptied, Late
<1>7. Quieted' /\ Accounted'
  BY <1>2, <1>3, <1>4, EarlyStage DEF DrainIs
<1> QED BY <1>4, <1>5, <1>6, <1>7 DEF IInv

\* Settling a faulted run changes its control and nothing else.
LEMMA SettledIs ==
  ASSUME Types, NEW s \in Sessions, NEW x \in Settled(s)
  PROVE /\ x \in Session /\ Settles(s, x.control)
        /\ x.task = sess[s].task /\ x.child = sess[s].child
        /\ x.queue = sess[s].queue /\ x.worker = sess[s].worker
        /\ x.timer = sess[s].timer
<1>0. sess[s] \in Session
  BY DEF Types
<1>1. CASE sess[s].control = "stuck" /\ ~Owned(s)
  <2>1. PICK c \in {"none", "stuck"} : x = [sess[s] EXCEPT !.control = c]
    BY <1>1 DEF Settled
  <2>2. x \in Session
    BY <1>0, <2>1 DEF Session
  <2>3. /\ x.control = c /\ x.task = sess[s].task /\ x.child = sess[s].child
        /\ x.queue = sess[s].queue /\ x.worker = sess[s].worker
        /\ x.timer = sess[s].timer
    BY <1>0, <2>1 DEF Session
  <2> QED BY <1>1, <2>2, <2>3 DEF Settles, Owned
<1>2. CASE ~(sess[s].control = "stuck" /\ ~Owned(s))
  <2>1. x = sess[s]
    BY <1>2 DEF Settled
  <2> QED BY <1>0, <2>1 DEF Settles, Session
<1> QED BY <1>1, <1>2

\* DrainInterrupts, field by field.
LEMMA DrainInterruptsEffect ==
  ASSUME Types, NEW s \in Sessions, DrainInterrupts(s)
  PROVE \E control : /\ Settles(s, control)
                     /\ SessionIs(s, sess[s].task, control, sess[s].child,
                          sess[s].queue, sess[s].worker, sess[s].timer)
<1>1. PICK x \in Settled(s) : sess' = [sess EXCEPT ![s] = x]
  BY DEF DrainInterrupts
<1>2. /\ x \in Session /\ Settles(s, x.control)
      /\ x.task = sess[s].task /\ x.child = sess[s].child
      /\ x.queue = sess[s].queue /\ x.worker = sess[s].worker
      /\ x.timer = sess[s].timer
  BY SettledIs
<1>3. SessionIs(s, sess[s].task, x.control, sess[s].child, sess[s].queue,
                sess[s].worker, sess[s].timer)
  BY <1>1, <1>2, SessionChanges DEF SessionIs
<1> QED BY <1>2, <1>3

\* DrainStops, field by field.
LEMMA DrainStopsEffect ==
  ASSUME Types, NEW s \in Sessions, DrainStops(s)
  PROVE \E control : /\ Settles(s, control)
                     /\ SessionIs(s, sess[s].task, control, sess[s].child, 0,
                          IF sess[s].worker \in {"waiting", "woken"}
                            THEN "aborted" ELSE sess[s].worker,
                          IF sess[s].timer = "armed"
                            THEN "aborted" ELSE sess[s].timer)
<1>1. PICK x \in Settled(s) :
        sess' = [sess EXCEPT ![s] = [StopAuxiliary(x) EXCEPT !.queue = 0]]
  BY DEF DrainStops
<1>2. /\ x \in Session /\ Settles(s, x.control)
      /\ x.task = sess[s].task /\ x.child = sess[s].child
      /\ x.queue = sess[s].queue /\ x.worker = sess[s].worker
      /\ x.timer = sess[s].timer
  BY SettledIs
<1> DEFINE y == StopAuxiliary(x)
<1> DEFINE z == [y EXCEPT !.queue = 0]
<1>3. y \in Session
  BY <1>2 DEF Session, StopAuxiliary
<1>4. /\ y.task = x.task /\ y.child = x.child /\ y.control = x.control
      /\ y.worker = IF x.worker \in {"waiting", "woken"} THEN "aborted"
             ELSE x.worker
      /\ y.timer = IF x.timer = "armed" THEN "aborted" ELSE x.timer
  BY <1>2 DEF Session, StopAuxiliary
<1> HIDE DEF y
<1>5. z \in Session
  BY <1>3 DEF Session
<1>6. /\ z.queue = 0 /\ z.task = y.task /\ z.child = y.child /\ z.control = y.control
      /\ z.worker = y.worker /\ z.timer = y.timer
  BY <1>3 DEF Session
<1>7. sess' = [sess EXCEPT ![s] = z]
  BY <1>1 DEF y
<1> HIDE DEF z
<1>8. SessionIs(s, sess[s].task, x.control, sess[s].child, 0,
        IF sess[s].worker \in {"waiting", "woken"}
          THEN "aborted" ELSE sess[s].worker,
        IF sess[s].timer = "armed" THEN "aborted" ELSE sess[s].timer)
  BY <1>2, <1>4, <1>5, <1>6, <1>7, SessionChanges DEF SessionIs
<1> QED BY <1>2, <1>8

\* DrainInterrupts: only a control may be settled.
LEMMA DrainInterruptsKeeps ==
  ASSUME IInv, NEW s \in known, DrainInterrupts(s)
  PROVE IInv'
<1>1. /\ Types /\ Exact /\ Unknown /\ Locks /\ Closing /\ Emptied /\ Looking
      /\ s \in Sessions
  BY DEF IInv, Types
<1>2. PICK control :
        SessionIs(s, sess[s].task, control, sess[s].child, sess[s].queue,
                  sess[s].worker, sess[s].timer)
  BY <1>1, DrainInterruptsEffect
<1>3. /\ drain.stage = "interrupt"
      /\ drain' = [drain EXCEPT !.left = drain.left \ {s}]
      /\ UNCHANGED <<work, cmd, known, refresh, server, report, closed,
                     updater, fate>>
  BY DEF DrainInterrupts
<1>4. DrainIs("interrupt", drain.left \ {s}, drain.errors)
  BY <1>1, <1>3 DEF DrainIs, Types, Supervisor, Stages
<1>5. OnlySession(s)
  BY <1>2 DEF SessionIs, OnlySession
<1>6. Exact'
  <2>1. Balanced(s)
    BY <1>1, <1>2, <1>3 DEF SessionIs, OnlySession, Balanced, One, Types, Work
  <2>2. Commanding' = Commanding
    BY <1>3 DEF Commanding
  <2> QED BY <1>1, <1>3, <1>5, <2>1, <2>2, SessionExact
<1>7. Types'
  BY <1>1, <1>2, <1>3, <1>4 DEF Types, DrainIs, SessionIs, OnlySession
<1>8. Unknown'
  BY <1>1, <1>2, <1>3 DEF Unknown, SessionIs, OnlySession
<1>9. Locks'
  BY <1>1, <1>2, <1>3, <1>5, SessionLocks DEF SessionIs, OnlySession, Respects,
     Locks, Starters
<1>10. Closing'
  BY <1>1, <1>2, <1>3, <1>4 DEF Closing, SessionIs, OnlySession, DrainIs, Late
<1>11. Emptied'
  BY <1>4 DEF Emptied, DrainIs, Late
<1>12. Looking'
  BY <1>1, <1>2, <1>3 DEF Looking, SessionIs, OnlySession, Types
<1>13. AllQuiet => AllQuiet'
  BY <1>1, <1>2, <1>3 DEF AllQuiet, SessionIs, OnlySession
<1>14. Quieted' /\ Accounted'
  BY <1>3, <1>4, <1>13, EarlyStage DEF DrainIs
<1> QED BY <1>6, <1>7, <1>8, <1>9, <1>10, <1>11, <1>12, <1>14 DEF IInv

\* DrainStops: the queue is taken; an aborted worker or timer still holds
\* its guard.
LEMMA DrainStopsKeeps ==
  ASSUME IInv, NEW s \in known, DrainStops(s)
  PROVE IInv'
<1>1. /\ Types /\ Exact /\ Unknown /\ Locks /\ Closing /\ Emptied /\ Looking
      /\ s \in Sessions
  BY DEF IInv, Types
<1> DEFINE worker == IF sess[s].worker \in {"waiting", "woken"}
                     THEN "aborted" ELSE sess[s].worker
<1> DEFINE timer == IF sess[s].timer = "armed" THEN "aborted"
        ELSE sess[s].timer
<1>2. PICK control : SessionIs(s, sess[s].task, control, sess[s].child, 0,
          worker, timer)
  BY <1>1, DrainStopsEffect
<1>3. /\ drain.stage = "queues" /\ ~WriteLocked(s)
      /\ drain' = [drain EXCEPT !.left = drain.left \ {s}]
      /\ fate' = [fate EXCEPT ![s].taken = sess[s].queue]
      /\ UNCHANGED <<work, cmd, known, refresh, server, report, closed,
                     updater>>
  BY DEF DrainStops
<1>4. DrainIs("queues", drain.left \ {s}, drain.errors)
  BY <1>1, <1>3 DEF DrainIs, Types, Supervisor, Stages
<1>5. OnlySession(s)
  BY <1>2 DEF SessionIs, OnlySession
<1>6. Exact'
  <2>1. Balanced(s)
    BY <1>1, <1>2, <1>3 DEF SessionIs, OnlySession, Balanced, One, Types, Work
  <2>2. Commanding' = Commanding
    BY <1>3 DEF Commanding
  <2> QED BY <1>1, <1>3, <1>5, <2>1, <2>2, SessionExact
<1>7. /\ fate' \in [Sessions -> Fate]
      /\ \A r \in Sessions \ {s} : fate'[r] = fate[r]
  <2> DEFINE x == [fate[s] EXCEPT !.taken = sess[s].queue]
  <2>1. fate' = [fate EXCEPT ![s] = x]
    BY <1>1, <1>3 DEF Types, Fate
  <2>2. fate[s] \in Fate /\ sess[s].queue \in Nat
    BY <1>1 DEF Types, Session
  <2>3. x \in Fate
    BY <2>2 DEF Fate
  <2> HIDE DEF x
  <2> QED BY <1>1, <2>1, <2>3 DEF Types
<1>8. Types'
  BY <1>1, <1>2, <1>3, <1>4, <1>7 DEF Types, DrainIs, SessionIs, OnlySession
<1>9. Unknown'
  BY <1>1, <1>2, <1>3, <1>7 DEF Unknown, SessionIs, OnlySession
<1>10. Locks'
  BY <1>1, <1>2, <1>3, <1>5, SessionLocks DEF SessionIs, OnlySession, Respects,
     Locks, Starters, WriteLocked
<1>11. Closing'
  BY <1>1, <1>2, <1>3, <1>4 DEF Closing, SessionIs, OnlySession, DrainIs, Late
<1>12. Emptied'
  BY <1>1, <1>2, <1>3, <1>4 DEF Emptied, DrainIs, Late, SessionIs, OnlySession,
     Types
<1>13. Looking'
  BY <1>1, <1>2, <1>3 DEF Looking, SessionIs, OnlySession, Types
<1>14. AllQuiet => AllQuiet'
  BY <1>1, <1>2, <1>3 DEF AllQuiet, SessionIs, OnlySession
<1>15. Quieted' /\ Accounted'
  BY <1>3, <1>4, <1>14, EarlyStage DEF DrainIs
<1> QED BY <1>6, <1>8, <1>9, <1>10, <1>11, <1>12, <1>13, <1>15 DEF IInv

\* DrainRecords: a terminal that was not stored is an error.
LEMMA DrainRecordsKeeps ==
  ASSUME IInv, NEW s \in known, DrainRecords(s)
  PROVE IInv'
<1>1. /\ Types /\ Exact /\ Unknown /\ Closing /\ Emptied /\ Quieted /\ Accounted
      /\ s \in Sessions
  BY DEF IInv, Types
<1>2. PICK n \in 0..fate[s].taken :
        /\ fate' = [fate EXCEPT ![s].recorded = n]
        /\ drain' = [drain EXCEPT !.left = drain.left \ {s},
                                  !.errors = drain.errors \/ n < fate[s].taken]
  BY DEF DrainRecords
<1>3. /\ drain.stage = "terminals"
      /\ UNCHANGED <<work, cmd, known, sess, refresh, server, report, closed,
                     updater>>
  BY DEF DrainRecords
<1>4. fate[s] \in Fate /\ n \in Nat /\ n <= fate[s].taken /\ fate[s].taken \in Nat
  BY <1>1 DEF Types, Fate
<1>5. /\ fate' \in [Sessions -> Fate]
      /\ fate'[s].recorded = n /\ fate'[s].taken = fate[s].taken
      /\ \A r \in Sessions \ {s} : fate'[r] = fate[r]
  <2> DEFINE x == [fate[s] EXCEPT !.recorded = n]
  <2>1. fate' = [fate EXCEPT ![s] = x]
    BY <1>1, <1>2 DEF Types, Fate
  <2>2. x \in Fate /\ x.recorded = n /\ x.taken = fate[s].taken
    BY <1>4 DEF Fate
  <2> HIDE DEF x
  <2> QED BY <1>1, <2>1, <2>2 DEF Types
<1> DEFINE errors == drain.errors \/ n < fate[s].taken
<1>6. DrainIs("terminals", drain.left \ {s}, errors)
  <2>1. errors \in BOOLEAN
    BY <1>1 DEF Types, Supervisor
  <2>2. drain' = [drain EXCEPT !.left = drain.left \ {s}, !.errors = errors]
    BY <1>2
  <2> HIDE DEF errors
  <2> QED BY <1>1, <1>3, <2>1, <2>2 DEF DrainIs, Types, Supervisor, Stages
<1>7. /\ drain.errors => errors
      /\ ~errors => fate'[s].recorded = fate'[s].taken
  BY <1>4, <1>5
<1> HIDE DEF errors
<1>8. Exact' /\ Locks' /\ Looking' /\ (AllQuiet => AllQuiet')
  BY <1>3, DrainFrame
<1>9. Types' /\ Unknown'
  BY <1>1, <1>3, <1>5, <1>6 DEF Types, Unknown, DrainIs
<1>10. Closing' /\ Emptied'
  BY <1>1, <1>3, <1>6 DEF Closing, Emptied, DrainIs, Late
<1>11. Quieted' /\ Accounted'
  <2>1. report # "Stopped"
    BY <1>1, <1>3 DEF Accounted
  <2>2. \A r \in known \ drain'.left
            : drain'.errors \/ fate'[r].recorded = fate'[r].taken
    BY <1>1, <1>3, <1>5, <1>6, <1>7 DEF Accounted, DrainIs, Types
  <2> QED BY <1>1, <1>3, <1>6, <1>8, <2>1, <2>2 DEF DrainIs, Quieted,
      Accounted, Through
<1> QED BY <1>8, <1>9, <1>10, <1>11 DEF IInv

\* DrainClosesWriters: the session is resolved, or the drain has an error.
LEMMA DrainClosesWritersKeeps ==
  ASSUME IInv, NEW s \in known, DrainClosesWriters(s)
  PROVE IInv'
<1>1. /\ Types /\ Exact /\ Unknown /\ Closing /\ Emptied /\ Quieted /\ Accounted
      /\ s \in Sessions
  BY DEF IInv, Types
<1>2. PICK failed \in BOOLEAN :
        drain' = [drain EXCEPT !.left = drain.left \ {s},
          !.errors = drain.errors \/ failed \/ sess[s].control # "none"]
  BY DEF DrainClosesWriters
<1>3. /\ drain.stage = "writers"
      /\ closed' = [closed EXCEPT !.writers = @ \cup {s}]
      /\ UNCHANGED <<work, cmd, known, sess, refresh, server, report, updater,
                     fate>>
  BY DEF DrainClosesWriters
<1> DEFINE errors == drain.errors \/ failed \/ sess[s].control # "none"
<1>6. DrainIs("writers", drain.left \ {s}, errors)
  <2>1. errors \in BOOLEAN
    BY <1>1 DEF Types, Supervisor
  <2>2. drain' = [drain EXCEPT !.left = drain.left \ {s}, !.errors = errors]
    BY <1>2
  <2> HIDE DEF errors
  <2> QED BY <1>1, <1>3, <2>1, <2>2 DEF DrainIs, Types, Supervisor, Stages
<1>7. (drain.errors => errors) /\ (~errors => sess[s].control = "none")
  OBVIOUS
<1> HIDE DEF errors
<1>8. Exact' /\ Locks' /\ Looking' /\ Unknown' /\ (AllQuiet => AllQuiet')
  BY <1>3, DrainFrame
<1>9. Types'
  BY <1>1, <1>3, <1>6 DEF Types, DrainIs
<1>10. Closing' /\ Emptied'
  BY <1>1, <1>3, <1>6 DEF Closing, Emptied, DrainIs, Late
<1>11. Quieted' /\ Accounted'
  <2>1. report # "Stopped" /\ AllQuiet
    BY <1>1, <1>3 DEF Accounted, Quieted
  <2>2. \A r \in known \ drain'.left
            : drain'.errors \/ sess[r].control = "none"
    BY <1>1, <1>3, <1>6, <1>7 DEF Accounted, DrainIs, Types
  <2>3. \A r \in Sessions : drain'.errors \/ fate[r].recorded = fate[r].taken
    BY <1>1, <1>3, <1>6, <1>7 DEF Accounted, DrainIs
  <2> QED BY <1>3, <1>6, <1>8, <2>1, <2>2, <2>3 DEF DrainIs, Quieted,
      Accounted, Through
<1> QED BY <1>8, <1>9, <1>10, <1>11 DEF IInv

\* DrainClosesStorage: the supervisor goes through to its return.
LEMMA DrainClosesStorageKeeps ==
  ASSUME IInv, DrainClosesStorage
  PROVE IInv'
<1>1. Types /\ Exact /\ Unknown /\ Closing /\ Emptied /\ Quieted /\ Accounted
  BY DEF IInv, Types
<1>2. PICK failed \in BOOLEAN :
        drain' = [drain EXCEPT !.stage = "returned",
            !.errors = drain.errors \/ failed]
  BY DEF DrainClosesStorage
<1>3. /\ drain.stage = "storage"
      /\ closed' = [closed EXCEPT !.storage = TRUE]
      /\ UNCHANGED <<work, cmd, known, sess, refresh, server, report, updater,
                     fate>>
  BY DEF DrainClosesStorage
<1> DEFINE errors == drain.errors \/ failed
<1>6. DrainIs("returned", drain.left, errors)
  <2>1. errors \in BOOLEAN
    BY <1>1 DEF Types, Supervisor
  <2>2. drain' = [drain EXCEPT !.stage = "returned", !.errors = errors]
    BY <1>2
  <2> HIDE DEF errors
  <2> QED BY <1>1, <1>3, <2>1, <2>2 DEF DrainIs, Types, Supervisor, Stages
<1>7. drain.errors => errors
  OBVIOUS
<1> HIDE DEF errors
<1>8. Exact' /\ Locks' /\ Looking' /\ Unknown' /\ (AllQuiet => AllQuiet')
  BY <1>3, DrainFrame
<1>9. Types'
  BY <1>1, <1>3, <1>6 DEF Types, DrainIs
<1>10. Closing' /\ Emptied'
  BY <1>1, <1>3, <1>6 DEF Closing, Emptied, DrainIs, Late
<1>11. Quieted' /\ Accounted'
  BY <1>1, <1>3, <1>6, <1>7, <1>8 DEF DrainIs, Quieted, Accounted, Through
<1> QED BY <1>8, <1>9, <1>10, <1>11 DEF IInv

\* DrainReports: Stopped only without a report before and without errors.
LEMMA DrainReportsKeeps ==
  ASSUME IInv, DrainReports
  PROVE IInv'
<1>1. Types /\ Exact /\ Unknown /\ Closing /\ Emptied /\ Quieted /\ Accounted
  BY DEF IInv, Types
<1>2. /\ drain.stage = "returned"
      /\ drain' = [drain EXCEPT !.stage = "over"]
      /\ \/ report # "none" /\ report' = report
         \/ report = "none" /\ drain.errors /\ report' = "Failed"
         \/ report = "none" /\ ~drain.errors /\ report' = "Stopped"
      /\ UNCHANGED <<work, cmd, known, sess, refresh, server, closed, updater,
                     fate>>
  BY DEF DrainReports, Finish
<1>3. DrainIs("over", drain.left, drain.errors)
  BY <1>1, <1>2 DEF DrainIs, Types, Supervisor, Stages
<1>4. Exact' /\ Locks' /\ Looking' /\ Unknown' /\ (AllQuiet => AllQuiet')
  BY <1>2, DrainFrame
<1>5. Types'
  BY <1>1, <1>2, <1>3 DEF Types, DrainIs
<1>6. Closing' /\ Emptied'
  BY <1>1, <1>2, <1>3 DEF Closing, Emptied, DrainIs, Late
<1>7. Quieted' /\ Accounted'
  BY <1>1, <1>2, <1>3, <1>4 DEF DrainIs, Quieted, Accounted, Through
<1> QED BY <1>4, <1>5, <1>6, <1>7 DEF IInv

-----------------------------------------------------------------------------
(* The theorems.                                                           *)

\* A fresh service holds no guard.
LEMMA InitInv ==
  ASSUME Init
  PROVE IInv
<1>1. Types
  BY DEF Init, Types, Work, Command, Session, Supervisor, Stages, Updater, Fate
<1>2. Exact
  <2>1. /\ Commanding = {} /\ Entering = {} /\ Children = {} /\ Workers = {}
        /\ Monitors = {} /\ Timers = {}
    BY DEF Init, Commanding, Entering, Children, Workers, Monitors, Timers
  <2> QED BY <2>1, FS_EmptySet DEF Init, Exact
<1>3. Unknown /\ Locks /\ Closing /\ Emptied
  BY DEF Init, Unknown, Locks, Closing, Emptied, Late
<1>4. Quieted /\ Accounted /\ Looking
  BY DEF Init, Quieted, Accounted, Through, Looking
<1> QED BY <1>1, <1>2, <1>3, <1>4 DEF IInv

\* A step of a command keeps the invariant.
LEMMA CommandKeeps ==
  ASSUME IInv, NEW c \in Clients, CommandEnters(c) \/ CommandActs(c)
  PROVE IInv'
<1>1. CASE CommandEnters(c)
  BY <1>1, CommandEntersKeeps, KeptSuffices
<1>2. CASE CommandLeaves(c)
  BY <1>2, CommandLeavesKeeps, KeptSuffices
<1>3. CASE CommandStarts(c)
  <2>1. CASE work.closed
    BY <1>3, <2>1, CommandRefusedKeeps, KeptSuffices
  <2>2. CASE ~work.closed
    <3>1. cmd[c].session \in Sessions
      BY <1>3 DEF CommandStarts, IInv, Locks, Types
    <3> QED BY <1>3, <2>2, <3>1, CommandStartsKeeps, KeptSuffices
  <2> QED BY <2>1, <2>2
<1>4. CASE BackgroundStarts(c)
  BY <1>4, BackgroundStartsKeeps, KeptSuffices
<1>5. ASSUME NEW s \in Sessions, CommandCreates(c, s)
      PROVE IInv'
  BY <1>5, CommandCreatesKeeps, KeptSuffices
<1>6. ASSUME NEW s \in Sessions, CommandPrompts(c, s)
      PROVE IInv'
  BY <1>6, CommandQueuesKeeps, CommandPromptsKeeps, KeptSuffices
<1>7. ASSUME NEW s \in Sessions, CommandAborts(c, s)
      PROVE IInv'
  BY <1>7, CommandArmsKeeps, CommandArmsAgainKeeps, KeptSuffices
<1> QED BY <1>1, <1>2, <1>3, <1>4, <1>5, <1>6, <1>7 DEF CommandActs

\* A step of a session's run, child, monitor, worker or timer keeps it.
LEMMA SessionKeeps ==
  ASSUME IInv, NEW s \in Sessions, SessionStep(s) \/ TimerFires(s)
  PROVE IInv'
<1>1. CASE WorkerEnters(s)
  BY <1>1, WorkerRefusedKeeps, WorkerEntersKeeps, KeptSuffices
<1>2. CASE ChildStarts(s)
  BY <1>2, ChildStartsKeeps, KeptSuffices
<1>3. CASE ChildEnds(s)
  BY <1>3, ChildEndsKeeps, KeptSuffices
<1>4. CASE TaskEnds(s)
  BY <1>4, TaskEndsKeeps, KeptSuffices
<1>5. CASE MonitorEnds(s)
  BY <1>5, MonitorEndsKeeps, KeptSuffices
<1>6. CASE WorkerLooks(s)
  BY <1>6, WorkerLooksKeeps, KeptSuffices
<1>7. CASE WorkerSpawns(s)
  BY <1>7, WorkerSpawnsKeeps, KeptSuffices
<1>8. CASE WorkerAborted(s)
  BY <1>8, WorkerAbortedKeeps, KeptSuffices
<1>9. CASE TimerAborted(s)
  BY <1>9, TimerAbortedKeeps, KeptSuffices
<1>10. CASE TimerFires(s)
  BY <1>10, TimerFiresKeeps, KeptSuffices
<1> QED BY <1>1, <1>2, <1>3, <1>4, <1>5, <1>6, <1>7, <1>8, <1>9, <1>10
  DEF SessionStep

\* A step of the supervisor keeps it.
LEMMA DrainKeeps ==
  ASSUME IInv, DrainStep
  PROVE IInv'
<1>1. ASSUME NEW s \in known,
             \/ DrainInterrupts(s) \/ DrainStops(s) \/ DrainLooks(s)
             \/ DrainRecords(s) \/ DrainClosesWriters(s)
      PROVE IInv'
  BY <1>1, DrainInterruptsKeeps, DrainStopsKeeps, DrainLooksKeeps,
     DrainRecordsKeeps,
     DrainClosesWritersKeeps
<1>2. CASE \/ DrainCommandsEnd \/ DrainQueuesTaken \/ DrainCounts
           \/ DrainCountsAgain \/ DrainRecorded \/ DrainMonitorsSettle
  BY <1>2, DrainCommandsEndKeeps, DrainQueuesTakenKeeps, DrainCountsKeeps,
     DrainCountsAgainKeeps, DrainRecordedKeeps, DrainMonitorsSettleKeeps
<1>3. CASE \/ DrainStopsListener \/ DrainAbandonsListener \/ DrainListenerEnded
           \/ DrainClosesStorage \/ DrainGivesUp \/ DrainReports
  BY <1>3, DrainStopsListenerKeeps, DrainAbandonsListenerKeeps,
     DrainListenerEndedKeeps, DrainClosesStorageKeeps, DrainGivesUpKeeps,
     DrainReportsKeeps
<1> QED BY <1>1, <1>2, <1>3 DEF DrainStep

\* A stuttering step keeps the invariant.
LEMMA StutterInv ==
  ASSUME IInv, UNCHANGED vars
  PROVE IInv'
BY DEF IInv, vars, Types, Exact, Commanding, Entering, Children, Workers,
   Monitors,
   Timers, Unknown, Locks, Closing, Emptied, Quieted, AllQuiet, Accounted,
   Through,   Looking

\* Every reachable state satisfies IInv.
THEOREM ShutdownInvariant == Spec => []IInv
<1>1. Init => IInv
  BY InitInv
<1>2. IInv /\ [Next]_vars => IInv'
  <2> SUFFICES ASSUME IInv, [Next]_vars PROVE IInv'
    OBVIOUS
  <2>1. CASE \E c \in Clients : CommandEnters(c) \/ CommandActs(c)
    BY <2>1, CommandKeeps
  <2>2. CASE BackgroundEnds
    BY <2>2, BackgroundEndsKeeps, KeptSuffices
  <2>3. CASE \E s \in Sessions : SessionStep(s) \/ TimerFires(s)
    BY <2>3, SessionKeeps
  <2>4. CASE \/ UpdaterBegins \/ UpdaterCounts
             \/ \E s \in Sessions : UpdaterLooks(s)
    BY <2>4, UpdaterReads
  <2>5. CASE UpdaterCloses \/ Retire
    BY <2>5, UpdaterClosesKeeps, RetireKeeps
  <2>6. CASE RequestShutdown \/ ServerDropped \/ ServerEnds \/ DeadlineExpires
    BY <2>6, ShutdownBegins, ShutdownEnds
  <2>7. CASE DrainStep
    BY <2>7, DrainKeeps
  <2>8. CASE UNCHANGED vars
    BY <2>8, StutterInv
  <2> QED BY <2>1, <2>2, <2>3, <2>4, <2>5, <2>6, <2>7, <2>8 DEF Next
<1> QED BY <1>1, <1>2, PTL DEF Spec

\* Every variable keeps to the values of its Rust type: no count goes below
\* zero, so no guard is dropped twice.
THEOREM ShutdownTypeCorrect == Spec => []TypeOK
<1>1. IInv => TypeOK
  BY DEF IInv, Types, TypeOK, Work, Command, Session, Supervisor
<1> QED BY <1>1, ShutdownInvariant, PTL

\* A service that reports Stopped is quiet, every run is resolved and every
\* queued run the drain took has its terminal.
THEOREM StoppedIsQuietHolds == Spec => []StoppedIsQuiet
<1>1. IInv => StoppedIsQuiet
  <2> SUFFICES ASSUME IInv, report = "Stopped"
               PROVE /\ Counts = <<0, 0>> /\ ~server
                     /\ \A s \in Sessions :
                          /\ Quiet(s) /\ sess[s].control = "none"
                          /\ fate[s].recorded = fate[s].taken
    BY DEF StoppedIsQuiet
  <2>1. AllQuiet
    BY DEF IInv, Quieted
  <2>2. Counts = <<0, 0>>
    BY <2>1 DEF AllQuiet, Counts
  <2>3. \A s \in Sessions : Quiet(s)
    BY <2>1, Zero DEF IInv, AllQuiet, Quiet, Owned
  <2> QED BY <2>2, <2>3 DEF IInv, Accounted
<1> QED BY <1>1, ShutdownInvariant, PTL

\* Writers and storage are closed only under work that has ended, whatever
\* the deadline did meanwhile.
THEOREM StorageOutlivesWorkHolds == Spec => []StorageOutlivesWork
<1>1. IInv => StorageOutlivesWork
  <2> SUFFICES ASSUME IInv, NEW s \in Sessions,
          s \in closed.writers \/ closed.storage
               PROVE Quiet(s)
    BY DEF StorageOutlivesWork
  <2>1. AllQuiet
    BY DEF IInv, Quieted
  <2> QED BY <2>1, Zero DEF IInv, AllQuiet, Quiet, Owned
<1> QED BY <1>1, ShutdownInvariant, PTL

\* close_idle_admission closes admission only over an idle service.
THEOREM IdleCloseIsIdleHolds == Spec => IdleCloseIsIdle
<1>1. IInv /\ UpdaterCloses /\ ~work.closed /\ work'.closed =>
        /\ work.commands = 0 /\ work.background = 0
        /\ \A s \in Sessions : ~Owned(s) /\ ~sess[s].child /\ sess[s].queue = 0
  <2> SUFFICES ASSUME IInv, UpdaterCloses, ~work.closed, work'.closed
               PROVE /\ work.commands = 0 /\ work.background = 0
                     /\ \A s \in Sessions :
                          ~Owned(s) /\ ~sess[s].child /\ sess[s].queue = 0
    OBVIOUS
  <2>1. work' = [work EXCEPT !.closed = @ \/ (~updater.busy /\ updater.clean)]
    BY DEF UpdaterCloses
  <2>2. ~updater.busy /\ updater.clean
    BY <2>1 DEF IInv, Types, Work, Updater
  <2>3. updater.pc = "look" /\ updater.left = {}
    BY DEF UpdaterCloses
  <2>4. /\ work.commands = 0 /\ work.background = 0
        /\ \A s \in known : sess[s].task = "none" /\ sess[s].queue = 0
    BY <2>2, <2>3 DEF IInv, Looking
  <2>5. \A s \in Sessions : ~sess[s].child
    BY <2>4, Zero DEF IInv
  <2> QED BY <2>4, <2>5 DEF IInv, Unknown, Owned
<1> QED BY <1>1, ShutdownInvariant, PTL DEF Spec, IdleCloseIsIdle
=============================================================================
