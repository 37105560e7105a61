---------------------------- MODULE RunLifecycle ----------------------------
(***************************************************************************)
(* What a session's runtime promises its scheduler (the public face of     *)
(* agent/src/runtime/session_runtime.rs): one run at a time; a run that    *)
(* ends, or whose fault is settled, is announced exactly once; a faulted   *)
(* run keeps the session until a command settles it or a new run replaces  *)
(* it.  SessionRuntime implements this; SessionScheduler is built on it.   *)
(***************************************************************************)
EXTENDS Integers, Sequences

VARIABLES
  last,     \* the last lease handed out
  run,      \* the lease that owns the session, 0 when none
  phase,    \* "idle", "starting", "running" or "faulted"
  pending,  \* released leases whose completion is not sent yet
  sent      \* completions sent to the scheduler

vars == <<last, run, phase, pending, sent>>

Init ==
  /\ last = 0
  /\ run = 0
  /\ phase = "idle"
  /\ pending = {}
  /\ sent = << >>

\* A new lease; it may replace a faulted run that has no task any more.
Begin ==
  /\ phase \in {"idle", "faulted"}
  /\ last' = last + 1
  /\ run' = last + 1
  /\ phase' = "starting"
  /\ UNCHANGED <<pending, sent>>

\* The start is given up before a task exists: nothing is announced.
GiveUp ==
  /\ phase = "starting"
  /\ run' = 0
  /\ phase' = "idle"
  /\ UNCHANGED <<last, pending, sent>>

\* The run's task owns the session.
Run ==
  /\ phase = "starting"
  /\ phase' = "running"
  /\ UNCHANGED <<last, run, pending, sent>>

\* The run is over, in the ordinary way or by settling its fault.
Release ==
  /\ phase \in {"running", "faulted"}
  /\ run' = 0
  /\ phase' = "idle"
  /\ pending' = pending \cup {run}
  /\ UNCHANGED <<last, sent>>

\* The task is gone without an outcome the session can vouch for.
Fault ==
  /\ phase = "running"
  /\ phase' = "faulted"
  /\ UNCHANGED <<last, run, pending, sent>>

Announce ==
  /\ \E e \in pending : pending' = pending \ {e} /\ sent' = Append(sent, e)
  /\ UNCHANGED <<last, run, phase>>

Next == Begin \/ GiveUp \/ Run \/ Release \/ Fault \/ Announce

Spec == Init /\ [][Next]_vars
=============================================================================
