-------------------------- MODULE MCScheduledTasks --------------------------
(* ScheduledTasks for TLC: a task over two slots, with a command, a failing *)
(* write and a restart of the host; and two tasks without any of these, for *)
(* the claim that due tasks move.                                           *)
EXTENDS ScheduledTasks

=============================================================================
