-------------------------- MODULE MCSessionRuntime --------------------------
(* SessionRuntime for TLC.  Two leases let a timer of the first outlive it  *)
(* and meet the second; a second request makes the idempotency window of    *)
(* one overflow.                                                            *)
EXTENDS SessionRuntime

CONSTANTS r1, r2
=============================================================================
