--------------------------- MODULE MCApprovalGate ---------------------------
(* Instances of ApprovalGate for TLC: a session with two runs, so that a    *)
(* stop of the first can meet the second, and two clients racing.           *)
EXTENDS ApprovalGate

CONSTANTS s1, a, b
=============================================================================
