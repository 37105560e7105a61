----------------------------- MODULE MCRunQueue -----------------------------
(* RunQueue for TLC: two sessions that compete for the shared budget, with  *)
(* every policy.  Requests may be exchanged, and sessions.                  *)
EXTENDS RunQueue

CONSTANTS s1, s2, c1, c2

SessionSymmetry == Permutations(Sessions) \cup Permutations(Requests)
=============================================================================
