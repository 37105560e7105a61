-------------------------- MODULE MCServiceShutdown --------------------------
(* Instances of ServiceShutdown for TLC: sessions that commands in flight   *)
(* create, and clients whose commands straddle the end of admission.        *)
EXTENDS ServiceShutdown

CONSTANTS s1, s2, a, b
=============================================================================
