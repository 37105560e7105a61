------------------------- MODULE MCSessionScheduler -------------------------
(* SessionScheduler for TLC: four runs let one run while three wait, fold   *)
(* or supersede each other, across restarts.                                *)
EXTENDS SessionScheduler
=============================================================================
