--------------------------- MODULE MCEventJournal ---------------------------
(* EventJournal for TLC: one producer that waits for its receipts beside the  *)
(* run's own deferred events, with recoveries and a shutdown.                 *)
EXTENDS EventJournal

=============================================================================
