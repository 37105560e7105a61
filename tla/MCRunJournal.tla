---------------------------- MODULE MCRunJournal ----------------------------
(* RunJournal for TLC, in either storage format: two runs, so that a stop   *)
(* of one can land while the next is live, and a stop of each.              *)
EXTENDS RunJournal
=============================================================================
