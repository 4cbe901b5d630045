-------------------------- MODULE MCEventBackfill --------------------------
(* The event backfill loop and its neighbours, on small instances for TLC.  *)
EXTENDS EventBackfill

UpTo3 == 0..3
=============================================================================
