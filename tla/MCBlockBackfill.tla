-------------------------- MODULE MCBlockBackfill --------------------------
(* The listener and the block backfill loop, on small instances for TLC.    *)
EXTENDS BlockBackfill

UpTo3 == 0..3
=============================================================================
