------------------------------- MODULE MCPool -------------------------------
(* The connection pool, on a small instance for TLC.                        *)
EXTENDS Pool
=============================================================================
