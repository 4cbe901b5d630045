------------------------------ MODULE MCAgent ------------------------------
(***************************************************************************)
(* Instance of Agent: a channel with two events, the second one written    *)
(* later, queues of one entry and two retry intervals.                     *)
(***************************************************************************)
EXTENDS Agent

TwoEvents == <<[id |-> 1, time |-> 1], [id |-> 2, time |-> 1]>>
=============================================================================
