---------------------------- MODULE MCTransport ----------------------------
(***************************************************************************)
(* Instance of Transport: two peers, one broadcast and one unicast of      *)
(* either kind, with and without gossip.                                   *)
(***************************************************************************)
EXTENDS Transport
=============================================================================
