------------------------------ MODULE MCGossip ------------------------------
(***************************************************************************)
(* Instance of Gossip: three nodes and a message that fits into one packet, *)
(* into one packet once compressed, into two packets, or into too many      *)
(* frames, depending on the room memberlist leaves in each packet.         *)
(***************************************************************************)
EXTENDS Gossip

Sources == [m \in Messages |-> "a"]
Sizes == [m \in Messages |-> 4]
PackedSizes == [m \in Messages |-> 3]
=============================================================================
