-------------------------- MODULE BroadcastChannel --------------------------
(***************************************************************************)
(* What the gossip transport promises its listeners: they are only given   *)
(* messages that some node broadcast, whole, unchanged and under the name  *)
(* of the node that broadcast them.  A message may be given to a node      *)
(* several times, late, or not at all.                                     *)
(***************************************************************************)
EXTENDS FiniteSets

CONSTANTS Nodes, Messages

VARIABLES
    sent,        \* messages broadcast, as [source, data]
    delivered    \* messages each node's listeners were given

channelVars == <<sent, delivered>>

Init ==
    /\ sent = {}
    /\ delivered = [n \in Nodes |-> {}]

Broadcast(m) ==
    /\ m \in Messages
    /\ sent' = sent \cup {m}
    /\ UNCHANGED delivered

Deliver(n, m) ==
    /\ m \in sent
    /\ delivered' = [delivered EXCEPT ![n] = @ \cup {m}]
    /\ UNCHANGED sent

Next ==
    \/ \E m \in Messages : Broadcast(m)
    \/ \E n \in Nodes, m \in Messages : Deliver(n, m)

Spec == Init /\ [][Next]_channelVars
=============================================================================
