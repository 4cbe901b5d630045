----------------------------- MODULE MCChainApp -----------------------------
(* Instances of ChainApp for TLC. *)
EXTENDS ChainApp

CONSTANTS n1, n2

Identity(key, role) == [key |-> key, role |-> role]
Seed(p, key) == [type |-> "seed", principal |-> p, data |-> Identity(key, "admin")]
Register(by, key, p, k, role) ==
    [type |-> "register", by |-> by, key |-> key, principal |-> p, data |-> Identity(k, role)]
Create(by, key, e) == [type |-> "create", by |-> by, key |-> key, event |-> e]
SetPolicy(by, key, p) == [type |-> "setPolicy", by |-> by, key |-> key, policy |-> p]

\* Two admins, the second registered by the first, set rival policies, and the
\* second sends an event.
HonestTxs ==
    {Seed("admin", "k1"), Register("admin", "k1", "agent", "k2", "admin"),
     Create("agent", "k2", "e1"), SetPolicy("admin", "k1", "p1"), SetPolicy("agent", "k2", "p2")}

\* Rivals for the seed, each with a transaction only it makes valid.
AnyTxs ==
    {Seed("admin", "k1"), Seed("admin", "k2"), Register("admin", "k1", "agent", "k3", "user"),
     Create("admin", "k1", "e1"), SetPolicy("admin", "k2", "p1"),
     [type |-> "malformed", app |-> "identity"], [type |-> "undecodable"]}

Mix ==
    {[txs |-> HonestTxs, checked |-> TRUE, maxHeight |-> 3],
     [txs |-> AnyTxs, checked |-> FALSE, maxHeight |-> 2]}

Symmetry == Permutations(Nodes)
=============================================================================
