------------------------------ MODULE ChainApp ------------------------------
(***************************************************************************)
(* The chain application (wineventchain): the multiplexer and the          *)
(* identity, events and retention policy applications behind it, run by    *)
(* every chain node over the blocks consensus decides on.                  *)
(*                                                                         *)
(* CometBFT calls the application through a local client that holds one    *)
(* mutex per call, so FinalizeBlock is not interleaved with CheckTx, and   *)
(* it locks the mempool around Commit.  FinalizeBlock takes one step per   *)
(* transaction and Commit one per commit function, because the process can *)
(* stop between them.  After a restart CometBFT replays the blocks above   *)
(* the height the application saved.                                       *)
(*                                                                         *)
(* A transaction is a record with the fields its type uses: type, by (the  *)
(* principal it claims to be from) and key (the key it is signed with) for *)
(* all but "seed", principal and data for "seed" and "register", event for *)
(* "create", policy for "setPolicy", and app for "malformed", one that the *)
(* application cannot decode; the multiplexer cannot decode "undecodable", *)
(* or does not know its application.  Validator updates are left out.      *)
(***************************************************************************)
EXTENDS Integers, SequencesExt

CONSTANTS
    Nodes,        \* chain nodes
    Workloads,    \* workloads; each has txs, the transactions clients may submit,
                  \*   checked, whether proposers take only those that passed CheckTx,
                  \*   and maxHeight, a bound on the height of the chain
    MaxBlockTxs,  \* bound: transactions per block
    MaxCrashes    \* bound: crashes of all nodes

ASSUME ChainAppAssumption ==
    /\ \A w \in Workloads : w.checked \in BOOLEAN /\ w.maxHeight \in Nat
    /\ {MaxBlockTxs, MaxCrashes} \subseteq Nat

VARIABLES
    workload,     \* the workload, which stays the same
    pool,         \* transactions, of those that have to, that passed CheckTx on some node
    chain,        \* decided blocks: transactions, and the result of the block before
    identities,   \* tree of the identity application, per node (persistent)
    events,       \* tree of the events application (persistent)
    policy,       \* the stored retention policy, or NoPolicy (persistent)
    saved,        \* the multiplexer's saved state (persistent)
    result,       \* result of the saved height, kept by CometBFT (persistent)
    state,        \* the multiplexer's state in memory
    txState,      \* the applications' state during a block
    commitFuncs,  \* commit functions of the block yet to run
    phase,        \* "idle", "executing", "finalized" or "committing"
    codes,        \* codes of the transactions of the block executed so far
    torn,         \* history: last height at which a node stopped inside Commit
    crashes

poolVars == <<workload, pool, chain>>
diskVars == <<identities, events, policy, saved, result>>
memoryVars == <<state, txState, commitFuncs, phase, codes>>
vars == <<poolVars, diskVars, memoryVars, torn, crashes>>

NoPolicy == [policy |-> "none"]
Nil == <<>>  \* the AppHash of an error response

\* An iavl tree: its leaves, each with the version that wrote it, and the number
\* of versions saved.  Save writes a version in which the keys of "puts" are set.
EmptyTree == [leaves |-> [x \in {} |-> x], version |-> 0]
Save(tree, puts) ==
    LET next == tree.version + 1
    IN  [leaves |-> [k \in DOMAIN puts |-> [value |-> puts[k], version |-> next]] @@ tree.leaves,
         version |-> next]
Has(tree, key) == key \in DOMAIN tree.leaves
Get(tree, key) == tree.leaves[key].value

\* Hash is a one-way function of the last saved tree, versions included; the tree
\* stands for it.
Hash(tree) == <<tree>>

\* hashstructure.Hash of the policy.
PolicyHash(p) == <<p>>

\* The names of the applications in the order GenerateAppHash sorts them in.
Apps == <<"events", "identity", "retention_policy">>

\* The hashes are concatenated, so an application whose hash is nil leaves no trace.
GenerateAppHash(hashes) == FlattenSeq([i \in DOMAIN Apps |-> hashes[Apps[i]]])

AppHashNow(n, app) ==
    CASE app = "identity" -> Hash(identities[n])
      [] app = "events" -> Hash(events[n])
      [] app = "retention_policy" -> PolicyHash(policy[n])

InitChain(n) == [height |-> 0, hashes |-> [app \in Range(Apps) |-> AppHashNow(n, app)]]

defaultTxState == [seeded |-> FALSE, registering |-> {}, creating |-> {}, policy |-> NoPolicy]

EmptyHashes == [app \in Range(Apps) |->
                  IF app = "retention_policy" THEN PolicyHash(NoPolicy) ELSE Hash(EmptyTree)]

GenesisResult == [hash |-> GenerateAppHash(EmptyHashes), codes |-> <<>>]

Init ==
    /\ workload \in Workloads
    /\ pool = {}
    /\ chain = <<>>
    /\ identities = [n \in Nodes |-> EmptyTree]
    /\ events = [n \in Nodes |-> EmptyTree]
    /\ policy = [n \in Nodes |-> NoPolicy]
    /\ saved = [n \in Nodes |-> [height |-> 0, hashes |-> EmptyHashes]]
    /\ result = [n \in Nodes |-> GenesisResult]
    /\ state = saved
    /\ txState = [n \in Nodes |-> defaultTxState]
    /\ commitFuncs = [n \in Nodes |-> <<>>]
    /\ phase = [n \in Nodes |-> "idle"]
    /\ codes = [n \in Nodes |-> <<>>]
    /\ torn = [n \in Nodes |-> 0]
    /\ crashes = 0

-----------------------------------------------------------------------------
(* The identity application                                                *)

\* Keys of the identity tree.
PrincipalKey(p) == <<"principal", p>>
SeededKey == <<"meta", "seeded">>

\* extractIdentityData: the sender is registered and the signature is by its key.
\* It reads the committed tree, so a principal registered in a block cannot send a
\* transaction in that block.
Signed(n, tx) ==
    /\ Has(identities[n], PrincipalKey(tx.by))
    /\ Get(identities[n], PrincipalKey(tx.by)).key = tx.key

SignedByAdmin(n, tx) == Signed(n, tx) /\ Get(identities[n], PrincipalKey(tx.by)).role = "admin"

\* Mutant: only the block in progress is looked at.
SeededInBlock(n) == txState[n].seeded

IsSeeded(n) == Has(identities[n], SeededKey) \/ txState[n].seeded

Exists(n, p) == Has(identities[n], PrincipalKey(p)) \/ p \in txState[n].registering

\* The code of a transaction: "taken" when what it asks for has been done, by an
\* earlier block or earlier in this one, "refused" for every other error.
Verdict(allowed, taken) == IF ~allowed THEN "refused" ELSE IF taken THEN "taken" ELSE "ok"

IdentityFinalizeBlock(n, tx) ==
    CASE tx.type = "seed" -> Verdict(TRUE, IsSeeded(n))
      [] tx.type = "register" -> Verdict(SignedByAdmin(n, tx), Exists(n, tx.principal))
      [] OTHER -> "refused"

IdentityCheckTx(n, tx) ==
    \/ tx.type = "seed" /\ ~IsSeeded(n)
    \/ tx.type = "register" /\ SignedByAdmin(n, tx) /\ ~Exists(n, tx.principal)

IdentityAccept(ts, tx) ==
    [ts EXCEPT !.seeded = @ \/ tx.type = "seed", !.registering = @ \cup {tx.principal}]

\* What its commit function saves.
IdentityCommit(tree, tx) ==
    Save(tree, IF tx.type = "seed"
               THEN PrincipalKey(tx.principal) :> tx.data @@ SeededKey :> TRUE
               ELSE PrincipalKey(tx.principal) :> tx.data)

-----------------------------------------------------------------------------
(* The events application                                                  *)

\* NewEventHash, which has no collisions; a second event of the same principal
\* with the same content gets another id in another block only.
EventId(h, tx) == <<"event", h, tx.by, tx.event>>

\* Events are looked up in the block in progress only.
EventsFinalizeBlock(n, tx, h) ==
    IF tx.type = "create" THEN Verdict(Signed(n, tx), EventId(h, tx) \in txState[n].creating)
    ELSE "refused"

\* Mutant: the sender is not looked at.
CheckCreateOnly(n, tx) == tx.type = "create"

EventsCheckTx(n, tx) == tx.type = "create" /\ Signed(n, tx)

EventsAccept(ts, tx, h) == [ts EXCEPT !.creating = @ \cup {EventId(h, tx)}]

EventsCommit(tree, tx, h) == Save(tree, EventId(h, tx) :> h)

-----------------------------------------------------------------------------
(* The retention policy application                                        *)

\* The policy as it is stored, with its author and the time of the block.
StoredPolicy(tx, h) == [policy |-> tx.policy, author |-> tx.by, appliedAt |-> h]

\* Mutant: only the block in progress is looked at.
PolicySetInBlock(n) == txState[n].policy # NoPolicy

PolicySet(n) == policy[n] # NoPolicy \/ txState[n].policy # NoPolicy

PolicyFinalizeBlock(n, tx) ==
    IF tx.type = "setPolicy" THEN Verdict(SignedByAdmin(n, tx), PolicySet(n)) ELSE "refused"

PolicyCheckTx(n, tx) == tx.type = "setPolicy" /\ SignedByAdmin(n, tx) /\ ~PolicySet(n)

PolicyAccept(ts, tx, h) == [ts EXCEPT !.policy = StoredPolicy(tx, h)]

-----------------------------------------------------------------------------
(* The multiplexer, and CometBFT calling it                                *)

AppOf(tx) ==
    CASE tx.type \in {"seed", "register"} -> "identity"
      [] tx.type = "create" -> "events"
      [] tx.type = "setPolicy" -> "retention_policy"
      [] tx.type = "malformed" -> tx.app
      [] tx.type = "undecodable" -> "none"

\* CheckTx looks at what is committed and at the block in progress.
CheckTx(n, tx) ==
    /\ phase[n] \in {"idle", "finalized"}
    /\ tx \notin pool
    /\ \/ AppOf(tx) = "identity" /\ IdentityCheckTx(n, tx)
       \/ AppOf(tx) = "events" /\ EventsCheckTx(n, tx)
       \/ AppOf(tx) = "retention_policy" /\ PolicyCheckTx(n, tx)
    /\ pool' = pool \cup {tx}
    /\ UNCHANGED <<workload, chain, diskVars, memoryVars, torn, crashes>>

\* Consensus decides on the block proposed by node n, which is level with the
\* chain; the header holds the result of the block before.  The validators that
\* stopped inside Commit are too few to have their result decided on.
Decide(n, txs) ==
    /\ Len(chain) < workload.maxHeight
    /\ saved[n].height = Len(chain) /\ torn[n] = 0
    /\ chain' = Append(chain, [txs |-> txs, last |-> result[n]])
    /\ UNCHANGED <<workload, pool, diskVars, memoryVars, torn, crashes>>

Current(n) == saved[n].height + 1

\* FinalizeBlock is called for a block whose header agrees with the node's result.
BeginFinalizeBlock(n) ==
    /\ phase[n] = "idle"
    /\ Current(n) \in DOMAIN chain
    /\ chain[Current(n)].last = result[n]
    /\ commitFuncs' = [commitFuncs EXCEPT ![n] = <<>>]
    /\ codes' = [codes EXCEPT ![n] = <<>>]
    /\ phase' = [phase EXCEPT ![n] = "executing"]
    /\ UNCHANGED <<poolVars, diskVars, state, txState, torn, crashes>>

Code(n, tx, h) ==
    CASE AppOf(tx) = "identity" -> IdentityFinalizeBlock(n, tx)
      [] AppOf(tx) = "events" -> EventsFinalizeBlock(n, tx, h)
      [] AppOf(tx) = "retention_policy" -> PolicyFinalizeBlock(n, tx)
      [] AppOf(tx) = "none" -> "refused"

\* The applications' state after an accepted transaction of block h.
Accept(ts, tx, h) ==
    CASE AppOf(tx) = "identity" -> IdentityAccept(ts, tx)
      [] AppOf(tx) = "events" -> EventsAccept(ts, tx, h)
      [] AppOf(tx) = "retention_policy" -> PolicyAccept(ts, tx, h)

\* One transaction of the block.  An accepted one puts the hash of its application
\* before the block's changes into the state, an error response a nil hash.  One
\* the multiplexer cannot pass on leaves the hashes as they are.
FinalizeTx(n) ==
    LET txs == chain[Current(n)].txs
        tx == txs[Len(codes[n]) + 1]
        code == Code(n, tx, Current(n))
    IN  /\ phase[n] = "executing" /\ Len(codes[n]) < Len(txs)
        /\ codes' = [codes EXCEPT ![n] = Append(@, code)]
        /\ state' = IF AppOf(tx) = "none" THEN state
                    ELSE [state EXCEPT ![n].hashes[AppOf(tx)] =
                            IF code = "ok" THEN AppHashNow(n, AppOf(tx)) ELSE Nil]
        /\ IF code = "ok"
           THEN /\ txState' = [txState EXCEPT ![n] = Accept(@, tx, Current(n))]
                /\ commitFuncs' = [commitFuncs EXCEPT ![n] = Append(@, tx)]
           ELSE UNCHANGED <<txState, commitFuncs>>
        /\ UNCHANGED <<poolVars, diskVars, phase, torn, crashes>>

EndFinalizeBlock(n) ==
    /\ phase[n] = "executing" /\ Len(codes[n]) = Len(chain[Current(n)].txs)
    /\ state' = [state EXCEPT ![n].height = Current(n)]
    /\ phase' = [phase EXCEPT ![n] = "finalized"]
    /\ UNCHANGED <<poolVars, diskVars, txState, commitFuncs, codes, torn, crashes>>

\* The commit function of an accepted transaction of block h.
Store(n, tx, h) ==
    /\ identities' = IF AppOf(tx) = "identity"
                     THEN [identities EXCEPT ![n] = IdentityCommit(@, tx)] ELSE identities
    /\ events' = IF AppOf(tx) = "events"
                 THEN [events EXCEPT ![n] = EventsCommit(@, tx, h)] ELSE events
    /\ policy' = IF AppOf(tx) = "retention_policy"
                 THEN [policy EXCEPT ![n] = StoredPolicy(tx, h)] ELSE policy

\* Mutant: the events and retention policy applications keep their state.
ResetIdentity(ts, tx) ==
    IF AppOf(tx) = "identity" THEN [ts EXCEPT !.seeded = FALSE, !.registering = {}] ELSE ts

\* It also sets the state of its application back.
Reset(ts, tx) ==
    CASE AppOf(tx) = "identity" -> [ts EXCEPT !.seeded = FALSE, !.registering = {}]
      [] AppOf(tx) = "events" -> [ts EXCEPT !.creating = {}]
      [] AppOf(tx) = "retention_policy" -> [ts EXCEPT !.policy = NoPolicy]

\* Commit runs the commit functions one after the other.  Each saves a tree, or
\* the policy, for good; one that fails stops the node, which Crash covers.
CommitFunc(n) ==
    /\ phase[n] \in {"finalized", "committing"} /\ commitFuncs[n] # <<>>
    /\ LET tx == Head(commitFuncs[n])
       IN  /\ Store(n, tx, state[n].height)
           /\ txState' = [txState EXCEPT ![n] = Reset(@, tx)]
    /\ commitFuncs' = [commitFuncs EXCEPT ![n] = Tail(@)]
    /\ phase' = [phase EXCEPT ![n] = "committing"]
    /\ UNCHANGED <<poolVars, saved, result, state, codes, torn, crashes>>

\* The end of Commit.
SaveState(n) ==
    /\ phase[n] \in {"finalized", "committing"} /\ commitFuncs[n] = <<>>
    /\ saved' = [saved EXCEPT ![n] = state[n]]
    /\ result' = [result EXCEPT ![n] = [hash |-> GenerateAppHash(state[n].hashes),
                                        codes |-> codes[n]]]
    /\ phase' = [phase EXCEPT ![n] = "idle"]
    /\ codes' = [codes EXCEPT ![n] = <<>>]
    /\ UNCHANGED <<poolVars, identities, events, policy, state, txState, commitFuncs, torn, crashes>>

\* Mutant: the hashes are computed from the trees instead of loaded.
Rehash(n) == [height |-> saved[n].height, hashes |-> InitChain(n).hashes]

\* NewApplication loads the saved state.  At height 0 CometBFT calls InitChain again.
Reload(n) == IF saved[n].height = 0 THEN InitChain(n) ELSE saved[n]

\* The process stops and starts again: the constructors of the applications load
\* what was saved.  CometBFT takes the hash of the genesis block from InitChain.
Crash(n) ==
    /\ crashes < MaxCrashes
    /\ crashes' = crashes + 1
    /\ torn' = [torn EXCEPT ![n] = IF phase[n] = "committing" THEN Current(n) ELSE @]
    /\ state' = [state EXCEPT ![n] = Reload(n)]
    /\ result' = IF saved[n].height = 0
                 THEN [result EXCEPT ![n].hash = GenerateAppHash(Reload(n).hashes)]
                 ELSE result
    /\ txState' = [txState EXCEPT ![n] = defaultTxState]
    /\ commitFuncs' = [commitFuncs EXCEPT ![n] = <<>>]
    /\ phase' = [phase EXCEPT ![n] = "idle"]
    /\ codes' = [codes EXCEPT ![n] = <<>>]
    /\ UNCHANGED <<poolVars, identities, events, policy, saved>>

Blocks ==
    UNION {[1..k -> IF workload.checked THEN pool ELSE workload.txs] : k \in 0..MaxBlockTxs}

Next == \E n \in Nodes :
    \/ workload.checked /\ \E tx \in workload.txs : CheckTx(n, tx)
    \/ \E txs \in Blocks : Decide(n, txs)
    \/ BeginFinalizeBlock(n) \/ FinalizeTx(n) \/ EndFinalizeBlock(n)
    \/ CommitFunc(n) \/ SaveState(n)
    \/ Crash(n)

Spec == Init /\ [][Next]_vars

-----------------------------------------------------------------------------
(* Properties                                                              *)

Codes == {"ok", "taken", "refused"}

\* Every variable has its type; between blocks nothing of a block is left in the
\* applications' state.
TypeOK ==
    /\ workload \in Workloads
    /\ pool \subseteq workload.txs
    /\ Len(chain) <= workload.maxHeight
    /\ \A h \in DOMAIN chain : Range(chain[h].txs) \subseteq workload.txs
    /\ \A n \in Nodes :
          /\ saved[n].height \in 0..Len(chain)
          /\ state[n].height \in {saved[n].height, Current(n)}
          /\ phase[n] \in {"idle", "executing", "finalized", "committing"}
          /\ phase[n] = "idle" =>
                txState[n] = defaultTxState /\ codes[n] = <<>> /\ commitFuncs[n] = <<>>
          /\ Range(codes[n]) \subseteq Codes
          /\ Range(commitFuncs[n]) \subseteq workload.txs
          /\ torn[n] \in 0..Len(chain)
    /\ crashes \in 0..MaxCrashes

\* The data a node holds: identities, events and the policy.
Contents(n) ==
    {<<"identity", k, Get(identities[n], k)>> : k \in DOMAIN identities[n].leaves}
    \cup {<<"event", k, Get(events[n], k)>> : k \in DOMAIN events[n].leaves}
    \cup {<<"policy", p>> : p \in {policy[n]} \ {NoPolicy}}

\* The data that an accepted transaction of block h stands for.
Effect(tx, h) ==
    CASE tx.type = "seed" -> {<<"identity", PrincipalKey(tx.principal), tx.data>>,
                              <<"identity", SeededKey, TRUE>>}
      [] tx.type = "register" -> {<<"identity", PrincipalKey(tx.principal), tx.data>>}
      [] tx.type = "create" -> {<<"event", EventId(h, tx), h>>}
      [] tx.type = "setPolicy" -> {<<"policy", StoredPolicy(tx, h)>>}

\* What clients are told of block h: the codes in the header of the block after.
Told(h) == chain[h + 1].last.codes

Accepted(h) == UNION {Effect(chain[h].txs[i], h) :
                        i \in {j \in DOMAIN chain[h].txs : Told(h)[j] = "ok"}}

Ledger(h) == UNION {Accepted(g) : g \in 1..h}

\* Chain nodes compute the same results: two nodes that never stopped inside Commit
\* have the same result, and hold the same data, at the same height, whatever
\* transactions the blocks hold and wherever else the nodes crashed.  So neither
\* refuses a header made from the other's result.
ReplicasAgree ==
    \A n, m \in Nodes :
       torn[n] = 0 /\ torn[m] = 0 /\ saved[n].height = saved[m].height =>
          /\ result[n] = result[m]
          /\ phase[n] # "committing" /\ phase[m] # "committing" => Contents(n) = Contents(m)

\* The codes clients are told are an exact account of what every node stores: a
\* node holds all the data accepted up to its saved height and nothing else than
\* part of the next block's; between blocks it holds exactly the former, even
\* after it stopped inside Commit and replayed the block.  The blocks hold
\* transactions that passed CheckTx.
LedgerExact ==
    workload.checked => \A n \in Nodes :
       LET h == saved[n].height
       IN  /\ h + 1 \in DOMAIN chain => Ledger(h) \subseteq Contents(n)
           /\ h + 2 \in DOMAIN chain => Contents(n) \subseteq Ledger(h + 1)
           /\ h + 1 \in DOMAIN chain /\ phase[n] # "committing" /\ torn[n] <= h =>
                 Contents(n) \subseteq Ledger(h)

\* Nothing that is stored is changed or removed, by any block, crash or replay: a
\* principal keeps its key and role, an event its data, and the retention policy
\* is deployed once.
StoredForGood == [][\A n \in Nodes : Contents(n) \subseteq Contents(n)']_vars

\* A transaction that passed CheckTx on one node is never refused for its sender
\* by FinalizeBlock on any node: it is accepted, or something else took its place.
CheckedStaysAuthorised ==
    workload.checked => \A n \in Nodes : "refused" \notin Range(codes[n])
=============================================================================
