----------------------------- MODULE Repository -----------------------------
(* The MongoDB repository of an off-chain node and what works on it in the  *)
(* background: the retention agent, which fetches the retention policy from *)
(* the chain nodes once and then drops the events outside it, and the       *)
(* minute job that drops expired sign-in challenges, while submissions      *)
(* store events and clients answer challenges.  Both jobs look up the       *)
(* identifiers to delete and delete them in a second call.                  *)
(*                                                                          *)
(* A filter's match is the set of events its channel, event id and provider *)
(* match.  A filter has type, group, match, period and volume.              *)
EXTENDS Integers, Sequences, FiniteSetsExt

CONSTANTS
    Events,        \* events on the chain
    ReceivedTime,  \* ReceivedTime[e]: when the chain received e
    PrincipalOf,   \* PrincipalOf[e]: who sent e
    Policies,      \* retention policies an admin may deploy: sequences of filters
    ChainNodes,    \* chain nodes in the client's pool
    MinimumNodes,  \* nodes that have to answer
    Challenges,    \* challenges, each issued once
    Responders,    \* challenge responses, each sent once
    Lifetime,      \* ChallengeLifetime
    MaxTime,       \* bound on the clock
    MaxFaults      \* bound on failed deletes, restarts and repeated submissions

ASSUME RepositoryAssumption ==
    /\ MinimumNodes \in Nat /\ Lifetime \in Nat /\ MaxTime \in Nat /\ MaxFaults \in Nat
    /\ ReceivedTime \in [Events -> 0..MaxTime]

VARIABLES
    now,           \* the clock
    deployed,      \* the policy on the chain, none or a sequence with one element
    knows,         \* chain nodes that have executed the block that deployed it
    policy,        \* Agent.policy, none or a sequence with one element
    collection,    \* events in the repository
    seen,          \* events stored before
    scan,          \* the agent's scan: waiting, or about to delete these events
    challenges,    \* challenges in the repository
    timestamp,     \* timestamp[c]: when c was issued
    responder,     \* responder[r]: a challenge response being handled, with its challenge
    tokens,        \* tokens[c]: tokens issued for c
    drop,          \* the minute job: waiting, or about to delete these challenges
    faults

retentionVars == <<deployed, knows, policy, collection, seen, scan>>
signInVars == <<challenges, timestamp, responder, tokens, drop>>
vars == <<now, retentionVars, signInVars, faults>>

Waiting == [at |-> "wait", ids |-> {}]
Deleting(ids) == [at |-> "delete", ids |-> ids]

Init ==
    /\ now = 0
    /\ deployed = <<>> /\ knows = {} /\ policy = <<>>
    /\ collection = {} /\ seen = {}
    /\ scan = Waiting
    /\ challenges = {}
    /\ timestamp = [c \in Challenges |-> -1]
    /\ responder = [r \in Responders |-> [at |-> "idle"]]
    /\ tokens = [c \in Challenges |-> 0]
    /\ drop = Waiting
    /\ faults = 0

Fault == faults < MaxFaults /\ faults' = faults + 1
-----------------------------------------------------------------------------
(* Retention policies                                                       *)

\* RetentionPolicy.Validate
Validate(p) ==
    /\ p # <<>>
    /\ Cardinality({i \in DOMAIN p : p[i].type = "count"}) <= 1
    /\ \A i \in DOMAIN p :
          \/ /\ p[i].type = "count"
             /\ p[i].volume > 0 /\ p[i].period = 0 /\ p[i].group \in {"global", "principal"}
          \/ /\ p[i].type = "timestamp"
             /\ p[i].period > 0 /\ p[i].group \in {"", "global"} /\ p[i].volume = 0

\* Mutant: one filter that lets an event through is enough.
MatchedAny(p, t) ==
    {e \in collection : \E i \in DOMAIN p : p[i].type = "timestamp" =>
        \/ e \notin p[i].match
        \/ ReceivedTime[e] < t - p[i].period}

\* Each timestamp filter lets an event through to be dropped if it does not
\* match it or is older than its period at time t; all filters have to.
Matched(p, t) ==
    {e \in collection : \A i \in DOMAIN p : p[i].type = "timestamp" =>
        \/ e \notin p[i].match
        \/ ReceivedTime[e] < t - p[i].period}

\* The count filter keeps the first "volume" of each group, sorted newest first;
\* events received at the same time come in any order.
Groups(events, f) ==
    IF f.group = "principal"
    THEN {{e \in events : PrincipalOf[e] = PrincipalOf[d]} : d \in events}
    ELSE {events}

\* Mutant: one more is kept.
NewestOneMore(events, n) ==
    {kept \in SUBSET events :
        /\ Cardinality(kept) = Min({n + 1, Cardinality(events)})
        /\ \A k \in kept, d \in events \ kept : ReceivedTime[k] >= ReceivedTime[d]}

Newest(events, n) ==
    {kept \in SUBSET events :
        /\ Cardinality(kept) = Min({n, Cardinality(events)})
        /\ \A k \in kept, d \in events \ kept : ReceivedTime[k] >= ReceivedTime[d]}

\* What the count filter, of which there is at most one, keeps of the events.
Buffers(p, events) ==
    LET counts == {p[i] : i \in {j \in DOMAIN p : p[j].type = "count"}}
    IN  IF counts = {} THEN {{}}
        ELSE {kept \in SUBSET events : \A f \in counts : \A g \in Groups(events, f) :
                 kept \cap g \in Newest(g, f.volume)}

\* The sets of events the aggregation of a policy can return at time t.
Aggregates(p, t) == {Matched(p, t) \ kept : kept \in Buffers(p, Matched(p, t))}
-----------------------------------------------------------------------------
(* The retention agent                                                      *)

Tick ==
    /\ now < MaxTime
    /\ now' = now + 1
    /\ UNCHANGED <<retentionVars, signInVars, faults>>

\* An admin deploys a policy, once; the chain refuses one that is not valid.
Deploy(p) ==
    /\ deployed = <<>> /\ Validate(p)
    /\ deployed' = <<p>>
    /\ UNCHANGED <<now, knows, policy, collection, seen, scan, signInVars, faults>>

\* A chain node executes the block with the policy.
NodeLearns(n) ==
    /\ deployed # <<>> /\ n \notin knows
    /\ knows' = knows \cup {n}
    /\ UNCHANGED <<now, deployed, policy, collection, seen, scan, signInVars, faults>>

\* StoreEvent stores an event of the chain; the repository takes an event it
\* does not have, so also one it has dropped.
StoreEvent(e) ==
    /\ ReceivedTime[e] <= now /\ e \notin collection
    /\ e \in seen => faults < MaxFaults
    /\ faults' = IF e \in seen THEN faults + 1 ELSE faults
    /\ collection' = collection \cup {e}
    /\ seen' = seen \cup {e}
    /\ UNCHANGED <<now, deployed, knows, policy, scan, signInVars>>

\* GetRetentionPolicy asks the nodes whose connection is alive, those tested
\* recently twice, as the pool lists them twice; it needs MinimumNodes answers
\* that all agree.  When they do not, or no policy is set, the scan is over.
GetRetentionPolicy ==
    /\ scan.at = "wait" /\ policy = <<>>
    /\ \E alive \in SUBSET ChainNodes : \E recent, answered \in SUBSET alive :
        /\ Cardinality(alive) + Cardinality(recent) >= MinimumNodes
        /\ Cardinality(answered) + Cardinality(answered \cap recent) >= MinimumNodes
        /\ answered # {} /\ answered \subseteq knows
    /\ policy' = deployed
    /\ UNCHANGED <<now, deployed, knows, collection, seen, scan, signInVars, faults>>

\* The scan finds the events to drop.
FindExpiredEvents ==
    /\ scan.at = "wait" /\ policy # <<>> /\ Validate(policy[1])
    /\ \E ids \in Aggregates(policy[1], now) : ids # {} /\ scan' = Deleting(ids)
    /\ UNCHANGED <<now, deployed, knows, policy, collection, seen, signInVars, faults>>

\* It deletes them.
DropExpiredEvents ==
    /\ scan.at = "delete"
    /\ collection' = collection \ scan.ids
    /\ scan' = Waiting
    /\ UNCHANGED <<now, deployed, knows, policy, seen, signInVars, faults>>

\* Deleting fails or runs out of time, part of the way.
DropFails ==
    /\ scan.at = "delete" /\ Fault
    /\ \E done \in SUBSET scan.ids : collection' = collection \ done
    /\ scan' = Waiting
    /\ UNCHANGED <<now, deployed, knows, policy, seen, signInVars>>
-----------------------------------------------------------------------------
(* Signing in to the viewer server                                          *)

\* challengeHandler, for a principal that is an admin.
AddChallenge(c) ==
    /\ timestamp[c] = -1
    /\ timestamp' = [timestamp EXCEPT ![c] = now]
    /\ challenges' = challenges \cup {c}
    /\ UNCHANGED <<now, retentionVars, responder, tokens, drop, faults>>

\* Mutant: the challenge is found but not removed.
GetChallenge(r, c) ==
    /\ responder[r].at = "idle" /\ timestamp[c] # -1
    /\ responder' = [responder EXCEPT ![r] =
                        IF c \in challenges THEN [at |-> "found", challenge |-> c] ELSE [at |-> "done"]]
    /\ UNCHANGED <<now, retentionVars, challenges, timestamp, tokens, drop, faults>>

\* challengeResponseHandler, with a valid signature: FindOneAndDelete.
GetAndRemoveChallenge(r, c) ==
    /\ responder[r].at = "idle" /\ timestamp[c] # -1
    /\ responder' = [responder EXCEPT ![r] =
                        IF c \in challenges THEN [at |-> "found", challenge |-> c] ELSE [at |-> "done"]]
    /\ challenges' = challenges \ {c}
    /\ UNCHANGED <<now, retentionVars, timestamp, tokens, drop, faults>>

Valid(c) == timestamp[c] > now - Lifetime

\* It then checks the age of the record and issues a token.
IssueToken(r) ==
    /\ responder[r].at = "found"
    /\ LET c == responder[r].challenge
       IN  tokens' = IF Valid(c) THEN [tokens EXCEPT ![c] = @ + 1] ELSE tokens
    /\ responder' = [responder EXCEPT ![r] = [at |-> "done"]]
    /\ UNCHANGED <<now, retentionVars, challenges, timestamp, drop, faults>>

\* Mutant: the lifetime is left out.
OutdatedNow == {c \in challenges : timestamp[c] < now}

\* The challenges DropExpiredChallenges looks for.
Outdated == {c \in challenges : timestamp[c] < now - Lifetime}

FindExpiredChallenges ==
    /\ drop.at = "wait" /\ Outdated # {}
    /\ drop' = Deleting(Outdated)
    /\ UNCHANGED <<now, retentionVars, challenges, timestamp, responder, tokens, faults>>

DropExpiredChallenges ==
    /\ drop.at = "delete"
    /\ challenges' = challenges \ drop.ids
    /\ drop' = Waiting
    /\ UNCHANGED <<now, retentionVars, timestamp, responder, tokens, faults>>

\* The process restarts: the policy is forgotten, requests and jobs are lost.
Restart ==
    /\ Fault
    /\ policy' = <<>> /\ scan' = Waiting /\ drop' = Waiting
    /\ responder' = [r \in Responders |->
                        IF responder[r].at = "found" THEN [at |-> "done"] ELSE responder[r]]
    /\ UNCHANGED <<now, deployed, knows, collection, seen, challenges, timestamp, tokens>>
-----------------------------------------------------------------------------
Retention ==
    \/ \E p \in Policies : Deploy(p)
    \/ \E n \in ChainNodes : NodeLearns(n)
    \/ \E e \in Events : StoreEvent(e)
    \/ GetRetentionPolicy \/ FindExpiredEvents \/ DropExpiredEvents \/ DropFails

SignIn ==
    \/ \E c \in Challenges : AddChallenge(c)
    \/ \E r \in Responders, c \in Challenges : GetAndRemoveChallenge(r, c)
    \/ \E r \in Responders : IssueToken(r)
    \/ FindExpiredChallenges \/ DropExpiredChallenges

Next == Tick \/ Retention \/ SignIn \/ Restart

\* The agent runs on a ticker; sooner or later enough nodes that know the policy
\* answer.
Fairness ==
    /\ WF_vars(GetRetentionPolicy) /\ WF_vars(FindExpiredEvents) /\ WF_vars(DropExpiredEvents)
    /\ \A n \in ChainNodes : WF_vars(NodeLearns(n))

Spec == Init /\ [][Next]_vars /\ Fairness
-----------------------------------------------------------------------------
(* What retention-policies.md says a policy keeps *)

\* A timestamp filter keeps the events that match it for its period.
KeptByTime(p, e) ==
    \E i \in DOMAIN p :
        p[i].type = "timestamp" /\ e \in p[i].match /\ now - ReceivedTime[e] <= p[i].period

\* The events a count filter chooses from, with e: those no timestamp filter
\* keeps, of the same principal if it applies to principals.
Rivals(p, f, e) ==
    {d \in collection \ {e} :
        ~KeptByTime(p, d) /\ (f.group = "principal" => PrincipalOf[d] = PrincipalOf[e])}

\* The count filter keeps the newest of them; of those received at the same
\* time it may choose.
Surplus(p, e, newer(_)) ==
    \A i \in DOMAIN p : p[i].type = "count" =>
        Cardinality({d \in Rivals(p, p[i], e) : newer(d)}) >= p[i].volume

MayGo(p, e) ==
    ~KeptByTime(p, e) /\ Surplus(p, e, LAMBDA d : ReceivedTime[d] >= ReceivedTime[e])
MustGo(p, e) ==
    ~KeptByTime(p, e) /\ Surplus(p, e, LAMBDA d : ReceivedTime[d] > ReceivedTime[e])

\* Whatever happens between looking events up and deleting them, and however
\* far a failed delete gets, an event is dropped only if the policy on the
\* chain does not keep it at that time (event.go:205 and 225).
DropsOnlyOutside ==
    [][\A e \in collection \ collection' :
         deployed # <<>> /\ MayGo(deployed[1], e)]_vars

\* An event the policy no longer keeps is dropped in the end: after failed
\* scans and restarts, when the policy is deployed after the first scan, and
\* when the event is submitted again (agent.go:62).
Enforced ==
    \A e \in Events :
        (deployed # <<>> /\ e \in collection /\ MustGo(deployed[1], e)) ~> e \notin collection

\* A challenge is good for one token, however many responses to it are
\* handled at a time, restarts included (challenge.go:65).
OneTokenPerChallenge == \A c \in Challenges : tokens[c] <= 1 /\ (tokens[c] = 1 => c \notin challenges)

\* The minute job never takes away a challenge that could still be answered,
\* although it deletes what it looked up earlier (challenge.go:88 and 115).
AnswerableKept ==
    [][\A c \in challenges \ challenges' : responder' = responder => ~Valid(c)]_vars

=============================================================================
