-------------------------- MODULE RepositoryProofs --------------------------
(* That a sign-in challenge is good for one token and is not taken away      *)
(* while it can be answered, for any challenges, responses, events, policies *)
(* and lifetime.                                                             *)
EXTENDS Repository, TLAPS

Holds(r, c) == responder[r].at = "found" /\ responder[r].challenge = c

\* A challenge is in the repository, or with one response, or spent.
SpendInv ==
    \A c \in Challenges :
       /\ tokens[c] \in {0, 1}
       /\ c \in challenges => tokens[c] = 0 /\ \A r \in Responders : ~Holds(r, c)
       /\ \A r \in Responders : Holds(r, c) => tokens[c] = 0
       /\ \A r, s \in Responders : Holds(r, c) /\ Holds(s, c) => r = s

\* No challenge is issued again, and what the minute job is about to delete was
\* outdated when it looked, and is so for good.
TimeInv ==
    /\ now \in Nat
    /\ timestamp \in [Challenges -> Int]
    /\ \A c \in Challenges : timestamp[c] = -1 => c \notin challenges /\ tokens[c] = 0
                                                  /\ \A r \in Responders : ~Holds(r, c)
    /\ challenges \subseteq Challenges
    /\ \A c \in drop.ids : timestamp[c] # -1 /\ timestamp[c] < now - Lifetime
    /\ drop.ids \subseteq Challenges

TypeInv ==
    /\ tokens \in [Challenges -> Nat]
    /\ DOMAIN responder = Responders
    /\ \A r \in Responders : responder[r].at = "found" => responder[r].challenge \in Challenges

Inv == TypeInv /\ TimeInv /\ SpendInv

\* The invariant holds initially.
LEMMA InitInv == Init => Inv
<1> SUFFICES ASSUME Init PROVE Inv
  OBVIOUS
<1>1. \A r \in Responders : responder[r].at = "idle"
  BY DEF Init
<1>2. TypeInv
  BY <1>1 DEF Init, TypeInv
<1>3. TimeInv
  BY <1>1 DEF Init, TimeInv, Holds, Waiting
<1>4. SpendInv
  BY <1>1 DEF Init, SpendInv, Holds
<1> QED BY <1>2, <1>3, <1>4 DEF Inv

\* The steps that leave sign-in alone but for the clock.
LEMMA QuietInv ==
    ASSUME Inv, UNCHANGED <<challenges, timestamp, responder, tokens>>,
           now' \in Nat, now' >= now, drop' \in {drop, Waiting}
    PROVE  Inv'
<1>1. TypeInv' /\ SpendInv'
  BY DEF Inv, TypeInv, SpendInv, Holds
<1>2. TimeInv'
  BY RepositoryAssumption DEF Inv, TimeInv, Holds, Waiting
<1> QED BY <1>1, <1>2 DEF Inv

\* Every step keeps the invariant.
LEMMA NextInv == Inv /\ [Next]_vars => Inv'
<1> SUFFICES ASSUME Inv, [Next]_vars PROVE Inv'
  OBVIOUS
<1> USE DEF Inv
<1>0. now \in Nat /\ MaxTime \in Nat /\ Lifetime \in Nat
  BY RepositoryAssumption DEF TimeInv
<1>1. CASE UNCHANGED vars
  BY <1>0, <1>1, QuietInv DEF vars, signInVars
<1>2. CASE Tick
  BY <1>0, <1>2, QuietInv DEF Tick, signInVars
<1>3. CASE Retention
  BY <1>0, <1>3, QuietInv
  DEF Retention, Deploy, NodeLearns, StoreEvent, GetRetentionPolicy, FindExpiredEvents,
      DropExpiredEvents, DropFails, signInVars
<1>4. ASSUME NEW c \in Challenges, AddChallenge(c) PROVE Inv'
  <2>1. timestamp'[c] = now /\ \A d \in Challenges : d # c => timestamp'[d] = timestamp[d]
    BY <1>4 DEF AddChallenge, TimeInv
  <2>2. TypeInv'
    BY <1>4 DEF AddChallenge, TypeInv
  <2>3. SpendInv'
    BY <1>4 DEF AddChallenge, TimeInv, SpendInv, Holds
  <2>4. c \notin drop.ids
    BY <1>4 DEF AddChallenge, TimeInv
  <2>5. TimeInv'
    BY <1>0, <1>4, <2>1, <2>4 DEF AddChallenge, TimeInv, Holds
  <2> QED BY <2>2, <2>3, <2>5
<1>5. ASSUME NEW r \in Responders, NEW c \in Challenges, GetAndRemoveChallenge(r, c) PROVE Inv'
  <2>1. /\ responder'[r] = IF c \in challenges THEN [at |-> "found", challenge |-> c]
                           ELSE [at |-> "done"]
        /\ DOMAIN responder' = Responders
        /\ \A s \in Responders : s # r => responder'[s] = responder[s]
        /\ challenges' = challenges \ {c} /\ timestamp[c] # -1
        /\ UNCHANGED <<now, timestamp, tokens, drop>>
    BY <1>5 DEF GetAndRemoveChallenge, TypeInv
  <2>2. \A s \in Responders, d \in Challenges :
           Holds(s, d)' => Holds(s, d) \/ (s = r /\ d = c /\ c \in challenges)
    BY <2>1 DEF Holds
  <2>3. TypeInv'
    BY <2>1 DEF TypeInv
  <2>4. TimeInv'
    BY <2>1, <2>2 DEF TimeInv
  <2>5. SpendInv'
    BY <2>1, <2>2 DEF SpendInv
  <2> QED BY <2>3, <2>4, <2>5
<1>6. ASSUME NEW r \in Responders, IssueToken(r) PROVE Inv'
  <2> DEFINE c == responder[r].challenge
  <2>1. c \in Challenges /\ Holds(r, c)
    BY <1>6 DEF IssueToken, TypeInv, Holds
  <2>2. /\ tokens' = tokens \/ tokens' = [tokens EXCEPT ![c] = @ + 1]
        /\ responder'[r] = [at |-> "done"] /\ DOMAIN responder' = Responders
        /\ \A s \in Responders : s # r => responder'[s] = responder[s]
        /\ UNCHANGED <<now, challenges, timestamp, drop>>
    BY <1>6 DEF IssueToken, TypeInv
  <2>3. \A s \in Responders, d \in Challenges : Holds(s, d)' => s # r /\ Holds(s, d)
    BY <2>2 DEF Holds
  <2>4. tokens[c] = 0 /\ c \notin challenges /\ timestamp[c] # -1
    BY <2>1 DEF SpendInv, TimeInv
  <2> HIDE DEF c
  <2>5. /\ tokens' \in [Challenges -> Nat] /\ tokens'[c] \in {0, 1}
        /\ \A d \in Challenges : d # c => tokens'[d] = tokens[d]
    BY <2>1, <2>2, <2>4 DEF TypeInv
  <2>6. TypeInv'
    BY <2>2, <2>5 DEF TypeInv
  <2>7. TimeInv'
    BY <2>2, <2>3, <2>4, <2>5 DEF TimeInv
  <2>8. SpendInv'
    BY <2>1, <2>2, <2>3, <2>4, <2>5 DEF SpendInv
  <2> QED BY <2>6, <2>7, <2>8
<1>7. CASE FindExpiredChallenges
  <2>1. TypeInv' /\ SpendInv'
    BY <1>7 DEF FindExpiredChallenges, TypeInv, SpendInv, Holds
  <2>2. drop'.ids = Outdated
    BY <1>7 DEF FindExpiredChallenges, Deleting
  <2>3. TimeInv'
    BY <1>0, <1>7, <2>2 DEF FindExpiredChallenges, Outdated, TimeInv, Holds
  <2> QED BY <2>1, <2>3
<1>8. CASE DropExpiredChallenges
  <2>1. TypeInv' /\ SpendInv'
    BY <1>8 DEF DropExpiredChallenges, TypeInv, SpendInv, Holds
  <2>2. TimeInv'
    BY <1>0, <1>8 DEF DropExpiredChallenges, Waiting, TimeInv, Holds
  <2> QED BY <2>1, <2>2
<1>9. CASE Restart
  <2>1. /\ DOMAIN responder' = Responders
        /\ \A r \in Responders : responder'[r].at # "found"
        /\ UNCHANGED <<now, challenges, timestamp, tokens>> /\ drop' = Waiting
    BY <1>9 DEF Restart
  <2>2. TypeInv' /\ SpendInv'
    BY <2>1 DEF TypeInv, SpendInv, Holds
  <2>3. TimeInv'
    BY <1>0, <2>1 DEF TimeInv, Holds, Waiting
  <2> QED BY <2>2, <2>3
<1> QED
  BY <1>1, <1>2, <1>3, <1>4, <1>5, <1>6, <1>7, <1>8, <1>9 DEF Next, SignIn

\* However many responses to a challenge are handled at a time, and whatever
\* restarts, a challenge is good for one token: FindOneAndDelete gives it to one
\* response, and it is never in the repository again.
THEOREM OneTokenCorrect == Spec => []OneTokenPerChallenge
<1>1. Inv => OneTokenPerChallenge
  BY DEF Inv, SpendInv, OneTokenPerChallenge
<1> QED
  BY <1>1, InitInv, NextInv, PTL DEF Spec

\* The job that clears challenges away deletes none that could still be answered,
\* although time passes and challenges are answered between its two calls.
THEOREM AnswerableKeptCorrect == Spec => AnswerableKept
<1> DEFINE Step == \A c \in challenges \ challenges' : responder' = responder => ~Valid(c)
<1>1. ASSUME Inv, [Next]_vars PROVE [Step]_vars
  <2>1. CASE DropExpiredChallenges
    <3> SUFFICES ASSUME NEW c \in challenges \ challenges' PROVE ~Valid(c)
      OBVIOUS
    <3>1. c \in drop.ids /\ timestamp[c] < now - Lifetime
      BY <1>1, <2>1 DEF DropExpiredChallenges, Inv, TimeInv
    <3>2. timestamp[c] \in Int /\ now \in Nat /\ Lifetime \in Nat
      BY <1>1, RepositoryAssumption DEF Inv, TimeInv
    <3> QED BY <3>1, <3>2 DEF Valid
  <2>2. ASSUME NEW r \in Responders, NEW c \in Challenges, GetAndRemoveChallenge(r, c)
        PROVE  Step
    <3> SUFFICES ASSUME responder' = responder PROVE challenges' = challenges
      OBVIOUS
    <3>1. c \notin challenges
      BY <1>1, <2>2 DEF GetAndRemoveChallenge, Inv, TypeInv
    <3> QED BY <2>2, <3>1 DEF GetAndRemoveChallenge
  <2>3. CASE UNCHANGED vars
    BY <2>3
  <2>4. ASSUME challenges \subseteq challenges' PROVE Step
    BY <2>4
  <2> QED
    BY <1>1, <2>1, <2>2, <2>3, <2>4
    DEF Next, Tick, Retention, SignIn, Restart, Deploy, NodeLearns, StoreEvent, GetRetentionPolicy,
        FindExpiredEvents, DropExpiredEvents, DropFails, AddChallenge, IssueToken,
        FindExpiredChallenges, signInVars
<1> QED
  BY <1>1, InitInv, NextInv, PTL DEF Spec, AnswerableKept
=============================================================================
