--------------------------- MODULE TransportProofs ---------------------------
(* That the callers of the transport are told the truth, for any set of      *)
(* peers and calls.                                                          *)
EXTENDS Transport, TLAPS

Loops ==
    {[at |-> "connect"], Selecting}
        \cup [at : {"answer"}, to : Requests, result : {"ok", "error"}]
        \cup [at : {"stop"}, answers : 1..3]

\* The types of what the calls and the loop hold.
TypeInv ==
    /\ loop \in Loops
    /\ members \in SUBSET Peers
    /\ bcast \in [Broadcasts -> {"idle", "offered", "done"}]
    /\ fan \in [Broadcasts -> SUBSET Peers]
    /\ req \in [Requests -> {"idle", "offered", "waiting", "ok", "error", "expired"}]
    /\ onWire \subseteq Requests

\* A request is on the wire only once the loop has taken it from its caller, and
\* the answer the loop is about to give says whether it is.
WireInv ==
    /\ AnswersTrue
    /\ loop.at = "answer" => (loop.result = "ok" <=> loop.to \in onWire)

\* A broadcast sends to a peer once: the requests it has yet to make are new, and
\* before the loop has taken the broadcast all of them are.
FanInv ==
    \A b \in Broadcasts, p \in Peers :
       /\ (p \in fan[b] \/ bcast[b] # "done") => req[<<b, p>>] = "idle"
       /\ p \in fan[b] => bcast[b] = "done"

Inv == TypeInv /\ WireInv /\ FanInv

\* What the loop carries in each of its places.
LEMMA LoopCases ==
    ASSUME loop \in Loops
    PROVE  /\ loop.at = "answer" => loop.to \in Requests /\ loop.result \in {"ok", "error"}
           /\ loop.at = "stop" => loop.answers \in 1..3
                                  /\ loop = [at |-> "stop", answers |-> loop.answers]
           /\ loop.at \in {"connect", "select", "answer", "stop"}
  BY DEF Loops, Selecting

\* The invariant holds initially.
LEMMA InitInv == Init => Inv
  BY DEF Init, Inv, TypeInv, WireInv, FanInv, AnswersTrue, Loops, Selecting, Requests

\* The steps that change no call.
LEMMA QuietInv ==
    ASSUME Inv, UNCHANGED <<loop, callVars>>,
           members' \in SUBSET Peers, connected => connected'
    PROVE  Inv'
  BY DEF Inv, TypeInv, WireInv, FanInv, AnswersTrue, callVars

\* The steps by which a request that is not on the wire changes hands.
LEMMA RequestInv ==
    ASSUME Inv, NEW r \in Requests, req[r] = "idle",
           r \in Broadcasts \X Peers => bcast[r[1]] = "done" /\ r[2] \notin fan'[r[1]],
           NEW s \in {"offered", "error"}, req' = [req EXCEPT ![r] = s],
           fan' \in [Broadcasts -> SUBSET Peers],
           \A b \in Broadcasts : fan'[b] \subseteq fan[b],
           UNCHANGED <<loop, bcast, onWire, members, connected>>
    PROVE  Inv'
<1>1. r \notin onWire
  BY DEF Inv, WireInv, AnswersTrue
<1>2. TypeInv'
  BY DEF Inv, TypeInv
<1>3. WireInv'
  BY <1>1 DEF Inv, TypeInv, WireInv, AnswersTrue
<1>4. FanInv'
  <2> SUFFICES ASSUME NEW b \in Broadcasts, NEW p \in Peers, p \in fan'[b] \/ bcast[b] # "done"
               PROVE  req'[<<b, p>>] = "idle"
    BY DEF Inv, FanInv
  <2>1. <<b, p>> # r /\ <<b, p>> \in Requests
    BY DEF Requests
  <2>2. req[<<b, p>>] = "idle"
    BY DEF Inv, FanInv
  <2> QED BY <2>1, <2>2 DEF Inv, TypeInv
<1> QED BY <1>2, <1>3, <1>4 DEF Inv

\* Every step keeps the invariant.
LEMMA NextInv == Inv /\ [Next]_vars => Inv'
<1> SUFFICES ASSUME Inv, [Next]_vars PROVE Inv'
  OBVIOUS
<1>0. TypeInv /\ WireInv /\ FanInv
  BY DEF Inv
<1> USE <1>0
<1>1. CASE UNCHANGED vars
  BY <1>1, QuietInv DEF vars, callVars, TypeInv
<1>2. CASE Connect
  <2>1. members' \in SUBSET Peers /\ (connected => connected')
    BY <1>2 DEF Connect, Join, TypeInv
  <2>2. TypeInv'
    BY <1>2, <2>1 DEF Connect, TypeInv, Loops, Selecting, callVars
  <2>3. WireInv'
    BY <1>2, <2>1 DEF Connect, WireInv, AnswersTrue, Selecting, callVars
  <2>9. FanInv'
    BY <1>2 DEF Connect, FanInv, callVars
  <2> QED BY <2>2, <2>3, <2>9 DEF Inv
<1>3. CASE Answer
  <2>1. loop.to \in Requests /\ loop.result \in {"ok", "error"}
    BY <1>3, LoopCases DEF Answer, TypeInv
  <2>2. TypeInv'
    BY <1>3, <2>1 DEF Answer, TypeInv, Loops, Selecting
  <2>3. WireInv'
    BY <1>3, <2>1 DEF Answer, TypeInv, WireInv, AnswersTrue, Selecting
  <2>9. FanInv'
    <3>1. req[loop.to] = "waiting" /\ req' = [req EXCEPT ![loop.to] = loop.result]
          /\ UNCHANGED <<bcast, fan>>
      BY <1>3 DEF Answer
    <3>2. \A r \in Requests : req[r] = "idle" => req'[r] = "idle"
      BY <2>1, <3>1 DEF TypeInv
    <3> QED BY <3>1, <3>2 DEF FanInv, Requests
  <2> QED BY <2>2, <2>3, <2>9 DEF Inv
<1>4. CASE TakeInbound
  BY <1>4, QuietInv DEF TakeInbound, TypeInv, callVars
<1>5. CASE TimerFires
  <2>1. members' \in SUBSET Peers /\ (connected => connected')
    BY <1>5 DEF TimerFires, Join, TypeInv
  <2> QED BY <1>5, <2>1, QuietInv DEF TimerFires, TypeInv, callVars
<1>6. CASE TakeShutdown
  <2>1. TypeInv'
    BY <1>6 DEF TakeShutdown, TypeInv, Loops, callVars
  <2>2. WireInv'
    BY <1>6 DEF TakeShutdown, WireInv, AnswersTrue, callVars
  <2>9. FanInv'
    BY <1>6 DEF TakeShutdown, FanInv, callVars
  <2> QED BY <2>1, <2>2, <2>9 DEF Inv
<1>7. CASE AnswerShutdown
  <2>1. loop.answers \in 1..3 /\ loop = [at |-> "stop", answers |-> loop.answers]
    BY <1>7, LoopCases DEF AnswerShutdown, TypeInv
  <2>2. \/ loop' = Selecting
        \/ loop' = [at |-> "stop", answers |-> loop.answers - 1] /\ loop.answers - 1 \in 1..3
    BY <1>7, <2>1 DEF AnswerShutdown
  <2>3. TypeInv'
    BY <1>7, <2>2 DEF AnswerShutdown, TypeInv, Loops, Selecting, callVars
  <2>4. WireInv'
    BY <1>7, <2>2 DEF AnswerShutdown, WireInv, AnswersTrue, Selecting, callVars
  <2>9. FanInv'
    BY <1>7 DEF AnswerShutdown, FanInv, callVars
  <2> QED BY <2>3, <2>4, <2>9 DEF Inv
<1>8. ASSUME NEW b \in Broadcasts, TakeBroadcast(b) PROVE Inv'
  <2>1. TypeInv'
    BY <1>8 DEF TakeBroadcast, TypeInv
  <2>2. WireInv'
    BY <1>8 DEF TakeBroadcast, WireInv, AnswersTrue
  <2>3. FanInv'
    BY <1>8 DEF TakeBroadcast, FanInv, TypeInv
  <2> QED BY <2>1, <2>2, <2>3 DEF Inv
<1>9. ASSUME NEW r \in Requests, TakeUnicast(r) PROVE Inv'
  <2>1. r \notin onWire /\ loop = Selecting
    BY <1>9 DEF TakeUnicast, Ready, WireInv, AnswersTrue
  <2>2. TypeInv'
    BY <1>9 DEF TakeUnicast, TypeInv, Loops
  <2>3. WireInv'
    BY <1>9, <2>1 DEF TakeUnicast, TypeInv, WireInv, AnswersTrue, Selecting
  <2>9. FanInv'
    BY <1>9 DEF TakeUnicast, FanInv, TypeInv, Requests
  <2> QED BY <2>2, <2>3, <2>9 DEF Inv
<1>10. CASE MembersChange
  BY <1>10, QuietInv DEF MembersChange, TypeInv, callVars
<1>11. CASE Inbound
  BY <1>11, QuietInv DEF Inbound, TypeInv, callVars
<1>12. ASSUME NEW b \in Broadcasts, CallBroadcast(b) PROVE Inv'
  BY <1>12 DEF CallBroadcast, Inv, TypeInv, WireInv, FanInv, AnswersTrue
<1>13. ASSUME NEW b \in Broadcasts, FanOut(b) PROVE Inv'
  <2>1. PICK p \in fan[b] : /\ fan' = [fan EXCEPT ![b] = @ \ {p}]
                            /\ req' = [req EXCEPT ![<<b, p>>] = "offered"]
    BY <1>13 DEF FanOut
  <2>2. p \in Peers /\ <<b, p>> \in Requests
    BY DEF TypeInv, Requests
  <2>3. req[<<b, p>>] = "idle" /\ bcast[b] = "done"
    BY <2>2 DEF FanInv
  <2> QED
    BY <1>13, <2>1, <2>2, <2>3, RequestInv DEF FanOut, TypeInv
<1>14. ASSUME NEW u \in Unicasts, CallUnicast(u) PROVE Inv'
  <2>1. <<u, u>> \in Requests /\ <<u, u>> \notin Broadcasts \X Peers
    BY TransportAssumption DEF Requests
  <2> QED
    BY <1>14, <2>1, RequestInv DEF CallUnicast, TypeInv
<1>15. ASSUME NEW u \in Unicasts, CallUnicastRandom(u) PROVE Inv'
  <2>1. <<u, u>> \in Requests /\ <<u, u>> \notin Broadcasts \X Peers
    BY TransportAssumption DEF Requests
  <2>2. CASE members = {}
    BY <1>15, <2>2, QuietInv DEF CallUnicastRandom, TypeInv, callVars
  <2>3. CASE members # {}
    BY <1>15, <2>1, <2>3, RequestInv DEF CallUnicastRandom, TypeInv
  <2> QED BY <2>2, <2>3
<1>16. ASSUME NEW r \in Requests, Expire(r) PROVE Inv'
  <2>1. TypeInv'
    BY <1>16 DEF Expire, TypeInv
  <2>2. WireInv'
    BY <1>16 DEF Expire, TypeInv, WireInv, AnswersTrue
  <2>3. FanInv'
    BY <1>16 DEF Expire, TypeInv, FanInv, Requests
  <2> QED BY <2>1, <2>2, <2>3 DEF Inv
<1>17. CASE CallShutdown
  BY <1>17, QuietInv DEF CallShutdown, TypeInv, callVars
<1>18. CASE StopPruneLoop
  BY <1>18, QuietInv DEF StopPruneLoop, TypeInv, callVars
<1>19. CASE ShutdownTimesOut
  BY <1>19, QuietInv DEF ShutdownTimesOut, TypeInv, callVars
<1> QED
  BY <1>1, <1>2, <1>3, <1>4, <1>5, <1>6, <1>7, <1>8, <1>9, <1>10, <1>11, <1>12, <1>13, <1>14,
     <1>15, <1>16, <1>17, <1>18, <1>19 DEF Next, Loop

\* Whatever calls, inbound messages, membership changes and contexts that end
\* meet the loop, a unicast that returned nil was sent and one that returned an
\* error was not: the answer is decided by the step that sends the message, and a
\* caller is only ever answered with it.
THEOREM AnswersCorrect == Spec => []AnswersTrue
<1>1. Inv => AnswersTrue
  BY DEF Inv, WireInv
<1> QED
  BY <1>1, InitInv, NextInv, PTL DEF Spec
=============================================================================
