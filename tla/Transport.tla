------------------------------ MODULE Transport ------------------------------
(***************************************************************************)
(* The listener loop of the SWIM transport (transport.go) and its callers: *)
(* Broadcast and unicast hand their message to one loop over unbuffered    *)
(* channels, the gossip delegate hands it inbound messages, and Shutdown   *)
(* asks it to leave the cluster.  The loop answers a unicast over an       *)
(* unbuffered channel as well, which the caller stops reading when its     *)
(* context ends.                                                           *)
(*                                                                         *)
(* A request is a pair: <<u, u>> for a call u of Unicast or                *)
(* UnicastRandomNeighbour, <<b, p>> for the message a broadcast b sends to *)
(* peer p when gossip is not used.                                         *)
(***************************************************************************)
EXTENDS Naturals, FiniteSets

CONSTANTS
    Peers,        \* the other nodes
    Broadcasts,   \* calls of Broadcast
    Unicasts,     \* calls of Unicast or UnicastRandomNeighbour
    UseGossip     \* the values of config.Transport.UseGossip to consider

ASSUME TransportAssumption == Unicasts \cap Broadcasts = {}

Requests == {<<u, u>> : u \in Unicasts} \cup (Broadcasts \X Peers)

VARIABLES
    useGossip,   \* config.Transport.UseGossip
    members,     \* the other nodes memberlist knows
    connected,   \* the loop's flag
    timer,       \* the loop's timer: "armed", "fired"
    loop,        \* where the loop is, and the answer it is about to give
    bcast,       \* calls of Broadcast: "idle", "offered", "done"
    fan,         \* peers the goroutine of a broadcast has still to send to
    req,         \* requests: "idle", "offered", "waiting" or how they ended
    onWire,      \* requests SendReliable has sent
    inbound,     \* the delegate waits for the loop to take a message
    stopper,     \* Shutdown: "idle", "prune", "offer", "wait", "returned"
    crashed      \* the process panicked

callVars == <<bcast, fan, req, onWire>>
vars == <<useGossip, members, connected, timer, loop, callVars, inbound, stopper, crashed>>

Selecting == [at |-> "select"]
Ready == ~crashed /\ loop = Selecting

Init ==
    /\ useGossip \in UseGossip
    /\ members = {} /\ connected = FALSE
    /\ timer = "armed" /\ loop = [at |-> "connect"]
    /\ bcast = [b \in Broadcasts |-> "idle"]
    /\ fan = [b \in Broadcasts |-> {}]
    /\ req = [r \in Requests |-> "idle"]
    /\ onWire = {} /\ inbound = FALSE
    /\ stopper = "idle" /\ crashed = FALSE

\* memberlist: nodes join and leave, whether or not this node has joined one.
MembersChange ==
    /\ ~crashed
    /\ members' \in SUBSET Peers \ {members}
    /\ UNCHANGED <<useGossip, connected, timer, loop, callVars, inbound, stopper, crashed>>

-----------------------------------------------------------------------------
(* Callers *)

CallBroadcast(b) ==
    /\ ~crashed /\ bcast[b] = "idle"
    /\ bcast' = [bcast EXCEPT ![b] = "offered"]
    /\ UNCHANGED <<useGossip, members, connected, timer, loop, fan, req, onWire, inbound, stopper, crashed>>

\* Unicast offers its request, or returns an error when its target is not a
\* member.
CallUnicast(u) ==
    /\ ~crashed /\ req[<<u, u>>] = "idle"
    /\ \E found \in {members # {}, FALSE} :
          req' = [req EXCEPT ![<<u, u>>] = IF found THEN "offered" ELSE "error"]
    /\ UNCHANGED <<useGossip, members, connected, timer, loop, bcast, fan, onWire, inbound, stopper, crashed>>

\* UnicastRandomNeighbour picks a member, and panics in rand.Intn when this
\* node is the only one.
CallUnicastRandom(u) ==
    /\ ~crashed /\ req[<<u, u>>] = "idle"
    /\ crashed' = (members = {})
    /\ req' = IF members = {} THEN req ELSE [req EXCEPT ![<<u, u>>] = "offered"]
    /\ UNCHANGED <<useGossip, members, connected, timer, loop, bcast, fan, onWire, inbound, stopper>>

\* Mutant: the caller waits for the answer only.
ExpireNever(r) == FALSE /\ UNCHANGED vars

\* The caller's context ends while it waits for the answer; the context does
\* not bound the time the request is offered to the loop.
Expire(r) ==
    /\ ~crashed /\ req[r] = "waiting"
    /\ req' = [req EXCEPT ![r] = "expired"]
    /\ UNCHANGED <<useGossip, members, connected, timer, loop, bcast, fan, onWire, inbound, stopper, crashed>>

\* The goroutine of a broadcast sends to one peer after the other.
FanOut(b) ==
    /\ ~crashed
    /\ \A p \in Peers : req[<<b, p>>] \notin {"offered", "waiting"}
    /\ \E p \in fan[b] :
          /\ fan' = [fan EXCEPT ![b] = @ \ {p}]
          /\ req' = [req EXCEPT ![<<b, p>>] = "offered"]
    /\ UNCHANGED <<useGossip, members, connected, timer, loop, bcast, onWire, inbound, stopper, crashed>>

\* The delegate has put a message together.
Inbound ==
    /\ ~crashed /\ ~inbound
    /\ inbound' = TRUE
    /\ UNCHANGED <<useGossip, members, connected, timer, loop, callVars, stopper, crashed>>

-----------------------------------------------------------------------------
(* The loop *)

\* connect: Join reaches some of the configured peers, or none.
Join ==
    \/ /\ members' \in SUBSET Peers \ {{}}
       /\ connected' = TRUE
    \/ UNCHANGED <<members, connected>>

Connect ==
    /\ ~crashed /\ loop.at = "connect"
    /\ Join
    /\ loop' = Selecting
    /\ UNCHANGED <<useGossip, timer, callVars, inbound, stopper, crashed>>

\* A message to broadcast: dropped before the node is connected, given to the
\* delegate (external to this module), or sent by a goroutine of its own.
TakeBroadcast(b) ==
    /\ Ready /\ bcast[b] = "offered"
    /\ bcast' = [bcast EXCEPT ![b] = "done"]
    /\ fan' = [fan EXCEPT ![b] = IF connected /\ ~useGossip THEN members ELSE {}]
    /\ UNCHANGED <<useGossip, members, connected, timer, loop, req, onWire, inbound, stopper, crashed>>

\* Mutant: a unicast is sent before the node is connected.
TakeUnicastAlways(r) ==
    /\ Ready /\ req[r] = "offered"
    /\ req' = [req EXCEPT ![r] = "waiting"]
    /\ loop' = [at |-> "answer", to |-> r, result |-> "ok"]
    /\ onWire' = onWire \cup {r}
    /\ UNCHANGED <<useGossip, members, connected, timer, bcast, fan, inbound, stopper, crashed>>

\* A unicast: dropped without an answer before the node is connected; else
\* SendReliable succeeds or fails, and the loop turns to answering.
TakeUnicast(r) ==
    /\ Ready /\ req[r] = "offered"
    /\ req' = [req EXCEPT ![r] = "waiting"]
    /\ IF connected
       THEN \E result \in {"ok", "error"} :
               /\ loop' = [at |-> "answer", to |-> r, result |-> result]
               /\ onWire' = IF result = "ok" THEN onWire \cup {r} ELSE onWire
       ELSE UNCHANGED <<loop, onWire>>
    /\ UNCHANGED <<useGossip, members, connected, timer, bcast, fan, inbound, stopper, crashed>>

\* The answer is received; there is no receiver when the context has ended.
Answer ==
    /\ ~crashed /\ loop.at = "answer" /\ req[loop.to] = "waiting"
    /\ req' = [req EXCEPT ![loop.to] = loop.result]
    /\ loop' = Selecting
    /\ UNCHANGED <<useGossip, members, connected, timer, bcast, fan, onWire, inbound, stopper, crashed>>

\* An inbound message is given to the listeners, each in a goroutine.
TakeInbound ==
    /\ Ready /\ inbound
    /\ inbound' = FALSE
    /\ UNCHANGED <<useGossip, members, connected, timer, loop, callVars, stopper, crashed>>

\* The timer fires once: it is not reset.
TimerFires ==
    /\ Ready /\ timer = "armed"
    /\ timer' = "fired"
    /\ IF connected THEN UNCHANGED <<members, connected>> ELSE Join
    /\ UNCHANGED <<useGossip, loop, callVars, inbound, stopper, crashed>>

-----------------------------------------------------------------------------
(* Shutdown *)

CallShutdown ==
    /\ ~crashed /\ stopper = "idle"
    /\ stopper' = "prune"
    /\ UNCHANGED <<useGossip, members, connected, timer, loop, callVars, inbound, crashed>>

\* Mutant: the prune loop ends when its timer has fired, as this one has.
StopPruneLoopEnded ==
    /\ ~crashed /\ stopper = "prune" /\ timer = "armed"
    /\ stopper' = "offer"
    /\ UNCHANGED <<useGossip, members, connected, timer, loop, callVars, inbound, crashed>>

\* The prune loop, which runs since StartListener, takes the signal and ends.
StopPruneLoop ==
    /\ ~crashed /\ stopper = "prune"
    /\ stopper' = "offer"
    /\ UNCHANGED <<useGossip, members, connected, timer, loop, callVars, inbound, crashed>>

\* The loop leaves the cluster and shuts memberlist down.  It sends an error
\* for each of the two that fails, and then nil.
TakeShutdown ==
    /\ Ready /\ stopper = "offer"
    /\ stopper' = "wait"
    /\ \E answers \in 1..3 : loop' = [at |-> "stop", answers |-> answers]
    /\ members' = {}
    /\ UNCHANGED <<useGossip, connected, timer, callVars, inbound, crashed>>

\* Shutdown reads one answer.  Further answers find no reader.
AnswerShutdown ==
    /\ ~crashed /\ loop.at = "stop" /\ stopper = "wait"
    /\ stopper' = "returned"
    /\ loop' = IF loop.answers = 1 THEN Selecting ELSE [loop EXCEPT !.answers = @ - 1]
    /\ UNCHANGED <<useGossip, members, connected, timer, callVars, inbound, crashed>>

ShutdownTimesOut ==
    /\ ~crashed /\ stopper = "wait"
    /\ stopper' = "returned"
    /\ UNCHANGED <<useGossip, members, connected, timer, loop, callVars, inbound, crashed>>

Loop ==
    \/ Connect \/ Answer \/ TakeInbound \/ TimerFires \/ TakeShutdown \/ AnswerShutdown
    \/ \E b \in Broadcasts : TakeBroadcast(b)
    \/ \E r \in Requests : TakeUnicast(r)

Next ==
    \/ Loop \/ MembersChange \/ Inbound
    \/ \E b \in Broadcasts : CallBroadcast(b) \/ FanOut(b)
    \/ \E u \in Unicasts : CallUnicast(u) \/ CallUnicastRandom(u)
    \/ \E r \in Requests : Expire(r)
    \/ CallShutdown \/ StopPruneLoop \/ ShutdownTimesOut

Spec == Init /\ [][Next]_vars

\* The loop runs, and select chooses at random among the cases that are
\* ready: a case that stays ready is taken in the end.  Contexts and timers
\* end, and goroutines run.
FairSpec ==
    /\ Spec
    /\ WF_vars(Connect) /\ WF_vars(Answer) /\ WF_vars(AnswerShutdown)
    /\ WF_vars(TimerFires) /\ WF_vars(TakeShutdown)
    /\ \A b \in Broadcasts : WF_vars(TakeBroadcast(b)) /\ WF_vars(FanOut(b))
    /\ \A r \in Requests : WF_vars(TakeUnicast(r)) /\ WF_vars(Expire(r))
    /\ WF_vars(StopPruneLoop) /\ WF_vars(ShutdownTimesOut)

-----------------------------------------------------------------------------
(* Properties *)

\* The loop is sending an answer to a caller whose context has ended: it will
\* never select again.
Wedged == loop.at = "answer" /\ req[loop.to] = "expired"

\* The transport is not used any more.
Over == crashed \/ stopper # "idle"

\* What a caller is told is what happened: a unicast that returned nil was
\* sent, one that returned an error from the loop was not, and nothing is sent
\* before the node is connected, whatever contexts end meanwhile.
AnswersTrue ==
    /\ \A r \in Requests : req[r] = "ok" => r \in onWire
    /\ \A r \in Requests : req[r] \in {"idle", "offered", "error"} => r \notin onWire
    /\ onWire # {} => connected
    /\ loop.at = "answer" => req[loop.to] \in {"waiting", "expired"}

\* Every call of Broadcast and of unicast returns, and so does every message a
\* broadcast sends to a peer, unless the loop is stuck answering a caller whose
\* context has ended (transport.go:254), or the node stops.
CallsReturn ==
    /\ \A b \in Broadcasts : (bcast[b] = "offered") ~> (bcast[b] = "done" \/ Wedged \/ Over)
    /\ \A r \in Requests :
          (req[r] \in {"offered", "waiting"}) ~>
              (req[r] \in {"ok", "error", "expired"} \/ Wedged \/ Over)
    /\ \A b \in Broadcasts : (fan[b] # {}) ~> (fan[b] = {} \/ Wedged \/ Over)

\* Shutdown returns, unless the loop is stuck: its timeout does not cover the
\* hand-over to the loop (transport.go:105).
ShutdownReturns == (stopper = "prune") ~> (stopper = "returned" \/ Wedged \/ crashed)
=============================================================================
