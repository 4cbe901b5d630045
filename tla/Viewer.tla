------------------------------- MODULE Viewer -------------------------------
(* The event stream of the viewer server and the shutdown broadcast that    *)
(* stops it.  A submission hands its event to the broadcaster's loop        *)
(* (StoreEvent, streambroadcaster.go), which hands it to the write loop of  *)
(* each signed-in client whose filters match (streamclient.go), holding the *)
(* lock that registering and unregistering need.  All hand-overs are on     *)
(* unbuffered channels.  The loops stop when main's Await (common/          *)
(* pkg/broadcast) reaches their listener; the listeners are served one      *)
(* after the other, and an answer is taken only while Await runs.           *)
EXTENDS Naturals, Sequences, FiniteSets

CONSTANTS
    Clients,       \* websocket connections, each used once
    Events,        \* events submitted, each once
    FilterLists,   \* filter lists clients set; a filter is the events it matches
    Tasks,         \* the other loops main.go starts that listen for the shutdown
    FirstListeners,\* the listeners of those loops and the broadcaster, in the order they subscribe
    MaxTicks       \* bound on the rounds of the challenge dropper

VARIABLES
    sub,           \* sub[e]: where the submission of e is in StoreEvent
    registered,    \* streamBroadcaster.clients
    loop,          \* the broadcaster's loop: where, event, clients to serve, client, its filters
    reader,        \* reader[c]: where c's read loop is
    writer,        \* writer[c]: where c's write loop is
    authed,        \* authed[c]: isAuthenticated
    filters,       \* filters[c]
    listeners,     \* BroadcastChannel.listeners: who receives on each
    task,          \* task[t]: where the loop t is
    ticks,         \* rounds of the challenge dropper
    main,          \* main: running, in Await, or back from it
    publish,       \* positions the publishing goroutine still has to send to
    answers        \* len(results)

streamVars == <<sub, registered, loop>>
clientVars == <<reader, writer, authed, filters>>
stopVars == <<listeners, task, ticks, main, publish, answers>>
vars == <<streamVars, clientVars, stopVars>>

Selecting == [at |-> "select", event |-> "none", todo |-> {}, to |-> "none", list |-> <<>>]

\* The broadcaster holds the read lock of its clients, so nobody can write it.
Locked == loop.at \in {"serve", "match", "write"}

Wants(list, e) == \A i \in 1..Len(list) : e \in list[i]

\* The state is well formed; the broadcaster serves registered clients only, and
\* hands events to clients that are signed in.
TypeOK ==
    /\ sub \in [Events -> {"idle", "send", "done"}]
    /\ registered \subseteq Clients
    /\ loop.at \in {"select", "serve", "match", "write", "answer", "ended"}
    /\ loop.todo \subseteq registered
    /\ Locked => loop.event \in Events
    /\ loop.at \in {"match", "write"} => loop.to \in loop.todo /\ authed[loop.to]
    /\ reader \in [Clients -> {"off", "read", "error", "closing", "unregister", "ended"}]
    /\ writer \in [Clients -> {"off", "subscribe", "run", "answer", "ended"}]
    /\ authed \in [Clients -> BOOLEAN]
    /\ filters \in [Clients -> FilterLists \cup {<<>>}]
    /\ listeners \in Seq(Tasks \cup {"broadcaster"} \cup Clients)
    /\ task \in [Tasks -> {"select", "busy", "answer", "ended"}]
    /\ ticks \in 0..MaxTicks
    /\ main \in {"run", "await", "stopped", "timedOut"}
    /\ publish \in Seq(1..Len(listeners))
    /\ answers \in 0..Len(listeners)

Init ==
    /\ sub = [e \in Events |-> "idle"]
    /\ registered = {}
    /\ loop = Selecting
    /\ reader = [c \in Clients |-> "off"]
    /\ writer = [c \in Clients |-> "off"]
    /\ authed = [c \in Clients |-> FALSE]
    /\ filters = [c \in Clients |-> <<>>]
    /\ listeners = FirstListeners
    /\ task = [t \in Tasks |-> "select"]
    /\ ticks = 0
    /\ main = "run"
    /\ publish = <<>>
    /\ answers = 0
-----------------------------------------------------------------------------
(* Submissions and the broadcaster's loop                                   *)

\* StoreEvent has stored the event and reaches the send on the event channel.
StoreEvent(e) ==
    /\ sub[e] = "idle"
    /\ sub' = [sub EXCEPT ![e] = "send"]
    /\ UNCHANGED <<registered, loop, clientVars, stopVars>>

\* The loop takes an event, takes the read lock and will range over the clients.
TakeEvent(e) ==
    /\ loop.at = "select" /\ sub[e] = "send"
    /\ sub' = [sub EXCEPT ![e] = "done"]
    /\ loop' = [Selecting EXCEPT !.at = "serve", !.event = e, !.todo = registered]
    /\ UNCHANGED <<registered, clientVars, stopVars>>

\* It skips clients that are not signed in; of the others it reads the
\* filters, first their number (outside the client's lock), then the filters.
Consider(c) ==
    /\ loop.at = "serve" /\ c \in loop.todo
    /\ loop' = IF authed[c]
               THEN [loop EXCEPT !.at = "match", !.to = c, !.list = filters[c]]
               ELSE [loop EXCEPT !.todo = @ \ {c}]
    /\ UNCHANGED <<sub, registered, clientVars, stopVars>>

\* Mutant: the last filter is not copied.
CopiedShort(n, list) == [i \in 1..n - 1 |-> IF i <= Len(list) THEN list[i] ELSE {}]

\* Filters() copies into a slice of the length it read: filters added since
\* are cut off, and a list that became shorter leaves an empty filter, which
\* no event matches.
Copied(n, list) == [i \in 1..n |-> IF i <= Len(list) THEN list[i] ELSE {}]

\* Mutant: a client whose filters do not match is looked at again.
MatchAgain ==
    /\ loop.at = "match"
    /\ loop' = IF Wants(Copied(Len(loop.list), filters[loop.to]), loop.event)
               THEN [loop EXCEPT !.at = "write"]
               ELSE [loop EXCEPT !.at = "serve"]
    /\ UNCHANGED <<sub, registered, clientVars, stopVars>>

Match ==
    /\ loop.at = "match"
    /\ loop' = IF Wants(Copied(Len(loop.list), filters[loop.to]), loop.event)
               THEN [loop EXCEPT !.at = "write"]
               ELSE [loop EXCEPT !.at = "serve", !.todo = @ \ {loop.to}]
    /\ UNCHANGED <<sub, registered, clientVars, stopVars>>

\* The clients are served; the lock is released.
Served ==
    /\ loop.at = "serve" /\ loop.todo = {}
    /\ loop' = Selecting
    /\ UNCHANGED <<sub, registered, clientVars, stopVars>>
-----------------------------------------------------------------------------
(* The clients                                                              *)

\* eventWebsocketHandler registers the client and starts its loops.
Connect(c) ==
    /\ reader[c] = "off" /\ ~Locked
    /\ registered' = registered \cup {c}
    /\ reader' = [reader EXCEPT ![c] = "read"]
    /\ writer' = [writer EXCEPT ![c] = "subscribe"]
    /\ UNCHANGED <<sub, loop, authed, filters, stopVars>>

\* The write loop subscribes to the shutdown broadcast, which Await locks.
Subscribe(c) ==
    /\ writer[c] = "subscribe" /\ main # "await"
    /\ writer' = [writer EXCEPT ![c] = "run"]
    /\ listeners' = Append(listeners, c)
    /\ UNCHANGED <<streamVars, reader, authed, filters, task, ticks, main, publish, answers>>

\* A message comes in on c's socket.
Incoming(c) ==
    /\ reader[c] = "read"
    /\ UNCHANGED <<streamVars, writer, stopVars>>

\* The client sends a valid token.
Authenticate(c) ==
    /\ Incoming(c)
    /\ authed' = [authed EXCEPT ![c] = TRUE]
    /\ UNCHANGED <<reader, filters>>

\* The client sends a token that is not valid: the read loop has an error for
\* the write loop to send.
RefuseToken(c) ==
    /\ Incoming(c)
    /\ reader' = [reader EXCEPT ![c] = "error"]
    /\ UNCHANGED <<authed, filters>>

\* The client sets its filters.
SetFilters(c) ==
    /\ Incoming(c)
    /\ \E list \in FilterLists : filters' = [filters EXCEPT ![c] = list]
    /\ UNCHANGED <<reader, authed>>

\* The read loop has closed the socket, or is about to.
Closed(c) == reader[c] \in {"closing", "unregister", "ended"}

\* A write fails, as it must on a socket closed here and may on any other (the
\* peer has left, or is slower than the deadline), or is done.
WriteMessage(c) ==
    \/ writer' = [writer EXCEPT ![c] = "ended"]
    \/ ~Closed(c) /\ UNCHANGED writer

\* The write loop takes the event the broadcaster has for it.
WriteEvent(c) ==
    /\ loop.at = "write" /\ loop.to = c /\ writer[c] = "run"
    /\ WriteMessage(c)
    /\ loop' = [loop EXCEPT !.at = "serve", !.todo = @ \ {c}]
    /\ UNCHANGED <<sub, registered, reader, authed, filters, stopVars>>

\* The write loop takes the error of the read loop, which closes the socket.
WriteErrorAndClose(c) ==
    /\ reader[c] = "error" /\ writer[c] = "run"
    /\ WriteMessage(c)
    /\ reader' = [reader EXCEPT ![c] = "closing"]
    /\ UNCHANGED <<streamVars, authed, filters, stopVars>>

\* A ping fails and the write loop returns.
PingFails(c) ==
    /\ writer[c] = "run"
    /\ writer' = [writer EXCEPT ![c] = "ended"]
    /\ UNCHANGED <<streamVars, reader, authed, filters, stopVars>>

\* A read fails (the peer has left, the socket is closed, or the read deadline
\* passes, which pongs no longer move when the pings have stopped), or brings
\* something that is not text: the read loop closes the socket.
ReadEnds(c) ==
    /\ reader[c] \in {"read", "closing"}
    /\ reader' = [reader EXCEPT ![c] = "unregister"]
    /\ UNCHANGED <<streamVars, writer, authed, filters, stopVars>>

\* Mutant: unregistering does not take the lock.
UnregisterUnlocked(c) ==
    /\ reader[c] = "unregister"
    /\ registered' = registered \ {c}
    /\ reader' = [reader EXCEPT ![c] = "ended"]
    /\ UNCHANGED <<sub, loop, writer, authed, filters, stopVars>>

\* Mutant: the read loop ends without unregistering the client.
UnregisterNot(c) ==
    /\ reader[c] = "unregister" /\ ~Locked
    /\ reader' = [reader EXCEPT ![c] = "ended"]
    /\ UNCHANGED <<sub, registered, loop, writer, authed, filters, stopVars>>

\* Its deferred function then unregisters the client, which needs the lock.
Unregister(c) ==
    /\ reader[c] = "unregister" /\ ~Locked
    /\ registered' = registered \ {c}
    /\ reader' = [reader EXCEPT ![c] = "ended"]
    /\ UNCHANGED <<sub, loop, writer, authed, filters, stopVars>>
-----------------------------------------------------------------------------
(* The other loops, and shutting down                                       *)

\* A loop of main.go has work: a retention scan, a backfill response, or
\* expired challenges to drop.
TaskStarts(t) ==
    /\ task[t] = "select"
    /\ t = "dropper" => ticks < MaxTicks
    /\ ticks' = IF t = "dropper" THEN ticks + 1 ELSE ticks
    /\ task' = [task EXCEPT ![t] = "busy"]
    /\ UNCHANGED <<streamVars, clientVars, listeners, main, publish, answers>>

\* The work is done.  The dropper then subscribes again, as it does in every
\* round of its select; its earlier channels stay listeners.
TaskDone(t) ==
    /\ task[t] = "busy"
    /\ t = "dropper" => main # "await"
    /\ listeners' = IF t = "dropper" THEN Append(listeners, t) ELSE listeners
    /\ task' = [task EXCEPT ![t] = "select"]
    /\ UNCHANGED <<streamVars, clientVars, ticks, main, publish, answers>>

\* A response the backfill response handler cannot process ends it.
HandlerFails ==
    /\ "handler" \in Tasks /\ task["handler"] = "busy"
    /\ task' = [task EXCEPT !["handler"] = "ended"]
    /\ UNCHANGED <<streamVars, clientVars, listeners, ticks, main, publish, answers>>

\* main has a signal and calls Await, which locks the listeners and starts a
\* goroutine that sends to each of them in turn.
Await ==
    /\ main = "run"
    /\ main' = "await"
    /\ publish' = [i \in 1..Len(listeners) |-> i]
    /\ UNCHANGED <<streamVars, clientVars, listeners, task, ticks, answers>>

\* The goroutine's send on the i-th channel is received.  The dropper
\* receives on its last channel only.
LastOf(x) == CHOOSE i \in 1..Len(listeners) :
                /\ listeners[i] = x
                /\ \A j \in i + 1..Len(listeners) : listeners[j] # x

Received(i) ==
    LET x == listeners[i] IN
    \/ /\ x = "broadcaster" /\ loop.at = "select"
       /\ loop' = [loop EXCEPT !.at = "answer"]
       /\ UNCHANGED <<writer, task>>
    \/ /\ x \in Tasks /\ task[x] = "select" /\ i = LastOf(x)
       /\ task' = [task EXCEPT ![x] = "answer"]
       /\ UNCHANGED <<loop, writer>>
    \/ /\ x \in Clients /\ writer[x] = "run"
       /\ writer' = [writer EXCEPT ![x] = "answer"]
       /\ UNCHANGED <<loop, task>>

Publish ==
    /\ publish # <<>> /\ Received(Head(publish))
    /\ publish' = Tail(publish)
    /\ UNCHANGED <<sub, registered, reader, authed, filters,
                   listeners, ticks, main, answers>>

\* Mutant: one answer fewer will do.
AllAnsweredEarly(n) == n >= Len(listeners) - 1

\* Await has enough answers.
AllAnswered(n) == n = Len(listeners)

\* A loop that has received sends its answer, which Await takes while it runs,
\* and returns.  Await is back when the answers are as many as the listeners.
Answer ==
    /\ main = "await"
    /\ \/ /\ loop.at = "answer"
          /\ loop' = [loop EXCEPT !.at = "ended"]
          /\ UNCHANGED <<writer, task>>
       \/ \E t \in Tasks :
             /\ task[t] = "answer"
             /\ task' = [task EXCEPT ![t] = "ended"]
             /\ UNCHANGED <<loop, writer>>
       \/ \E c \in Clients :
             /\ writer[c] = "answer"
             /\ writer' = [writer EXCEPT ![c] = "ended"]
             /\ UNCHANGED <<loop, task>>
    /\ answers' = answers + 1
    /\ main' = IF AllAnswered(answers') THEN "stopped" ELSE "await"
    /\ UNCHANGED <<sub, registered, reader, authed, filters,
                   listeners, ticks, publish>>

\* Await's timer.
AwaitTimesOut ==
    /\ main = "await"
    /\ main' = "timedOut"
    /\ UNCHANGED <<streamVars, clientVars, listeners, task, ticks, publish, answers>>
-----------------------------------------------------------------------------
Broadcaster ==
    \/ \E e \in Events : TakeEvent(e)
    \/ \E c \in Clients : Consider(c)
    \/ Match
    \/ Served

Client(c) ==
    \/ Connect(c) \/ Subscribe(c)
    \/ Authenticate(c) \/ RefuseToken(c) \/ SetFilters(c)
    \/ WriteEvent(c) \/ WriteErrorAndClose(c) \/ PingFails(c)
    \/ ReadEnds(c) \/ Unregister(c)

Next ==
    \/ \E e \in Events : StoreEvent(e)
    \/ Broadcaster
    \/ \E c \in Clients : Client(c)
    \/ \E t \in Tasks : TaskStarts(t) \/ TaskDone(t)
    \/ HandlerFails
    \/ Await \/ Publish \/ Answer \/ AwaitTimesOut

\* Every goroutine that can go on does so.  A read ends in the end on a socket
\* that is closed, and once the pings have stopped; a ping fails in the end on
\* a socket that is closed.
Fairness ==
    /\ WF_vars(Broadcaster)
    /\ \A c \in Clients :
        /\ WF_vars(Subscribe(c)) /\ WF_vars(WriteEvent(c)) /\ WF_vars(WriteErrorAndClose(c))
        /\ WF_vars(Unregister(c))
        /\ WF_vars((Closed(c) \/ writer[c] = "ended") /\ ReadEnds(c))
        /\ WF_vars(Closed(c) /\ PingFails(c))
    /\ \A t \in Tasks : WF_vars(TaskDone(t))
    /\ WF_vars(Publish) /\ WF_vars(Answer) /\ WF_vars(AwaitTimesOut)

Spec == Init /\ [][Next]_vars /\ Fairness
-----------------------------------------------------------------------------
\* The broadcaster waits for a write loop that will never take its event: it
\* has returned, or it has received the shutdown signal.
Stuck == loop.at = "write" /\ writer[loop.to] \in {"ended", "answer"}

\* A submission that reached its send on the event channel (submit.go:151)
\* returns, unless a client's write loop has returned while the client is
\* still registered and the broadcaster waits for it, or the broadcaster has
\* been told to stop.
SubmissionsReturn ==
    \A e \in Events : sub[e] = "send" ~>
        sub[e] = "done" \/ Stuck \/ loop.at \in {"answer", "ended"}

\* A client whose write loop has returned, or whose read loop has ended, is
\* unregistered in the end, unless the broadcaster is stuck with the lock or
\* the read loop waits for the write loop to take an error
\* (WriteErrorAndClose, streamclient.go:108).
ClientsLeave ==
    \A c \in Clients : writer[c] = "ended" \/ Closed(c) ~>
        c \notin registered \/ Stuck \/ (reader[c] = "error" /\ writer[c] \in {"ended", "answer"})

\* When Await returns before its timer, every loop that listened when it was
\* called has ended (wait.go:45), and that happens only if no listener was
\* left behind: the dropper has not made a round, and no client has left.
StoppedMeansStopped ==
    [][main = "await" /\ main' = "stopped" =>
         /\ loop'.at = "ended" /\ \A t \in Tasks : task'[t] = "ended"
         /\ \A c \in Clients : writer'[c] \in {"off", "subscribe", "ended"}
         /\ ticks' = 0 /\ publish' = <<>>]_vars

\* An event is handed to a client only if it is signed in and, when its
\* filters have not changed while they were read, only if they match
\* (streambroadcaster.go:78, streamclient.go:73).
OnlyWanted ==
    [][loop.at = "match" /\ loop'.at = "write" =>
         /\ authed[loop.to]
         /\ loop.list = filters[loop.to] => Wants(filters[loop.to], loop.event)]_vars
=============================================================================
