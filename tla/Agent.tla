------------------------------- MODULE Agent -------------------------------
(***************************************************************************)
(* The Windows agent (src/agent): it subscribes to an event channel,      *)
(* submits every new event to the blockchain and then its data to the      *)
(* off-chain nodes, and keeps what failed in two retry queues on disk.     *)
(*                                                                         *)
(* Concurrent parts: one task per delivered event (handle_event), one      *)
(* listener task and one retry loop per queue, and the success callbacks   *)
(* the blockchain loop spawns.  State on disk is a sled database that      *)
(* flushes in the background: a crash returns to the last flushed state.   *)
(*                                                                         *)
(* An item is <<e, k>>: the k-th on-chain copy of event e, and <<e, 0>>    *)
(* for event e before it is confirmed on the chain.  A second submission   *)
(* of an event makes a second copy: its identifier is hashed with the      *)
(* block height, so the chain does not recognise it.                       *)
(***************************************************************************)
EXTENDS Naturals, Sequences, FiniteSets, FiniteSetsExt, Functions

CONSTANTS
    Log,                   \* the channel's events in order: [id, time]
    RetrievePastEvents,    \* config.retrieve_past_events
    MaxQueueSize,          \* max_retry_queue_size of both queues
    BackoffLen,            \* number of retry_intervals of both queues
    Clients,               \* number of nodes configured for each service
    VerificationCount,     \* verification_client_count
    MinimumCount,          \* minimum_verification_client_count
    AllowSelf,             \* allow_self_verification
    MaxResubmits,          \* max_resubmits
    MaxFaults,             \* bound: stops, and submissions and state DB calls that fail
    MaxStops               \* bound: stops of the agent

ASSUME AgentAssumption ==
    /\ Log \in Seq([id : Nat, time : Nat])
    /\ RetrievePastEvents \in BOOLEAN /\ AllowSelf \in BOOLEAN
    /\ {MaxQueueSize, BackoffLen, Clients, VerificationCount} \subseteq Nat \ {0}
    /\ {MinimumCount, MaxResubmits, MaxFaults, MaxStops} \subseteq Nat

Events == 1..Len(Log)
Queues == {"chain", "offchain"}

VARIABLES
    written,     \* events the channel holds so far
    up,          \* the agent runs
    next,        \* next event the subscription delivers
    task,        \* handle_event of each event: where it is, the copy it made
    latest,      \* the latest record in the state DB, 0 for none
    queue,       \* the two disk queues: key -> [item, attempts]
    nextKey,     \* db.generate_id
    disk,        \* latest and queue as last flushed
    chan,        \* the two in-memory retry channels
    loop,        \* retry loop of each queue: the entry it is retrying
    callbacks,   \* copies whose success callback is running
    copies,      \* number of on-chain copies of each event
    confirmed,   \* copies whose submission returned Ok
    offchain,    \* copies whose data the off-chain nodes hold
    seen,        \* history: events delivered at some time
    lost,        \* history: items given up for one of the known causes
    revived,     \* history: evicted entries put back by update
    faults,      \* failures so far
    stops        \* stops so far

dbVars == <<latest, queue, nextKey>>
memVars == <<task, chan, loop, callbacks>>
worldVars == <<copies, confirmed, offchain>>
logVars == <<written, up, next>>
histVars == <<seen, lost, revived>>
boundVars == <<faults, stops>>
vars == <<dbVars, memVars, worldVars, logVars, histVars, boundVars, disk>>

-----------------------------------------------------------------------------
(* VerifyingClient *)

\* The clients that verify a result when `alive` of them pass the health
\* check: others than the one that ran the task, and that one as well when
\* they are too few and it may verify itself.
Verifiers(alive) ==
    LET others == Min({alive - 1, VerificationCount})
    IN  IF others < VerificationCount /\ AllowSelf THEN others + 1 ELSE others

\* Results of one run: whether the task took effect, and the verdict.  The
\* task can fail after it took effect: the transaction was broadcast and its
\* lookup timed out, or the HTTP response was lost.
RunOnce ==
    LET Aborts == {[sent |-> 0, verdict |-> "error"]}
        Fails == {[sent |-> 1, verdict |-> "error"]}
        Verified(v) == {[sent |-> 1, verdict |-> "ok"]} \cup
                       {[sent |-> 1, verdict |-> w] : w \in IF v > 0 THEN {"unverified"} ELSE {}}
    IN  UNION {IF alive = 0 THEN Aborts
               ELSE Aborts \cup Fails \cup
                    IF alive - 1 < VerificationCount /\ Verifiers(alive) < MinimumCount
                    THEN {} ELSE Verified(Verifiers(alive)) : alive \in 0..Clients}

\* Results of run: how often the task took effect, and whether it returned
\* Ok.  Only a failed verification is resubmitted.
Run[retries \in Nat] ==
    IF retries = 0
    THEN {[sent |-> 0, ok |-> FALSE]}
    ELSE UNION {IF r.verdict = "unverified"
                THEN {[sent |-> r.sent + s.sent, ok |-> s.ok] : s \in Run[retries - 1]}
                ELSE {[sent |-> r.sent, ok |-> r.verdict = "ok"]} : r \in RunOnce}

Results == Run[MaxResubmits + 1]

-----------------------------------------------------------------------------
(* The disk queue *)

\* Mutant: the queue grows one entry past its limit before it evicts.
EvictedLate(q) ==
    IF Cardinality(DOMAIN queue[q]) > MaxQueueSize
    THEN {Min(DOMAIN queue[q])} ELSE {}

\* push: the oldest entry makes room when the queue is full.
Evicted(q) ==
    IF Cardinality(DOMAIN queue[q]) >= MaxQueueSize
    THEN {Min(DOMAIN queue[q])} ELSE {}

Push(q, item) ==
    LET kept == Restrict(queue[q], DOMAIN queue[q] \ Evicted(q))
    IN  /\ queue' = [queue EXCEPT ![q] =
              [k \in DOMAIN kept \cup {nextKey} |->
                  IF k = nextKey THEN [item |-> item, attempts |-> 0] ELSE kept[k]]]
        /\ nextKey' = nextKey + 1

\* Mutant: a retried entry stays in the queue.
RemovedNot(q, key) == queue

Removed(q, key) == [queue EXCEPT ![q] = Restrict(@, DOMAIN @ \ {key})]

\* update inserts, whether or not the key is still there.
Updated(q, key, entry) ==
    [queue EXCEPT ![q] = [k \in DOMAIN @ \cup {key} |-> IF k = key THEN entry ELSE @[k]]]

-----------------------------------------------------------------------------
Idle == [at |-> "none", copy |-> 0]
NoEntry == [key |-> 0]
QueuedItems(q) == {queue[q][k].item : k \in DOMAIN queue[q]}
RetriedItems(q) == IF loop[q] = NoEntry THEN {} ELSE {loop[q].entry.item}
HeldItems(q) == Range(chan[q]) \cup QueuedItems(q) \cup RetriedItems(q)

\* Event e has a confirmed copy, or the blockchain queue will submit it.
Safe(e) == <<e, 0>> \in HeldItems("chain") \/ \E c \in confirmed : c[1] = e

Init ==
    /\ written = 0 /\ up = TRUE /\ next = 1
    /\ task = [e \in Events |-> Idle]
    /\ latest = 0
    /\ queue = [q \in Queues |-> <<>>] /\ nextKey = 1
    /\ disk = [latest |-> 0, queue |-> queue]
    /\ chan = [q \in Queues |-> <<>>]
    /\ loop = [q \in Queues |-> NoEntry]
    /\ callbacks = {}
    /\ copies = [e \in Events |-> 0]
    /\ confirmed = {} /\ offchain = {}
    /\ seen = {} /\ lost = {} /\ revived = [q \in Queues |-> 0]
    /\ faults = 0 /\ stops = 0

\* A failure is counted: the nodes and the state DB fail finitely often.
Fault(failed) ==
    /\ failed => faults + stops < MaxFaults
    /\ faults' = IF failed THEN faults + 1 ELSE faults

\* blockchain_client.submit: the copies it adds to the chain.  The copy it
\* returns the metadata of is the last one.
SubmitToChain(e, r) ==
    /\ copies' = [copies EXCEPT ![e] = @ + r.sent]
    /\ confirmed' = IF r.ok THEN confirmed \cup {<<e, copies'[e]>>} ELSE confirmed

\* offchain_client.submit: storing the data twice has no effect.
SubmitOffChain(copy, r) ==
    offchain' = IF r.sent > 0 THEN offchain \cup {copy} ELSE offchain

\* Windows adds an event to the channel.
LogEvent ==
    /\ written < Len(Log)
    /\ written' = written + 1
    /\ UNCHANGED <<dbVars, memVars, worldVars, up, next, histVars, boundVars, disk>>

\* The subscription callback: the event loop spawns a task for the event.
Deliver ==
    /\ up /\ next <= written
    /\ task' = [task EXCEPT ![next] = [at |-> "new", copy |-> 0]]
    /\ next' = next + 1
    /\ seen' = seen \cup {next}
    /\ UNCHANGED <<dbVars, chan, loop, callbacks, worldVars, written, up, lost, revived, boundVars, disk>>

-----------------------------------------------------------------------------
(* handle_event *)

IsNew(e) ==
    \/ latest = 0
    \/ Log[e].id > Log[latest].id
    \/ Log[e].time > Log[latest].time

\* An event that is not new is skipped, and so is one whose lookup fails.
CheckNew(e, failed) ==
    /\ task[e].at = "new"
    /\ Fault(failed)
    /\ task' = [task EXCEPT ![e] = IF IsNew(e) /\ ~failed THEN [at |-> "submit", copy |-> 0] ELSE Idle]
    /\ lost' = IF (IsNew(e) /\ ~failed) \/ Safe(e) THEN lost ELSE lost \cup {<<e, 0>>}
    /\ UNCHANGED <<dbVars, chan, loop, callbacks, worldVars, logVars, seen, revived, stops, disk>>

\* A failed submission is sent to the retry channel.
Submit(e) ==
    /\ task[e].at = "submit"
    /\ \E r \in Results :
          /\ Fault(~r.ok)
          /\ SubmitToChain(e, r)
          /\ task' = [task EXCEPT ![e] = [at |-> "record", copy |-> IF r.ok THEN copies'[e] ELSE 0]]
          /\ chan' = IF r.ok THEN chan ELSE [chan EXCEPT !["chain"] = Append(@, <<e, 0>>)]
    /\ UNCHANGED <<dbVars, loop, callbacks, offchain, logVars, histVars, stops, disk>>

\* The latest record is stored whatever the submission returned; the task
\* goes on only with a confirmed copy and a stored record.
StoreLatest(e, failed) ==
    /\ task[e].at = "record"
    /\ Fault(failed)
    /\ latest' = IF failed THEN latest ELSE e
    /\ task' = [task EXCEPT ![e] =
          IF failed \/ @.copy = 0 THEN Idle ELSE [at |-> "store", copy |-> @.copy]]
    /\ lost' = IF failed /\ task[e].copy # 0 THEN lost \cup {<<e, task[e].copy>>} ELSE lost
    /\ UNCHANGED <<queue, nextKey, chan, loop, callbacks, worldVars, logVars, seen, revived, stops, disk>>

StoreOffChain(e) ==
    /\ task[e].at = "store"
    /\ \E r \in Results :
          /\ Fault(~r.ok)
          /\ SubmitOffChain(<<e, task[e].copy>>, r)
          /\ chan' = IF r.ok THEN chan
                     ELSE [chan EXCEPT !["offchain"] = Append(@, <<e, task[e].copy>>)]
    /\ task' = [task EXCEPT ![e] = Idle]
    /\ UNCHANGED <<dbVars, loop, callbacks, copies, confirmed, logVars, histVars, stops, disk>>

-----------------------------------------------------------------------------
(* The retry queues *)

\* The channel listener pushes a message into its queue; a state DB error
\* drops it, before or after the oldest entry has made room for it.
PushQueued(q, failed) ==
    /\ up /\ chan[q] # <<>>
    /\ Fault(failed)
    /\ chan' = [chan EXCEPT ![q] = Tail(@)]
    /\ IF failed
       THEN /\ \E out \in {{}, Evicted(q)} :
                 /\ queue' = [queue EXCEPT ![q] = Restrict(@, DOMAIN @ \ out)]
                 /\ lost' = lost \cup {Head(chan[q])} \cup {queue[q][k].item : k \in out}
            /\ UNCHANGED nextKey
       ELSE /\ Push(q, Head(chan[q]))
            /\ lost' = lost \cup {queue[q][k].item : k \in Evicted(q)}
    /\ UNCHANGED <<latest, task, loop, callbacks, worldVars, logVars, seen, revived, stops, disk>>

\* Mutant: the first interval is looked up one too low and never found.
FindDueSkipsFirst(q, key) ==
    /\ up /\ loop[q] = NoEntry
    /\ key \in DOMAIN queue[q] /\ queue[q][key].attempts > 0
    /\ loop' = [loop EXCEPT ![q] = [key |-> key, entry |-> queue[q][key]]]
    /\ UNCHANGED <<dbVars, task, chan, callbacks, worldVars, logVars, histVars, boundVars, disk>>

\* The loop finds an entry that is due.  Which entries are due is left open,
\* so that any entry can be the next one the iterator stops at.
FindDue(q, key) ==
    /\ up /\ loop[q] = NoEntry
    /\ key \in DOMAIN queue[q]
    /\ loop' = [loop EXCEPT ![q] = [key |-> key, entry |-> queue[q][key]]]
    /\ UNCHANGED <<dbVars, task, chan, callbacks, worldVars, logVars, histVars, boundVars, disk>>

\* Mutant: an entry is kept after its last attempt.
AfterAttemptLate(q, key, entry, ok) ==
    IF ~ok /\ entry.attempts + 1 <= BackoffLen
    THEN Updated(q, key, [entry EXCEPT !.attempts = @ + 1])
    ELSE Removed(q, key)

\* Mutant: the first failed attempt removes the entry.
AfterAttemptDrop(q, key, entry, ok) == Removed(q, key)

\* What attempt_retry_and_update does to the queue: the entry leaves it on
\* success and on the last failure, and comes back with one more attempt
\* otherwise.
AfterAttempt(q, key, entry, ok) ==
    IF ~ok /\ entry.attempts + 1 < BackoffLen
    THEN Updated(q, key, [entry EXCEPT !.attempts = @ + 1])
    ELSE Removed(q, key)

\* One attempt.  The success callback of the blockchain queue submits the
\* data; a queue that cannot be written makes the attempt an error.
Attempt(q, dbFails) ==
    /\ up /\ loop[q] # NoEntry
    /\ LET key == loop[q].key
           entry == loop[q].entry
           item == entry.item
       IN  \E r \in Results :
             /\ Fault(~r.ok \/ dbFails)
             /\ IF q = "chain"
                THEN SubmitToChain(item[1], r) /\ UNCHANGED offchain
                ELSE SubmitOffChain(item, r) /\ UNCHANGED <<copies, confirmed>>
             /\ queue' = IF dbFails THEN queue ELSE AfterAttempt(q, key, entry, r.ok)
             /\ callbacks' = IF q = "chain" /\ r.ok /\ ~dbFails
                             THEN callbacks \cup {<<item[1], copies'[item[1]]>>} ELSE callbacks
             /\ lost' = lost \cup
                   (IF ~r.ok /\ ~dbFails /\ entry.attempts + 1 >= BackoffLen THEN {item} ELSE {}) \cup
                   (IF dbFails /\ q = "chain" /\ r.ok THEN {<<item[1], copies'[item[1]]>>} ELSE {})
             /\ revived' = [revived EXCEPT ![q] =
                   @ + Cardinality(DOMAIN queue'[q] \ DOMAIN queue[q])]
    /\ loop' = [loop EXCEPT ![q] = NoEntry]
    /\ UNCHANGED <<latest, nextKey, task, chan, logVars, seen, stops, disk>>

\* Mutant: a submission that fails in the callback is only logged.
CallbackForgets(copy) ==
    /\ copy \in callbacks
    /\ \E r \in Results : Fault(~r.ok) /\ SubmitOffChain(copy, r)
    /\ callbacks' = callbacks \ {copy}
    /\ UNCHANGED <<dbVars, task, chan, loop, copies, confirmed, logVars, histVars, stops, disk>>

\* The success callback: a failed submission goes to the off-chain channel.
Callback(copy) ==
    /\ copy \in callbacks
    /\ \E r \in Results :
          /\ Fault(~r.ok)
          /\ SubmitOffChain(copy, r)
          /\ chan' = IF r.ok THEN chan ELSE [chan EXCEPT !["offchain"] = Append(@, copy)]
    /\ callbacks' = callbacks \ {copy}
    /\ UNCHANGED <<dbVars, task, loop, copies, confirmed, logVars, histVars, stops, disk>>

-----------------------------------------------------------------------------
(* The process and its disk *)

\* sled flushes in the background.
Flush ==
    /\ up /\ stops < MaxStops /\ faults + stops < MaxFaults
    /\ disk # [latest |-> latest, queue |-> queue]
    /\ disk' = [latest |-> latest, queue |-> queue]
    /\ UNCHANGED <<dbVars, memVars, worldVars, logVars, histVars, boundVars>>

InMemory ==
    {<<e, task[e].copy>> : e \in {d \in Events : task[d].at # "none"}}
    \cup callbacks
    \cup UNION {HeldItems(q) : q \in Queues}

\* The agent stops: on Ctrl-C it flushes the state DB first, in a crash the
\* database goes back to the last flush.  Everything in memory is gone.
Stop(flushed) ==
    /\ up /\ stops < MaxStops /\ faults + stops < MaxFaults
    /\ up' = FALSE
    /\ stops' = stops + 1
    /\ disk' = IF flushed THEN [latest |-> latest, queue |-> queue] ELSE disk
    /\ latest' = disk'.latest
    /\ queue' = disk'.queue
    /\ task' = [e \in Events |-> Idle]
    /\ chan' = [q \in Queues |-> <<>>]
    /\ loop' = [q \in Queues |-> NoEntry]
    /\ callbacks' = {}
    /\ lost' = lost \cup
          (InMemory \ UNION {{queue'[q][k].item : k \in DOMAIN queue'[q]} : q \in Queues})
    /\ UNCHANGED <<nextKey, worldVars, written, next, seen, revived, faults>>

\* It starts again: the subscription begins with the oldest record, or with
\* the next event that is written.
Start ==
    /\ ~up
    /\ up' = TRUE
    /\ next' = IF RetrievePastEvents THEN 1 ELSE written + 1
    /\ UNCHANGED <<dbVars, memVars, worldVars, written, histVars, boundVars, disk>>

Handle(e) ==
    \/ \E failed \in BOOLEAN : CheckNew(e, failed) \/ StoreLatest(e, failed)
    \/ Submit(e)
    \/ StoreOffChain(e)

Retry(q) ==
    \/ \E failed \in BOOLEAN : PushQueued(q, failed) \/ Attempt(q, failed)
    \/ \E key \in DOMAIN queue[q] : FindDue(q, key)

Next ==
    \/ LogEvent
    \/ Deliver
    \/ \E e \in Events : Handle(e)
    \/ \E q \in Queues : Retry(q)
    \/ \E c \in callbacks : Callback(c)
    \/ Flush
    \/ \E flushed \in BOOLEAN : Stop(flushed)
    \/ Start

Spec == Init /\ [][Next]_vars

\* While it runs, the agent's tasks go on: tokio schedules them, every
\* request has a timeout, and the subscription delivers what the channel
\* holds.  Nothing is assumed of stops, starts and flushes.
FairSpec ==
    /\ Spec
    /\ WF_vars(Deliver)
    /\ \A e \in Events : WF_vars(Handle(e))
    /\ \A q \in Queues : WF_vars(Retry(q))
    /\ WF_vars(\E c \in callbacks : Callback(c))

-----------------------------------------------------------------------------
(* Properties *)

Items == Events \X Nat
Entries == [item : Items, attempts : 0..BackoffLen - 1]

InHand == InMemory \cup UNION {QueuedItems(q) : q \in Queues}

\* The state is well formed.  An entry never holds as many attempts as there
\* are intervals, so that backoff.get always finds one (retry_queue.rs:117),
\* and the blockchain queue holds events while the other one holds copies.
TypeOK ==
    /\ written \in 0..Len(Log) /\ up \in BOOLEAN /\ next \in 1..Len(Log) + 1
    /\ \A e \in Events : task[e].at \in {"none", "new", "submit", "record", "store"}
    /\ latest \in 0..Len(Log) /\ nextKey \in Nat \ {0}
    /\ \A q \in Queues : /\ \A k \in DOMAIN queue[q] : k < nextKey /\ queue[q][k] \in Entries
                         /\ \A i \in HeldItems(q) : (i[2] = 0) = (q = "chain")
    /\ callbacks \subseteq confirmed
    /\ \A c \in confirmed : c[2] \in 1..copies[c[1]]
    /\ seen \subseteq Events /\ faults \in 0..MaxFaults /\ stops \in 0..MaxStops

\* Every event the agent was ever given has a confirmed on-chain copy, or is
\* in a task, a channel or the blockchain queue, or was given up for one of
\* the causes the code knows: the full queue evicted it, its attempts ran out,
\* a later event's record overtook it, the state DB failed, or the agent
\* stopped while only its memory held it.
EventsAccounted ==
    \A e \in seen : <<e, 0>> \in InHand \cup lost \/ \E c \in confirmed : c[1] = e

\* Every confirmed on-chain copy has its data off-chain, or a task, callback,
\* channel or the off-chain queue will submit it, or it was given up for one of
\* those causes: a retry loop, a callback and a crash never lose it between
\* them.
CopiesAccounted ==
    \A c \in confirmed : c \in offchain \cup InHand \cup lost

\* A queue exceeds max_retry_queue_size only by entries that were evicted
\* during their own retry and put back by update (disk_queue.rs:75).
QueueBounded ==
    \A q \in Queues : Cardinality(DOMAIN queue[q]) <= MaxQueueSize + revived[q]

\* While the agent runs an event is confirmed at most once, however its task,
\* the queue and the loop interleave.  A stop lets each surviving entry and one
\* new delivery confirm it again, and a failed removal one more retry.
ConfirmedOncePerRun ==
    \A e \in Events :
        Cardinality({c \in confirmed : c[1] = e}) <=
            ((stops + 1) * (stops + 2)) \div 2
            + Cardinality({c \in lost : c[1] = e /\ c[2] > 0})

\* An event in hand ends up on the chain and off-chain, or is given up, as
\* long as the agent stays up: no task, channel, queue or loop keeps it for
\* ever.
Settles ==
    \A e \in Events :
        (up /\ <<e, 0>> \in InHand) ~>
            \/ ~up
            \/ \E c \in confirmed \cap offchain : c[1] = e
            \/ \E i \in lost : i[1] = e
=============================================================================
