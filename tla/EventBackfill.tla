--------------------------- MODULE EventBackfill ---------------------------
(***************************************************************************)
(* How an off-chain node gets the data of the events it has marked as      *)
(* missing: the event backfill loop (StartEventBackfillLoop,               *)
(* handleMissingEvent), the handler of backfill responses, and submissions *)
(* (Server.StoreEvent, for agents and for events broadcast by peers).  All *)
(* of them run concurrently over the state store and the event repository. *)
(*                                                                         *)
(* The listener and the block backfill loop appear as Notice, which marks  *)
(* an event, any number of times.  A peer that has an event answers a      *)
(* request for it; requests and responses may be lost and repeated.        *)
(***************************************************************************)
EXTENDS StateStore, Sequences, FiniteSetsExt

CONSTANTS
    NoEvent,                  \* not an event
    PeerEvents,               \* the events some peer has stored
    EventFetchChunkSize,      \* markers read at a time
    EventMaxRetries,
    EventRetryInterval,
    NewEventIgnoreThreshold,
    TryUnicastFirst,
    StoreCanFail,             \* whether a state store operation may return an error
    HandlerCanFail,           \* whether a backfill response may fail to be processed
    MaxFaults,                \* bound: errors
    MaxLosses                 \* bound: crashes and lost messages

ASSUME EventBackfillAssumption ==
    /\ NoEvent \notin EventIds
    /\ PeerEvents \subseteq EventIds
    /\ EventFetchChunkSize \in Nat \ {0}
    /\ {EventMaxRetries, EventRetryInterval, NewEventIgnoreThreshold} \subseteq Nat
    /\ {MaxFaults, MaxLosses} \subseteq Nat
    /\ {TryUnicastFirst, StoreCanFail, HandlerCanFail} \subseteq BOOLEAN

VARIABLES
    now,         \* the clock
    repo,        \* events stored in the event repository
    phase,       \* what the event backfill loop does next
    after,       \* the last key of the batch before
    batch,       \* the loop's copy of the records of the batch, those yet to be handled
    full,        \* whether the batch had EventFetchChunkSize records
    multicast,   \* multicastBuffer
    unicast,     \* unicastBuffer
    counted,     \* how many of the buffer's retries have been counted
    requests,    \* events peers have been asked for
    responses,   \* backfilled events waiting for the handler
    handlerUp,   \* whether the handler's goroutine is running
    handling,    \* the event it has stored and not yet unmarked, or NoEvent
    submitting,  \* events stored by StoreEvent and not yet unmarked
    marked,      \* history: event -> time it was first marked
    markings,    \* history: how often an event was marked
    askedAt,     \* history: the times an event was asked for
    unicasts,    \* history: unicast requests for an event
    tries,       \* history: retries ever counted for an event
    faults, losses

pollVars == <<phase, after, batch, full, multicast, unicast, counted>>
netVars == <<requests, responses>>
handlerVars == <<handlerUp, handling>>
historyVars == <<marked, markings, askedAt, unicasts, tries>>
faultVars == <<faults, losses>>
vars == <<storeVars, now, repo, pollVars, netVars, handlerVars, submitting, historyVars, faultVars>>

Init ==
    /\ StoreInit
    /\ now \in {t \in Times : \A u \in Times : t <= u}
    /\ repo = {}
    /\ phase = "idle"
    /\ after = NoKey
    /\ batch = Empty
    /\ full = FALSE
    /\ multicast = <<>>
    /\ unicast = <<>>
    /\ counted = 0
    /\ requests = {}
    /\ responses = {}
    /\ handlerUp = TRUE
    /\ handling = NoEvent
    /\ submitting = {}
    /\ marked = Empty
    /\ markings = [e \in EventIds |-> 0]
    /\ askedAt = [e \in EventIds |-> <<>>]
    /\ unicasts = [e \in EventIds |-> 0]
    /\ tries = [e \in EventIds |-> 0]
    /\ faults = 0 /\ losses = 0

Fault == faults < MaxFaults /\ faults' = faults + 1 /\ UNCHANGED losses
Loss == losses < MaxLosses /\ losses' = losses + 1 /\ UNCHANGED faults
StoreError == StoreCanFail /\ Fault /\ UNCHANGED storeVars

Tick ==
    /\ now + 1 \in Times
    /\ now' = now + 1
    /\ UNCHANGED <<storeVars, repo, pollVars, netVars, handlerVars, submitting, historyVars, faultVars>>

\* ListenForMissedItems or handleBacklogChunk marks an event.
Notice(e) ==
    /\ eventCounter < MaxCount
    /\ \E h \in Heights : AddMissingEvents(NewMissingEvent(e, now, h))
    /\ marked' = IF e \in DOMAIN marked THEN marked ELSE Put(marked, e, now)
    /\ markings' = [markings EXCEPT ![e] = @ + 1]
    /\ UNCHANGED <<now, repo, pollVars, netVars, handlerVars, submitting, askedAt, unicasts, tries,
                   faultVars>>

-----------------------------------------------------------------------------
(* The event backfill loop                                                 *)

\* Mutant: a poll goes on from where the last one ended.
PollEventsResume ==
    /\ phase = "idle"
    /\ phase' = "fetch"
    /\ UNCHANGED <<storeVars, now, repo, after, batch, full, multicast, unicast, counted, netVars,
                   handlerVars, submitting, historyVars, faultVars>>

PollEvents ==
    /\ phase = "idle"
    /\ phase' = "fetch"
    /\ after' = NoKey
    /\ UNCHANGED <<storeVars, now, repo, batch, full, multicast, unicast, counted, netVars,
                   handlerVars, submitting, historyVars, faultVars>>

\* The next page of markers; after a read error the loop reads again at once.
FetchBatch ==
    /\ phase = "fetch"
    /\ LET keys == MissingEvents(after, EventFetchChunkSize)
       IN  IF keys = {}
           THEN phase' = "idle" /\ UNCHANGED <<after, batch, full>>
           ELSE /\ phase' = "handle"
                /\ after' = Max(keys)
                /\ batch' = [k \in keys |-> missingEvents[k]]
                /\ full' = (Cardinality(keys) = EventFetchChunkSize)
    /\ multicast' = <<>> /\ unicast' = <<>> /\ counted' = 0
    /\ UNCHANGED <<storeVars, now, repo, netVars, handlerVars, submitting, historyVars, faultVars>>

\* Mutants: the threshold left out; the retry limit off by one, each way.
NotYetReceived(ev) == ev.receivedTime > now
GiveUpLate(ev) == ev.retryCount > EventMaxRetries
GiveUpEarly(ev) == ev.retryCount + 1 >= EventMaxRetries

\* handleMissingEvent, on the copy ev read with the batch.
TooNew(ev) == ev.receivedTime > now - NewEventIgnoreThreshold
GiveUp(ev) == ev.retryCount >= EventMaxRetries
RetriedRecently(ev) == now < ev.lastRetryTime + EventRetryInterval
UseUnicast(ev) == TryUnicastFirst /\ ~ev.retriedUnicast

Unmark(e) == (RemoveMissingEvent(e) /\ UNCHANGED faultVars) \/ StoreError

HandleMissingEvent(ev) ==
    \/ /\ Fault  \* the repository cannot be read
       /\ UNCHANGED <<storeVars, multicast, unicast>>
    \/ /\ ev.eventId \in repo \/ (~TooNew(ev) /\ GiveUp(ev))
       /\ Unmark(ev.eventId)
       /\ UNCHANGED <<multicast, unicast>>
    \/ /\ ev.eventId \notin repo
       /\ TooNew(ev) \/ (~GiveUp(ev) /\ RetriedRecently(ev))
       /\ UNCHANGED <<storeVars, multicast, unicast, faultVars>>
    \/ /\ ev.eventId \notin repo
       /\ ~TooNew(ev) /\ ~GiveUp(ev) /\ ~RetriedRecently(ev)
       /\ IF UseUnicast(ev)
          THEN unicast' = Append(unicast, ev.eventId) /\ UNCHANGED multicast
          ELSE multicast' = Append(multicast, ev.eventId) /\ UNCHANGED unicast
       /\ UNCHANGED <<storeVars, faultVars>>

HandleNext ==
    /\ phase = "handle"
    /\ \E k \in DOMAIN batch :
          /\ \A j \in DOMAIN batch : k <= j
          /\ HandleMissingEvent(batch[k]) /\ batch' = Delete(batch, k)
    /\ phase' = IF DOMAIN batch' = {} THEN "multicast" ELSE "handle"
    /\ UNCHANGED <<now, repo, after, full, counted, netVars, handlerVars, submitting, historyVars>>

\* The retries of a buffer are counted one transaction at a time before its
\* request is sent; one that cannot be counted is logged and sent all the same.
CountRetry(buffer) ==
    /\ counted < Len(buffer)
    /\ LET e == buffer[counted + 1]
       IN  \/ /\ IncrementMissingEventRetryCount(e, now)
              /\ tries' = [tries EXCEPT ![e] = @ + 1]
              /\ UNCHANGED faultVars
           \/ ~CanIncrement(e) /\ UNCHANGED <<storeVars, tries, faultVars>>
           \/ StoreError /\ UNCHANGED tries
    /\ counted' = counted + 1
    /\ UNCHANGED <<now, repo, phase, after, batch, full, multicast, unicast, netVars,
                   handlerVars, submitting, marked, markings, askedAt, unicasts>>

CountRetries ==
    \/ phase = "multicast" /\ CountRetry(multicast)
    \/ phase = "unicast" /\ CountRetry(unicast)

Listed(buffer) == {buffer[i] : i \in DOMAIN buffer}

Send(buffer) ==
    /\ requests' = requests \cup Listed(buffer)
    /\ askedAt' = [e \in EventIds |-> IF e \in Listed(buffer) THEN Append(askedAt[e], now)
                                      ELSE askedAt[e]]

\* Broadcast only hands the message to the transport, and does not fail.
Broadcast ==
    /\ phase = "multicast" /\ counted = Len(multicast)
    /\ Send(multicast)
    /\ phase' = "unicast" /\ counted' = 0
    /\ UNCHANGED <<storeVars, now, repo, after, batch, full, multicast, unicast, responses,
                   handlerVars, submitting, marked, markings, unicasts, tries, faultVars>>

\* A failed unicast ends the batch; the loop then reads the next one even when
\* this one was not full.
UnicastRandomNeighbour ==
    /\ phase = "unicast" /\ counted = Len(unicast)
    /\ \/ /\ Send(unicast)
          /\ unicasts' = [e \in EventIds |-> unicasts[e] + IF e \in Listed(unicast) THEN 1 ELSE 0]
          /\ phase' = IF full THEN "fetch" ELSE "idle"
          /\ UNCHANGED faultVars
       \/ /\ unicast # <<>> /\ Fault
          /\ phase' = "fetch"
          /\ UNCHANGED <<requests, askedAt, unicasts>>
    /\ UNCHANGED <<storeVars, now, repo, after, batch, full, multicast, unicast, counted, responses,
                   handlerVars, submitting, marked, markings, tries>>

-----------------------------------------------------------------------------
(* Peers                                                                   *)

\* Mutant: a peer answers for an event it does not have.
PeerAnswersAnyway(e) ==
    /\ e \in requests
    /\ responses' = responses \cup {e}
    /\ UNCHANGED <<storeVars, now, repo, pollVars, requests, handlerVars, submitting, historyVars, faultVars>>

\* EventRequestHandler on a peer that has the event; other peers may answer too.
PeerAnswers(e) ==
    /\ e \in requests /\ e \in PeerEvents
    /\ responses' = responses \cup {e}
    /\ requests' \in {requests, requests \ {e}}
    /\ UNCHANGED <<storeVars, now, repo, pollVars, handlerVars, submitting, historyVars, faultVars>>

Lose(e) ==
    /\ Loss
    /\ \/ e \in requests /\ requests' = requests \ {e} /\ UNCHANGED responses
       \/ e \in responses /\ responses' = responses \ {e} /\ UNCHANGED requests
    /\ UNCHANGED <<storeVars, now, repo, pollVars, handlerVars, submitting, historyVars>>

-----------------------------------------------------------------------------
(* startBackfillResponseHandlerLoop                                        *)

TakeResponse(e) ==
    /\ handlerUp /\ handling = NoEvent
    /\ e \in responses /\ responses' = responses \ {e}

HandleResponse(e) ==
    /\ TakeResponse(e)
    /\ repo' = repo \cup {e}
    /\ handling' = e
    /\ UNCHANGED <<storeVars, now, pollVars, requests, handlerUp, submitting, historyVars, faultVars>>

\* The transaction cannot be fetched, the data does not match it, or the
\* repository fails: the goroutine returns.
HandlerFails(e) ==
    /\ HandlerCanFail /\ Fault
    /\ TakeResponse(e)
    /\ handlerUp' = FALSE
    /\ UNCHANGED <<storeVars, now, repo, pollVars, requests, handling, submitting, historyVars>>

HandlerUnmarks ==
    /\ handling # NoEvent
    /\ \/ RemoveMissingEvent(handling) /\ UNCHANGED <<handlerUp, faultVars>>
       \/ StoreError /\ handlerUp' = FALSE
    /\ handling' = NoEvent
    /\ UNCHANGED <<now, repo, pollVars, netVars, submitting, historyVars>>

-----------------------------------------------------------------------------
(* StoreEvent                                                              *)

StoreEvent(e) ==
    /\ e \notin submitting
    /\ repo' = repo \cup {e}
    /\ submitting' = submitting \cup {e}
    /\ UNCHANGED <<storeVars, now, pollVars, netVars, handlerVars, historyVars, faultVars>>

StoreEventUnmarks(e) ==
    /\ e \in submitting
    /\ Unmark(e)
    /\ submitting' = submitting \ {e}
    /\ UNCHANGED <<now, repo, pollVars, netVars, handlerVars, historyVars>>

-----------------------------------------------------------------------------

\* The process stops, wherever its goroutines are, and starts again.
Crash ==
    /\ Loss
    /\ phase' = "idle" /\ after' = NoKey /\ batch' = Empty /\ full' = FALSE
    /\ multicast' = <<>> /\ unicast' = <<>> /\ counted' = 0
    /\ responses' = {} /\ handlerUp' = TRUE /\ handling' = NoEvent /\ submitting' = {}
    /\ UNCHANGED <<storeVars, now, repo, requests, historyVars>>

Loop == PollEvents \/ FetchBatch \/ HandleNext \/ CountRetries \/ Broadcast \/ UnicastRandomNeighbour

Next ==
    \/ Tick
    \/ Loop
    \/ HandlerUnmarks
    \/ Crash
    \/ \E e \in EventIds :
          \/ Notice(e) \/ PeerAnswers(e) \/ Lose(e)
          \/ HandleResponse(e) \/ HandlerFails(e)
          \/ StoreEvent(e) \/ StoreEventUnmarks(e)

Spec == Init /\ [][Next]_vars

\* The goroutines of the node are scheduled, and a peer answers what it is asked.
FairSpec ==
    /\ Spec
    /\ WF_vars(Loop)
    /\ WF_vars(HandlerUnmarks)
    /\ \A e \in EventIds : WF_vars(StoreEventUnmarks(e)) /\ WF_vars(PeerAnswers(e))
                           /\ SF_vars(HandleResponse(e))

-----------------------------------------------------------------------------
(* Properties                                                              *)

\* Every variable has its type.
TypeOK ==
    /\ StoreTypeOK
    /\ now \in Times
    /\ repo \subseteq EventIds
    /\ phase \in {"idle", "fetch", "handle", "multicast", "unicast"}
    /\ after \in 0..eventCounter
    /\ DOMAIN batch \subseteq 1..eventCounter /\ batch \in [DOMAIN batch -> MissingEvent]
    /\ phase = "handle" <=> DOMAIN batch # {}
    /\ full \in BOOLEAN
    /\ multicast \in Seq(EventIds) /\ unicast \in Seq(EventIds)
    /\ counted \in Nat
    /\ requests \subseteq EventIds /\ responses \subseteq PeerEvents
    /\ handlerUp \in BOOLEAN
    /\ handling \in EventIds \cup {NoEvent}
    /\ submitting \subseteq EventIds
    /\ DOMAIN marked \subseteq EventIds /\ marked \in [DOMAIN marked -> Times]
    /\ askedAt \in [EventIds -> Seq(Times)]
    /\ unicasts \in [EventIds -> Nat] /\ tries \in [EventIds -> Nat]
    /\ markings \in [EventIds -> Nat]
    /\ faults \in 0..MaxFaults /\ losses \in 0..MaxLosses

\* However its steps interleave with notices, submissions and crashes, the loop
\* asks for an event at most EventMaxRetries times, and at most once of them by
\* unicast, per time the event was marked, although it decides on copies of the
\* records and counts a retry and sends the request in separate steps.
RequestsBounded ==
    \A e \in EventIds : /\ Len(askedAt[e]) <= EventMaxRetries * markings[e]
                        /\ unicasts[e] <= markings[e]

\* No event is asked for before it has been known for NewEventIgnoreThreshold.
NotAskedTooSoon ==
    \A e \in EventIds : \A i \in DOMAIN askedAt[e] :
       askedAt[e][i] >= marked[e] + NewEventIgnoreThreshold

\* A marker is only ever dropped when the event's data is in the repository, or
\* after EventMaxRetries retries have been counted for the event: no race of the
\* loop, the response handler and StoreEvent drops the marker of an event that is
\* not stored and could still be asked for.
DroppedWithCause ==
    [][\A e \in DOMAIN eventIndex \ DOMAIN eventIndex' :
          e \in repo \/ tries[e] >= EventMaxRetries]_vars

\* The marker of a stored event goes away in the end: a late notice for a stored
\* event, a crash between storing an event and unmarking it, and a store error
\* while unmarking are all sorted out by a later poll of the loop.
StoredUnmarked ==
    \A e \in EventIds :
       (e \in repo /\ e \in DOMAIN eventIndex) ~> e \notin DOMAIN eventIndex

\* Every marker is settled in the end: the event is stored or given up.
MarkersSettle == \A e \in EventIds : e \in DOMAIN eventIndex ~> e \notin DOMAIN eventIndex

\* A missing event that a peer has is backfilled in the end.
Backfilled == \A e \in PeerEvents : e \in DOMAIN eventIndex ~> e \in repo
=============================================================================
