---------------------------- MODULE StateStore ----------------------------
(***************************************************************************)
(* The local state database of an off-chain node                           *)
(* (offchain-interface/pkg/state/leveldbstore.go): the last block height   *)
(* the node has seen, the ranges of blocks it has missed, and the markers  *)
(* of the events it has seen announced on the chain without having their   *)
(* data.  Each operation runs in one LevelDB transaction, which holds the  *)
(* database's write lock, so each operation is one atomic action here.     *)
(*                                                                         *)
(* Keys.  A record's key is a 16-byte counter; a natural number stands for *)
(* it (the counter would have to be incremented 2^128 times to wrap).      *)
(* LevelDB iterates in the order of the bytes, which is the order of the   *)
(* numbers.                                                                *)
(***************************************************************************)
EXTENDS Integers, FiniteSets

CONSTANTS
    EventIds,   \* the event hashes that can be marked as missing
    Heights,    \* the block heights the callers pass
    Times,      \* the values of the clock
    MaxCount    \* bound: how far a counter (of keys, of retries) may go

ASSUME StoreAssumption ==
    /\ Heights \subseteq Nat
    /\ Times \subseteq Nat
    /\ MaxCount \in Nat

VARIABLES
    lastSeen,       \* LastSeenBlockHeight, NoHeight until it is first set
    missingBlocks,  \* key -> block range still to be scanned
    blockCounter,   \* the last key given to a block range
    missingEvents,  \* key -> missing event record
    eventIndex,     \* event id -> key of its record
    eventCounter    \* the last key given to a missing event record

storeVars == <<lastSeen, missingBlocks, blockCounter,
               missingEvents, eventIndex, eventCounter>>
eventVars == <<missingEvents, eventIndex, eventCounter>>

NoHeight == -1
NoKey == 0

Keys == 1..MaxCount

\* Low is inclusive, high exclusive.
BlockRange == [low : Nat, high : Nat]

MissingEvent == [eventId : EventIds, receivedTime : Nat, blockHeight : Nat,
                 lastRetryTime : Nat, retriedUnicast : BOOLEAN, retryCount : Nat]

\* The zero value of Go's time.Time, before every other time.
ZeroTime == 0

NewMissingEvent(e, now, height) ==
    [eventId |-> e, receivedTime |-> now, blockHeight |-> height,
     lastRetryTime |-> ZeroTime, retriedUnicast |-> FALSE, retryCount |-> 0]

\* The function f with the value of k set to v, and with k deleted.
Put(f, k, v) == [x \in DOMAIN f \cup {k} |-> IF x = k THEN v ELSE f[x]]
Delete(f, k) == [x \in DOMAIN f \ {k} |-> f[x]]

\* What a record looks like once it has been marshalled and unmarshalled: the
\* bytes of the last retry time are taken from the received time.
MarshalMissingEvent(ev) == [ev EXCEPT !.lastRetryTime = ev.receivedTime]

Empty == [x \in {} |-> x]

StoreInit ==
    /\ lastSeen = NoHeight
    /\ missingBlocks = Empty
    /\ blockCounter = NoKey
    /\ missingEvents = Empty
    /\ eventIndex = Empty
    /\ eventCounter = NoKey

-----------------------------------------------------------------------------
(* Block heights and block ranges                                          *)

SetLastSeenBlockHeight(height) ==
    /\ lastSeen' = height
    /\ UNCHANGED <<missingBlocks, blockCounter, missingEvents, eventIndex, eventCounter>>

AddMissingBlocks(range) ==
    /\ blockCounter' = blockCounter + 1
    /\ missingBlocks' = Put(missingBlocks, blockCounter + 1, range)
    /\ UNCHANGED <<lastSeen, missingEvents, eventIndex, eventCounter>>

\* A plain put: it would bring back a range that has been removed.
UpdateMissingBlockRange(id, range) ==
    /\ missingBlocks' = Put(missingBlocks, id, range)
    /\ UNCHANGED <<lastSeen, blockCounter, missingEvents, eventIndex, eventCounter>>

\* Deleting a key that is absent is not an error.
RemoveMissingBlockRange(id) ==
    /\ missingBlocks' = Delete(missingBlocks, id)
    /\ UNCHANGED <<lastSeen, blockCounter, missingEvents, eventIndex, eventCounter>>

-----------------------------------------------------------------------------
(* Missing events                                                          *)

\* The first n keys of a set of keys.
FirstKeys(S, n) == {k \in S : Cardinality({j \in S : j < k}) < n}

\* Mutant: the "after" key itself is returned again.
KeysFrom(after) == {k \in DOMAIN missingEvents : after <= k}

\* The keys the iterator visits: all of them without an "after" key; with one,
\* Seek moves to the first key at or after it and the loop's first Next moves
\* past that key, whichever it is.
KeysAfter(after) ==
    IF after = NoKey
    THEN DOMAIN missingEvents
    ELSE {k \in DOMAIN missingEvents :
            \E j \in DOMAIN missingEvents : after <= j /\ j < k}

MissingEvents(after, limit) == FirstKeys(KeysAfter(after), limit)

MissingEventCount == Cardinality(DOMAIN eventIndex)

\* Mutant: the old record of an event that is marked again is left behind.
AddMissingEventsKeepOld(ev) ==
    /\ eventCounter' = eventCounter + 1
    /\ eventIndex' = Put(eventIndex, ev.eventId, eventCounter + 1)
    /\ missingEvents' = Put(missingEvents, eventCounter + 1, MarshalMissingEvent(ev))
    /\ UNCHANGED <<lastSeen, missingBlocks, blockCounter>>

\* Marking an event again moves it to a new key and drops its old record, with
\* the retries it counted.
AddMissingEvents(ev) ==
    LET key == eventCounter + 1
        kept == IF ev.eventId \in DOMAIN eventIndex
                THEN Delete(missingEvents, eventIndex[ev.eventId])
                ELSE missingEvents
    IN  /\ eventCounter' = key
        /\ eventIndex' = Put(eventIndex, ev.eventId, key)
        /\ missingEvents' = Put(kept, key, MarshalMissingEvent(ev))
        /\ UNCHANGED <<lastSeen, missingBlocks, blockCounter>>

\* The operation fails, and changes nothing, when the event is not marked.
CanIncrement(e) == e \in DOMAIN eventIndex /\ eventIndex[e] \in DOMAIN missingEvents

Retried(ev, now) ==
    [eventId |-> ev.eventId, receivedTime |-> ev.receivedTime,
     blockHeight |-> ev.blockHeight, lastRetryTime |-> now,
     retriedUnicast |-> TRUE, retryCount |-> ev.retryCount + 1]

IncrementMissingEventRetryCount(e, now) ==
    /\ CanIncrement(e)
    /\ LET key == eventIndex[e]
       IN  missingEvents' =
             Put(missingEvents, key, MarshalMissingEvent(Retried(missingEvents[key], now)))
    /\ UNCHANGED <<lastSeen, missingBlocks, blockCounter, eventIndex, eventCounter>>

\* Mutant: the key is handed back when it was the last one given out.
RemoveMissingEventFreeKey(e) ==
    /\ e \in DOMAIN eventIndex
    /\ missingEvents' = Delete(missingEvents, eventIndex[e])
    /\ eventIndex' = Delete(eventIndex, e)
    /\ eventCounter' = IF eventIndex[e] = eventCounter THEN eventCounter - 1 ELSE eventCounter
    /\ UNCHANGED <<lastSeen, missingBlocks, blockCounter>>

\* Removing an event that is not marked is not an error.
RemoveMissingEvent(e) ==
    /\ IF e \in DOMAIN eventIndex
       THEN /\ missingEvents' = Delete(missingEvents, eventIndex[e])
            /\ eventIndex' = Delete(eventIndex, e)
       ELSE UNCHANGED <<missingEvents, eventIndex>>
    /\ UNCHANGED <<lastSeen, missingBlocks, blockCounter, eventCounter>>

-----------------------------------------------------------------------------
(* The store under any sequence of calls                                   *)

Ranges == [low : Heights, high : Heights]

StoreNext ==
    \/ \E h \in Heights : SetLastSeenBlockHeight(h)
    \/ \E r \in Ranges : blockCounter < MaxCount /\ AddMissingBlocks(r)
    \/ \E id \in 1..blockCounter, r \in Ranges : UpdateMissingBlockRange(id, r)
    \/ \E id \in Keys : RemoveMissingBlockRange(id)
    \/ \E e \in EventIds, now \in Times, h \in Heights :
          eventCounter < MaxCount /\ AddMissingEvents(NewMissingEvent(e, now, h))
    \/ \E e \in EventIds, now \in Times :
          /\ CanIncrement(e) /\ missingEvents[eventIndex[e]].retryCount < MaxCount
          /\ IncrementMissingEventRetryCount(e, now)
    \/ \E e \in EventIds : RemoveMissingEvent(e)

StoreSpec == StoreInit /\ [][StoreNext]_storeVars

-----------------------------------------------------------------------------
(* Properties                                                              *)

\* Every variable has its type; the keys in use were handed out by the counters.
StoreTypeOK ==
    /\ lastSeen \in Nat \cup {NoHeight}
    /\ blockCounter \in Nat
    /\ eventCounter \in Nat
    /\ DOMAIN missingBlocks \subseteq 1..blockCounter
    /\ missingBlocks \in [DOMAIN missingBlocks -> BlockRange]
    /\ DOMAIN missingEvents \subseteq 1..eventCounter
    /\ missingEvents \in [DOMAIN missingEvents -> MissingEvent]
    /\ DOMAIN eventIndex \subseteq EventIds
    /\ eventIndex \in [DOMAIN eventIndex -> Nat]

\* The index and the records agree, whatever order AddMissingEvents,
\* IncrementMissingEventRetryCount and RemoveMissingEvent are called in: each
\* index entry leads to the record of its event and each record is the one its
\* event's index entry leads to.  So an event has one marker, MissingEventCount
\* (which counts index entries) counts the records the backfill loop visits, and
\* no record is left that RemoveMissingEvent could not reach.
IndexConsistent ==
    /\ \A e \in DOMAIN eventIndex :
          eventIndex[e] \in DOMAIN missingEvents /\ missingEvents[eventIndex[e]].eventId = e
    /\ \A k \in DOMAIN missingEvents :
          missingEvents[k].eventId \in DOMAIN eventIndex /\ eventIndex[missingEvents[k].eventId] = k

\* A key names one event for ever: no step of the store hands out a key again
\* once its record is gone, or gives a key in use to another event, and the
\* retries counted under a key never go down.  The cursor of the event backfill
\* loop and the retry limit rely on it.
KeysNeverReused ==
    [][/\ \A k \in DOMAIN missingEvents' \ DOMAIN missingEvents : k > eventCounter
       /\ \A k \in DOMAIN missingEvents' \cap DOMAIN missingEvents :
             /\ missingEvents'[k].eventId = missingEvents[k].eventId
             /\ missingEvents'[k].retryCount >= missingEvents[k].retryCount
       /\ eventCounter' >= eventCounter]_storeVars

\* Reading page by page with MissingEvents(after, limit) while other calls change
\* the store never returns a record twice and misses at most one record per page,
\* and none when the record of the "after" key is still there.
PagingSound ==
    \A after \in Keys :
       LET beyond == {k \in DOMAIN missingEvents : k > after}
       IN  /\ KeysAfter(after) \subseteq beyond
           /\ Cardinality(beyond \ KeysAfter(after)) <= 1
           /\ after \in DOMAIN missingEvents => KeysAfter(after) = beyond
=============================================================================
