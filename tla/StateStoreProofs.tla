-------------------------- MODULE StateStoreProofs --------------------------
(* Proofs about the state store, for any events, heights, times and bound.  *)
EXTENDS StateStore, FiniteSetTheorems, TLAPS

\* A put of a value of the right type keeps a function's type.
LEMMA PutType ==
    ASSUME NEW f, NEW S, f \in [DOMAIN f -> S], NEW k, NEW v \in S
    PROVE  Put(f, k, v) \in [DOMAIN Put(f, k, v) -> S]
BY DEF Put

\* A delete keeps a function's type.
LEMMA DeleteType ==
    ASSUME NEW f, NEW S, f \in [DOMAIN f -> S], NEW k
    PROVE  Delete(f, k) \in [DOMAIN Delete(f, k) -> S]
BY DEF Delete

\* Marshalling keeps the type, the event and the retry count of a record.
LEMMA MarshalLemma ==
    ASSUME NEW ev \in MissingEvent
    PROVE  /\ MarshalMissingEvent(ev) \in MissingEvent
           /\ MarshalMissingEvent(ev).eventId = ev.eventId
           /\ MarshalMissingEvent(ev).retryCount = ev.retryCount
BY DEF MarshalMissingEvent, MissingEvent

\* A fresh record has its type.
LEMMA NewMissingEventType ==
    ASSUME NEW e \in EventIds, NEW now \in Times, NEW h \in Heights
    PROVE  /\ NewMissingEvent(e, now, h) \in MissingEvent
           /\ NewMissingEvent(e, now, h).eventId = e
BY StoreAssumption DEF NewMissingEvent, MissingEvent, ZeroTime

-----------------------------------------------------------------------------

\* A record that has been retried keeps its type and its event, and counts one more.
LEMMA RetriedLemma ==
    ASSUME NEW ev \in MissingEvent, NEW now \in Times
    PROVE  /\ Retried(ev, now) \in MissingEvent
           /\ Retried(ev, now).eventId = ev.eventId
           /\ Retried(ev, now).retryCount = ev.retryCount + 1
BY StoreAssumption DEF MissingEvent, Retried

\* Steps of the block half of the store keep the type invariant.
LEMMA BlockStepsType ==
    ASSUME StoreTypeOK,
           \/ \E h \in Heights : SetLastSeenBlockHeight(h)
           \/ \E r \in Ranges : AddMissingBlocks(r)
           \/ \E id \in 1..blockCounter, r \in Ranges : UpdateMissingBlockRange(id, r)
           \/ \E id \in Keys : RemoveMissingBlockRange(id)
    PROVE  StoreTypeOK'
<1>0. Ranges \subseteq BlockRange
  BY StoreAssumption DEF Ranges, BlockRange
<1>1. CASE \E h \in Heights : SetLastSeenBlockHeight(h)
  BY <1>1, StoreAssumption DEF SetLastSeenBlockHeight, StoreTypeOK
<1>2. CASE \E r \in Ranges : AddMissingBlocks(r)
  <2>1. PICK r \in Ranges : AddMissingBlocks(r)
    BY <1>2
  <2>2. missingBlocks' \in [DOMAIN missingBlocks' -> BlockRange]
    BY <1>0, <2>1, PutType DEF AddMissingBlocks, StoreTypeOK
  <2>3. DOMAIN missingBlocks' = DOMAIN missingBlocks \cup {blockCounter + 1}
    BY <2>1 DEF AddMissingBlocks, Put
  <2> QED
    BY <2>1, <2>2, <2>3 DEF AddMissingBlocks, StoreTypeOK
<1>3. CASE \E id \in 1..blockCounter, r \in Ranges : UpdateMissingBlockRange(id, r)
  <2>1. PICK id \in 1..blockCounter, r \in Ranges : UpdateMissingBlockRange(id, r)
    BY <1>3
  <2>2. missingBlocks' \in [DOMAIN missingBlocks' -> BlockRange]
    BY <1>0, <2>1, PutType DEF UpdateMissingBlockRange, StoreTypeOK
  <2>3. DOMAIN missingBlocks' = DOMAIN missingBlocks \cup {id}
    BY <2>1 DEF UpdateMissingBlockRange, Put
  <2> QED
    BY <2>1, <2>2, <2>3 DEF UpdateMissingBlockRange, StoreTypeOK
<1>4. CASE \E id \in Keys : RemoveMissingBlockRange(id)
  <2>1. PICK id \in Keys : RemoveMissingBlockRange(id)
    BY <1>4
  <2>2. missingBlocks' \in [DOMAIN missingBlocks' -> BlockRange]
    BY <2>1, DeleteType DEF RemoveMissingBlockRange, StoreTypeOK
  <2>3. DOMAIN missingBlocks' \subseteq DOMAIN missingBlocks
    BY <2>1 DEF RemoveMissingBlockRange, Delete
  <2> QED
    BY <2>1, <2>2, <2>3 DEF RemoveMissingBlockRange, StoreTypeOK
<1> QED
  BY <1>1, <1>2, <1>3, <1>4

\* The invariant proved: index and records agree, and both have their types.
StoreInv == StoreTypeOK /\ IndexConsistent

\* AddMissingEvents keeps the invariant: the new key is above every key in use,
\* and the old record of the event goes with its index entry.
LEMMA AddMissingEventsInv ==
    ASSUME StoreInv, NEW ev \in MissingEvent, AddMissingEvents(ev)
    PROVE  StoreInv'
<1> DEFINE e == ev.eventId
           key == eventCounter + 1
           kept == IF e \in DOMAIN eventIndex
                   THEN Delete(missingEvents, eventIndex[e])
                   ELSE missingEvents
<1>1. /\ eventCounter' = key
      /\ eventIndex' = Put(eventIndex, e, key)
      /\ missingEvents' = Put(kept, key, MarshalMissingEvent(ev))
      /\ UNCHANGED <<lastSeen, missingBlocks, blockCounter>>
  BY DEF AddMissingEvents
<1>2. e \in EventIds /\ MarshalMissingEvent(ev) \in MissingEvent
      /\ MarshalMissingEvent(ev).eventId = e
  BY MarshalLemma DEF MissingEvent
<1>3. /\ kept \in [DOMAIN kept -> MissingEvent]
      /\ DOMAIN kept \subseteq DOMAIN missingEvents
      /\ \A k \in DOMAIN kept : kept[k] = missingEvents[k] /\ kept[k].eventId # e
      /\ \A k \in DOMAIN missingEvents : missingEvents[k].eventId # e => k \in DOMAIN kept
  <2>1. CASE e \in DOMAIN eventIndex
    BY <2>1 DEF StoreInv, StoreTypeOK, IndexConsistent, Delete
  <2>2. CASE e \notin DOMAIN eventIndex
    BY <2>2 DEF StoreInv, StoreTypeOK, IndexConsistent
  <2> QED
    BY <2>1, <2>2
<1>4. key \in Nat /\ key \notin DOMAIN missingEvents /\ key \notin DOMAIN kept
  BY <1>3 DEF StoreInv, StoreTypeOK
<1> HIDE DEF kept
<1>5. /\ DOMAIN missingEvents' = DOMAIN kept \cup {key}
      /\ missingEvents'[key] = MarshalMissingEvent(ev)
      /\ \A k \in DOMAIN kept : missingEvents'[k] = kept[k]
      /\ missingEvents' \in [DOMAIN missingEvents' -> MissingEvent]
  BY <1>1, <1>2, <1>3, <1>4 DEF Put
<1>6. /\ DOMAIN eventIndex' = DOMAIN eventIndex \cup {e}
      /\ eventIndex'[e] = key
      /\ \A x \in DOMAIN eventIndex : x # e => eventIndex'[x] = eventIndex[x]
      /\ eventIndex' \in [DOMAIN eventIndex' -> Nat]
  BY <1>1, <1>4 DEF StoreInv, StoreTypeOK, Put
<1>7. StoreTypeOK'
  BY <1>1, <1>2, <1>3, <1>4, <1>5, <1>6 DEF StoreInv, StoreTypeOK
<1> HIDE DEF key, e
<1>8. IndexConsistent'
  BY <1>2, <1>3, <1>4, <1>5, <1>6 DEF StoreInv, IndexConsistent
<1> QED
  BY <1>7, <1>8 DEF StoreInv

\* IncrementMissingEventRetryCount keeps the invariant: it rewrites the record of
\* an event in place.
LEMMA IncrementInv ==
    ASSUME StoreInv, NEW e \in EventIds, NEW now \in Times,
           IncrementMissingEventRetryCount(e, now)
    PROVE  StoreInv'
<1> DEFINE key == eventIndex[e]
           ev == MarshalMissingEvent(Retried(missingEvents[key], now))
<1>1. /\ key \in DOMAIN missingEvents
      /\ missingEvents' = Put(missingEvents, key, ev)
      /\ UNCHANGED <<lastSeen, missingBlocks, blockCounter, eventIndex, eventCounter>>
  BY DEF IncrementMissingEventRetryCount, CanIncrement
<1>2. missingEvents[key] \in MissingEvent
  BY <1>1 DEF StoreInv, StoreTypeOK
<1>3. ev \in MissingEvent /\ ev.eventId = missingEvents[key].eventId
  BY <1>2, RetriedLemma, MarshalLemma
<1> HIDE DEF key, ev
<1>4. /\ DOMAIN missingEvents' = DOMAIN missingEvents
      /\ missingEvents' \in [DOMAIN missingEvents' -> MissingEvent]
      /\ \A k \in DOMAIN missingEvents : missingEvents'[k].eventId = missingEvents[k].eventId
  BY <1>1, <1>3 DEF StoreInv, StoreTypeOK, Put
<1>5. StoreTypeOK'
  BY <1>1, <1>4 DEF StoreInv, StoreTypeOK
<1>6. IndexConsistent'
  BY <1>1, <1>4 DEF StoreInv, IndexConsistent
<1> QED
  BY <1>5, <1>6 DEF StoreInv

\* RemoveMissingEvent keeps the invariant: record and index entry go together.
LEMMA RemoveInv ==
    ASSUME StoreInv, NEW e \in EventIds, RemoveMissingEvent(e)
    PROVE  StoreInv'
<1>1. CASE e \notin DOMAIN eventIndex
  BY <1>1 DEF RemoveMissingEvent, StoreInv, StoreTypeOK, IndexConsistent
<1>2. CASE e \in DOMAIN eventIndex
  <2> DEFINE key == eventIndex[e]
  <2>1. /\ missingEvents' = Delete(missingEvents, key)
        /\ eventIndex' = Delete(eventIndex, e)
        /\ UNCHANGED <<lastSeen, missingBlocks, blockCounter, eventCounter>>
    BY <1>2 DEF RemoveMissingEvent
  <2>2. key \in DOMAIN missingEvents /\ missingEvents[key].eventId = e
    BY <1>2 DEF StoreInv, IndexConsistent
  <2>3. /\ DOMAIN missingEvents' = DOMAIN missingEvents \ {key}
        /\ missingEvents' \in [DOMAIN missingEvents' -> MissingEvent]
        /\ \A k \in DOMAIN missingEvents' : missingEvents'[k] = missingEvents[k]
    BY <2>1 DEF StoreInv, StoreTypeOK, Delete
  <2>4. /\ DOMAIN eventIndex' = DOMAIN eventIndex \ {e}
        /\ eventIndex' \in [DOMAIN eventIndex' -> Nat]
        /\ \A x \in DOMAIN eventIndex' : eventIndex'[x] = eventIndex[x]
    BY <2>1 DEF StoreInv, StoreTypeOK, Delete
  <2>5. StoreTypeOK'
    BY <2>1, <2>3, <2>4 DEF StoreInv, StoreTypeOK
  <2>6. IndexConsistent'
    BY <1>2, <2>2, <2>3, <2>4 DEF StoreInv, IndexConsistent
  <2> QED
    BY <2>5, <2>6 DEF StoreInv
<1> QED
  BY <1>1, <1>2

\* The invariant holds initially and every call of the store keeps it.
LEMMA StoreInvInductive ==
    /\ StoreInit => StoreInv
    /\ StoreInv /\ [StoreNext]_storeVars => StoreInv'
<1>1. StoreInit => StoreInv
  BY DEF StoreInit, StoreInv, StoreTypeOK, IndexConsistent, Empty, NoKey, NoHeight
<1>2. ASSUME StoreInv, [StoreNext]_storeVars PROVE StoreInv'
  <2>0. USE DEF StoreInv
  <2>1. CASE UNCHANGED storeVars
    BY <1>2, <2>1 DEF storeVars, StoreTypeOK, IndexConsistent
  <2>2. CASE \/ \E h \in Heights : SetLastSeenBlockHeight(h)
             \/ \E r \in Ranges : AddMissingBlocks(r)
             \/ \E id \in 1..blockCounter, r \in Ranges : UpdateMissingBlockRange(id, r)
             \/ \E id \in Keys : RemoveMissingBlockRange(id)
    <3>1. StoreTypeOK'
      BY <1>2, <2>2, BlockStepsType
    <3>2. UNCHANGED eventVars
      BY <2>2 DEF SetLastSeenBlockHeight, AddMissingBlocks, UpdateMissingBlockRange,
                  RemoveMissingBlockRange, eventVars
    <3> QED
      BY <1>2, <3>1, <3>2 DEF IndexConsistent, eventVars
  <2>3. CASE \E e \in EventIds, now \in Times, h \in Heights :
               AddMissingEvents(NewMissingEvent(e, now, h))
    BY <1>2, <2>3, NewMissingEventType, AddMissingEventsInv
  <2>4. CASE \E e \in EventIds, now \in Times : IncrementMissingEventRetryCount(e, now)
    BY <1>2, <2>4, IncrementInv
  <2>5. CASE \E e \in EventIds : RemoveMissingEvent(e)
    BY <1>2, <2>5, RemoveInv
  <2> QED
    BY <1>2, <2>1, <2>2, <2>3, <2>4, <2>5 DEF StoreNext
<1> QED
  BY <1>1, <1>2

\* Under any sequence of calls every variable of the store keeps its type, and the
\* keys in use are keys the counters have handed out.
THEOREM StoreTypeCorrect == StoreSpec => []StoreTypeOK
<1>1. StoreInv => StoreTypeOK
  BY DEF StoreInv
<1> QED
  BY <1>1, StoreInvInductive, PTL DEF StoreSpec

\* Under any sequence of calls the index and the records of the missing events
\* agree: one marker per event, and no record out of the index's reach.
THEOREM IndexCorrect == StoreSpec => []IndexConsistent
<1>1. StoreInv => IndexConsistent
  BY DEF StoreInv
<1> QED
  BY <1>1, StoreInvInductive, PTL DEF StoreSpec

-----------------------------------------------------------------------------

\* The step relation of KeysNeverReused.
KeysStep ==
    /\ \A k \in DOMAIN missingEvents' \ DOMAIN missingEvents : k > eventCounter
    /\ \A k \in DOMAIN missingEvents' \cap DOMAIN missingEvents :
          /\ missingEvents'[k].eventId = missingEvents[k].eventId
          /\ missingEvents'[k].retryCount >= missingEvents[k].retryCount
    /\ eventCounter' >= eventCounter

\* AddMissingEvents uses a key above every key handed out, and touches no other record.
LEMMA AddMissingEventsKeys ==
    ASSUME StoreInv, NEW ev, AddMissingEvents(ev)
    PROVE  KeysStep
<1>1. \A k \in DOMAIN missingEvents :
         /\ k \in 1..eventCounter
         /\ missingEvents[k].retryCount \in Nat
  BY DEF StoreInv, StoreTypeOK, MissingEvent
<1>2. eventCounter \in Nat /\ eventCounter' = eventCounter + 1
  BY DEF StoreInv, StoreTypeOK, AddMissingEvents
<1>3. \A k \in DOMAIN missingEvents' :
         \/ k = eventCounter + 1
         \/ k \in DOMAIN missingEvents /\ missingEvents'[k] = missingEvents[k]
  BY DEF AddMissingEvents, Put, Delete
<1> QED
  BY <1>1, <1>2, <1>3 DEF KeysStep

\* A key of a missing event record names one event for ever, and the retries
\* counted under it never go down.
THEOREM KeysNeverReusedCorrect == StoreSpec => KeysNeverReused
<1>1. ASSUME StoreInv, [StoreNext]_storeVars PROVE [KeysStep]_storeVars
  <2>0. \A k \in DOMAIN missingEvents : missingEvents[k] \in MissingEvent
    BY <1>1 DEF StoreInv, StoreTypeOK
  <2>1. \A k \in DOMAIN missingEvents : missingEvents[k].retryCount \in Nat
    BY <2>0 DEF MissingEvent
  <2>2. eventCounter \in Nat
    BY <1>1 DEF StoreInv, StoreTypeOK
  <2>3. CASE UNCHANGED eventVars
    BY <2>1, <2>2, <2>3 DEF eventVars, KeysStep
  <2>4. CASE \E ev : AddMissingEvents(ev)
    BY <1>1, <2>4, AddMissingEventsKeys
  <2>5. ASSUME NEW e \in EventIds, NEW now \in Times, IncrementMissingEventRetryCount(e, now)
        PROVE  KeysStep
    <3>1. /\ eventIndex[e] \in DOMAIN missingEvents
          /\ missingEvents' = Put(missingEvents, eventIndex[e],
               MarshalMissingEvent(Retried(missingEvents[eventIndex[e]], now)))
          /\ eventCounter' = eventCounter
      BY <2>5 DEF IncrementMissingEventRetryCount, CanIncrement
    <3> DEFINE new == MarshalMissingEvent(Retried(missingEvents[eventIndex[e]], now))
    <3>2. /\ new.eventId = missingEvents[eventIndex[e]].eventId
          /\ new.retryCount >= missingEvents[eventIndex[e]].retryCount
      BY <2>0, <2>1, <3>1, RetriedLemma, MarshalLemma
    <3> HIDE DEF new
    <3>3. missingEvents' = Put(missingEvents, eventIndex[e], new)
      BY <3>1 DEF new
    <3> QED
      BY <2>1, <2>2, <3>1, <3>2, <3>3 DEF KeysStep, Put
  <2>6. CASE \E e \in EventIds : RemoveMissingEvent(e)
    BY <2>1, <2>2, <2>6 DEF RemoveMissingEvent, Delete, KeysStep
  <2>7. CASE UNCHANGED storeVars
    BY <2>7
  <2> QED
    BY <1>1, <2>3, <2>4, <2>5, <2>6, <2>7
    DEF StoreNext, SetLastSeenBlockHeight, AddMissingBlocks, UpdateMissingBlockRange,
        RemoveMissingBlockRange, eventVars
<1> QED
  BY <1>1, StoreInvInductive, PTL DEF StoreSpec, KeysNeverReused, KeysStep

\* Reading the markers page by page misses at most one record per page, and none
\* when the record of the "after" key is still in the store.
THEOREM PagingCorrect == StoreSpec => []PagingSound
<1>1. ASSUME StoreInv PROVE PagingSound
  <2>1. SUFFICES ASSUME NEW after \in Keys
                 PROVE  LET beyond == {k \in DOMAIN missingEvents : k > after}
                        IN  /\ KeysAfter(after) \subseteq beyond
                            /\ Cardinality(beyond \ KeysAfter(after)) <= 1
                            /\ after \in DOMAIN missingEvents => KeysAfter(after) = beyond
    BY DEF PagingSound
  <2> DEFINE beyond == {k \in DOMAIN missingEvents : k > after}
             skipped == beyond \ KeysAfter(after)
  <2>2. after \in Nat /\ after # NoKey /\ DOMAIN missingEvents \subseteq Nat
    BY <1>1, StoreAssumption DEF Keys, NoKey, StoreInv, StoreTypeOK
  <2>3. KeysAfter(after) \subseteq beyond
    BY <2>2 DEF KeysAfter
  <2>4. after \in DOMAIN missingEvents => KeysAfter(after) = beyond
    BY <2>2 DEF KeysAfter
  <2>5. \A k \in skipped, l \in skipped : k = l
    BY <2>2 DEF KeysAfter
  <2>6. Cardinality(skipped) <= 1
    <3>1. CASE skipped = {}
      BY <3>1, FS_EmptySet
    <3>2. CASE skipped # {}
      <4>1. PICK k : skipped = {k}
        BY <2>5, <3>2
      <4> HIDE DEF skipped
      <4> QED
        BY <4>1, FS_Singleton
    <3> QED
      BY <3>1, <3>2
  <2> QED
    BY <2>3, <2>4, <2>6
<1> QED
  BY <1>1, StoreInvInductive, PTL DEF StoreSpec

=============================================================================
