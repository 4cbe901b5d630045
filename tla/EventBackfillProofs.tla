------------------------- MODULE EventBackfillProofs -------------------------
(* Proofs about event backfill, for any events, times, chunk size, retry     *)
(* limit and thresholds, and any number of errors and losses.                *)
EXTENDS EventBackfill, StateStoreProofs

TypeInv ==
    /\ now \in Times
    /\ repo \subseteq EventIds
    /\ tries \in [EventIds -> Nat]
    /\ multicast \in Seq(EventIds) /\ unicast \in Seq(EventIds)
    /\ counted \in Nat

\* Whoever is about to unmark an event has stored it.
StoredInv == handling \in repo \cup {NoEvent} /\ submitting \subseteq repo

\* The retries a record counts, and the loop's copy of it, were counted for the
\* event; an event that is marked again starts at none while tries goes on.
Counted(f) ==
    \A k \in DOMAIN f : f[k] \in MissingEvent /\ f[k].retryCount <= tries[f[k].eventId]
CountInv == Counted(missingEvents) /\ Counted(batch)

Inv == StoreInv /\ TypeInv /\ StoredInv /\ CountInv

\* The invariant holds initially.
LEMMA InitInv == Init => Inv
<1> SUFFICES ASSUME Init PROVE Inv
  OBVIOUS
<1>1. StoreInv
  BY StoreInvInductive DEF Init
<1>2. TypeInv
  BY DEF Init, TypeInv, Empty
<1>3. StoredInv /\ CountInv
  BY DEF Init, StoreInit, StoredInv, CountInv, Counted, Empty
<1> QED BY <1>1, <1>2, <1>3 DEF Inv

\* What the operations of the store do to the invariant: they keep its own part,
\* and the counts of the records as long as tries moves with them.
LEMMA NoticeInv ==
    ASSUME Inv, NEW e \in EventIds, NEW h \in Heights,
           AddMissingEvents(NewMissingEvent(e, now, h))
    PROVE  StoreInv' /\ (UNCHANGED tries => Counted(missingEvents)')
<1> DEFINE ev == NewMissingEvent(e, now, h)
<1>1. ev \in MissingEvent /\ ev.retryCount = 0 /\ ev.eventId = e
  BY NewMissingEventType DEF Inv, TypeInv, NewMissingEvent
<1>2. /\ MarshalMissingEvent(ev) \in MissingEvent
      /\ MarshalMissingEvent(ev).retryCount = 0
      /\ MarshalMissingEvent(ev).eventId = e
  BY <1>1, MarshalLemma
<1> HIDE DEF ev
<1>3. StoreInv'
  BY <1>1, AddMissingEventsInv DEF Inv, ev
<1>4. \A k \in DOMAIN missingEvents' :
         \/ k \in DOMAIN missingEvents /\ missingEvents'[k] = missingEvents[k]
         \/ missingEvents'[k] = MarshalMissingEvent(ev)
  BY DEF AddMissingEvents, Put, Delete, ev
<1>5. tries[e] \in Nat
  BY DEF Inv, TypeInv
<1> QED BY <1>2, <1>3, <1>4, <1>5 DEF Inv, CountInv, Counted

\* Removing a marker keeps the store's invariant and the counts of the others.
LEMMA UnmarkInv ==
    ASSUME Inv, NEW e \in EventIds, RemoveMissingEvent(e)
    PROVE  StoreInv' /\ (UNCHANGED tries => Counted(missingEvents)')
<1>1. StoreInv'
  BY RemoveInv DEF Inv
<1>2. \A k \in DOMAIN missingEvents' :
         k \in DOMAIN missingEvents /\ missingEvents'[k] = missingEvents[k]
  BY DEF RemoveMissingEvent, Delete
<1> QED BY <1>1, <1>2 DEF Inv, CountInv, Counted

\* Counting a retry keeps the store's invariant; the count and tries go up together.
LEMMA CountRetryInv ==
    ASSUME Inv, NEW e \in EventIds, IncrementMissingEventRetryCount(e, now),
           tries' = [tries EXCEPT ![e] = @ + 1], UNCHANGED batch
    PROVE  StoreInv' /\ CountInv' /\ tries' \in [EventIds -> Nat]
<1> DEFINE key == eventIndex[e]
           new == MarshalMissingEvent(Retried(missingEvents[key], now))
<1>1. StoreInv'
  BY IncrementInv DEF Inv, TypeInv
<1>2. key \in DOMAIN missingEvents /\ missingEvents[key].eventId = e
  BY DEF IncrementMissingEventRetryCount, CanIncrement, Inv, StoreInv, IndexConsistent
<1>3. /\ \A k \in DOMAIN missingEvents : missingEvents[k] \in MissingEvent
      /\ \A k \in DOMAIN batch : batch[k] \in MissingEvent
  BY DEF Inv, CountInv, Counted
<1>4. /\ new \in MissingEvent /\ new.eventId = e
      /\ new.retryCount = missingEvents[key].retryCount + 1
  BY <1>2, <1>3, RetriedLemma, MarshalLemma DEF Inv, TypeInv
<1>5. /\ tries' \in [EventIds -> Nat] /\ tries'[e] = tries[e] + 1
      /\ \A x \in EventIds : tries[x] \in Nat /\ tries'[x] \in Nat /\ tries'[x] >= tries[x]
  BY DEF Inv, TypeInv
<1>6. missingEvents' = Put(missingEvents, key, new)
  BY DEF IncrementMissingEventRetryCount
<1> HIDE DEF key, new
<1>7. \A m \in MissingEvent : m.eventId \in EventIds /\ m.retryCount \in Nat
  BY DEF MissingEvent
<1>8. Counted(batch)'
  BY <1>3, <1>5, <1>7 DEF Inv, CountInv, Counted
<1>9. /\ missingEvents[key].retryCount \in Nat /\ missingEvents[key].retryCount <= tries[e]
  BY <1>2, <1>3, <1>7 DEF Inv, CountInv, Counted
<1>10. new.retryCount <= tries'[new.eventId]
  BY <1>4, <1>5, <1>9
<1>11. \A k \in DOMAIN missingEvents' :
          \/ k = key /\ missingEvents'[k] = new
          \/ k \in DOMAIN missingEvents /\ missingEvents'[k] = missingEvents[k]
  BY <1>6 DEF Put
<1>12. \A k \in DOMAIN missingEvents :
          missingEvents[k].retryCount <= tries'[missingEvents[k].eventId]
  BY <1>3, <1>5, <1>7 DEF Inv, CountInv, Counted
<1>13. Counted(missingEvents)'
  BY <1>3, <1>4, <1>10, <1>11, <1>12 DEF Counted
<1> QED BY <1>1, <1>5, <1>8, <1>13 DEF CountInv

\* A step of the loop, or of another goroutine, that leaves the store alone.
LEMMA QuietInv ==
    ASSUME Inv, UNCHANGED <<storeVars, tries>>, TypeInv', StoredInv',
           \A k \in DOMAIN batch' :
              \/ k \in DOMAIN batch /\ batch'[k] = batch[k]
              \/ k \in DOMAIN missingEvents /\ batch'[k] = missingEvents[k]
    PROVE  Inv'
<1>1. StoreInv'
  BY StoreInvInductive DEF Inv
<1>2. CountInv'
  BY DEF Inv, CountInv, Counted, storeVars
<1> QED BY <1>1, <1>2 DEF Inv

\* Unmarking an event, or failing to.
LEMMA UnmarksInv ==
    ASSUME Inv, NEW e \in EventIds, RemoveMissingEvent(e) \/ UNCHANGED storeVars,
           UNCHANGED tries, TypeInv', StoredInv',
           \A k \in DOMAIN batch' : k \in DOMAIN batch /\ batch'[k] = batch[k]
    PROVE  Inv'
<1>1. CASE RemoveMissingEvent(e)
  <2>1. Counted(batch)'
    BY DEF Inv, CountInv, Counted
  <2> QED BY <1>1, <2>1, UnmarkInv DEF Inv, CountInv
<1>2. CASE UNCHANGED storeVars
  BY <1>2, QuietInv
<1> QED BY <1>1, <1>2

\* A batch is read from the records.
LEMMA PageIn == ASSUME NEW a, NEW n PROVE MissingEvents(a, n) \subseteq DOMAIN missingEvents
  BY DEF MissingEvents, FirstKeys, KeysAfter

\* Every step keeps the invariant.
LEMMA NextInv == Inv /\ [Next]_vars => Inv'
<1> SUFFICES ASSUME Inv, [Next]_vars PROVE Inv'
  OBVIOUS
<1>0. TypeInv /\ StoredInv /\ CountInv
  BY DEF Inv
<1> USE <1>0
<1>1. CASE UNCHANGED vars
  BY <1>1, QuietInv
  DEF vars, TypeInv, StoredInv, historyVars, pollVars, handlerVars
<1>2. CASE Tick
  BY <1>2, QuietInv
  DEF Tick, TypeInv, StoredInv, historyVars, pollVars, handlerVars
<1>3. CASE PollEvents
  BY <1>3, QuietInv DEF PollEvents, TypeInv, StoredInv, historyVars, handlerVars
<1>4. CASE FetchBatch
  <2>1. \A k \in DOMAIN batch' :
           \/ k \in DOMAIN batch /\ batch'[k] = batch[k]
           \/ k \in DOMAIN missingEvents /\ batch'[k] = missingEvents[k]
    BY <1>4, PageIn DEF FetchBatch
  <2> QED
    BY <1>4, <2>1, QuietInv DEF FetchBatch, TypeInv, StoredInv, historyVars, handlerVars
<1>5. CASE HandleNext
  <2>1. PICK k \in DOMAIN batch : HandleMissingEvent(batch[k]) /\ batch' = Delete(batch, k)
    BY <1>5 DEF HandleNext
  <2> DEFINE e == batch[k].eventId
  <2>2. e \in EventIds
    BY DEF CountInv, Counted, MissingEvent
  <2> HIDE DEF e
  <2>3. \A j \in DOMAIN batch' : j \in DOMAIN batch /\ batch'[j] = batch[j]
    BY <2>1 DEF Delete
  <2>4. RemoveMissingEvent(e) \/ UNCHANGED storeVars
    BY <2>1 DEF HandleMissingEvent, Unmark, StoreError, e
  <2>5. /\ multicast' = multicast \/ multicast' = Append(multicast, e)
        /\ unicast' = unicast \/ unicast' = Append(unicast, e)
    BY <2>1 DEF HandleMissingEvent, e
  <2>6. multicast' \in Seq(EventIds) /\ unicast' \in Seq(EventIds)
    <3>1. multicast \in Seq(EventIds) /\ unicast \in Seq(EventIds)
      BY DEF TypeInv
    <3>2. \A s \in Seq(EventIds) : Append(s, e) \in Seq(EventIds)
      BY <2>2
    <3> QED
      BY <2>5, <3>1, <3>2
  <2> QED
    BY <1>5, <2>2, <2>3, <2>4, <2>6, UnmarksInv
    DEF HandleNext, TypeInv, StoredInv, historyVars, handlerVars
<1>6. CASE CountRetries
  <2>1. PICK buffer \in {multicast, unicast} : CountRetry(buffer)
    BY <1>6 DEF CountRetries
  <2> DEFINE e == buffer[counted + 1]
  <2>0. buffer \in Seq(EventIds) /\ counted \in Nat /\ counted < Len(buffer)
    BY <2>1 DEF CountRetry, TypeInv
  <2>2. e \in EventIds
    BY <2>0
  <2> HIDE DEF e
  <2>3. UNCHANGED <<now, repo, batch, multicast, unicast, handling, submitting>>
        /\ counted' = counted + 1
    BY <2>1 DEF CountRetry, handlerVars
  <2>4. CASE IncrementMissingEventRetryCount(e, now) /\ tries' = [tries EXCEPT ![e] = @ + 1]
    <3>1. StoreInv' /\ CountInv' /\ tries' \in [EventIds -> Nat]
      BY <2>2, <2>3, <2>4, CountRetryInv
    <3>2. TypeInv' /\ StoredInv'
      BY <2>3, <3>1 DEF TypeInv, StoredInv
    <3> QED BY <3>1, <3>2 DEF Inv
  <2>5. CASE UNCHANGED <<storeVars, tries>>
    BY <2>3, <2>5, QuietInv DEF TypeInv, StoredInv
  <2> QED
    BY <2>1, <2>4, <2>5 DEF CountRetry, StoreError, e
<1>7. CASE Broadcast
  BY <1>7, QuietInv DEF Broadcast, TypeInv, StoredInv, handlerVars
<1>8. CASE UnicastRandomNeighbour
  BY <1>8, QuietInv DEF UnicastRandomNeighbour, TypeInv, StoredInv, handlerVars
<1>9. CASE HandlerUnmarks
  <2>1. handling \in repo /\ handling \in EventIds
    BY <1>9 DEF HandlerUnmarks, StoredInv, TypeInv
  <2> QED
    BY <1>9, <2>1, UnmarksInv
    DEF HandlerUnmarks, StoreError, TypeInv, StoredInv, historyVars, pollVars
<1>10. CASE Crash
  BY <1>10, QuietInv DEF Crash, TypeInv, StoredInv, historyVars, Empty
<1>11. ASSUME NEW e \in EventIds, Notice(e) PROVE Inv'
  <2>1. PICK h \in Heights : AddMissingEvents(NewMissingEvent(e, now, h))
    BY <1>11 DEF Notice
  <2>2. UNCHANGED <<now, repo, batch, multicast, unicast, counted, handling, submitting, tries>>
    BY <1>11 DEF Notice, pollVars, handlerVars
  <2> QED
    BY <2>1, <2>2, NoticeInv DEF Inv, TypeInv, StoredInv, CountInv, Counted
<1>12. ASSUME NEW e \in EventIds, PeerAnswers(e) \/ Lose(e) PROVE Inv'
  BY <1>12, QuietInv
  DEF PeerAnswers, Lose, TypeInv, StoredInv, historyVars, pollVars, handlerVars
<1>13. ASSUME NEW e \in EventIds, HandleResponse(e) PROVE Inv'
  BY <1>13, QuietInv DEF HandleResponse, TypeInv, StoredInv, historyVars, pollVars
<1>14. ASSUME NEW e \in EventIds, HandlerFails(e) PROVE Inv'
  BY <1>14, QuietInv DEF HandlerFails, TypeInv, StoredInv, historyVars, pollVars
<1>15. ASSUME NEW e \in EventIds, StoreEvent(e) PROVE Inv'
  BY <1>15, QuietInv DEF StoreEvent, TypeInv, StoredInv, historyVars, pollVars, handlerVars
<1>16. ASSUME NEW e \in EventIds, StoreEventUnmarks(e) PROVE Inv'
  BY <1>16, UnmarksInv
  DEF StoreEventUnmarks, Unmark, StoreError, TypeInv, StoredInv, historyVars, pollVars, handlerVars
<1> QED
  BY <1>1, <1>2, <1>3, <1>4, <1>5, <1>6, <1>7, <1>8, <1>9, <1>10, <1>11, <1>12, <1>13, <1>14,
     <1>15, <1>16 DEF Next, Loop
-----------------------------------------------------------------------------

\* The step relation of DroppedWithCause.
DropStep ==
    \A e \in DOMAIN eventIndex \ DOMAIN eventIndex' : e \in repo \/ tries[e] >= EventMaxRetries

\* Unmarking an event drops no other marker, and failing to drops none.
LEMMA UnmarkDrops ==
    ASSUME NEW e, RemoveMissingEvent(e) \/ UNCHANGED storeVars,
           e \in repo \/ tries[e] >= EventMaxRetries
    PROVE  DropStep
  BY DEF RemoveMissingEvent, Delete, storeVars, DropStep

\* A step that drops a marker has a stored event, or one the loop has given up.
LEMMA NextDrops == Inv /\ [Next]_vars => DropStep
<1> SUFFICES ASSUME Inv, [Next]_vars PROVE DropStep
  OBVIOUS
<1>0. TypeInv /\ StoredInv /\ CountInv
  BY DEF Inv
<1>1. CASE UNCHANGED storeVars
  BY <1>1 DEF storeVars, DropStep
<1>2. CASE HandleNext
  <2>1. PICK k \in DOMAIN batch : HandleMissingEvent(batch[k])
    BY <1>2 DEF HandleNext
  <2>2. /\ batch[k] \in MissingEvent
        /\ batch[k].retryCount <= tries[batch[k].eventId]
    BY <1>0 DEF CountInv, Counted
  <2>3. batch[k].retryCount \in Nat /\ tries[batch[k].eventId] \in Nat /\ EventMaxRetries \in Nat
    BY <1>0, <2>2, EventBackfillAssumption DEF MissingEvent, TypeInv
  <2>4. CASE batch[k].eventId \in repo \/ GiveUp(batch[k])
    <3>1. batch[k].eventId \in repo \/ tries[batch[k].eventId] >= EventMaxRetries
      BY <2>2, <2>3, <2>4 DEF GiveUp
    <3>2. RemoveMissingEvent(batch[k].eventId) \/ UNCHANGED storeVars
      BY <2>1 DEF HandleMissingEvent, Unmark, StoreError
    <3> QED BY <3>1, <3>2, UnmarkDrops
  <2>5. CASE ~(batch[k].eventId \in repo \/ GiveUp(batch[k]))
    BY <1>1, <2>1, <2>5 DEF HandleMissingEvent
  <2> QED BY <2>4, <2>5
<1>3. CASE CountRetries
  <2>1. eventIndex' = eventIndex
    BY <1>3 DEF CountRetries, CountRetry, IncrementMissingEventRetryCount, StoreError, storeVars
  <2> QED BY <2>1 DEF DropStep
<1>4. CASE HandlerUnmarks
  <2>1. handling \in repo
    BY <1>0, <1>4 DEF HandlerUnmarks, StoredInv
  <2>2. RemoveMissingEvent(handling) \/ UNCHANGED storeVars
    BY <1>4 DEF HandlerUnmarks, StoreError
  <2> QED BY <2>1, <2>2, UnmarkDrops
<1>5. ASSUME NEW e \in EventIds, Notice(e) PROVE DropStep
  BY <1>5 DEF Notice, AddMissingEvents, Put, DropStep
<1>6. ASSUME NEW e \in EventIds, StoreEventUnmarks(e) PROVE DropStep
  <2>1. e \in repo /\ (RemoveMissingEvent(e) \/ UNCHANGED storeVars)
    BY <1>0, <1>6 DEF StoreEventUnmarks, Unmark, StoreError, StoredInv
  <2> QED BY <2>1, UnmarkDrops
<1>7. CASE UNCHANGED vars
  BY <1>1, <1>7 DEF vars
<1> QED
  BY <1>1, <1>2, <1>3, <1>4, <1>5, <1>6, <1>7
  DEF Next, Loop, Tick, PollEvents, FetchBatch, Broadcast, UnicastRandomNeighbour, Crash,
      PeerAnswers, Lose, HandleResponse, HandlerFails, StoreEvent

\* However the loop, the response handler, submissions, notices and crashes
\* interleave, the marker of an event is dropped only when its data is stored or
\* EventMaxRetries retries have been counted for it.
THEOREM DroppedCorrect == Spec => DroppedWithCause
<1>1. Inv /\ [Next]_vars => [DropStep]_vars
  BY NextDrops
<1> QED
  BY <1>1, InitInv, NextInv, PTL DEF Spec, DroppedWithCause, DropStep

\* The index and the records agree while the loop, the handler and submissions
\* share the store: what is proved of the store alone holds in its use.
THEOREM SharedIndexCorrect == Spec => []IndexConsistent
<1>1. Inv => IndexConsistent
  BY DEF Inv, StoreInv
<1> QED
  BY <1>1, InitInv, NextInv, PTL DEF Spec
=============================================================================
