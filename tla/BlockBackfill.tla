--------------------------- MODULE BlockBackfill ---------------------------
(***************************************************************************)
(* How an off-chain node notices the events it has missed: the listener    *)
(* for new blocks and events (Harmoniser.ListenForMissedItems) and the     *)
(* block backfill loop (StartBlockBackfillLoop, handleBacklogChunk), which *)
(* share the state store, against a chain that keeps growing.              *)
(*                                                                         *)
(* Events are numbered in the order of the chain.  The node subscribes to  *)
(* every chain node it knows; each notice is pushed by a goroutine of its  *)
(* own, so notices arrive in any order, and those in flight are lost when  *)
(* the websocket drops or the process stops.  A search goes to one chain   *)
(* node of the pool, which may be behind the others.                       *)
(***************************************************************************)
EXTENDS StateStore, Sequences, FiniteSetsExt

CONSTANTS
    ChainNodes,           \* the chain nodes of the connection pool
    BlockFetchChunkSize,  \* events asked for per page
    StoreCanFail,         \* whether a store operation may return an error
    MaxPerBlock,          \* bound: events per block
    MaxFaults             \* bound: crashes, lost connections, failed searches and store errors

ASSUME BlockBackfillAssumption ==
    /\ EventIds \subseteq Nat \ {0}
    /\ BlockFetchChunkSize \in Nat \ {0}
    /\ StoreCanFail \in BOOLEAN
    /\ MaxPerBlock \in Nat
    /\ MaxFaults \in Nat

VARIABLES
    blockOf,     \* the chain: the block of each event, in order
    height,      \* height of the chain
    nodeHeight,  \* height each chain node has reached
    subscribed,  \* chain nodes whose websocket is up
    notices,     \* notices on their way to the listener
    seeing,      \* the height the listener is about to store, or NoHeight
    todo,        \* the loop's copy of the ranges it has yet to finish
    phase,       \* what the loop does next
    page, total, \* the page being fetched; the count the first page reported
    toMark, top, \* events of the page yet to be marked; the page's highest block
    live,        \* history: heights the listener stored as last seen
    marked,      \* history: events ever marked as missing
    unsaved,     \* history: events whose marker or missed range could not be stored
    faults       \* faults so far

chainVars == <<blockOf, height, nodeHeight>>
noticeVars == <<subscribed, notices>>
loopVars == <<todo, phase, page, total, toMark, top>>
historyVars == <<live, marked, unsaved>>
vars == <<storeVars, chainVars, noticeVars, seeing, loopVars, historyVars, faults>>

NoEvent == 0  \* the event of a NewBlock notice

OnChain == 1..Len(blockOf)

EventsAt(h) == {e \in OnChain : blockOf[e] = h}

Init ==
    /\ StoreInit
    /\ blockOf = <<>>
    /\ height = 0
    /\ nodeHeight = [n \in ChainNodes |-> 0]
    /\ subscribed = {}
    /\ notices = {}
    /\ seeing = NoHeight
    /\ todo = {}
    /\ phase = "idle"
    /\ page = 1
    /\ total = 0
    /\ toMark = {}
    /\ top = NoHeight
    /\ live = {}
    /\ marked = {}
    /\ unsaved = {}
    /\ faults = 0

Fault == faults < MaxFaults /\ faults' = faults + 1

\* A store operation, which may fail and change nothing; every caller logs the
\* error and goes on.
StoreError == StoreCanFail /\ Fault /\ UNCHANGED storeVars
Try(Operation) == (Operation /\ UNCHANGED faults) \/ StoreError

-----------------------------------------------------------------------------
(* The chain and the subscriptions to it                                   *)

\* Node n publishes block h and the events es in it to its subscriber.
Publish(n, h, es) ==
    notices' = IF n \in subscribed
               THEN notices \cup {[node |-> n, height |-> h, event |-> e] : e \in es \cup {NoEvent}}
               ELSE notices

\* The chain grows by a block of k events; node n is the first to have it.
NewBlock(n, k) ==
    LET h == height + 1
        last == Len(blockOf)
    IN  /\ nodeHeight[n] = height
        /\ h \in Heights
        /\ 1..(last + k) \subseteq EventIds
        /\ height' = h
        /\ blockOf' = blockOf \o [i \in 1..k |-> h]
        /\ nodeHeight' = [nodeHeight EXCEPT ![n] = h]
        /\ Publish(n, h, (last + 1)..(last + k))
        /\ UNCHANGED <<storeVars, subscribed, seeing, loopVars, historyVars, faults>>

CatchUp(n) ==
    /\ nodeHeight[n] < height
    /\ nodeHeight' = [nodeHeight EXCEPT ![n] = @ + 1]
    /\ Publish(n, nodeHeight[n] + 1, EventsAt(nodeHeight[n] + 1))
    /\ UNCHANGED <<storeVars, blockOf, height, subscribed, seeing, loopVars, historyVars, faults>>

\* subscribe: the websocket to node n comes up.
Subscribe(n) ==
    /\ n \notin subscribed
    /\ subscribed' = subscribed \cup {n}
    /\ UNCHANGED <<storeVars, chainVars, notices, seeing, loopVars, historyVars, faults>>

\* The websocket to node n drops, with some of the notices it had in flight.
Disconnect(n) ==
    /\ Fault
    /\ n \in subscribed
    /\ subscribed' = subscribed \ {n}
    /\ \E lost \in SUBSET {m \in notices : m.node = n} : notices' = notices \ lost
    /\ UNCHANGED <<storeVars, chainVars, seeing, loopVars, historyVars>>

-----------------------------------------------------------------------------
(* ListenForMissedItems                                                    *)

EventsIn(low, high) == {e \in OnChain : low <= blockOf[e] /\ blockOf[e] < high}

\* A range that cannot be stored is logged and given up.
MissBlocks(low, high) ==
    \/ /\ AddMissingBlocks([low |-> low, high |-> high])
       /\ UNCHANGED <<unsaved, faults>>
    \/ /\ StoreError
       /\ unsaved' = unsaved \cup EventsIn(low, high)

\* A NewBlock notice.  The range of blocks missed before it is stored first; the
\* height itself is stored by SetLastSeen, a separate transaction.
ReceiveBlock(m) ==
    /\ seeing = NoHeight
    /\ m \in notices /\ m.event = NoEvent
    /\ notices' = notices \ {m}
    /\ \/ /\ lastSeen = NoHeight
          /\ MissBlocks(0, m.height)
          /\ seeing' = m.height
       \/ /\ lastSeen # NoHeight /\ lastSeen >= m.height
          /\ UNCHANGED <<storeVars, seeing, unsaved, faults>>
       \/ /\ lastSeen # NoHeight /\ lastSeen + 1 = m.height
          /\ seeing' = m.height
          /\ UNCHANGED <<storeVars, unsaved, faults>>
       \/ /\ lastSeen # NoHeight /\ lastSeen + 1 < m.height
          /\ MissBlocks(lastSeen + 1, m.height)
          /\ seeing' = m.height
       \/ /\ StoreError  \* the last seen height cannot be read
          /\ UNCHANGED <<seeing, unsaved>>
    /\ UNCHANGED <<chainVars, subscribed, loopVars, live, marked>>

SetLastSeen ==
    /\ seeing # NoHeight
    /\ \/ SetLastSeenBlockHeight(seeing) /\ live' = live \cup {seeing} /\ UNCHANGED faults
       \/ StoreError /\ UNCHANGED live
    /\ seeing' = NoHeight
    /\ UNCHANGED <<chainVars, noticeVars, loopVars, marked, unsaved>>

Mark(e, now) ==
    \/ /\ AddMissingEvents(NewMissingEvent(e, now, blockOf[e]))
       /\ marked' = marked \cup {e}
       /\ UNCHANGED <<unsaved, faults>>
    \/ /\ StoreError
       /\ unsaved' = unsaved \cup {e}
       /\ UNCHANGED marked

ReceiveEvent(m) ==
    /\ seeing = NoHeight
    /\ m \in notices /\ m.event # NoEvent
    /\ notices' = notices \ {m}
    /\ \E now \in Times : Mark(m.event, now)
    /\ UNCHANGED <<chainVars, subscribed, seeing, loopVars, live>>

-----------------------------------------------------------------------------
(* StartBlockBackfillLoop and handleBacklogChunk                           *)

\* The ranges are handled in the order of their keys, as copied at the poll.
Current == CHOOSE r \in todo : \A s \in todo : r.id <= s.id

PollBlocks ==
    /\ phase = "idle"
    /\ DOMAIN missingBlocks # {}
    /\ todo' = {[id |-> k, low |-> missingBlocks[k].low, high |-> missingBlocks[k].high] :
                   k \in DOMAIN missingBlocks}
    /\ phase' = "search"
    /\ page' = 1
    /\ UNCHANGED <<storeVars, chainVars, noticeVars, seeing, total, toMark, top, historyVars, faults>>

\* The loop goes on to the next range of its copy, or waits for the next poll.
FinishRange ==
    /\ todo' = todo \ {Current}
    /\ phase' = IF todo' = {} THEN "idle" ELSE "search"
    /\ page' = 1
    /\ UNCHANGED <<total, toMark, top>>

\* The events of the current range that chain node n knows, and those on a page.
Found(n) == {e \in EventsIn(Current.low, Current.high) : blockOf[e] <= nodeHeight[n]}

\* Mutant: the search asks for the newest events first.
PageOfNewestFirst(found, p) ==
    {e \in found : LET before == Cardinality({d \in found : d > e})
                   IN  (p - 1) * BlockFetchChunkSize <= before /\ before < p * BlockFetchChunkSize}

PageOf(found, p) ==
    {e \in found : LET before == Cardinality({d \in found : d < e})
                   IN  (p - 1) * BlockFetchChunkSize <= before /\ before < p * BlockFetchChunkSize}

\* A chain node answers an error when it is asked for a page beyond its last one.
HasPage(found, p) == p = 1 \/ PageOf(found, p) # {}

SearchEvents(n) ==
    /\ phase = "search"
    /\ HasPage(Found(n), page)
    /\ total' = IF page = 1 THEN Cardinality(Found(n)) ELSE total
    /\ toMark' = PageOf(Found(n), page)
    /\ top' = IF toMark' = {} THEN NoHeight ELSE blockOf[Max(toMark')]
    /\ phase' = "mark"
    /\ UNCHANGED <<storeVars, chainVars, noticeVars, seeing, todo, page, historyVars, faults>>

\* The search fails and the range is left for the next poll.  It also fails when
\* the chain node asked has no such page; the events marked twice by scanning the
\* range again are bounded by MaxCount.
SearchFails ==
    /\ phase = "search"
    /\ \/ Fault
       \/ /\ \E n \in ChainNodes : ~HasPage(Found(n), page)
          /\ eventCounter < MaxCount
          /\ UNCHANGED faults
    /\ FinishRange
    /\ UNCHANGED <<storeVars, chainVars, noticeVars, seeing, historyVars>>

MarkEvent ==
    /\ phase = "mark" /\ toMark # {}
    /\ \E now \in Times : Mark(Min(toMark), now)
    /\ toMark' = toMark \ {Min(toMark)}
    /\ UNCHANGED <<chainVars, noticeVars, seeing, todo, phase, page, total, top, live>>

\* Mutant: the block the page ended in is taken to be complete.
ShrinkRangePastBlock(r) ==
    IF top = NoHeight
    THEN UNCHANGED <<storeVars, faults>>
    ELSE Try(UpdateMissingBlockRange(r.id, [low |-> top + 1, high |-> r.high]))

\* The page's events are marked: the stored range is removed when the page
\* reached its last block, else its lower bound goes up to the page's last block.
ShrinkRange(r) ==
    IF top = NoHeight
    THEN UNCHANGED <<storeVars, faults>>
    ELSE IF top >= r.high - 1
         THEN Try(RemoveMissingBlockRange(r.id))
         ELSE Try(UpdateMissingBlockRange(r.id, [low |-> top, high |-> r.high]))

PageDone ==
    /\ phase = "mark" /\ toMark = {}
    /\ ShrinkRange(Current)
    /\ IF page * BlockFetchChunkSize < total
       THEN phase' = "search" /\ page' = page + 1
       ELSE phase' = "remove" /\ page' = page
    /\ UNCHANGED <<chainVars, noticeVars, seeing, todo, total, toMark, top, historyVars>>

\* Mutant: a range is only ever removed by handleBacklogChunk.
KeepRange ==
    /\ phase = "remove"
    /\ FinishRange
    /\ UNCHANGED <<storeVars, chainVars, noticeVars, seeing, historyVars, faults>>

RemoveRange ==
    /\ phase = "remove"
    /\ Try(RemoveMissingBlockRange(Current.id))
    /\ FinishRange
    /\ UNCHANGED <<chainVars, noticeVars, seeing, historyVars>>

-----------------------------------------------------------------------------
(* The rest of the node                                                    *)

\* The event backfill loop, a submission or a backfill response drops a marker.
EventSettled(e) ==
    /\ e \in DOMAIN eventIndex
    /\ RemoveMissingEvent(e)
    /\ UNCHANGED <<chainVars, noticeVars, seeing, loopVars, historyVars, faults>>

\* The process stops, wherever its goroutines are, and starts again.
Crash ==
    /\ Fault
    /\ subscribed' = {} /\ notices' = {}
    /\ seeing' = NoHeight
    /\ todo' = {} /\ phase' = "idle" /\ page' = 1
    /\ total' = 0 /\ toMark' = {} /\ top' = NoHeight
    /\ UNCHANGED <<storeVars, chainVars, historyVars>>

Loop == \/ PollBlocks
        \/ \E n \in ChainNodes : SearchEvents(n)
        \/ SearchFails \/ MarkEvent \/ PageDone \/ RemoveRange

Listener == SetLastSeen \/ \E m \in notices : ReceiveBlock(m) \/ ReceiveEvent(m)

Next ==
    \/ \E n \in ChainNodes : \/ \E k \in 0..MaxPerBlock : NewBlock(n, k)
                             \/ CatchUp(n) \/ Subscribe(n) \/ Disconnect(n)
    \/ Listener
    \/ Loop
    \/ \E e \in EventIds : EventSettled(e)
    \/ Crash

Spec == Init /\ [][Next]_vars

\* The goroutines of the node are scheduled, the chain nodes catch up with the
\* chain, and a search that keeps being tried is answered in the end.
FairSpec == /\ Spec
            /\ WF_vars(PollBlocks) /\ WF_vars(MarkEvent)
            /\ WF_vars(PageDone) /\ WF_vars(RemoveRange)
            /\ \A n \in ChainNodes : WF_vars(SearchEvents(n)) /\ WF_vars(CatchUp(n))

-----------------------------------------------------------------------------
(* Properties                                                              *)

\* A block the node knows it missed (it is at or below the last seen height and
\* was not itself announced), whose range is no longer in the store.
Dropped(h) ==
    /\ h <= lastSeen
    /\ h \notin live
    /\ ~ \E k \in DOMAIN missingBlocks : missingBlocks[k].low <= h /\ h < missingBlocks[k].high

Forgotten(e) == Dropped(blockOf[e]) /\ e \notin marked

\* Whatever notices are lost, wherever the node crashes, a search or a store
\* operation fails, and wherever the page boundaries fall, an event of a missed
\* block is marked as missing or its block still lies in a stored range, with two
\* exceptions: its own marker or the range of its block could not be stored (which
\* the code logs); or it is a later event of a block that is the last of its range
\* and whose events straddle two pages (handleBacklogChunk drops the range with
\* the first of those pages).  It holds when one chain node answers the searches.
LossConfined ==
    \A e \in OnChain : Forgotten(e) =>
       \/ e \in unsaved
       \/ /\ blockOf[e] + 1 \in live
          /\ \E d \in marked \cup unsaved : d < e /\ blockOf[d] = blockOf[e]

\* A stored range only shrinks: its bounds never widen, its key is never given
\* to another range, and UpdateMissingBlockRange, a plain put made from the loop's
\* copy, never brings back a range that was removed, even when the pages of one
\* range come from chain nodes that are not level.
RangesOnlyShrink ==
    [][\A k \in DOMAIN missingBlocks' :
          IF k \in DOMAIN missingBlocks
          THEN /\ missingBlocks'[k].low >= missingBlocks[k].low
               /\ missingBlocks'[k].high = missingBlocks[k].high
          ELSE k > blockCounter]_vars

\* Every stored range is scanned and removed in the end, through crashes, failed
\* searches and store errors.
RangesDrain ==
    \A k \in Keys : k \in DOMAIN missingBlocks ~> k \notin DOMAIN missingBlocks
=============================================================================
