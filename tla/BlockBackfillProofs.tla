------------------------ MODULE BlockBackfillProofs ------------------------
(***************************************************************************)
(* Proof that the stored ranges of missed blocks only shrink, for any      *)
(* chain nodes (however far apart), page size, number of events and        *)
(* bounds.  The pages of one range may come from chain nodes that are not  *)
(* level; what saves the plain put of UpdateMissingBlockRange is that a    *)
(* node's answer is a prefix of the range's events, so an event has the    *)
(* same rank in every answer and a later page ends in a block at least as  *)
(* high as every page before it.                                           *)
(***************************************************************************)
EXTENDS BlockBackfill, SequenceTheorems, FiniteSetTheorems, TLAPS

\* The place of event e among all events of range r.
Rank(r, e) == Cardinality({d \in EventsIn(r.low, r.high) : d < e})

\* Blocks are numbered in the order of the chain.
ChainOK ==
    /\ height \in Nat
    /\ nodeHeight \in [ChainNodes -> Nat]
    /\ blockOf \in Seq(Nat)
    /\ \A e \in OnChain : blockOf[e] <= height
    /\ \A d, e \in OnChain : d <= e => blockOf[d] <= blockOf[e]

\* The stored ranges have their type and keys that were handed out.
RangesOK ==
    /\ blockCounter \in Nat
    /\ DOMAIN missingBlocks \subseteq 1..blockCounter
    /\ missingBlocks \in [DOMAIN missingBlocks -> BlockRange]

\* The heights the listener makes ranges from have their type.
ListenerOK ==
    /\ lastSeen \in Nat \cup {NoHeight}
    /\ seeing \in Nat \cup {NoHeight}
    /\ \A m \in notices : m.height \in Nat

LoopOK ==
    /\ todo \subseteq [id : 1..blockCounter, low : Nat, high : Nat]
    /\ \A r, s \in todo : r.id = s.id => r = s
    /\ phase \in {"idle", "search", "mark", "remove"}
    /\ phase # "idle" => todo # {}
    /\ page \in Nat \ {0}
    /\ top \in Nat \cup {NoHeight}

\* The store holds range r just as the loop copied it.
Copied(r) ==
    /\ r.id \in DOMAIN missingBlocks
    /\ missingBlocks[r.id] = [low |-> r.low, high |-> r.high]

\* The block last reached is that of an event of the first p pages of range r.
Reached(r, p) ==
    \E e \in EventsIn(r.low, r.high) : top = blockOf[e] /\ Rank(r, e) < p * BlockFetchChunkSize

\* What is stored of range r starts at or before the block last reached, or is
\* gone because that block was the range's last.
Behind(r) ==
    IF r.id \in DOMAIN missingBlocks
    THEN missingBlocks[r.id].low <= top /\ missingBlocks[r.id].high = r.high
    ELSE top >= r.high - 1

Progress(r, p) == IF top = NoHeight THEN Copied(r) ELSE Reached(r, p) /\ Behind(r)

\* The loop's copy is stale only for the range it is working on, and for that one
\* in the way Progress says.
ScanOK ==
    /\ \A r \in todo : r # Current => Copied(r)
    /\ phase = "search" => IF page = 1 THEN Copied(Current) ELSE Progress(Current, page - 1)
    /\ phase = "mark" => Progress(Current, page)

\* The inductive invariant.
BackfillInv == ChainOK /\ RangesOK /\ ListenerOK /\ LoopOK /\ ScanOK

\* The step relation of RangesOnlyShrink.
RangesStep ==
    \A k \in DOMAIN missingBlocks' :
       IF k \in DOMAIN missingBlocks
       THEN /\ missingBlocks'[k].low >= missingBlocks[k].low
            /\ missingBlocks'[k].high = missingBlocks[k].high
       ELSE k > blockCounter

-----------------------------------------------------------------------------
(* Extrema                                                                 *)

\* A non-empty set of naturals has a least element.
LEMMA LeastElement ==
    ASSUME NEW S \in SUBSET Nat, S # {}
    PROVE  \E x \in S : \A y \in S : x <= y
<1> DEFINE R == StrictSubsetOrdering(Nat)
           F == FiniteSubsetsOf(Nat)
           T == {0..x : x \in S}
<1>1. IsWellFoundedOn(R, F)
  BY FS_StrictSubsetOrderingWellFounded
<1>2. T \subseteq F /\ T # {}
  <2>1. ASSUME NEW x \in S PROVE 0..x \in F
    BY FS_Interval DEF FiniteSubsetsOf
  <2> QED
    BY <2>1, Zenon
<1>3. PICK t \in T : \A u \in T : <<u, t>> \notin R
  <2> HIDE DEF R, F, T
  <2> QED
    BY <1>1, <1>2, WFMin
<1>4. PICK x \in S : t = 0..x
  OBVIOUS
<1>5. ASSUME NEW y \in S, ~(x <= y) PROVE FALSE
  <2>1. 0..y \subseteq 0..x /\ 0..y # 0..x
    BY <1>5
  <2>2. <<0..y, 0..x>> \in R
    BY <2>1 DEF StrictSubsetOrdering
  <2> QED
    BY <1>3, <1>4, <2>2, Zenon
<1> QED
  BY <1>5

\* Max of a non-empty bounded set of naturals is one of its elements.
LEMMA MaxIsElement ==
    ASSUME NEW n \in Nat, NEW S \in SUBSET (1..n), S # {}
    PROVE  Max(S) \in S
<1> DEFINE T == {n - x : x \in S}
<1>1. T \in SUBSET Nat
  <2>1. \A x \in S : n - x \in Nat
    OBVIOUS
  <2> QED
    BY <2>1
<1>2. T # {}
  BY Zenon
<1>3. PICK t \in T : \A u \in T : t <= u
  <2> HIDE DEF T
  <2> QED
    BY <1>1, <1>2, LeastElement
<1>4. PICK x \in S : t = n - x
  OBVIOUS
<1>5. ASSUME NEW y \in S PROVE x >= y
  <2>1. n - x <= n - y
    BY <1>3, <1>4
  <2>2. x \in Nat /\ y \in Nat
    OBVIOUS
  <2> QED
    BY <2>1, <2>2
<1> QED
  BY <1>5, Zenon DEF Max

\* One of the ranges of a copy has the least key.
LEMMA LeastRange ==
    ASSUME NEW S, S # {}, \A r \in S : r.id \in Nat
    PROVE  \E r \in S : \A s \in S : r.id <= s.id
<1> DEFINE ids == {r.id : r \in S}
<1>1. ids \in SUBSET Nat
  OBVIOUS
<1>2. ids # {}
  OBVIOUS
<1>3. PICK i \in ids : \A j \in ids : i <= j
  <2> HIDE DEF ids
  <2> QED
    BY <1>1, <1>2, LeastElement
<1>4. PICK r \in S : r.id = i
  OBVIOUS
<1>5. \A s \in S : r.id <= s.id
  BY <1>3, <1>4
<1> QED
  BY <1>5

\* The range the loop works on is one of its copy, in this state and the next.
LEMMA CurrentIsRange ==
    /\ LoopOK /\ blockCounter \in Nat /\ todo # {} => Current \in todo
    /\ LoopOK' /\ blockCounter' \in Nat /\ todo' # {} => Current' \in todo'
<1>1. ASSUME LoopOK, blockCounter \in Nat, todo # {} PROVE Current \in todo
  <2>1. \A r \in todo : r.id \in Nat
    BY <1>1 DEF LoopOK
  <2>2. \E r \in todo : \A s \in todo : r.id <= s.id
    BY <1>1, <2>1, LeastRange
  <2> QED
    BY <2>2 DEF Current
<1>2. ASSUME LoopOK', blockCounter' \in Nat, todo' # {} PROVE Current' \in todo'
  <2>1. \A r \in todo' : r.id \in Nat
    BY <1>2 DEF LoopOK
  <2>2. \E r \in todo' : \A s \in todo' : r.id <= s.id
    BY <1>2, <2>1, LeastRange
  <2> QED
    BY <2>2 DEF Current
<1> QED
  BY <1>1, <1>2

-----------------------------------------------------------------------------
(* Pages                                                                   *)

\* The events before another one are finitely many.
LEMMA BeforeFinite ==
    ASSUME ChainOK, NEW r, NEW e
    PROVE  /\ IsFiniteSet({d \in EventsIn(r.low, r.high) : d < e})
           /\ Rank(r, e) \in Nat
<1>1. IsFiniteSet(OnChain)
  BY FS_Interval, LenProperties DEF ChainOK, OnChain
<1>2. {d \in EventsIn(r.low, r.high) : d < e} \in SUBSET OnChain
  BY DEF EventsIn
<1>3. IsFiniteSet({d \in EventsIn(r.low, r.high) : d < e})
  BY <1>1, <1>2, FS_Subset
<1> QED
  BY <1>3, FS_CardinalityType DEF Rank

\* An event of higher rank comes later on the chain, in a block at least as high.
LEMMA HigherRank ==
    ASSUME ChainOK, NEW r, NEW d \in EventsIn(r.low, r.high),
           NEW e \in EventsIn(r.low, r.high), Rank(r, d) < Rank(r, e)
    PROVE  blockOf[d] <= blockOf[e]
<1>1. d \in OnChain /\ e \in OnChain /\ OnChain \subseteq Nat
  BY LenProperties DEF EventsIn, OnChain, ChainOK
<1>2. ASSUME e < d PROVE FALSE
  <2> DEFINE D == {x \in EventsIn(r.low, r.high) : x < d}
             E == {x \in EventsIn(r.low, r.high) : x < e}
  <2>0. EventsIn(r.low, r.high) \subseteq Nat
    BY <1>1, Zenon DEF EventsIn
  <2>1. E \in SUBSET D
    BY <1>1, <1>2, <2>0
  <2>2. IsFiniteSet(D) /\ Rank(r, d) \in Nat /\ Rank(r, e) \in Nat
    BY BeforeFinite
  <2>3. Cardinality(E) <= Cardinality(D)
    BY <2>1, <2>2, FS_Subset
  <2> QED
    BY <2>2, <2>3 DEF Rank
<1> QED
  BY <1>1, <1>2 DEF ChainOK

\* A chain node that is behind answers with a prefix of the range's events: an
\* event has the same rank in its answer as in the range.
LEMMA RankInAnswer ==
    ASSUME ChainOK, NEW n \in ChainNodes, NEW e \in Found(n)
    PROVE  Cardinality({d \in Found(n) : d < e}) = Rank(Current, e)
<1>1. OnChain \subseteq Nat /\ nodeHeight[n] \in Nat /\ \A x \in OnChain : blockOf[x] \in Nat
  BY LenProperties DEF OnChain, ChainOK
<1>2. ASSUME NEW d \in EventsIn(Current.low, Current.high), d < e
      PROVE  d \in Found(n)
  <2>1. d \in OnChain /\ e \in OnChain /\ blockOf[e] <= nodeHeight[n]
    BY DEF Found, EventsIn
  <2>2. blockOf[d] <= blockOf[e]
    BY <1>1, <1>2, <2>1 DEF ChainOK
  <2> QED
    BY <1>1, <2>1, <2>2 DEF Found
<1>3. {d \in Found(n) : d < e} = {d \in EventsIn(Current.low, Current.high) : d < e}
  BY <1>2 DEF Found
<1> QED
  BY <1>3 DEF Rank

\* The block reached by the next page is at least as high as the one reached by
\* the pages before it, whichever chain nodes answered.
LEMMA NextPageHigher ==
    ASSUME ChainOK, NEW n \in ChainNodes, page \in Nat \ {0},
           NEW e \in PageOf(Found(n), page)
    PROVE  /\ e \in EventsIn(Current.low, Current.high)
           /\ Rank(Current, e) < page * BlockFetchChunkSize
           /\ Reached(Current, page - 1) => top <= blockOf[e]
<1>1. e \in Found(n) /\ e \in EventsIn(Current.low, Current.high)
  BY DEF PageOf, Found
<1>2. /\ (page - 1) * BlockFetchChunkSize <= Rank(Current, e)
      /\ Rank(Current, e) < page * BlockFetchChunkSize
  BY <1>1, RankInAnswer DEF PageOf
<1>3. ASSUME Reached(Current, page - 1) PROVE top <= blockOf[e]
  <2>1. PICK d \in EventsIn(Current.low, Current.high) :
           top = blockOf[d] /\ Rank(Current, d) < (page - 1) * BlockFetchChunkSize
    BY <1>3, Zenon DEF Reached
  <2>2. Rank(Current, d) \in Nat /\ Rank(Current, e) \in Nat
    BY BeforeFinite
  <2>3. (page - 1) * BlockFetchChunkSize \in Nat
    BY BlockBackfillAssumption
  <2>4. Rank(Current, d) < Rank(Current, e)
    BY <1>2, <2>1, <2>2, <2>3
  <2> QED
    BY <1>1, <2>1, <2>4, HigherRank
<1> QED
  BY <1>1, <1>2, <1>3

-----------------------------------------------------------------------------
(* Steps that leave the loop and the ranges alone                          *)

\* The stored ranges and the loop's state are as they were.
SameScan == UNCHANGED <<missingBlocks, blockCounter, todo, phase, page, top>>

\* The invariant of the chain only reads the chain.
LEMMA SameChain ==
    ASSUME ChainOK, UNCHANGED chainVars
    PROVE  ChainOK'
BY DEF ChainOK, chainVars, OnChain

\* A step that leaves the store alone shrinks no range.
LEMMA SameStore ==
    ASSUME RangesOK, UNCHANGED storeVars
    PROVE  /\ RangesOK' /\ RangesStep
           /\ UNCHANGED <<lastSeen, missingBlocks, blockCounter>>
           /\ \A r : Copied(r)' = Copied(r)
<1>1. \A k \in DOMAIN missingBlocks : missingBlocks[k].low \in Nat
  BY DEF RangesOK, BlockRange
<1>2. UNCHANGED <<lastSeen, missingBlocks, blockCounter>>
  BY DEF storeVars
<1> QED
  BY <1>1, <1>2 DEF RangesOK, RangesStep, Copied

\* When the chain grows, what was reached stays reached: new events come after
\* all others and so change no rank.
LEMMA ReachedStable ==
    ASSUME ChainOK, ChainOK', top' = top, Len(blockOf) <= Len(blockOf'),
           \A e \in OnChain : blockOf'[e] = blockOf[e],
           NEW r, NEW p, Reached(r, p)
    PROVE  Reached(r, p)'
<1>1. Len(blockOf) \in Nat /\ Len(blockOf') \in Nat
  BY LenProperties DEF ChainOK
<1>2. PICK e \in EventsIn(r.low, r.high) :
         top = blockOf[e] /\ Rank(r, e) < p * BlockFetchChunkSize
  BY DEF Reached
<1>3. e \in EventsIn(r.low, r.high)'
  BY <1>1, <1>2 DEF EventsIn, OnChain
<1>4. {d \in EventsIn(r.low, r.high)' : d < e} = {d \in EventsIn(r.low, r.high) : d < e}
  BY <1>1, <1>2 DEF EventsIn, OnChain
<1>5. Rank(r, e)' = Rank(r, e)
  BY <1>4, Zenon DEF Rank
<1>6. blockOf'[e] = blockOf[e]
  BY <1>2 DEF EventsIn
<1> QED
  BY <1>2, <1>3, <1>5, <1>6 DEF Reached

\* A step of the chain.
LEMMA ChainStep ==
    ASSUME BackfillInv, SameScan, ChainOK', ListenerOK',
           Len(blockOf) <= Len(blockOf'), \A e \in OnChain : blockOf'[e] = blockOf[e]
    PROVE  BackfillInv' /\ RangesStep
<1>1. RangesOK' /\ LoopOK'
  BY DEF BackfillInv, RangesOK, LoopOK, SameScan
<1>2. Current' = Current
  BY DEF SameScan, Current
<1>3. ASSUME NEW r PROVE Copied(r)' = Copied(r) /\ Behind(r)' = Behind(r)
  BY DEF SameScan, Copied, Behind
<1>4. ASSUME NEW r, NEW p, Progress(r, p) PROVE Progress(r, p)'
  <2>1. Reached(r, p) => Reached(r, p)'
    BY ReachedStable DEF BackfillInv, SameScan
  <2> QED
    BY <1>3, <1>4, <2>1 DEF Progress, SameScan
<1>5. ScanOK'
  BY <1>2, <1>3, <1>4 DEF BackfillInv, ScanOK, SameScan
<1>6. \A k \in DOMAIN missingBlocks : missingBlocks[k].low \in Nat
  BY DEF BackfillInv, RangesOK, BlockRange
<1>7. RangesStep
  BY <1>6 DEF RangesStep, SameScan
<1> QED
  BY <1>1, <1>5, <1>7 DEF BackfillInv

\* A step that touches neither the chain, the ranges nor the loop's position.
LEMMA QuietStep ==
    ASSUME BackfillInv, SameScan, UNCHANGED chainVars, ListenerOK'
    PROVE  BackfillInv' /\ RangesStep
<1>1. ChainOK'
  BY SameChain DEF BackfillInv
<1>2. blockOf' = blockOf /\ Len(blockOf) \in Nat
  BY LenProperties DEF chainVars, BackfillInv, ChainOK
<1> QED
  BY <1>1, <1>2, ChainStep

\* What a chain node publishes are heights.
LEMMA PublishType ==
    ASSUME ListenerOK, NEW n, NEW h \in Nat, NEW es, Publish(n, h, es),
           UNCHANGED <<lastSeen, seeing>>
    PROVE  ListenerOK'
BY DEF Publish, ListenerOK

\* NewBlock appends events of the highest block so far.
LEMMA NewBlockStep ==
    ASSUME BackfillInv, NEW n \in ChainNodes, NEW k \in 0..MaxPerBlock, NewBlock(n, k)
    PROVE  BackfillInv' /\ RangesStep
<1> DEFINE h == height + 1
           new == [i \in 1..k |-> h]
<1>1. /\ height' = h /\ blockOf' = blockOf \o new
      /\ nodeHeight' = [nodeHeight EXCEPT ![n] = h]
      /\ \E es : Publish(n, h, es)
      /\ UNCHANGED <<storeVars, seeing, loopVars>>
  BY DEF NewBlock
<1>2. height \in Nat /\ h \in Nat /\ k \in Nat /\ blockOf \in Seq(Nat) /\ Len(blockOf) \in Nat
  BY BlockBackfillAssumption, LenProperties DEF BackfillInv, ChainOK
<1>3. new \in Seq(Nat) /\ Len(new) = k /\ \A i \in 1..k : new[i] = h
  <2>1. new \in [1..k -> Nat]
    BY <1>2
  <2>2. new \in Seq(Nat)
    BY <1>2, <2>1, SeqDef
  <2>3. DOMAIN new = 1..k /\ DOMAIN new = 1..Len(new) /\ Len(new) \in Nat
    BY <2>2, LenProperties
  <2> QED
    BY <1>2, <2>2, <2>3
<1> HIDE DEF h, new
<1>4. /\ blockOf' \in Seq(Nat)
      /\ Len(blockOf') = Len(blockOf) + k
      /\ \A i \in 1..(Len(blockOf) + k) :
            blockOf'[i] = IF i <= Len(blockOf) THEN blockOf[i] ELSE new[i - Len(blockOf)]
  BY <1>1, <1>2, <1>3, ConcatProperties
<1>5. \A e \in OnChain : blockOf'[e] = blockOf[e]
  BY <1>2, <1>4 DEF OnChain
<1>6. ASSUME NEW e \in OnChain' PROVE e \in OnChain \/ blockOf'[e] = h
  <2>1. e \in 1..(Len(blockOf) + k)
    BY <1>4 DEF OnChain
  <2>2. e <= Len(blockOf) \/ e - Len(blockOf) \in 1..k
    BY <1>2, <2>1
  <2> QED
    BY <1>2, <1>3, <1>4, <2>1, <2>2 DEF OnChain
<1>7. \A e \in OnChain : blockOf[e] \in Nat /\ blockOf[e] <= h
  BY <1>2, ElementOfSeq DEF BackfillInv, ChainOK, OnChain, h
<1>8. \A d, e \in OnChain' : d <= e /\ e \in OnChain => d \in OnChain
  BY <1>2, <1>4 DEF OnChain
<1>9. ChainOK'
  <2>1. height' \in Nat /\ nodeHeight' \in [ChainNodes -> Nat] /\ blockOf' \in Seq(Nat)
    BY <1>1, <1>2, <1>4 DEF BackfillInv, ChainOK
  <2>2. ASSUME NEW e \in OnChain' PROVE blockOf'[e] <= h
    <3>1. CASE e \in OnChain
      BY <1>5, <1>7, <3>1
    <3>2. CASE blockOf'[e] = h
      BY <1>2, <3>2
    <3> QED
      BY <1>6, <3>1, <3>2
  <2>3. \A d, e \in OnChain' : d <= e => blockOf'[d] <= blockOf'[e]
    BY <1>2, <1>5, <1>6, <1>7, <1>8 DEF BackfillInv, ChainOK
  <2> QED
    BY <1>1, <2>1, <2>2, <2>3 DEF ChainOK, OnChain
<1>10. ListenerOK'
  BY <1>1, <1>2, PublishType DEF BackfillInv, storeVars
<1>11. SameScan
  BY <1>1 DEF storeVars, loopVars, SameScan
<1>12. Len(blockOf) <= Len(blockOf')
  BY <1>2, <1>4
<1> QED
  BY <1>5, <1>9, <1>10, <1>11, <1>12, ChainStep

\* CatchUp moves one chain node on.
LEMMA CatchUpStep ==
    ASSUME BackfillInv, NEW n \in ChainNodes, CatchUp(n)
    PROVE  BackfillInv' /\ RangesStep
<1>1. /\ nodeHeight' = [nodeHeight EXCEPT ![n] = @ + 1]
      /\ \E es : Publish(n, nodeHeight[n] + 1, es)
      /\ UNCHANGED <<storeVars, blockOf, height, seeing, loopVars>>
  BY DEF CatchUp
<1>2. nodeHeight[n] + 1 \in Nat /\ Len(blockOf) \in Nat
  BY LenProperties DEF BackfillInv, ChainOK
<1>3. ChainOK'
  BY <1>1, <1>2 DEF BackfillInv, ChainOK, OnChain
<1>4. ListenerOK'
  BY <1>1, <1>2, PublishType DEF BackfillInv, storeVars
<1>5. SameScan
  BY <1>1 DEF storeVars, loopVars, SameScan
<1> QED
  BY <1>1, <1>2, <1>3, <1>4, <1>5, ChainStep

-----------------------------------------------------------------------------
(* The listener                                                            *)

\* AddMissingBlocks uses a key above every key the loop has copied.
LEMMA AddRangeStep ==
    ASSUME BackfillInv, NEW r \in BlockRange, AddMissingBlocks(r),
           UNCHANGED <<chainVars, loopVars>>, ListenerOK'
    PROVE  BackfillInv' /\ RangesStep
<1> DEFINE key == blockCounter + 1
<1>1. /\ blockCounter' = key
      /\ missingBlocks' = Put(missingBlocks, key, r)
  BY DEF AddMissingBlocks
<1>2. /\ blockCounter \in Nat /\ key \notin DOMAIN missingBlocks
      /\ \A k \in DOMAIN missingBlocks : missingBlocks[k].low \in Nat
  BY DEF BackfillInv, RangesOK, BlockRange
<1>3. /\ DOMAIN missingBlocks' = DOMAIN missingBlocks \cup {key}
      /\ missingBlocks'[key] = r
      /\ \A k \in DOMAIN missingBlocks : missingBlocks'[k] = missingBlocks[k]
      /\ missingBlocks' \in [DOMAIN missingBlocks' -> BlockRange]
  BY <1>1, <1>2 DEF Put, BackfillInv, RangesOK
<1>4. ChainOK'
  BY SameChain DEF BackfillInv
<1>5. RangesOK'
  BY <1>1, <1>2, <1>3 DEF BackfillInv, RangesOK
<1>6. LoopOK'
  BY <1>1, <1>2 DEF BackfillInv, LoopOK, loopVars
<1>7. RangesStep
  BY <1>2, <1>3 DEF RangesStep
<1>8. ASSUME NEW s \in todo PROVE Copied(s)' = Copied(s) /\ Behind(s)' = Behind(s)
  <2>1. s.id # key
    BY <1>2 DEF BackfillInv, LoopOK
  <2> QED
    BY <1>3, <2>1 DEF Copied, Behind, loopVars
<1>9. \A s, p : Reached(s, p)' = Reached(s, p)
  BY DEF Reached, Rank, EventsIn, OnChain, chainVars, loopVars
<1>10. \A s \in todo : \A p : Progress(s, p)' = Progress(s, p)
  BY <1>8, <1>9 DEF Progress, loopVars
<1>11. phase # "idle" => Current \in todo
  BY <1>2, CurrentIsRange DEF BackfillInv, LoopOK
<1>12. Current' = Current /\ UNCHANGED <<todo, phase, page>>
  BY DEF Current, loopVars
<1>13. ScanOK'
  BY <1>8, <1>10, <1>11, <1>12 DEF BackfillInv, ScanOK
<1> QED
  BY <1>4, <1>5, <1>6, <1>7, <1>13 DEF BackfillInv

\* MissBlocks adds a range of heights or, when the store fails, nothing.
LEMMA MissBlocksStep ==
    ASSUME BackfillInv, NEW low \in Nat, NEW high \in Nat, MissBlocks(low, high),
           UNCHANGED <<chainVars, loopVars>>, ListenerOK'
    PROVE  BackfillInv' /\ RangesStep
<1>1. CASE AddMissingBlocks([low |-> low, high |-> high])
  <2>1. [low |-> low, high |-> high] \in BlockRange
    BY DEF BlockRange
  <2> QED
    BY <1>1, <2>1, AddRangeStep
<1>2. CASE UNCHANGED storeVars
  <2>1. SameScan /\ UNCHANGED chainVars
    BY <1>2 DEF storeVars, loopVars, SameScan
  <2> QED
    BY <2>1, QuietStep
<1> QED
  BY <1>1, <1>2 DEF MissBlocks, StoreError

\* ReceiveBlock stores the range between the last seen height and the notice.
LEMMA ReceiveBlockStep ==
    ASSUME BackfillInv, NEW m \in notices, ReceiveBlock(m)
    PROVE  BackfillInv' /\ RangesStep
<1>1. /\ notices' = notices \ {m}
      /\ seeing' \in {seeing, m.height}
      /\ UNCHANGED <<chainVars, loopVars>>
      /\ \/ lastSeen = NoHeight /\ MissBlocks(0, m.height)
         \/ lastSeen # NoHeight /\ MissBlocks(lastSeen + 1, m.height)
         \/ UNCHANGED storeVars
  BY DEF ReceiveBlock, StoreError
<1>2. UNCHANGED lastSeen
  BY <1>1 DEF MissBlocks, AddMissingBlocks, StoreError, storeVars
<1>3. /\ ListenerOK'
      /\ m.height \in Nat
      /\ lastSeen # NoHeight => lastSeen + 1 \in Nat
  BY <1>1, <1>2 DEF BackfillInv, ListenerOK
<1>4. CASE lastSeen = NoHeight /\ MissBlocks(0, m.height)
  BY <1>1, <1>3, <1>4, MissBlocksStep
<1>5. CASE lastSeen # NoHeight /\ MissBlocks(lastSeen + 1, m.height)
  BY <1>1, <1>3, <1>5, MissBlocksStep
<1>6. CASE UNCHANGED storeVars
  <2>1. SameScan /\ UNCHANGED chainVars
    BY <1>1, <1>6 DEF storeVars, loopVars, SameScan
  <2> QED
    BY <1>3, <2>1, QuietStep
<1> QED
  BY <1>1, <1>4, <1>5, <1>6

\* SetLastSeen stores the height of a notice.
LEMMA SetLastSeenStep ==
    ASSUME BackfillInv, SetLastSeen
    PROVE  BackfillInv' /\ RangesStep
<1>1. /\ lastSeen' \in {lastSeen, seeing} /\ seeing' = NoHeight /\ notices' = notices
      /\ UNCHANGED chainVars /\ SameScan
  BY DEF SetLastSeen, SetLastSeenBlockHeight, StoreError, storeVars, noticeVars, loopVars, SameScan
<1>2. ListenerOK'
  BY <1>1 DEF BackfillInv, ListenerOK
<1> QED
  BY <1>1, <1>2, QuietStep

\* Marking an event touches neither the ranges nor the last seen height.
LEMMA MarkStep ==
    ASSUME NEW e, NEW now, Mark(e, now)
    PROVE  UNCHANGED <<lastSeen, missingBlocks, blockCounter>>
BY DEF Mark, AddMissingEvents, StoreError, storeVars

\* The actions that touch neither the chain, the ranges, the listener's heights nor
\* the loop's position.
LEMMA QuietActions ==
    ASSUME BackfillInv,
           \/ \E n \in ChainNodes : Subscribe(n) \/ Disconnect(n)
           \/ \E m \in notices : ReceiveEvent(m)
           \/ MarkEvent
           \/ \E e \in EventIds : EventSettled(e)
    PROVE  BackfillInv' /\ RangesStep
<1> DEFINE Quiet == /\ SameScan /\ UNCHANGED chainVars
                    /\ UNCHANGED <<lastSeen, seeing>> /\ notices' \subseteq notices
<1>1. ASSUME Quiet PROVE BackfillInv' /\ RangesStep
  <2>1. ListenerOK'
    BY <1>1 DEF BackfillInv, ListenerOK
  <2> QED
    BY <1>1, <2>1, QuietStep
<1>2. CASE \E n \in ChainNodes : Subscribe(n) \/ Disconnect(n)
  <2>1. Quiet
    BY <1>2 DEF Subscribe, Disconnect, storeVars, loopVars, SameScan
  <2> QED
    BY <1>1, <2>1
<1>3. CASE \E m \in notices : ReceiveEvent(m)
  <2>1. PICK m \in notices : ReceiveEvent(m)
    BY <1>3
  <2>2. UNCHANGED <<lastSeen, missingBlocks, blockCounter>>
    BY <2>1, MarkStep DEF ReceiveEvent
  <2>3. Quiet
    BY <2>1, <2>2 DEF ReceiveEvent, loopVars, SameScan
  <2> QED
    BY <1>1, <2>3
<1>4. CASE MarkEvent
  <2>1. UNCHANGED <<lastSeen, missingBlocks, blockCounter>>
    BY <1>4, MarkStep DEF MarkEvent
  <2>2. Quiet
    BY <1>4, <2>1 DEF MarkEvent, noticeVars, SameScan
  <2> QED
    BY <1>1, <2>2
<1>5. CASE \E e \in EventIds : EventSettled(e)
  <2>1. Quiet
    BY <1>5 DEF EventSettled, RemoveMissingEvent, noticeVars, loopVars, SameScan
  <2> QED
    BY <1>1, <2>1
<1> QED
  BY <1>2, <1>3, <1>4, <1>5

-----------------------------------------------------------------------------
(* The block backfill loop                                                 *)

\* Removing a range of the store touches no other range.
LEMMA RemoveRangeFacts ==
    ASSUME RangesOK, NEW id, RemoveMissingBlockRange(id) \/ UNCHANGED storeVars
    PROVE  /\ RangesOK' /\ RangesStep /\ UNCHANGED <<lastSeen, blockCounter>>
           /\ \A r : r.id # id /\ Copied(r) => Copied(r)'
<1>0. \A k \in DOMAIN missingBlocks : missingBlocks[k].low \in Nat
  BY DEF RangesOK, BlockRange
<1>1. CASE RemoveMissingBlockRange(id)
  <2>1. /\ DOMAIN missingBlocks' = DOMAIN missingBlocks \ {id}
        /\ \A k \in DOMAIN missingBlocks' : missingBlocks'[k] = missingBlocks[k]
        /\ missingBlocks' \in [DOMAIN missingBlocks' -> BlockRange]
        /\ UNCHANGED <<lastSeen, blockCounter>>
    BY <1>1 DEF RemoveMissingBlockRange, Delete, RangesOK
  <2> QED
    BY <1>0, <2>1 DEF RangesOK, RangesStep, Copied
<1>2. CASE UNCHANGED storeVars
  BY <1>0, <1>2 DEF storeVars, RangesOK, RangesStep, Copied
<1> QED
  BY <1>1, <1>2

\* Going on to the next range: the ranges left of the copy are still as copied.
LEMMA FinishRangeStep ==
    ASSUME BackfillInv, phase # "idle", FinishRange, UNCHANGED <<chainVars, blockCounter>>,
           ListenerOK', RangesOK', \A r : r.id # Current.id /\ Copied(r) => Copied(r)'
    PROVE  BackfillInv'
<1>1. Current \in todo
  BY CurrentIsRange DEF BackfillInv, LoopOK, RangesOK
<1>2. /\ todo' = todo \ {Current}
      /\ phase' = IF todo' = {} THEN "idle" ELSE "search"
      /\ page' = 1 /\ top' = top
  BY DEF FinishRange
<1>3. ChainOK'
  BY SameChain DEF BackfillInv
<1>4. LoopOK'
  BY <1>2 DEF BackfillInv, LoopOK
<1>5. \A r \in todo' : Copied(r)'
  <2>1. \A r \in todo' : r \in todo /\ r # Current /\ r.id # Current.id
    BY <1>1, <1>2 DEF BackfillInv, LoopOK
  <2> QED
    BY <2>1 DEF BackfillInv, ScanOK
<1>6. phase' # "idle" => Current' \in todo'
  BY <1>2, <1>4, CurrentIsRange DEF RangesOK
<1>7. ScanOK'
  BY <1>2, <1>5, <1>6 DEF ScanOK
<1> QED
  BY <1>3, <1>4, <1>7 DEF BackfillInv

\* The range is given up until the next poll, or removed.
LEMMA FinishActions ==
    ASSUME BackfillInv, SearchFails \/ RemoveRange
    PROVE  BackfillInv' /\ RangesStep
<1>1. /\ phase # "idle" /\ FinishRange
      /\ RemoveMissingBlockRange(Current.id) \/ UNCHANGED storeVars
      /\ UNCHANGED <<chainVars, noticeVars, seeing>>
  BY DEF SearchFails, RemoveRange, Try, StoreError
<1>2. /\ RangesOK' /\ RangesStep /\ UNCHANGED <<lastSeen, blockCounter>>
      /\ \A r : r.id # Current.id /\ Copied(r) => Copied(r)'
  BY <1>1, RemoveRangeFacts DEF BackfillInv
<1>3. ListenerOK'
  BY <1>1, <1>2 DEF BackfillInv, ListenerOK, noticeVars
<1> QED
  BY <1>1, <1>2, <1>3, FinishRangeStep

\* The ranges are copied at the poll.
LEMMA PollBlocksStep ==
    ASSUME BackfillInv, PollBlocks
    PROVE  BackfillInv' /\ RangesStep
<1>1. /\ DOMAIN missingBlocks # {}
      /\ todo' = {[id |-> k, low |-> missingBlocks[k].low, high |-> missingBlocks[k].high] :
                     k \in DOMAIN missingBlocks}
      /\ phase' = "search" /\ page' = 1 /\ top' = top
      /\ UNCHANGED <<storeVars, chainVars, noticeVars, seeing>>
  BY DEF PollBlocks
<1>2. ChainOK' /\ RangesOK' /\ RangesStep /\ ListenerOK'
  BY <1>1, SameChain, SameStore DEF BackfillInv, ListenerOK, noticeVars
<1>3. \A k \in DOMAIN missingBlocks :
         /\ k \in 1..blockCounter
         /\ missingBlocks[k] \in [low : Nat, high : Nat]
  BY DEF BackfillInv, RangesOK, BlockRange
<1>4. LoopOK'
  <2>1. todo' \subseteq [id : 1..blockCounter, low : Nat, high : Nat]
    BY <1>1, <1>3
  <2>2. \A r, s \in todo' : r.id = s.id => r = s
    BY <1>1, SMT
  <2>3. todo' # {}
    BY <1>1, Zenon
  <2> QED
    BY <1>1, <2>1, <2>2, <2>3 DEF BackfillInv, LoopOK, storeVars
<1>5. \A r \in todo' : Copied(r)'
  BY <1>1, <1>3 DEF Copied, storeVars
<1>6. Current' \in todo'
  BY <1>1, <1>2, <1>4, CurrentIsRange DEF RangesOK
<1>7. ScanOK'
  BY <1>1, <1>5, <1>6 DEF ScanOK
<1> QED
  BY <1>2, <1>4, <1>7 DEF BackfillInv

\* The process stops with its copy.
LEMMA CrashStep ==
    ASSUME BackfillInv, Crash
    PROVE  BackfillInv' /\ RangesStep
<1>1. /\ todo' = {} /\ phase' = "idle" /\ page' = 1 /\ top' = NoHeight
      /\ notices' = {} /\ seeing' = NoHeight
      /\ UNCHANGED <<storeVars, chainVars>>
  BY DEF Crash
<1>2. ChainOK' /\ RangesOK' /\ RangesStep /\ ListenerOK'
  BY <1>1, SameChain, SameStore DEF BackfillInv, ListenerOK
<1>3. LoopOK' /\ ScanOK'
  BY <1>1 DEF LoopOK, ScanOK
<1> QED
  BY <1>2, <1>3 DEF BackfillInv

\* A page is fetched: the block it reaches is at least as high as the lower bound
\* of what is stored of the range, and as high as the range's end if that is gone.
LEMMA SearchEventsStep ==
    ASSUME BackfillInv, NEW n \in ChainNodes, SearchEvents(n)
    PROVE  BackfillInv' /\ RangesStep
<1>1. /\ phase = "search" /\ phase' = "mark" /\ page' = page /\ todo' = todo
      /\ HasPage(Found(n), page)
      /\ toMark' = PageOf(Found(n), page)
      /\ top' = IF toMark' = {} THEN NoHeight ELSE blockOf[Max(toMark')]
      /\ UNCHANGED <<storeVars, chainVars, noticeVars, seeing>>
  BY DEF SearchEvents
<1>2. /\ ChainOK' /\ RangesOK' /\ RangesStep /\ ListenerOK'
      /\ \A r : Copied(r)' = Copied(r)
  BY <1>1, SameChain, SameStore DEF BackfillInv, ListenerOK, noticeVars
<1>3. \A k \in DOMAIN missingBlocks : missingBlocks[k].low \in Nat
  BY DEF BackfillInv, RangesOK, BlockRange
<1>4. Current' = Current
  BY <1>1 DEF Current
<1>5. Current \in todo /\ Current \in [id : 1..blockCounter, low : Nat, high : Nat]
  BY <1>1, CurrentIsRange DEF BackfillInv, LoopOK, RangesOK
<1>6. top' \in Nat \cup {NoHeight} /\ Progress(Current, page)'
  <2>1. CASE toMark' = {}
    <3>1. page = 1 /\ top' = NoHeight
      BY <1>1, <2>1 DEF HasPage
    <3>2. Copied(Current)
      BY <1>1, <3>1 DEF BackfillInv, ScanOK
    <3> QED
      BY <1>4, <1>2, <3>1, <3>2 DEF Progress
  <2>2. CASE toMark' # {}
    <3> DEFINE e == Max(toMark')
    <3>1. e \in PageOf(Found(n), page)
      <4>1. toMark' \in SUBSET (1..Len(blockOf)) /\ Len(blockOf) \in Nat
        BY <1>1, LenProperties DEF PageOf, Found, EventsIn, OnChain, BackfillInv, ChainOK
      <4> QED
        BY <1>1, <2>2, <4>1, MaxIsElement, Zenon
    <3> HIDE DEF e
    <3>2. top' = blockOf[e]
      BY <1>1, <2>2 DEF e
    <3>3. /\ e \in EventsIn(Current.low, Current.high)
          /\ Rank(Current, e) < page * BlockFetchChunkSize
          /\ Reached(Current, page - 1) => top <= blockOf[e]
      BY <3>1, NextPageHigher DEF BackfillInv, LoopOK
    <3>4. /\ blockOf[e] \in Nat /\ Current.low <= blockOf[e] /\ blockOf[e] < Current.high
      BY <3>3, LenProperties DEF EventsIn, OnChain, BackfillInv, ChainOK
    <3>5. Reached(Current, page)'
      BY <1>1, <1>4, <3>2, <3>3, ZenonT(30) DEF Reached, Rank, EventsIn, OnChain, chainVars
    <3>6. Behind(Current)'
      <4>1. CASE Copied(Current)
        <5>1. /\ Current.id \in DOMAIN missingBlocks
              /\ missingBlocks[Current.id].low <= top'
              /\ missingBlocks[Current.id].high = Current.high
          BY <3>2, <3>4, <4>1, SMTT(30) DEF Copied
        <5> QED
          BY <1>1, <1>4, <5>1 DEF Behind, storeVars
      <4>2. CASE top # NoHeight /\ Reached(Current, page - 1) /\ Behind(Current)
        <5>1. top \in Nat /\ top' \in Nat /\ top <= top' /\ missingBlocks' = missingBlocks
          BY <1>1, <3>2, <3>3, <3>4, <4>2 DEF storeVars, BackfillInv, LoopOK
        <5>2. CASE Current.id \in DOMAIN missingBlocks
          BY <1>3, <1>4, <4>2, <5>1, <5>2 DEF Behind
        <5>3. CASE Current.id \notin DOMAIN missingBlocks
          <6>1. top >= Current.high - 1 /\ Current.high \in Nat
            BY <1>5, <4>2, <5>3 DEF Behind
          <6>2. top' >= Current.high - 1
            BY <5>1, <6>1
          <6> QED
            BY <1>4, <5>1, <5>3, <6>2 DEF Behind
        <5> QED
          BY <5>2, <5>3
      <4> QED
        BY <1>1, <4>1, <4>2, Zenon DEF BackfillInv, ScanOK, Progress
    <3>7. top' # NoHeight
      BY <3>2, <3>4 DEF NoHeight
    <3> QED
      BY <1>4, <3>2, <3>4, <3>5, <3>6, <3>7 DEF Progress
  <2> QED
    BY <2>1, <2>2
<1>7. LoopOK'
  BY <1>1, <1>6 DEF BackfillInv, LoopOK, storeVars
<1>8. ScanOK'
  BY <1>1, <1>4, <1>2, <1>6 DEF BackfillInv, ScanOK
<1> QED
  BY <1>2, <1>7, <1>8 DEF BackfillInv

\* A page is done: the put of UpdateMissingBlockRange moves the lower bound up, and
\* is never made once the range is gone.
LEMMA PageDoneStep ==
    ASSUME BackfillInv, PageDone
    PROVE  BackfillInv' /\ RangesStep
<1>0. PICK c \in todo : c = Current
  BY CurrentIsRange DEF PageDone, BackfillInv, LoopOK, RangesOK
<1> DEFINE shrunk == [low |-> top, high |-> c.high]
<1>1. /\ phase = "mark" /\ todo' = todo /\ top' = top
      /\ \/ phase' = "search" /\ page' = page + 1
         \/ phase' = "remove" /\ page' = page
      /\ ShrinkRange(c)
      /\ UNCHANGED <<chainVars, noticeVars, seeing>>
  BY <1>0 DEF PageDone
<1>2. c \in [id : 1..blockCounter, low : Nat, high : Nat]
  BY DEF BackfillInv, LoopOK
<1>3. Current' = c
  BY <1>0, <1>1 DEF Current
<1>4. Progress(c, page) /\ top \in Nat \cup {NoHeight} /\ page \in Nat \ {0}
  BY <1>0, <1>1 DEF BackfillInv, ScanOK, LoopOK
<1>5. \A k \in DOMAIN missingBlocks : missingBlocks[k].low \in Nat
  BY DEF BackfillInv, RangesOK, BlockRange
<1>6. ChainOK'
  BY <1>1, SameChain, Zenon DEF BackfillInv
<1>7. /\ RangesOK' /\ RangesStep /\ UNCHANGED <<lastSeen, blockCounter>>
      /\ \A r : r.id # c.id /\ Copied(r) => Copied(r)'
      /\ IF top = NoHeight THEN Copied(c)' ELSE Behind(c)'
  <2>1. CASE UNCHANGED storeVars
    <3>1. /\ RangesOK' /\ RangesStep
          /\ UNCHANGED <<lastSeen, missingBlocks, blockCounter>>
          /\ \A r : Copied(r)' = Copied(r)
      BY <2>1, SameStore DEF BackfillInv
    <3>2. Behind(c)' = Behind(c)
      BY <1>1, <3>1 DEF Behind
    <3> QED
      BY <1>4, <3>1, <3>2 DEF Progress
  <2>2. CASE top # NoHeight /\ top >= c.high - 1 /\ RemoveMissingBlockRange(c.id)
    <3>1. /\ RangesOK' /\ RangesStep /\ UNCHANGED <<lastSeen, blockCounter>>
          /\ \A r : r.id # c.id /\ Copied(r) => Copied(r)'
      BY <2>2, RemoveRangeFacts DEF BackfillInv
    <3>2. c.id \notin DOMAIN missingBlocks'
      BY <2>2 DEF RemoveMissingBlockRange, Delete
    <3>3. Behind(c)'
      BY <1>1, <2>2, <3>2 DEF Behind
    <3> QED
      BY <2>2, <3>1, <3>3
  <2>3. CASE /\ top # NoHeight /\ ~(top >= c.high - 1)
             /\ UpdateMissingBlockRange(c.id, shrunk)
    <3>1. /\ c.id \in DOMAIN missingBlocks
          /\ missingBlocks[c.id].low <= top
          /\ missingBlocks[c.id].high = c.high
      BY <1>4, <2>3 DEF Progress, Behind
    <3>2. shrunk \in BlockRange
      BY <1>2, <1>4, <2>3 DEF BlockRange
    <3>3. /\ DOMAIN missingBlocks' = DOMAIN missingBlocks
          /\ missingBlocks'[c.id] = shrunk
          /\ \A k \in DOMAIN missingBlocks : k # c.id => missingBlocks'[k] = missingBlocks[k]
          /\ missingBlocks' \in [DOMAIN missingBlocks' -> BlockRange]
          /\ UNCHANGED <<lastSeen, blockCounter>>
      BY <2>3, <3>1, <3>2 DEF UpdateMissingBlockRange, Put, BackfillInv, RangesOK
    <3>4. RangesOK'
      BY <3>3 DEF BackfillInv, RangesOK
    <3>5. RangesStep
      BY <1>4, <1>5, <2>3, <3>1, <3>3 DEF RangesStep
    <3>6. \A r : r.id # c.id /\ Copied(r) => Copied(r)'
      BY <3>3 DEF Copied
    <3>7. Behind(c)'
      BY <1>1, <1>4, <2>3, <3>1, <3>3 DEF Behind
    <3> QED
      BY <2>3, <3>3, <3>4, <3>5, <3>6, <3>7, Zenon
  <2> QED
    BY <1>1, <2>1, <2>2, <2>3 DEF ShrinkRange, Try, StoreError, storeVars
<1>8. ListenerOK'
  BY <1>1, <1>7 DEF BackfillInv, ListenerOK, noticeVars
<1>9. LoopOK'
  BY <1>1, <1>4, <1>7 DEF BackfillInv, LoopOK
<1>10. phase' = "search" => page' # 1 /\ Progress(c, page - 1)'
  <2>1. SUFFICES ASSUME phase' = "search"
                 PROVE  page' # 1 /\ Progress(c, page - 1)'
    OBVIOUS
  <2>2. page' = page + 1 /\ page' # 1 /\ page' - 1 = page
    BY <1>1, <1>4, <2>1
  <2> QED
    BY <1>1, <1>4, <1>7, <2>2 DEF Progress, Reached, Rank, EventsIn, OnChain, chainVars
<1>11. ScanOK'
  <2>1. \A r \in todo : r # c => Copied(r)'
    BY <1>0, <1>7 DEF BackfillInv, ScanOK, LoopOK
  <2> QED
    BY <1>1, <1>3, <1>10, <2>1 DEF ScanOK
<1> QED
  BY <1>6, <1>7, <1>8, <1>9, <1>11 DEF BackfillInv

-----------------------------------------------------------------------------

\* The invariant holds initially, and every step keeps it and shrinks the ranges.
LEMMA BackfillInvInductive ==
    /\ Init => BackfillInv
    /\ BackfillInv /\ [Next]_vars => BackfillInv' /\ [RangesStep]_vars
<1>1. ASSUME Init PROVE BackfillInv
  <2>1. ChainOK
    BY <1>1, EmptySeq DEF Init, ChainOK, OnChain
  <2>2. RangesOK /\ ListenerOK /\ LoopOK /\ ScanOK
    BY <1>1 DEF Init, StoreInit, Empty, NoKey, RangesOK, ListenerOK, LoopOK, ScanOK
  <2> QED
    BY <2>1, <2>2 DEF BackfillInv
<1>2. ASSUME BackfillInv, Next PROVE BackfillInv' /\ RangesStep
  <2>1. CASE \E n \in ChainNodes, k \in 0..MaxPerBlock : NewBlock(n, k)
    BY <1>2, <2>1, NewBlockStep
  <2>2. CASE \E n \in ChainNodes : CatchUp(n)
    BY <1>2, <2>2, CatchUpStep
  <2>3. CASE \/ \E n \in ChainNodes : Subscribe(n) \/ Disconnect(n)
             \/ \E m \in notices : ReceiveEvent(m)
             \/ MarkEvent
             \/ \E e \in EventIds : EventSettled(e)
    BY <1>2, <2>3, QuietActions
  <2>4. CASE SetLastSeen
    BY <1>2, <2>4, SetLastSeenStep
  <2>5. CASE \E m \in notices : ReceiveBlock(m)
    BY <1>2, <2>5, ReceiveBlockStep
  <2>6. CASE PollBlocks
    BY <1>2, <2>6, PollBlocksStep
  <2>7. CASE \E n \in ChainNodes : SearchEvents(n)
    BY <1>2, <2>7, SearchEventsStep
  <2>8. CASE SearchFails \/ RemoveRange
    BY <1>2, <2>8, FinishActions
  <2>9. CASE PageDone
    BY <1>2, <2>9, PageDoneStep
  <2>10. CASE Crash
    BY <1>2, <2>10, CrashStep
  <2> QED
    BY <1>2, <2>1, <2>2, <2>3, <2>4, <2>5, <2>6, <2>7, <2>8, <2>9, <2>10
    DEF Next, Listener, Loop
<1>3. ASSUME BackfillInv, UNCHANGED vars PROVE BackfillInv'
  <2>1. SameScan /\ UNCHANGED chainVars /\ UNCHANGED <<lastSeen, seeing, notices>>
    BY <1>3 DEF vars, storeVars, chainVars, noticeVars, loopVars, SameScan
  <2>2. ListenerOK'
    BY <1>3, <2>1 DEF BackfillInv, ListenerOK
  <2> QED
    BY <1>3, <2>1, <2>2, QuietStep
<1> QED
  BY <1>1, <1>2, <1>3

\* A stored range of missed blocks only shrinks, and a range that was removed never
\* comes back, through any interleaving of the listener, the block backfill loop,
\* crashes and store errors, with any number of chain nodes at any heights.
THEOREM RangesOnlyShrinkCorrect == Spec => RangesOnlyShrink
<1> QED
  BY BackfillInvInductive, PTL DEF Spec, RangesOnlyShrink, RangesStep

=============================================================================
