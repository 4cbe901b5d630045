------------------------------- MODULE Gossip -------------------------------
(***************************************************************************)
(* The gossip side of the SWIM transport (delegate.go, frameset.go,        *)
(* framesetdecoder.go): a message is cut into frames, memberlist asks the  *)
(* delegate for one frame each time it gossips to a peer, a receiving node *)
(* relays frames, puts the message together and hands it to the listener   *)
(* loop.                                                                   *)
(*                                                                         *)
(* Packets are lost and overtake each other, also inside a node: every     *)
(* packet is handled in a goroutine of its own (NotifyMsg).  The handler   *)
(* holds decoderMu until the listener loop takes the message, so one       *)
(* message is pending per node and no frame is handled meanwhile.          *)
(***************************************************************************)
EXTENDS Naturals, Sequences, FiniteSets, FiniteSetsExt, SequencesExt, Functions

CONSTANTS
    Nodes,
    Messages,
    Source,          \* the node that broadcasts a message
    Size,            \* units of data in a message
    PackedSize,      \* units of data in the compressed message
    Mtus,            \* room for data in a packet, in units; 0: too little
    MaxFrameCount,   \* MaxFrameCount
    Multiplier,      \* retransmitMultiplier
    MaxPanics        \* bound: panics of nodes

ASSUME GossipAssumption ==
    /\ Source \in [Messages -> Nodes]
    /\ Size \in [Messages -> Nat \ {0}] /\ PackedSize \in [Messages -> Nat \ {0}]
    /\ Mtus \subseteq Nat
    /\ {MaxFrameCount, Multiplier, MaxPanics} \subseteq Nat

VARIABLES
    unsent,          \* messages not broadcast yet
    messageQueue,    \* per node: frame queues [stream, compressed, offset, number]
    retransmitQueue, \* per node: [frame, count]
    decoders,        \* per node: stream -> [compressed, frames]
    framesSeen,      \* per node: stream -> frame numbers
    rx,              \* per node: the message the handler is blocked on
    pruneLoop,       \* per node: "starting", "waiting", "fired"
    early,           \* per node: streams first seen before the loops started
    net,             \* packets under way: [to, frame]
    panics,          \* panics so far
    transmits,       \* history: how often a node sent a frame since it started
    sent,            \* history: messages broadcast
    delivered        \* history: messages each node's listeners were given

nodeVars == <<messageQueue, retransmitQueue, decoders, framesSeen, rx, pruneLoop, early>>
histVars == <<transmits, sent, delivered>>
vars == <<unsent, nodeVars, net, panics, histVars>>

-----------------------------------------------------------------------------
(* Frames *)

Raw(m) == [i \in 1..Size[m] |-> <<m, i>>]
Packed(m) == [i \in 1..PackedSize[m] |-> <<m, "packed", i>>]
Bytes(m, compressed) == IF compressed THEN Packed(m) ELSE Raw(m)

NoMessage == [source |-> "none"]
AsMessage(m) == [source |-> Source[m], data |-> Raw(m)]

NewFrameQueue(m) == [stream |-> m, compressed |-> FALSE, offset |-> 0, number |-> 0]

AtEnd(fq) == fq.offset >= Len(Bytes(fq.stream, fq.compressed))

\* Mutant: one frame too many is cut.
NextFailsLate(fq, mtu) == fq.number > MaxFrameCount \/ mtu < 1

\* Next fails when the message has too many frames and when nothing fits.
NextFails(fq, mtu) == fq.number >= MaxFrameCount \/ mtu < 1

\* The queue after its next frame, and that frame.  A message that does not
\* fit into its first frame is compressed.
AfterNext(fq, mtu) ==
    LET compressed == fq.compressed \/ (fq.number = 0 /\ mtu < Size[fq.stream])
    IN  [stream |-> fq.stream, compressed |-> compressed, number |-> fq.number + 1,
         offset |-> Min({fq.offset + mtu, Len(Bytes(fq.stream, compressed))})]

NextFrame(fq, mtu) ==
    LET after == AfterNext(fq, mtu)
        bytes == Bytes(fq.stream, after.compressed)
    IN  [stream |-> fq.stream, source |-> Source[fq.stream], number |-> fq.number,
         compressed |-> after.compressed, last |-> fq.offset + mtu >= Len(bytes),
         data |-> SubSeq(bytes, fq.offset + 1, after.offset)]

-----------------------------------------------------------------------------
(* The decoder: frames is a slice with holes, kept as a partial function *)

NewDecoder == [compressed |-> FALSE, frames |-> <<>>]

SliceLen(d) == IF DOMAIN d.frames = {} THEN 0 ELSE Max(DOMAIN d.frames) + 1
Holes(d) == (0..SliceLen(d) - 1) \ DOMAIN d.frames

\* HasReceivedFrame walks the slice from the front and reads through the nil
\* pointer of a hole it meets before the frame.
HitsHole(d, number) ==
    \E h \in Holes(d) : number \notin DOMAIN d.frames \/ h < number

\* ReadFrame's checks, for a frame of the decoder's stream that is new to it.
ReadFails(d, f) ==
    \/ Cardinality(DOMAIN d.frames) > MaxFrameCount \/ f.number > MaxFrameCount
    \/ DOMAIN d.frames # {} /\ d.compressed # f.compressed

\* Mutant: the compression flag of the first frame is not taken over.
AfterReadNoFlag(d, f) ==
    [compressed |-> d.compressed,
     frames |-> [i \in DOMAIN d.frames \cup {f.number} |-> IF i = f.number THEN f ELSE d.frames[i]]]

\* The first frame to arrive sets the decoder's compression flag.
AfterRead(d, f) ==
    [compressed |-> IF DOMAIN d.frames = {} THEN f.compressed ELSE d.compressed,
     frames |-> [i \in DOMAIN d.frames \cup {f.number} |-> IF i = f.number THEN f ELSE d.frames[i]]]

ReceivedAll(d) ==
    /\ \E i \in DOMAIN d.frames : d.frames[i].last
    /\ Holes(d) = {}

\* Decode: the data in frame order, decompressed; corrupt data does not
\* decompress.
Decoded(d) ==
    LET bytes == FlattenSeq([i \in 1..SliceLen(d) |-> d.frames[i - 1].data])
    IN  IF d.compressed THEN {Raw(m) : m \in {x \in Messages : Packed(x) = bytes}} ELSE {bytes}

-----------------------------------------------------------------------------
\* Smallest c with 10^c >= k.
CeilLog10(k) == Min({c \in 0..k : 10^c >= k})

\* getTransmissionCount.  All nodes are members.
TransmissionCount == Multiplier * CeilLog10(Cardinality(Nodes) + 1)

\* Mutant: a frame is sent once more than it should be.
ExhaustedLate(count) == count > TransmissionCount

\* A frame sent this often leaves the retransmission queue.
Exhausted(count) == count >= TransmissionCount

FrameIds == Messages \X (0..MaxFrameCount)

\* A node that has just started.
Empty(f) == [n \in Nodes |-> f]

Init ==
    /\ unsent = Messages
    /\ messageQueue = Empty(<<>>) /\ retransmitQueue = Empty(<<>>)
    /\ decoders = Empty(<<>>) /\ framesSeen = Empty(<<>>)
    /\ rx = Empty(NoMessage)
    /\ pruneLoop = Empty("starting") /\ early = Empty({})
    /\ net = {} /\ panics = 0
    /\ transmits = Empty([f \in FrameIds |-> 0])
    /\ sent = {} /\ delivered = Empty({})

\* Send: the listener loop queues a message that was given to Broadcast.
Send(m) ==
    /\ m \in unsent
    /\ unsent' = unsent \ {m}
    /\ messageQueue' = [messageQueue EXCEPT ![Source[m]] = Append(@, NewFrameQueue(m))]
    /\ sent' = sent \cup {AsMessage(m)}
    /\ UNCHANGED <<retransmitQueue, decoders, framesSeen, rx, pruneLoop, early, net, panics,
                   transmits, delivered>>

\* A packet with the frame leaves n for the peer.
Transmit(n, peer, f) ==
    /\ net' = net \cup {[to |-> peer, frame |-> f]}
    /\ transmits' = [transmits EXCEPT ![n][<<f.stream, f.number>>] = @ + 1]

\* The queue without the finished message at its head.
Unfinished(q) == IF q # <<>> /\ AtEnd(Head(q)) THEN Tail(q) ELSE q

\* Mutant: a message that cannot be cut stays at the head of the queue.
AfterFailureKeep(q) == q

\* A message that cannot be cut is dropped: it could not be sent in full.
AfterFailure(q) == Tail(q)

\* GetBroadcasts: memberlist gossips to a peer and asks for one frame, new
\* ones first.
GetBroadcasts(n, peer, mtu) ==
    LET q == Unfinished(messageQueue[n])
        fq == Head(q)
        old == Head(retransmitQueue[n])
        Set(queue) == messageQueue' = [messageQueue EXCEPT ![n] = queue]
        NewFrame ==
            /\ q # <<>> /\ ~NextFails(fq, mtu)
            /\ Set(<<AfterNext(fq, mtu)>> \o Tail(q))
            /\ Transmit(n, peer, NextFrame(fq, mtu))
            /\ retransmitQueue' =
                  IF TransmissionCount > 1
                  THEN [retransmitQueue EXCEPT ![n] = Append(@, [frame |-> NextFrame(fq, mtu), count |-> 1])]
                  ELSE retransmitQueue
        DropMessage ==
            /\ q # <<>> /\ NextFails(fq, mtu)
            /\ Set(AfterFailure(q))
            /\ UNCHANGED <<retransmitQueue, net, transmits>>
        OldFrame ==
            /\ q = <<>> /\ retransmitQueue[n] # <<>>
            /\ Set(q)
            /\ Transmit(n, peer, old.frame)
            /\ retransmitQueue' = [retransmitQueue EXCEPT ![n] =
                  IF Exhausted(old.count + 1) THEN Tail(@) ELSE [@ EXCEPT ![1].count = @ + 1]]
        Nothing ==
            /\ q = <<>> /\ retransmitQueue[n] = <<>>
            /\ Set(q)
            /\ UNCHANGED <<retransmitQueue, net, transmits>>
    IN  /\ messageQueue[n] # <<>> \/ retransmitQueue[n] # <<>>
        /\ NewFrame \/ DropMessage \/ OldFrame \/ Nothing
        /\ UNCHANGED <<unsent, decoders, framesSeen, rx, pruneLoop, early, panics, sent, delivered>>

-----------------------------------------------------------------------------
(* handleInboundMessage *)

Forget(f, keys) == Restrict(f, DOMAIN f \ keys)
With(f, key, value) == [k \in DOMAIN f \cup {key} |-> IF k = key THEN value ELSE f[k]]

DecoderOf(n, f) == IF f.stream \in DOMAIN decoders[n] THEN decoders[n][f.stream] ELSE NewDecoder

\* Frames of other nodes are relayed, but not the first one of a stream: it
\* only starts the record of the frames seen.
Relay(n, f) ==
    IF f.source = n
    THEN UNCHANGED <<framesSeen, retransmitQueue>>
    ELSE LET known == f.stream \in DOMAIN framesSeen[n]
             numbers == IF known THEN framesSeen[n][f.stream] ELSE {}
         IN  /\ framesSeen' = [framesSeen EXCEPT ![n] = With(@, f.stream, numbers \cup {f.number})]
             /\ retransmitQueue' =
                   IF known /\ f.number \notin numbers
                   THEN [retransmitQueue EXCEPT ![n] = Append(@, [frame |-> f, count |-> 0])]
                   ELSE retransmitQueue

\* The process dies and docker starts it again: nothing survives.
Panic(n) ==
    /\ panics < MaxPanics
    /\ panics' = panics + 1
    /\ messageQueue' = [messageQueue EXCEPT ![n] = <<>>]
    /\ retransmitQueue' = [retransmitQueue EXCEPT ![n] = <<>>]
    /\ decoders' = [decoders EXCEPT ![n] = <<>>]
    /\ framesSeen' = [framesSeen EXCEPT ![n] = <<>>]
    /\ rx' = [rx EXCEPT ![n] = NoMessage]
    /\ pruneLoop' = [pruneLoop EXCEPT ![n] = "starting"]
    /\ early' = [early EXCEPT ![n] = {}]
    /\ transmits' = [transmits EXCEPT ![n] = [f \in FrameIds |-> 0]]

\* The decoder takes a frame.  A complete message leaves the decoders and is
\* offered to the listener loop; framesSeen keeps its entry.
Decode(n, f) ==
    LET d == DecoderOf(n, f)
        after == AfterRead(d, f)
        Store(decoder) == decoders' = [decoders EXCEPT ![n] = With(@, f.stream, decoder)]
    IN  \/ /\ f.number \in DOMAIN d.frames \/ ReadFails(d, f)
           /\ Store(d)
           /\ UNCHANGED <<rx, early>>
        \/ /\ f.number \notin DOMAIN d.frames /\ ~ReadFails(d, f) /\ ~ReceivedAll(after)
           /\ Store(after)
           /\ UNCHANGED <<rx, early>>
        \/ /\ f.number \notin DOMAIN d.frames /\ ~ReadFails(d, f) /\ ReceivedAll(after)
           /\ decoders' = [decoders EXCEPT ![n] = Forget(@, {f.stream})]
           /\ early' = [early EXCEPT ![n] = @ \ {f.stream}]
           /\ \/ \E data \in Decoded(after) :
                    rx' = [rx EXCEPT ![n] = [source |-> after.frames[0].source, data |-> data]]
              \/ Decoded(after) = {} /\ UNCHANGED rx

\* A packet arrives and its handler gets decoderMu.
Receive(p) ==
    LET n == p.to
        f == p.frame
    IN  /\ p \in net /\ rx[n] = NoMessage
        /\ net' = net \ {p}
        /\ IF HitsHole(DecoderOf(n, f), f.number)
           THEN Panic(n)
           ELSE /\ Relay(n, f)
                /\ Decode(n, f)
                /\ UNCHANGED <<messageQueue, pruneLoop, panics, transmits>>
        /\ UNCHANGED <<unsent, sent, delivered>>

Lose(p) ==
    /\ p \in net
    /\ net' = net \ {p}
    /\ UNCHANGED <<unsent, nodeVars, panics, histVars>>

-----------------------------------------------------------------------------
(* The loops of a node *)

\* StartListener and StartPruneLoop: memberlist runs, and frames arrive,
\* before they do.
StartListener(n) ==
    /\ pruneLoop[n] = "starting"
    /\ pruneLoop' = [pruneLoop EXCEPT ![n] = "waiting"]
    /\ early' = [early EXCEPT ![n] = DOMAIN decoders[n]]
    /\ UNCHANGED <<unsent, messageQueue, retransmitQueue, decoders, framesSeen, rx, net, panics, histVars>>

\* The timer of the prune loop fires once, PruneInterval after its start.
\* Older than WaitTimeout, which is as long, are then the streams first seen
\* before the start.
Prune(n) ==
    /\ pruneLoop[n] = "waiting" /\ rx[n] = NoMessage
    /\ pruneLoop' = [pruneLoop EXCEPT ![n] = "fired"]
    /\ decoders' = [decoders EXCEPT ![n] = Forget(@, early[n])]
    /\ framesSeen' = [framesSeen EXCEPT ![n] = Forget(@, early[n])]
    /\ early' = [early EXCEPT ![n] = {}]
    /\ UNCHANGED <<unsent, messageQueue, retransmitQueue, rx, net, panics, histVars>>

\* The listener loop takes the message and gives it to the listeners.
Dispatch(n) ==
    /\ pruneLoop[n] # "starting" /\ rx[n] # NoMessage
    /\ rx' = [rx EXCEPT ![n] = NoMessage]
    /\ delivered' = [delivered EXCEPT ![n] = @ \cup {rx[n]}]
    /\ UNCHANGED <<unsent, messageQueue, retransmitQueue, decoders, framesSeen, pruneLoop, early, net,
                   panics, transmits, sent>>

Gossips(n) == \E peer \in Nodes \ {n}, mtu \in Mtus : GetBroadcasts(n, peer, mtu)

Next ==
    \/ \E m \in Messages : Send(m)
    \/ \E n \in Nodes : Gossips(n) \/ StartListener(n) \/ Prune(n) \/ Dispatch(n)
    \/ \E p \in net : Receive(p) \/ Lose(p)

Spec == Init /\ [][Next]_vars

\* memberlist gossips on a timer, a packet is handled or lost in the end, and
\* the listener loop is started and runs.  Nothing is assumed of Send, of the
\* timer of the prune loop, or of which packets are lost.
FairSpec ==
    /\ Spec
    /\ \A n \in Nodes : WF_vars(Gossips(n)) /\ WF_vars(StartListener(n)) /\ WF_vars(Dispatch(n))
    /\ WF_vars(\E p \in net : Receive(p) \/ Lose(p))

-----------------------------------------------------------------------------
(* Properties *)

Frames == [stream : Messages, source : Nodes, number : 0..MaxFrameCount - 1, compressed : BOOLEAN,
           last : BOOLEAN, data : Seq(UNION {Range(Raw(m)) \cup Range(Packed(m)) : m \in Messages})]

\* The state is well formed; what is under way, queued or in a decoder is a
\* frame with a number below MaxFrameCount, filed under its own number.
TypeOK ==
    /\ unsent \subseteq Messages /\ panics \in 0..MaxPanics
    /\ \A p \in net : p.to \in Nodes /\ p.frame \in Frames
    /\ \A n \in Nodes :
          /\ \A i \in DOMAIN retransmitQueue[n] :
                retransmitQueue[n][i].frame \in Frames /\ retransmitQueue[n][i].count \in Nat
          /\ \A s \in DOMAIN decoders[n] : \A i \in DOMAIN decoders[n][s].frames :
                decoders[n][s].frames[i] \in Frames /\ decoders[n][s].frames[i].number = i
          /\ early[n] \subseteq DOMAIN decoders[n]
          /\ pruneLoop[n] \in {"starting", "waiting", "fired"}

Channel == INSTANCE BroadcastChannel WITH
    Messages <- {AsMessage(m) : m \in Messages}

\* Listeners are given whole messages under the right source: whatever is
\* lost, duplicated, reordered, relayed or cut off, the gossip transport
\* implements the broadcast channel.
Refinement == Channel!Spec

\* A node sends a frame at most TransmissionCount times while it runs, as its
\* source and as a relay, and once more as often when the prune loop drops the
\* record of the frames seen (delegate.go:294).
TransmitsBounded ==
    \A n \in Nodes, f \in FrameIds :
        transmits[n][f] <= TransmissionCount * (IF pruneLoop[n] = "fired" THEN 2 ELSE 1)

\* Gossip dies out: in the end no node has a frame to send and none is under
\* way, although every node relays what it gets.
Quiesces == <>[](net = {} /\ \A n \in Nodes : messageQueue[n] = <<>> /\ retransmitQueue[n] = <<>>)
=============================================================================
