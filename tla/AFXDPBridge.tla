---------------------------- MODULE AFXDPBridge ----------------------------
(***************************************************************************)
(* The AF_XDP bridge (control-plane/internal/afxdp): who owns each UMEM    *)
(* frame on its way from the free pool through the FILL ring, the kernel   *)
(* and the RX ring back to the FILL ring, what the metadata on MetaCh      *)
(* still points to, and the shutdown of the three loops.                   *)
(*                                                                         *)
(* rxLoop and fillLoop run concurrently with the kernel (external) and     *)
(* with the consumer of MetaCh.  FillProduce is two steps: it reads the    *)
(* counters, and it stores the descriptors with the new producer index.    *)
(* A packet is one of a few shapes: what ParseFrame tells apart, with the  *)
(* lengths of the headers the code gives them.                             *)
(***************************************************************************)
EXTENDS Integers, Sequences, FiniteSets

CONSTANTS FrameCounts,  \* configured numbers of frames, powers of two
          FillSize,     \* FillRingSize
          RxSize,       \* RxRingSize
          RingWord,     \* the ring counters count modulo this (2^32)
          BatchSize,    \* BridgeConfig.BatchSize
          MetaChCap,    \* BridgeConfig.MetaChannelSize
          Shapes        \* the packets: [len, etype, ihl, proto]

\* NewUMEM checks that the number of frames is a power of two, and the rings' sizes
\* "must be power of 2" (rings.go); a batch has room for a packet.
ASSUME BridgeAssumption ==
  /\ FrameCounts \subseteq Nat \ {0} /\ FillSize \in Nat \ {0} /\ RingWord \in Nat
  /\ FillSize < RingWord /\ RingWord % FillSize = 0
  /\ RxSize \in Nat /\ BatchSize \in Nat \ {0} /\ MetaChCap \in Nat
  /\ Shapes # {} /\ Shapes \subseteq [len : Nat, etype : STRING, ihl : Nat, proto : STRING]

VARIABLES numFrames,  \* BridgeConfig.NumFrames
          freeFrames, \* UMEM.freeFrames
          fill, prod, cons,  \* the FILL ring
          rx,         \* the RX ring
          content,    \* frame -> the packet in it
          metaCh,     \* Bridge.MetaCh: [frame, pkt] of each parsed packet
          rxLoop,     \* [pc, todo, frames, n, base]
          fillLoop,   \* [pc, frames, n, base]
          ctx,        \* is the context live?
          running,    \* Run: "new", "running", "returned"
          released,   \* Bridge.Close has released the memory
          redirect,   \* CONFIG.AFXDPRedirect
          disableFailed, \* the write that clears it was refused
          lost,       \* history: frames no ring or pool got back
          overlap     \* history: two FillProduce calls overlapped

bridgeVars == <<numFrames, freeFrames, fill, prod, cons, rx, content, metaCh, rxLoop, fillLoop,
          ctx, running, released, redirect, disableFailed, lost, overlap>>

Frames == 0..(numFrames - 1)
Off == [pc |-> "off", todo |-> <<>>, frames |-> <<>>, n |-> 0, base |-> 0]

----------------------------------------------------------------------------
(* packet.go: the verdict of ParseFrame and the bytes it reads.            *)

EthHdrLen == 14
IPv4HdrMin == 20
IPv6HdrLen == 40
TCPHdrMin == 20
UDPHdrLen == 8

L4Len(p) == CASE p.proto = "tcp" -> TCPHdrMin [] p.proto = "udp" -> UDPHdrLen [] OTHER -> 0
\* parseL4 reads the header only if all of it is there; a payload sample is
\* clipped to the frame.
parseL4(p, offset) == IF p.len - offset < L4Len(p) THEN offset ELSE offset + L4Len(p)

ParseFrame_NoIHLCheck(p) ==
  CASE p.len < EthHdrLen                         -> [ok |-> FALSE, end |-> 0]
    [] p.len >= EthHdrLen /\ p.etype = "ipv4" /\ p.len < EthHdrLen + IPv4HdrMin
                                                 -> [ok |-> FALSE, end |-> EthHdrLen]
    [] p.len >= EthHdrLen + IPv4HdrMin /\ p.etype = "ipv4"
                                                 -> [ok |-> TRUE, end |-> parseL4(p, EthHdrLen + p.ihl)]
    [] OTHER                                     -> [ok |-> TRUE, end |-> EthHdrLen]

\* ok: metadata is returned; end: one past the last byte the parser read.
ParseFrame(p) ==
  LET short   == p.len < EthHdrLen
      v4Short == p.etype = "ipv4" /\ p.len < EthHdrLen + IPv4HdrMin
      v4Bad   == p.etype = "ipv4" /\ (p.ihl < IPv4HdrMin \/ EthHdrLen + p.ihl > p.len)
      v6Short == p.etype = "ipv6" /\ p.len < EthHdrLen + IPv6HdrLen
  IN  CASE short                       -> [ok |-> FALSE, end |-> 0]
        [] ~short /\ (v4Short \/ v6Short) -> [ok |-> FALSE, end |-> EthHdrLen]
        [] ~short /\ ~v4Short /\ v4Bad -> [ok |-> FALSE, end |-> EthHdrLen + 1]
        [] ~short /\ ~v4Short /\ ~v4Bad /\ p.etype = "ipv4"
                                       -> [ok |-> TRUE, end |-> parseL4(p, EthHdrLen + p.ihl)]
        [] ~short /\ ~v6Short /\ p.etype = "ipv6"
                                       -> [ok |-> TRUE, end |-> parseL4(p, EthHdrLen + IPv6HdrLen)]
        [] OTHER                       -> [ok |-> TRUE, end |-> EthHdrLen]

----------------------------------------------------------------------------
(* rings.go                                                                *)

FillUsed == (prod - cons + RingWord) % RingWord
FreeSlots == (FillSize - FillUsed + RingWord) % RingWord
Least(a, b) == IF a < b THEN a ELSE b
FillDescs == {fill[(cons + i) % FillSize] : i \in 0..(FillUsed - 1)}

Prefilled == Least(numFrames, FillSize)

\* NewUMEM, prefillFillRing and NewIntegratedBridge: every frame that fits is
\* in the FILL ring, the rest in the pool; the redirect is enabled last.
BridgeInit ==
  /\ numFrames \in FrameCounts
  /\ LET k == Prefilled
     IN  /\ fill = [i \in 0..(FillSize - 1) |-> IF i < k THEN i ELSE 0]
         /\ prod = k % RingWord /\ cons = 0
         /\ freeFrames = [i \in 1..(numFrames - k) |-> k + i - 1]
  /\ rx = <<>> /\ metaCh = <<>>
  /\ content \in [Frames -> {CHOOSE s \in Shapes : TRUE}]
  /\ rxLoop = Off /\ fillLoop = Off
  /\ ctx = TRUE /\ running = "new" /\ released = FALSE /\ redirect = TRUE
  /\ disableFailed = FALSE /\ lost = {} /\ overlap = FALSE

Ring == <<fill, prod, cons>>
Life == <<numFrames, ctx, running, released, redirect, disableFailed>>

\* The load of the counters by FillProduce, for the frames in l.frames.
Reserve(l) == [l EXCEPT !.pc = "publish", !.n = Least(Len(l.frames), FreeSlots), !.base = prod]

Publish(l) == prod' = (l.base + l.n) % RingWord

\* The descriptors and the new producer index; what does not fit is lost.
FillProduce(l) ==
  /\ fill' = [s \in DOMAIN fill |->
                IF \E i \in 1..l.n : (l.base + i - 1) % FillSize = s
                THEN l.frames[CHOOSE i \in 1..l.n : (l.base + i - 1) % FillSize = s]
                ELSE fill[s]]
  /\ Publish(l)
  /\ lost' = lost \union {l.frames[i] : i \in (l.n + 1)..Len(l.frames)}

----------------------------------------------------------------------------
(* External: the kernel and the consumer of MetaCh.                        *)

\* A redirected packet takes the next FILL descriptor and fills that frame.
KernelReceive(pkt) ==
  /\ redirect /\ ~released /\ FillUsed > 0 /\ Len(rx) < RxSize
  /\ rx' = Append(rx, fill[cons % FillSize])
  /\ content' = [content EXCEPT ![fill[cons % FillSize]] = pkt]
  /\ cons' = (cons + 1) % RingWord
  /\ UNCHANGED <<Life, freeFrames, fill, prod, metaCh, rxLoop, fillLoop, lost, overlap>>

ConsumeMeta ==
  /\ metaCh # <<>>
  /\ metaCh' = Tail(metaCh)
  /\ UNCHANGED <<Life, freeFrames, Ring, rx, content, rxLoop, fillLoop, lost, overlap>>

----------------------------------------------------------------------------
(* rxLoop                                                                  *)

\* The context is looked at before each batch; an empty ring is polled again.
RxPoll ==
  /\ rxLoop.pc = "poll"
  /\ \/ ~ctx /\ rxLoop' = [Off EXCEPT !.pc = "done"] /\ UNCHANGED rx
     \/ /\ ctx /\ rx # <<>>
        /\ LET n == Least(BatchSize, Len(rx))
           IN  /\ rxLoop' = [Off EXCEPT !.pc = "parse", !.todo = SubSeq(rx, 1, n)]
               /\ rx' = SubSeq(rx, n + 1, Len(rx))
  /\ UNCHANGED <<Life, freeFrames, Ring, content, metaCh, fillLoop, lost, overlap>>

RxPacket_DropsBadFrame ==
  LET f == Head(rxLoop.todo)
  IN  /\ rxLoop.pc = "parse"
      /\ metaCh' = IF ParseFrame(content[f]).ok /\ Len(metaCh) < MetaChCap
                   THEN Append(metaCh, [frame |-> f, pkt |-> content[f]]) ELSE metaCh
      /\ rxLoop' = [rxLoop EXCEPT !.todo = Tail(@),
                                  !.frames = IF ParseFrame(content[f]).ok THEN Append(@, f) ELSE @,
                                  !.pc = IF Len(rxLoop.todo) = 1 THEN "reserve" ELSE "parse"]
      /\ UNCHANGED <<Life, freeFrames, Ring, rx, content, fillLoop, lost, overlap>>

\* One packet: parsed, offered to MetaCh without waiting; its frame is
\* returned whatever happened to the metadata.
RxPacket ==
  LET f == Head(rxLoop.todo)
  IN  /\ rxLoop.pc = "parse"
      /\ metaCh' = IF ParseFrame(content[f]).ok /\ Len(metaCh) < MetaChCap
                   THEN Append(metaCh, [frame |-> f, pkt |-> content[f]]) ELSE metaCh
      /\ rxLoop' = [rxLoop EXCEPT !.todo = Tail(@), !.frames = Append(@, f),
                                  !.pc = IF Len(rxLoop.todo) = 1 THEN "reserve" ELSE "parse"]
      /\ UNCHANGED <<Life, freeFrames, Ring, rx, content, fillLoop, lost, overlap>>

RxReserve ==
  /\ rxLoop.pc = "reserve"
  /\ rxLoop' = Reserve(rxLoop)
  /\ overlap' = (overlap \/ fillLoop.pc = "publish")
  /\ UNCHANGED <<Life, freeFrames, Ring, rx, content, metaCh, fillLoop, lost>>

RxRefill ==
  /\ rxLoop.pc = "publish"
  /\ FillProduce(rxLoop)
  /\ rxLoop' = [Off EXCEPT !.pc = "poll"]
  /\ UNCHANGED <<Life, freeFrames, cons, rx, content, metaCh, fillLoop, overlap>>

----------------------------------------------------------------------------
(* fillLoop                                                                *)

toAdd == Len(freeFrames) \div 2

\* The first select: the 100 ms ticker has just been made and has not fired,
\* so a context that is already cancelled is seen.
FillFirst ==
  /\ fillLoop.pc = "first"
  /\ fillLoop' = [Off EXCEPT !.pc = IF ctx THEN "wait" ELSE "done"]
  /\ UNCHANGED <<Life, freeFrames, Ring, rx, content, metaCh, rxLoop, lost, overlap>>

\* A tick of replenishFillRing that has frames to add: they leave the pool.
FillTick ==
  /\ fillLoop.pc = "wait" /\ toAdd > 0
  /\ fillLoop' = [fillLoop EXCEPT !.pc = "reserve", !.frames = SubSeq(freeFrames, 1, toAdd)]
  /\ freeFrames' = SubSeq(freeFrames, toAdd + 1, Len(freeFrames))
  /\ UNCHANGED <<Life, Ring, rx, content, metaCh, rxLoop, lost, overlap>>

FillStop ==
  /\ fillLoop.pc = "wait" /\ ~ctx
  /\ fillLoop' = [Off EXCEPT !.pc = "done"]
  /\ UNCHANGED <<Life, freeFrames, Ring, rx, content, metaCh, rxLoop, lost, overlap>>

FillReserve ==
  /\ fillLoop.pc = "reserve"
  /\ fillLoop' = Reserve(fillLoop)
  /\ overlap' = (overlap \/ rxLoop.pc = "publish")
  /\ UNCHANGED <<Life, freeFrames, Ring, rx, content, metaCh, rxLoop, lost>>

FillRefill ==
  /\ fillLoop.pc = "publish"
  /\ FillProduce(fillLoop)
  /\ fillLoop' = [Off EXCEPT !.pc = "wait"]
  /\ UNCHANGED <<Life, freeFrames, cons, rx, content, metaCh, rxLoop, overlap>>

----------------------------------------------------------------------------
(* Run and Close                                                           *)

Data == <<freeFrames, Ring, rx, content, metaCh, lost, overlap>>

\* The goroutine that calls Run is scheduled, perhaps after the shutdown.
StartLoops ==
  /\ running = "new"
  /\ running' = "running"
  /\ rxLoop' = [Off EXCEPT !.pc = "poll"] /\ fillLoop' = [Off EXCEPT !.pc = "first"]
  /\ UNCHANGED <<Data, numFrames, ctx, released, redirect, disableFailed>>

Cancel ==
  /\ ctx /\ ctx' = FALSE
  /\ UNCHANGED <<Data, numFrames, running, released, redirect, disableFailed, rxLoop, fillLoop>>

RunReturns ==
  /\ running = "running" /\ ~ctx /\ rxLoop.pc = "done" /\ fillLoop.pc = "done"
  /\ running' = "returned"
  /\ UNCHANGED <<Data, numFrames, ctx, released, redirect, disableFailed, rxLoop, fillLoop>>

\* IntegratedBridge.Close, called after the context is cancelled: first the
\* redirect is disabled (the write may be refused, which is only logged) ...
DisableRedirect ==
  /\ ~ctx /\ redirect /\ ~disableFailed
  /\ \/ redirect' = FALSE /\ UNCHANGED disableFailed
     \/ disableFailed' = TRUE /\ UNCHANGED redirect
  /\ UNCHANGED <<Data, numFrames, ctx, running, released, rxLoop, fillLoop>>

WaitGroupDone_NoWait == TRUE
\* wg.Wait: no loop has been added, or every one has returned.
WaitGroupDone == rxLoop.pc \in {"off", "done"} /\ fillLoop.pc \in {"off", "done"}

\* ... then the memory, the socket and MetaCh are released.
BridgeClose ==
  /\ ~ctx /\ ~released /\ (~redirect \/ disableFailed) /\ WaitGroupDone
  /\ released' = TRUE
  /\ UNCHANGED <<Data, numFrames, ctx, running, redirect, disableFailed, rxLoop, fillLoop>>

----------------------------------------------------------------------------
Loops == RxPoll \/ RxPacket \/ RxReserve \/ RxRefill
Filler == FillFirst \/ FillTick \/ FillStop \/ FillReserve \/ FillRefill
Shutdown == RunReturns \/ DisableRedirect \/ BridgeClose

\* Bound: the ring is followed up to the first overlap of two producers.
BridgeNext ==
  /\ ~overlap
  /\ \/ \E p \in Shapes : KernelReceive(p)
     \/ ConsumeMeta
     \/ RxPoll \/ RxPacket \/ RxReserve \/ RxRefill
     \/ FillFirst \/ FillTick \/ FillStop \/ FillReserve \/ FillRefill
     \/ StartLoops \/ Cancel \/ RunReturns \/ DisableRedirect \/ BridgeClose

\* Goroutines are scheduled fairly; nothing obliges packets to arrive, the
\* consumer to read, or an operator to stop the daemon.
BridgeFairness == /\ WF_bridgeVars(~overlap /\ StartLoops) /\ WF_bridgeVars(~overlap /\ Loops)
                  /\ WF_bridgeVars(~overlap /\ Filler) /\ WF_bridgeVars(~overlap /\ FillStop)
                  /\ WF_bridgeVars(~overlap /\ Shutdown)

BridgeSpec == BridgeInit /\ [][BridgeNext]_bridgeVars /\ BridgeFairness

----------------------------------------------------------------------------
(* Properties                                                              *)

Elems(q) == {q[i] : i \in DOMAIN q}

\* The rings, the pool and the loops keep their bounds.
BridgeTypeOK ==
  /\ FillUsed \in 0..FillSize
  /\ Elems(freeFrames) \subseteq Frames /\ Elems(rx) \subseteq Frames
  /\ Len(rx) <= RxSize /\ Len(metaCh) <= MetaChCap
  /\ rxLoop.pc \in {"off", "poll", "parse", "reserve", "publish", "done"}
  /\ fillLoop.pc \in {"off", "first", "wait", "reserve", "publish", "done"}

\* The descriptors in the FILL ring, oldest first, and all the places a frame
\* can be in.
FillQueue == [i \in 1..FillUsed |-> fill[(cons + i - 1) % FillSize]]
Queues == <<FillQueue, freeFrames, rx, rxLoop.todo, rxLoop.frames, fillLoop.frames>>
Places == UNION {{q} \X DOMAIN Queues[q] : q \in DOMAIN Queues}
FrameAt(p) == Queues[p[1]][p[2]]

\* As long as no two FillProduce calls overlap, every frame is in exactly one
\* place: the FILL ring, the pool, the RX ring or the hands of one loop, or it
\* is one of the frames a full FILL ring refused.
FrameOwnedOnce ==
  ~overlap =>
    /\ lost \union {FrameAt(p) : p \in Places} = Frames
    /\ \A p \in Places : /\ FrameAt(p) \notin lost
                         /\ \A r \in Places : FrameAt(p) = FrameAt(r) => p = r

\* With no more than FillSize frames, as configured by default, prefillFillRing
\* leaves the pool empty, so the FILL ring has one producer and never refuses
\* a frame.
DefaultRingSafe == numFrames <= FillSize => ~overlap /\ lost = {} /\ freeFrames = <<>>

\* ParseFrame reads no byte past the packet, whatever its length fields say.
ParseInBounds ==
  rxLoop.pc = "parse" => LET p == content[Head(rxLoop.todo)] IN ParseFrame(p).end <= p.len

\* After Close released the memory, no loop touches the rings or sends on the
\* closed MetaCh, also when Run's goroutine only starts after the shutdown.
NothingAfterClose ==
  [][released => UNCHANGED <<fill, prod, cons, rx, content, lost>> /\ Len(metaCh') <= Len(metaCh)]_bridgeVars

\* Every received frame goes back to the FILL ring, while the daemon runs with
\* the default number of frames.
FrameReturns ==
  \A f \in 0..(FillSize - 1) :
    (numFrames <= FillSize /\ f \in Elems(rx)) ~> (f \in FillDescs \/ ~ctx)

\* Cancelling the context lets Run return and the bridge close (as long as the
\* FILL ring is intact).
CancelCloses == ~ctx ~> (released /\ running = "returned") \/ overlap

\* bridge.go:212-213, "return immediately (AI works with metadata copy)": the
\* frame behind queued metadata still holds the packet that was parsed.
MetaIsCopy == \A i \in DOMAIN metaCh : content[metaCh[i].frame] = metaCh[i].pkt

\* rings.go:16, "All rings are single-producer / single-consumer (SPSC)".
SingleProducer == ~overlap
=============================================================================
