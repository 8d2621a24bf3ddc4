---------------------- MODULE InferencePipeline_proofs ----------------------
(***************************************************************************)
(* Proofs about InferencePipeline, for any packets, addresses and          *)
(* connections and every capacity of the queues.                           *)
(***************************************************************************)
EXTENDS InferencePipeline, FiniteSetTheorems, SequenceTheorems, TLAPS

-----------------------------------------------------------------------------
(* What the queues and buffers hold                                          *)

Request == [n : Nat, flushed : Seq(Addrs)]
Blocking == {"drop", "rate"}
Verdict == [addr : Addrs, action : Blocking]
DownFrame == [type : {"infer"}, packets : Seq(Addrs)] \union [type : {"hb", "error"}]
               \union [type : {"ack"}, addr : Addrs]
UpFrame == [type : {"map"}, addr : Addrs, action : Blocking] \union [type : {"alert", "hb", "hback"}]
             \union [type : {"verdicts"}, list : Seq(Verdict)]

(* MetaForwarder's batch, and the requests cut from its array. *)
BatchTyped ==
  /\ fed \in Nat /\ array \in Seq(Addrs) /\ len \in 0..Len(array)
  /\ requests \in Seq(Request)
  /\ \A i \in DOMAIN requests : requests[i].n <= Len(array)

ConnRec == [handler : {"none", "read", "reply", "gone"}, reply : Seq(DownFrame),
            forwarder : {"none", "wait", "send", "gone"}, request : Seq(Addrs), open : BOOLEAN]
ClientRec == [conn : 0..MaxConns, recv : {"off", "recv", "analyze"}, todo : Seq(Addrs),
              drops : Seq(Verdict), hold : Seq(UpFrame)]

(* The two sides of a connection and the buffers between them. *)
ConnTyped ==
  /\ conn \in [Conns -> ConnRec] /\ client \in ClientRec
  /\ (client.recv # "off" \/ client.hold # <<>>) => client.conn # 0
  /\ down \in [Conns -> Seq(DownFrame)] /\ up \in [Conns -> Seq(UpFrame)] /\ queue \in Seq(UpFrame)
  /\ verdicts \in Seq(Seq(Verdict)) /\ blocklist \in [Addrs -> {"none"} \union Blocking]

PipeTyped == BatchTyped /\ ConnTyped

(* A flush hands out a slice of the array it was given. *)
LEMMA FlushTyped ==
  ASSUME NEW a \in Seq(Addrs), NEW k \in 0..Len(a), requests \in Seq(Request),
         \A i \in DOMAIN requests : requests[i].n <= Len(a), Flush(a, k)
  PROVE  /\ requests' \in Seq(Request)
         /\ \A i \in DOMAIN requests' : requests'[i].n <= Len(a)
<1> DEFINE r == [n |-> k, flushed |-> SubSeq(a, 1, k)]
<1>1. r \in Request /\ r.n = k
  BY SubSeqProperties DEF Request
<1>2. requests' \in {requests, Append(requests, r)}
  BY DEF Flush
<1> HIDE DEF r
<1>3. CASE requests' = Append(requests, r)
  <2>1. /\ requests' \in Seq(Request) /\ Len(requests') = Len(requests) + 1
        /\ \A i \in 1..Len(requests) : requests'[i] = requests[i]
        /\ requests'[Len(requests) + 1] = r
    BY <1>1, <1>3, AppendProperties
  <2> QED BY <1>1, <2>1
<1> QED BY <1>2, <1>3

(* Whatever MetaForwarder receives, its batch and its requests keep their    *)
(* shape (ReceiveMeta, FlushTick, and a forwarder that takes a request).     *)
LEMMA BatchTypedStep ==
  ASSUME BatchTyped, [Next]_vars
  PROVE  BatchTyped'
<1> USE DEF BatchTyped
<1>1. CASE ReceiveMeta
  <2> DEFINE p == Packets[fed + 1]
             a == [i \in 1..(IF len < Len(array) THEN Len(array) ELSE len + 1) |->
                     IF i = len + 1 THEN p ELSE array[i]]
  <2>1. p \in Addrs
    BY <1>1, InferenceAssumption DEF ReceiveMeta, Addrs
  <2>2. a \in Seq(Addrs) /\ Len(a) >= Len(array) /\ len + 1 \in 0..Len(a)
    BY <2>1
  <2>3. /\ fed' = fed + 1 /\ array' = a
        /\ IF len + 1 >= BatchSize THEN Flush(a, len + 1) /\ len' = 0
                                   ELSE len' = len + 1 /\ UNCHANGED <<requests, enqueued, dropped>>
    BY <1>1 DEF ReceiveMeta
  <2> HIDE DEF a
  <2>4. \A i \in DOMAIN requests : requests[i].n <= Len(a)
    <3>1. \A i \in DOMAIN requests : requests[i] \in Request
      OBVIOUS
    <3>2. \A r \in Request : r.n \in Nat
      BY DEF Request
    <3> QED BY <2>2, <3>1, <3>2
  <2>5. CASE Flush(a, len + 1) /\ len' = 0
    BY <2>2, <2>3, <2>4, <2>5, FlushTyped
  <2>6. CASE len' = len + 1 /\ UNCHANGED requests
    BY <2>2, <2>3, <2>4, <2>6
  <2> QED BY <2>3, <2>5, <2>6
<1>2. CASE FlushTick
  BY <1>2, FlushTyped DEF FlushTick
<1>3. ASSUME NEW c \in Conns, ForwarderTake(c)
      PROVE  BatchTyped'
  <2>1. requests # <<>> /\ requests' = Tail(requests) /\ UNCHANGED <<fed, array, len>>
    BY <1>3 DEF ForwarderTake
  <2> QED BY <2>1
<1>4. CASE UNCHANGED <<fed, array, len, requests>>
  BY <1>4
<1> QED BY <1>1, <1>2, <1>3, <1>4, Zenon
        DEF Next, vars, Forwarding, ServerSide, Accept, ForwarderSend, ServerRead, ServerReply, HandlerExit,
            heartbeatLoop, applyVerdicts, ClientRecv, Respond, SendTake, SendWrite, heartbeat_loop,
            ClientStop, AnalyzePacket

(* The frames either side makes, and what their readers find in them. *)
LEMMA Frames ==
  /\ [type |-> "hb"] \in DownFrame /\ [type |-> "error"] \in DownFrame
  /\ \A q \in Seq(Addrs) : [type |-> "infer", packets |-> q] \in DownFrame
  /\ \A a \in Addrs : [type |-> "ack", addr |-> a] \in DownFrame
  /\ \A f \in DownFrame : f.type = "infer" => f.packets \in Seq(Addrs)
  /\ \A f \in DownFrame : f.type = "ack" => f.addr \in Addrs
  /\ [type |-> "hb"] \in UpFrame /\ [type |-> "hback"] \in UpFrame /\ [type |-> "alert"] \in UpFrame
  /\ \A a \in Addrs, v \in Blocking : /\ [type |-> "map", addr |-> a, action |-> v] \in UpFrame
                                      /\ [addr |-> a, action |-> v] \in Verdict
  /\ \A q \in Seq(Verdict) : [type |-> "verdicts", list |-> q] \in UpFrame
  /\ \A f \in UpFrame : f.type = "map" => f.addr \in Addrs /\ f.action \in Blocking
  /\ \A f \in UpFrame : f.type = "verdicts" => f.list \in Seq(Verdict)
<1>1. /\ [type |-> "hb"] \in DownFrame /\ [type |-> "error"] \in DownFrame
      /\ \A q \in Seq(Addrs) : [type |-> "infer", packets |-> q] \in DownFrame
      /\ \A a \in Addrs : [type |-> "ack", addr |-> a] \in DownFrame
  BY DEF DownFrame
<1>2. ASSUME NEW f \in DownFrame
      PROVE  (f.type = "infer" => f.packets \in Seq(Addrs)) /\ (f.type = "ack" => f.addr \in Addrs)
  BY <1>2 DEF DownFrame
<1>3. [type |-> "hb"] \in UpFrame /\ [type |-> "hback"] \in UpFrame /\ [type |-> "alert"] \in UpFrame
  BY DEF UpFrame
<1>4. ASSUME NEW a \in Addrs, NEW v \in Blocking
      PROVE  [type |-> "map", addr |-> a, action |-> v] \in UpFrame /\ [addr |-> a, action |-> v] \in Verdict
  BY DEF UpFrame, Verdict
<1>5. \A q \in Seq(Verdict) : [type |-> "verdicts", list |-> q] \in UpFrame
  BY DEF UpFrame
<1>6. ASSUME NEW f \in UpFrame
      PROVE  /\ f.type = "map" => f.addr \in Addrs /\ f.action \in Blocking
             /\ f.type = "verdicts" => f.list \in Seq(Verdict)
  BY <1>6 DEF UpFrame
<1> QED BY <1>1, <1>2, <1>3, <1>4, <1>5, <1>6

(* enqueue_frame keeps the queue a queue of frames. *)
LEMMA EnqueueTyped ==
  ASSUME queue \in Seq(UpFrame), NEW f \in UpFrame
  PROVE  Enqueue(queue, f) \in Seq(UpFrame)
BY AppendProperties DEF Enqueue

(* A connection that gets a frame, or whose first frame is taken, keeps a    *)
(* buffer of frames. *)
LEMMA BufferTyped ==
  ASSUME NEW F, NEW buf \in [Conns -> Seq(F)], NEW c \in Conns
  PROVE  /\ \A f \in F : [buf EXCEPT ![c] = Append(@, f)] \in [Conns -> Seq(F)]
         /\ \A q \in Seq(F) : [buf EXCEPT ![c] = @ \o q] \in [Conns -> Seq(F)]
         /\ [buf EXCEPT ![c] = <<>>] \in [Conns -> Seq(F)]
         /\ buf[c] # <<>> => Head(buf[c]) \in F /\ [buf EXCEPT ![c] = Tail(@)] \in [Conns -> Seq(F)]
<1>1. buf[c] \in Seq(F)
  OBVIOUS
<1>2. \A q \in Seq(F) : [buf EXCEPT ![c] = q] \in [Conns -> Seq(F)]
  OBVIOUS
<1> QED BY <1>1, <1>2, AppendProperties, ConcatProperties, HeadTailProperties, EmptySeq

(* The goroutines of the server (Accept, requestForwarder, handleConn and    *)
(* the dispatcher) keep connections and buffers in shape. *)
LEMMA ServerTypedStep ==
  ASSUME BatchTyped, ConnTyped, NEW c \in Conns,
         Accept(c) \/ ForwarderTake(c) \/ ForwarderSend(c) \/ ServerReply(c) \/ HandlerExit(c) \/ heartbeatLoop(c)
  PROVE  ConnTyped'
<1> USE DEF ConnTyped
<1>1. CASE Accept(c)
  <2>1. NewConn(c) \in ConnRec /\ [NoClient EXCEPT !.conn = c, !.recv = "recv"] \in ClientRec
    <3>1. NewConn(c) \in ConnRec
      BY EmptySeq DEF NewConn, ConnRec
    <3>2. c \in 0..MaxConns
      BY InferenceAssumption DEF Conns
    <3> QED BY <3>1, <3>2, EmptySeq, Zenon DEF NoClient, ClientRec
  <2>2. [NoClient EXCEPT !.conn = c, !.recv = "recv"].conn # 0
    BY InferenceAssumption DEF NoClient, Conns
  <2> QED BY <1>1, <2>1, <2>2, EmptySeq DEF Accept, Connected, Sockets
<1>2. CASE ForwarderTake(c)
  <2> DEFINE q == SubSeq(array, 1, Head(requests).n)
  <2>1. q \in Seq(Addrs)
    <3>1. Head(requests) \in Request /\ Head(requests).n <= Len(array)
      BY <1>2 DEF ForwarderTake, BatchTyped
    <3>2. Head(requests).n \in 0..Len(array)
      BY <3>1 DEF Request, BatchTyped
    <3> QED BY <3>2, SubSeqProperties DEF BatchTyped
  <2>2. conn' = [conn EXCEPT ![c].forwarder = "send", ![c].request = q]
        /\ UNCHANGED <<client, queue, down, up, verdicts, blocklist>>
    BY <1>2 DEF ForwarderTake, Client, Sockets
  <2> HIDE DEF q
  <2>3. conn' \in [Conns -> ConnRec]
    BY <2>1, <2>2, Zenon DEF ConnRec
  <2> QED BY <2>2, <2>3
<1>3. CASE ForwarderSend(c)
  <2>1. conn' \in [Conns -> ConnRec]
    <3>1. CASE conn' = [conn EXCEPT ![c].forwarder = "wait", ![c].request = <<>>]
      BY <3>1, EmptySeq, Zenon DEF ConnRec
    <3>2. CASE conn' = [conn EXCEPT ![c].forwarder = "gone", ![c].request = <<>>]
      BY <3>2, EmptySeq, Zenon DEF ConnRec
    <3> QED BY <1>3, <3>1, <3>2, Zenon DEF ForwarderSend, ForwarderFails
  <2>2. down' \in [Conns -> Seq(DownFrame)]
    <3>1. conn[c].request \in Seq(Addrs)
      BY DEF ConnRec
    <3>2. PICK f \in DownFrame : f = [type |-> "infer", packets |-> conn[c].request]
      BY <3>1, Frames, Zenon
    <3>3. down' = [down EXCEPT ![c] = Append(@, f)] \/ down' = down
      BY <1>3, <3>2 DEF ForwarderSend
    <3>4. [down EXCEPT ![c] = Append(@, f)] \in [Conns -> Seq(DownFrame)]
      BY BufferTyped
    <3> QED BY <3>3, <3>4, Zenon
  <2> QED BY <1>3, <2>1, <2>2 DEF ForwarderSend, Client
<1>4. CASE ServerReply(c)
  <2>1. conn' \in [Conns -> ConnRec]
    BY <1>4, EmptySeq, Zenon DEF ServerReply, Continue, ConnRec
  <2>2. down' \in [Conns -> Seq(DownFrame)]
    <3>1. conn[c].reply \in Seq(DownFrame)
      BY DEF ConnRec
    <3>2. PICK q \in Seq(DownFrame) : q = conn[c].reply
      BY <3>1
    <3>3. down' = [down EXCEPT ![c] = @ \o q] \/ down' = down
      BY <1>4, <3>2 DEF ServerReply
    <3>4. [down EXCEPT ![c] = @ \o q] \in [Conns -> Seq(DownFrame)]
      BY BufferTyped
    <3> QED BY <3>3, <3>4, Zenon
  <2> QED BY <1>4, <2>1, <2>2 DEF ServerReply, Client
<1>5. CASE HandlerExit(c)
  BY <1>5, Zenon DEF HandlerExit, ConnRec, Client, Sockets
<1>6. CASE heartbeatLoop(c)
  <2>1. down' \in [Conns -> Seq(DownFrame)]
    BY <1>6, Frames, BufferTyped DEF heartbeatLoop
  <2> QED BY <1>6, <2>1 DEF heartbeatLoop, Server, Client
<1> QED BY <1>1, <1>2, <1>3, <1>4, <1>5, <1>6

(* So does the receive loop of a connection with whatever frame it reads. *)
LEMMA ServerReadTyped ==
  ASSUME ConnTyped, NEW c \in Conns, ServerRead(c)
  PROVE  ConnTyped'
<1> USE DEF ConnTyped
<1> DEFINE f == Head(up[c])
<1>1. f \in UpFrame /\ up' \in [Conns -> Seq(UpFrame)]
  BY BufferTyped DEF ServerRead
<1>2. UNCHANGED <<client, queue, down>>
  BY DEF ServerRead, Client
<1>3. \/ f.type = "verdicts" /\ PushVerdicts(f) /\ UNCHANGED <<conn, blocklist>>
      \/ f.type = "map" /\ applyMapUpdate(c, f) /\ UNCHANGED verdicts
      \/ UNCHANGED <<conn, verdicts, blocklist>>
      \/ sendError(c) /\ UNCHANGED verdicts
  BY DEF ServerRead
<1> HIDE DEF f
<1>4. ASSUME NEW g \in DownFrame, Reply(c, g)
      PROVE  conn' \in [Conns -> ConnRec]
  <2>1. <<g>> \in Seq(DownFrame)
    OBVIOUS
  <2> QED BY <1>4, <2>1, Zenon DEF Reply, ConnRec
<1>5. CASE f.type = "verdicts" /\ PushVerdicts(f) /\ UNCHANGED <<conn, blocklist>>
  <2>1. verdicts' \in Seq(Seq(Verdict))
    BY <1>1, <1>5, Frames, AppendProperties DEF PushVerdicts
  <2> QED BY <1>1, <1>2, <1>5, <2>1
<1>6. CASE sendError(c) /\ UNCHANGED verdicts
  BY <1>1, <1>2, <1>4, <1>6, Frames DEF sendError
<1>7. CASE f.type = "map" /\ ApplyMap(c, f) /\ UNCHANGED verdicts
  <2>1. f.addr \in Addrs /\ f.action \in Blocking
    BY <1>1, <1>7, Frames
  <2>2. conn' \in [Conns -> ConnRec]
    BY <1>4, <1>7, <2>1, Frames DEF ApplyMap
  <2> QED BY <1>1, <1>2, <1>7, <2>1, <2>2 DEF ApplyMap
<1>8. CASE UNCHANGED <<conn, verdicts, blocklist>>
  BY <1>1, <1>2, <1>8
<1> QED BY <1>3, <1>5, <1>6, <1>7, <1>8 DEF applyMapUpdate

(* And the client's threads, whatever the engine finds in a packet. *)
LEMMA ClientTypedStep ==
  ASSUME ConnTyped,
         ClientRecv \/ Respond \/ SendTake \/ SendWrite \/ heartbeat_loop \/ ClientStop
           \/ \E v \in Scores : AnalyzePacket(v)
  PROVE  ConnTyped'
<1> USE DEF ConnTyped
<1>1. CASE ClientRecv
  <2> DEFINE c == client.conn
             f == Head(down[c])
  <2>1. c \in Conns /\ down[c] # <<>>
    BY <1>1, InferenceAssumption DEF ClientRecv, ClientRec, Conns
  <2>2. f \in DownFrame /\ [down EXCEPT ![c] = Tail(@)] \in [Conns -> Seq(DownFrame)]
    BY <2>1, BufferTyped
  <2>3. /\ down' = [down EXCEPT ![c] = Tail(@)]
        /\ client' = IF f.type = "infer" THEN [client EXCEPT !.recv = "analyze", !.todo = f.packets]
                                         ELSE client
        /\ queue' = IF f.type = "hb" THEN Enqueue(queue, [type |-> "hback"]) ELSE queue
        /\ UNCHANGED <<verdicts, conn, blocklist, up>>
    BY <1>1 DEF ClientRecv, ServerSide, Server
  <2> HIDE DEF f
  <2>4. client' \in ClientRec
    BY <2>2, <2>3, Frames, Zenon DEF ClientRec
  <2>5. queue' \in Seq(UpFrame)
    BY <2>3, Frames, EnqueueTyped
  <2>6. client'.conn # 0
    BY <2>1, <2>3, InferenceAssumption DEF ClientRec, Conns
  <2> QED BY <2>2, <2>3, <2>4, <2>5, <2>6
<1>2. CASE Respond
  <2>1. client.drops \in Seq(Verdict)
    BY DEF ClientRec
  <2>2. queue' \in Seq(UpFrame)
    BY <1>2, <2>1, Frames, EnqueueTyped DEF Respond
  <2>3. client' \in ClientRec /\ client'.conn = client.conn /\ client'.hold = client.hold
    BY <1>2, EmptySeq, Zenon DEF Respond, ClientRec
  <2> QED BY <1>2, <2>2, <2>3 DEF Respond, ServerSide, Server, Sockets
<1>3. CASE SendTake
  <2>1. Head(queue) \in UpFrame /\ Tail(queue) \in Seq(UpFrame)
    BY <1>3, HeadTailProperties DEF SendTake
  <2>2. <<Head(queue)>> \in Seq(UpFrame)
    BY <2>1
  <2>3. client' \in ClientRec /\ client'.conn = client.conn
    BY <1>3, <2>2, Zenon DEF SendTake, ClientRec
  <2> QED BY <1>3, <2>1, <2>3 DEF SendTake, ServerSide, Server, Sockets
<1>4. CASE SendWrite
  <2>1. client.conn \in Conns /\ client.hold \in Seq(UpFrame)
    BY <1>4, InferenceAssumption DEF SendWrite, ClientRec, Conns
  <2>2. up' \in [Conns -> Seq(UpFrame)]
    BY <1>4, <2>1, BufferTyped DEF SendWrite
  <2>3. client' \in ClientRec /\ client'.conn = client.conn
    BY <1>4, EmptySeq, Zenon DEF SendWrite, ClientRec
  <2> QED BY <1>4, <2>1, <2>2, <2>3, InferenceAssumption DEF SendWrite, ServerSide, Server, Conns
<1>5. CASE heartbeat_loop
  BY <1>5, Frames, EnqueueTyped DEF heartbeat_loop, ServerSide, Server, Sockets
<1>6. CASE ClientStop
  <2>1. client.conn \in Conns
    BY <1>6, InferenceAssumption DEF ClientStop, ClientRec, Conns
  <2>2. down' \in [Conns -> Seq(DownFrame)]
    BY <1>6, <2>1, BufferTyped DEF ClientStop
  <2>3. client' \in ClientRec /\ client'.recv = "off" /\ client'.hold = <<>>
    BY <1>6, EmptySeq, InferenceAssumption DEF ClientStop, NoClient, ClientRec
  <2> QED BY <1>6, <2>2, <2>3, EmptySeq DEF ClientStop, ServerSide, Server
<1>7. ASSUME NEW v \in Scores, AnalyzePacket(v)
      PROVE  ConnTyped'
  <2> DEFINE a == Head(client.todo)
  <2>1. a \in Addrs /\ Tail(client.todo) \in Seq(Addrs) /\ client.drops \in Seq(Verdict)
    BY <1>7, HeadTailProperties, Zenon DEF AnalyzePacket, ClientRec
  <2> HIDE DEF a
  <2>2. queue' \in Seq(UpFrame)
    <3>1. CASE v \in Blocking
      BY <1>7, <2>1, <3>1, Frames, EnqueueTyped, Zenon DEF AnalyzePacket, send_block_request, Blocking, a
    <3>2. CASE v \in {"alert", "none"}
      BY <1>7, <3>2, Frames, EnqueueTyped, Zenon DEF AnalyzePacket, send_alert
    <3> QED BY <3>1, <3>2, InferenceAssumption DEF Blocking
  <2>3. client' \in ClientRec /\ client'.conn = client.conn /\ client'.hold = client.hold
    <3>1. v \in Blocking => Append(client.drops, [addr |-> a, action |-> v]) \in Seq(Verdict)
      BY <2>1, Frames, AppendProperties, Zenon
    <3> QED BY <1>7, <2>1, <3>1, Zenon DEF AnalyzePacket, ClientRec, Blocking, a
  <2> QED BY <1>7, <2>2, <2>3, Zenon DEF AnalyzePacket, ServerSide, Server, Sockets
<1> QED BY <1>1, <1>2, <1>3, <1>4, <1>5, <1>6, <1>7

(* The dispatcher applies drops, to known addresses only. *)
LEMMA ApplyVerdictsTyped ==
  ASSUME ConnTyped, applyVerdicts
  PROVE  /\ ConnTyped'
         /\ \A a \in Addrs : blocklist[a] # "none" => blocklist'[a] # "none"
<1>1. PICK ok : blocklist' = [a \in Addrs |-> IF a \in ok THEN "drop" ELSE blocklist[a]]
  BY Zenon DEF applyVerdicts, BlockIPv4Batch
<1>2. blocklist' \in [Addrs -> {"none"} \union Blocking]
  BY <1>1 DEF ConnTyped, Blocking
<1>3. verdicts' \in Seq(Seq(Verdict))
  BY HeadTailProperties DEF applyVerdicts, ConnTyped
<1>4. UNCHANGED <<client, queue, down, up, conn>>
  BY DEF applyVerdicts, Client, Sockets
<1> QED BY <1>1, <1>2, <1>3, <1>4 DEF ConnTyped

(* Every variable of the pipeline keeps its shape in every step. *)
LEMMA PipeTypedStep ==
  ASSUME PipeTyped, [Next]_vars
  PROVE  PipeTyped'
<1>1. BatchTyped'
  BY BatchTypedStep DEF PipeTyped
<1>2. ConnTyped'
  <2>1. CASE ReceiveMeta \/ FlushTick
    BY <2>1 DEF PipeTyped, ConnTyped, ReceiveMeta, FlushTick, Server, Client, Sockets
  <2>2. CASE UNCHANGED vars
    BY <2>2 DEF PipeTyped, ConnTyped, vars
  <2> QED BY <2>1, <2>2, ServerTypedStep, ServerReadTyped, ClientTypedStep, ApplyVerdictsTyped
          DEF Next, PipeTyped
<1> QED BY <1>1, <1>2 DEF PipeTyped

(* The pipeline starts empty. *)
LEMMA PipeTypedInit ==
  ASSUME Init
  PROVE  PipeTyped
<1>1. BatchTyped
  BY EmptySeq DEF Init, BatchTyped
<1>2. conn \in [Conns -> ConnRec] /\ client \in ClientRec /\ client.recv = "off" /\ client.hold = <<>>
  BY EmptySeq, InferenceAssumption DEF Init, NoConn, NoClient, ConnRec, ClientRec
<1>3. down \in [Conns -> Seq(DownFrame)] /\ up \in [Conns -> Seq(UpFrame)] /\ queue \in Seq(UpFrame)
        /\ verdicts \in Seq(Seq(Verdict)) /\ blocklist \in [Addrs -> {"none"} \union Blocking]
  BY EmptySeq DEF Init
<1> QED BY <1>1, <1>2, <1>3 DEF PipeTyped, ConnTyped

-----------------------------------------------------------------------------
(* Acknowledged blocks                                                       *)

(* Once an address is blocked it stays blocked, in every step. *)
LEMMA BlockedStays ==
  ASSUME PipeTyped, [Next]_vars, NEW a \in Addrs, blocklist[a] # "none"
  PROVE  blocklist'[a] # "none"
<1>1. ASSUME NEW c \in Conns, ServerRead(c)
      PROVE  blocklist'[a] # "none"
  <2> DEFINE f == Head(up[c])
  <2>1. f \in UpFrame
    BY <1>1, BufferTyped DEF ServerRead, PipeTyped, ConnTyped
  <2>2. UNCHANGED blocklist \/ (f.type = "map" /\ blocklist' = [blocklist EXCEPT ![f.addr] = f.action])
    BY <1>1 DEF ServerRead, applyMapUpdate, ApplyMap, sendError
  <2> HIDE DEF f
  <2>3. f.type = "map" => f.addr \in Addrs /\ f.action \in {"drop", "rate"}
    BY <2>1, Frames DEF Blocking
  <2>4. blocklist \in [Addrs -> {"none"} \union Blocking]
    BY DEF PipeTyped, ConnTyped
  <2> QED BY <2>2, <2>3, <2>4
<1>2. CASE applyVerdicts
  BY <1>2, ApplyVerdictsTyped DEF PipeTyped
<1>3. CASE UNCHANGED blocklist
  BY <1>3
<1>4. CASE ReceiveMeta \/ FlushTick \/ UNCHANGED vars
  BY <1>4 DEF ReceiveMeta, FlushTick, Server, vars
<1>5. ASSUME NEW c \in Conns,
             \/ Accept(c) \/ ForwarderTake(c) \/ ForwarderSend(c) \/ ServerReply(c) \/ HandlerExit(c)
             \/ heartbeatLoop(c)
      PROVE  UNCHANGED blocklist
  BY <1>5, Zenon DEF Accept, ForwarderTake, ForwarderSend, ServerReply, HandlerExit, heartbeatLoop, Server
<1>6. ASSUME ClientRecv \/ Respond \/ SendTake \/ SendWrite \/ heartbeat_loop \/ ClientStop
               \/ \E v \in Scores : AnalyzePacket(v)
      PROVE  UNCHANGED blocklist
  BY <1>6, Zenon DEF ClientRecv, Respond, SendTake, SendWrite, heartbeat_loop, ClientStop, AnalyzePacket,
              ServerSide, Server
<1> QED BY <1>1, <1>2, <1>3, <1>4, <1>5, <1>6 DEF Next

(* The frames of a buffer after a frame was appended, a reply written or the *)
(* first frame taken. *)
LEMMA BufferRange ==
  ASSUME NEW F, NEW q \in Seq(F)
  PROVE  /\ \A f \in F : Range(Append(q, f)) = Range(q) \union {f}
         /\ \A r \in Seq(F) : Range(q \o r) = Range(q) \union Range(r)
         /\ q # <<>> => Range(Tail(q)) \subseteq Range(q)
         /\ Range(q) \subseteq F
<1>0. ASSUME NEW s \in Seq(F)
      PROVE  /\ \A i \in 1..Len(s) : s[i] \in Range(s)
             /\ \A x \in Range(s) : \E i \in 1..Len(s) : x = s[i]
  BY DEF Range
<1>1. ASSUME NEW r \in Seq(F)
      PROVE  Range(q \o r) = Range(q) \union Range(r)
  <2>1. PICK s \in Seq(F) : s = q \o r
    BY ConcatProperties, Zenon
  <2>2. /\ Len(s) = Len(q) + Len(r) /\ Len(q) \in Nat /\ Len(r) \in Nat
        /\ \A i \in 1..Len(q) : s[i] = q[i]
        /\ \A i \in 1..Len(r) : s[Len(q) + i] = r[i]
    BY <2>1
  <2>3. ASSUME NEW i \in 1..Len(s) PROVE s[i] \in Range(q) \union Range(r)
    <3>1. CASE i \in 1..Len(q)
      BY <1>0, <2>2, <3>1
    <3>2. CASE i \notin 1..Len(q)
      <4> DEFINE j == i - Len(q)
      <4>1. j \in 1..Len(r) /\ i = Len(q) + j
        BY <2>2, <3>2
      <4> HIDE DEF j
      <4>2. s[i] = r[j]
        BY <2>2, <4>1
      <4> QED BY <1>0, <4>1, <4>2
    <3> QED BY <3>1, <3>2
  <2>4. Range(s) \subseteq Range(q) \union Range(r)
    BY <1>0, <2>3
  <2>5. Range(q) \subseteq Range(s)
    <3>1. \A i \in 1..Len(q) : i \in 1..Len(s) /\ s[i] = q[i]
      BY <2>2
    <3> QED BY <1>0, <3>1
  <2>6. Range(r) \subseteq Range(s)
    <3>1. \A i \in 1..Len(r) : Len(q) + i \in 1..Len(s) /\ s[Len(q) + i] = r[i]
      BY <2>2
    <3> QED BY <1>0, <3>1
  <2> QED BY <2>1, <2>4, <2>5, <2>6
<1>2. ASSUME NEW f \in F
      PROVE  Range(Append(q, f)) = Range(q) \union {f}
  <2>1. PICK s \in Seq(F) : s = Append(q, f)
    BY AppendProperties, Zenon
  <2>2. /\ Len(s) = Len(q) + 1 /\ Len(q) \in Nat /\ s[Len(q) + 1] = f
        /\ \A i \in 1..Len(q) : s[i] = q[i]
    BY <2>1, AppendProperties
  <2>3. \A i \in 1..Len(s) : i \in 1..Len(q) \/ i = Len(q) + 1
    BY <2>2
  <2>4. \A i \in 1..Len(q) : i \in 1..Len(s)
    BY <2>2
  <2>5. Range(s) = Range(q) \union {f}
    BY <1>0, <2>2, <2>3, <2>4
  <2> QED BY <2>1, <2>5
<1>3. q # <<>> => Range(Tail(q)) \subseteq Range(q)
  BY HeadTailProperties DEF Range
<1>4. Range(q) \subseteq F
  BY DEF Range
<1> QED BY <1>1, <1>2, <1>3, <1>4

(* A frame on its way down after a step was there before, is no              *)
(* acknowledgement, or acknowledges an address that is blocked now. *)
LEMMA NewFrames ==
  ASSUME PipeTyped, [Next]_vars, NEW c \in Conns,
         NEW f \in Range(down'[c]) \union Range(conn'[c].reply), f.type = "ack"
  PROVE  f \in Range(down[c]) \union Range(conn[c].reply) \/ blocklist'[f.addr] # "none"
<1> USE DEF PipeTyped, ConnTyped
<1>0. down[c] \in Seq(DownFrame) /\ conn[c] \in ConnRec /\ conn[c].reply \in Seq(DownFrame)
  BY DEF ConnRec
<1>1. CASE UNCHANGED <<conn, down>>
  BY <1>1
<1>2. ASSUME NEW d \in Conns, Accept(d)
      PROVE  f \in Range(down[c]) \union Range(conn[c].reply)
  <2>1. down' = down /\ conn' = [conn EXCEPT ![d] = NewConn(d)]
    BY <1>2 DEF Accept, Sockets
  <2>2. NewConn(d).reply = <<>> /\ Range(<<>>) = {}
    BY DEF NewConn, Range
  <2> QED BY <2>1, <2>2
<1>3. ASSUME NEW d \in Conns, ForwarderTake(d) \/ HandlerExit(d)
      PROVE  f \in Range(down[c]) \union Range(conn[c].reply)
  <2>1. down' = down
    BY <1>3, Zenon DEF ForwarderTake, HandlerExit, Sockets
  <2>2. CASE ForwarderTake(d)
    <3>1. PICK q : conn' = [conn EXCEPT ![d].forwarder = "send", ![d].request = q]
      BY <2>2, Zenon DEF ForwarderTake
    <3>2. conn'[c].reply = conn[c].reply
      BY <3>1 DEF ConnRec
    <3> QED BY <2>1, <3>2
  <2>3. CASE HandlerExit(d)
    <3>1. conn'[c].reply = conn[c].reply
      BY <2>3 DEF HandlerExit, ConnRec
    <3> QED BY <2>1, <3>1
  <2> QED BY <1>3, <2>2, <2>3
<1>4. ASSUME NEW d \in Conns, ForwarderSend(d)
      PROVE  f \in Range(down[c]) \union Range(conn[c].reply)
  <2>1. conn'[c].reply = conn[c].reply
    <3>1. CASE conn' = [conn EXCEPT ![d].forwarder = "wait", ![d].request = <<>>]
      BY <3>1 DEF ConnRec
    <3>2. CASE conn' = [conn EXCEPT ![d].forwarder = "gone", ![d].request = <<>>]
      BY <3>2 DEF ConnRec
    <3> QED BY <1>4, <3>1, <3>2, Zenon DEF ForwarderSend, ForwarderFails
  <2>2. PICK g \in DownFrame : g = [type |-> "infer", packets |-> conn[d].request]
    BY Frames, Zenon DEF ConnRec
  <2>3. down' = [down EXCEPT ![d] = Append(@, g)] \/ down' = down
    BY <1>4, <2>2 DEF ForwarderSend
  <2>4. f # g
    BY <2>2
  <2>5. down'[c] = down[c] \/ down'[c] = Append(down[c], g)
    BY <2>3
  <2>6. Range(Append(down[c], g)) = Range(down[c]) \union {g}
    BY <1>0, BufferRange
  <2> QED BY <2>1, <2>4, <2>5, <2>6, Zenon
<1>5. ASSUME NEW d \in Conns, ServerReply(d)
      PROVE  f \in Range(down[c]) \union Range(conn[c].reply)
  <2>1. conn'[c].reply = conn[c].reply \/ conn'[c].reply = <<>>
    BY <1>5 DEF ServerReply, Continue, ConnRec
  <2>2. down'[c] = down[c] \/ down'[c] = down[c] \o conn[c].reply
    BY <1>5, Zenon DEF ServerReply
  <2>3. Range(<<>>) = {}
    BY DEF Range
  <2>4. Range(down[c] \o conn[c].reply) = Range(down[c]) \union Range(conn[c].reply)
    BY <1>0, BufferRange
  <2> QED BY <2>1, <2>2, <2>3, <2>4, Zenon
<1>6. ASSUME NEW d \in Conns, heartbeatLoop(d)
      PROVE  f \in Range(down[c]) \union Range(conn[c].reply)
  <2>1. conn' = conn /\ down' = [down EXCEPT ![d] = Append(@, [type |-> "hb"])]
    BY <1>6 DEF heartbeatLoop, Server
  <2>2. PICK g \in DownFrame : g = [type |-> "hb"]
    BY Frames, Zenon
  <2>3. f # g
    BY <2>2
  <2>4. down'[c] = down[c] \/ down'[c] = Append(down[c], g)
    BY <2>1, <2>2
  <2> QED BY <1>0, <2>1, <2>3, <2>4, BufferRange
<1>7. ASSUME NEW d \in Conns, ServerRead(d)
      PROVE  f \in Range(down[c]) \union Range(conn[c].reply) \/ blocklist'[f.addr] # "none"
  <2> DEFINE h == Head(up[d])
  <2>1. h \in UpFrame
    BY <1>7, BufferTyped, Zenon DEF ServerRead
  <2>2. /\ down' = down
        /\ \/ UNCHANGED conn
           \/ Reply(d, [type |-> "error"])
           \/ h.type = "map" /\ ApplyMap(d, h)
    BY <1>7, Zenon DEF ServerRead, applyMapUpdate, sendError
  <2> HIDE DEF h
  <2>3. CASE UNCHANGED conn
    BY <2>2, <2>3, Zenon
  <2>4. ASSUME NEW g \in DownFrame, Reply(d, g), f \notin Range(down[c]) \union Range(conn[c].reply)
        PROVE  f = g
    <3>1. conn'[c].reply = conn[c].reply \/ conn'[c].reply = <<g>>
      BY <2>4 DEF Reply, ConnRec
    <3>2. Range(<<g>>) = {g}
      <4>1. <<>> \in Seq(DownFrame) /\ Append(<<>>, g) = <<g>> /\ Range(<<>>) = {}
        BY DEF Range
      <4>2. Range(Append(<<>>, g)) = Range(<<>>) \union {g}
        BY <4>1, BufferRange, Zenon
      <4> QED BY <4>1, <4>2, Zenon
    <3> QED BY <2>2, <2>4, <3>1, <3>2, Zenon
  <2>5. CASE Reply(d, [type |-> "error"])
    BY <2>4, <2>5, Frames
  <2>6. CASE h.type = "map" /\ ApplyMap(d, h)
    <3>1. h.addr \in Addrs /\ h.action \in {"drop", "rate"}
      BY <2>1, <2>6, Frames, Zenon DEF Blocking
    <3>2. PICK g \in DownFrame : g = [type |-> "ack", addr |-> h.addr]
      BY <3>1, Frames, Zenon
    <3>3. blocklist' = [blocklist EXCEPT ![h.addr] = h.action] /\ Reply(d, g)
      BY <2>6, <3>2, Zenon DEF ApplyMap
    <3> QED BY <2>4, <3>1, <3>2, <3>3
  <2> QED BY <2>2, <2>3, <2>5, <2>6, Zenon
<1>8. CASE ClientRecv \/ ClientStop
  <2>1. conn' = conn
    BY <1>8, Zenon DEF ClientRecv, ClientStop, ServerSide, Server
  <2>2. Range(<<>>) = {}
    BY DEF Range
  <2>3. \/ down'[c] = down[c]
        \/ down'[c] = <<>>
        \/ down[c] # <<>> /\ down'[c] = Tail(down[c])
    BY <1>8, Zenon DEF ClientRecv, ClientStop
  <2> QED BY <1>0, <2>1, <2>2, <2>3, BufferRange, Zenon
<1>9. CASE ReceiveMeta \/ FlushTick \/ applyVerdicts \/ UNCHANGED vars
  <2>1. UNCHANGED <<conn, down>>
    BY <1>9, Zenon DEF ReceiveMeta, FlushTick, applyVerdicts, Server, Sockets, vars
  <2> QED BY <1>1, <2>1
<1>10. CASE Respond \/ SendTake \/ SendWrite \/ heartbeat_loop \/ \E v \in Scores : AnalyzePacket(v)
  <2>1. UNCHANGED <<conn, down>>
    BY <1>10, Zenon DEF Respond, SendTake, SendWrite, heartbeat_loop, AnalyzePacket, ServerSide, Server, Sockets
  <2> QED BY <1>1, <2>1
<1> QED BY <1>2, <1>3, <1>4, <1>5, <1>6, <1>7, <1>8, <1>9, <1>10, Zenon DEF Next

(* The AI engine is never told of a block that did not happen: every         *)
(* MapUpdateAck in a socket buffer or about to be written stands for a map   *)
(* entry, over any connections, packets, verdicts and heartbeats             *)
(* (applyMapUpdate, handleConn).                                             *)
THEOREM AckImpliesEntry == Spec => []AckMeansApplied
<1>1. Init => PipeTyped /\ AckMeansApplied
  <2>1. ASSUME Init PROVE AckMeansApplied
    <3>1. \A c \in Conns : down[c] = <<>> /\ conn[c].reply = <<>>
      BY <2>1 DEF Init, NoConn
    <3>2. Range(<<>>) = {}
      BY DEF Range
    <3> QED BY <3>1, <3>2 DEF AckMeansApplied
  <2> QED BY <2>1, PipeTypedInit
<1>2. PipeTyped /\ AckMeansApplied /\ [Next]_vars => PipeTyped' /\ AckMeansApplied'
  <2> SUFFICES ASSUME PipeTyped, AckMeansApplied, [Next]_vars
               PROVE  PipeTyped' /\ AckMeansApplied'
    OBVIOUS
  <2>1. ASSUME NEW c \in Conns, NEW f \in Range(down'[c]) \union Range(conn'[c].reply), f.type = "ack"
        PROVE  blocklist'[f.addr] # "none"
    <3>1. CASE f \in Range(down[c]) \union Range(conn[c].reply)
      <4>1. down[c] \in Seq(DownFrame) /\ conn[c].reply \in Seq(DownFrame)
        BY DEF PipeTyped, ConnTyped, ConnRec
      <4>2. f \in DownFrame
        BY <3>1, <4>1, BufferRange
      <4>3. blocklist[f.addr] # "none"
        BY <2>1, <3>1 DEF AckMeansApplied
      <4> QED BY <2>1, <4>2, <4>3, Frames, BlockedStays
    <3> QED BY <2>1, <3>1, NewFrames
  <2> QED BY <2>1, PipeTypedStep DEF AckMeansApplied
<1> QED BY <1>1, <1>2, PTL DEF Spec

-----------------------------------------------------------------------------
(* No request disappears                                                     *)

(* The counters are numbers, and a connection that was never accepted has no *)
(* forwarder: accepting it forgets none that holds or lost a request.        *)
Counted ==
  /\ enqueued \in Nat /\ sent \in Nat /\ lost \in Nat
  /\ \A c \in Conns : conn[c].handler = "none" => conn[c].forwarder = "none"
  /\ RequestsAccounted

(* Sets of connections are finite, and one more or less counts as one. *)
LEMMA CountConns ==
  ASSUME NEW S \in SUBSET Conns, NEW c \in Conns
  PROVE  /\ Cardinality(S) \in Nat
         /\ c \notin S => Cardinality(S \union {c}) = Cardinality(S) + 1
         /\ c \in S => Cardinality(S \ {c}) = Cardinality(S) - 1
<1>1. IsFiniteSet(Conns)
  BY FS_Interval, InferenceAssumption DEF Conns
<1>2. IsFiniteSet(S)
  BY <1>1, FS_Subset
<1> QED BY <1>2, FS_CardinalityType, FS_AddElement, FS_RemoveElement

(* A step that touches no forwarder, request or counter changes no account. *)
LEMMA CountedSame ==
  ASSUME Counted, UNCHANGED <<requests, enqueued, sent, lost>>,
         \A c \in Conns : conn'[c].forwarder = conn[c].forwarder
                          /\ (conn'[c].handler = "none" => conn[c].handler = "none")
  PROVE  Counted'
<1>1. Holding' = Holding /\ Gone' = Gone
  BY DEF Holding, Gone
<1> QED BY <1>1 DEF Counted, RequestsAccounted

(* Every step keeps the account: a flush adds a request to the channel, a    *)
(* forwarder takes one, and writing it either succeeds or ends the forwarder.*)
LEMMA CountedStep ==
  ASSUME PipeTyped, Counted, [Next]_vars
  PROVE  Counted'
<1> USE DEF PipeTyped
<1>0. Len(requests) \in Nat /\ Cardinality(Holding) \in Nat /\ Cardinality(Gone) \in Nat
  <2>1. \A S \in SUBSET Conns : Cardinality(S) \in Nat
    <3>1. IsFiniteSet(Conns)
      BY FS_Interval, InferenceAssumption DEF Conns
    <3> QED BY <3>1, FS_Subset, FS_CardinalityType
  <2> QED BY <2>1 DEF Holding, Gone, BatchTyped
<1>a. conn \in [Conns -> ConnRec]
  BY DEF ConnTyped
<1>1. ASSUME NEW a, NEW k, Flush(a, k), UNCHANGED <<conn, sent, lost>>
      PROVE  Counted'
  <2>1. Holding' = Holding /\ Gone' = Gone
    BY <1>1 DEF Holding, Gone
  <2>2. \/ Len(requests') = Len(requests) + 1 /\ enqueued' = enqueued + 1
        \/ UNCHANGED <<requests, enqueued>>
    BY <1>1 DEF Flush, BatchTyped
  <2> QED BY <1>0, <1>1, <2>1, <2>2 DEF Counted, RequestsAccounted
<1>2. CASE ReceiveMeta
  <2>1. UNCHANGED <<conn, sent, lost>>
    BY <1>2, Zenon DEF ReceiveMeta, Server
  <2>2. (\E a, k : Flush(a, k)) \/ UNCHANGED <<requests, enqueued>>
    BY <1>2 DEF ReceiveMeta
  <2> QED BY <1>1, <2>1, <2>2, CountedSame
<1>3. CASE FlushTick
  BY <1>1, <1>3 DEF FlushTick, Server
<1>4. ASSUME NEW c \in Conns, Accept(c)
      PROVE  Counted'
  <2>1. /\ conn' = [conn EXCEPT ![c] = NewConn(c)] /\ conn[c].handler = "none"
        /\ UNCHANGED <<requests, enqueued, sent, lost>>
    BY <1>4 DEF Accept, Forwarding
  <2>2. NewConn(c).forwarder = "wait" /\ NewConn(c).handler = "read"
    BY DEF NewConn
  <2>3. conn[c].forwarder = "none"
    BY <2>1 DEF Counted
  <2>4. Holding' = Holding /\ Gone' = Gone
    BY <1>a, <2>1, <2>2, <2>3 DEF Holding, Gone
  <2>5. \A d \in Conns : conn'[d].handler = "none" => conn'[d].forwarder = "none"
    BY <1>a, <2>1, <2>2 DEF Counted
  <2> QED BY <2>1, <2>4, <2>5 DEF Counted, RequestsAccounted
<1>5. ASSUME NEW c \in Conns, ForwarderTake(c)
      PROVE  Counted'
  <2>1. PICK q : conn' = [conn EXCEPT ![c].forwarder = "send", ![c].request = q]
    BY <1>5, Zenon DEF ForwarderTake
  <2>2. /\ conn[c].forwarder = "wait" /\ requests # <<>> /\ requests' = Tail(requests)
        /\ UNCHANGED <<enqueued, sent, lost>>
    BY <1>5 DEF ForwarderTake
  <2>3. \A d \in Conns : /\ conn'[d].handler = conn[d].handler
                         /\ conn'[d].forwarder = IF d = c THEN "send" ELSE conn[d].forwarder
    BY <1>a, <2>1 DEF ConnRec
  <2>4. c \notin Holding /\ Holding' = Holding \union {c} /\ Gone' = Gone
    BY <2>2, <2>3 DEF Holding, Gone
  <2>5. Cardinality(Holding') = Cardinality(Holding) + 1
    BY <2>4, CountConns DEF Holding
  <2>6. Len(requests') = Len(requests) - 1
    BY <2>2 DEF BatchTyped
  <2>7. \A d \in Conns : conn'[d].handler = "none" => conn'[d].forwarder = "none"
    BY <2>2, <2>3 DEF Counted
  <2>8. RequestsAccounted'
    <3>1. enqueued' = Len(requests') + Cardinality(Holding') + sent' + lost'
      BY <1>0, <2>2, <2>5, <2>6 DEF Counted, RequestsAccounted
    <3>2. lost' <= Cardinality(Gone')
      BY <2>2, <2>4 DEF Counted, RequestsAccounted
    <3> QED BY <3>1, <3>2 DEF RequestsAccounted
  <2> QED BY <2>2, <2>7, <2>8 DEF Counted
<1>6. ASSUME NEW c \in Conns, ForwarderSend(c)
      PROVE  Counted'
  <2>1. conn[c].forwarder = "send" /\ UNCHANGED <<requests, enqueued>>
    BY <1>6, Zenon DEF ForwarderSend, Forwarding
  <2>2. PICK p \in {"wait", "gone"} :
          /\ conn' = [conn EXCEPT ![c].forwarder = p, ![c].request = <<>>]
          /\ p = "wait" => sent' = sent + 1 /\ lost' = lost
          /\ p = "gone" => sent' = sent /\ lost' = lost + 1
    BY <1>6 DEF ForwarderSend, ForwarderFails
  <2>3. \A d \in Conns : /\ conn'[d].handler = conn[d].handler
                         /\ conn'[d].forwarder = IF d = c THEN p ELSE conn[d].forwarder
    BY <1>a, <2>2 DEF ConnRec
  <2>4. c \in Holding /\ c \notin Gone /\ Holding' = Holding \ {c}
    BY <2>1, <2>2, <2>3, Zenon DEF Holding, Gone
  <2>5. Gone' = IF p = "gone" THEN Gone \union {c} ELSE Gone
    BY <2>1, <2>2, <2>3, Zenon DEF Gone
  <2>6. /\ Cardinality(Holding') = Cardinality(Holding) - 1
        /\ Cardinality(Gone') = IF p = "gone" THEN Cardinality(Gone) + 1 ELSE Cardinality(Gone)
    BY <2>4, <2>5, CountConns, Zenon DEF Holding, Gone
  <2>7. \A d \in Conns : conn'[d].handler = "none" => conn'[d].forwarder = "none"
    BY <2>1, <2>3 DEF Counted
  <2>8. RequestsAccounted'
    <3>1. Len(requests') = Len(requests) /\ enqueued' = enqueued
      BY <2>1
    <3>2. enqueued' = Len(requests') + Cardinality(Holding') + sent' + lost'
      BY <1>0, <2>2, <2>6, <3>1 DEF Counted, RequestsAccounted
    <3>3. lost' <= Cardinality(Gone')
      BY <1>0, <2>2, <2>6 DEF Counted, RequestsAccounted
    <3> QED BY <3>2, <3>3 DEF RequestsAccounted
  <2>9. sent' \in Nat /\ lost' \in Nat
    BY <2>2 DEF Counted
  <2> QED BY <2>1, <2>7, <2>8, <2>9 DEF Counted
<1>7. ASSUME NEW c \in Conns, ServerRead(c) \/ ServerReply(c) \/ HandlerExit(c)
      PROVE  Counted'
  <2>1. UNCHANGED <<requests, enqueued, sent, lost>>
    BY <1>7, Zenon DEF ServerRead, ServerReply, HandlerExit, Forwarding
  <2>2. ASSUME NEW d \in Conns
        PROVE  /\ conn'[d].forwarder = conn[d].forwarder
               /\ conn'[d].handler = "none" => conn[d].handler = "none"
    <3>0. conn[c] \in ConnRec /\ conn[d] \in ConnRec /\ conn = [e \in Conns |-> conn[e]]
      BY <1>a
    <3>1. CASE ServerRead(c)
      <4>1. conn' = conn \/ \E r : conn' = [conn EXCEPT ![c].handler = "reply", ![c].reply = r]
        BY <3>1, Zenon DEF ServerRead, applyMapUpdate, ApplyMap, sendError, Reply
      <4>2. CASE conn' = conn
        BY <4>2
      <4>3. ASSUME NEW r, conn' = [conn EXCEPT ![c].handler = "reply", ![c].reply = r]
            PROVE  /\ conn'[d].forwarder = conn[d].forwarder
                   /\ conn'[d].handler = "none" => conn[d].handler = "none"
        <5>1. conn'[d] = [conn[d] EXCEPT !.handler = "reply", !.reply = r] \/ conn'[d] = conn[d]
          BY <3>0, <4>3, Zenon
        <5> QED BY <3>0, <5>1, Zenon DEF ConnRec
      <4> QED BY <4>1, <4>2, <4>3
    <3>2. CASE ServerReply(c)
      <4>1. conn' = [conn EXCEPT ![c].handler = "read", ![c].reply = <<>>]
        BY <3>2, Zenon DEF ServerReply, Continue
      <4>2. conn'[d] = [conn[d] EXCEPT !.handler = "read", !.reply = <<>>] \/ conn'[d] = conn[d]
        BY <3>0, <4>1, Zenon
      <4> QED BY <3>0, <4>2, Zenon DEF ConnRec
    <3>3. CASE HandlerExit(c)
      <4>1. conn' = [conn EXCEPT ![c].handler = "gone", ![c].open = FALSE]
        BY <3>3, Zenon DEF HandlerExit
      <4>2. conn'[d] = [conn[d] EXCEPT !.handler = "gone", !.open = FALSE] \/ conn'[d] = conn[d]
        BY <3>0, <4>1, Zenon
      <4> QED BY <3>0, <4>2, Zenon DEF ConnRec
    <3> QED BY <1>7, <3>1, <3>2, <3>3
  <2> QED BY <2>1, <2>2, CountedSame
<1>8. ASSUME UNCHANGED <<conn, requests, enqueued, sent, lost>>
      PROVE  Counted'
  BY <1>8, CountedSame
<1>9. CASE \/ applyVerdicts \/ ClientRecv \/ Respond \/ SendTake \/ SendWrite \/ heartbeat_loop \/ ClientStop
           \/ (\E c \in Conns : heartbeatLoop(c)) \/ (\E v \in Scores : AnalyzePacket(v)) \/ UNCHANGED vars
  <2>1. UNCHANGED <<conn, requests, enqueued, sent, lost>>
    BY <1>9, Zenon DEF applyVerdicts, ClientRecv, Respond, SendTake, SendWrite, heartbeat_loop, ClientStop,
       heartbeatLoop, AnalyzePacket, vars, ServerSide, Server, Forwarding
  <2> QED BY <1>8, <2>1
<1> QED BY <1>2, <1>3, <1>4, <1>5, <1>6, <1>7, <1>9 DEF Next

(* Every InferRequest that entered the channel is in the channel, in the     *)
(* hands of a forwarder, written to a socket, or counted as lost, and a      *)
(* forwarder left behind by a closed connection loses at most one, for any   *)
(* number of connections and any capacities (flush, requestForwarder).       *)
THEOREM RequestsNeverDisappear == Spec => []RequestsAccounted
<1>1. Init => PipeTyped /\ Counted
  <2>1. ASSUME Init PROVE Counted
    <3>1. Holding = {} /\ Gone = {}
      BY <2>1 DEF Init, NoConn, Holding, Gone
    <3>2. Len(requests) = 0 /\ Cardinality({}) = 0
      BY <2>1, FS_EmptySet DEF Init
    <3> QED BY <2>1, <3>1, <3>2 DEF Init, NoConn, Counted, RequestsAccounted
  <2> QED BY <2>1, PipeTypedInit
<1>2. PipeTyped /\ Counted /\ [Next]_vars => PipeTyped' /\ Counted'
  BY PipeTypedStep, CountedStep
<1>3. Counted => RequestsAccounted
  BY DEF Counted
<1> QED BY <1>1, <1>2, <1>3, PTL DEF Spec

=============================================================================
