------------------------- MODULE InferencePipeline -------------------------
(***************************************************************************)
(* Packet metadata on its way to the AI engine and the verdicts on their   *)
(* way back: MetaForwarder and the IPC server (control-plane/internal/     *)
(* ipc), the C++ client (ai-inference/src/ipc_client.cpp) and the engine   *)
(* it calls (inference_engine.cpp), over one Unix socket per connection.   *)
(*                                                                         *)
(* A connection has two goroutines on the server (the receive loop, which  *)
(* also writes the replies, and requestForwarder) and two threads in the   *)
(* client (recv_loop, which runs the engine, and send_loop).  Both socket  *)
(* buffers, the channels and the send queue are bounded.  A frame is a     *)
(* record; its bytes, CRC, sequence number and JSON are left out, and a    *)
(* frame is written whole or not at all.  The score of a packet is an      *)
(* arbitrary choice.                                                       *)
(***************************************************************************)
EXTENDS Integers, Sequences, SequencesExt, FiniteSets

CONSTANTS Packets,     \* the metadata, as a sequence of source addresses
          Protected,   \* addresses of protectedCIDRs
          Scores,      \* possible outcomes of score_packet
          BatchSize,   \* MetaForwarder.batchSize
          RequestCap,  \* capacity of InferRequestCh
          VerdictCap,  \* capacity of VerdictCh
          SocketCap,   \* frames that fit in a socket buffer
          QueueMax,    \* 4096 in enqueue_frame
          MaxConns,    \* bound: connections
          MaxBeats     \* bound: heartbeats of either side

VARIABLES fed,       \* metadata received so far
          array,     \* the backing array of MetaForwarder's batch
          len,       \* the batch's length
          requests,  \* InferRequestCh: [n, flushed]
          verdicts,  \* VerdictCh
          conn,      \* connection -> server side: [handler, reply, forwarder, request, open]
          down, up,  \* connection -> socket buffer to the client, to the server
          client,    \* [conn, recv, todo, drops, hold]; conn = 0: not running
          queue,     \* the client's send_queue
          blocklist, \* BLOCKLIST_V4: address -> action or "none"
          beats,     \* heartbeats sent
          enqueued, sent, lost, dropped  \* history: requests, and packets MetaForwarder dropped

vars == <<fed, array, len, requests, verdicts, conn, down, up, client, queue, blocklist,
          beats, enqueued, sent, lost, dropped>>

Conns == 1..MaxConns
Addrs == {Packets[i] : i \in DOMAIN Packets}

ASSUME InferenceAssumption ==
  /\ Packets \in Seq(Addrs) /\ Scores \subseteq {"drop", "rate", "alert", "none"}
  /\ MaxConns \in Nat

NoConn == [handler |-> "none", reply |-> <<>>, forwarder |-> "none", request |-> <<>>,
           open |-> FALSE]
NoClient == [conn |-> 0, recv |-> "off", todo |-> <<>>, drops |-> <<>>, hold |-> <<>>]

Init ==
  /\ fed = 0 /\ array = <<>> /\ len = 0
  /\ requests = <<>> /\ verdicts = <<>>
  /\ conn = [c \in Conns |-> NoConn]
  /\ down = [c \in Conns |-> <<>>] /\ up = [c \in Conns |-> <<>>]
  /\ client = NoClient /\ queue = <<>>
  /\ blocklist = [a \in Addrs |-> "none"]
  /\ beats = 0 /\ enqueued = 0 /\ sent = 0 /\ lost = 0 /\ dropped = 0

----------------------------------------------------------------------------
(* MetaForwarder                                                           *)

Server == <<verdicts, conn, blocklist>>
Client == <<client, queue>>
Sockets == <<down, up>>

\* flush: the request keeps a slice of the batch's array, and the batch
\* starts again at the front of the same array.
Flush(a, n) ==
  IF Len(requests) < RequestCap
  THEN /\ requests' = Append(requests, [n |-> n, flushed |-> SubSeq(a, 1, n)])
       /\ enqueued' = enqueued + 1 /\ UNCHANGED dropped
  ELSE dropped' = dropped + n /\ UNCHANGED <<requests, enqueued>>

ReceiveMeta ==
  LET p == Packets[fed + 1]
      a == [i \in 1..(IF len < Len(array) THEN Len(array) ELSE len + 1) |->
              IF i = len + 1 THEN p ELSE array[i]]
  IN  /\ fed < Len(Packets)
      /\ fed' = fed + 1
      /\ array' = a
      /\ IF len + 1 >= BatchSize THEN Flush(a, len + 1) /\ len' = 0
                                 ELSE len' = len + 1 /\ UNCHANGED <<requests, enqueued, dropped>>
      /\ UNCHANGED <<Server, Client, Sockets, beats, sent, lost>>

FlushTick ==
  /\ len > 0
  /\ Flush(array, len) /\ len' = 0
  /\ UNCHANGED <<Server, Client, Sockets, fed, array, beats, sent, lost>>

Forwarding == <<fed, array, len, requests, enqueued, dropped>>

----------------------------------------------------------------------------
(* Server.Run and requestForwarder                                         *)

Live(c) == conn[c].open /\ client.conn = c
Room(buf, c) == Len(buf[c]) < SocketCap

NewConn_OneForwarder(c) ==
  [handler |-> "read", reply |-> <<>>, forwarder |-> IF c = 1 THEN "wait" ELSE "none",
   request |-> <<>>, open |-> TRUE]
NewConn(c) ==
  [handler |-> "read", reply |-> <<>>, forwarder |-> "wait", request |-> <<>>, open |-> TRUE]

\* connect and start: the client's threads, with an empty send queue.
Connected(c) == client' = [NoClient EXCEPT !.conn = c, !.recv = "recv"] /\ queue' = <<>>

\* A client connects and is accepted; both sides start their loops.
Accept(c) ==
  /\ client.conn = 0 /\ conn[c].handler = "none" /\ \A d \in 1..(c - 1) : conn[d].handler # "none"
  /\ conn' = [conn EXCEPT ![c] = NewConn(c)]
  /\ Connected(c)
  /\ UNCHANGED <<Forwarding, Sockets, verdicts, blocklist, beats, sent, lost>>

\* The forwarder of every connection, dead ones included, takes from the one
\* channel; json.Marshal reads the packets from the shared array.
ForwarderTake(c) ==
  /\ conn[c].forwarder = "wait" /\ requests # <<>>
  /\ conn' = [conn EXCEPT ![c].forwarder = "send", ![c].request = SubSeq(array, 1, Head(requests).n)]
  /\ requests' = Tail(requests)
  /\ UNCHANGED <<Client, Sockets, verdicts, blocklist, fed, array, len, enqueued, dropped,
                 beats, sent, lost>>

ForwarderFails_Continues(c) ==
  conn' = [conn EXCEPT ![c].forwarder = "wait", ![c].request = <<>>]
\* A failed send ends the forwarder.
ForwarderFails(c) ==
  conn' = [conn EXCEPT ![c].forwarder = "gone", ![c].request = <<>>]

\* sendFrame: the socket is written, or it is closed, or its buffer stays full
\* for the write timeout.
ForwarderSend(c) ==
  /\ conn[c].forwarder = "send"
  /\ \/ /\ Live(c) /\ Room(down, c)
        /\ down' = [down EXCEPT ![c] = Append(@, [type |-> "infer", packets |-> conn[c].request])]
        /\ conn' = [conn EXCEPT ![c].forwarder = "wait", ![c].request = <<>>]
        /\ sent' = sent + 1 /\ UNCHANGED lost
     \/ /\ ~Live(c) \/ ~Room(down, c)
        /\ ForwarderFails(c)
        /\ lost' = lost + 1 /\ UNCHANGED <<down, sent>>
  /\ UNCHANGED <<Forwarding, Client, up, verdicts, blocklist, beats>>

----------------------------------------------------------------------------
(* handleConn, dispatch, applyMapUpdate, verdictDispatcher                 *)

\* The receive loop of c continues with no reply, or with one to write.
Continue(c) == conn' = [conn EXCEPT ![c].handler = "read", ![c].reply = <<>>]
Reply(c, frame) == conn' = [conn EXCEPT ![c].handler = "reply", ![c].reply = <<frame>>]

sendError(c) == Reply(c, [type |-> "error"]) /\ UNCHANGED blocklist
isProtectedIP(a) == a \in Protected
ApplyMap_AckAnyway(c, f) == Reply(c, [type |-> "ack", addr |-> f.addr]) /\ UNCHANGED blocklist
\* BlockIPv4 succeeds and is acknowledged.
ApplyMap(c, f) ==
  /\ blocklist' = [blocklist EXCEPT ![f.addr] = f.action]
  /\ Reply(c, [type |-> "ack", addr |-> f.addr])

\* The rate limiter, a bad payload or a failing map refuse the update, and a
\* protected address is always refused.
applyMapUpdate(c, f) == sendError(c) \/ (~isProtectedIP(f.addr) /\ ApplyMap(c, f))

PushVerdicts(f) ==
  verdicts' = IF Len(verdicts) < VerdictCap THEN Append(verdicts, f.list) ELSE verdicts

\* The receive loop reads a frame and dispatches it.  The client's own
\* heartbeats are a type the server does not know.
ServerRead(c) ==
  LET f == Head(up[c])
  IN  /\ conn[c].handler = "read" /\ up[c] # <<>>
      /\ up' = [up EXCEPT ![c] = Tail(@)]
      /\ \/ f.type = "verdicts" /\ PushVerdicts(f) /\ UNCHANGED <<conn, blocklist>>
         \/ f.type = "map" /\ applyMapUpdate(c, f) /\ UNCHANGED verdicts
         \/ f.type \in {"alert", "hback"} /\ UNCHANGED <<conn, verdicts, blocklist>>
         \/ f.type = "hb" /\ sendError(c) /\ UNCHANGED verdicts
      /\ UNCHANGED <<Forwarding, Client, down, beats, sent, lost>>

\* The reply is written by the receive loop itself; a closed socket or a
\* write timeout is ignored.
ServerReply(c) ==
  /\ conn[c].handler = "reply"
  /\ \/ Live(c) /\ Room(down, c) /\ down' = [down EXCEPT ![c] = @ \o conn[c].reply]
     \/ (~Live(c) \/ ~Room(down, c)) /\ UNCHANGED down
  /\ Continue(c)
  /\ UNCHANGED <<Forwarding, Client, up, verdicts, blocklist, beats, sent, lost>>

\* readFrame fails once the client is gone and the buffer is read; the
\* forwarder is not told.
HandlerExit(c) ==
  /\ conn[c].handler = "read" /\ ~Live(c) /\ up[c] = <<>>
  /\ conn' = [conn EXCEPT ![c].handler = "gone", ![c].open = FALSE]
  /\ UNCHANGED <<Forwarding, Client, Sockets, verdicts, blocklist, beats, sent, lost>>

heartbeatLoop(c) ==
  /\ beats < MaxBeats /\ Live(c) /\ Room(down, c)
  /\ beats' = beats + 1
  /\ down' = [down EXCEPT ![c] = Append(@, [type |-> "hb"])]
  /\ UNCHANGED <<Forwarding, Server, Client, up, sent, lost>>

\* One rate check for the batch, then updates that may fail one by one.
BlockIPv4Batch(S) ==
  \E ok \in SUBSET S : blocklist' = [a \in Addrs |-> IF a \in ok THEN "drop" ELSE blocklist[a]]

\* Only drops are applied; nothing looks at protected addresses here.
applyVerdicts ==
  /\ verdicts # <<>>
  /\ verdicts' = Tail(verdicts)
  /\ BlockIPv4Batch({v.addr : v \in {w \in Range(Head(verdicts)) : w.action = "drop"}})
  /\ UNCHANGED <<Forwarding, Client, Sockets, conn, beats, sent, lost>>

----------------------------------------------------------------------------
(* The client's threads and the engine                                     *)

ServerSide == <<Forwarding, Server, sent, lost>>

\* enqueue_frame never waits: a full queue drops the frame.
Enqueue(q, f) == IF Len(q) > QueueMax THEN q ELSE Append(q, f)

\* recv_loop and dispatch.
ClientRecv ==
  LET c == client.conn
      f == Head(down[c])
  IN  /\ client.recv = "recv" /\ down[c] # <<>>
      /\ down' = [down EXCEPT ![c] = Tail(@)]
      /\ client' = IF f.type = "infer" THEN [client EXCEPT !.recv = "analyze", !.todo = f.packets]
                                       ELSE client
      /\ queue' = IF f.type = "hb" THEN Enqueue(queue, [type |-> "hback"]) ELSE queue
      /\ UNCHANGED <<ServerSide, up, beats>>

send_block_request(a, score) == Enqueue(queue, [type |-> "map", addr |-> a, action |-> score])
send_alert == Enqueue(queue, [type |-> "alert"])

\* analyze_packet: a blocking score sends a MapUpdateReq and is a verdict too.
AnalyzePacket(score) ==
  LET a == Head(client.todo)
  IN  /\ client.recv = "analyze" /\ client.todo # <<>>
      /\ queue' = CASE score \in {"drop", "rate"} -> send_block_request(a, score)
                    [] score = "alert"            -> send_alert
                    [] score = "none"             -> queue
      /\ client' = [client EXCEPT !.todo = Tail(@),
                                  !.drops = IF score \in {"drop", "rate"}
                                            THEN Append(@, [addr |-> a, action |-> score]) ELSE @]
      /\ UNCHANGED <<ServerSide, Sockets, beats>>

\* handle_infer_request ends: an InferResponse if there is any verdict.
Respond ==
  /\ client.recv = "analyze" /\ client.todo = <<>>
  /\ queue' = IF client.drops = <<>> THEN queue
              ELSE Enqueue(queue, [type |-> "verdicts", list |-> client.drops])
  /\ client' = [client EXCEPT !.recv = "recv", !.drops = <<>>]
  /\ UNCHANGED <<ServerSide, Sockets, beats>>

heartbeat_loop ==
  /\ beats < MaxBeats /\ client.conn # 0
  /\ beats' = beats + 1
  /\ queue' = Enqueue(queue, [type |-> "hb"])
  /\ UNCHANGED <<ServerSide, Sockets, client>>

\* send_loop takes a frame under the lock and writes it after releasing it.
SendTake ==
  /\ client.conn # 0 /\ client.hold = <<>> /\ queue # <<>>
  /\ client' = [client EXCEPT !.hold = <<Head(queue)>>]
  /\ queue' = Tail(queue)
  /\ UNCHANGED <<ServerSide, Sockets, beats>>

SendWrite ==
  /\ client.hold # <<>> /\ Room(up, client.conn)
  /\ up' = [up EXCEPT ![client.conn] = @ \o client.hold]
  /\ client' = [client EXCEPT !.hold = <<>>]
  /\ UNCHANGED <<ServerSide, down, queue, beats>>

\* stop(), or the process ends: the socket closes, what it had not read and
\* its queue are gone.
ClientStop ==
  /\ client.conn # 0
  /\ client' = NoClient /\ queue' = <<>>
  /\ down' = [down EXCEPT ![client.conn] = <<>>]
  /\ UNCHANGED <<ServerSide, up, beats>>

----------------------------------------------------------------------------
RecvLoop == ClientRecv \/ Respond \/ \E v \in Scores : AnalyzePacket(v)
SendLoop == SendTake \/ SendWrite

Next ==
  \/ ReceiveMeta \/ FlushTick
  \/ \E c \in Conns : \/ Accept(c) \/ ForwarderTake(c) \/ ForwarderSend(c) \/ ServerRead(c)
                      \/ ServerReply(c) \/ HandlerExit(c) \/ heartbeatLoop(c)
  \/ applyVerdicts
  \/ ClientRecv \/ Respond \/ SendTake \/ SendWrite \/ heartbeat_loop \/ ClientStop
  \/ \E v \in Scores : AnalyzePacket(v)

\* Goroutines and threads are scheduled fairly.  Nothing obliges packets to
\* arrive, a client to connect or to stop, or a heartbeat to be due.
Fairness ==
  /\ WF_vars(FlushTick) /\ WF_vars(applyVerdicts) /\ WF_vars(RecvLoop) /\ WF_vars(SendLoop)
  /\ \A c \in Conns : /\ WF_vars(ForwarderTake(c) \/ ForwarderSend(c))
                      /\ WF_vars(ServerRead(c) \/ ServerReply(c)) /\ WF_vars(HandlerExit(c))

Spec == Init /\ [][Next]_vars /\ Fairness

----------------------------------------------------------------------------
(* Properties                                                              *)

\* Every queue and buffer stays within its bound; send_queue may hold one
\* frame more than its limit.
TypeOK ==
  /\ len \in 0..BatchSize /\ Len(array) <= BatchSize
  /\ Len(requests) <= RequestCap /\ Len(verdicts) <= VerdictCap
  /\ Len(queue) <= QueueMax + 1
  /\ \A c \in Conns : Len(down[c]) <= SocketCap /\ Len(up[c]) <= SocketCap
  /\ blocklist \in [Addrs -> {"none", "drop", "rate"}]

Holding == {c \in Conns : conn[c].forwarder = "send"}
Gone == {c \in Conns : conn[c].forwarder = "gone"}

\* Every InferRequest that entered the channel is still there, in the hands of
\* a forwarder, written to a socket, or lost; and the forwarders left behind by
\* closed connections lose at most one request each.
RequestsAccounted ==
  /\ enqueued = Len(requests) + Cardinality(Holding) + sent + lost
  /\ lost <= Cardinality(Gone)

\* A MapUpdateAck on the wire or about to be written stands for a map entry:
\* the engine is never told of a block that did not happen.
AckMeansApplied ==
  \A c \in Conns : \A f \in Range(down[c]) \union Range(conn[c].reply) :
    f.type = "ack" => blocklist[f.addr] # "none"

\* A MapUpdateReq never writes an entry for a protected address: such an entry
\* changes only when the dispatcher takes a response from VerdictCh.
MapUpdateRefusesProtected ==
  [][\A a \in Protected \intersect Addrs :
       blocklist'[a] # blocklist[a] => verdicts # <<>> /\ verdicts' = Tail(verdicts)]_vars

\* A request does not stay in InferRequestCh while the connected client has a
\* forwarder: whatever earlier connections left behind, the new one takes it.
RequestsForwarded ==
  requests # <<>> ~>
    (requests = <<>> \/ ~ \E c \in Conns : Live(c) /\ conn[c].forwarder # "gone")

\* subsys.go:93, "forwards to the AI engine as InferRequest batches": what a
\* forwarder sends are the packets that were flushed into the request.
BatchIsolated == \A i \in DOMAIN requests : SubSeq(array, 1, requests[i].n) = requests[i].flushed

\* server.go:316, "These networks are NEVER legitimate targets".
ProtectedNeverBlocked == \A a \in Protected \intersect Addrs : blocklist[a] = "none"
=============================================================================
