-------------------------- MODULE NotificationFeed --------------------------
(***************************************************************************)
(* From the event bus to the browsers: the notification manager and its    *)
(* store, the WebSocket hub (control-plane/pkg/notifications/manager.go),  *)
(* and the SOC server's metrics streamer with the ring of recent frames    *)
(* that seeds a new connection (soc-backend/internal/server/server.go).    *)
(*                                                                         *)
(* An event is its number; metrics and alerts are told apart.  The bus is  *)
(* the manager's bounded channel.  One user connects; the id of a client   *)
(* is the second in which it connected.                                    *)
(***************************************************************************)
EXTENDS Naturals, Sequences, SequencesExt, FiniteSets, Functions

CONSTANTS Clients,
          Ids,         \* the seconds of the clock (userID_HHMMSS)
          StoreLimit,  \* 1000
          RingCap,     \* 60
          InboxCap,    \* 1024, the manager's subscription
          SendCap,     \* 256, wsClient.send
          MaxEvents    \* bound

ASSUME FeedAssumption == StoreLimit \in Nat /\ RingCap \in Nat \ {0}

VARIABLES n,         \* events published
          metrics,   \* the numbers that are metrics snapshots
          inbox,     \* m.sub.Ch
          store,     \* the stored notifications [ev, read], oldest first
          ring,      \* metricsRingBuffer: [buf, head, size]
          toAdd,     \* the streamer's frame between Publish and Add
          hub,       \* WSHub.clients: id -> client
          cl,        \* client -> [phase, id, seed, send, quit]
          shut,      \* "no", "cancelled", "closed" (closeAll ran)
          alerts,    \* history: alerts dispatched
          added,     \* history: frames added to the ring
          told       \* history: the clients closeAll reached

feedVars == <<n, metrics, inbox, store, ring, toAdd, hub, cl, shut, alerts, added, told>>

NoConnection == [phase |-> "none", id |-> 0, seed |-> <<>>, send |-> <<>>, quit |-> FALSE]

FeedInit ==
  /\ n = 0 /\ metrics = {} /\ inbox = <<>> /\ store = <<>>
  /\ ring = [buf |-> [i \in 0..(RingCap - 1) |-> 0], head |-> 0, size |-> 0]
  /\ toAdd = 0 /\ hub = <<>> /\ cl = [c \in Clients |-> NoConnection] /\ shut = "no"
  /\ alerts = <<>> /\ added = <<>> /\ told = {}

\* The last k elements of s.
LastOf(s, k) == SubSeq(s, IF Len(s) > k THEN Len(s) - k + 1 ELSE 1, Len(s))

----------------------------------------------------------------------------
(* Publishers                                                              *)

Publish == n < MaxEvents /\ n' = n + 1 /\ inbox' = IF Len(inbox) < InboxCap THEN Append(inbox, n + 1) ELSE inbox

PublishAlert ==
  /\ Publish
  /\ UNCHANGED <<metrics, store, ring, toAdd, hub, cl, shut, alerts, added, told>>

\* runMetricsStreamer publishes a snapshot and then adds it to the ring.
MetricsTick ==
  /\ toAdd = 0 /\ shut = "no" /\ Publish
  /\ metrics' = metrics \union {n + 1} /\ toAdd' = n + 1
  /\ UNCHANGED <<store, ring, hub, cl, shut, alerts, added, told>>

RingAdd(r, f) ==
  [buf |-> [r.buf EXCEPT ![r.head] = f], head |-> (r.head + 1) % RingCap,
   size |-> IF r.size < RingCap THEN r.size + 1 ELSE r.size]

MetricsAdd ==
  /\ toAdd # 0
  /\ ring' = RingAdd(ring, toAdd) /\ added' = Append(added, toAdd) /\ toAdd' = 0
  /\ UNCHANGED <<n, metrics, inbox, store, hub, cl, shut, alerts, told>>

SnapshotStart(r) == ((r.head + RingCap) - r.size) % RingCap
\* metricsRingBuffer.Snapshot, oldest first.
Snapshot(r) == [i \in 1..r.size |-> r.buf[(SnapshotStart(r) + (i - 1)) % RingCap]]

----------------------------------------------------------------------------
(* Manager.Run                                                             *)

IsStored_All(ev) == TRUE
\* Metrics snapshots are broadcast only.
IsStored(ev) == ev \notin metrics

\* Broadcast: a full client is passed over; a client that is also leaving
\* may be passed over.
Broadcast(ev) ==
  \E skip \in SUBSET {c \in Clients : cl[c].quit} :
    cl' = [c \in Clients |->
             IF c \in Range(hub) \ skip /\ Len(cl[c].send) < SendCap
             THEN [cl[c] EXCEPT !.send = Append(@, <<"live", ev>>)] ELSE cl[c]]

Trimmed(s) == LastOf(s, StoreLimit)
storeNotification(ev) == Trimmed(Append(store, [ev |-> ev, read |-> FALSE]))

\* The store, then the broadcast.
dispatch ==
  LET ev == Head(inbox)
  IN  /\ inbox # <<>> /\ inbox' = Tail(inbox)
      /\ store' = IF IsStored(ev) THEN storeNotification(ev) ELSE store
      /\ alerts' = IF ev \in metrics THEN alerts ELSE Append(alerts, ev)
      /\ Broadcast(ev)
      /\ UNCHANGED <<n, metrics, ring, toAdd, hub, shut, added, told>>

MarkRead(i) ==
  /\ i \in DOMAIN store /\ ~store[i].read
  /\ store' = [store EXCEPT ![i].read = TRUE]
  /\ UNCHANGED <<n, metrics, inbox, ring, toAdd, hub, cl, shut, alerts, added, told>>

Feed == <<n, metrics, inbox, store, ring, toAdd, alerts, added>>

----------------------------------------------------------------------------
(* WSHub                                                                   *)

SetClient(c, r) == cl' = [cl EXCEPT ![c] = r]

\* The handler takes the snapshot, and HandleUpgrade makes the client.
HandleUpgrade(c, id) ==
  /\ cl[c].phase = "none"
  /\ SetClient(c, [NoConnection EXCEPT !.phase = "seeding", !.id = id, !.seed = Snapshot(ring)])
  /\ UNCHANGED <<Feed, hub, shut, told>>

SeedFrame(c) ==
  /\ cl[c].phase \in {"seeding", "open"} /\ cl[c].seed # <<>>
  /\ SetClient(c, [cl[c] EXCEPT !.seed = Tail(@),
                     !.send = IF Len(@) < SendCap THEN Append(@, <<"seed", Head(cl[c].seed)>>) ELSE @])
  /\ UNCHANGED <<Feed, hub, shut, told>>

Seeded(c) == cl[c].seed = <<>>

\* The client enters the map, in place of another one with its id, and its
\* pumps start.
Register(c) ==
  /\ cl[c].phase = "seeding" /\ Seeded(c)
  /\ hub' = [i \in DOMAIN hub \union {cl[c].id} |-> IF i = cl[c].id THEN c ELSE hub[i]]
  /\ SetClient(c, [cl[c] EXCEPT !.phase = "open"])
  /\ UNCHANGED <<Feed, shut, told>>

WriteFrame(c) ==
  /\ cl[c].phase = "open" /\ cl[c].send # <<>>
  /\ SetClient(c, [cl[c] EXCEPT !.send = Tail(@)])
  /\ UNCHANGED <<Feed, hub, shut, told>>

Unregister_Keeps(id) == UNCHANGED hub
Unregister(id) == hub' = [i \in DOMAIN hub \ {id} |-> hub[i]]

\* writePump wakes on quit.
Leaves(c) == cl[c].quit

\* writePump ends, on quit or on a write error, closes the connection and
\* deletes the map entry under its id.
WritePumpEnds(c) ==
  /\ cl[c].phase = "open"
  /\ SetClient(c, [cl[c] EXCEPT !.phase = "closed", !.quit = TRUE, !.send = <<>>, !.seed = <<>>])
  /\ Unregister(cl[c].id)
  /\ UNCHANGED <<Feed, shut, told>>

QuitPump(c) == Leaves(c) /\ WritePumpEnds(c)

\* The connection drops: readPump closes quit.
ReadPumpEnds(c) ==
  /\ cl[c].phase = "open" /\ ~cl[c].quit
  /\ SetClient(c, [cl[c] EXCEPT !.quit = TRUE])
  /\ UNCHANGED <<Feed, hub, shut, told>>

Cancel ==
  /\ shut = "no" /\ shut' = "cancelled"
  /\ UNCHANGED <<Feed, hub, cl, told>>

closeAll ==
  /\ shut = "cancelled" /\ shut' = "closed"
  /\ cl' = [c \in Clients |-> IF c \in Range(hub) THEN [cl[c] EXCEPT !.quit = TRUE] ELSE cl[c]]
  /\ told' = Range(hub)
  /\ UNCHANGED <<Feed, hub>>

----------------------------------------------------------------------------
FeedNext ==
  \/ PublishAlert \/ MetricsTick \/ MetricsAdd \/ dispatch \/ Cancel \/ closeAll
  \/ \E i \in 1..StoreLimit : MarkRead(i)
  \/ \E c \in Clients : \/ SeedFrame(c) \/ Register(c) \/ WriteFrame(c) \/ WritePumpEnds(c) \/ ReadPumpEnds(c)
                        \/ \E id \in Ids : HandleUpgrade(c, id)

FeedFairness == WF_feedVars(closeAll) /\ \A c \in Clients : WF_feedVars(QuitPump(c))
FeedSpec == FeedInit /\ [][FeedNext]_feedVars /\ FeedFairness

----------------------------------------------------------------------------
(* Properties                                                              *)

\* Channels within their capacity, one map entry per id.
FeedTypeOK ==
  /\ Len(inbox) <= InboxCap /\ Len(store) <= StoreLimit /\ ring.size \in 0..RingCap
  /\ \A c \in Clients : Len(cl[c].send) <= SendCap
  /\ DOMAIN hub \subseteq Ids /\ Range(hub) \subseteq Clients

\* The store holds the most recent alerts and a new connection is seeded with
\* the most recent frames, each in the order of arrival: metrics frames, one
\* per second, never push an alert out, and the ring wraps.
RecentKept == /\ [i \in DOMAIN store |-> store[i].ev] = LastOf(alerts, StoreLimit)
              /\ Snapshot(ring) = LastOf(added, RingCap)

\* In a connection's queue the seed comes before every live frame, although
\* broadcasts go on while the connection is being set up.
SeedBeforeLive ==
  \A c \in Clients : \A i, j \in DOMAIN cl[c].send :
    cl[c].send[i][1] = "seed" /\ cl[c].send[j][1] = "live" => i < j

\* The hub's map holds no client whose pump has ended, although entries are
\* overwritten and deleted by id.
NoDeadClient == \A c \in Range(hub) : cl[c].phase = "open"

\* Every client closeAll reached ends its pump.
ToldClientsClose == \A c \in Clients : c \in told ~> cl[c].phase = "closed"

\* manager.go, "Run blocks until ctx is cancelled, then sends CloseMessage to
\* every client".
EveryClientCloses == \A c \in Clients : shut = "closed" /\ cl[c].phase = "open" ~> cl[c].phase = "closed"
=============================================================================
