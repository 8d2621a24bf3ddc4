----------------------- MODULE NotificationFeed_proofs ----------------------
(***************************************************************************)
(* Proofs about NotificationFeed, for any number of clients and events and *)
(* every size of the store and of the ring.                                *)
(***************************************************************************)
EXTENDS NotificationFeed, SequenceTheorems, TLAPS

-----------------------------------------------------------------------------
(* The hub's map                                                             *)

ClientFields == {"phase", "id", "seed", "send", "quit"}

(* What the map says of a client: an entry leads to the client that          *)
(* registered under that id and whose pumps run, so that two clients with    *)
(* the same id do not both hold the entry.                                   *)
HubExact ==
  /\ DOMAIN cl = Clients /\ cl = [c \in DOMAIN cl |-> cl[c]]
  /\ \A c \in Clients : DOMAIN cl[c] = ClientFields
  /\ \A i \in DOMAIN hub : hub[i] \in Clients /\ cl[hub[i]].phase = "open" /\ cl[hub[i]].id = i

(* A step that leaves the map and every client's phase and id alone. *)
LEMMA HubExactSame ==
  ASSUME HubExact, UNCHANGED hub, DOMAIN cl' = Clients, cl' = [c \in DOMAIN cl' |-> cl'[c]],
         \A c \in Clients : /\ DOMAIN cl'[c] = ClientFields
                            /\ cl[c].phase = "open" => cl'[c].phase = "open" /\ cl'[c].id = cl[c].id
  PROVE  HubExact'
BY DEF HubExact

(* Entries are overwritten and deleted by id; both keep the map exact. *)
LEMMA HubExactStep ==
  ASSUME HubExact, [FeedNext]_feedVars
  PROVE  HubExact'
<1> USE DEF HubExact, ClientFields
<1>1. ASSUME NEW c \in Clients, NEW r, DOMAIN r = ClientFields, SetClient(c, r), UNCHANGED hub,
             cl[c].phase = "open" => r.phase = "open" /\ r.id = cl[c].id
      PROVE  HubExact'
  <2>1. DOMAIN cl' = Clients /\ cl' = [d \in DOMAIN cl' |-> cl'[d]]
    BY <1>1, Zenon DEF SetClient
  <2>2. \A d \in Clients : cl'[d] = IF d = c THEN r ELSE cl[d]
    BY <1>1 DEF SetClient
  <2>3. \A d \in Clients : DOMAIN cl'[d] = ClientFields
    BY <1>1, <2>2
  <2> QED BY <1>1, <2>1, <2>2, <2>3, HubExactSame
<1>2. ASSUME NEW c \in Clients, SeedFrame(c) PROVE HubExact'
  <2> DEFINE r == [cl[c] EXCEPT !.seed = Tail(@),
                     !.send = IF Len(@) < SendCap THEN Append(@, <<"seed", Head(cl[c].seed)>>) ELSE @]
  <2>1. DOMAIN r = ClientFields /\ r.phase = cl[c].phase /\ r.id = cl[c].id
    OBVIOUS
  <2>2. SetClient(c, r) /\ UNCHANGED hub
    BY <1>2 DEF SeedFrame
  <2> QED BY <1>1, <2>1, <2>2, Zenon
<1>3. ASSUME NEW c \in Clients, WriteFrame(c) PROVE HubExact'
  <2> DEFINE r == [cl[c] EXCEPT !.send = Tail(@)]
  <2>1. DOMAIN r = ClientFields /\ r.phase = cl[c].phase /\ r.id = cl[c].id
    OBVIOUS
  <2>2. SetClient(c, r) /\ UNCHANGED hub
    BY <1>3 DEF WriteFrame
  <2> QED BY <1>1, <2>1, <2>2, Zenon
<1>4. ASSUME NEW c \in Clients, ReadPumpEnds(c) PROVE HubExact'
  <2> DEFINE r == [cl[c] EXCEPT !.quit = TRUE]
  <2>1. DOMAIN r = ClientFields /\ r.phase = cl[c].phase /\ r.id = cl[c].id
    OBVIOUS
  <2>2. SetClient(c, r) /\ UNCHANGED hub
    BY <1>4 DEF ReadPumpEnds
  <2> QED BY <1>1, <2>1, <2>2
<1>5. ASSUME NEW c \in Clients, NEW id \in Ids, HandleUpgrade(c, id) PROVE HubExact'
  <2> DEFINE r == [NoConnection EXCEPT !.phase = "seeding", !.id = id, !.seed = Snapshot(ring)]
  <2>1. DOMAIN r = ClientFields
    BY DEF NoConnection
  <2>2. SetClient(c, r) /\ UNCHANGED hub /\ cl[c].phase = "none"
    BY <1>5 DEF HandleUpgrade
  <2> QED BY <1>1, <2>1, <2>2, Zenon
<1>6. ASSUME NEW c \in Clients, Register(c) PROVE HubExact'
  <2> DEFINE r == [cl[c] EXCEPT !.phase = "open"]
  <2>1. DOMAIN r = ClientFields /\ r.phase = "open" /\ r.id = cl[c].id
    OBVIOUS
  <2>2. /\ cl' = [cl EXCEPT ![c] = r] /\ cl[c].phase = "seeding"
        /\ hub' = [i \in DOMAIN hub \union {cl[c].id} |-> IF i = cl[c].id THEN c ELSE hub[i]]
    BY <1>6 DEF Register, SetClient
  <2> HIDE DEF r
  <2>3. \A d \in Clients : cl'[d] = IF d = c THEN r ELSE cl[d]
    BY <2>2
  <2>0. DOMAIN cl' = Clients /\ cl' = [d \in DOMAIN cl' |-> cl'[d]]
    BY <2>2, Zenon
  <2>4. \A d \in Clients : DOMAIN cl'[d] = ClientFields
    BY <2>1, <2>3
  <2>5. \A i \in DOMAIN hub' : hub'[i] \in Clients /\ cl'[hub'[i]].phase = "open" /\ cl'[hub'[i]].id = i
    <3> TAKE i \in DOMAIN hub'
    <3>1. CASE i = cl[c].id
      BY <2>1, <2>2, <2>3, <3>1
    <3>2. CASE i # cl[c].id
      BY <2>2, <2>3, <3>2
    <3> QED BY <3>1, <3>2
  <2> QED BY <2>0, <2>4, <2>5
<1>7. ASSUME NEW c \in Clients, WritePumpEnds(c) PROVE HubExact'
  <2> DEFINE r == [cl[c] EXCEPT !.phase = "closed", !.quit = TRUE, !.send = <<>>, !.seed = <<>>]
  <2>1. DOMAIN r = ClientFields
    OBVIOUS
  <2>2. /\ cl' = [cl EXCEPT ![c] = r]
        /\ hub' = [i \in DOMAIN hub \ {cl[c].id} |-> hub[i]]
    BY <1>7 DEF WritePumpEnds, SetClient, Unregister
  <2> HIDE DEF r
  <2>3. \A d \in Clients : cl'[d] = IF d = c THEN r ELSE cl[d]
    BY <2>2
  <2>0. DOMAIN cl' = Clients /\ cl' = [d \in DOMAIN cl' |-> cl'[d]]
    BY <2>2, Zenon
  <2>4. \A d \in Clients : DOMAIN cl'[d] = ClientFields
    BY <2>1, <2>3
  <2>5. \A i \in DOMAIN hub' : hub'[i] \in Clients /\ cl'[hub'[i]].phase = "open" /\ cl'[hub'[i]].id = i
    BY <2>2, <2>3
  <2> QED BY <2>0, <2>4, <2>5
<1>8. CASE dispatch
  <2>1. UNCHANGED hub /\ DOMAIN cl' = Clients /\ cl' = [c \in DOMAIN cl' |-> cl'[c]]
    BY <1>8 DEF dispatch, Broadcast
  <2>2. ASSUME NEW c \in Clients
        PROVE  DOMAIN cl'[c] = ClientFields /\ cl'[c].phase = cl[c].phase /\ cl'[c].id = cl[c].id
    <3>1. cl'[c] \in {cl[c], [cl[c] EXCEPT !.send = Append(@, <<"live", Head(inbox)>>)]}
      BY <1>8 DEF dispatch, Broadcast
    <3> QED BY <3>1
  <2> QED BY <2>1, <2>2, HubExactSame
<1>9. CASE closeAll
  <2>1. UNCHANGED hub /\ DOMAIN cl' = Clients /\ cl' = [c \in DOMAIN cl' |-> cl'[c]]
    BY <1>9 DEF closeAll
  <2>2. ASSUME NEW c \in Clients
        PROVE  DOMAIN cl'[c] = ClientFields /\ cl'[c].phase = cl[c].phase /\ cl'[c].id = cl[c].id
    <3>1. cl'[c] \in {cl[c], [cl[c] EXCEPT !.quit = TRUE]}
      BY <1>9 DEF closeAll
    <3> QED BY <3>1
  <2> QED BY <2>1, <2>2, HubExactSame
<1>10. CASE \/ PublishAlert \/ MetricsTick \/ MetricsAdd \/ Cancel \/ (\E i \in 1..StoreLimit : MarkRead(i))
            \/ UNCHANGED feedVars
  <2>1. UNCHANGED <<hub, cl>>
    BY <1>10, Zenon DEF PublishAlert, MetricsTick, MetricsAdd, Cancel, MarkRead, feedVars
  <2> QED BY <2>1
<1> QED BY <1>2, <1>3, <1>4, <1>5, <1>6, <1>7, <1>8, <1>9, <1>10, Zenon DEF FeedNext

(* The hub's map never leads to a client whose pump has ended, for any       *)
(* number of clients and of seconds in which they connect: Register, and     *)
(* the deletion by id at the end of writePump, keep HubExact.                *)
THEOREM HubHoldsLiveClients == FeedSpec => []NoDeadClient
<1>1. FeedInit => HubExact
  BY DEF FeedInit, NoConnection, HubExact, ClientFields
<1>2. HubExact /\ [FeedNext]_feedVars => HubExact'
  BY HubExactStep
<1>3. HubExact => NoDeadClient
  BY DEF HubExact, NoDeadClient, Range
<1> QED BY <1>1, <1>2, <1>3, PTL DEF FeedSpec

-----------------------------------------------------------------------------
(* The store and the ring of recent frames                                   *)

(* The last k elements of a sequence, by position. *)
LEMMA LastOfPositions ==
  ASSUME NEW S, NEW s \in Seq(S), NEW k \in Nat
  PROVE  /\ LastOf(s, k) \in Seq(S)
         /\ Len(LastOf(s, k)) = IF Len(s) > k THEN k ELSE Len(s)
         /\ \A i \in 1..Len(LastOf(s, k)) : LastOf(s, k)[i] = s[Len(s) - Len(LastOf(s, k)) + i]
<1>1. CASE Len(s) > k
  <2>1. Len(s) - k + 1 \in 1..(Len(s) + 1) /\ Len(s) \in Nat
    BY <1>1
  <2>2. LastOf(s, k) = SubSeq(s, Len(s) - k + 1, Len(s))
    BY <1>1 DEF LastOf
  <2>3. LastOf(s, k) \in Seq(S) /\ Len(LastOf(s, k)) = k
    BY <1>1, <2>1, <2>2, SubSeqProperties
  <2>4. \A i \in 1..k : LastOf(s, k)[i] = s[Len(s) - k + i]
    BY <1>1, <2>1, <2>2, SubSeqProperties
  <2> QED BY <1>1, <2>3, <2>4
<1>2. CASE ~(Len(s) > k)
  <2>1. LastOf(s, k) = SubSeq(s, 1, Len(s)) /\ 1 \in 1..(Len(s) + 1) /\ Len(s) \in 0..Len(s)
    BY <1>2 DEF LastOf
  <2>2. LastOf(s, k) \in Seq(S) /\ Len(LastOf(s, k)) = Len(s)
    BY <2>1, SubSeqProperties
  <2>3. \A i \in 1..Len(s) : LastOf(s, k)[i] = s[i]
    BY <2>1, SubSeqProperties
  <2> QED BY <1>2, <2>2, <2>3
<1> QED BY <1>1, <1>2

Note == [ev : Nat, read : BOOLEAN]

(* The values on their way: events are numbers. *)
FeedTyped ==
  /\ n \in Nat /\ toAdd \in Nat /\ inbox \in Seq(Nat)
  /\ store \in Seq(Note) /\ alerts \in Seq(Nat) /\ added \in Seq(Nat)

(* The store by position: the alerts at the end of the history. *)
StoreExact ==
  /\ Len(store) = IF Len(alerts) > StoreLimit THEN StoreLimit ELSE Len(alerts)
  /\ \A i \in 1..Len(store) : store[i].ev = alerts[Len(alerts) - Len(store) + i]

(* The slot filled j Adds before the one at h is. *)
Back(h, j) == IF h >= j THEN h - j ELSE h - j + RingCap

(* The ring by slot: going back from head, the frames added last. *)
RingExact ==
  /\ ring = [buf |-> ring.buf, head |-> ring.head, size |-> ring.size]
  /\ ring.buf = [i \in 0..(RingCap - 1) |-> ring.buf[i]]
  /\ ring.head \in 0..(RingCap - 1)
  /\ ring.size = IF Len(added) > RingCap THEN RingCap ELSE Len(added)
  /\ \A j \in 1..ring.size : ring.buf[Back(ring.head, j)] = added[Len(added) - j + 1]

(* Appending a notification and trimming keeps the last alerts. *)
LEMMA StoreStep ==
  ASSUME FeedTyped, StoreExact, NEW ev \in Nat,
         store' = storeNotification(ev), alerts' = Append(alerts, ev)
  PROVE  store' \in Seq(Note) /\ alerts' \in Seq(Nat) /\ StoreExact'
<1> DEFINE r == [ev |-> ev, read |-> FALSE]
<1>0. StoreLimit \in Nat
  BY FeedAssumption
<1>1. r \in Note /\ r.ev = ev
  BY DEF Note
<1> HIDE DEF r
<1> DEFINE s == Append(store, r)
<1>2. /\ s \in Seq(Note) /\ Len(s) = Len(store) + 1 /\ s[Len(store) + 1] = r
      /\ \A i \in 1..Len(store) : s[i] = store[i]
  BY <1>1, AppendProperties DEF FeedTyped
<1>3. /\ alerts' \in Seq(Nat) /\ Len(alerts') = Len(alerts) + 1 /\ alerts'[Len(alerts) + 1] = ev
      /\ \A i \in 1..Len(alerts) : alerts'[i] = alerts[i]
  BY AppendProperties DEF FeedTyped
<1>4. store' = LastOf(s, StoreLimit)
  BY DEF storeNotification, Trimmed, r
<1> HIDE DEF s
<1>5. /\ store' \in Seq(Note) /\ Len(store') = IF Len(s) > StoreLimit THEN StoreLimit ELSE Len(s)
      /\ \A i \in 1..Len(store') : store'[i] = s[Len(s) - Len(store') + i]
  <2> DEFINE t == LastOf(s, StoreLimit)
  <2>1. /\ t \in Seq(Note) /\ Len(t) = IF Len(s) > StoreLimit THEN StoreLimit ELSE Len(s)
        /\ \A i \in 1..Len(t) : t[i] = s[Len(s) - Len(t) + i]
    BY <1>0, <1>2, LastOfPositions
  <2> QED BY <1>4, <2>1
<1>6. Len(store) \in Nat /\ Len(alerts) \in Nat /\ Len(store) <= Len(alerts)
  BY <1>0 DEF FeedTyped, StoreExact
<1>7. Len(store') = IF Len(alerts') > StoreLimit THEN StoreLimit ELSE Len(alerts')
  BY <1>0, <1>2, <1>3, <1>5, <1>6 DEF StoreExact
<1>8. ASSUME NEW i \in 1..Len(store')
      PROVE  store'[i].ev = alerts'[Len(alerts') - Len(store') + i]
  <2> DEFINE j == Len(s) - Len(store') + i
             m == Len(alerts') - Len(store') + i
  <2>1. store'[i] = s[j]
    BY <1>5
  <2>2. /\ j \in 1..(Len(store) + 1) /\ m = Len(alerts) - Len(store) + j
        /\ m \in 1..(Len(alerts) + 1)
    BY <1>0, <1>2, <1>3, <1>5, <1>6
  <2>3. CASE j = Len(store) + 1
    <3>1. m = Len(alerts) + 1
      BY <1>6, <2>2, <2>3
    <3> QED BY <1>1, <1>2, <1>3, <2>1, <2>3, <3>1
  <2>4. CASE j # Len(store) + 1
    <3> HIDE DEF j, m
    <3>1. j \in 1..Len(store) /\ m \in 1..Len(alerts)
      BY <1>6, <2>2, <2>4
    <3>2. store[j].ev = alerts[Len(alerts) - Len(store) + j]
      BY <3>1 DEF StoreExact
    <3>3. s[j] = store[j] /\ alerts'[m] = alerts[m]
      BY <1>2, <1>3, <3>1
    <3>4. store'[i].ev = alerts'[m]
      BY <2>1, <2>2, <3>2, <3>3
    <3> QED BY <3>4 DEF m
  <2> QED BY <2>3, <2>4, Zenon
<1> QED BY <1>3, <1>5, <1>7, <1>8, Zenon DEF StoreExact

(* Add overwrites the oldest frame only. *)
LEMMA RingStep ==
  ASSUME FeedTyped, RingExact, NEW f \in Nat,
         ring' = RingAdd(ring, f), added' = Append(added, f)
  PROVE  added' \in Seq(Nat) /\ RingExact'
<1> DEFINE k == Len(added)
           h == ring.head
<1>0. RingCap \in Nat \ {0} /\ k \in Nat /\ h \in 0..(RingCap - 1)
  BY FeedAssumption DEF FeedTyped, RingExact
<1>1. /\ added' \in Seq(Nat) /\ Len(added') = k + 1 /\ added'[k + 1] = f
      /\ \A i \in 1..k : added'[i] = added[i]
  BY AppendProperties DEF FeedTyped
<1>2. /\ ring' = [buf |-> ring'.buf, head |-> ring'.head, size |-> ring'.size]
      /\ ring'.buf = [ring.buf EXCEPT ![h] = f]
      /\ ring'.head = (h + 1) % RingCap
      /\ ring'.size = IF ring.size < RingCap THEN ring.size + 1 ELSE ring.size
  BY DEF RingAdd
<1>3. ring'.head = IF h + 1 = RingCap THEN 0 ELSE h + 1
  <2> HIDE DEF h
  <2>1. CASE h + 1 = RingCap
    BY <1>0, <1>2, <2>1
  <2>2. CASE h + 1 < RingCap
    <3>1. PICK x \in 0..(RingCap - 1) : x = h + 1
      BY <1>0, <2>2
    <3>2. x % RingCap = x
      BY <1>0
    <3> QED BY <1>2, <2>2, <3>1, <3>2
  <2> QED BY <1>0, <2>1, <2>2
<1>4. ring'.size = IF Len(added') > RingCap THEN RingCap ELSE Len(added')
  BY <1>0, <1>1, <1>2 DEF RingExact
<1>5. /\ ring'.buf = [i \in 0..(RingCap - 1) |-> ring'.buf[i]]
      /\ \A i \in 0..(RingCap - 1) : ring'.buf[i] = IF i = h THEN f ELSE ring.buf[i]
  BY <1>2, Zenon DEF RingExact
<1>6. ASSUME NEW j \in 1..ring'.size
      PROVE  ring'.buf[Back(ring'.head, j)] = added'[Len(added') - j + 1]
  <2>1. CASE j = 1
    <3>1. Back(ring'.head, j) = h
      BY <1>0, <1>3, <2>1 DEF Back
    <3> QED BY <1>0, <1>1, <1>5, <2>1, <3>1
  <2>2. CASE j # 1
    <3>1. j \in Int /\ j - 1 \in 1..ring.size /\ j <= RingCap /\ k - (j - 1) + 1 \in 1..k
          /\ Len(added') - j + 1 = k - (j - 1) + 1
      <4>1. ring.size \in Nat /\ ring.size <= k /\ ring.size <= RingCap
        BY <1>0 DEF RingExact
      <4>2. ring'.size \in Nat /\ ring'.size <= ring.size + 1 /\ ring'.size <= RingCap
        BY <1>0, <1>2, <4>1
      <4> HIDE DEF k
      <4> QED BY <1>0, <1>1, <2>2, <4>1, <4>2
    <3>2. /\ Back(ring'.head, j) = Back(h, j - 1)
          /\ Back(h, j - 1) \in 0..(RingCap - 1) /\ Back(h, j - 1) # h
      <4>1. PICK g : g = ring'.head
        OBVIOUS
      <4> HIDE DEF h
      <4>2. j - 1 >= 1
        BY <2>2, <3>1
      <4>3. CASE h + 1 = RingCap
        BY <1>0, <1>3, <3>1, <4>1, <4>2, <4>3 DEF Back
      <4>4. CASE h + 1 < RingCap
        BY <1>0, <1>3, <3>1, <4>1, <4>2, <4>4 DEF Back
      <4> QED BY <1>0, <4>3, <4>4
    <3>3. ring.buf[Back(h, j - 1)] = added[k - (j - 1) + 1]
      BY <3>1, Zenon DEF RingExact
    <3> QED BY <1>1, <1>5, <3>1, <3>2, <3>3
  <2> QED BY <2>1, <2>2, Zenon
<1>7. ring'.head \in 0..(RingCap - 1)
  BY <1>0, <1>3
<1> QED BY <1>1, <1>2, <1>4, <1>5, <1>6, <1>7, Zenon DEF RingExact

(* Positions and slots are what RecentKept says. *)
LEMMA ExactIsRecent ==
  ASSUME FeedTyped, StoreExact, RingExact
  PROVE  RecentKept
<1>0. StoreLimit \in Nat /\ RingCap \in Nat \ {0}
  BY FeedAssumption
<1>1. [i \in DOMAIN store |-> store[i].ev] = LastOf(alerts, StoreLimit)
  <2> DEFINE t == LastOf(alerts, StoreLimit)
  <2>1. /\ t \in Seq(Nat) /\ Len(t) = Len(store)
        /\ \A i \in 1..Len(t) : t[i] = alerts[Len(alerts) - Len(t) + i]
    BY <1>0, LastOfPositions, Zenon DEF FeedTyped, StoreExact
  <2>2. DOMAIN store = 1..Len(store)
    BY DEF FeedTyped
  <2> HIDE DEF t
  <2>3. t = [i \in 1..Len(store) |-> t[i]]
    BY <2>1
  <2>4. \A i \in 1..Len(store) : t[i] = store[i].ev
    BY <2>1 DEF StoreExact
  <2>5. [i \in DOMAIN store |-> store[i].ev] = t
    BY <2>2, <2>3, <2>4
  <2> QED BY <2>5 DEF t
<1>2. Snapshot(ring) = LastOf(added, RingCap)
  <2> DEFINE t == LastOf(added, RingCap)
             k == Len(added)
             z == ring.size
  <2>1. /\ t \in Seq(Nat) /\ Len(t) = z
        /\ \A i \in 1..Len(t) : t[i] = added[k - Len(t) + i]
    BY <1>0, LastOfPositions, Zenon DEF FeedTyped, RingExact
  <2>2. k \in Nat /\ z \in 0..RingCap /\ z <= k
    BY <1>0 DEF FeedTyped, RingExact
  <2> HIDE DEF t
  <2>3. t = [i \in 1..z |-> t[i]]
    BY <2>1
  <2>4. ASSUME NEW i \in 1..z
        PROVE  ring.buf[(SnapshotStart(ring) + (i - 1)) % RingCap] = t[i]
    <3> DEFINE h == ring.head
               q == z - i + 1
    <3>1. h \in 0..(RingCap - 1) /\ q \in 1..z /\ k - q + 1 = k - z + i
      BY <2>2 DEF RingExact
    <3>2. SnapshotStart(ring) = IF h >= z THEN h - z ELSE h - z + RingCap
      <4>1. z \in 0..RingCap
        BY <2>2
      <4> HIDE DEF z, h
      <4>2. ((h + RingCap) - z) % RingCap = IF h >= z THEN h - z ELSE h - z + RingCap
        <5>1. CASE h >= z
          BY <1>0, <3>1, <4>1, <5>1
        <5>2. CASE h < z
          BY <1>0, <3>1, <4>1, <5>2
        <5> QED BY <3>1, <4>1, <5>1, <5>2
      <4> QED BY <4>2 DEF SnapshotStart, z, h
    <3>3. (SnapshotStart(ring) + (i - 1)) % RingCap = Back(h, q)
      <4> HIDE DEF h, z
      <4>1. i \in 1..z /\ q = z - i + 1 /\ z \in 0..RingCap /\ h \in 0..(RingCap - 1)
        BY <2>2, <3>1
      <4>2. PICK x \in 0..(RingCap - 1) : x = SnapshotStart(ring)
        BY <1>0, <3>2, <4>1
      <4>3. CASE h >= z
        BY <1>0, <3>2, <4>1, <4>2, <4>3 DEF Back
      <4>4. CASE h < z
        BY <1>0, <3>2, <4>1, <4>2, <4>4 DEF Back
      <4> QED BY <4>1, <4>3, <4>4
    <3> HIDE DEF q
    <3>4. ring.buf[Back(h, q)] = added[k - q + 1]
      BY <3>1, Zenon DEF RingExact
    <3> QED BY <2>1, <3>1, <3>3, <3>4, Zenon
  <2>5. Snapshot(ring) = t
    BY <2>3, <2>4 DEF Snapshot
  <2> QED BY <2>5 DEF t
<1> QED BY <1>1, <1>2 DEF RecentKept

(* Each step of the feed keeps the store and the ring exact. *)
LEMMA RecentStep ==
  ASSUME FeedTyped, StoreExact, RingExact, [FeedNext]_feedVars
  PROVE  FeedTyped' /\ StoreExact' /\ RingExact'
<1>1. ASSUME Publish
      PROVE  n' \in Nat /\ n + 1 \in Nat /\ inbox' \in Seq(Nat)
  BY <1>1, AppendProperties DEF Publish, FeedTyped
<1>2. CASE PublishAlert
  BY <1>1, <1>2, Zenon DEF PublishAlert, FeedTyped, StoreExact, RingExact
<1>3. CASE MetricsTick
  BY <1>1, <1>3, Zenon DEF MetricsTick, FeedTyped, StoreExact, RingExact
<1>4. CASE MetricsAdd
  <2>1. ring' = RingAdd(ring, toAdd) /\ added' = Append(added, toAdd) /\ toAdd' = 0 /\ toAdd \in Nat
        /\ UNCHANGED <<n, inbox, store, alerts>>
    BY <1>4 DEF MetricsAdd, FeedTyped
  <2>2. added' \in Seq(Nat) /\ RingExact'
    BY <2>1, RingStep
  <2> QED BY <2>1, <2>2 DEF FeedTyped, StoreExact
<1>5. CASE dispatch
  <2>1. PICK ev : ev = Head(inbox)
    OBVIOUS
  <2>2. ev \in Nat /\ inbox' \in Seq(Nat)
    BY <1>5, <2>1, HeadTailProperties DEF dispatch, FeedTyped
  <2>3. UNCHANGED <<n, toAdd, ring, added>>
    BY <1>5 DEF dispatch
  <2>4. CASE ev \in metrics
    BY <1>5, <2>1, <2>2, <2>3, <2>4, Zenon DEF dispatch, IsStored, FeedTyped, StoreExact, RingExact
  <2>5. CASE ev \notin metrics
    <3>1. store' = storeNotification(ev) /\ alerts' = Append(alerts, ev)
      BY <1>5, <2>1, <2>5 DEF dispatch, IsStored
    <3>2. store' \in Seq(Note) /\ alerts' \in Seq(Nat) /\ StoreExact'
      BY <2>2, <3>1, StoreStep
    <3> QED BY <2>2, <2>3, <3>2, Zenon DEF FeedTyped, RingExact
  <2> QED BY <2>4, <2>5
<1>6. ASSUME NEW i \in 1..StoreLimit, MarkRead(i)
      PROVE  FeedTyped' /\ StoreExact' /\ RingExact'
  <2>1. /\ i \in DOMAIN store /\ store' = [store EXCEPT ![i].read = TRUE]
        /\ UNCHANGED <<n, inbox, ring, toAdd, alerts, added>>
    BY <1>6 DEF MarkRead
  <2>2. PICK r : r = [store[i] EXCEPT !.read = TRUE]
    BY Zenon
  <2>3. r \in Note /\ r.ev = store[i].ev
    <3>1. store[i] \in Note
      BY <2>1 DEF FeedTyped
    <3> QED BY <2>2, <3>1, Zenon DEF Note
  <2>4. store' = [store EXCEPT ![i] = r]
    BY <2>1, <2>2
  <2>5. /\ store' \in Seq(Note) /\ Len(store') = Len(store)
        /\ \A j \in 1..Len(store) : store'[j] = IF j = i THEN r ELSE store[j]
    <3>1. i \in 1..Len(store) /\ store \in Seq(Note)
      BY <2>1 DEF FeedTyped
    <3> QED BY <2>3, <2>4, <3>1, ExceptSeq
  <2>6. \A j \in 1..Len(store) : store'[j].ev = store[j].ev
    BY <2>3, <2>5
  <2>7. FeedTyped' /\ RingExact'
    BY <2>1, <2>5, Zenon DEF FeedTyped, RingExact
  <2>8. StoreExact'
    BY <2>1, <2>5, <2>6 DEF StoreExact
  <2> QED BY <2>7, <2>8
<1>7. CASE \/ Cancel \/ closeAll \/ UNCHANGED feedVars
           \/ \E c \in Clients : \/ SeedFrame(c) \/ Register(c) \/ WriteFrame(c) \/ WritePumpEnds(c)
                                 \/ ReadPumpEnds(c) \/ \E id \in Ids : HandleUpgrade(c, id)
  <2>1. UNCHANGED <<n, inbox, store, ring, toAdd, alerts, added>>
    BY <1>7, Zenon DEF Cancel, closeAll, SeedFrame, Register, WriteFrame, WritePumpEnds, ReadPumpEnds,
       HandleUpgrade, Feed, feedVars
  <2> QED BY <2>1, Zenon DEF FeedTyped, StoreExact, RingExact
<1> QED BY <1>2, <1>3, <1>4, <1>5, <1>6, <1>7 DEF FeedNext

(* The store holds the last StoreLimit alerts in the order of dispatch, and  *)
(* the snapshot that seeds a connection holds the last RingCap frames, oldest*)
(* first, for every limit and every ring size: the trim of storeNotification *)
(* and the wrap of metricsRingBuffer lose and reorder nothing.               *)
THEOREM RecentIsKept == FeedSpec => []RecentKept
<1>1. FeedInit => FeedTyped /\ StoreExact /\ RingExact
  <2> SUFFICES ASSUME FeedInit PROVE FeedTyped /\ StoreExact /\ RingExact
    OBVIOUS
  <2>1. StoreLimit \in Nat /\ RingCap \in Nat \ {0}
    BY FeedAssumption
  <2> QED BY <2>1, EmptySeq DEF FeedInit, FeedTyped, StoreExact, RingExact
<1>2. FeedTyped /\ StoreExact /\ RingExact /\ [FeedNext]_feedVars => FeedTyped' /\ StoreExact' /\ RingExact'
  BY RecentStep
<1>3. FeedTyped /\ StoreExact /\ RingExact => RecentKept
  BY ExactIsRecent
<1> QED BY <1>1, <1>2, <1>3, PTL DEF FeedSpec
=============================================================================
