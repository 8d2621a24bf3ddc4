---------------------------- MODULE Falxd_proofs ----------------------------
(***************************************************************************)
(* Proofs about falxd and the XDP program it attaches: Daemon, for every   *)
(* drain time longer than the work in flight and any number of signals;    *)
(* SubsysManager, for any registered subsystems in any order; and          *)
(* PacketFilter, for any number of CPUs and sources and any values of the  *)
(* thresholds and bounds.                                                  *)
(***************************************************************************)
EXTENDS PacketFilter, Daemon, SubsysManager, SequenceTheorems, TLAPS

-----------------------------------------------------------------------------
(* The daemon                                                                *)

(* No goroutine runs before the map manager is there, past the time any      *)
(* work takes, or once Run returns; the drain's clock starts in shutdown;    *)
(* the handles are closed by a deferred call only.                           *)
LifeInv ==
  /\ elapsed \in Nat
  /\ runPC \in {"initBPFMaps", "return", "exited"} => live = {}
  /\ elapsed > WorkMax => live = {}
  /\ runPC \notin {"drain", "return", "exited"} => elapsed = 0
  /\ bpfMgr = "closed" => runPC \in {"return", "exited"}

(* Every step of the startup, the run and the shutdown keeps it. *)
LEMMA LifeInvStep ==
  ASSUME WorkMax \in Nat, Drain \in Nat, Drain > WorkMax, LifeInv, [DaemonNext]_daemonVars
  PROVE  LifeInv'
<1>1. CASE initBPFMaps \/ initBPFMapsFails \/ initAFXDP \/ initFailsafe \/ initHoneypot \/ initMetrics
  BY <1>1 DEF LifeInv, RunStep, initBPFMaps, initBPFMapsFails, initAFXDP, initFailsafe, initHoneypot,
              initMetrics
<1>2. CASE Signal \/ \E c \in {"main", "run"} : CancelRoot(c)
  BY <1>2 DEF LifeInv, Signal, CancelRoot
<1>3. CASE \E s \in Subsystems : Leave(s)
  BY <1>3 DEF LifeInv, Leave
<1>4. CASE DrainTick
  BY <1>4 DEF LifeInv, DrainTick
<1>5. CASE waitForSignals
  BY <1>5 DEF LifeInv, waitForSignals, RunStep
<1>6. CASE shutdown
  BY <1>6 DEF LifeInv, shutdown, RunStep, DrainOver
<1>7. CASE RunDefer
  BY <1>7 DEF LifeInv, RunDefer
<1>8. CASE Exit
  BY <1>8 DEF LifeInv, Exit
<1>9. CASE UNCHANGED daemonVars
  BY <1>9 DEF LifeInv, daemonVars
<1> QED BY <1>1, <1>2, <1>3, <1>4, <1>5, <1>6, <1>7, <1>8, <1>9 DEF DaemonNext

(* When bpfMgr.Close closes the map handles no goroutine that uses them is   *)
(* left, if shutdown's drain is longer than any work in flight.              *)
THEOREM ClosedLast ==
  ASSUME WorkMax \in Nat, Drain \in Nat, Drain > WorkMax
  PROVE  DaemonSpec => []NoUseAfterClose
<1>1. DaemonInit => LifeInv
  BY DEF DaemonInit, LifeInv
<1>2. LifeInv => NoUseAfterClose
  BY DEF LifeInv, NoUseAfterClose
<1> QED BY <1>1, <1>2, LifeInvStep, PTL DEF DaemonSpec


-----------------------------------------------------------------------------
(* The subsystem manager                                                     *)

Elements(s) == {s[i] : i \in 1..Len(s)}

(* What one stop step takes from m.started is its last element.              *)
LEMMA RemoveLast ==
  ASSUME NEW S, NEW s \in Seq(S), s # <<>>
  PROVE  /\ RemoveAt(s, Len(s)) \in Seq(S)
         /\ Elements(s) \subseteq Elements(RemoveAt(s, Len(s))) \cup {s[Len(s)]}
<1> DEFINE n == Len(s)
           f == SubSeq(s, 1, n - 1)
<1>1. n \in Nat \ {0} /\ \A i \in 1..n : s[i] \in S
  BY EmptySeq, ElementOfSeq
<1>2. f \in Seq(S) /\ Len(f) = n - 1 /\ \A i \in 1..n - 1 : f[i] = s[i]
  <2>1. 1 \in Int /\ n - 1 \in Int /\ \A i \in 1..n - 1 : s[i] \in S
    BY <1>1
  <2> HIDE DEF n
  <2>2. /\ f \in Seq(S) /\ Len(f) = IF 1 <= n - 1 THEN n - 1 - 1 + 1 ELSE 0
        /\ \A i \in 1..n - 1 - 1 + 1 : f[i] = s[1 + i - 1]
    BY <2>1, SubSeqProperties
  <2> QED BY <2>2, <1>1
<1>3. SubSeq(s, n + 1, n) = <<>>
  BY <1>1, SubSeqEmpty
<1>4. RemoveAt(s, n) = f
  BY <1>2, <1>3, ConcatEmptySeq DEF RemoveAt
<1>5. Elements(s) \subseteq Elements(f) \cup {s[n]}
  <2> SUFFICES ASSUME NEW i \in 1..n, i # n PROVE s[i] \in Elements(f)
    BY DEF Elements
  <2> HIDE DEF f
  <2> QED BY <1>1, <1>2 DEF Elements
<1> QED BY <1>2, <1>4, <1>5

(* A context that is not cancelled is of a subsystem in m.started, so that   *)
(* the stop loop, which runs until m.started is empty and only then gives up *)
(* the mutex, reaches it.                                                    *)
StartInv ==
  /\ next \in Nat \ {0}
  /\ started \in Seq(Registered)
  /\ ctx \subseteq Elements(started)
  /\ result = "error" /\ mu # "start" => started = <<>>

(* Every step of StartAll, StopAll, HealthAll and a goroutine keeps it.      *)
LEMMA StartInvStep ==
  ASSUME Order \in Seq(Registered), StartInv, [SubsysNext]_subsysVars
  PROVE  StartInv'
<1>1. CASE StartOne
  <2>1. Order[next] \in Registered
    BY <1>1, ElementOfSeq DEF StartOne, StartInv
  <2>2. ctx' = ctx \cup {Order[next]} /\ started' = Append(started, Order[next]) /\ mu' = "start"
    BY <1>1 DEF StartOne
  <2>3. /\ started' \in Seq(Registered) /\ Len(started') = Len(started) + 1
        /\ Len(started) \in Nat /\ started'[Len(started) + 1] = Order[next]
        /\ \A i \in 1..Len(started) : started'[i] = started[i]
    BY <2>1, <2>2, AppendProperties, LenProperties DEF StartInv
  <2>4. ctx' \subseteq Elements(started')
    BY <2>2, <2>3 DEF StartInv, Elements
  <2> QED BY <1>1, <2>2, <2>3, <2>4 DEF StartInv, StartOne, Advance
<1>2. CASE StopOne
  <2> DEFINE s == started[Len(started)]
  <2>1. /\ ctx' = ctx \ {s} /\ started' = RemoveAt(started, Len(started)) /\ started # <<>>
        /\ UNCHANGED <<mu, next, result>>
    BY <1>2 DEF StopOne, Uncancelled, StopIndex
  <2>2. started' \in Seq(Registered) /\ Elements(started) \subseteq Elements(started') \cup {s}
    BY <2>1, RemoveLast DEF StartInv
  <2>3. ctx' \subseteq Elements(started')
    BY <2>1, <2>2 DEF StartInv
  <2>4. ~(result' = "error" /\ mu' # "start")
    BY <2>1 DEF StartInv
  <2> QED BY <2>1, <2>2, <2>3, <2>4 DEF StartInv
<1>3. CASE StopDone
  BY <1>3 DEF StopDone, StartInv, Elements
<1>4. CASE StartAll \/ StartFails \/ StartDone
  BY <1>4 DEF StartAll, StartFails, StartError, StartDone, StartInv, Elements
<1>5. CASE StopAll \/ HealthAll \/ HealthDone
  BY <1>5 DEF StopAll, HealthAll, HealthLock, HealthDone, StartInv, Elements
<1>6. CASE \/ \E s \in Registered : GoroutineEnds(s)
           \/ UNCHANGED subsysVars
  BY <1>6 DEF GoroutineEnds, subsysVars, StartInv, Elements
<1> QED BY <1>1, <1>2, <1>3, <1>4, <1>5, <1>6 DEF SubsysNext

(* However far StartAll came, once it has returned an error every context it *)
(* made is cancelled and nothing is left in m.started.                       *)
THEOREM FailedStartLeavesNothing ==
  ASSUME Order \in Seq(Registered)
  PROVE  SubsysSpec => []FailedStartCleans
<1>1. SubsysInit => StartInv
  BY EmptySeq DEF SubsysInit, StartInv, Elements
<1>2. StartInv => FailedStartCleans
  BY EmptySeq DEF StartInv, FailedStartCleans, Elements
<1> QED BY <1>1, <1>2, StartInvStep, PTL DEF SubsysSpec

-----------------------------------------------------------------------------
(* The packet filter: a ban takes both of its steps                          *)

(* The part of the state BanIsGated depends on, typed. *)
GateTypes ==
  /\ pc \in [Cpus -> Stages]
  /\ pkt \in [Cpus -> [src : Sources \cup {Absent}, kind : {"none", "syn", "ack", "other"}]]
  /\ blocklist = [s \in Sources |-> blocklist[s]]

(* A CPU past its blocklist lookup works on the packet of a source. *)
Working == \A c \in Cpus : pc[c] # "idle" => pkt[c].src \in Sources

GateInv == GateTypes /\ Working /\ BanIsGated

(* What a step of CPU c outside the two ban steps that matter does: the      *)
(* blocklist and the bloom filter stay, and no CPU enters or leaves the      *)
(* stage between the two.                                                    *)
Elsewhere(c) ==
  /\ UNCHANGED <<blocklist, bloom>>
  /\ pc[c] # "bloom"
  /\ \E stage \in Stages, p \in [src : Sources \cup {Absent}, kind : {"none", "syn", "ack", "other"}] :
       /\ stage = "idle" \/ p.src \in Sources
       /\ pc' = [pc EXCEPT ![c] = stage]
       /\ pkt' = [pkt EXCEPT ![c] = p]

(* A step of that kind preserves the invariant. *)
LEMMA ElsewhereKeeps ==
  ASSUME NEW c \in Cpus, GateInv, Elsewhere(c)
  PROVE  GateInv'
<1>1. PICK stage \in Stages, p \in [src : Sources \cup {Absent}, kind : {"none", "syn", "ack", "other"}] :
        /\ stage = "idle" \/ p.src \in Sources
        /\ pc' = [pc EXCEPT ![c] = stage]
        /\ pkt' = [pkt EXCEPT ![c] = p]
  BY DEF Elsewhere
<1>2. GateTypes'
  BY <1>1 DEF GateInv, GateTypes, Elsewhere
<1>3. Working'
  BY <1>1 DEF GateInv, GateTypes, Working
<1>4. BanIsGated'
  BY <1>1 DEF GateInv, GateTypes, BanIsGated, Elsewhere
<1> QED BY <1>2, <1>3, <1>4 DEF GateInv

(* All stages of process_packet but BanBlock and BanBloom are of that kind. *)
LEMMA StagesElsewhere ==
  ASSUME NEW c \in Cpus, GateInv,
         \/ \E s \in Sources, kind \in {"syn", "ack", "other"} : Receive(c, s, kind)
         \/ SynAck(c) \/ SynLoad(c) \/ SynStore(c) \/ RateLoad(c) \/ RateStore(c)
         \/ FloodLoad(c) \/ FloodStore(c) \/ CoolLoad(c) \/ CoolStore(c) \/ SynRearm(c)
  PROVE  Elsewhere(c)
<1> DEFINE Packets == [src : Sources \cup {Absent}, kind : {"none", "syn", "ack", "other"}]
<1>0. pkt[c] \in Packets /\ pkt = [pkt EXCEPT ![c] = pkt[c]] /\ NoPacket \in Packets
  BY DEF GateInv, GateTypes, NoPacket
<1>1. ASSUME NEW stage \in Stages, NEW r, Step(c, stage, r), pc[c] \notin {"idle", "bloom"},
             UNCHANGED <<blocklist, bloom>>
      PROVE  Elsewhere(c)
  BY <1>0, <1>1 DEF Elsewhere, Step, GateInv, Working
<1>2. ASSUME Done(c), pc[c] # "bloom", UNCHANGED <<blocklist, bloom>>
      PROVE  Elsewhere(c)
  BY <1>0, <1>2 DEF Elsewhere, Done, Stages
<1>3. ASSUME NEW s \in Sources, NEW kind \in {"syn", "ack", "other"}, Receive(c, s, kind)
      PROVE  Elsewhere(c)
  <2>1. [src |-> s, kind |-> kind] \in Packets /\ [src |-> s, kind |-> kind].src = s
    OBVIOUS
  <2> QED BY <1>3, <2>1 DEF Receive, Elsewhere, Stages, maps
<1>4. CASE SynAck(c)   BY <1>1, <1>4 DEF SynAck, Goto, Stages
<1>5. CASE SynLoad(c)  BY <1>1, <1>5 DEF SynLoad, Stages, maps
<1>6. CASE SynStore(c) BY <1>1, <1>6 DEF SynStore, CallBan, Goto, Stages
<1>7. CASE RateLoad(c) BY <1>1, <1>7 DEF RateLoad, CallBan, Stages, maps
<1>8. CASE RateStore(c) BY <1>1, <1>2, <1>8 DEF RateStore, Goto, Stages
<1>9. CASE FloodLoad(c) BY <1>1, <1>2, <1>9 DEF FloodLoad, CallBan, Stages, maps
<1>10. CASE FloodStore(c) BY <1>2, <1>10 DEF FloodStore
<1>11. CASE CoolLoad(c) BY <1>1, <1>11 DEF CoolLoad, Stages, maps
<1>12. CASE CoolStore(c) BY <1>1, <1>12 DEF CoolStore, Stages
<1>13. CASE SynRearm(c) BY <1>2, <1>13 DEF SynRearm
<1> QED BY <1>3, <1>4, <1>5, <1>6, <1>7, <1>8, <1>9, <1>10, <1>11, <1>12, <1>13

(* The steps of the control plane, of the LRU maps and of the clock leave    *)
(* the CPUs alone; what they write to the blocklist is no cooling ban, and   *)
(* the filter is never emptied.                                              *)
LEMMA OthersKeep ==
  ASSUME GateInv, UNCHANGED <<cpus, bloom>>,
         blocklist' = [s \in Sources |-> blocklist'[s]],
         \A s \in Sources : blocklist'[s] = blocklist[s] \/ blocklist'[s].cooling = 0
  PROVE  GateInv'
<1>1. GateTypes' BY DEF GateInv, GateTypes, cpus
<1>2. Working' BY DEF GateInv, Working, cpus
<1>3. BanIsGated' BY DEF GateInv, BanIsGated, cpus
<1> QED BY <1>1, <1>2, <1>3 DEF GateInv

(* Deleting an entry is such a write. *)
LEMMA DeleteKeeps ==
  ASSUME GateInv, UNCHANGED <<cpus, bloom>>, NEW s \in Sources,
         blocklist' = [blocklist EXCEPT ![s] = NoBlock]
  PROVE  GateInv'
BY OthersKeep DEF GateInv, GateTypes, NoBlock

(* The invariant is inductive. *)
LEMMA GateStep ==
  ASSUME GateInv, [Next]_vars
  PROVE  GateInv'
<1>1. ASSUME NEW c \in Cpus, process_packet(c) PROVE GateInv'
  <2>1. CASE \E s \in Sources : Refuse(c, s)
    BY <2>1 DEF Refuse, vars, maps, cpus, GateInv, GateTypes, Working, BanIsGated
  <2>2. CASE BanBlock(c)
    <3> DEFINE e == [action |-> "DROP", expire |-> reg[c].t + Ban(reg[c].val), cooling |-> 1]
    <3>1. pc[c] = "block" /\ pkt[c].src \in Sources
      BY <2>2 DEF BanBlock, GateInv, Working
    <3>2. /\ blocklist' = [blocklist EXCEPT ![pkt[c].src] = e]
          /\ pc' = [pc EXCEPT ![c] = "bloom"] /\ pkt' = pkt /\ bloom' = bloom
      BY <2>2 DEF BanBlock, Step
    <3>4. GateTypes'
      BY <3>1, <3>2 DEF GateInv, GateTypes, Stages
    <3>5. Working'
      BY <3>1, <3>2 DEF GateInv, GateTypes, Working
    <3>6. BanIsGated'
      BY <3>1, <3>2 DEF GateInv, GateTypes, BanIsGated
    <3> QED BY <3>4, <3>5, <3>6 DEF GateInv
  <2>3. CASE BanBloom(c)
    <3>1. pc[c] = "bloom" /\ bloom' = bloom \cup {pkt[c].src} /\ blocklist' = blocklist
      BY <2>3 DEF BanBloom
    <3>2. PICK stage \in Stages, p \in [src : Sources \cup {Absent}, kind : {"none", "syn", "ack", "other"}] :
            /\ stage = "idle" \/ p.src \in Sources
            /\ pc' = [pc EXCEPT ![c] = stage]
            /\ pkt' = [pkt EXCEPT ![c] = p]
      <4>1. CASE Goto(c, "rearm")
        <5>1. pkt[c] \in [src : Sources \cup {Absent}, kind : {"none", "syn", "ack", "other"}]
              /\ pkt' = [pkt EXCEPT ![c] = pkt[c]]
          BY <4>1 DEF GateInv, GateTypes, Goto, Step
        <5> QED BY <4>1, <5>1, <3>1 DEF GateInv, Working, Goto, Step, Stages
      <4>2. CASE Done(c)
        BY <4>2 DEF Done, Stages, NoPacket
      <4> QED BY <2>3, <4>1, <4>2 DEF BanBloom
    <3>3. GateTypes' BY <3>1, <3>2 DEF GateInv, GateTypes
    <3>4. Working' BY <3>2 DEF GateInv, GateTypes, Working
    <3>5. BanIsGated' BY <3>1, <3>2 DEF GateInv, GateTypes, BanIsGated
    <3> QED BY <3>3, <3>4, <3>5 DEF GateInv
  <2> QED BY <1>1, <2>1, <2>2, <2>3, StagesElsewhere, ElsewhereKeeps DEF process_packet
<1>2. ASSUME NEW ip \in Sources, NEW b \in Blocks, BlockIPv4(ip, b) PROVE GateInv'
  <2>1. ByteSwapped[ip] \in Sources
    BY FilterAssumption
  <2>2. blocklist' = [blocklist EXCEPT ![ByteSwapped[ip]] =
                        [action |-> b[1], expire |-> ExpireAt(b[2]), cooling |-> 0]]
    BY <1>2 DEF BlockIPv4, IPv4ToUint32
  <2>3. /\ blocklist' = [s \in Sources |-> blocklist'[s]]
        /\ \A s \in Sources : blocklist'[s] = blocklist[s] \/ blocklist'[s].cooling = 0
    BY <2>1, <2>2 DEF GateInv, GateTypes
  <2> QED BY <1>2, <2>3, OthersKeep DEF BlockIPv4
<1>3. ASSUME NEW ip \in Sources, UnblockIPv4(ip) PROVE GateInv'
  <2>1. ByteSwapped[ip] \in Sources
    BY FilterAssumption
  <2> QED BY <1>3, <2>1, DeleteKeeps DEF UnblockIPv4, IPv4ToUint32
<1>4. ASSUME UNCHANGED <<cpus, bloom, blocklist>> PROVE GateInv'
  BY <1>4, OthersKeep DEF GateInv, GateTypes
<1>5. ASSUME NEW ip \in Sources, ResetRateBucket(ip) PROVE GateInv'
  BY <1>4, <1>5 DEF ResetRateBucket
<1>6. ASSUME Collect \/ \E s \in Sources : DeleteKey(s) PROVE GateInv'
  <2>1. CASE Collect BY <1>4, <2>1 DEF Collect, maps
  <2>2. ASSUME NEW s \in Sources, DeleteKey(s) PROVE GateInv'
    BY <2>2, DeleteKeeps DEF DeleteKey
  <2> QED BY <1>6, <2>1, <2>2
<1>7. ASSUME NEW s \in Sources, Evict(s) PROVE GateInv'
  BY <1>4, <1>7, DeleteKeeps DEF Evict
<1>8. CASE Clock
  BY <1>4, <1>8 DEF Clock, maps
<1>9. CASE UNCHANGED vars
  BY <1>4, <1>9 DEF vars, maps
<1> QED BY <1>1, <1>2, <1>3, <1>5, <1>6, <1>7, <1>8, <1>9 DEF Next

(* Every cooling ban is behind the bloom filter as soon as the CPU that      *)
(* issued it has returned from apply_cooling_ban, whatever other CPUs, the   *)
(* operators, the sweepers and the LRU maps do in between.                   *)
THEOREM Gated == Spec => []BanIsGated
<1>1. Init => GateInv
  BY DEF Init, GateInv, GateTypes, Working, BanIsGated, Stages, NoPacket, NoBlock
<1>2. GateInv /\ [Next]_vars => GateInv'
  BY GateStep
<1>3. GateInv => BanIsGated
  BY DEF GateInv
<1> QED BY <1>1, <1>2, <1>3, PTL DEF Spec
=============================================================================
