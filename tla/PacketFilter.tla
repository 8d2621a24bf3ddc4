---------------------------- MODULE PacketFilter ----------------------------
(***************************************************************************)
(* The per-source stages of the XDP program for IPv4 (stages 6 to 9 of     *)
(* process_packet: bloom filter, blocklist, SYN counter, token bucket, SYN *)
(* heuristic, cooling ban) together with the control plane's writers of    *)
(* the same BPF maps: BlockIPv4, UnblockIPv4, ResetRateBucket and the      *)
(* expiry sweepers.                                                        *)
(*                                                                         *)
(* The maps are shared memory without locks.  A CPU that works on an entry *)
(* first loads it and later stores what it computed: two steps, and other  *)
(* CPUs and the control plane run between them.  The compiled program      *)
(* loads a field once per stage, so a store writes a value derived from    *)
(* the loaded one.                                                         *)
(*                                                                         *)
(* There are two clocks.  The kernel reads seconds since boot              *)
(* (bpf_ktime_get_ns); the control plane reads Unix seconds, which are     *)
(* Epoch ahead.  One unit of time stands for a second of a ban and for     *)
(* the time in which a bucket gains 1 / RefillTime tokens.                 *)
(***************************************************************************)
EXTENDS Integers, FiniteSets

CONSTANTS
  Sources,       \* IPv4 addresses, as the kernel reads them from a packet
  ByteSwapped,   \* the address whose four bytes are those of s reversed
  Cpus,
  MaxTime,       \* bound: the clock stops there
  Epoch,         \* Unix time at boot
  CoolingBase,   \* COOLING_BASE_S
  MaxShift,      \* MAX_COOLING_SHIFT
  SynThreshold,  \* SYN_FLOOD_THRESHOLD
  PenaltyShift,  \* SYN_FLOOD_PENALTY_R
  SynCost,       \* tokens check_syn_flood takes
  RateCapacity,  \* config.rate_capacity
  RefillTime,    \* config.rate_refill_ns
  Blocks,        \* what callers pass to BlockIPv4: a set of <<action, ttl>>
  Operators,     \* whether the control plane unblocks and resets buckets
  Sweeps,        \* whether the sweepers run
  Evictions      \* whether the LRU maps evict entries

ASSUME FilterAssumption ==
  /\ ByteSwapped \in [Sources -> Sources]
  /\ \A s \in Sources : ByteSwapped[ByteSwapped[s]] = s
  /\ MaxTime \in Nat /\ CoolingBase \in Nat \ {0}
  /\ MaxShift \in Nat /\ SynThreshold \in Nat \ {0, 1} /\ PenaltyShift \in 1..MaxShift
  /\ SynCost \in Nat /\ RateCapacity \in Nat \ {0} /\ RefillTime \in Nat \ {0}
  /\ Epoch \in Nat /\ Epoch > MaxTime + CoolingBase * 2^MaxShift
  /\ Blocks \subseteq {"DROP", "REDIRECT"} \X Nat
  /\ {Operators, Sweeps, Evictions} \subseteq BOOLEAN

VARIABLES
  now,        \* kernel seconds since boot
  blocklist,  \* BLOCKLIST_V4
  bloom,      \* BLOOM_FILTER
  cooling,    \* COOLING_TRACKER
  syn,        \* SYN_COUNTER
  bucket,     \* RATE_LIMIT
  pc,         \* the stage of process_packet each CPU is in
  pkt,        \* the packet it is working on
  reg,        \* what it has loaded and computed
  doomed,     \* keys a sweep has collected and not yet deleted
  penalty,    \* history: until when the last SYN-flood ban of a source was to last
  spent       \* history: tokens taken since the bucket was inserted, and when that was

maps == <<blocklist, bloom, cooling, syn, bucket>>
history == <<penalty, spent>>
cpus == <<pc, pkt, reg>>
vars == <<now, maps, cpus, doomed, history>>

Smaller(a, b) == IF a < b THEN a ELSE b
Larger(a, b) == IF a > b THEN a ELSE b

Absent == -1
NoBlock == [action |-> "none", expire |-> 0, cooling |-> 0]
NoCooling == [count |-> Absent, last |-> 0]
NoSyn == [syns |-> Absent, acks |-> 0]
NoBucket == [tokens |-> Absent, last |-> 0]
NoPacket == [src |-> Absent, kind |-> "none"]
NoReg == [t |-> 0, val |-> 0, last |-> 0, min |-> 0]

wall == Epoch + now

Ban(r) == CoolingBase * 2^r

Stages == {"idle", "syn", "synStore", "rate", "rateStore", "flood", "floodStore",
           "cool", "coolStore", "block", "bloom", "rearm"}

TypeOK ==
  /\ now \in 0..MaxTime
  /\ \A s \in Sources :
       /\ blocklist[s].action \in {"none", "DROP", "REDIRECT"}
       /\ blocklist[s].cooling = 1 => blocklist[s].expire \in 0..(MaxTime + Ban(MaxShift))
       /\ cooling[s].count \in Absent..MaxShift /\ cooling[s].last \in 0..now
       /\ syn[s].syns \in Absent..SynThreshold /\ syn[s].acks \in {0, 1}
       /\ bucket[s].tokens \in Absent..RateCapacity /\ bucket[s].last \in 0..now
  /\ bloom \subseteq Sources /\ doomed \subseteq Sources
  /\ pc \in [Cpus -> Stages]
  /\ \A c \in Cpus : reg[c].t \in 0..now /\ reg[c].last \in 0..now

Init ==
  /\ now = 0
  /\ blocklist = [s \in Sources |-> NoBlock]
  /\ bloom = {}
  /\ cooling = [s \in Sources |-> NoCooling]
  /\ syn = [s \in Sources |-> NoSyn]
  /\ bucket = [s \in Sources |-> NoBucket]
  /\ pc = [c \in Cpus |-> "idle"]
  /\ pkt = [c \in Cpus |-> NoPacket]
  /\ reg = [c \in Cpus |-> NoReg]
  /\ doomed = {}
  /\ penalty = [s \in Sources |-> 0]
  /\ spent = [s \in Sources |-> [tokens |-> 0, since |-> 0]]

-----------------------------------------------------------------------------
(* process_packet                                                            *)

Step(c, stage, r) ==
  /\ pc' = [pc EXCEPT ![c] = stage]
  /\ reg' = [reg EXCEPT ![c] = r]
  /\ UNCHANGED pkt

Goto(c, stage) == Step(c, stage, NoReg)

Done(c) ==
  /\ pc' = [pc EXCEPT ![c] = "idle"]
  /\ pkt' = [pkt EXCEPT ![c] = NoPacket]
  /\ reg' = [reg EXCEPT ![c] = NoReg]

(* The blocklist has a verdict for s: an entry of one of the two actions the *)
(* kernel acts on, behind the bloom filter, not expired by the kernel clock. *)
check_blocklist_v4(s) ==
  /\ s \in bloom
  /\ blocklist[s].action # "none"
  /\ blocklist[s].expire = 0 \/ now < blocklist[s].expire

(* A packet with a blocklist verdict is dropped or redirected and leaves the *)
(* maps alone, ...                                                           *)
Refuse(c, s) ==
  /\ pc[c] = "idle"
  /\ check_blocklist_v4(s)
  /\ UNCHANGED vars

(* ... and the others go on.                                                 *)
Receive(c, s, kind) ==
  /\ pc[c] = "idle"
  /\ ~check_blocklist_v4(s)
  /\ pc' = [pc EXCEPT ![c] = IF kind = "other" THEN "rate" ELSE "syn"]
  /\ pkt' = [pkt EXCEPT ![c] = [src |-> s, kind |-> kind]]
  /\ UNCHANGED <<now, maps, reg, doomed, history>>

(* The three callers of apply_cooling_ban pass the time they read and the    *)
(* least repeat count; it is positive for the SYN counter alone.             *)
CallBan(c, t, min) ==
  Step(c, "cool", [t |-> t, val |-> 0, last |-> 0, min |-> min])

(* check_syn_counter, an ACK: a known source has its SYNs cleared.           *)
SynAck(c) ==
  LET s == pkt[c].src IN
  /\ pc[c] = "syn" /\ pkt[c].kind = "ack"
  /\ syn' = IF syn[s] = NoSyn THEN syn ELSE [syn EXCEPT ![s] = [syns |-> 0, acks |-> 1]]
  /\ Goto(c, "rate")
  /\ UNCHANGED <<now, blocklist, bloom, cooling, bucket, doomed, history>>

(* check_syn_counter, a SYN: the count is loaded, ...                        *)
SynLoad(c) ==
  /\ pc[c] = "syn" /\ pkt[c].kind = "syn"
  /\ Step(c, "synStore", [NoReg EXCEPT !.t = now, !.val = syn[pkt[c].src].syns])
  /\ UNCHANGED <<now, maps, doomed, history>>

(* ... and stored one higher.  Above the threshold nothing tells counts      *)
(* apart, so it is saturated there.  A flood is a full count with no ACK.    *)
SynStore(c) ==
  LET s == pkt[c].src
      n == Smaller(reg[c].val + 1, SynThreshold)
      fresh == reg[c].val = Absent
  IN
  /\ pc[c] = "synStore"
  /\ syn' = IF fresh THEN [syn EXCEPT ![s] = [syns |-> 1, acks |-> 0]]
            ELSE IF syn[s] = NoSyn THEN syn ELSE [syn EXCEPT ![s].syns = n]
  /\ IF ~fresh /\ n = SynThreshold /\ syn[s].acks = 0
     THEN CallBan(c, reg[c].t, PenaltyShift)
     ELSE Goto(c, "rate")
  /\ UNCHANGED <<now, blocklist, bloom, cooling, bucket, doomed, history>>

(* Mutant: last_refill is stamped only when the bucket is full. *)
Refilled_KeepsStamp(b) ==
  LET gain == (now - b.last) \div RefillTime
      tokens == Smaller(b.tokens + gain, RateCapacity)
  IN  [tokens |-> tokens, last |-> IF tokens = RateCapacity THEN now ELSE b.last]

(* A bucket after the refill for the time since last_refill. *)
Refilled(b) ==
  LET gain == (now - b.last) \div RefillTime IN
  IF gain > 0 THEN [tokens |-> Smaller(b.tokens + gain, RateCapacity), last |-> now] ELSE b

(* check_rate_limit: the bucket is loaded and refilled; a source without a   *)
(* token left is banned.                                                     *)
RateLoad(c) ==
  LET old == bucket[pkt[c].src]
      b == IF old = NoBucket THEN old ELSE Refilled(old)
  IN
  /\ pc[c] = "rate"
  /\ IF b.tokens = 0 THEN CallBan(c, now, 0)
     ELSE Step(c, "rateStore",
               [t |-> now, val |-> IF old = NoBucket THEN Absent ELSE b.tokens - 1,
                last |-> b.last, min |-> 0])
  /\ UNCHANGED <<now, maps, doomed, history>>

(* The store: a fresh bucket with one token taken, or the loaded one.  A     *)
(* bucket deleted since the load is no longer in the map and stays deleted.  *)
RateStore(c) ==
  LET s == pkt[c].src IN
  /\ pc[c] = "rateStore"
  /\ IF reg[c].val = Absent
     THEN /\ bucket' = [bucket EXCEPT ![s] = [tokens |-> RateCapacity - 1, last |-> reg[c].t]]
          /\ spent' = [spent EXCEPT ![s] = [tokens |-> 1, since |-> reg[c].t]]
     ELSE IF bucket[s] = NoBucket THEN UNCHANGED <<bucket, spent>>
     ELSE /\ bucket' = [bucket EXCEPT ![s] = [tokens |-> reg[c].val, last |-> reg[c].last]]
          /\ spent' = [spent EXCEPT ![s].tokens = @ + 1]
  /\ IF pkt[c].kind = "syn" THEN Goto(c, "flood") ELSE Done(c)
  /\ UNCHANGED <<now, blocklist, bloom, cooling, syn, doomed, penalty>>

(* check_syn_flood: a SYN costs SynCost further tokens; a source that cannot *)
(* pay is banned.                                                            *)
FloodLoad(c) ==
  LET b == bucket[pkt[c].src] IN
  /\ pc[c] = "flood"
  /\ \/ b = NoBucket /\ Done(c)
     \/ b # NoBucket /\ b.tokens < SynCost /\ CallBan(c, now, 0)
     \/ b # NoBucket /\ b.tokens >= SynCost
          /\ Step(c, "floodStore", [NoReg EXCEPT !.val = b.tokens - SynCost])
  /\ UNCHANGED <<now, maps, doomed, history>>

FloodStore(c) ==
  LET s == pkt[c].src IN
  /\ pc[c] = "floodStore"
  /\ IF bucket[s] = NoBucket THEN UNCHANGED <<bucket, spent>>
     ELSE /\ bucket' = [bucket EXCEPT ![s].tokens = reg[c].val]
          /\ spent' = [spent EXCEPT ![s].tokens = @ + SynCost]
  /\ Done(c)
  /\ UNCHANGED <<now, blocklist, bloom, cooling, syn, doomed, penalty>>

-----------------------------------------------------------------------------
(* apply_cooling_ban: load the repeat count, store the next one, insert the  *)
(* timed block, then open the bloom filter's gate.                           *)

(* Mutant: the least repeat count is applied to a fresh source only. *)
repeat_count_NoFloor(prev, min) ==
  IF prev = Absent THEN Smaller(min, MaxShift) ELSE Smaller(prev + 1, MaxShift)

repeat_count(prev, min) ==
  LET least == Smaller(min, MaxShift) IN
  IF prev = Absent THEN least ELSE Larger(Smaller(prev + 1, MaxShift), least)

CoolLoad(c) ==
  /\ pc[c] = "cool"
  /\ Step(c, "coolStore", [t |-> reg[c].t, val |-> cooling[pkt[c].src].count,
                           last |-> 0, min |-> reg[c].min])
  /\ UNCHANGED <<now, maps, doomed, history>>

CoolStore(c) ==
  LET s == pkt[c].src
      r == repeat_count(reg[c].val, reg[c].min)
  IN
  /\ pc[c] = "coolStore"
  /\ cooling' = IF reg[c].val # Absent /\ cooling[s] = NoCooling THEN cooling
                ELSE [cooling EXCEPT ![s] = [count |-> r, last |-> reg[c].t]]
  /\ Step(c, "block", [t |-> reg[c].t, val |-> r, last |-> 0, min |-> reg[c].min])
  /\ UNCHANGED <<now, blocklist, bloom, syn, bucket, doomed, history>>

BanBlock(c) ==
  LET s == pkt[c].src
      expire == reg[c].t + Ban(reg[c].val)
  IN
  /\ pc[c] = "block"
  /\ blocklist' = [blocklist EXCEPT ![s] = [action |-> "DROP", expire |-> expire, cooling |-> 1]]
  /\ penalty' = IF reg[c].min = 0 THEN penalty
                ELSE [penalty EXCEPT ![s] = reg[c].t + Ban(PenaltyShift)]
  /\ Step(c, "bloom", reg[c])
  /\ UNCHANGED <<now, bloom, cooling, syn, bucket, doomed, spent>>

(* Mutant: a known offender is taken to be behind the filter already. *)
BanBloom_FreshOnly(c) ==
  /\ pc[c] = "bloom"
  /\ bloom' = IF reg[c].val = 0 THEN bloom \cup {pkt[c].src} ELSE bloom
  /\ IF reg[c].min > 0 THEN Goto(c, "rearm") ELSE Done(c)
  /\ UNCHANGED <<now, blocklist, cooling, syn, bucket, doomed, history>>

BanBloom(c) ==
  /\ pc[c] = "bloom"
  /\ bloom' = bloom \cup {pkt[c].src}
  /\ IF reg[c].min > 0 THEN Goto(c, "rearm") ELSE Done(c)
  /\ UNCHANGED <<now, blocklist, cooling, syn, bucket, doomed, history>>

(* check_syn_counter resets the count once the ban is issued. *)
SynRearm(c) ==
  LET s == pkt[c].src IN
  /\ pc[c] = "rearm"
  /\ syn' = IF syn[s] = NoSyn THEN syn ELSE [syn EXCEPT ![s].syns = 0]
  /\ Done(c)
  /\ UNCHANGED <<now, blocklist, bloom, cooling, bucket, doomed, history>>

process_packet(c) ==
  \/ \E s \in Sources : Refuse(c, s) \/ \E kind \in {"syn", "ack", "other"} : Receive(c, s, kind)
  \/ SynAck(c) \/ SynLoad(c) \/ SynStore(c)
  \/ RateLoad(c) \/ RateStore(c)
  \/ FloodLoad(c) \/ FloodStore(c)
  \/ CoolLoad(c) \/ CoolStore(c) \/ BanBlock(c) \/ BanBloom(c) \/ SynRearm(c)

-----------------------------------------------------------------------------
(* The control plane                                                         *)

(* IPv4ToUint32 reads the address big-endian and the map key is marshalled   *)
(* in the host's little-endian order: the bytes the kernel sees are those of *)
(* the address reversed.                                                     *)
IPv4ToUint32(ip) == ByteSwapped[ip]

(* A relative TTL becomes a Unix time; 0 is permanent. *)
ExpireAt(ttl) == IF ttl > 0 THEN wall + ttl ELSE 0

BlockIPv4(ip, b) ==
  /\ blocklist' = [blocklist EXCEPT ![IPv4ToUint32(ip)] =
                     [action |-> b[1], expire |-> ExpireAt(b[2]), cooling |-> 0]]
  /\ UNCHANGED <<now, bloom, cooling, syn, bucket, cpus, doomed, history>>

UnblockIPv4(ip) ==
  /\ blocklist[IPv4ToUint32(ip)] # NoBlock
  /\ blocklist' = [blocklist EXCEPT ![IPv4ToUint32(ip)] = NoBlock]
  /\ UNCHANGED <<now, bloom, cooling, syn, bucket, cpus, doomed, history>>

ResetRateBucket(ip) ==
  /\ bucket[IPv4ToUint32(ip)] # NoBucket
  /\ bucket' = [bucket EXCEPT ![IPv4ToUint32(ip)] = NoBucket]
  /\ UNCHANGED <<now, blocklist, bloom, cooling, syn, cpus, doomed, history>>

(* sweepBlocklistV4, and sweepBlocklist of the amnesty sweeper: collect the  *)
(* keys whose expire_at has passed by the wall clock, then delete them.      *)
Collect ==
  /\ doomed = {}
  /\ doomed' = {s \in Sources : blocklist[s].expire # 0 /\ wall >= blocklist[s].expire}
  /\ UNCHANGED <<now, maps, cpus, history>>

DeleteKey(s) ==
  /\ s \in doomed
  /\ blocklist' = [blocklist EXCEPT ![s] = NoBlock]
  /\ doomed' = doomed \ {s}
  /\ UNCHANGED <<now, bloom, cooling, syn, bucket, cpus, history>>

(* The LRU maps make room by dropping an entry. *)
Evict(s) ==
  /\ \/ blocklist' = [blocklist EXCEPT ![s] = NoBlock] /\ UNCHANGED <<cooling, syn, bucket>>
     \/ cooling' = [cooling EXCEPT ![s] = NoCooling] /\ UNCHANGED <<blocklist, syn, bucket>>
     \/ syn' = [syn EXCEPT ![s] = NoSyn] /\ UNCHANGED <<blocklist, cooling, bucket>>
     \/ bucket' = [bucket EXCEPT ![s] = NoBucket] /\ UNCHANGED <<blocklist, cooling, syn>>
  /\ UNCHANGED <<now, bloom, cpus, doomed, history>>

Clock ==
  /\ now < MaxTime
  /\ now' = now + 1
  /\ UNCHANGED <<maps, cpus, doomed, history>>

Next ==
  \/ \E c \in Cpus : process_packet(c)
  \/ \E ip \in Sources, b \in Blocks : BlockIPv4(ip, b)
  \/ Operators /\ \E ip \in Sources : UnblockIPv4(ip) \/ ResetRateBucket(ip)
  \/ Sweeps /\ (Collect \/ \E s \in Sources : DeleteKey(s))
  \/ Evictions /\ \E s \in Sources : Evict(s)
  \/ Clock

Spec == Init /\ [][Next]_vars

-----------------------------------------------------------------------------
(* A source with a cooling ban in the blocklist is behind the bloom filter,  *)
(* so that its next packet is looked up, unless the CPU that issued the ban  *)
(* has yet to take that step.  maps.rs: the gate activates immediately.      *)
BanIsGated ==
  \A s \in Sources : blocklist[s].cooling = 1 =>
    s \in bloom \/ \E c \in Cpus : pc[c] = "bloom" /\ pkt[c].src = s

(* Tokens are conserved: what a source has left and what it has spent are    *)
(* together no more than the capacity and what the time since the bucket was *)
(* inserted has added, however the refills were cut up.  This bounds the     *)
(* packets a source gets through by the configured rate.                     *)
RateBounded ==
  \A s \in Sources : bucket[s] # NoBucket =>
    bucket[s].tokens + spent[s].tokens
      <= RateCapacity + (bucket[s].last - spent[s].since) \div RefillTime

(* A SYN-flood ban lasts: until it was to end, the source's cooling ban does *)
(* not end earlier than 2^SYN_FLOOD_PENALTY_R times the base.                *)
PenaltyHolds ==
  \A s \in Sources : blocklist[s].cooling = 1 /\ penalty[s] > now =>
    blocklist[s].expire >= penalty[s]

(* Every address in the blocklist is behind the bloom filter, the ones       *)
(* BlockIPv4 wrote included.                                                 *)
BlocksAreGated ==
  \A s \in Sources : blocklist[s] # NoBlock =>
    s \in bloom \/ \E c \in Cpus : pc[c] = "bloom" /\ pkt[c].src = s

(* A sweep deletes no ban the kernel still enforces. *)
SweepSparesBans ==
  [][\A s \in Sources : DeleteKey(s) => ~(blocklist[s].cooling = 1 /\ now < blocklist[s].expire)]_vars
=============================================================================
