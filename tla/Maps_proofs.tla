----------------------------- MODULE Maps_proofs ----------------------------
(***************************************************************************)
(* Proofs about the shared maps: MapPins, for any number of starts of the  *)
(* loader and of falxd, and MapOps, for any addresses, callers, rates and  *)
(* times.                                                                  *)
(***************************************************************************)
EXTENDS MapOps, MapPins, SequenceTheorems, TLAPS

-----------------------------------------------------------------------------
(* The pins                                                                  *)

(* The loader's walk through its maps: those before li are pinned, and stay  *)
(* so, since falxd pins only where nothing is pinned.                        *)
PinInv ==
  /\ lrun \in Nat /\ li \in Idx /\ di \in Idx
  /\ pin = [i \in Idx |-> pin[i]]
  /\ lpc \notin {"down", "attach"} => kern = lrun
  /\ lpc = "attach" => li = 1
  /\ lpc \in {"unpin", "pin"} => \A i \in Idx : i < li => pin[i] = LInst
  /\ LoaderPinned => \A i \in Idx : pin[i] = LInst

(* A map made by the loader or by falxd is a map. *)
LEMMA SomeMap ==
  ASSUME NEW r \in Nat PROVE Inst("loader", r) # NoMap /\ Inst("falxd", r) # NoMap
BY DEF Inst, NoMap

(* Replacing one pin replaces no other. *)
LEMMA OnePin ==
  ASSUME pin = [i \in Idx |-> pin[i]], NEW k \in Idx, NEW m, pin' = [pin EXCEPT ![k] = m]
  PROVE  /\ pin' = [i \in Idx |-> pin'[i]]
         /\ pin'[k] = m
         /\ \A i \in Idx : i # k => pin'[i] = pin[i]
OBVIOUS

(* Every step of the loader and of falxd keeps it. *)
LEMMA PinInvStep ==
  ASSUME PinInv, [PinsNext]_pinVars
  PROVE  PinInv'
<1> USE DEF lvars, dvars, svars, LInst, LoaderPinned, Idx
<1>0. Len(Names) = 2 /\ Inst("loader", lrun) # NoMap
  BY SomeMap DEF Names, PinInv
<1>1. CASE Load \/ Attach
  BY <1>1 DEF PinInv, Load, Attach
<1>2. CASE RemoveStale
  <2>1. pin' = [i \in Idx |-> pin'[i]] /\ \A i \in Idx : i # li => pin'[i] = pin[i]
    BY <1>2, OnePin, Zenon DEF PinInv, RemoveStale
  <2> QED BY <1>2, <2>1 DEF PinInv, RemoveStale
<1>3. CASE PinMap
  <2>1. /\ pin' = [i \in Idx |-> pin'[i]] /\ pin'[li] = LInst
        /\ \A i \in Idx : i # li => pin'[i] = pin[i]
    BY <1>3, OnePin, Zenon DEF PinInv, PinMap
  <2> QED BY <1>0, <1>3, <2>1 DEF PinInv, PinMap
<1>4. CASE LoadFails \/ LoaderExit
  BY <1>4 DEF PinInv, LoadFails, LoaderExit
<1>5. CASE InitConfig \/ InitFailsafe
  BY <1>5 DEF PinInv, InitConfig, InitFailsafe
<1>6. CASE FalxdStart
  BY <1>6 DEF PinInv, FalxdStart
<1>7. CASE OpenPinned
  BY <1>0, <1>7 DEF PinInv, OpenPinned, Opened
<1>8. CASE CreateMap \/ StartFails \/ FalxdExit
  BY <1>8 DEF PinInv, CreateMap, StartFails, FalxdExit
<1>9. CASE PinCreated
  <2>1. /\ pin' = [i \in Idx |-> pin'[i]] /\ pin[di] = NoMap
        /\ \A i \in Idx : i # di => pin'[i] = pin[i]
    BY <1>9, OnePin, Zenon DEF PinInv, PinCreated, CanPin
  <2>2. \A i \in Idx : pin[i] = LInst => pin'[i] = LInst
    BY <1>0, <2>1
  <2> QED BY <1>0, <1>9, <2>1, <2>2 DEF PinInv, PinCreated, Opened
<1>10. CASE \E i \in Idx : ReadDefault(i) \/ WriteDefault(i)
  BY <1>10 DEF PinInv, ReadDefault, WriteDefault
<1>11. CASE SocOpen \/ SocOpenFails \/ SocRetry
  BY <1>11 DEF PinInv, SocOpen, SocOpenFails, openExistingPinnedMap, SocRetry
<1>12. CASE UNCHANGED pinVars
  BY <1>12 DEF PinInv, pinVars
<1> QED BY <1>1, <1>2, <1>3, <1>4, <1>5, <1>6, <1>7, <1>8, <1>9, <1>10, <1>11, <1>12 DEF PinsNext

(* Once the loader has gone through its list, every pin names a map of the   *)
(* attached program, whatever falxd creates and pins in between and however  *)
(* often either is restarted.                                                *)
THEOREM PinnedMapsAreKernels == PinsSpec => []PinsAreKernels
<1>1. PinsInit => PinInv
  BY DEF PinsInit, PinInv, Idx, LoaderPinned
<1>2. PinInv => PinsAreKernels
  BY DEF PinInv, PinsAreKernels, LoaderPinned, LInst
<1> QED BY <1>1, <1>2, PinInvStep, PTL DEF PinsSpec

-----------------------------------------------------------------------------
(* The operations                                                            *)

Origins == {"none", "analyst", "engine", "soc"}

-----------------------------------------------------------------------------
(* The rate limiter                                                          *)

(* What is left in a bucket, with the grants since any one of them, is no  *)
(* more than the burst and what was refilled since that grant.             *)
BucketInv ==
  /\ now \in Nat
  /\ tokens \in [Kinds -> Nat] /\ lastRefill \in [Kinds -> Nat] /\ grants \in [Kinds -> Seq(Nat)]
  /\ \A k \in Kinds :
       /\ lastRefill[k] <= now
       /\ tokens[k] <= Rps * Second
       /\ \A i \in 1..Len(grants[k]) :
            /\ grants[k][i] <= lastRefill[k]
            /\ (Len(grants[k]) - i + 1) * Second + tokens[k]
                 <= Rps * Second + (lastRefill[k] - grants[k][i]) * Rps

(* What one call of Allow makes of a bucket whose clock has come to m: with  *)
(* t tokens after the refill it grants one or it does not.                   *)
LEMMA RefillBounds ==
  ASSUME BucketInv, NEW k \in Kinds
  PROVE  /\ Refilled(k) \in Nat /\ Refilled(k) <= Rps * Second
         /\ Refilled(k) <= tokens[k] + (now - lastRefill[k]) * Rps
<1>1. Rps * Second \in Nat
  BY MapAssumption
<1>2. (now - lastRefill[k]) * Rps \in Nat
  BY MapAssumption DEF BucketInv
<1> QED BY <1>1, <1>2 DEF BucketInv, Refilled

(* The bound of one grant over the next refill: the tokens that came since   *)
(* the last one are those of the time in between.                            *)
LEMMA RefillAdds ==
  ASSUME NEW r \in Nat, NEW s \in Nat, NEW n \in Nat, NEW g \in Nat, NEW l \in Nat, NEW m \in Nat,
         NEW t \in Nat, NEW u \in Nat, l <= m, g <= l,
         n * s + t <= r * s + (l - g) * r,
         u <= t + (m - l) * r
  PROVE  n * s + u <= r * s + (m - g) * r
<1>1. (l - g) * r + (m - l) * r = (m - g) * r
  OBVIOUS
<1>2. /\ n * s \in Int /\ r * s \in Int /\ (l - g) * r \in Int /\ (m - l) * r \in Int
      /\ (m - g) * r \in Int
  OBVIOUS
<1> QED BY <1>1, <1>2

(* Every step is a call, a step of an operation under way, of the sweep or   *)
(* of the clock.                                                             *)
LEMMA Moves ==
  ASSUME [Next]_vars
  PROVE  \/ \E c \in Callers, k \in Kinds, ips \in Seq(IPs), ttl \in Nat, by \in Origins \ {"none"} :
              Call(c, k, ips, ttl, by)
         \/ \E c \in Callers : Step(c)
         \/ Sweep \/ SweepDone \/ Abort
         \/ \E i \in IPs : Visit(i) \/ SweepDelete(i)
         \/ Clock \/ UNCHANGED vars
<1> DEFINE Calling ==
             /\ \E c \in Callers : job[c] = Idle
             /\ \/ \E i \in IPs, a \in Asks : /\ a[1] = "analyst" => i \in V4
                                            /\ Call(Idler, "block", <<i>>, a[2], a[1])
                \/ \E k \in Kinds : Call(Idler, k, <<>>, 0, "soc")
                \/ \E i \in IPs : Call(Idler, "unblock", <<i>>, 0, "soc")
                \/ \E i, j \in V4 : Call(Idler, "block", <<i, j>>, 1, "engine")
<1>0. /\ "block" \in Kinds /\ "unblock" \in Kinds /\ <<>> \in Seq(IPs)
      /\ {"analyst", "engine", "soc"} \subseteq Origins \ {"none"}
      /\ 0 \in Nat /\ 1 \in Nat /\ RelMax \in Nat
  BY EmptySeq, MapAssumption DEF Kinds, Origins
<1>1. CASE Calling
  <2>1. Idler \in Callers
    BY <1>1 DEF Idler
  <2>2. ASSUME NEW i \in IPs, NEW a \in Asks, Call(Idler, "block", <<i>>, a[2], a[1])
        PROVE  \E c \in Callers, k \in Kinds, ips \in Seq(IPs), ttl \in Nat, by \in Origins \ {"none"} :
                 Call(c, k, ips, ttl, by)
    <3>1. a[1] \in Origins \ {"none"} /\ a[2] \in Nat /\ <<i>> \in Seq(IPs)
      BY <1>0 DEF Asks
    <3> QED BY <1>0, <2>1, <2>2, <3>1, Zenon
  <2>3. ASSUME NEW k \in Kinds, Call(Idler, k, <<>>, 0, "soc")
        PROVE  \E c \in Callers, q \in Kinds, ips \in Seq(IPs), ttl \in Nat, by \in Origins \ {"none"} :
                 Call(c, q, ips, ttl, by)
    BY <1>0, <2>1, <2>3, Zenon
  <2>4. ASSUME NEW i \in IPs, Call(Idler, "unblock", <<i>>, 0, "soc")
        PROVE  \E c \in Callers, q \in Kinds, ips \in Seq(IPs), ttl \in Nat, by \in Origins \ {"none"} :
                 Call(c, q, ips, ttl, by)
    <3>1. <<i>> \in Seq(IPs)
      OBVIOUS
    <3> QED BY <1>0, <2>1, <2>4, <3>1, Zenon
  <2>5. ASSUME NEW i \in V4, NEW j \in V4, Call(Idler, "block", <<i, j>>, 1, "engine")
        PROVE  \E c \in Callers, q \in Kinds, ips \in Seq(IPs), ttl \in Nat, by \in Origins \ {"none"} :
                 Call(c, q, ips, ttl, by)
    <3>1. <<i, j>> \in Seq(IPs)
      BY DEF IPs
    <3> QED BY <1>0, <2>1, <2>5, <3>1, Zenon
  <2> QED BY <1>1, <2>2, <2>3, <2>4, <2>5, Zenon
<1>2. CASE ~Calling
  BY <1>2, Zenon DEF Next
<1> QED BY <1>1, <1>2

(* A call grants at most what the bucket holds, and time only refills it. *)
LEMMA BucketStep ==
  ASSUME BucketInv, [Next]_vars
  PROVE  BucketInv'
<1>0. Rps \in Nat /\ Second \in Nat /\ Rps * Second \in Nat
  BY MapAssumption
<1>1. ASSUME NEW c, NEW k \in Kinds, NEW ips, NEW ttl, NEW by, Call(c, k, ips, ttl, by)
      PROVE  BucketInv'
  <2>1. /\ now' = now /\ lastRefill' = [lastRefill EXCEPT ![k] = now]
        /\ \/ /\ Refilled(k) >= Second
              /\ tokens' = [tokens EXCEPT ![k] = Refilled(k) - Second]
              /\ grants' = [grants EXCEPT ![k] = Append(@, now)]
           \/ tokens' = [tokens EXCEPT ![k] = Refilled(k)] /\ grants' = grants
    BY <1>1 DEF Call, Allow
  <2>2. PICK u \in Nat : u = Refilled(k) /\ u <= Rps * Second /\ u <= tokens[k] + (now - lastRefill[k]) * Rps
    BY RefillBounds
  <2>3. PICK g \in Seq(Nat) : g = grants[k]
    BY DEF BucketInv
  <2>4. Len(g) \in Nat /\ now \in Nat /\ tokens[k] \in Nat /\ lastRefill[k] \in Nat /\ lastRefill[k] <= now
    BY <2>3 DEF BucketInv
  <2>5. ASSUME NEW i \in 1..Len(g)
        PROVE  /\ g[i] \in Nat /\ g[i] <= now
               /\ (Len(g) - i + 1) * Second + u <= Rps * Second + (now - g[i]) * Rps
    <3>0. Len(g) - i + 1 \in Nat
      BY <2>4
    <3>1. PICK n \in Nat : n = Len(g) - i + 1
      BY <3>0, Zenon
    <3>2. /\ g[i] \in Nat /\ g[i] <= lastRefill[k]
          /\ n * Second + tokens[k] <= Rps * Second + (lastRefill[k] - g[i]) * Rps
      BY <2>3, <3>1 DEF BucketInv
    <3>3. PICK m \in Nat : m = g[i]
      BY <3>2
    <3>4. PICK l \in Nat : l = lastRefill[k]
      BY <2>4
    <3>5. n * Second + u <= Rps * Second + (now - m) * Rps
      BY <1>0, <2>2, <2>4, <3>2, <3>3, <3>4, RefillAdds, Zenon
    <3> QED BY <2>4, <3>1, <3>2, <3>3, <3>5
  <2>6. CASE /\ Refilled(k) >= Second
             /\ tokens' = [tokens EXCEPT ![k] = Refilled(k) - Second]
             /\ grants' = [grants EXCEPT ![k] = Append(@, now)]
    <3>1. PICK h \in Seq(Nat) : h = Append(g, now)
      BY <2>4, AppendProperties, Zenon
    <3>2. /\ Len(h) = Len(g) + 1 /\ h[Len(g) + 1] = now /\ \A i \in 1..Len(g) : h[i] = g[i]
      BY <2>4, <3>1, AppendProperties
    <3>3. u >= Second /\ u - Second \in Nat
      BY <1>0, <2>2, <2>6
    <3>4. /\ grants' = [grants EXCEPT ![k] = h]
          /\ tokens' = [tokens EXCEPT ![k] = u - Second]
      BY <2>2, <2>3, <2>6, <3>1
    <3>5. ASSUME NEW i \in 1..Len(h)
          PROVE  h[i] <= now /\ (Len(h) - i + 1) * Second + (u - Second) <= Rps * Second + (now - h[i]) * Rps
      <4>1. CASE i = Len(g) + 1
        <5>1. (now - h[i]) * Rps = 0 /\ (Len(h) - i + 1) * Second = Second /\ h[i] = now
          BY <1>0, <2>4, <3>2, <4>1
        <5> QED BY <1>0, <2>2, <2>4, <3>3, <5>1
      <4>2. CASE i # Len(g) + 1
        <5>1. i \in 1..Len(g) /\ h[i] = g[i]
          BY <2>4, <3>2, <4>2
        <5>a. Len(g) - i + 1 \in Nat
          BY <2>4, <5>1
        <5>2. PICK n \in Nat : n = Len(g) - i + 1
          BY <5>a, Zenon
        <5>3. Len(h) - i + 1 = n + 1
          BY <2>4, <3>2, <5>1, <5>2
        <5>4. (n + 1) * Second = n * Second + Second /\ n * Second \in Nat
          BY <1>0
        <5>5. g[i] \in Nat /\ g[i] <= now /\ n * Second + u <= Rps * Second + (now - g[i]) * Rps
          BY <2>5, <5>1, <5>2
        <5>6. (now - g[i]) * Rps \in Nat
          <6>0. g[i] \in Nat /\ g[i] <= now
            BY <5>5
          <6>1. now - g[i] \in Nat
            BY <2>4, <6>0
          <6>2. PICK x \in Nat : x = now - g[i]
            BY <6>1, Zenon
          <6>3. x * Rps \in Nat
            BY <1>0
          <6> QED BY <6>2, <6>3
        <5>7. (n + 1) * Second + (u - Second) <= Rps * Second + (now - g[i]) * Rps
          BY <1>0, <5>4, <5>5, <5>6
        <5> QED BY <5>1, <5>3, <5>5, <5>7, Zenon
      <4> QED BY <4>1, <4>2
    <3>6. u - Second <= Rps * Second
      BY <1>0, <2>2
    <3> QED BY <2>1, <2>4, <3>3, <3>4, <3>5, <3>6 DEF BucketInv
  <2>7. CASE tokens' = [tokens EXCEPT ![k] = Refilled(k)] /\ grants' = grants
    <3>1. tokens' = [tokens EXCEPT ![k] = u]
      BY <2>2, <2>7
    <3>2. grants'[k] = g /\ tokens'[k] = u /\ lastRefill'[k] = now
      BY <2>1, <2>3, <2>7, <3>1 DEF BucketInv
    <3>3. /\ tokens' \in [Kinds -> Nat] /\ lastRefill' \in [Kinds -> Nat]
          /\ \A q \in Kinds : q # k => tokens'[q] = tokens[q] /\ lastRefill'[q] = lastRefill[q]
      BY <2>1, <2>4, <3>1 DEF BucketInv
    <3> QED BY <2>1, <2>2, <2>4, <2>5, <2>7, <3>2, <3>3 DEF BucketInv
  <2> QED BY <2>1, <2>6, <2>7
<1>2. CASE Clock
  BY <1>2 DEF BucketInv, Clock, limiter
<1>3. CASE UNCHANGED <<now, limiter>>
  BY <1>3 DEF BucketInv, limiter
<1>4. CASE \E c \in Callers : Step(c)
  BY <1>3, <1>4, Zenon DEF Step, BlockWrite, UnblockWrite, WriteFails, Log
<1>5. CASE Sweep \/ SweepDone \/ Abort \/ (\E i \in IPs : Visit(i) \/ SweepDelete(i)) \/ UNCHANGED vars
  BY <1>3, <1>5, Zenon DEF Sweep, SweepDone, Abort, Visit, SweepDelete, vars
<1> QED BY <1>1, <1>2, <1>4, <1>5, Moves

(* The pairs a new grant makes are bounded by what the bucket holds after it.*)
LEMMA RateStep ==
  ASSUME BucketInv, BucketInv', RateBound, [Next]_vars
  PROVE  RateBound'
<1>0. Rps \in Nat /\ Second \in Nat /\ Rps * Second \in Nat
  BY MapAssumption
<1>1. ASSUME NEW c, NEW k \in Kinds, NEW ips, NEW ttl, NEW by, Call(c, k, ips, ttl, by)
      PROVE  RateBound'
  <2>1. CASE grants' = grants
    BY <2>1 DEF RateBound
  <2>2. CASE grants' = [grants EXCEPT ![k] = Append(@, now)]
    <3>1. PICK g \in Seq(Nat) : g = grants[k]
      BY DEF BucketInv
    <3>2. PICK h \in Seq(Nat) : h = grants'[k]
      BY DEF BucketInv
    <3>3. /\ Len(h) = Len(g) + 1 /\ h[Len(g) + 1] = now /\ \A i \in 1..Len(g) : h[i] = g[i]
          /\ Len(g) \in Nat /\ now \in Nat /\ \A i \in 1..Len(h) : h[i] \in Nat
      <4>1. h = Append(g, now) /\ now \in Nat
        BY <2>2, <3>1, <3>2 DEF BucketInv
      <4> QED BY <4>1, AppendProperties
    <3>4. lastRefill'[k] = now
      BY <1>1 DEF Call, BucketInv
    <3>5. ASSUME NEW i \in 1..Len(h), NEW j \in 1..Len(h), i <= j
          PROVE  (j - i + 1) * Second <= Rps * Second + (h[j] - h[i]) * Rps
      <4>1. CASE j = Len(h)
        <5>1. h[j] = lastRefill'[k]
          BY <3>3, <3>4, <4>1
        <5>2. /\ tokens'[k] \in Nat
              /\ (Len(h) - i + 1) * Second + tokens'[k] <= Rps * Second + (lastRefill'[k] - h[i]) * Rps
          BY <3>2 DEF BucketInv
        <5>3. (Len(h) - i + 1) * Second \in Int /\ (lastRefill'[k] - h[i]) * Rps \in Int
          BY <1>0, <3>3, <3>4
        <5>4. (Len(h) - i + 1) * Second <= Rps * Second + (lastRefill'[k] - h[i]) * Rps
          BY <1>0, <5>2, <5>3
        <5> QED BY <4>1, <5>1, <5>4
      <4>2. CASE j # Len(h)
        <5>1. i \in 1..Len(g) /\ j \in 1..Len(g) /\ h[i] = g[i] /\ h[j] = g[j]
          BY <3>3, <3>5, <4>2
        <5>2. i \in DOMAIN grants[k] /\ j \in DOMAIN grants[k]
          BY <3>1, <5>1
        <5>3. (j - i + 1) * Second <= Rps * Second + (grants[k][j] - grants[k][i]) * Rps
          BY <3>5, <5>2, Zenon DEF RateBound
        <5> QED BY <3>1, <5>1, <5>3
      <4> QED BY <4>1, <4>2
    <3>6. \A q \in Kinds : q # k => grants'[q] = grants[q]
      BY <2>2 DEF BucketInv
    <3>7. DOMAIN h = 1..Len(h)
      OBVIOUS
    <3> SUFFICES ASSUME NEW q \in Kinds, NEW i \in DOMAIN grants'[q], NEW j \in DOMAIN grants'[q], i <= j
                 PROVE  (j - i + 1) * Second <= Rps * Second + (grants'[q][j] - grants'[q][i]) * Rps
      BY DEF RateBound
    <3> QED BY <3>2, <3>5, <3>6, <3>7, Zenon DEF RateBound
  <2> QED BY <1>1, <2>1, <2>2 DEF Call
<1>2. CASE grants' = grants
  BY <1>2 DEF RateBound
<1>3. CASE \E c \in Callers : Step(c)
  BY <1>2, <1>3, Zenon DEF Step, BlockWrite, UnblockWrite, WriteFails, Log, limiter
<1>4. CASE \/ Sweep \/ SweepDone \/ Abort \/ (\E i \in IPs : Visit(i) \/ SweepDelete(i))
           \/ Clock \/ UNCHANGED vars
  BY <1>2, <1>4, Zenon DEF Sweep, SweepDone, Abort, Visit, SweepDelete, Clock, vars, limiter
<1> QED BY <1>1, <1>3, <1>4, Moves

(* Over any stretch of time a kind of operation is granted at most its burst *)
(* and what the stretch refills, for every rate and length of a second, any  *)
(* number of callers and refusals (tokenBucket.Allow).                       *)
THEOREM RateIsBounded == Spec => []RateBound
<1>1. Init => BucketInv
  <2>1. Rps * Second \in Nat /\ RelMax \in Nat /\ <<>> \in Seq(Nat)
    BY MapAssumption, EmptySeq
  <2> QED BY <2>1 DEF Init, BucketInv
<1>2. Init => RateBound
  BY DEF Init, RateBound
<1>3. BucketInv /\ RateBound /\ [Next]_vars => (BucketInv /\ RateBound)'
  BY BucketStep, RateStep
<1> QED BY <1>1, <1>2, <1>3, PTL DEF Spec

-----------------------------------------------------------------------------
(* The state of an operation, of the sweep and of the tables                 *)

JobRec == [step : {"idle", "write", "log"}, kind : {"none", "block", "unblock"}, todo : Seq(IPs),
           ttl : Nat, by : Origins, ok : BOOLEAN, exp : Nat]

(* A job under way has an address left, a kind and someone who asked; an     *)
(* analyst asks for a day at most.                                           *)
JobOK(j) ==
  /\ j \in JobRec
  /\ j.step # "idle" => j.todo # <<>> /\ j.by # "none" /\ j.kind # "none"
  /\ j.by = "analyst" => j.ttl \in 1..Day

JobsOK == job = [c \in Callers |-> job[c]] /\ \A c \in Callers : JobOK(job[c])

SweepRec == [step : {"idle", "v4", "v6"}, now : Nat, left : SUBSET IPs, doomed : SUBSET IPs]

(* The sweep reads the clock once, at its start. *)
ClockOK == now \in Nat /\ sweep \in SweepRec /\ sweep.now <= now

(* The jobs a call begins with. *)
LEMMA JobBegins ==
  /\ JobOK(Idle) /\ Idle.step = "idle"
  /\ \A k \in Kinds, ips \in Seq(IPs), ttl \in Nat, by \in Origins \ {"none"} :
       JobOK(Job(k, ips, ttl, by)) /\ Job(k, ips, ttl, by).step # "log"
<1>1. JobOK(Idle) /\ Idle.step = "idle"
  BY EmptySeq DEF JobOK, JobRec, Idle, Origins
<1>2. ASSUME NEW k \in Kinds, NEW ips \in Seq(IPs), NEW ttl \in Nat, NEW by \in Origins \ {"none"}
      PROVE  JobOK(Job(k, ips, ttl, by)) /\ Job(k, ips, ttl, by).step # "log"
  <2>1. CASE ips = <<>>
    BY <1>1, <2>1 DEF Job
  <2>2. CASE ips # <<>>
    <3>1. Clamp(by, ttl) \in Nat /\ (by = "analyst" => Clamp(by, ttl) \in 1..Day)
      BY MapAssumption DEF Clamp
    <3>2. Job(k, ips, ttl, by) = [step |-> "write", kind |-> k, todo |-> ips, ttl |-> Clamp(by, ttl),
                                  by |-> by, ok |-> FALSE, exp |-> 0]
      BY <2>2, Zenon DEF Job, Idle
    <3> HIDE DEF Clamp
    <3> QED BY <2>2, <3>1, <3>2 DEF JobOK, JobRec, Kinds
  <2> QED BY <2>1, <2>2
<1> QED BY <1>1, <1>2

Done(j, ok, exp) == [j EXCEPT !.step = "log", !.ok = ok, !.exp = exp]

(* A job whose write is done has its outcome, and what it had before. *)
LEMMA JobWritten ==
  ASSUME NEW j, NEW ok \in BOOLEAN, NEW exp \in Nat, JobOK(j), j.step # "idle"
  PROVE  /\ JobOK(Done(j, ok, exp)) /\ Done(j, ok, exp).step = "log" /\ Done(j, ok, exp).ok = ok
         /\ Done(j, ok, exp).exp = exp /\ Done(j, ok, exp).kind = j.kind /\ Done(j, ok, exp).todo = j.todo
<1> DEFINE n == Done(j, ok, exp)
<1>1. /\ n \in JobRec /\ n.step = "log" /\ n.ok = ok /\ n.exp = exp
      /\ n.kind = j.kind /\ n.todo = j.todo /\ n.ttl = j.ttl /\ n.by = j.by
  BY Zenon DEF JobOK, JobRec, Done
<1> QED BY <1>1 DEF JobOK

(* A batch goes on with its next address. *)
LEMMA JobGoesOn ==
  ASSUME NEW j, JobOK(j), j.step # "idle", Len(j.todo) # 1,
         NEW n, n = [j EXCEPT !.step = "write", !.todo = Tail(@)]
  PROVE  JobOK(n) /\ n.step = "write"
<1>1. j.todo \in Seq(IPs) /\ j.todo # <<>>
  BY DEF JobOK, JobRec
<1>2. PICK t \in Seq(IPs) : t = Tail(j.todo) /\ Len(t) = Len(j.todo) - 1
  BY <1>1, HeadTailProperties, Zenon
<1>3. t # <<>>
  <2>1. Len(j.todo) \in Nat /\ Len(<<>>) = 0
    BY <1>1, EmptySeq, LenProperties
  <2>2. Len(t) # 0
    BY <1>2, <2>1
  <2> QED BY <2>1, <2>2
<1>4. /\ n \in JobRec /\ n.step = "write" /\ n.todo = t
      /\ n.by = j.by /\ n.kind = j.kind /\ n.ttl = j.ttl
  BY <1>2, Zenon DEF JobOK, JobRec
<1> QED BY <1>3, <1>4 DEF JobOK

(* What an operation under way works on. *)
LEMMA AtWork ==
  ASSUME JobsOK, ClockOK, NEW c \in Callers, job[c].step # "idle"
  PROVE  /\ Ip(c) \in IPs /\ job[c].ttl \in Nat /\ Absolute(job[c].ttl) \in Nat
         /\ job[c].by \in Origins \ {"none"} /\ job[c].kind \in Kinds /\ job[c].ok \in BOOLEAN
         /\ job[c].exp \in Nat
<1>1. JobOK(job[c])
  BY DEF JobsOK
<1>2. job[c].todo \in Seq(IPs) /\ job[c].todo # <<>>
  BY <1>1 DEF JobOK, JobRec
<1>3. Ip(c) \in IPs
  BY <1>2, HeadTailProperties DEF Ip
<1>4. /\ job[c].ttl \in Nat /\ job[c].by \in Origins \ {"none"} /\ job[c].kind \in Kinds
      /\ job[c].ok \in BOOLEAN /\ job[c].exp \in Nat
  BY <1>1 DEF JobOK, JobRec, Kinds
<1>5. Absolute(job[c].ttl) \in Nat
  BY <1>4, MapAssumption DEF Absolute, ClockOK
<1> QED BY <1>3, <1>4, <1>5

(* Replacing one job replaces no other. *)
LEMMA OneJob ==
  ASSUME JobsOK, NEW c \in Callers, NEW j, SetJob(c, j)
  PROVE  /\ job' = [d \in Callers |-> job'[d]] /\ job'[c] = j
         /\ \A d \in Callers : d # c => job'[d] = job[d]
BY Zenon DEF JobsOK, SetJob

(* Every step keeps the jobs in shape. *)
LEMMA JobsStep ==
  ASSUME JobsOK, ClockOK, [Next]_vars
  PROVE  JobsOK'
<1>0. CASE UNCHANGED job
  BY <1>0 DEF JobsOK
<1>1. ASSUME NEW c \in Callers, NEW j, SetJob(c, j), JobOK(j)
      PROVE  JobsOK'
  BY <1>1, OneJob, Zenon DEF JobsOK
<1>2. ASSUME NEW c \in Callers, NEW k \in Kinds, NEW ips \in Seq(IPs), NEW ttl \in Nat,
             NEW by \in Origins \ {"none"}, Call(c, k, ips, ttl, by)
      PROVE  JobsOK'
  BY <1>0, <1>1, <1>2, JobBegins, Zenon DEF Call
<1>3. ASSUME NEW c \in Callers, NEW ok \in BOOLEAN, NEW exp \in Nat, job[c].step = "write", Wrote(c, ok, exp)
      PROVE  JobsOK'
  <2>1. JobOK(job[c]) /\ job[c].step # "idle"
    BY <1>3 DEF JobsOK
  <2>2. JobOK(Done(job[c], ok, exp))
    BY <2>1, JobWritten, Zenon
  <2> QED BY <1>1, <1>3, <2>2, Zenon DEF Wrote, Done
<1>4. ASSUME NEW c \in Callers, Step(c)
      PROVE  JobsOK'
  <2>0. job[c].step # "idle"
    BY <1>4, Zenon DEF Step, BlockWrite, UnblockWrite, WriteFails, Log
  <2>1. CASE BlockWrite(c) \/ WriteFails(c)
    BY <1>3, <2>0, <2>1, AtWork, Zenon DEF BlockWrite, WriteFails
  <2>2. CASE UnblockWrite(c)
    <3>1. (bl[Ip(c)] # None) \in BOOLEAN /\ 0 \in Nat
      OBVIOUS
    <3>2. job[c].step = "write" /\ Wrote(c, bl[Ip(c)] # None, 0)
      BY <2>2, Zenon DEF UnblockWrite
    <3> QED BY <1>3, <3>1, <3>2, Zenon
  <2>3. CASE Log(c)
    <3>1. JobOK(AfterLog(c))
      <4>1. JobOK(job[c])
        BY DEF JobsOK
      <4>2. CASE Len(job[c].todo) = 1
        BY <4>2, JobBegins DEF AfterLog
      <4>3. CASE Len(job[c].todo) # 1
        <5>1. PICK n : n = [job[c] EXCEPT !.step = "write", !.todo = Tail(@)]
          OBVIOUS
        <5>2. JobOK(n)
          BY <2>0, <4>1, <4>3, <5>1, JobGoesOn, Zenon
        <5> QED BY <4>3, <5>1, <5>2, Zenon DEF AfterLog
      <4> QED BY <4>2, <4>3
    <3> QED BY <1>1, <2>3, <3>1, Zenon DEF Log
  <2> QED BY <1>4, <2>1, <2>2, <2>3 DEF Step
<1>5. CASE \/ Sweep \/ SweepDone \/ Abort \/ (\E i \in IPs : Visit(i) \/ SweepDelete(i))
           \/ Clock \/ UNCHANGED vars
  BY <1>0, <1>5, Zenon DEF Sweep, SweepDone, Abort, Visit, SweepDelete, Clock, vars
<1> QED BY <1>2, <1>4, <1>5, Moves

(* The clock runs forward and the sweep keeps the time it began with. *)
LEMMA ClockStep ==
  ASSUME ClockOK, [Next]_vars
  PROVE  ClockOK' /\ now <= now'
<1>0. CASE UNCHANGED <<now, sweep>>
  BY <1>0 DEF ClockOK
<1>1. CASE Sweep
  BY <1>1 DEF Sweep, ClockOK, SweepRec, IPs
<1>2. CASE SweepDone
  <2>1. sweep' = NoSweep \/ sweep' = [sweep EXCEPT !.step = "v6", !.left = V6]
    BY <1>2 DEF SweepDone, SweepNext
  <2>a. ASSUME sweep' = NoSweep
        PROVE  sweep' \in SweepRec /\ sweep'.now = 0
    BY <2>a DEF NoSweep, SweepRec
  <2>b. ASSUME sweep' = [sweep EXCEPT !.step = "v6", !.left = V6]
        PROVE  sweep' \in SweepRec /\ sweep'.now = sweep.now
    BY <2>b, Zenon DEF SweepRec, ClockOK, IPs
  <2>2. sweep' \in SweepRec /\ (sweep'.now = 0 \/ sweep'.now = sweep.now)
    BY <2>1, <2>a, <2>b
  <2> QED BY <1>2, <2>2 DEF ClockOK, SweepDone, SweepRec
<1>3. CASE Abort
  <2>1. sweep' \in SweepRec /\ sweep'.now = sweep.now
    BY <1>3, Zenon DEF Abort, SweepRec, ClockOK
  <2> QED BY <1>3, <2>1 DEF ClockOK, Abort
<1>4. ASSUME NEW i \in IPs, Visit(i)
      PROVE  ClockOK' /\ now <= now'
  <2>1. sweep' \in SweepRec /\ sweep'.now = sweep.now
    BY <1>4, Zenon DEF Visit, SweepRec, ClockOK
  <2> QED BY <1>4, <2>1 DEF ClockOK, Visit
<1>5. ASSUME NEW i \in IPs, SweepDelete(i)
      PROVE  ClockOK' /\ now <= now'
  <2>1. sweep' \in SweepRec /\ sweep'.now = sweep.now
    BY <1>5 DEF SweepDelete, SweepRec, ClockOK
  <2> QED BY <1>5, <2>1 DEF ClockOK, SweepDelete
<1>6. CASE Clock
  BY <1>6 DEF Clock, ClockOK, SweepRec
<1>7. CASE (\E c \in Callers : Step(c)) \/ UNCHANGED vars
  BY <1>0, <1>7, Zenon DEF Step, BlockWrite, UnblockWrite, WriteFails, Log, vars
<1>8. ASSUME NEW c, NEW k, NEW ips, NEW ttl, NEW by, Call(c, k, ips, ttl, by)
      PROVE  ClockOK' /\ now <= now'
  BY <1>0, <1>8, Zenon DEF Call
<1> QED BY <1>1, <1>2, <1>3, <1>4, <1>5, <1>6, <1>7, <1>8, Moves

-----------------------------------------------------------------------------
(* What is blocked, and for how long                                         *)

Entry == [exp : Nat, by : Origins]
Promise == [live : BOOLEAN, until : Nat]

(* A promise that still binds is kept by an entry with its expiry; one that  *)
(* ran out has lost it to the sweep at most.                                 *)
Kept(i) ==
  i \notin raced /\ promise[i].live =>
    \/ bl[i] # None /\ bl[i].exp = promise[i].until
    \/ promise[i].until # 0 /\ now >= promise[i].until

Temporary(i) == bl[i].by = "analyst" => bl[i].exp # 0 /\ bl[i].exp <= now + Day

BlockInv ==
  /\ bl \in [IPs -> Entry] /\ promise \in [IPs -> Promise]
  /\ \A i \in IPs : Kept(i) /\ Temporary(i)

NewEntry(c) == [exp |-> Absolute(job[c].ttl), by |-> job[c].by]
NewPromise(c) == [live |-> job[c].ttl < RelMax, until |-> IF job[c].ttl = 0 THEN 0 ELSE now + job[c].ttl]

(* The entry a block writes: its expiry is the end of the TTL asked for, and *)
(* an analyst's TTL ends within a day.                                       *)
LEMMA BlockEntry ==
  ASSUME JobsOK, ClockOK, NEW c \in Callers, job[c].step # "idle",
         NEW n, n = NewEntry(c), NEW p, p = NewPromise(c)
  PROVE  /\ n \in Entry /\ p \in Promise /\ n # None
         /\ p.live => n.exp = p.until
         /\ n.by = "analyst" => n.exp # 0 /\ n.exp <= now + Day
<1>0. /\ job[c].ttl \in Nat /\ Absolute(job[c].ttl) \in Nat /\ job[c].by \in Origins \ {"none"}
      /\ now \in Nat /\ RelMax \in Nat /\ Day \in Nat /\ Day < RelMax
  BY AtWork, MapAssumption DEF ClockOK
<1>1. n \in Entry /\ n.exp = Absolute(job[c].ttl) /\ n.by = job[c].by
  BY <1>0 DEF Entry, NewEntry
<1>2. /\ p \in Promise /\ p.live = (job[c].ttl < RelMax)
      /\ p.until = IF job[c].ttl = 0 THEN 0 ELSE now + job[c].ttl
  BY <1>0 DEF Promise, NewPromise
<1>3. n # None
  BY <1>0, <1>1 DEF None
<1>4. ASSUME p.live PROVE n.exp = p.until
  <2>1. job[c].ttl < RelMax
    BY <1>2, <1>4, Zenon
  <2>2. Absolute(job[c].ttl) = IF job[c].ttl = 0 THEN 0 ELSE now + job[c].ttl
    BY <1>0, <2>1 DEF Absolute
  <2> QED BY <1>1, <1>2, <2>2
<1>5. n.by = "analyst" => n.exp # 0 /\ n.exp <= now + Day
  <2>1. n.by = "analyst" => job[c].ttl \in 1..Day
    BY <1>1 DEF JobsOK, JobOK
  <2> QED BY <1>0, <1>1, <2>1 DEF Absolute
<1> QED BY <1>1, <1>2, <1>3, <1>4, <1>5

(* Every step keeps what was promised: a sweep that deletes an entry before  *)
(* its time is one that had collected another entry of the address.          *)
LEMMA BlockStep ==
  ASSUME JobsOK, ClockOK, BlockInv, [Next]_vars
  PROVE  BlockInv'
<1>0. /\ now \in Nat /\ now' \in Nat /\ now <= now' /\ Day \in Nat /\ sweep.now \in Nat /\ sweep.now <= now
      /\ None \in Entry
  BY ClockStep, MapAssumption DEF ClockOK, SweepRec, None, Entry, Origins
<1>a. \A i \in IPs : bl[i] \in Entry /\ bl[i].exp \in Nat /\ promise[i] \in Promise /\ promise[i].until \in Nat
  BY DEF BlockInv, Entry, Promise
<1>1. CASE UNCHANGED <<bl, promise, raced>>
  <2>1. \A i \in IPs : Kept(i)'
    BY <1>0, <1>1, <1>a DEF BlockInv, Kept
  <2>2. \A i \in IPs : Temporary(i)'
    BY <1>0, <1>1, <1>a DEF BlockInv, Temporary
  <2> QED BY <1>1, <2>1, <2>2 DEF BlockInv
<1>2. ASSUME NEW c \in Callers, BlockWrite(c)
      PROVE  BlockInv'
  <2>0. job[c].step # "idle"
    BY <1>2 DEF BlockWrite
  <2>1. PICK k \in IPs : k = Ip(c)
    BY <2>0, AtWork
  <2>2. PICK n : n = NewEntry(c)
    OBVIOUS
  <2>3. PICK p : p = NewPromise(c)
    OBVIOUS
  <2>4. /\ n \in Entry /\ p \in Promise /\ n # None
        /\ p.live => n.exp = p.until
        /\ n.by = "analyst" => n.exp # 0 /\ n.exp <= now + Day
    BY <2>0, <2>2, <2>3, BlockEntry
  <2>5. /\ bl' = [bl EXCEPT ![k] = n] /\ promise' = [promise EXCEPT ![k] = p]
        /\ raced' = raced \ {k} /\ now' = now
    BY <1>2, <2>1, <2>2, <2>3, Zenon DEF BlockWrite, NewEntry, NewPromise
  <2>6. /\ bl' \in [IPs -> Entry] /\ promise' \in [IPs -> Promise] /\ bl'[k] = n /\ promise'[k] = p
        /\ \A i \in IPs : i # k => bl'[i] = bl[i] /\ promise'[i] = promise[i]
    BY <2>4, <2>5 DEF BlockInv
  <2>7. Kept(k)' /\ Temporary(k)'
    BY <2>4, <2>5, <2>6 DEF Kept, Temporary
  <2>8. ASSUME NEW i \in IPs, i # k
        PROVE  Kept(i)' /\ Temporary(i)'
    BY <2>5, <2>6, <2>8 DEF Kept, Temporary, BlockInv
  <2> QED BY <2>6, <2>7, <2>8 DEF BlockInv
<1>3. ASSUME NEW c \in Callers, UnblockWrite(c)
      PROVE  BlockInv'
  <2>1. PICK k \in IPs : k = Ip(c)
    BY <1>3, AtWork DEF UnblockWrite
  <2>a. PICK p : p = [promise[k] EXCEPT !.live = FALSE]
    BY Zenon
  <2>2. p \in Promise /\ p.live = FALSE
    BY <1>a, <2>a, Zenon DEF Promise
  <2>3. bl' = [bl EXCEPT ![k] = None] /\ promise' = [promise EXCEPT ![k] = p] /\ UNCHANGED <<raced, now>>
    BY <1>3, <2>1, <2>a, Zenon DEF UnblockWrite
  <2>4. /\ bl' \in [IPs -> Entry] /\ promise' \in [IPs -> Promise] /\ bl'[k] = None /\ promise'[k] = p
        /\ \A i \in IPs : i # k => bl'[i] = bl[i] /\ promise'[i] = promise[i]
    BY <1>0, <2>2, <2>3 DEF BlockInv
  <2>5. Kept(k)' /\ Temporary(k)'
    BY <2>2, <2>4 DEF Kept, Temporary, None
  <2>6. ASSUME NEW i \in IPs, i # k
        PROVE  Kept(i)' /\ Temporary(i)'
    BY <2>3, <2>4, <2>6 DEF Kept, Temporary, BlockInv
  <2> QED BY <2>4, <2>5, <2>6 DEF BlockInv
<1>4. ASSUME NEW k \in IPs, SweepDelete(k)
      PROVE  BlockInv'
  <2>1. /\ bl' = [bl EXCEPT ![k] = None] /\ UNCHANGED <<now, promise>> /\ raced \subseteq raced'
        /\ raced' \subseteq raced \cup {k}
        /\ k \notin raced' => bl[k] = None \/ (bl[k].exp # 0 /\ sweep.now >= bl[k].exp)
    BY <1>4 DEF SweepDelete
  <2>2. /\ bl' \in [IPs -> Entry] /\ promise' \in [IPs -> Promise] /\ bl'[k] = None /\ promise'[k] = promise[k]
        /\ \A i \in IPs : i # k => bl'[i] = bl[i] /\ promise'[i] = promise[i]
    BY <1>0, <2>1 DEF BlockInv
  <2>3. Kept(k)'
    BY <1>0, <1>a, <2>1, <2>2 DEF Kept, BlockInv
  <2>4. Temporary(k)'
    BY <2>2 DEF Temporary, None
  <2>5. ASSUME NEW i \in IPs, i # k
        PROVE  Kept(i)' /\ Temporary(i)'
    BY <2>1, <2>2, <2>5 DEF Kept, Temporary, BlockInv
  <2> QED BY <2>2, <2>3, <2>4, <2>5 DEF BlockInv
<1>5. CASE \E c \in Callers : WriteFails(c) \/ Log(c)
  BY <1>1, <1>5, Zenon DEF WriteFails, Log, hist
<1>6. CASE Sweep \/ SweepDone \/ Abort \/ (\E i \in IPs : Visit(i)) \/ Clock \/ UNCHANGED vars
  BY <1>1, <1>6, Zenon DEF Sweep, SweepDone, Abort, Visit, Clock, vars, hist
<1>7. ASSUME NEW c, NEW k, NEW ips, NEW ttl, NEW by, Call(c, k, ips, ttl, by)
      PROVE  BlockInv'
  BY <1>1, <1>7, Zenon DEF Call, hist
<1> QED BY <1>2, <1>3, <1>4, <1>5, <1>6, <1>7, Moves, Zenon DEF Step

(* The operations begin with nothing under way and nothing in the tables. *)
LEMMA BlockBegins ==
  ASSUME Init PROVE JobsOK /\ ClockOK /\ BlockInv
<1>1. JobsOK
  BY JobBegins DEF Init, JobsOK
<1>2. ClockOK
  BY MapAssumption DEF Init, ClockOK, NoSweep, SweepRec
<1>3. None \in Entry /\ [live |-> FALSE, until |-> 0] \in Promise /\ None.by # "analyst"
  BY DEF None, Entry, Promise, Origins
<1>4. BlockInv
  BY <1>3 DEF Init, BlockInv, Kept, Temporary
<1> QED BY <1>1, <1>2, <1>4

(* A block that was written holds until the TTL asked for is over, or for    *)
(* ever, unless it is lifted or a sweep that collected the address before    *)
(* deletes it, for any addresses, callers and times (BlockIPv4,              *)
(* sweepBlocklistV4).                                                        *)
THEOREM WrittenBlocksHold == Spec => []BlockHolds
<1>1. JobsOK /\ ClockOK /\ BlockInv => BlockHolds
  BY DEF ClockOK, BlockInv, BlockHolds, Kept, Entry, Promise
<1>2. JobsOK /\ ClockOK /\ BlockInv /\ [Next]_vars => (JobsOK /\ ClockOK /\ BlockInv)'
  BY JobsStep, ClockStep, BlockStep
<1> QED BY <1>1, <1>2, BlockBegins, PTL DEF Spec

(* What an analyst blocks is unblocked again within a day, whatever TTL was  *)
(* asked for and however operations and sweeps interleave (the clamp of      *)
(* SecurityHandler.BlockIP, BlockIPv4's conversion of the TTL).              *)
THEOREM AnalystBlocksEnd == Spec => []AnalystTemporary
<1>1. JobsOK /\ ClockOK /\ BlockInv => AnalystTemporary
  BY DEF BlockInv, AnalystTemporary, Temporary
<1>2. JobsOK /\ ClockOK /\ BlockInv /\ [Next]_vars => (JobsOK /\ ClockOK /\ BlockInv)'
  BY JobsStep, ClockStep, BlockStep
<1> QED BY <1>1, <1>2, BlockBegins, PTL DEF Spec

-----------------------------------------------------------------------------
(* What the audit log tells                                                  *)

(* A caller whose write to i succeeded and whose record is still to come. *)
Logs(c, i) == job[c].step = "log" /\ job[c].ok /\ Ip(c) = i

(* The record r describes the entry of i, or the one that has run out. *)
TellsOf(i, r) == IF bl[i] # None THEN r = [op |-> "block", exp |-> bl[i].exp]
                 ELSE r.op = "block" => r.exp # 0 /\ now >= r.exp

(* At most one record of i is still to come, and it or, when none is, the    *)
(* last one describes the entry.                                             *)
AuditAt(i) ==
  /\ \A c, d \in Callers : Logs(c, i) /\ Logs(d, i) => c = d
  /\ \A c \in Callers : Logs(c, i) => TellsOf(i, Record(c))
  /\ (\A c \in Callers : ~Logs(c, i)) => TellsOf(i, rec[i])

RecRec == [op : {"none"} \cup Kinds, exp : Nat]
AuditInv ==
  /\ rec \in [IPs -> RecRec]
  /\ \A i \in IPs \ (over \cup lost \cup raced) : AuditAt(i)

(* Time passes, and a record that described the entry still does. *)
LEMMA TellsLater ==
  ASSUME ClockOK, ClockOK', now <= now', NEW i, bl'[i] = bl[i], NEW r, r.exp \in Nat, TellsOf(i, r)
  PROVE  TellsOf(i, r)'
BY DEF TellsOf, ClockOK

(* The sweep deletes an entry whose time is over, which its record tells. *)
LEMMA TellsExpired ==
  ASSUME ClockOK, now' = now, NEW i, bl[i] # None, bl[i].exp \in Nat, bl[i].exp # 0, sweep.now >= bl[i].exp,
         bl'[i] = None, NEW r, TellsOf(i, r)
  PROVE  TellsOf(i, r)'
<1>1. now \in Nat /\ sweep.now \in Nat /\ sweep.now <= now
  BY DEF ClockOK, SweepRec
<1>2. r.exp = bl[i].exp
  BY DEF TellsOf
<1> QED BY <1>1, <1>2 DEF TellsOf

(* A record that is still to come has a time. *)
LEMMA RecordTime ==
  ASSUME JobsOK, NEW c \in Callers, job[c].step # "idle"
  PROVE  Record(c) \in RecRec /\ Record(c).exp \in Nat
<1>1. job[c].exp \in Nat /\ job[c].kind \in {"none"} \cup Kinds
  BY DEF JobsOK, JobOK, JobRec, Kinds
<1> QED BY <1>1 DEF Record, RecRec

(* A step that leaves an address, its record and those to come alone. *)
LEMMA AuditSame ==
  ASSUME JobsOK, ClockOK, ClockOK', now <= now', NEW i, rec[i].exp \in Nat, AuditAt(i),
         bl'[i] = bl[i], rec'[i] = rec[i],
         \A d \in Callers : (Logs(d, i)' <=> Logs(d, i)) /\ (Logs(d, i) => job'[d] = job[d])
  PROVE  AuditAt(i)'
<1>1. \A c, d \in Callers : Logs(c, i)' /\ Logs(d, i)' => c = d
  BY Zenon DEF AuditAt
<1>2. ASSUME NEW c \in Callers, Logs(c, i)'
      PROVE  TellsOf(i, Record(c))'
  <2>1. Logs(c, i) /\ job'[c] = job[c]
    BY <1>2
  <2>2. PICK r : r = Record(c)
    OBVIOUS
  <2>3. Record(c)' = r
    BY <2>1, <2>2 DEF Record
  <2>4. TellsOf(i, r) /\ r.exp \in Nat
    BY <2>1, <2>2, RecordTime DEF AuditAt, Logs
  <2>5. TellsOf(i, r)'
    BY <2>4, TellsLater
  <2> QED BY <2>3, <2>5
<1>3. ASSUME \A c \in Callers : ~Logs(c, i)'
      PROVE  TellsOf(i, rec[i])'
  <2>1. PICK r : r = rec[i]
    OBVIOUS
  <2>2. TellsOf(i, r) /\ r.exp \in Nat
    BY <1>3, <2>1 DEF AuditAt
  <2>3. TellsOf(i, r)'
    BY <2>2, TellsLater
  <2> QED BY <2>1, <2>3
<1> QED BY <1>1, <1>2, <1>3 DEF AuditAt

(* When a write to an address is not noted as overlapping, no other record   *)
(* of the address is still to come.                                          *)
LEMMA NoOverlap ==
  ASSUME NEW c \in Callers, over' = Overlaps(c), Ip(c) \notin over'
  PROVE  \A d \in Callers : d # c => ~Logs(d, Ip(c))
BY Zenon DEF Overlaps, Logs

(* A write that is done is known by its job. *)
LEMMA AfterWrite ==
  ASSUME JobsOK, NEW c \in Callers, job[c].step = "write", NEW ok \in BOOLEAN, NEW exp \in Nat, Wrote(c, ok, exp)
  PROVE  /\ \A d \in Callers : d # c => job'[d] = job[d]
         /\ \A i : ~Logs(c, i) /\ (Logs(c, i)' <=> ok /\ i = Ip(c))
         /\ Record(c)' = [op |-> job[c].kind, exp |-> exp]
<1>1. PICK n : n = Done(job[c], ok, exp)
  OBVIOUS
<1>2. /\ job'[c] = n /\ \A d \in Callers : d # c => job'[d] = job[d]
  BY <1>1, OneJob, Zenon DEF Wrote, Done
<1>3. JobOK(job[c]) /\ job[c].step # "idle"
  BY DEF JobsOK
<1>4. n.step = "log" /\ n.ok = ok /\ n.exp = exp /\ n.kind = job[c].kind /\ n.todo = job[c].todo
  BY <1>1, <1>3, JobWritten
<1>5. ASSUME NEW i
      PROVE  ~Logs(c, i) /\ (Logs(c, i)' <=> ok /\ i = Ip(c))
  BY <1>2, <1>4 DEF Logs, Ip
<1>6. Record(c)' = [op |-> job[c].kind, exp |-> exp]
  BY <1>2, <1>4, Zenon DEF Record
<1> QED BY <1>2, <1>5, <1>6

(* A successful write leaves the writer's record as the only one to come. *)
LEMMA AuditWrote ==
  ASSUME NEW k, NEW c \in Callers,
         \A d \in Callers : d # c => ~Logs(d, k) /\ job'[d] = job[d],
         Logs(c, k)', TellsOf(k, Record(c))'
  PROVE  AuditAt(k)'
<1>1. \A d \in Callers : d # c => ~Logs(d, k)'
  BY DEF Logs, Ip
<1> QED BY <1>1, Zenon DEF AuditAt

(* Each step keeps the log's account of every address it is answerable for. *)
LEMMA AuditStep ==
  ASSUME JobsOK, ClockOK, BlockInv, AuditInv, [Next]_vars
  PROVE  AuditInv'
<1>0. ClockOK' /\ now <= now'
  BY ClockStep
<1>a. \A i \in IPs : rec[i] \in RecRec /\ rec[i].exp \in Nat /\ bl[i] \in Entry /\ bl[i].exp \in Nat
  BY DEF AuditInv, RecRec, BlockInv, Entry
<1>1. ASSUME NEW i \in IPs, AuditAt(i), bl'[i] = bl[i], rec'[i] = rec[i],
             \A d \in Callers : (Logs(d, i)' <=> Logs(d, i)) /\ (Logs(d, i) => job'[d] = job[d])
      PROVE  AuditAt(i)'
  BY <1>0, <1>1, <1>a, AuditSame
<1>2. ASSUME NEW c \in Callers, BlockWrite(c)
      PROVE  AuditInv'
  <2>0. job[c].step # "idle" /\ job[c].step = "write" /\ job[c].kind = "block"
    BY <1>2 DEF BlockWrite
  <2>1. PICK k \in IPs : k = Ip(c)
    BY <2>0, AtWork
  <2>2. PICK e \in Nat : e = Absolute(job[c].ttl)
    BY <2>0, AtWork
  <2>3. PICK n : n = [exp |-> e, by |-> job[c].by]
    BY Zenon
  <2>4. n # None /\ n.exp = e
    <3>1. job[c].by # "none"
      BY <2>0, AtWork
    <3> QED BY <2>3, <3>1 DEF None
  <2>5. /\ bl' = [bl EXCEPT ![k] = n] /\ rec' = rec /\ Wrote(c, TRUE, e)
        /\ raced' = raced \ {k} /\ over' = Overlaps(c) /\ lost' = lost
    BY <1>2, <2>1, <2>2, <2>3, Zenon DEF BlockWrite
  <2>6. /\ bl'[k] = n /\ \A i \in IPs : i # k => bl'[i] = bl[i]
    BY <2>5 DEF BlockInv
  <2>7. /\ \A d \in Callers : d # c => job'[d] = job[d]
        /\ \A i : ~Logs(c, i) /\ (Logs(c, i)' <=> i = k)
        /\ Record(c)' = [op |-> "block", exp |-> e]
    <3>1. /\ \A d \in Callers : d # c => job'[d] = job[d]
          /\ \A i : ~Logs(c, i) /\ (Logs(c, i)' <=> TRUE /\ i = Ip(c))
          /\ Record(c)' = [op |-> job[c].kind, exp |-> e]
      BY <2>0, <2>2, <2>5, AfterWrite, Zenon
    <3> QED BY <2>0, <2>1, <3>1
  <2>8. ASSUME NEW i \in IPs \ (over' \cup lost' \cup raced'), i = k
        PROVE  AuditAt(i)'
    <3>1. \A d \in Callers : d # c => ~Logs(d, k)
      BY <2>1, <2>5, <2>8, NoOverlap, Zenon
    <3>2. TellsOf(k, Record(c))'
      BY <2>4, <2>6, <2>7 DEF TellsOf
    <3>3. Logs(c, k)'
      BY <2>7
    <3> QED BY <2>7, <2>8, <3>1, <3>2, <3>3, AuditWrote, Zenon
  <2>9. ASSUME NEW i \in IPs \ (over' \cup lost' \cup raced'), i # k
        PROVE  AuditAt(i)'
    <3>1. i \notin over \cup lost \cup raced
      BY <2>5, <2>9 DEF Overlaps
    <3>2. \A d \in Callers : (Logs(d, i)' <=> Logs(d, i)) /\ (Logs(d, i) => job'[d] = job[d])
      BY <2>7, <2>9, Zenon DEF Logs, Ip
    <3> QED BY <1>1, <2>5, <2>6, <2>9, <3>1, <3>2 DEF AuditInv
  <2> QED BY <2>5, <2>8, <2>9 DEF AuditInv
<1>3. ASSUME NEW c \in Callers, UnblockWrite(c)
      PROVE  AuditInv'
  <2>0. job[c].step # "idle" /\ job[c].step = "write" /\ job[c].kind = "unblock"
    BY <1>3 DEF UnblockWrite
  <2>1. PICK k \in IPs : k = Ip(c)
    BY <2>0, AtWork
  <2>2. PICK ok \in BOOLEAN : ok = (bl[k] # None)
    BY Zenon
  <2>5. /\ bl' = [bl EXCEPT ![k] = None] /\ rec' = rec /\ Wrote(c, ok, 0)
        /\ raced' = raced /\ over' = Overlaps(c) /\ lost' = lost
    BY <1>3, <2>1, <2>2, Zenon DEF UnblockWrite
  <2>6. /\ bl'[k] = None /\ \A i \in IPs : i # k => bl'[i] = bl[i]
    BY <2>5 DEF BlockInv
  <2>7. /\ \A d \in Callers : d # c => job'[d] = job[d]
        /\ \A i : ~Logs(c, i) /\ (Logs(c, i)' <=> ok /\ i = k)
        /\ Record(c)' = [op |-> "unblock", exp |-> 0]
    <3>1. /\ \A d \in Callers : d # c => job'[d] = job[d]
          /\ \A i : ~Logs(c, i) /\ (Logs(c, i)' <=> ok /\ i = Ip(c))
          /\ Record(c)' = [op |-> job[c].kind, exp |-> 0]
      <4>1. 0 \in Nat
        OBVIOUS
      <4> QED BY <2>0, <2>5, <4>1, AfterWrite, Zenon
    <3> QED BY <2>0, <2>1, <3>1
  <2>8. ASSUME NEW i \in IPs \ (over' \cup lost' \cup raced')
        PROVE  AuditAt(i)'
    <3>0. AuditAt(i)
      BY <2>5 DEF Overlaps, AuditInv
    <3>1. CASE i = k /\ ok
      <4>1. \A d \in Callers : d # c => ~Logs(d, k)
        BY <2>1, <2>5, <2>8, <3>1, NoOverlap, Zenon
      <4>2. TellsOf(k, Record(c))'
        BY <2>6, <2>7 DEF TellsOf
      <4>3. Logs(c, k)'
        BY <2>7, <3>1
      <4> QED BY <2>7, <3>1, <4>1, <4>2, <4>3, AuditWrote, Zenon
    <3>2. CASE ~(i = k /\ ok)
      <4>1. \A d \in Callers : (Logs(d, i)' <=> Logs(d, i)) /\ (Logs(d, i) => job'[d] = job[d])
        BY <2>7, <3>2 DEF Logs, Ip
      <4>2. bl'[i] = bl[i]
        BY <2>2, <2>6, <3>2, Zenon
      <4> QED BY <1>1, <2>5, <3>0, <4>1, <4>2
    <3> QED BY <3>1, <3>2
  <2> QED BY <2>5, <2>8 DEF AuditInv
<1>4. ASSUME NEW c \in Callers, WriteFails(c)
      PROVE  AuditInv'
  <2>0. job[c].step # "idle" /\ job[c].step = "write" /\ Absolute(job[c].ttl) \in Nat
    BY <1>4, AtWork DEF WriteFails
  <2>1. Wrote(c, FALSE, Absolute(job[c].ttl)) /\ UNCHANGED <<bl, rec, over, lost, raced>>
    BY <1>4, Zenon DEF WriteFails, hist
  <2>2. /\ \A d \in Callers : d # c => job'[d] = job[d]
        /\ \A i : ~Logs(c, i) /\ ~Logs(c, i)'
    <3>1. FALSE \in BOOLEAN
      OBVIOUS
    <3> QED BY <2>0, <2>1, <3>1, AfterWrite, Zenon
  <2>3. ASSUME NEW i \in IPs \ (over \cup lost \cup raced)
        PROVE  AuditAt(i)'
    <3>1. \A d \in Callers : (Logs(d, i)' <=> Logs(d, i)) /\ (Logs(d, i) => job'[d] = job[d])
      BY <2>2 DEF Logs, Ip
    <3> QED BY <1>1, <2>1, <3>1 DEF AuditInv
  <2> QED BY <2>1, <2>3 DEF AuditInv
<1>5. ASSUME NEW c \in Callers, Log(c)
      PROVE  AuditInv'
  <2>0. job[c].step = "log" /\ job[c].step # "idle"
    BY <1>5 DEF Log
  <2>1. PICK k \in IPs : k = Ip(c)
    BY <2>0, AtWork
  <2>2. PICK r \in RecRec : r = Record(c)
    BY <2>0, RecordTime
  <2>3. /\ \/ rec' = (IF job[c].ok THEN [rec EXCEPT ![k] = r] ELSE rec) /\ lost' = lost
           \/ rec' = rec /\ lost' = (IF job[c].ok THEN lost \cup {k} ELSE lost)
        /\ SetJob(c, AfterLog(c)) /\ UNCHANGED <<bl, now, raced, over>>
    BY <1>5, <2>1, <2>2, Zenon DEF Log
  <2>4. /\ job'[c].step # "log" /\ \A d \in Callers : d # c => job'[d] = job[d]
    <3>1. AfterLog(c).step # "log"
      <4>1. JobOK(job[c])
        BY DEF JobsOK
      <4>2. CASE Len(job[c].todo) = 1
        BY <4>2, JobBegins DEF AfterLog
      <4>3. CASE Len(job[c].todo) # 1
        <5>1. PICK n : n = [job[c] EXCEPT !.step = "write", !.todo = Tail(@)]
          OBVIOUS
        <5>2. n.step = "write"
          BY <2>0, <4>1, <4>3, <5>1, JobGoesOn, Zenon
        <5> QED BY <4>3, <5>1, <5>2 DEF AfterLog
      <4> QED BY <4>2, <4>3
    <3> QED BY <2>3, <3>1, OneJob
  <2>5. rec' \in [IPs -> RecRec] /\ \A i \in IPs : i # k => rec'[i] = rec[i]
    BY <2>3 DEF AuditInv
  <2>6. ASSUME NEW i \in IPs \ (over' \cup lost' \cup raced')
        PROVE  AuditAt(i)'
    <3>0. AuditAt(i)
      BY <2>3 DEF AuditInv
    <3>1. CASE i = k /\ job[c].ok
      <4>1. rec'[k] = r
        BY <2>3, <3>1 DEF AuditInv
      <4>2. Logs(c, i)
        BY <2>0, <2>1, <3>1 DEF Logs
      <4>3. \A d \in Callers : ~Logs(d, i)'
        BY <2>4, <3>0, <4>2 DEF AuditAt, Logs, Ip
      <4>4. TellsOf(i, r)
        BY <2>2, <3>0, <4>2 DEF AuditAt
      <4>5. TellsOf(i, r)'
        BY <2>3, <4>4 DEF TellsOf
      <4> QED BY <3>1, <4>1, <4>3, <4>5 DEF AuditAt
    <3>2. CASE ~(i = k /\ job[c].ok)
      <4>1. \A d \in Callers : (Logs(d, i)' <=> Logs(d, i)) /\ (Logs(d, i) => job'[d] = job[d])
        BY <2>1, <2>4, <3>2 DEF Logs, Ip
      <4>2. rec'[i] = rec[i] /\ bl'[i] = bl[i]
        BY <2>3, <2>5, <3>2
      <4> QED BY <1>1, <3>0, <4>1, <4>2
    <3> QED BY <3>1, <3>2
  <2> QED BY <2>5, <2>6 DEF AuditInv
<1>6. ASSUME NEW k \in IPs, SweepDelete(k)
      PROVE  AuditInv'
  <2>1. /\ bl' = [bl EXCEPT ![k] = None] /\ UNCHANGED <<now, job, rec, over, lost>> /\ raced \subseteq raced'
        /\ k \notin raced' => bl[k] = None \/ (bl[k].exp # 0 /\ sweep.now >= bl[k].exp)
    BY <1>6 DEF SweepDelete
  <2>2. /\ bl'[k] = None /\ \A i \in IPs : i # k => bl'[i] = bl[i]
    BY <2>1 DEF BlockInv
  <2>3. \A i : \A d \in Callers : (Logs(d, i)' <=> Logs(d, i)) /\ job'[d] = job[d] /\ Record(d)' = Record(d)
    BY <2>1 DEF Logs, Ip, Record
  <2>4. ASSUME NEW i \in IPs \ (over' \cup lost' \cup raced')
        PROVE  AuditAt(i)'
    <3>0. AuditAt(i)
      BY <2>1 DEF AuditInv
    <3>1. CASE bl'[i] = bl[i]
      BY <1>1, <2>1, <2>3, <3>0, <3>1, Zenon
    <3>2. CASE bl'[i] # bl[i]
      <4>1. i = k /\ bl[i] # None /\ bl[i].exp # 0 /\ sweep.now >= bl[i].exp /\ bl'[i] = None /\ bl[i].exp \in Nat
        BY <1>a, <2>1, <2>2, <3>2
      <4>2. ASSUME NEW r, TellsOf(i, r) PROVE TellsOf(i, r)'
        BY <2>1, <4>1, <4>2, TellsExpired, Zenon
      <4>3. ASSUME NEW d \in Callers, Logs(d, i)' PROVE TellsOf(i, Record(d))'
        <5>1. PICK r : r = Record(d)
          OBVIOUS
        <5>2. TellsOf(i, r)
          BY <2>3, <3>0, <4>3, <5>1 DEF AuditAt
        <5> QED BY <2>3, <4>2, <5>1, <5>2, Zenon
      <4>4. ASSUME \A d \in Callers : ~Logs(d, i)' PROVE TellsOf(i, rec[i])'
        <5>1. PICK r : r = rec[i]
          OBVIOUS
        <5>2. TellsOf(i, r) /\ rec'[i] = r
          BY <2>1, <2>3, <3>0, <4>4, <5>1, Zenon DEF AuditAt
        <5> QED BY <4>2, <5>2
      <4>5. \A c, d \in Callers : Logs(c, i)' /\ Logs(d, i)' => c = d
        BY <2>3, <3>0 DEF AuditAt
      <4> QED BY <4>3, <4>4, <4>5 DEF AuditAt
    <3> QED BY <3>1, <3>2
  <2> QED BY <2>1, <2>4 DEF AuditInv
<1>7. ASSUME NEW c \in Callers, NEW k \in Kinds, NEW ips \in Seq(IPs), NEW ttl \in Nat,
             NEW by \in Origins \ {"none"}, Call(c, k, ips, ttl, by)
      PROVE  AuditInv'
  <2>1. /\ UNCHANGED <<bl, rec, over, lost, raced>> /\ job[c] = Idle
        /\ SetJob(c, Job(k, ips, ttl, by)) \/ job' = job
    BY <1>7, Zenon DEF Call, hist
  <2>2. /\ \A d \in Callers : d # c => job'[d] = job[d]
        /\ job[c].step # "log" /\ job'[c].step # "log"
    <3>1. job[c].step # "log" /\ Job(k, ips, ttl, by).step # "log"
      BY <2>1, JobBegins
    <3> QED BY <2>1, <3>1, OneJob
  <2>3. ASSUME NEW i \in IPs \ (over \cup lost \cup raced)
        PROVE  AuditAt(i)'
    <3>1. \A d \in Callers : (Logs(d, i)' <=> Logs(d, i)) /\ (Logs(d, i) => job'[d] = job[d])
      BY <2>2 DEF Logs, Ip
    <3> QED BY <1>1, <2>1, <3>1 DEF AuditInv
  <2> QED BY <2>1, <2>3 DEF AuditInv
<1>8. CASE Sweep \/ SweepDone \/ Abort \/ (\E i \in IPs : Visit(i)) \/ Clock \/ UNCHANGED vars
  <2>1. UNCHANGED <<job, bl, rec, over, lost, raced>>
    BY <1>8, Zenon DEF Sweep, SweepDone, Abort, Visit, Clock, vars, hist
  <2>2. \A i : \A d \in Callers : (Logs(d, i)' <=> Logs(d, i)) /\ job'[d] = job[d]
    BY <2>1 DEF Logs, Ip
  <2> QED BY <1>1, <2>1, <2>2 DEF AuditInv
<1> QED BY <1>2, <1>3, <1>4, <1>5, <1>6, <1>7, <1>8, Moves, Zenon DEF Step

(* The audit log alone tells what is blocked, for any addresses, callers and *)
(* times and however writes, records and sweeps interleave: the last record  *)
(* of an address is a block with the expiry of the entry or, when there is   *)
(* none, an unblock or a block that has run out, unless two callers wrote    *)
(* the address at a time, the disk refused a record, or a sweep deleted what *)
(* was written after it had looked (BlockIPv4, UnblockIPv4, auditLogger.Log).*)
THEOREM AuditLogTells == Spec => []AuditTells
<1> DEFINE I == JobsOK /\ ClockOK /\ BlockInv /\ AuditInv
<1>1. Init => I
  <2> SUFFICES ASSUME Init PROVE AuditInv
    BY BlockBegins
  <2>1. NoRec \in RecRec /\ NoRec.op # "block"
    BY DEF NoRec, RecRec, Kinds
  <2>2. \A c \in Callers, i \in IPs : ~Logs(c, i)
    BY JobBegins DEF Init, Logs
  <2> QED BY <2>1, <2>2 DEF Init, AuditInv, AuditAt, TellsOf
<1>2. I => AuditTells
  <2> SUFFICES ASSUME AuditInv, NEW i \in IPs \ (over \cup lost \cup raced),
                      \A c \in Callers : ~(job[c].step = "log" /\ Ip(c) = i)
               PROVE  TellsOf(i, rec[i])
    BY DEF AuditTells, TellsOf
  <2> QED BY DEF AuditInv, AuditAt, Logs
<1>3. I /\ [Next]_vars => I'
  BY JobsStep, ClockStep, BlockStep, AuditStep
<1> QED BY <1>1, <1>2, <1>3, PTL DEF Spec
=============================================================================
