---------------------------- MODULE Rings_proofs ----------------------------
(***************************************************************************)
(* Proofs about the rings packets pass through: SPSCRing, which implements *)
(* a bounded FIFO queue for every capacity, every counter width that is a  *)
(* multiple of it and every position of the counters at the start; and     *)
(* AFXDPBridge, for any number of frames, ring sizes and packets.          *)
(***************************************************************************)
EXTENDS SPSCRing, AFXDPBridge, SequenceTheorems, TLAPS

-----------------------------------------------------------------------------
(* Division with remainder *)

(* Equal values have equal quotients and remainders. *)
LEMMA DivisionUnique ==
  ASSUME NEW n \in Nat \ {0}, NEW q \in Int, NEW p \in Int,
         NEW r \in 0..(n - 1), NEW s \in 0..(n - 1),
         n * q + r = n * p + s
  PROVE  q = p /\ r = s
<1>1. n * (q - p) = s - r
  OBVIOUS
<1>2. CASE q - p >= 1
  <2>1. n * (q - p) >= n
    BY <1>2
  <2> QED BY <1>1, <2>1
<1>3. CASE q - p <= -1
  <2>1. n * (q - p) <= -n
    BY <1>3
  <2> QED BY <1>1, <2>1
<1>4. CASE q - p = 0
  BY <1>1, <1>4
<1> QED BY <1>2, <1>3, <1>4

(* Division with remainder. *)
LEMMA Division ==
  ASSUME NEW a \in Nat, NEW n \in Nat \ {0}
  PROVE  /\ a % n \in 0..(n - 1) /\ a \div n \in Nat
         /\ a = n * (a \div n) + (a % n)
OBVIOUS

(* A multiple of n does not change the remainder. *)
LEMMA RemainderShift ==
  ASSUME NEW n \in Nat \ {0}, NEW w \in Nat, w % n = 0, NEW a \in Nat
  PROVE  (a + w) % n = a % n
<1> DEFINE q == a \div n
           k == w \div n
           p == (a + w) \div n
           r == a % n
           s == (a + w) % n
<1>1. r \in 0..(n - 1) /\ q \in Nat /\ a = n * q + r
  BY Division, Zenon
<1>2. k \in Nat /\ w = n * k
  <2>1. k \in Nat /\ w = n * k + (w % n)
    BY Division
  <2> QED BY <2>1
<1>3. s \in 0..(n - 1) /\ p \in Nat /\ a + w = n * p + s
  <2>1. a + w \in Nat
    OBVIOUS
  <2> QED BY <2>1, Division, Zenon
<1> HIDE DEF q, k, p, r, s
<1>4. PICK m \in Int : m = q + k
  BY <1>1, <1>2
<1>5. n * m + r = n * p + s
  BY <1>1, <1>2, <1>3, <1>4
<1>6. r = s
  BY <1>1, <1>3, <1>5, DivisionUnique
<1> QED BY <1>6 DEF r, s

(* Two values less than n apart with the same remainder are equal. *)
LEMMA RemainderInjective ==
  ASSUME NEW n \in Nat \ {0}, NEW a \in Nat, NEW d \in 0..(n - 1), (a + d) % n = a % n
  PROVE  d = 0
<1> DEFINE q == a \div n
           p == (a + d) \div n
           r == a % n
<1>1. r \in 0..(n - 1) /\ q \in Nat /\ a = n * q + r
  BY Division, Zenon
<1>2. p \in Nat /\ a + d = n * p + r
  <2>1. a + d \in Nat
    OBVIOUS
  <2>2. p \in Nat /\ a + d = n * p + ((a + d) % n)
    BY <2>1, Division, Zenon
  <2> QED BY <2>2
<1> HIDE DEF q, p, r
<1>3. n * p + 0 = n * q + d
  BY <1>1, <1>2
<1> QED BY <1>1, <1>2, <1>3, DivisionUnique

(* A number below the divisor is its own remainder. *)
LEMMA RemainderSmall ==
  ASSUME NEW n \in Nat \ {0}, NEW a \in 0..(n - 1)
  PROVE  a % n = a
OBVIOUS

(* A number from the divisor up to its double wraps once. *)
LEMMA RemainderWrap ==
  ASSUME NEW n \in Nat \ {0}, NEW a \in n..(2 * n - 1)
  PROVE  a % n = a - n
OBVIOUS

-----------------------------------------------------------------------------
(* The counters *)

(* How far the two counters are apart, whichever of them has wrapped. *)
LEMMA Distance ==
  ASSUME NEW h \in Counter, NEW t \in Counter
  PROVE  /\ Minus(h, t) \in Counter
         /\ Minus(h, t) = IF h >= t THEN h - t ELSE h + Word - t
<1>0. Word \in Nat \ {0}
  BY RingAssumption
<1>1. CASE h >= t
  <2> DEFINE e == h + Word - t
  <2>1. e \in Word..(2 * Word - 1)
    BY <1>0, <1>1 DEF Counter
  <2>2. e % Word = e - Word
    BY <1>0, <2>1, RemainderWrap, Zenon
  <2>3. Minus(h, t) = e - Word
    BY <2>2 DEF Minus
  <2> QED BY <1>0, <1>1, <2>3 DEF Counter
<1>2. CASE h < t
  <2>1. h + Word - t \in 0..(Word - 1)
    BY <1>0, <1>2 DEF Counter
  <2> QED BY <1>0, <1>2, <2>1, RemainderSmall DEF Minus, Counter
<1> QED BY <1>0, <1>1, <1>2 DEF Counter

(* The next value of a counter, at its width. *)
LEMMA Increment ==
  ASSUME NEW a \in Counter
  PROVE  /\ Succ(a) \in Counter
         /\ Succ(a) = IF a + 1 = Word THEN 0 ELSE a + 1
<1>0. Word \in Nat \ {0}
  BY RingAssumption
<1>1. CASE a + 1 = Word
  <2>1. a + 1 \in Word..(2 * Word - 1)
    BY <1>0, <1>1
  <2> QED BY <1>0, <1>1, <2>1, RemainderWrap DEF Succ, Counter
<1>2. CASE a + 1 # Word
  <2>1. a + 1 \in 0..(Word - 1)
    BY <1>0, <1>2 DEF Counter
  <2> QED BY <1>0, <1>2, <2>1, RemainderSmall DEF Succ, Counter
<1> QED BY <1>1, <1>2

(* Slots repeat with the counters' wrap-around, and Capacity counters in a   *)
(* row have different slots.                                                 *)
LEMMA Slots ==
  /\ \A a \in Nat : Slot(a) \in 0..(Capacity - 1) /\ Slot(a + Word) = Slot(a)
  /\ \A a \in Nat, d \in 1..(Capacity - 1) : Slot(a + d) # Slot(a)
<1>0. Capacity \in Nat \ {0} /\ Word \in Nat /\ Word % Capacity = 0
  BY RingAssumption
<1>1. ASSUME NEW a \in Nat
      PROVE  Slot(a) \in 0..(Capacity - 1) /\ Slot(a + Word) = Slot(a)
  BY <1>0, Division, RemainderShift, Zenon DEF Slot
<1>2. ASSUME NEW a \in Nat, NEW d \in 1..(Capacity - 1), Slot(a + d) = Slot(a)
      PROVE  FALSE
  <2>1. d \in 0..(Capacity - 1)
    BY <1>0
  <2> QED BY <1>0, <1>2, <2>1, RemainderInjective DEF Slot
<1> QED BY <1>1, <1>2

-----------------------------------------------------------------------------
(* The invariant *)

(* The ring holds at most Capacity entries; a producer past its test has a   *)
(* free slot at head, which after its store holds its message; a consumer    *)
(* past its test has an entry at tail, which it then has read.               *)
RingInv ==
  /\ TypeOK
  /\ Used <= Capacity
  /\ push.at # "idle" => Used < Capacity /\ push.m \in Messages
  /\ push.at = "head" => slots[Slot(head)] = push.m
  /\ pop.at # "idle" => Used > 0
  /\ pop.at = "tail" => pop.m = slots[Slot(tail)]

(* head is Used entries past tail. *)
LEMMA UsedFacts ==
  ASSUME TypeOK
  PROVE  /\ Used \in Counter
         /\ Used = 0 <=> head = tail
         /\ Slot(tail + Used) = Slot(head)
<1>0. Word \in Nat /\ head \in Counter /\ tail \in Counter
  BY RingAssumption DEF TypeOK
<1>1. Used \in Counter /\ Used = IF head >= tail THEN head - tail ELSE head + Word - tail
  BY <1>0, Distance DEF Used
<1>2. tail + Used = head \/ tail + Used = head + Word
  BY <1>0, <1>1 DEF Counter
<1>3. Slot(tail + Used) = Slot(head)
  BY <1>0, <1>2, Slots DEF Counter
<1> QED BY <1>0, <1>1, <1>3 DEF Counter

(* A published entry's slot is not the one the producer stores to. *)
LEMMA FreeSlot ==
  ASSUME TypeOK, Used < Capacity, NEW i \in 1..Used
  PROVE  Slot(tail + i - 1) # Slot(head)
<1>0. Capacity \in Nat /\ Word \in Nat /\ tail \in Nat /\ Used \in Nat
  BY RingAssumption, UsedFacts DEF TypeOK, Counter
<1> DEFINE a == tail + i - 1
           d == Used - i + 1
<1>1. a \in Nat /\ d \in 1..(Capacity - 1) /\ a + d = tail + Used
  BY <1>0
<1> HIDE DEF a, d
<1>2. Slot(a + d) # Slot(a)
  BY <1>1, Slots
<1> QED BY <1>1, <1>2, UsedFacts DEF a

(* Advancing a counter changes the number of entries by one and moves the    *)
(* slots by one.                                                             *)
LEMMA CounterAdvance ==
  ASSUME TypeOK
  PROVE  /\ Used < Capacity => Minus(Succ(head), tail) = Used + 1
         /\ Used > 0 => Minus(head, Succ(tail)) = Used - 1
         /\ \A k \in Nat : Slot(Succ(tail) + k) = Slot(tail + 1 + k)
<1>0. /\ Word \in Nat /\ Capacity \in Nat /\ Capacity < Word
      /\ head \in Counter /\ tail \in Counter
  BY RingAssumption DEF TypeOK
<1>1. Used = IF head >= tail THEN head - tail ELSE head + Word - tail
  BY <1>0, Distance DEF Used
<1>2. Succ(head) \in Counter /\ Succ(head) = IF head + 1 = Word THEN 0 ELSE head + 1
  BY <1>0, Increment
<1>3. Succ(tail) \in Counter /\ Succ(tail) = IF tail + 1 = Word THEN 0 ELSE tail + 1
  BY <1>0, Increment
<1>4. Minus(Succ(head), tail) = IF Succ(head) >= tail THEN Succ(head) - tail
                                                      ELSE Succ(head) + Word - tail
  BY <1>0, <1>2, Distance
<1>5. Minus(head, Succ(tail)) = IF head >= Succ(tail) THEN head - Succ(tail)
                                                      ELSE head + Word - Succ(tail)
  BY <1>0, <1>3, Distance
<1>6. Used < Capacity => Minus(Succ(head), tail) = Used + 1
  BY <1>0, <1>1, <1>2, <1>4 DEF Counter
<1>7. Used > 0 => Minus(head, Succ(tail)) = Used - 1
  BY <1>0, <1>1, <1>3, <1>5 DEF Counter
<1>8. ASSUME NEW k \in Nat PROVE Slot(Succ(tail) + k) = Slot(tail + 1 + k)
  <2>1. CASE tail + 1 = Word
    <3>1. Succ(tail) + k = k /\ tail + 1 + k = k + Word
      BY <1>0, <1>3, <2>1
    <3> QED BY <3>1, Slots
  <2>2. CASE tail + 1 # Word
    BY <1>3, <2>2
  <2> QED BY <2>1, <2>2
<1> QED BY <1>6, <1>7, <1>8

(* The published entries are a queue of as many messages as are used. *)
LEMMA PublishedFacts ==
  ASSUME TypeOK
  PROVE  /\ Published \in Seq(Entry)
         /\ Len(Published) = Used
<1>1. Used \in Nat /\ tail \in Nat
  BY RingAssumption, UsedFacts DEF Counter, TypeOK
<1>2. \A i \in 1..Used : Slot(tail + i - 1) \in 0..(Capacity - 1)
  <2> TAKE i \in 1..Used
  <2>1. tail + i - 1 \in Nat
    BY <1>1
  <2> QED BY <2>1, Slots
<1>3. Published \in [1..Used -> Entry]
  BY <1>2 DEF Published, TypeOK
<1>4. Published \in Seq(Entry)
  BY <1>1, <1>3, SeqDef
<1>5. Len(Published) = Used
  BY <1>1, <1>3, <1>4, LenProperties
<1> QED BY <1>4, <1>5

-----------------------------------------------------------------------------
(* Preservation *)

(* The empty ring satisfies the invariant. *)
LEMMA RingInvInit == Init => RingInv
<1> SUFFICES ASSUME Init PROVE RingInv
  OBVIOUS
<1>1. TypeOK
  BY RingAssumption DEF Init, TypeOK, Entry
<1>2. Used = 0
  BY <1>1, UsedFacts DEF Init
<1> QED BY <1>1, <1>2, RingAssumption DEF Init, RingInv

(* Every step of Push and Pop keeps the invariant. *)
LEMMA RingInvStep == RingInv /\ [Next]_ringVars => RingInv'
<1> SUFFICES ASSUME RingInv, [Next]_ringVars PROVE RingInv'
  OBVIOUS
<1>0. /\ TypeOK /\ Capacity \in Nat \ {0} /\ Word \in Nat /\ DropCap \in Nat
      /\ None \in Entry /\ Messages \subseteq Entry
      /\ head \in Nat /\ tail \in Nat /\ Used \in Nat
  BY RingAssumption, UsedFacts DEF RingInv, Entry, TypeOK, Counter
<1>a. Slot(head) \in 0..(Capacity - 1) /\ Slot(tail) \in 0..(Capacity - 1)
  BY <1>0, Slots
<1>1. ASSUME NEW m \in Messages, PushLoad(m) PROVE RingInv'
  <2>1. TypeOK'
    BY <1>0, <1>1 DEF PushLoad, TypeOK
  <2>2. Used' = Used /\ Slot(head)' = Slot(head) /\ Slot(tail)' = Slot(tail)
    BY <1>1 DEF PushLoad, Used, Slot, Minus
  <2> QED BY <1>0, <1>1, <2>1, <2>2 DEF PushLoad, RingInv, RingFull, TypeOK
<1>2. ASSUME PushSlot PROVE RingInv'
  <2>1. TypeOK'
    BY <1>0, <1>a, <1>2 DEF PushSlot, TypeOK
  <2>2. Used' = Used /\ Slot(head)' = Slot(head) /\ Slot(tail)' = Slot(tail)
    BY <1>2 DEF PushSlot, Used, Slot, Minus
  <2>3. push.m \in Messages /\ Used < Capacity /\ push' = [at |-> "head", m |-> push.m]
    BY <1>2 DEF PushSlot, RingInv, TypeOK
  <2>4. slots'[Slot(head)] = push.m
    BY <1>a, <1>2 DEF PushSlot, RingInv, TypeOK
  <2>5. pop.at = "tail" => slots'[Slot(tail)] = slots[Slot(tail)]
    <3> SUFFICES ASSUME pop.at = "tail" PROVE slots'[Slot(tail)] = slots[Slot(tail)]
      OBVIOUS
    <3>1. 1 \in 1..Used
      BY <1>0 DEF RingInv
    <3>2. Slot(tail + 1 - 1) # Slot(head)
      BY <1>0, <2>3, <3>1, FreeSlot
    <3>3. Slot(tail) # Slot(head)
      BY <1>0, <3>2
    <3> QED BY <1>a, <1>2, <3>3 DEF PushSlot, RingInv, TypeOK
  <2> QED BY <1>0, <1>2, <2>1, <2>2, <2>3, <2>4, <2>5 DEF PushSlot, RingInv
<1>3. ASSUME PushHead PROVE RingInv'
  <2>1. TypeOK'
    BY <1>0, <1>3, Increment DEF PushHead, TypeOK
  <2>2. Used < Capacity
    BY <1>3 DEF PushHead, RingInv
  <2>3. Used' = Used + 1
    BY <1>0, <1>3, <2>2, CounterAdvance DEF PushHead, Used
  <2>4. Slot(tail)' = Slot(tail)
    BY <1>3 DEF PushHead, Slot
  <2> QED BY <1>0, <1>3, <2>1, <2>2, <2>3, <2>4 DEF PushHead, RingInv
<1>4. ASSUME PopLoad PROVE RingInv'
  <2>1. TypeOK'
    BY <1>0, <1>4 DEF PopLoad, TypeOK
  <2>2. Used' = Used /\ Slot(head)' = Slot(head) /\ Slot(tail)' = Slot(tail)
    BY <1>4 DEF PopLoad, Used, Slot, Minus
  <2>3. head # tail => Used > 0
    BY <1>0, UsedFacts
  <2> QED BY <1>0, <1>4, <2>1, <2>2, <2>3 DEF PopLoad, RingInv, TypeOK
<1>5. ASSUME PopSlot PROVE RingInv'
  <2>1. TypeOK'
    BY <1>0, <1>a, <1>5 DEF PopSlot, TypeOK
  <2>2. Used' = Used /\ Slot(head)' = Slot(head) /\ Slot(tail)' = Slot(tail)
    BY <1>5 DEF PopSlot, Used, Slot, Minus
  <2> QED BY <1>0, <1>5, <2>1, <2>2 DEF PopSlot, RingInv
<1>6. ASSUME PopTail PROVE RingInv'
  <2>1. TypeOK'
    <3>1. tail' \in Counter
      BY <1>0, <1>6, Increment DEF PopTail, TypeOK
    <3> QED BY <1>0, <1>6, <3>1 DEF PopTail, TypeOK
  <2>2. Used' = Used - 1
    BY <1>0, <1>6, CounterAdvance DEF PopTail, RingInv, Used
  <2>3. Slot(head)' = Slot(head)
    BY <1>6 DEF PopTail, Slot
  <2> QED BY <1>0, <1>6, <2>1, <2>2, <2>3 DEF PopTail, RingInv
<1>7. CASE UNCHANGED ringVars
  <2>1. TypeOK' /\ Used' = Used /\ Slot(head)' = Slot(head) /\ Slot(tail)' = Slot(tail)
    BY <1>0, <1>7 DEF ringVars, TypeOK, Used, Slot, Minus
  <2> QED BY <1>7, <2>1 DEF RingInv, ringVars
<1> QED BY <1>1, <1>2, <1>3, <1>4, <1>5, <1>6, <1>7 DEF Next

-----------------------------------------------------------------------------
(* Theorems *)

(* The invariant holds in every reachable state of the ring. *)
LEMMA RingInvariant == Spec => []RingInv
BY RingInvInit, RingInvStep, PTL DEF Spec

(* Push stores to a slot and Pop reads one without a lock, never the same    *)
(* one at the same time, for every capacity and counter width.               *)
THEOREM SlotRaceFree == Spec => []NoSlotRace
<1>1. RingInv => NoSlotRace
  <2> SUFFICES ASSUME RingInv, push.at = "slot", pop.at = "slot"
               PROVE  Slot(head) # Slot(tail)
    BY DEF NoSlotRace
  <2>1. Used \in 1..(Capacity - 1) /\ tail \in Nat
    BY RingAssumption, UsedFacts DEF RingInv, TypeOK, Counter
  <2>2. Slot(tail + Used) # Slot(tail)
    BY <2>1, Slots
  <2> QED BY <2>2, UsedFacts DEF RingInv
<1> QED BY <1>1, RingInvariant, PTL

(* Two sequences of the same length with the same elements are equal. *)
LEMMA SameElements ==
  ASSUME NEW s \in Seq(Entry), NEW t \in Seq(Entry), Len(s) = Len(t),
         \A i \in 1..Len(s) : s[i] = t[i]
  PROVE  s = t
BY SeqEqual

(* Steps that leave counters and published slots alone leave the queue alone. *)
LEMMA SamePublished ==
  ASSUME UNCHANGED <<head, tail>>, \A i \in 1..Used : slots'[Slot(tail + i - 1)] = slots[Slot(tail + i - 1)]
  PROVE  Published' = Published
<1>1. Used' = Used
  BY DEF Used, Minus
<1>2. Published' = [i \in 1..Used |-> slots'[Slot(tail + i - 1)]]
  BY <1>1 DEF Published, Slot
<1> QED BY <1>2, Zenon DEF Published

(* The ring's operations, interleaved at every access to shared memory, are  *)
(* those of a bounded FIFO queue: a push takes effect when head is stored, a *)
(* pop when tail is; a refusal when tail was loaded, an empty answer when    *)
(* head was.                                                                 *)
THEOREM RingImplementsFIFO == Spec => ImplementsFIFO
<1>1. Init => FIFO!FInit
  <2> SUFFICES ASSUME Init PROVE FIFO!FInit
    OBVIOUS
  <2>1. TypeOK
    BY RingInvInit DEF RingInv
  <2>2. Published = <<>>
    BY <2>1, UsedFacts, PublishedFacts, EmptySeq DEF Init
  <2> QED BY <2>2 DEF Init, FIFO!FInit
<1>2. RingInv /\ RingInv' /\ [Next]_ringVars => [FIFO!FNext]_(FIFO!fifoVars)
  <2> SUFFICES ASSUME RingInv, RingInv', [Next]_ringVars
               PROVE  [FIFO!FNext]_(FIFO!fifoVars)
    OBVIOUS
  <2>0. /\ TypeOK /\ TypeOK' /\ Used \in Nat /\ Capacity \in Nat /\ tail \in Nat /\ head \in Nat
        /\ Published \in Seq(Entry) /\ Len(Published) = Used
        /\ Published' \in Seq(Entry) /\ Len(Published') = Used'
    <3>1. (Published \in Seq(Entry) /\ Len(Published) = Used)'
      BY PublishedFacts, PTL DEF RingInv
    <3> QED BY <3>1, RingAssumption, UsedFacts, PublishedFacts DEF RingInv, TypeOK, Counter
  <2>1. ASSUME NEW m \in Messages, PushLoad(m) PROVE [FIFO!FNext]_(FIFO!fifoVars)
    <3>1. Published' = Published
      BY <2>1, SamePublished DEF PushLoad
    <3>2. CASE RingFull
      <4>1. Len(Published) = Capacity
        BY <2>0, <3>2 DEF RingFull, RingInv
      <4> QED BY <2>1, <3>1, <3>2, <4>1 DEF PushLoad, FIFO!FNext, FIFO!Refuse
    <3>3. CASE ~RingFull
      BY <2>1, <3>1, <3>3 DEF PushLoad, FIFO!fifoVars
    <3> QED BY <3>2, <3>3
  <2>2. ASSUME PushSlot PROVE [FIFO!FNext]_(FIFO!fifoVars)
    <3>1. \A i \in 1..Used : slots'[Slot(tail + i - 1)] = slots[Slot(tail + i - 1)]
      <4> TAKE i \in 1..Used
      <4>1. Slot(tail + i - 1) # Slot(head)
        BY <2>0, <2>2, FreeSlot DEF PushSlot, RingInv
      <4> QED BY <2>2, <4>1 DEF PushSlot, RingInv, TypeOK
    <3>2. Published' = Published
      BY <2>2, <3>1, SamePublished DEF PushSlot
    <3> QED BY <2>2, <3>2 DEF PushSlot, FIFO!fifoVars
  <2>3. ASSUME PushHead PROVE [FIFO!FNext]_(FIFO!fifoVars)
    <3>1. Used < Capacity /\ push.m \in Messages /\ slots[Slot(head)] = push.m
      BY <2>3 DEF PushHead, RingInv
    <3>2. Used' = Used + 1
      BY <2>0, <2>3, <3>1, CounterAdvance DEF PushHead, Used
    <3>3. Published' = [i \in 1..(Used + 1) |-> slots[Slot(tail + i - 1)]]
      BY <2>3, <3>2 DEF PushHead, Published, Slot
    <3> DEFINE q == Append(Published, push.m)
    <3>4. push.m \in Entry
      BY <3>1 DEF Entry
    <3>5. q \in Seq(Entry) /\ Len(q) = Used + 1 /\ q[Used + 1] = push.m
          /\ \A i \in 1..Used : q[i] = Published[i]
      BY <2>0, <3>4, AppendProperties
    <3>6. \A i \in 1..(Used + 1) : Published'[i] = q[i]
      <4> TAKE i \in 1..(Used + 1)
      <4>1. CASE i = Used + 1
        <5>1. tail + i - 1 = tail + Used
          BY <2>0, <4>1
        <5>2. Published'[i] = slots[Slot(tail + Used)]
          BY <3>3, <5>1
        <5>3. Slot(tail + Used) = Slot(head)
          BY <2>0, UsedFacts
        <5> QED BY <3>1, <3>5, <4>1, <5>2, <5>3
      <4>2. CASE i # Used + 1
        <5>1. i \in 1..Used
          BY <2>0, <4>2
        <5> QED BY <3>3, <3>5, <5>1, Zenon DEF Published
      <4> QED BY <4>1, <4>2, Zenon
    <3> HIDE DEF q
    <3>7. Published' = q
      BY <2>0, <3>2, <3>5, <3>6, SameElements
    <3>8. FIFO!Put
      BY <2>0, <2>3, <3>1, <3>7 DEF PushHead, FIFO!Put, q
    <3> QED BY <3>8 DEF FIFO!FNext
  <2>4. ASSUME PopLoad PROVE [FIFO!FNext]_(FIFO!fifoVars)
    <3>1. Published' = Published
      BY <2>4, SamePublished DEF PopLoad
    <3>2. CASE head = tail
      <4>1. Published = <<>>
        BY <2>0, <3>2, UsedFacts, EmptySeq
      <4>2. popped' = <<>> /\ dropped' = dropped
        BY <2>4, <3>2 DEF PopLoad
      <4> QED BY <3>1, <4>1, <4>2 DEF FIFO!FNext, FIFO!GetNothing
    <3>3. CASE head # tail
      BY <2>4, <3>1, <3>3 DEF PopLoad, FIFO!fifoVars
    <3> QED BY <3>2, <3>3
  <2>5. ASSUME PopSlot PROVE [FIFO!FNext]_(FIFO!fifoVars)
    BY <2>5, SamePublished DEF PopSlot, FIFO!fifoVars
  <2>6. ASSUME PopTail PROVE [FIFO!FNext]_(FIFO!fifoVars)
    <3>1. Used > 0 /\ pop.m = slots[Slot(tail)]
      BY <2>6 DEF PopTail, RingInv
    <3>2. Used' = Used - 1
      BY <2>0, <2>6, <3>1, CounterAdvance DEF PopTail, Used
    <3>3. Published' = [i \in 1..(Used - 1) |-> slots[Slot(tail' + i - 1)]]
      BY <2>6, <3>2 DEF PopTail, Published, Slot
    <3>4. Published # <<>>
      BY <2>0, <3>1
    <3> DEFINE q == Tail(Published)
    <3>5. /\ Head(Published) = Published[1]
          /\ q \in Seq(Entry) /\ Len(q) = Used - 1
          /\ \A i \in 1..(Used - 1) : q[i] = Published[i + 1]
      BY <2>0, <3>4, HeadTailProperties
    <3>6. \A i \in 1..(Used - 1) : Published'[i] = q[i]
      <4> TAKE i \in 1..(Used - 1)
      <4>1. i - 1 \in Nat /\ i + 1 \in 1..Used /\ tail' + i - 1 = tail' + (i - 1)
            /\ tail + 1 + (i - 1) = tail + (i + 1) - 1
        BY <2>0 DEF TypeOK, Counter
      <4>2. Slot(tail' + i - 1) = Slot(tail + (i + 1) - 1)
        BY <2>0, <2>6, <4>1, CounterAdvance DEF PopTail
      <4>3. Published'[i] = slots[Slot(tail' + i - 1)]
        BY <3>3
      <4>4. Published[i + 1] = slots[Slot(tail + (i + 1) - 1)]
        BY <4>1 DEF Published
      <4> QED BY <3>5, <4>2, <4>3, <4>4
    <3>7. Published[1] = pop.m
      <4>1. 1 \in 1..Used /\ tail + 1 - 1 = tail
        BY <2>0, <3>1
      <4>2. Published[1] = slots[Slot(tail + 1 - 1)]
        BY <4>1 DEF Published
      <4> QED BY <3>1, <4>1, <4>2
    <3> HIDE DEF q
    <3>8. Published' = q
      BY <2>0, <3>2, <3>5, <3>6, SameElements
    <3>9. FIFO!Get
      BY <2>6, <3>4, <3>5, <3>7, <3>8 DEF PopTail, FIFO!Get, q
    <3> QED BY <3>9 DEF FIFO!FNext
  <2>7. CASE UNCHANGED ringVars
    BY <2>7, SamePublished DEF ringVars, FIFO!fifoVars
  <2> QED BY <2>1, <2>2, <2>3, <2>4, <2>5, <2>6, <2>7 DEF Next
<1> QED BY <1>1, <1>2, RingInvariant, PTL DEF Spec, ImplementsFIFO, FIFO!FSpec

-----------------------------------------------------------------------------
(* The AF_XDP bridge: the parser                                             *)

Packets == [len : Nat, etype : STRING, ihl : Nat, proto : STRING]

(* ParseFrame reads no byte past the packet, for every length of the packet  *)
(* and of its headers.                                                       *)
LEMMA ParseWithin ==
  ASSUME NEW p \in Packets
  PROVE  ParseFrame(p).end <= p.len
<1>0. p.len \in Nat /\ p.ihl \in Nat /\ L4Len(p) \in Nat
  BY DEF Packets, L4Len, TCPHdrMin, UDPHdrLen
<1>1. ASSUME NEW offset \in Nat, offset <= p.len
      PROVE  parseL4(p, offset) <= p.len
  BY <1>0, <1>1 DEF parseL4
<1> DEFINE short   == p.len < EthHdrLen
           v4Short == p.etype = "ipv4" /\ p.len < EthHdrLen + IPv4HdrMin
           v4Bad   == p.etype = "ipv4" /\ (p.ihl < IPv4HdrMin \/ EthHdrLen + p.ihl > p.len)
           v6Short == p.etype = "ipv6" /\ p.len < EthHdrLen + IPv6HdrLen
<1> USE <1>0 DEF EthHdrLen, IPv4HdrMin, IPv6HdrLen
<1>2. CASE short
  BY <1>2 DEF ParseFrame
<1>3. CASE ~short /\ (v4Short \/ v6Short)
  <2>1. ParseFrame(p).end = EthHdrLen
    BY <1>3 DEF ParseFrame
  <2> QED BY <1>3, <2>1
<1>4. CASE ~short /\ ~v4Short /\ v4Bad
  <2>1. ParseFrame(p).end = EthHdrLen + 1
    BY <1>4 DEF ParseFrame
  <2> QED BY <1>4, <2>1
<1>5. CASE ~short /\ ~v4Short /\ ~v4Bad /\ p.etype = "ipv4"
  <2>1. ParseFrame(p).end = parseL4(p, EthHdrLen + p.ihl)
    BY <1>5 DEF ParseFrame
  <2> QED BY <1>1, <1>5, <2>1
<1>6. CASE ~short /\ ~v6Short /\ p.etype = "ipv6"
  <2>1. ParseFrame(p).end = parseL4(p, EthHdrLen + IPv6HdrLen)
    BY <1>6 DEF ParseFrame
  <2> QED BY <1>1, <1>6, <2>1
<1>7. CASE ~short /\ p.etype # "ipv4" /\ p.etype # "ipv6"
  <2>1. ParseFrame(p).end = EthHdrLen
    BY <1>7 DEF ParseFrame
  <2> QED BY <1>7, <2>1
<1> QED BY <1>2, <1>3, <1>4, <1>5, <1>6, <1>7

-----------------------------------------------------------------------------
(* The AF_XDP bridge: its shutdown                                           *)

(* Once the memory is released no loop is between two accesses to a ring,    *)
(* and one that only starts then sees the cancelled context first.           *)
CloseInv ==
  released => /\ ~ctx
              /\ rxLoop.pc \in {"off", "poll", "done"}
              /\ fillLoop.pc \in {"off", "first", "done"}

(* Every step keeps it, and no step after the release touches the rings. *)
LEMMA CloseStep ==
  ASSUME CloseInv, [BridgeNext]_bridgeVars
  PROVE  /\ CloseInv'
         /\ released => /\ UNCHANGED <<fill, prod, cons, rx, content, lost>>
                        /\ metaCh' = metaCh \/ (metaCh # <<>> /\ metaCh' = Tail(metaCh))
<1> USE DEF CloseInv, Ring, Life, Data
<1>1. ASSUME NEW p \in Shapes, KernelReceive(p)
      PROVE  ~released /\ ~released'
  BY <1>1 DEF KernelReceive
<1>2. CASE ConsumeMeta
  BY <1>2 DEF ConsumeMeta
<1>3. CASE RxPoll
  BY <1>3 DEF RxPoll, Off
<1>4. CASE RxPacket \/ RxReserve \/ RxRefill
  <2>1. ~released /\ ~released'
    BY <1>4 DEF RxPacket, RxReserve, RxRefill
  <2> QED BY <2>1
<1>5. CASE FillFirst
  BY <1>5 DEF FillFirst, Off
<1>6. CASE FillTick \/ FillStop \/ FillReserve \/ FillRefill
  <2>1. ~released /\ ~released'
    BY <1>6 DEF FillTick, FillStop, FillReserve, FillRefill
  <2> QED BY <2>1
<1>7. CASE StartLoops
  BY <1>7 DEF StartLoops, Off
<1>8. CASE Cancel \/ RunReturns \/ DisableRedirect
  BY <1>8 DEF Cancel, RunReturns, DisableRedirect
<1>9. CASE BridgeClose
  BY <1>9 DEF BridgeClose, WaitGroupDone
<1>10. CASE UNCHANGED bridgeVars
  BY <1>10 DEF bridgeVars
<1> QED BY <1>1, <1>2, <1>3, <1>4, <1>5, <1>6, <1>7, <1>8, <1>9, <1>10 DEF BridgeNext

-----------------------------------------------------------------------------
(* The AF_XDP bridge: types and phases                                       *)

Metas == [frame : Frames, pkt : Shapes]
PCs == {"off", "poll", "parse", "first", "wait", "reserve", "publish", "done"}
LoopStates == [pc : PCs, todo : Seq(Frames), frames : Seq(Frames), n : Nat, base : Nat]

BridgeTyped ==
  /\ numFrames \in Nat \ {0} /\ lost \subseteq Frames
  /\ fill \in [0..(FillSize - 1) -> Frames]
  /\ prod \in 0..(RingWord - 1) /\ cons \in 0..(RingWord - 1)
  /\ content \in [Frames -> Shapes] /\ metaCh \in Seq(Metas)
  /\ freeFrames \in Seq(Frames) /\ rx \in Seq(Frames)
  /\ rxLoop \in LoopStates /\ fillLoop \in LoopStates

(* What a loop holds in each of its phases. *)
Phases ==
  /\ rxLoop.pc = "parse" <=> rxLoop.todo # <<>>
  /\ rxLoop.pc \in {"off", "poll", "done"} => rxLoop.frames = <<>>
  /\ fillLoop.pc \in {"off", "first", "wait", "done"} => fillLoop.frames = <<>>
  /\ rxLoop.pc = "publish" => rxLoop.n <= Len(rxLoop.frames)
  /\ fillLoop.pc = "publish" => fillLoop.n <= Len(fillLoop.frames)
  /\ running = "new" => rxLoop.pc = "off" /\ fillLoop.pc = "off"

TypedInv == BridgeTyped /\ Phases

(* A loop that holds nothing, and the fields of one that does. *)
LEMMA LoopFields ==
  /\ \A c \in PCs : [Off EXCEPT !.pc = c] \in LoopStates
  /\ \A l \in LoopStates : /\ l.todo \in Seq(Frames) /\ l.frames \in Seq(Frames)
                           /\ l.pc \in PCs /\ l.n \in Nat /\ l.base \in Nat
<1>1. <<>> \in Seq(Frames)
  BY EmptySeq
<1> QED BY <1>1, Zenon DEF LoopStates, Off

(* The bridge starts with both. *)
LEMMA BridgeStart ==
  ASSUME BridgeInit
  PROVE  TypedInv
<1>1. numFrames \in Nat \ {0} /\ numFrames - Prefilled \in Nat /\ Prefilled \in 0..numFrames
      /\ Prefilled \in 0..FillSize
  BY BridgeAssumption DEF BridgeInit, Prefilled, Least
<1>2. freeFrames \in Seq(Frames)
  <2>1. freeFrames \in [1..(numFrames - Prefilled) -> Frames]
    BY <1>1 DEF BridgeInit, Frames
  <2> QED BY <1>1, <2>1, SeqDef
<1>3. fill \in [0..(FillSize - 1) -> Frames]
  BY <1>1 DEF BridgeInit, Frames
<1>4. prod \in 0..(RingWord - 1) /\ cons \in 0..(RingWord - 1)
  BY <1>1, BridgeAssumption DEF BridgeInit
<1>5. content \in [Frames -> Shapes]
  <2>1. (CHOOSE s \in Shapes : TRUE) \in Shapes
    BY BridgeAssumption
  <2> QED BY <2>1 DEF BridgeInit
<1>6. rxLoop = Off /\ fillLoop = Off /\ rx = <<>> /\ metaCh = <<>> /\ lost = {} /\ running = "new"
  BY DEF BridgeInit
<1>7. Off \in LoopStates
  <2>1. <<>> \in Seq(Frames)
    BY EmptySeq
  <2> QED BY <2>1 DEF LoopStates, Off, PCs
<1>8. BridgeTyped
  BY <1>1, <1>2, <1>3, <1>4, <1>5, <1>6, <1>7, EmptySeq, Zenon DEF BridgeTyped
<1>9. Phases
  BY <1>6 DEF Phases, Off
<1> QED BY <1>8, <1>9 DEF TypedInv

(* No step changes the number of frames. *)
LEMMA SameFrames ==
  ASSUME [BridgeNext]_bridgeVars
  PROVE  numFrames' = numFrames
BY DEF BridgeNext, bridgeVars, KernelReceive, ConsumeMeta, RxPoll, RxPacket, RxReserve, RxRefill,
       FillFirst, FillTick, FillStop, FillReserve, FillRefill, StartLoops, Cancel, RunReturns,
       DisableRedirect, BridgeClose, Life

(* What FillProduce reads: the counters and the descriptors it can add. *)
LEMMA Reserved ==
  ASSUME TypedInv, NEW l \in LoopStates
  PROVE  /\ FillUsed \in 0..(RingWord - 1) /\ FreeSlots \in 0..(RingWord - 1)
         /\ Reserve(l) \in LoopStates
         /\ Reserve(l).pc = "publish" /\ Reserve(l).todo = l.todo /\ Reserve(l).frames = l.frames
         /\ Reserve(l).base = prod
         /\ Reserve(l).n <= Len(l.frames) /\ Reserve(l).n <= FreeSlots
<1>0. /\ prod \in 0..(RingWord - 1) /\ cons \in 0..(RingWord - 1) /\ RingWord \in Nat \ {0}
      /\ FillSize \in Nat \ {0} /\ FillSize < RingWord
  BY BridgeAssumption DEF TypedInv, BridgeTyped
<1>1. FillUsed \in 0..(RingWord - 1)
  BY <1>0, Division DEF FillUsed
<1>2. FreeSlots \in 0..(RingWord - 1)
  BY <1>0, <1>1, Division DEF FreeSlots
<1>3. Len(l.frames) \in Nat
  BY DEF LoopStates
<1>4. PICK k \in Nat : k = Least(Len(l.frames), FreeSlots) /\ k <= Len(l.frames) /\ k <= FreeSlots
  BY <1>2, <1>3 DEF Least
<1>5. Reserve(l) = [l EXCEPT !.pc = "publish", !.n = k, !.base = prod]
  BY <1>4 DEF Reserve
<1>6. Reserve(l) \in LoopStates
  <2> DEFINE r == [l EXCEPT !.pc = "publish", !.n = k, !.base = prod]
             Q == Seq(Frames)
  <2>1. l \in [pc : PCs, todo : Q, frames : Q, n : Nat, base : Nat] /\ prod \in Nat
    BY <1>0 DEF LoopStates
  <2> HIDE DEF Q
  <2>2. r \in [pc : PCs, todo : Q, frames : Q, n : Nat, base : Nat]
    BY <1>4, <2>1, Zenon DEF PCs
  <2> QED BY <1>5, <2>2 DEF LoopStates, Q
<1>7. /\ Reserve(l).pc = "publish" /\ Reserve(l).todo = l.todo /\ Reserve(l).frames = l.frames
      /\ Reserve(l).base = prod /\ Reserve(l).n = k
  BY <1>5 DEF LoopStates
<1> QED BY <1>1, <1>2, <1>4, <1>6, <1>7

(* The first part of a queue and the rest of it. *)
LEMMA Part ==
  ASSUME NEW S, NEW q \in Seq(S), NEW m \in 0..Len(q)
  PROVE  /\ SubSeq(q, 1, m) \in Seq(S) /\ Len(SubSeq(q, 1, m)) = m
         /\ \A i \in 1..m : SubSeq(q, 1, m)[i] = q[i]
         /\ SubSeq(q, m + 1, Len(q)) \in Seq(S) /\ Len(SubSeq(q, m + 1, Len(q))) = Len(q) - m
         /\ \A i \in 1..(Len(q) - m) : SubSeq(q, m + 1, Len(q))[i] = q[m + i]
<1>0. Len(q) \in Nat /\ \A i \in 1..Len(q) : q[i] \in S
  BY LenProperties, ElementOfSeq
<1>1. \A i \in 1..m : q[i] \in S
  BY <1>0
<1>2. \A i \in (m + 1)..Len(q) : q[i] \in S
  BY <1>0
<1>3. /\ SubSeq(q, 1, m) \in Seq(S)
      /\ Len(SubSeq(q, 1, m)) = IF 1 <= m THEN m - 1 + 1 ELSE 0
      /\ \A i \in 1..(m - 1 + 1) : SubSeq(q, 1, m)[i] = q[1 + i - 1]
  BY <1>0, <1>1, SubSeqProperties, SMT
<1>4. PICK k \in Int : k = m + 1
  OBVIOUS
<1>5. /\ SubSeq(q, k, Len(q)) \in Seq(S)
      /\ Len(SubSeq(q, k, Len(q))) = IF k <= Len(q) THEN Len(q) - k + 1 ELSE 0
      /\ \A i \in 1..(Len(q) - k + 1) : SubSeq(q, k, Len(q))[i] = q[k + i - 1]
  BY <1>0, <1>2, <1>4, SubSeqProperties, SMT
<1>6. SubSeq(q, 1, m) \in Seq(S) /\ Len(SubSeq(q, 1, m)) = m
  BY <1>3
<1>7. \A i \in 1..m : SubSeq(q, 1, m)[i] = q[i]
  BY <1>3
<1>8. SubSeq(q, m + 1, Len(q)) \in Seq(S) /\ Len(SubSeq(q, m + 1, Len(q))) = Len(q) - m
  BY <1>0, <1>4, <1>5
<1>9. \A i \in 1..(Len(q) - m) : SubSeq(q, m + 1, Len(q))[i] = q[m + i]
  <2> TAKE i \in 1..(Len(q) - m)
  <2>1. i \in 1..(Len(q) - k + 1) /\ k + i - 1 = m + i
    BY <1>0, <1>4
  <2> QED BY <1>4, <1>5, <2>1
<1> QED BY <1>6, <1>7, <1>8, <1>9

(* The typing of the ring after FillProduce. *)
LEMMA ProducedTyped ==
  ASSUME TypedInv, NEW l \in LoopStates, l.n <= Len(l.frames), FillProduce(l)
  PROVE  /\ fill' \in [0..(FillSize - 1) -> Frames] /\ prod' \in 0..(RingWord - 1)
         /\ lost' \subseteq Frames
<1>1. l.n \in Nat /\ l.base \in Nat /\ l.frames \in Seq(Frames) /\ Len(l.frames) \in Nat
  BY LoopFields, LenProperties
<1>2. \A i \in 1..Len(l.frames) : l.frames[i] \in Frames
  BY <1>1, ElementOfSeq
<1>3. fill' \in [0..(FillSize - 1) -> Frames]
  <2> DEFINE hit(s) == \E i \in 1..l.n : (l.base + i - 1) % FillSize = s
             at(s)  == CHOOSE i \in 1..l.n : (l.base + i - 1) % FillSize = s
  <2>0. fill \in [0..(FillSize - 1) -> Frames]
    BY DEF TypedInv, BridgeTyped
  <2>1. fill' = [s \in 0..(FillSize - 1) |-> IF hit(s) THEN l.frames[at(s)] ELSE fill[s]]
    BY <2>0 DEF FillProduce
  <2>2. ASSUME NEW s \in 0..(FillSize - 1), hit(s)
        PROVE  l.frames[at(s)] \in Frames
    <3>1. at(s) \in 1..l.n
      BY <2>2
    <3> HIDE DEF at
    <3>2. at(s) \in 1..Len(l.frames)
      BY <1>1, <3>1
    <3> QED BY <1>2, <3>2
  <2> HIDE DEF hit, at
  <2> QED BY <2>0, <2>1, <2>2
<1>4. prod' \in 0..(RingWord - 1)
  <2>1. l.base + l.n \in Nat /\ RingWord \in Nat \ {0}
    BY <1>1, BridgeAssumption
  <2>2. (l.base + l.n) % RingWord \in 0..(RingWord - 1)
    BY <2>1, Division, Zenon
  <2> QED BY <2>2 DEF FillProduce, Publish
<1>5. lost' \subseteq Frames
  BY <1>1, <1>2 DEF FillProduce, TypedInv, BridgeTyped
<1> QED BY <1>3, <1>4, <1>5

(* The kernel and the consumer keep the types. *)
LEMMA TypedOutside ==
  ASSUME TypedInv, NEW p \in Shapes, KernelReceive(p) \/ ConsumeMeta
  PROVE  TypedInv'
<1> USE DEF TypedInv, Life, Ring
<1>1. CASE KernelReceive(p)
  <2> DEFINE f == fill[cons % FillSize]
  <2>1. f \in Frames
    <3>1. cons % FillSize \in 0..(FillSize - 1)
      BY BridgeAssumption, Division DEF BridgeTyped
    <3> QED BY <3>1 DEF BridgeTyped
  <2>2. Append(rx, f) \in Seq(Frames)
    BY <2>1, AppendProperties DEF BridgeTyped
  <2>3. (cons + 1) % RingWord \in 0..(RingWord - 1)
    BY BridgeAssumption, Division DEF BridgeTyped
  <2>4. [content EXCEPT ![f] = p] \in [Frames -> Shapes]
    BY <2>1 DEF BridgeTyped
  <2> HIDE DEF f
  <2>5. /\ rx' = Append(rx, f) /\ content' = [content EXCEPT ![f] = p] /\ cons' = (cons + 1) % RingWord
        /\ UNCHANGED <<numFrames, running, freeFrames, fill, prod, metaCh, rxLoop, fillLoop, lost>>
    BY <1>1, Zenon DEF KernelReceive, f
  <2>6. Frames' = Frames /\ LoopStates' = LoopStates /\ Metas' = Metas
    BY <2>5 DEF Frames, LoopStates, Metas
  <2>7. BridgeTyped'
    BY <2>2, <2>3, <2>4, <2>5, <2>6, Zenon DEF BridgeTyped
  <2>8. Phases'
    BY <2>5, Zenon DEF Phases
  <2> QED BY <2>7, <2>8
<1>2. CASE ConsumeMeta
  <2>1. metaCh' \in Seq(Metas)
    BY <1>2, HeadTailProperties DEF ConsumeMeta, BridgeTyped
  <2>2. UNCHANGED <<numFrames, running, freeFrames, fill, prod, cons, rx, content, rxLoop, fillLoop, lost>>
    BY <1>2, Zenon DEF ConsumeMeta
  <2>3. Frames' = Frames /\ LoopStates' = LoopStates /\ Metas' = Metas
    BY <2>2 DEF Frames, LoopStates, Metas
  <2>4. BridgeTyped'
    BY <2>1, <2>2, <2>3, Zenon DEF BridgeTyped
  <2>5. Phases'
    BY <2>2, Zenon DEF Phases
  <2> QED BY <2>4, <2>5
<1> QED BY <1>1, <1>2

(* A batch of the RX ring: taken, and parsed packet by packet. *)
LEMMA TypedReceive ==
  ASSUME TypedInv, RxPoll \/ RxPacket
  PROVE  TypedInv'
<1> USE DEF TypedInv, Life, Ring
<1>0. numFrames' = numFrames /\ Frames' = Frames /\ LoopStates' = LoopStates /\ Metas' = Metas
  <2>1. numFrames' = numFrames
    BY DEF RxPoll, RxPacket
  <2> QED BY <2>1 DEF Frames, LoopStates, Metas
<1>1. CASE RxPoll /\ ~ctx
  <2>1. [Off EXCEPT !.pc = "done"] \in LoopStates
    BY LoopFields DEF PCs
  <2>2. /\ rxLoop' = [Off EXCEPT !.pc = "done"]
        /\ UNCHANGED <<numFrames, running, freeFrames, fill, prod, cons, rx, content, metaCh, fillLoop, lost>>
    BY <1>1, Zenon DEF RxPoll
  <2>3. BridgeTyped'
    BY <1>0, <2>1, <2>2, Zenon DEF BridgeTyped
  <2>4. rxLoop'.pc = "done" /\ rxLoop'.todo = <<>> /\ rxLoop'.frames = <<>> /\ running # "new"
    BY <1>1, <2>2 DEF Off, Phases, RxPoll
  <2>5. Phases'
    BY <2>2, <2>4 DEF Phases
  <2> QED BY <2>3, <2>5
<1>2. CASE RxPoll /\ ctx
  <2>1. PICK m : m = Least(BatchSize, Len(rx))
    OBVIOUS
  <2>2. /\ rx # <<>> /\ rxLoop.pc = "poll"
        /\ rxLoop' = [Off EXCEPT !.pc = "parse", !.todo = SubSeq(rx, 1, m)]
        /\ rx' = SubSeq(rx, m + 1, Len(rx))
        /\ UNCHANGED <<numFrames, running, freeFrames, fill, prod, cons, content, metaCh, fillLoop, lost>>
    BY <1>2, <2>1, Zenon DEF RxPoll
  <2>3. m \in 1..Len(rx)
    <3>1. Len(rx) \in Nat \ {0}
      <4>1. rx \in Seq(Frames)
        BY DEF BridgeTyped
      <4> QED BY <2>2, <4>1, EmptySeq
    <3> QED BY <2>1, <3>1, BridgeAssumption DEF Least
  <2>4. SubSeq(rx, 1, m) \in Seq(Frames) /\ Len(SubSeq(rx, 1, m)) = m /\ rx' \in Seq(Frames)
    <3>1. rx \in Seq(Frames) /\ m \in 0..Len(rx)
      BY <2>3 DEF BridgeTyped
    <3> QED BY <2>2, <3>1, Part
  <2>5. PICK t \in Seq(Frames) : t = SubSeq(rx, 1, m) /\ t # <<>>
    <3>1. Len(SubSeq(rx, 1, m)) # 0
      BY <2>3, <2>4
    <3>2. SubSeq(rx, 1, m) # <<>>
      BY <3>1, EmptySeq, Zenon
    <3> QED BY <2>4, <3>2, Zenon
  <2>6. rxLoop' = [pc |-> "parse", todo |-> t, frames |-> <<>>, n |-> 0, base |-> 0]
    BY <2>2, <2>5, Zenon DEF Off
  <2>7. rxLoop' \in LoopStates
    BY <2>6, EmptySeq DEF LoopStates, PCs
  <2>8. BridgeTyped'
    BY <1>0, <2>2, <2>4, <2>7, Zenon DEF BridgeTyped
  <2>9. rxLoop'.pc = "parse" /\ rxLoop'.todo # <<>> /\ rxLoop'.frames = <<>> /\ running # "new"
    <3>1. running # "new"
      BY <2>2 DEF Phases
    <3> QED BY <2>5, <2>6, <3>1
  <2>10. Phases'
    BY <2>2, <2>9 DEF Phases
  <2> QED BY <2>8, <2>10
<1>3. CASE RxPacket
  <2>1. /\ rxLoop.pc = "parse" /\ rxLoop.todo # <<>>
        /\ rxLoop.todo \in Seq(Frames) /\ rxLoop.frames \in Seq(Frames)
        /\ rxLoop.n \in Nat /\ rxLoop.base \in Nat
    BY <1>3, LoopFields DEF RxPacket, Phases, BridgeTyped
  <2>2. PICK f \in Frames : f = Head(rxLoop.todo)
    BY <2>1, HeadTailProperties
  <2>3. metaCh' \in Seq(Metas)
    <3>1. [frame |-> f, pkt |-> content[f]] \in Metas
      BY <2>2 DEF Metas, BridgeTyped
    <3>2. metaCh' = metaCh \/ metaCh' = Append(metaCh, [frame |-> f, pkt |-> content[f]])
      BY <1>3, <2>2 DEF RxPacket
    <3>3. metaCh \in Seq(Metas)
      BY DEF BridgeTyped
    <3> QED BY <3>1, <3>2, <3>3, AppendProperties, Zenon
  <2>4. PICK t \in Seq(Frames) : t = Tail(rxLoop.todo) /\ Len(t) = Len(rxLoop.todo) - 1
    BY <2>1, HeadTailProperties, Zenon
  <2>5. PICK g \in Seq(Frames) : g = Append(rxLoop.frames, f)
    BY <2>1, AppendProperties, Zenon
  <2>6. PICK c : c = IF Len(rxLoop.todo) = 1 THEN "reserve" ELSE "parse"
    OBVIOUS
  <2>7. /\ rxLoop' = [rxLoop EXCEPT !.todo = t, !.frames = g, !.pc = c]
        /\ UNCHANGED <<numFrames, running, freeFrames, fill, prod, cons, rx, content, fillLoop, lost>>
    BY <1>3, <2>2, <2>4, <2>5, <2>6 DEF RxPacket
  <2>8. rxLoop'.todo = t /\ rxLoop'.frames = g /\ rxLoop'.pc = c /\ rxLoop' \in LoopStates
    <3>1. c \in PCs
      BY <2>6 DEF PCs
    <3> QED BY <2>7, <3>1, Zenon DEF LoopStates, BridgeTyped
  <2>9. BridgeTyped'
    BY <1>0, <2>3, <2>7, <2>8, Zenon DEF BridgeTyped
  <2>10. c = "parse" <=> t # <<>>
    <3>1. Len(t) = 0 <=> t = <<>>
      BY <2>4, EmptySeq, Zenon
    <3>2. Len(t) \in Nat /\ Len(rxLoop.todo) \in Nat
      BY <2>1, <2>4, LenProperties
    <3>3. Len(t) = 0 <=> Len(rxLoop.todo) = 1
      BY <2>4, <3>2
    <3> QED BY <2>6, <3>1, <3>3
  <2>11. c \in {"parse", "reserve"} /\ running # "new"
    BY <2>1, <2>6 DEF Phases
  <2>12. Phases'
    BY <2>7, <2>8, <2>10, <2>11 DEF Phases
  <2> QED BY <2>9, <2>12
<1> QED BY <1>1, <1>2, <1>3

(* The two steps of FillProduce, by either loop. *)
LEMMA TypedRefill ==
  ASSUME TypedInv, RxReserve \/ RxRefill \/ FillReserve \/ FillRefill
  PROVE  TypedInv'
<1> USE DEF TypedInv, Life, Ring
<1>0. numFrames' = numFrames /\ Frames' = Frames /\ LoopStates' = LoopStates /\ Metas' = Metas
  <2>1. numFrames' = numFrames
    BY DEF RxReserve, RxRefill, FillReserve, FillRefill
  <2> QED BY <2>1 DEF Frames, LoopStates, Metas
<1>1. rxLoop \in LoopStates /\ fillLoop \in LoopStates
  BY DEF BridgeTyped
<1>2. ASSUME NEW l \in LoopStates
      PROVE  /\ Reserve(l) \in LoopStates
             /\ Reserve(l).pc = "publish" /\ Reserve(l).todo = l.todo /\ Reserve(l).frames = l.frames
             /\ Reserve(l).n <= Len(l.frames)
  BY Reserved, Zenon
<1>3. CASE RxReserve
  <2>1. /\ rxLoop.pc = "reserve" /\ rxLoop' = Reserve(rxLoop)
        /\ UNCHANGED <<numFrames, running, freeFrames, fill, prod, cons, rx, content, metaCh, fillLoop, lost>>
    BY <1>3, Zenon DEF RxReserve
  <2>2. BridgeTyped'
    BY <1>0, <1>1, <1>2, <2>1, Zenon DEF BridgeTyped
  <2>3. /\ rxLoop'.pc = "publish" /\ rxLoop'.todo = rxLoop.todo
        /\ rxLoop'.n <= Len(rxLoop'.frames)
    BY <1>1, <1>2, <2>1, Zenon
  <2>4. rxLoop.todo = <<>> /\ running # "new"
    BY <2>1 DEF Phases
  <2>5. Phases'
    BY <2>1, <2>3, <2>4 DEF Phases
  <2> QED BY <2>2, <2>5
<1>4. CASE FillReserve
  <2>1. /\ fillLoop.pc = "reserve" /\ fillLoop' = Reserve(fillLoop)
        /\ UNCHANGED <<numFrames, running, freeFrames, fill, prod, cons, rx, content, metaCh, rxLoop, lost>>
    BY <1>4, Zenon DEF FillReserve
  <2>2. BridgeTyped'
    BY <1>0, <1>1, <1>2, <2>1, Zenon DEF BridgeTyped
  <2>3. fillLoop'.pc = "publish" /\ fillLoop'.n <= Len(fillLoop'.frames)
    BY <1>1, <1>2, <2>1, Zenon
  <2>4. running # "new"
    BY <2>1 DEF Phases
  <2>5. Phases'
    BY <2>1, <2>3, <2>4 DEF Phases
  <2> QED BY <2>2, <2>5
<1>5. CASE RxRefill
  <2>1. /\ rxLoop.pc = "publish" /\ FillProduce(rxLoop) /\ rxLoop' = [Off EXCEPT !.pc = "poll"]
        /\ UNCHANGED <<numFrames, running, freeFrames, cons, rx, content, metaCh, fillLoop>>
    BY <1>5, Zenon DEF RxRefill
  <2>2. rxLoop.n <= Len(rxLoop.frames) /\ running # "new"
    BY <2>1 DEF Phases
  <2>3. /\ fill' \in [0..(FillSize - 1) -> Frames] /\ prod' \in 0..(RingWord - 1)
        /\ lost' \subseteq Frames
    BY <1>1, <2>1, <2>2, ProducedTyped, Zenon
  <2>4. rxLoop' \in LoopStates
    <3>1. "poll" \in PCs
      BY DEF PCs
    <3> QED BY <2>1, <3>1, LoopFields, Zenon
  <2>5. BridgeTyped'
    BY <1>0, <2>1, <2>3, <2>4, Zenon DEF BridgeTyped
  <2>6. rxLoop'.pc = "poll" /\ rxLoop'.todo = <<>> /\ rxLoop'.frames = <<>>
    BY <2>1 DEF Off
  <2>7. Phases'
    BY <2>1, <2>2, <2>6 DEF Phases
  <2> QED BY <2>5, <2>7
<1>6. CASE FillRefill
  <2>1. /\ fillLoop.pc = "publish" /\ FillProduce(fillLoop) /\ fillLoop' = [Off EXCEPT !.pc = "wait"]
        /\ UNCHANGED <<numFrames, running, freeFrames, cons, rx, content, metaCh, rxLoop>>
    BY <1>6, Zenon DEF FillRefill
  <2>2. fillLoop.n <= Len(fillLoop.frames) /\ running # "new"
    BY <2>1 DEF Phases
  <2>3. /\ fill' \in [0..(FillSize - 1) -> Frames] /\ prod' \in 0..(RingWord - 1)
        /\ lost' \subseteq Frames
    BY <1>1, <2>1, <2>2, ProducedTyped, Zenon
  <2>4. fillLoop' \in LoopStates
    <3>1. "wait" \in PCs
      BY DEF PCs
    <3> QED BY <2>1, <3>1, LoopFields, Zenon
  <2>5. BridgeTyped'
    BY <1>0, <2>1, <2>3, <2>4, Zenon DEF BridgeTyped
  <2>6. fillLoop'.pc = "wait" /\ fillLoop'.frames = <<>>
    BY <2>1 DEF Off
  <2>7. Phases'
    BY <2>1, <2>2, <2>6 DEF Phases
  <2> QED BY <2>5, <2>7
<1> QED BY <1>3, <1>4, <1>5, <1>6

(* The other steps of fillLoop. *)
LEMMA TypedFill ==
  ASSUME TypedInv, FillFirst \/ FillTick \/ FillStop
  PROVE  TypedInv'
<1> USE DEF TypedInv, Life, Ring
<1>0. numFrames' = numFrames /\ Frames' = Frames /\ LoopStates' = LoopStates /\ Metas' = Metas
  <2>1. numFrames' = numFrames
    BY DEF FillFirst, FillTick, FillStop
  <2> QED BY <2>1 DEF Frames, LoopStates, Metas
<1>1. CASE FillFirst \/ FillStop
  <2>1. PICK c \in {"wait", "done"} : fillLoop' = [Off EXCEPT !.pc = c]
    BY <1>1 DEF FillFirst, FillStop
  <2>2. UNCHANGED <<numFrames, running, freeFrames, fill, prod, cons, rx, content, metaCh, rxLoop, lost>>
    BY <1>1, Zenon DEF FillFirst, FillStop
  <2>3. fillLoop' \in LoopStates
    <3>1. c \in PCs
      BY DEF PCs
    <3> QED BY <2>1, <3>1, LoopFields, Zenon
  <2>4. BridgeTyped'
    BY <1>0, <2>2, <2>3, Zenon DEF BridgeTyped
  <2>5. fillLoop'.pc = c /\ fillLoop'.frames = <<>>
    BY <2>1 DEF Off
  <2>6. running # "new"
    BY <1>1 DEF FillFirst, FillStop, Phases
  <2>7. Phases'
    BY <2>2, <2>5, <2>6 DEF Phases
  <2> QED BY <2>4, <2>7
<1>2. CASE FillTick
  <2>1. PICK m : m = toAdd
    OBVIOUS
  <2>2. /\ fillLoop.pc = "wait"
        /\ fillLoop' = [fillLoop EXCEPT !.pc = "reserve", !.frames = SubSeq(freeFrames, 1, m)]
        /\ freeFrames' = SubSeq(freeFrames, m + 1, Len(freeFrames))
        /\ UNCHANGED <<numFrames, running, fill, prod, cons, rx, content, metaCh, rxLoop, lost>>
    BY <1>2, <2>1, Zenon DEF FillTick
  <2>3. m \in 0..Len(freeFrames) /\ freeFrames \in Seq(Frames)
    BY <2>1, LenProperties DEF toAdd, BridgeTyped
  <2>4. SubSeq(freeFrames, 1, m) \in Seq(Frames) /\ freeFrames' \in Seq(Frames)
    BY <2>2, <2>3, Part
  <2>5. PICK g \in Seq(Frames) : g = SubSeq(freeFrames, 1, m)
    BY <2>4, Zenon
  <2>6. fillLoop' = [fillLoop EXCEPT !.pc = "reserve", !.frames = g]
    BY <2>2, <2>5
  <2>7. fillLoop'.pc = "reserve" /\ fillLoop' \in LoopStates
    BY <2>6, Zenon DEF LoopStates, BridgeTyped, PCs
  <2>8. BridgeTyped'
    BY <1>0, <2>2, <2>4, <2>7, Zenon DEF BridgeTyped
  <2>9. running # "new"
    BY <2>2 DEF Phases
  <2>10. Phases'
    BY <2>2, <2>7, <2>9 DEF Phases
  <2> QED BY <2>8, <2>10
<1> QED BY <1>1, <1>2

(* The steps of Run and Close. *)
LEMMA TypedLife ==
  ASSUME TypedInv, StartLoops \/ Cancel \/ RunReturns \/ DisableRedirect \/ BridgeClose
  PROVE  TypedInv'
<1> USE DEF TypedInv
<1>0. UNCHANGED <<numFrames, freeFrames, fill, prod, cons, rx, content, metaCh, lost>>
  BY DEF StartLoops, Cancel, RunReturns, DisableRedirect, BridgeClose, Data, Ring
<1>1. Frames' = Frames /\ LoopStates' = LoopStates /\ Metas' = Metas
  BY <1>0 DEF Frames, LoopStates, Metas
<1>2. CASE StartLoops
  <2>1. /\ rxLoop' = [Off EXCEPT !.pc = "poll"] /\ fillLoop' = [Off EXCEPT !.pc = "first"]
        /\ running' = "running"
    BY <1>2 DEF StartLoops
  <2>2. "poll" \in PCs /\ "first" \in PCs
    BY DEF PCs
  <2>3. rxLoop' \in LoopStates /\ fillLoop' \in LoopStates
    BY <2>1, <2>2, LoopFields, Zenon
  <2>4. BridgeTyped'
    BY <1>0, <1>1, <2>3, Zenon DEF BridgeTyped
  <2>5. /\ rxLoop'.pc = "poll" /\ rxLoop'.todo = <<>> /\ rxLoop'.frames = <<>>
        /\ fillLoop'.pc = "first" /\ fillLoop'.frames = <<>>
    BY <2>1 DEF Off
  <2>6. Phases'
    BY <2>1, <2>5 DEF Phases
  <2> QED BY <2>4, <2>6
<1>3. CASE Cancel \/ RunReturns \/ DisableRedirect \/ BridgeClose
  <2>1. UNCHANGED <<rxLoop, fillLoop>> /\ (running' = running \/ running' = "returned")
    BY <1>3 DEF Cancel, RunReturns, DisableRedirect, BridgeClose
  <2>2. BridgeTyped'
    BY <1>0, <1>1, <2>1, Zenon DEF BridgeTyped
  <2>3. Phases'
    BY <2>1 DEF Phases
  <2> QED BY <2>2, <2>3
<1> QED BY <1>2, <1>3

(* Every step keeps the types and the phases. *)
LEMMA TypedStep ==
  ASSUME TypedInv, [BridgeNext]_bridgeVars
  PROVE  TypedInv'
<1>1. ASSUME NEW p \in Shapes, KernelReceive(p)
      PROVE  TypedInv'
  BY <1>1, TypedOutside, Zenon
<1>2. CASE ConsumeMeta
  <2>1. PICK p : p \in Shapes
    BY BridgeAssumption
  <2> QED BY <1>2, <2>1, TypedOutside, Zenon
<1>3. CASE UNCHANGED bridgeVars
  <2>1. UNCHANGED <<numFrames, running, freeFrames, fill, prod, cons, rx, content, metaCh, rxLoop, fillLoop, lost>>
    BY <1>3, Zenon DEF bridgeVars
  <2>2. Frames' = Frames /\ LoopStates' = LoopStates /\ Metas' = Metas
    BY <2>1 DEF Frames, LoopStates, Metas
  <2> QED BY <2>1, <2>2, Zenon DEF TypedInv, BridgeTyped, Phases
<1> QED BY <1>1, <1>2, <1>3, TypedReceive, TypedRefill, TypedFill, TypedLife, Zenon DEF BridgeNext

(* Whatever the packets' lengths and header lengths, ParseFrame reads no byte *)
(* past the packet it was given (packet.go).                                  *)
THEOREM ParserStaysInside == BridgeSpec => []ParseInBounds
<1>1. TypedInv => ParseInBounds
  <2> SUFFICES ASSUME TypedInv, rxLoop.pc = "parse"
               PROVE  ParseFrame(content[Head(rxLoop.todo)]).end <= content[Head(rxLoop.todo)].len
    BY DEF ParseInBounds
  <2>1. rxLoop.todo \in Seq(Frames) /\ rxLoop.todo # <<>>
    BY LoopFields DEF TypedInv, BridgeTyped, Phases
  <2>2. PICK p \in Shapes : p = content[Head(rxLoop.todo)]
    BY <2>1, HeadTailProperties DEF TypedInv, BridgeTyped
  <2>3. p \in Packets
    BY BridgeAssumption DEF Packets
  <2> QED BY <2>2, <2>3, ParseWithin
<1> QED BY <1>1, BridgeStart, TypedStep, PTL DEF BridgeSpec

(* After Close released the memory no step touches the rings, the frames or  *)
(* the closed MetaCh, whenever the goroutine of Run is scheduled.            *)
THEOREM BridgeClosesLast == BridgeSpec => NothingAfterClose
<1> DEFINE Quiet == released => /\ UNCHANGED <<fill, prod, cons, rx, content, lost>>
                                /\ Len(metaCh') <= Len(metaCh)
<1>1. BridgeInit => CloseInv
  BY DEF BridgeInit, CloseInv
<1>2. CloseInv /\ [BridgeNext]_bridgeVars => CloseInv'
  BY CloseStep, Zenon
<1>3. TypedInv /\ CloseInv /\ [BridgeNext]_bridgeVars => [Quiet]_bridgeVars
  <2> SUFFICES ASSUME TypedInv, CloseInv, [BridgeNext]_bridgeVars, released
               PROVE  /\ UNCHANGED <<fill, prod, cons, rx, content, lost>>
                      /\ Len(metaCh') <= Len(metaCh)
    OBVIOUS
  <2>1. /\ UNCHANGED <<fill, prod, cons, rx, content, lost>>
        /\ metaCh' = metaCh \/ (metaCh # <<>> /\ metaCh' = Tail(metaCh))
    BY CloseStep, Zenon
  <2>2. metaCh \in Seq(Metas)
    BY DEF TypedInv, BridgeTyped
  <2>3. Len(metaCh') <= Len(metaCh)
    BY <2>1, <2>2, HeadTailProperties, LenProperties
  <2> QED BY <2>1, <2>3
<1> QED BY <1>1, <1>2, <1>3, BridgeStart, TypedStep, PTL DEF BridgeSpec, NothingAfterClose

-----------------------------------------------------------------------------
(* The AF_XDP bridge: the counters of the FILL ring                          *)

Span(p, c) == (p - c + RingWord) % RingWord
Index == 0..(RingWord - 1)

(* How far the producer is ahead, whichever counter has wrapped. *)
LEMMA SpanValue ==
  ASSUME NEW p \in Index, NEW c \in Index
  PROVE  Span(p, c) = (IF p >= c THEN p - c ELSE p + RingWord - c) /\ Span(p, c) \in Index
<1>0. RingWord \in Nat \ {0}
  BY BridgeAssumption
<1>1. CASE p >= c
  <2>1. PICK e \in RingWord..(2 * RingWord - 1) : e = p - c + RingWord
    BY <1>0, <1>1 DEF Index
  <2>2. e % RingWord = e - RingWord
    BY <1>0, <2>1, RemainderWrap, Zenon
  <2> QED BY <1>0, <1>1, <2>1, <2>2 DEF Span, Index
<1>2. CASE p < c
  <2>1. PICK e \in 0..(RingWord - 1) : e = p - c + RingWord
    BY <1>0, <1>2 DEF Index
  <2>2. e % RingWord = e
    BY <1>0, <2>1, RemainderSmall, Zenon
  <2> QED BY <1>0, <1>2, <2>1, <2>2 DEF Span, Index
<1> QED BY <1>0, <1>1, <1>2 DEF Index

(* A counter that moves on by n, modulo the word. *)
LEMMA Advance ==
  ASSUME NEW c \in Index, NEW n \in 0..(RingWord - 1)
  PROVE  /\ (c + n) % RingWord = (IF c + n < RingWord THEN c + n ELSE c + n - RingWord)
         /\ (c + n) % RingWord \in Index
<1>0. RingWord \in Nat \ {0}
  BY BridgeAssumption
<1>1. CASE c + n < RingWord
  <2>1. PICK e \in 0..(RingWord - 1) : e = c + n
    BY <1>0, <1>1 DEF Index
  <2>2. e % RingWord = e
    BY <1>0, <2>1, RemainderSmall, Zenon
  <2> QED BY <1>1, <2>1, <2>2 DEF Index
<1>2. CASE c + n >= RingWord
  <2>1. PICK e \in RingWord..(2 * RingWord - 1) : e = c + n
    BY <1>0, <1>2 DEF Index
  <2>2. e % RingWord = e - RingWord
    BY <1>0, <2>1, RemainderWrap, Zenon
  <2> QED BY <1>0, <1>2, <2>1, <2>2 DEF Index
<1> QED BY <1>0, <1>1, <1>2 DEF Index

(* The producer adds n entries; the consumer takes one. *)
LEMMA SpanSteps ==
  ASSUME NEW p \in Index, NEW c \in Index
  PROVE  /\ \A n \in Nat : Span(p, c) + n < RingWord => Span((p + n) % RingWord, c) = Span(p, c) + n
         /\ Span(p, c) > 0 => Span(p, (c + 1) % RingWord) = Span(p, c) - 1
<1>0. RingWord \in Nat \ {0, 1}
  BY BridgeAssumption
<1>1. ASSUME NEW n \in Nat, Span(p, c) + n < RingWord
      PROVE  Span((p + n) % RingWord, c) = Span(p, c) + n
  <2>1. n \in 0..(RingWord - 1)
    BY <1>0, <1>1, SpanValue DEF Index
  <2>2. PICK q \in Index : q = (p + n) % RingWord /\ q = IF p + n < RingWord THEN p + n ELSE p + n - RingWord
    BY <2>1, Advance
  <2>3. Span(q, c) = IF q >= c THEN q - c ELSE q + RingWord - c
    BY <2>2, SpanValue
  <2>4. Span(p, c) = IF p >= c THEN p - c ELSE p + RingWord - c
    BY SpanValue
  <2> QED BY <1>0, <1>1, <2>1, <2>2, <2>3, <2>4 DEF Index
<1>2. ASSUME Span(p, c) > 0
      PROVE  Span(p, (c + 1) % RingWord) = Span(p, c) - 1
  <2>1. 1 \in 0..(RingWord - 1)
    BY <1>0
  <2>2. PICK d \in Index : d = (c + 1) % RingWord /\ d = IF c + 1 < RingWord THEN c + 1 ELSE c + 1 - RingWord
    BY <2>1, Advance
  <2>3. Span(p, d) = IF p >= d THEN p - d ELSE p + RingWord - d
    BY <2>2, SpanValue
  <2>4. Span(p, c) = IF p >= c THEN p - c ELSE p + RingWord - c
    BY SpanValue
  <2> QED BY <1>0, <1>2, <2>2, <2>3, <2>4 DEF Index
<1> QED BY <1>1, <1>2

(* The slots of the ring: the producer's next one follows the ones in use,   *)
(* and the consumer's next one is the same before and after the counter      *)
(* wraps.                                                                    *)
LEMMA SlotsFollow ==
  ASSUME NEW p \in Index, NEW c \in Index, NEW j \in Nat
  PROVE  /\ (p + j) % FillSize = (c + Span(p, c) + j) % FillSize
         /\ (((c + 1) % RingWord) + j) % FillSize = (c + 1 + j) % FillSize
<1>0. /\ RingWord \in Nat \ {0, 1} /\ FillSize \in Nat \ {0} /\ RingWord % FillSize = 0
      /\ p \in Nat /\ c \in Nat /\ p < RingWord /\ c < RingWord
  BY BridgeAssumption DEF Index
<1>1. \A x \in Nat : (x + RingWord) % FillSize = x % FillSize
  BY <1>0, RemainderShift, Zenon
<1>2. (p + j) % FillSize = (c + Span(p, c) + j) % FillSize
  <2>1. CASE p >= c
    <3>1. c + Span(p, c) + j = p + j
      BY <1>0, <2>1, SpanValue
    <3> QED BY <3>1
  <2>2. CASE p < c
    <3>1. PICK x \in Nat : x = p + j
      BY <1>0
    <3>2. c + Span(p, c) + j = x + RingWord
      BY <1>0, <2>2, <3>1, SpanValue
    <3> QED BY <1>1, <3>1, <3>2
  <2> QED BY <1>0, <2>1, <2>2
<1>3. (((c + 1) % RingWord) + j) % FillSize = (c + 1 + j) % FillSize
  <2>1. 1 \in 0..(RingWord - 1)
    BY <1>0
  <2>2. PICK d \in Index : d = (c + 1) % RingWord /\ d = IF c + 1 < RingWord THEN c + 1 ELSE c + 1 - RingWord
    BY <2>1, Advance
  <2>3. CASE c + 1 < RingWord
    BY <2>2, <2>3
  <2>4. CASE c + 1 >= RingWord
    <3>1. d = 0 /\ c + 1 + j = j + RingWord /\ d + j = j
      BY <1>0, <2>2, <2>4
    <3> QED BY <1>1, <2>2, <3>1
  <2> QED BY <1>0, <2>3, <2>4
<1> QED BY <1>2, <1>3

(* The FILL ring never holds more than it has room for; while no two         *)
(* producers overlapped, at most one of them is between the two steps of     *)
(* FillProduce, and what it read there still holds.                          *)
FillRingInv ==
  /\ FillUsed <= FillSize
  /\ ~overlap => /\ ~(rxLoop.pc = "publish" /\ fillLoop.pc = "publish")
                 /\ rxLoop.pc = "publish" => rxLoop.base = prod /\ rxLoop.n <= FillSize - FillUsed
                 /\ fillLoop.pc = "publish" => fillLoop.base = prod /\ fillLoop.n <= FillSize - FillUsed

(* The counters, and the free slots a reservation sees. *)
LEMMA RingFacts ==
  ASSUME TypedInv, FillRingInv
  PROVE  /\ prod \in Index /\ cons \in Index /\ FillUsed = Span(prod, cons)
         /\ FillUsed \in 0..FillSize /\ FreeSlots = FillSize - FillUsed
<1>1. prod \in Index /\ cons \in Index
  BY DEF TypedInv, BridgeTyped, Index
<1>2. FillUsed = Span(prod, cons)
  BY DEF FillUsed, Span
<1>3. FillUsed \in 0..FillSize
  BY <1>1, <1>2, SpanValue, BridgeAssumption DEF FillRingInv, Index
<1>4. FreeSlots = FillSize - FillUsed
  <2>0. RingWord \in Nat \ {0} /\ FillSize \in Nat /\ FillSize < RingWord
    BY BridgeAssumption
  <2>1. PICK e \in RingWord..(2 * RingWord - 1) : e = FillSize - FillUsed + RingWord
    BY <1>3, <2>0
  <2>2. e % RingWord = e - RingWord
    BY <2>0, <2>1, RemainderWrap, Zenon
  <2> QED BY <1>3, <2>0, <2>1, <2>2 DEF FreeSlots
<1> QED BY <1>1, <1>2, <1>3, <1>4

(* The kernel takes the oldest descriptor. *)
LEMMA RingTaken ==
  ASSUME TypedInv, FillRingInv, NEW p \in Shapes, KernelReceive(p)
  PROVE  /\ FillUsed \in 1..FillSize /\ FillUsed' = FillUsed - 1
         /\ FillQueue' = [i \in 1..(FillUsed - 1) |-> FillQueue[i + 1]]
         /\ FillQueue[1] = fill[cons % FillSize]
<1>0. /\ prod \in Index /\ cons \in Index /\ FillUsed = Span(prod, cons) /\ FillUsed \in 0..FillSize
  BY RingFacts
<1>1. /\ FillUsed > 0 /\ cons' = (cons + 1) % RingWord /\ prod' = prod /\ fill' = fill
  BY DEF KernelReceive
<1>2. FillUsed' = Span(prod, (cons + 1) % RingWord)
  BY <1>1 DEF FillUsed, Span
<1>3. FillUsed' = FillUsed - 1
  BY <1>0, <1>1, <1>2, SpanSteps
<1>4. FillUsed \in 1..FillSize
  BY <1>0, <1>1
<1>5. ASSUME NEW i \in 1..(FillUsed - 1)
      PROVE  fill[(cons' + i - 1) % FillSize] = FillQueue[i + 1]
  <2>1. i + 1 \in 1..FillUsed /\ i - 1 \in Nat
    BY <1>4
  <2>2. FillQueue[i + 1] = fill[(cons + (i + 1) - 1) % FillSize]
    BY <2>1 DEF FillQueue
  <2>3. (((cons + 1) % RingWord) + (i - 1)) % FillSize = (cons + 1 + (i - 1)) % FillSize
    BY <1>0, <2>1, SlotsFollow, Zenon
  <2>4. cons' \in Int /\ cons \in Int
    <3>1. (cons + 1) % RingWord \in Index
      <4>1. 1 \in 0..(RingWord - 1)
        BY BridgeAssumption
      <4> QED BY <1>0, <4>1, Advance, Zenon
    <3> QED BY <1>0, <1>1, <3>1 DEF Index
  <2>5. cons' + i - 1 = cons' + (i - 1) /\ cons + (i + 1) - 1 = cons + 1 + (i - 1)
    BY <2>4
  <2> QED BY <1>1, <2>2, <2>3, <2>5
<1>6. FillQueue' = [i \in 1..FillUsed' |-> fill'[(cons' + i - 1) % FillSize]]
  BY DEF FillQueue
<1>7. FillQueue' = [i \in 1..(FillUsed - 1) |-> FillQueue[i + 1]]
  BY <1>1, <1>3, <1>5, <1>6
<1>8. FillQueue[1] = fill[cons % FillSize]
  <2>1. 1 \in 1..FillUsed /\ cons + 1 - 1 = cons
    BY <1>0, <1>4 DEF Index
  <2> QED BY <2>1 DEF FillQueue
<1> QED BY <1>3, <1>4, <1>7, <1>8

(* A producer whose reservation holds adds its frames behind the others. *)
LEMMA RingFilled ==
  ASSUME TypedInv, FillRingInv, NEW l \in LoopStates, FillProduce(l), cons' = cons,
         l.base = prod, l.n <= FillSize - FillUsed
  PROVE  /\ FillUsed' = FillUsed + l.n /\ FillUsed + l.n <= FillSize
         /\ FillQueue' = [i \in 1..(FillUsed + l.n) |->
                            IF i <= FillUsed THEN FillQueue[i] ELSE l.frames[i - FillUsed]]
<1>0. /\ prod \in Index /\ cons \in Index /\ FillUsed = Span(prod, cons) /\ FillUsed \in 0..FillSize
      /\ l.n \in Nat /\ FillSize \in Nat \ {0} /\ FillSize < RingWord /\ RingWord \in Nat
      /\ prod \in Nat /\ cons \in Nat
  BY RingFacts, LoopFields, BridgeAssumption DEF Index
<1>1. prod' = (prod + l.n) % RingWord
  BY DEF FillProduce, Publish
<1>2. FillUsed' = Span((prod + l.n) % RingWord, cons)
  BY <1>1 DEF FillUsed, Span
<1>3. FillUsed + l.n <= FillSize
  BY <1>0
<1>4. FillUsed' = FillUsed + l.n
  <2>1. Span(prod, cons) + l.n < RingWord
    BY <1>0, <1>3
  <2> QED BY <1>0, <1>2, <2>1, SpanSteps
<1> DEFINE SlotAt(i) == (cons + i - 1) % FillSize
           PutAt(k)  == (l.base + k - 1) % FillSize
           hit(s)  == \E k \in 1..l.n : PutAt(k) = s
<1>5. ASSUME NEW k \in 1..l.n
      PROVE  PutAt(k) = SlotAt(FillUsed + k)
  <2>1. k - 1 \in Nat /\ l.base + k - 1 = prod + (k - 1)
        /\ cons + (FillUsed + k) - 1 = cons + FillUsed + (k - 1)
    BY <1>0
  <2>2. (prod + (k - 1)) % FillSize = (cons + Span(prod, cons) + (k - 1)) % FillSize
    BY <1>0, <2>1, SlotsFollow, Zenon
  <2> QED BY <1>0, <2>1, <2>2
<1>6. ASSUME NEW i \in 1..FillSize, NEW j \in 1..FillSize, i <= j, SlotAt(i) = SlotAt(j)
      PROVE  i = j
  <2>1. PICK a \in Nat : a = cons + i - 1
    BY <1>0
  <2>2. PICK d \in 0..(FillSize - 1) : d = j - i
    BY <1>0, <1>6
  <2>3. cons + j - 1 = a + d
    BY <1>0, <2>1, <2>2
  <2>4. (a + d) % FillSize = a % FillSize
    BY <1>6, <2>1, <2>3
  <2>5. d = 0
    BY <1>0, <2>4, RemainderInjective, Zenon
  <2> QED BY <2>2, <2>5
<1>7. ASSUME NEW i \in 1..(FillUsed + l.n)
      PROVE  SlotAt(i) \in 0..(FillSize - 1)
  <2>1. PICK a \in Nat : a = cons + i - 1
    BY <1>0
  <2>2. a % FillSize \in 0..(FillSize - 1)
    BY <1>0, <2>1, Division, Zenon
  <2> QED BY <2>1, <2>2
<1>8. \A s \in 0..(FillSize - 1) :
        fill'[s] = IF hit(s) THEN l.frames[CHOOSE k \in 1..l.n : PutAt(k) = s] ELSE fill[s]
  BY DEF FillProduce, TypedInv, BridgeTyped
<1> HIDE DEF SlotAt, PutAt
<1>9. ASSUME NEW i \in 1..FillUsed
      PROVE  fill'[SlotAt(i)] = fill[SlotAt(i)]
  <2>1. ASSUME NEW k \in 1..l.n, PutAt(k) = SlotAt(i)
        PROVE  FALSE
    <3>1. FillUsed + k \in 1..FillSize /\ i \in 1..FillSize /\ i <= FillUsed + k /\ i # FillUsed + k
      BY <1>0, <1>3
    <3> QED BY <1>5, <1>6, <2>1, <3>1
  <2>2. SlotAt(i) \in 0..(FillSize - 1)
    BY <1>0, <1>7
  <2> QED BY <1>8, <2>1, <2>2
<1>10. ASSUME NEW k \in 1..l.n
       PROVE  fill'[SlotAt(FillUsed + k)] = l.frames[k]
  <2>1. ASSUME NEW j \in 1..l.n, PutAt(j) = SlotAt(FillUsed + k)
        PROVE  j = k
    <3>1. PICK x \in 1..FillSize, y \in 1..FillSize : x = FillUsed + j /\ y = FillUsed + k
      BY <1>0, <1>3
    <3>2. SlotAt(x) = SlotAt(y)
      BY <1>5, <2>1, <3>1
    <3>3. x <= y \/ y <= x
      BY <1>0
    <3>4. x = y
      BY <1>6, <3>2, <3>3
    <3> QED BY <1>0, <3>1, <3>4
  <2>2. PutAt(k) = SlotAt(FillUsed + k)
    BY <1>5
  <2>3. (CHOOSE j \in 1..l.n : PutAt(j) = SlotAt(FillUsed + k)) = k
    BY <2>1, <2>2
  <2>4. SlotAt(FillUsed + k) \in 0..(FillSize - 1)
    <3>1. FillUsed + k \in 1..(FillUsed + l.n)
      BY <1>0
    <3> QED BY <1>7, <3>1
  <2> QED BY <1>8, <2>2, <2>3, <2>4
<1>11. FillQueue' = [i \in 1..(FillUsed + l.n) |-> fill'[SlotAt(i)]]
  BY <1>4 DEF FillQueue, SlotAt
<1>12. \A i \in 1..FillUsed : FillQueue[i] = fill[SlotAt(i)]
  BY DEF FillQueue, SlotAt
<1>13. ASSUME NEW i \in 1..(FillUsed + l.n)
       PROVE  fill'[SlotAt(i)] = IF i <= FillUsed THEN FillQueue[i] ELSE l.frames[i - FillUsed]
  <2>1. CASE i <= FillUsed
    BY <1>9, <1>12, <2>1
  <2>2. CASE i > FillUsed
    <3>1. PICK k \in 1..l.n : k = i - FillUsed /\ i = FillUsed + k
      BY <1>0, <2>2
    <3> QED BY <1>0, <1>10, <2>2, <3>1
  <2> QED BY <1>0, <2>1, <2>2
<1> QED BY <1>3, <1>4, <1>11, <1>13

(* The ring starts with the frames that fit. *)
LEMMA RingStart ==
  ASSUME BridgeInit
  PROVE  FillRingInv /\ FillUsed = Prefilled /\ Prefilled \in 0..FillSize /\ Prefilled \in 0..numFrames
<1>0. /\ RingWord \in Nat \ {0} /\ FillSize \in Nat /\ FillSize < RingWord
      /\ numFrames \in Nat /\ prod = Prefilled % RingWord /\ cons = 0
      /\ rxLoop.pc = "off" /\ fillLoop.pc = "off"
  BY BridgeAssumption DEF BridgeInit, Off
<1>1. Prefilled \in 0..FillSize /\ Prefilled \in 0..numFrames
  BY <1>0 DEF Prefilled, Least
<1>2. Prefilled \in Index /\ 0 \in Index
  BY <1>0, <1>1 DEF Index
<1>3. prod = Prefilled
  BY <1>0, <1>2, RemainderSmall DEF Index
<1>4. FillUsed = Span(Prefilled, 0)
  BY <1>0, <1>3 DEF FillUsed, Span
<1>5. FillUsed = Prefilled
  BY <1>1, <1>2, <1>4, SpanValue
<1> QED BY <1>0, <1>1, <1>5 DEF FillRingInv

(* Every step keeps the invariant of the ring. *)
LEMMA RingStep ==
  ASSUME TypedInv, FillRingInv, [BridgeNext]_bridgeVars
  PROVE  FillRingInv'
<1> USE DEF Life, Ring, Data
<1>0. /\ FillUsed \in 0..FillSize /\ FreeSlots = FillSize - FillUsed /\ FillSize \in Nat
      /\ rxLoop \in LoopStates /\ fillLoop \in LoopStates
      /\ rxLoop.n \in Nat /\ fillLoop.n \in Nat
  BY RingFacts, LoopFields, BridgeAssumption DEF TypedInv, BridgeTyped
<1>1. ASSUME NEW p \in Shapes, KernelReceive(p)
      PROVE  FillRingInv'
  <2>1. FillUsed' = FillUsed - 1 /\ FillUsed \in 1..FillSize
    BY <1>1, RingTaken
  <2>2. UNCHANGED <<rxLoop, fillLoop, overlap, prod>>
    BY <1>1 DEF KernelReceive
  <2> QED BY <1>0, <2>1, <2>2 DEF FillRingInv
<1>2. ASSUME UNCHANGED <<fill, prod, cons, overlap>>,
             rxLoop'.pc = "publish" => rxLoop' = rxLoop,
             fillLoop'.pc = "publish" => fillLoop' = fillLoop
      PROVE  FillRingInv'
  <2>1. FillUsed' = FillUsed
    BY <1>2 DEF FillUsed
  <2> QED BY <1>2, <2>1, Zenon DEF FillRingInv
<1>3. CASE ConsumeMeta
  BY <1>2, <1>3, Zenon DEF ConsumeMeta
<1>4. CASE RxPoll
  <2>1. rxLoop'.pc # "publish"
    BY <1>4, Zenon DEF RxPoll, Off
  <2> QED BY <1>2, <1>4, <2>1, Zenon DEF RxPoll
<1>5. CASE RxPacket
  <2>1. rxLoop'.pc # "publish"
    BY <1>0, <1>5 DEF RxPacket, LoopStates
  <2> QED BY <1>2, <1>5, <2>1, Zenon DEF RxPacket
<1>6. CASE FillFirst \/ FillStop
  <2>1. fillLoop'.pc # "publish"
    BY <1>6 DEF FillFirst, FillStop, Off
  <2> QED BY <1>2, <1>6, <2>1, Zenon DEF FillFirst, FillStop
<1>7. CASE FillTick
  <2>1. fillLoop'.pc # "publish"
    BY <1>0, <1>7 DEF FillTick, LoopStates
  <2> QED BY <1>2, <1>7, <2>1, Zenon DEF FillTick
<1>8. CASE StartLoops
  <2>1. rxLoop'.pc # "publish" /\ fillLoop'.pc # "publish"
    BY <1>8 DEF StartLoops, Off
  <2> QED BY <1>2, <1>8, <2>1, Zenon DEF StartLoops
<1>9. CASE Cancel \/ RunReturns \/ DisableRedirect \/ BridgeClose
  BY <1>2, <1>9, Zenon DEF Cancel, RunReturns, DisableRedirect, BridgeClose
<1>10. CASE UNCHANGED bridgeVars
  BY <1>2, <1>10, Zenon DEF bridgeVars
<1>11. CASE RxReserve
  <2>1. /\ rxLoop' = Reserve(rxLoop) /\ overlap' = (overlap \/ fillLoop.pc = "publish")
        /\ UNCHANGED <<prod, cons, fillLoop>>
    BY <1>11, Zenon DEF RxReserve
  <2>2. rxLoop'.base = prod /\ rxLoop'.n <= FreeSlots
    BY <1>0, <2>1, Reserved, Zenon
  <2>3. FillUsed' = FillUsed
    BY <2>1 DEF FillUsed
  <2> QED BY <1>0, <2>1, <2>2, <2>3, Zenon DEF FillRingInv
<1>12. CASE FillReserve
  <2>1. /\ fillLoop' = Reserve(fillLoop) /\ overlap' = (overlap \/ rxLoop.pc = "publish")
        /\ UNCHANGED <<prod, cons, rxLoop>>
    BY <1>12, Zenon DEF FillReserve
  <2>2. fillLoop'.base = prod /\ fillLoop'.n <= FreeSlots
    BY <1>0, <2>1, Reserved, Zenon
  <2>3. FillUsed' = FillUsed
    BY <2>1 DEF FillUsed
  <2> QED BY <1>0, <2>1, <2>2, <2>3, Zenon DEF FillRingInv
<1>13. CASE ~overlap /\ RxRefill
  <2>1. /\ rxLoop.pc = "publish" /\ FillProduce(rxLoop) /\ rxLoop' = [Off EXCEPT !.pc = "poll"]
        /\ UNCHANGED <<cons, fillLoop, overlap>>
    BY <1>13, Zenon DEF RxRefill
  <2>2. rxLoop.base = prod /\ rxLoop.n <= FillSize - FillUsed /\ fillLoop.pc # "publish"
    BY <1>13, <2>1 DEF FillRingInv
  <2>3. FillUsed' <= FillSize
    BY <1>0, <2>1, <2>2, RingFilled
  <2>4. rxLoop'.pc = "poll"
    BY <2>1 DEF Off
  <2> QED BY <2>1, <2>2, <2>3, <2>4 DEF FillRingInv
<1>14. CASE ~overlap /\ FillRefill
  <2>1. /\ fillLoop.pc = "publish" /\ FillProduce(fillLoop) /\ fillLoop' = [Off EXCEPT !.pc = "wait"]
        /\ UNCHANGED <<cons, rxLoop, overlap>>
    BY <1>14, Zenon DEF FillRefill
  <2>2. fillLoop.base = prod /\ fillLoop.n <= FillSize - FillUsed /\ rxLoop.pc # "publish"
    BY <1>14, <2>1 DEF FillRingInv
  <2>3. FillUsed' <= FillSize
    BY <1>0, <2>1, <2>2, RingFilled
  <2>4. fillLoop'.pc = "wait"
    BY <2>1 DEF Off
  <2> QED BY <2>1, <2>2, <2>3, <2>4 DEF FillRingInv
<1> QED BY <1>1, <1>3, <1>4, <1>5, <1>6, <1>7, <1>8, <1>9, <1>10, <1>11, <1>12, <1>13, <1>14, Zenon
        DEF BridgeNext

-----------------------------------------------------------------------------
(* The AF_XDP bridge: who owns a frame                                       *)

Lanes == 1..6
Spots(Q, q) == 1..Len(Q[q])

(* The frames F are each in one spot of the queues Q, or in L. *)
Owned(Q, L, F) ==
  /\ L \subseteq F
  /\ \A f \in F : f \in L \/ \E q \in Lanes : \E i \in Spots(Q, q) : Q[q][i] = f
  /\ \A q \in Lanes : \A i \in Spots(Q, q) : Q[q][i] \in F \ L
  /\ \A q, r \in Lanes : \A i \in Spots(Q, q) : \A j \in Spots(Q, r) :
       Q[q][i] = Q[r][j] => q = r /\ i = j

(* From queue a the first m frames are taken: the first k of them go to the  *)
(* end of queue b, the others are lost.                                      *)
Moved(Q, R, L, M, a, b, k, m) ==
  /\ \A q \in Lanes \ {a, b} : R[q] = Q[q]
  /\ Len(R[a]) = Len(Q[a]) - m /\ \A i \in Spots(R, a) : R[a][i] = Q[a][m + i]
  /\ Len(R[b]) = Len(Q[b]) + k /\ \A i \in Spots(Q, b) : R[b][i] = Q[b][i]
  /\ \A i \in 1..k : R[b][Len(Q[b]) + i] = Q[a][i]
  /\ M = L \union {Q[a][i] : i \in (k + 1)..m}

(* Such a move keeps every frame in one place. *)
LEMMA MoveKeepsOwners ==
  ASSUME NEW F, NEW Q, NEW R, NEW L, NEW M, \A q \in Lanes : Len(Q[q]) \in Nat,
         NEW a \in Lanes, NEW b \in Lanes, a # b, NEW k \in Nat, NEW m \in Nat,
         k <= m, m <= Len(Q[a]), Moved(Q, R, L, M, a, b, k, m), Owned(Q, L, F)
  PROVE  Owned(R, M, F)
<1>0. /\ \A q \in Lanes \ {a, b} : R[q] = Q[q]
      /\ Len(R[a]) = Len(Q[a]) - m /\ \A i \in Spots(R, a) : R[a][i] = Q[a][m + i]
      /\ Len(R[b]) = Len(Q[b]) + k /\ \A i \in Spots(Q, b) : R[b][i] = Q[b][i]
      /\ \A i \in 1..k : R[b][Len(Q[b]) + i] = Q[a][i]
      /\ M = L \union {Q[a][i] : i \in (k + 1)..m}
  BY DEF Moved
<1>1. /\ L \subseteq F
      /\ \A f \in F : f \in L \/ \E q \in Lanes : \E i \in Spots(Q, q) : Q[q][i] = f
      /\ \A q \in Lanes : \A i \in Spots(Q, q) : Q[q][i] \in F \ L
  BY DEF Owned
<1>2. \A q, r \in Lanes : \A i \in Spots(Q, q) : \A j \in Spots(Q, r) :
        Q[q][i] = Q[r][j] => q = r /\ i = j
  BY Zenon DEF Owned
<1> DEFINE From(q, i, r, j) ==
      \/ q = a /\ r = a /\ j = m + i
      \/ q = b /\ r = b /\ j = i
      \/ q = b /\ r = a /\ i = Len(Q[b]) + j /\ j <= k
      \/ q \notin {a, b} /\ r = q /\ j = i
<1>3. ASSUME NEW q \in Lanes, NEW i \in Spots(R, q)
      PROVE  \E r \in Lanes : \E j \in Spots(Q, r) : R[q][i] = Q[r][j] /\ From(q, i, r, j)
  <2>1. CASE q = a
    <3>1. i \in Spots(R, a) /\ i \in 1..(Len(Q[a]) - m) /\ Len(Q[a]) \in Nat
      BY <1>0, <2>1 DEF Spots
    <3>2. m + i \in Spots(Q, a)
      BY <3>1 DEF Spots
    <3>3. R[q][i] = Q[a][m + i]
      BY <1>0, <2>1, <3>1
    <3> QED BY <2>1, <3>2, <3>3, Zenon
  <2>2. CASE q = b /\ i <= Len(Q[b])
    <3>1. i \in Spots(Q, b) /\ R[q][i] = Q[b][i]
      BY <1>0, <2>2 DEF Spots
    <3> QED BY <2>2, <3>1
  <2>3. CASE q = b /\ i > Len(Q[b])
    <3>0. i \in 1..(Len(Q[b]) + k) /\ Len(Q[b]) \in Nat
      BY <1>0, <2>3 DEF Spots
    <3>3. i - Len(Q[b]) \in 1..k /\ i = Len(Q[b]) + (i - Len(Q[b]))
      BY <2>3, <3>0
    <3>1. PICK j \in 1..k : i = Len(Q[b]) + j
      BY <3>3, Zenon
    <3>2. j \in Spots(Q, a) /\ R[q][i] = Q[a][j]
      BY <1>0, <2>3, <3>1 DEF Spots
    <3> QED BY <2>3, <3>1, <3>2
  <2>4. CASE q \notin {a, b}
    <3>1. i \in Spots(Q, q) /\ R[q][i] = Q[q][i]
      BY <1>0, <2>4 DEF Spots
    <3> QED BY <2>4, <3>1
  <2>5. i <= Len(Q[b]) \/ i > Len(Q[b])
    <3>1. i \in Nat /\ Len(Q[b]) \in Nat
      BY DEF Spots
    <3> QED BY <3>1
  <2>6. q = a \/ q = b \/ q \notin {a, b}
    OBVIOUS
  <2> HIDE DEF From
  <2> QED BY <2>1, <2>2, <2>3, <2>4, <2>5, <2>6, Zenon
<1>4. M \subseteq F
  <2>1. ASSUME NEW i \in (k + 1)..m
        PROVE  Q[a][i] \in F
    <3>1. i \in Spots(Q, a)
      BY DEF Spots
    <3> QED BY <1>1, <3>1
  <2> QED BY <1>0, <1>1, <2>1
<1>5. ASSUME NEW f \in F, f \notin M
      PROVE  \E q \in Lanes : \E i \in Spots(R, q) : R[q][i] = f
  <2>1. PICK r \in Lanes : \E j \in Spots(Q, r) : Q[r][j] = f
    BY <1>0, <1>1, <1>5
  <2>2. PICK j \in Spots(Q, r) : Q[r][j] = f
    BY <2>1
  <2>3. j \in Nat /\ j >= 1 /\ j <= Len(Q[r]) /\ Len(Q[a]) \in Nat /\ Len(Q[b]) \in Nat
    BY <2>2 DEF Spots
  <2>4. CASE r = a /\ j > m
    <3>1. PICK i \in Nat : j = m + i /\ i >= 1
      BY <2>3, <2>4
    <3>2. i \in Spots(R, a)
      BY <1>0, <2>3, <2>4, <3>1 DEF Spots
    <3>3. R[a][i] = f
      BY <1>0, <2>2, <2>4, <3>1, <3>2
    <3> QED BY <3>2, <3>3
  <2>5. CASE r = a /\ j <= k
    <3>1. j \in 1..k /\ Len(Q[b]) + j \in Spots(R, b)
      BY <1>0, <2>3, <2>5 DEF Spots
    <3>2. R[b][Len(Q[b]) + j] = f
      BY <1>0, <2>2, <2>5, <3>1
    <3> QED BY <3>1, <3>2
  <2>6. CASE r = a /\ j > k /\ j <= m
    <3>1. j \in (k + 1)..m
      BY <2>3, <2>6
    <3> QED BY <1>0, <1>5, <2>2, <2>6, <3>1
  <2>7. CASE r = b
    <3>1. j \in Spots(Q, b) /\ j \in Spots(R, b)
      BY <1>0, <2>3, <2>7 DEF Spots
    <3> QED BY <1>0, <2>2, <2>7, <3>1
  <2>8. CASE r \notin {a, b}
    <3>1. j \in Spots(R, r) /\ R[r][j] = f
      BY <1>0, <2>2, <2>8 DEF Spots
    <3> QED BY <3>1
  <2> QED BY <2>3, <2>4, <2>5, <2>6, <2>7, <2>8
<1>6. ASSUME NEW q \in Lanes, NEW i \in Spots(R, q)
      PROVE  R[q][i] \in F \ M
  <2>1. PICK r \in Lanes : \E j \in Spots(Q, r) : R[q][i] = Q[r][j] /\ From(q, i, r, j)
    BY <1>3, Zenon
  <2>2. PICK j \in Spots(Q, r) : R[q][i] = Q[r][j] /\ From(q, i, r, j)
    BY <2>1
  <2>3. ASSUME NEW x \in (k + 1)..m, R[q][i] = Q[a][x]
        PROVE  FALSE
    <3>1. x \in Spots(Q, a)
      BY DEF Spots
    <3>2. r = a /\ j = x
      <4>1. Q[r][j] = Q[a][x]
        BY <2>2, <2>3
      <4> QED BY <1>2, <2>2, <3>1, <4>1, Zenon
    <3>3. i \in Nat /\ i >= 1
      BY <1>0 DEF Spots
    <3> QED BY <2>2, <3>2, <3>3
  <2> QED BY <1>0, <1>1, <2>2, <2>3, Zenon
<1>7. ASSUME NEW q \in Lanes, NEW r \in Lanes, NEW i \in Spots(R, q), NEW j \in Spots(R, r),
             R[q][i] = R[r][j]
      PROVE  q = r /\ i = j
  <2>1. PICK s \in Lanes : \E x \in Spots(Q, s) : R[q][i] = Q[s][x] /\ From(q, i, s, x)
    BY <1>3, Zenon
  <2>2. PICK x \in Spots(Q, s) : R[q][i] = Q[s][x] /\ From(q, i, s, x)
    BY <2>1, Zenon
  <2>3. PICK t \in Lanes : \E y \in Spots(Q, t) : R[r][j] = Q[t][y] /\ From(r, j, t, y)
    BY <1>3, Zenon
  <2>4. PICK y \in Spots(Q, t) : R[r][j] = Q[t][y] /\ From(r, j, t, y)
    BY <2>3, Zenon
  <2>5. s = t /\ x = y
    <3>1. Q[s][x] = Q[t][y]
      BY <1>7, <2>2, <2>4, Zenon
    <3> QED BY <1>2, <3>1
  <2>6. /\ i \in Nat /\ j \in Nat /\ x \in Nat /\ i >= 1 /\ j >= 1 /\ Len(Q[b]) \in Nat
    BY DEF Spots
  <2>7. From(q, i, s, x) /\ From(r, j, s, x)
    BY <2>2, <2>4, <2>5
  <2>8. CASE s = a /\ x > m
    <3>1. q = a /\ x = m + i
      BY <2>6, <2>7, <2>8
    <3>2. r = a /\ x = m + j
      BY <2>6, <2>7, <2>8
    <3> QED BY <2>6, <3>1, <3>2
  <2>9. CASE s = a /\ x <= m
    <3>1. q = b /\ i = Len(Q[b]) + x
      BY <2>6, <2>7, <2>9
    <3>2. r = b /\ j = Len(Q[b]) + x
      BY <2>6, <2>7, <2>9
    <3> QED BY <3>1, <3>2
  <2>10. CASE s # a
    <3>1. q = s /\ x = i
      BY <2>7, <2>10
    <3>2. r = s /\ x = j
      BY <2>7, <2>10
    <3> QED BY <3>1, <3>2
  <2> QED BY <2>6, <2>8, <2>9, <2>10
<1> QED BY <1>4, <1>5, <1>6, <1>7 DEF Owned

(* The queues, one by one. *)
LEMMA LaneOf ==
  /\ DOMAIN Queues = Lanes
  /\ Queues[1] = FillQueue /\ Queues[2] = freeFrames /\ Queues[3] = rx
  /\ Queues[4] = rxLoop.todo /\ Queues[5] = rxLoop.frames /\ Queues[6] = fillLoop.frames
BY DEF Queues, Lanes

(* The same after a step. *)
LEMMA NextLaneOf ==
  /\ Queues'[1] = FillQueue' /\ Queues'[2] = freeFrames' /\ Queues'[3] = rx'
  /\ Queues'[4] = rxLoop'.todo /\ Queues'[5] = rxLoop'.frames /\ Queues'[6] = fillLoop'.frames
BY DEF Queues

(* Each of them is a sequence of frames. *)
LEMMA LanesTyped ==
  ASSUME TypedInv, FillRingInv
  PROVE  /\ FillQueue \in Seq(Frames) /\ Len(FillQueue) = FillUsed
         /\ \A q \in Lanes : /\ Queues[q] \in Seq(Frames) /\ Len(Queues[q]) \in Nat
                             /\ DOMAIN Queues[q] = Spots(Queues, q)
<1>1. FillUsed \in Nat /\ cons \in Nat /\ FillSize \in Nat \ {0}
  BY RingFacts, BridgeAssumption DEF Index
<1>2. ASSUME NEW i \in 1..FillUsed
      PROVE  fill[(cons + i - 1) % FillSize] \in Frames
  <2>1. PICK a \in Nat : a = cons + i - 1
    BY <1>1
  <2>2. a % FillSize \in 0..(FillSize - 1)
    BY <1>1, <2>1, Division, Zenon
  <2> QED BY <2>1, <2>2 DEF TypedInv, BridgeTyped
<1>3. FillQueue \in [1..FillUsed -> Frames]
  BY <1>2 DEF FillQueue
<1>4. FillQueue \in Seq(Frames)
  BY <1>1, <1>3, SeqDef, Zenon
<1>5. Len(FillQueue) = FillUsed
  <2>1. DOMAIN FillQueue = 1..Len(FillQueue) /\ Len(FillQueue) \in Nat
    BY <1>4, LenProperties
  <2>2. DOMAIN FillQueue = 1..FillUsed
    BY <1>3
  <2>3. \A a, b \in Nat : 1..a = 1..b => a = b
    OBVIOUS
  <2> QED BY <1>1, <2>1, <2>2, <2>3, Zenon
<1>6. /\ freeFrames \in Seq(Frames) /\ rx \in Seq(Frames) /\ rxLoop.todo \in Seq(Frames)
      /\ rxLoop.frames \in Seq(Frames) /\ fillLoop.frames \in Seq(Frames)
  BY LoopFields DEF TypedInv, BridgeTyped
<1>7. ASSUME NEW q \in Lanes
      PROVE  Queues[q] \in Seq(Frames)
  <2>1. q \in {1, 2, 3, 4, 5, 6}
    BY DEF Lanes
  <2> QED BY <1>4, <1>6, <2>1, LaneOf
<1> QED BY <1>4, <1>5, <1>7, LenProperties, Zenon DEF Spots

OwnInv == ~overlap => Owned(Queues, lost, Frames)

(* It is what FrameOwnedOnce says. *)
LEMMA OwnedIsOnce ==
  ASSUME TypedInv, FillRingInv, OwnInv
  PROVE  FrameOwnedOnce
<1> SUFFICES ASSUME ~overlap
             PROVE  /\ lost \union {FrameAt(p) : p \in Places} = Frames
                    /\ \A p \in Places : /\ FrameAt(p) \notin lost
                                         /\ \A r \in Places : FrameAt(p) = FrameAt(r) => p = r
  BY DEF FrameOwnedOnce
<1>0. Owned(Queues, lost, Frames)
  BY DEF OwnInv
<1>1. ASSUME NEW p \in Places
      PROVE  \E q \in Lanes : \E i \in Spots(Queues, q) : p = <<q, i>> /\ FrameAt(p) = Queues[q][i]
  <2>1. PICK q \in DOMAIN Queues : p \in {q} \X DOMAIN Queues[q]
    BY Zenon DEF Places
  <2>2. q \in Lanes /\ DOMAIN Queues[q] = Spots(Queues, q)
    BY LaneOf, LanesTyped, Zenon
  <2>3. PICK i \in Spots(Queues, q) : p = <<q, i>>
    BY <2>1, <2>2
  <2> QED BY <2>2, <2>3 DEF FrameAt
<1>2. ASSUME NEW q \in Lanes, NEW i \in Spots(Queues, q)
      PROVE  <<q, i>> \in Places /\ FrameAt(<<q, i>>) = Queues[q][i]
  <2>1. q \in DOMAIN Queues /\ i \in DOMAIN Queues[q]
    BY LaneOf, LanesTyped, Zenon
  <2>2. <<q, i>> \in {q} \X DOMAIN Queues[q]
    BY <2>1
  <2>3. <<q, i>> \in Places
    BY <2>1, <2>2, Zenon DEF Places
  <2>4. FrameAt(<<q, i>>) = Queues[q][i]
    BY DEF FrameAt
  <2> QED BY <2>3, <2>4
<1>3. ASSUME NEW p \in Places
      PROVE  FrameAt(p) \in Frames \ lost
  <2>1. \A q \in Lanes : \A i \in Spots(Queues, q) : Queues[q][i] \in Frames \ lost
    BY <1>0, Zenon DEF Owned
  <2>2. PICK q \in Lanes : \E i \in Spots(Queues, q) : p = <<q, i>> /\ FrameAt(p) = Queues[q][i]
    BY <1>1
  <2>3. PICK i \in Spots(Queues, q) : FrameAt(p) = Queues[q][i]
    BY <2>2
  <2> QED BY <2>1, <2>3
<1>4. ASSUME NEW f \in Frames, f \notin lost
      PROVE  \E p \in Places : FrameAt(p) = f
  <2>1. PICK q \in Lanes : \E i \in Spots(Queues, q) : Queues[q][i] = f
    BY <1>0, <1>4, Zenon DEF Owned
  <2>2. PICK i \in Spots(Queues, q) : Queues[q][i] = f
    BY <2>1
  <2> QED BY <1>2, <2>2, Zenon
<1>5. ASSUME NEW p \in Places, NEW r \in Places, FrameAt(p) = FrameAt(r)
      PROVE  p = r
  <2>1. PICK q \in Lanes : \E i \in Spots(Queues, q) : p = <<q, i>> /\ FrameAt(p) = Queues[q][i]
    BY <1>1
  <2>2. PICK i \in Spots(Queues, q) : p = <<q, i>> /\ FrameAt(p) = Queues[q][i]
    BY <2>1
  <2>3. PICK s \in Lanes : \E j \in Spots(Queues, s) : r = <<s, j>> /\ FrameAt(r) = Queues[s][j]
    BY <1>1
  <2>4. PICK j \in Spots(Queues, s) : r = <<s, j>> /\ FrameAt(r) = Queues[s][j]
    BY <2>3
  <2>5. Queues[q][i] = Queues[s][j]
    BY <1>5, <2>2, <2>4, Zenon
  <2>6. q = s /\ i = j
    <3>1. \A x, y \in Lanes : \A m \in Spots(Queues, x) : \A n \in Spots(Queues, y) :
            Queues[x][m] = Queues[y][n] => x = y /\ m = n
      BY <1>0, Zenon DEF Owned
    <3> QED BY <2>5, <3>1
  <2> QED BY <2>2, <2>4, <2>6, Zenon
<1>6. lost \subseteq Frames
  BY <1>0, Zenon DEF Owned
<1>7. lost \union {FrameAt(p) : p \in Places} = Frames
  BY <1>3, <1>4, <1>6
<1> QED BY <1>3, <1>5, <1>7

(* At the start the ring holds the first frames, the pool the others. *)
LEMMA OwnedAtStart ==
  ASSUME BridgeInit
  PROVE  OwnInv
<1>1. TypedInv /\ FillRingInv
  BY BridgeStart, RingStart
<1>2. PICK k \in Nat : /\ k = Prefilled /\ k <= FillSize /\ k <= numFrames /\ FillUsed = k
                       /\ numFrames \in Nat /\ FillSize \in Nat \ {0}
  BY <1>1, RingStart, BridgeAssumption DEF TypedInv, BridgeTyped
<1>3. Len(FillQueue) = k
  BY <1>1, <1>2, LanesTyped
<1>4. ASSUME NEW i \in 1..k
      PROVE  FillQueue[i] = i - 1
  <2>1. FillQueue[i] = fill[(cons + i - 1) % FillSize]
    BY <1>2 DEF FillQueue
  <2>2. PICK a \in 0..(FillSize - 1) : a = i - 1 /\ a < k
    BY <1>2
  <2>3. a % FillSize = a
    BY <1>2, RemainderSmall, Zenon
  <2>4. cons = 0 /\ fill = [s \in 0..(FillSize - 1) |-> IF s < k THEN s ELSE 0]
    BY <1>2 DEF BridgeInit
  <2>5. cons + i - 1 = a
    BY <2>2, <2>4
  <2>6. FillQueue[i] = fill[a]
    BY <2>1, <2>3, <2>5
  <2> QED BY <2>2, <2>4, <2>6
<1>5. freeFrames = [i \in 1..(numFrames - k) |-> k + i - 1]
  BY <1>2 DEF BridgeInit
<1>6. Len(freeFrames) = numFrames - k
  <2>1. DOMAIN freeFrames = 1..Len(freeFrames) /\ Len(freeFrames) \in Nat
    BY <1>1, LenProperties DEF TypedInv, BridgeTyped
  <2>2. DOMAIN freeFrames = 1..(numFrames - k)
    BY <1>5
  <2> QED BY <1>2, <2>1, <2>2
<1>7. Len(<<>>) = 0 /\ lost = {} /\ Frames = 0..(numFrames - 1)
  BY EmptySeq DEF BridgeInit, Frames
<1>8. Queues[1] = FillQueue /\ Queues[2] = freeFrames /\ \A q \in 3..6 : Queues[q] = <<>>
  BY LaneOf DEF BridgeInit, Off
<1>9. ASSUME NEW q \in Lanes, NEW i \in Spots(Queues, q)
      PROVE  \/ q = 1 /\ i \in 1..k /\ Queues[q][i] = i - 1
             \/ q = 2 /\ i \in 1..(numFrames - k) /\ Queues[q][i] = k + i - 1
  <2>1. CASE q = 1
    BY <1>3, <1>4, <1>8, <2>1 DEF Spots
  <2>2. CASE q = 2
    BY <1>5, <1>6, <1>8, <2>2, Zenon DEF Spots
  <2>3. CASE q \in 3..6
    BY <1>7, <1>8, <2>3 DEF Spots
  <2> QED BY <2>1, <2>2, <2>3 DEF Lanes
<1>10. ASSUME NEW f \in Frames
       PROVE  \E q \in Lanes : \E i \in Spots(Queues, q) : Queues[q][i] = f
  <2>0. f \in Nat /\ f < numFrames
    BY <1>2, <1>7
  <2>1. CASE f < k
    <3>1. PICK i \in 1..k : i = f + 1 /\ i - 1 = f
      BY <1>2, <2>0, <2>1
    <3>2. i \in Spots(Queues, 1) /\ Queues[1][i] = f
      BY <1>3, <1>4, <1>8, <3>1 DEF Spots
    <3> QED BY <3>2 DEF Lanes
  <2>2. CASE f >= k
    <3>1. PICK i \in 1..(numFrames - k) : k + i - 1 = f
      <4>1. f - k + 1 \in 1..(numFrames - k) /\ k + (f - k + 1) - 1 = f
        BY <1>2, <2>0, <2>2
      <4> QED BY <4>1, Zenon
    <3>2. i \in Spots(Queues, 2) /\ Queues[2][i] = f
      BY <1>5, <1>6, <1>8, <3>1, Zenon DEF Spots
    <3> QED BY <3>2 DEF Lanes
  <2> QED BY <1>2, <2>0, <2>1, <2>2
<1>11. ASSUME NEW q \in Lanes, NEW i \in Spots(Queues, q)
       PROVE  Queues[q][i] \in Frames \ lost
  BY <1>2, <1>7, <1>9
<1>12. ASSUME NEW q \in Lanes, NEW r \in Lanes, NEW i \in Spots(Queues, q), NEW j \in Spots(Queues, r),
              Queues[q][i] = Queues[r][j]
       PROVE  q = r /\ i = j
  BY <1>2, <1>9, <1>12
<1> QED BY <1>7, <1>10, <1>11, <1>12 DEF OwnInv, Owned

(* A step that moves frames from one queue to another. *)
LEMMA MoveStep ==
  ASSUME TypedInv, FillRingInv, OwnInv, ~overlap, [BridgeNext]_bridgeVars,
         NEW a \in Lanes, NEW b \in Lanes, a # b, NEW k \in Nat, NEW m \in Nat,
         k <= m, m <= Len(Queues[a]), Moved(Queues, Queues', lost, lost', a, b, k, m)
  PROVE  OwnInv'
<1>1. Owned(Queues, lost, Frames)
  BY DEF OwnInv
<1>2. \A q \in Lanes : Len(Queues[q]) \in Nat
  BY LanesTyped, Zenon
<1>3. Owned(Queues', lost', Frames)
  BY <1>1, <1>2, MoveKeepsOwners, Zenon
<1>4. Frames' = Frames
  BY SameFrames DEF Frames
<1>5. Owned(Queues', lost', Frames')
  BY <1>3, <1>4
<1> QED BY <1>5, Zenon DEF OwnInv, Owned

(* The kernel puts the oldest descriptor's frame behind the RX ring's. *)
LEMMA OwnedReceive ==
  ASSUME TypedInv, FillRingInv, OwnInv, ~overlap, [BridgeNext]_bridgeVars,
         NEW p \in Shapes, KernelReceive(p)
  PROVE  OwnInv'
<1>1. /\ FillUsed \in 1..FillSize /\ FillUsed' = FillUsed - 1
      /\ FillQueue' = [i \in 1..(FillUsed - 1) |-> FillQueue[i + 1]]
      /\ FillQueue[1] = fill[cons % FillSize]
  BY RingTaken
<1>2. FillQueue \in Seq(Frames) /\ Len(FillQueue) = FillUsed /\ FillSize \in Nat
  BY LanesTyped, BridgeAssumption
<1>3. FillQueue' \in Seq(Frames) /\ Len(FillQueue') = FillUsed - 1
  <2>1. PICK n \in Nat : n = FillUsed - 1
    BY <1>1, <1>2
  <2>2. ASSUME NEW i \in 1..n
        PROVE  FillQueue[i + 1] \in Frames
    <3>1. i + 1 \in 1..Len(FillQueue)
      BY <1>1, <1>2, <2>1
    <3> QED BY <1>2, <3>1, ElementOfSeq
  <2>3. FillQueue' \in [1..n -> Frames]
    BY <1>1, <2>1, <2>2
  <2>4. FillQueue' \in Seq(Frames)
    BY <2>1, <2>3, SeqDef, Zenon
  <2>5. DOMAIN FillQueue' = 1..Len(FillQueue') /\ Len(FillQueue') \in Nat
    BY <2>4, LenProperties
  <2>6. DOMAIN FillQueue' = 1..n
    BY <2>3
  <2>7. \A x, y \in Nat : 1..x = 1..y => x = y
    OBVIOUS
  <2>8. Len(FillQueue') = n
    BY <2>1, <2>5, <2>6, <2>7, Zenon
  <2> QED BY <2>1, <2>4, <2>8
<1>4. PICK f \in Frames : f = FillQueue[1]
  <2>1. 1 \in 1..Len(FillQueue)
    BY <1>1, <1>2
  <2> QED BY <1>2, <2>1, ElementOfSeq
<1>5. /\ rx' = Append(rx, f)
      /\ UNCHANGED <<freeFrames, rxLoop, fillLoop, lost>>
  BY <1>1, <1>4, Zenon DEF KernelReceive
<1>6. rx \in Seq(Frames) /\ Len(rx) \in Nat
  BY LenProperties DEF TypedInv, BridgeTyped
<1>7. /\ Len(rx') = Len(rx) + 1 /\ rx'[Len(rx) + 1] = f
      /\ \A i \in 1..Len(rx) : rx'[i] = rx[i]
  BY <1>4, <1>5, <1>6, AppendProperties
<1>8. Moved(Queues, Queues', lost, lost', 1, 3, 1, 1)
  <2>1. \A q \in Lanes \ {1, 3} : Queues'[q] = Queues[q]
    BY <1>5, LaneOf, NextLaneOf DEF Lanes
  <2>2. \A i \in 1..(FillUsed - 1) : FillQueue'[i] = FillQueue[1 + i]
    BY <1>1, <1>2
  <2>3. Len(Queues'[1]) = Len(Queues[1]) - 1 /\ \A i \in Spots(Queues', 1) : Queues'[1][i] = Queues[1][1 + i]
    BY <1>2, <1>3, <2>2, LaneOf, NextLaneOf DEF Spots
  <2>4. Len(Queues'[3]) = Len(Queues[3]) + 1 /\ \A i \in Spots(Queues, 3) : Queues'[3][i] = Queues[3][i]
    BY <1>7, LaneOf, NextLaneOf DEF Spots
  <2>5. \A i \in 1..1 : Queues'[3][Len(Queues[3]) + i] = Queues[1][i]
    BY <1>4, <1>7, LaneOf, NextLaneOf
  <2>6. lost' = lost \union {Queues[1][i] : i \in (1 + 1)..1}
    BY <1>5
  <2> QED BY <2>1, <2>3, <2>4, <2>5, <2>6 DEF Moved
<1>9. 1 \in Lanes /\ 3 \in Lanes /\ 1 # 3 /\ 1 \in Nat /\ 1 <= 1 /\ 1 <= Len(Queues[1])
  BY <1>1, <1>2, LaneOf DEF Lanes
<1> QED BY <1>8, <1>9, MoveStep, Zenon

(* rxLoop takes a batch off the RX ring. *)
LEMMA OwnedPoll ==
  ASSUME TypedInv, FillRingInv, OwnInv, ~overlap, [BridgeNext]_bridgeVars, RxPoll, ctx
  PROVE  OwnInv'
<1> USE DEF Life, Ring
<1>1. PICK m : m = Least(BatchSize, Len(rx))
  OBVIOUS
<1>2. /\ rx # <<>> /\ rxLoop.pc = "poll"
      /\ rxLoop' = [Off EXCEPT !.pc = "parse", !.todo = SubSeq(rx, 1, m)]
      /\ rx' = SubSeq(rx, m + 1, Len(rx))
      /\ UNCHANGED <<freeFrames, fill, prod, cons, fillLoop, lost>>
  BY <1>1, Zenon DEF RxPoll
<1>3. rx \in Seq(Frames) /\ Len(rx) \in Nat
  BY LenProperties DEF TypedInv, BridgeTyped
<1>4. m \in 0..Len(rx)
  BY <1>1, <1>3, BridgeAssumption DEF Least
<1>5. PICK t \in Seq(Frames) : /\ t = SubSeq(rx, 1, m) /\ Len(t) = m
                               /\ \A i \in 1..m : t[i] = rx[i]
  <2>1. /\ SubSeq(rx, 1, m) \in Seq(Frames) /\ Len(SubSeq(rx, 1, m)) = m
        /\ \A i \in 1..m : SubSeq(rx, 1, m)[i] = rx[i]
    BY <1>3, <1>4, Part
  <2> QED BY <2>1, Zenon
<1>6. /\ Len(rx') = Len(rx) - m
      /\ \A i \in 1..(Len(rx) - m) : rx'[i] = rx[m + i]
  BY <1>2, <1>3, <1>4, Part
<1>7. rxLoop'.todo = t /\ rxLoop'.frames = <<>>
  BY <1>2, <1>5 DEF Off
<1>8. rxLoop.todo = <<>> /\ rxLoop.frames = <<>> /\ Len(<<>>) = 0
  BY <1>2, EmptySeq DEF TypedInv, Phases
<1>9. FillQueue' = FillQueue
  BY <1>2 DEF FillQueue, FillUsed
<1>10. Moved(Queues, Queues', lost, lost', 3, 4, m, m)
  <2>1. \A q \in Lanes \ {3, 4} : Queues'[q] = Queues[q]
    BY <1>2, <1>7, <1>8, <1>9, LaneOf, NextLaneOf DEF Lanes
  <2>2. Len(Queues'[3]) = Len(Queues[3]) - m /\ \A i \in Spots(Queues', 3) : Queues'[3][i] = Queues[3][m + i]
    BY <1>3, <1>4, <1>6, LaneOf, NextLaneOf DEF Spots
  <2>3. Len(Queues'[4]) = Len(Queues[4]) + m /\ \A i \in Spots(Queues, 4) : Queues'[4][i] = Queues[4][i]
    BY <1>4, <1>5, <1>7, <1>8, LaneOf, NextLaneOf DEF Spots
  <2>4. \A i \in 1..m : Queues'[4][Len(Queues[4]) + i] = Queues[3][i]
    BY <1>4, <1>5, <1>7, <1>8, LaneOf, NextLaneOf
  <2>5. lost' = lost \union {Queues[3][i] : i \in (m + 1)..m}
    BY <1>2, <1>4
  <2> QED BY <2>1, <2>2, <2>3, <2>4, <2>5 DEF Moved
<1>11. 3 \in Lanes /\ 4 \in Lanes /\ 3 # 4 /\ m \in Nat /\ m <= m /\ m <= Len(Queues[3])
  BY <1>3, <1>4, LaneOf DEF Lanes
<1> QED BY <1>10, <1>11, MoveStep, Zenon

(* rxLoop parses the next packet of the batch and keeps its frame. *)
LEMMA OwnedPacket ==
  ASSUME TypedInv, FillRingInv, OwnInv, ~overlap, [BridgeNext]_bridgeVars, RxPacket
  PROVE  OwnInv'
<1> USE DEF Life, Ring
<1>1. /\ rxLoop.todo # <<>> /\ rxLoop.todo \in Seq(Frames) /\ rxLoop.frames \in Seq(Frames)
      /\ rxLoop \in LoopStates
  BY LoopFields DEF RxPacket, TypedInv, Phases, BridgeTyped
<1>2. PICK t, g : t = rxLoop.todo /\ g = rxLoop.frames
  OBVIOUS
<1>3. /\ t \in Seq(Frames) /\ g \in Seq(Frames) /\ Len(t) \in Nat \ {0} /\ Len(g) \in Nat /\ t # <<>>
  BY <1>1, <1>2, EmptySeq, LenProperties
<1>4. PICK f \in Frames : f = Head(t) /\ f = t[1]
  BY <1>3, HeadTailProperties DEF Head
<1>5. /\ rxLoop'.todo = Tail(t) /\ rxLoop'.frames = Append(g, f)
      /\ UNCHANGED <<freeFrames, fill, prod, cons, rx, fillLoop, lost>>
  BY <1>1, <1>2, <1>4 DEF RxPacket, LoopStates
<1>6. Len(Tail(t)) = Len(t) - 1 /\ \A i \in 1..(Len(t) - 1) : Tail(t)[i] = t[i + 1]
  BY <1>3, HeadTailProperties
<1>7. /\ Len(Append(g, f)) = Len(g) + 1 /\ Append(g, f)[Len(g) + 1] = f
      /\ \A i \in 1..Len(g) : Append(g, f)[i] = g[i]
  BY <1>3, <1>4, AppendProperties
<1>8. FillQueue' = FillQueue
  BY <1>5 DEF FillQueue, FillUsed
<1>9. Moved(Queues, Queues', lost, lost', 4, 5, 1, 1)
  <2>1. \A q \in Lanes \ {4, 5} : Queues'[q] = Queues[q]
    BY <1>5, <1>8, LaneOf, NextLaneOf DEF Lanes
  <2>2. \A i \in 1..(Len(t) - 1) : Tail(t)[i] = t[1 + i]
    BY <1>3, <1>6
  <2>3. Len(Queues'[4]) = Len(Queues[4]) - 1 /\ \A i \in Spots(Queues', 4) : Queues'[4][i] = Queues[4][1 + i]
    BY <1>2, <1>5, <1>6, <2>2, LaneOf, NextLaneOf DEF Spots
  <2>4. Len(Queues'[5]) = Len(Queues[5]) + 1 /\ \A i \in Spots(Queues, 5) : Queues'[5][i] = Queues[5][i]
    BY <1>2, <1>5, <1>7, LaneOf, NextLaneOf DEF Spots
  <2>5. \A i \in 1..1 : Queues'[5][Len(Queues[5]) + i] = Queues[4][i]
    BY <1>2, <1>4, <1>5, <1>7, LaneOf, NextLaneOf
  <2>6. lost' = lost \union {Queues[4][i] : i \in (1 + 1)..1}
    BY <1>5
  <2> QED BY <2>1, <2>3, <2>4, <2>5, <2>6 DEF Moved
<1>10. 4 \in Lanes /\ 5 \in Lanes /\ 4 # 5 /\ 1 \in Nat /\ 1 <= 1 /\ 1 <= Len(Queues[4])
  BY <1>2, <1>3, LaneOf DEF Lanes
<1> QED BY <1>9, <1>10, MoveStep, Zenon

(* fillLoop takes frames out of the pool. *)
LEMMA OwnedTick ==
  ASSUME TypedInv, FillRingInv, OwnInv, ~overlap, [BridgeNext]_bridgeVars, FillTick
  PROVE  OwnInv'
<1> USE DEF Life, Ring
<1>1. PICK m : m = toAdd
  OBVIOUS
<1>2. /\ fillLoop.pc = "wait"
      /\ fillLoop' = [fillLoop EXCEPT !.pc = "reserve", !.frames = SubSeq(freeFrames, 1, m)]
      /\ freeFrames' = SubSeq(freeFrames, m + 1, Len(freeFrames))
      /\ UNCHANGED <<fill, prod, cons, rx, rxLoop, lost>>
  BY <1>1, Zenon DEF FillTick
<1>3. freeFrames \in Seq(Frames) /\ Len(freeFrames) \in Nat /\ fillLoop \in LoopStates
  BY LenProperties DEF TypedInv, BridgeTyped
<1>4. m \in 0..Len(freeFrames)
  BY <1>1, <1>3 DEF toAdd
<1>5. PICK t \in Seq(Frames) : /\ t = SubSeq(freeFrames, 1, m) /\ Len(t) = m
                               /\ \A i \in 1..m : t[i] = freeFrames[i]
  <2>1. /\ SubSeq(freeFrames, 1, m) \in Seq(Frames) /\ Len(SubSeq(freeFrames, 1, m)) = m
        /\ \A i \in 1..m : SubSeq(freeFrames, 1, m)[i] = freeFrames[i]
    BY <1>3, <1>4, Part
  <2> QED BY <2>1, Zenon
<1>6. /\ Len(freeFrames') = Len(freeFrames) - m
      /\ \A i \in 1..(Len(freeFrames) - m) : freeFrames'[i] = freeFrames[m + i]
  BY <1>2, <1>3, <1>4, Part
<1>7. fillLoop'.frames = t
  BY <1>2, <1>3, <1>5 DEF LoopStates
<1>8. fillLoop.frames = <<>> /\ Len(<<>>) = 0
  BY <1>2, EmptySeq DEF TypedInv, Phases
<1>9. FillQueue' = FillQueue
  BY <1>2 DEF FillQueue, FillUsed
<1>10. Moved(Queues, Queues', lost, lost', 2, 6, m, m)
  <2>1. \A q \in Lanes \ {2, 6} : Queues'[q] = Queues[q]
    BY <1>2, <1>9, LaneOf, NextLaneOf DEF Lanes
  <2>2. Len(Queues'[2]) = Len(Queues[2]) - m /\ \A i \in Spots(Queues', 2) : Queues'[2][i] = Queues[2][m + i]
    BY <1>3, <1>4, <1>6, LaneOf, NextLaneOf DEF Spots
  <2>3. Len(Queues'[6]) = Len(Queues[6]) + m /\ \A i \in Spots(Queues, 6) : Queues'[6][i] = Queues[6][i]
    BY <1>4, <1>5, <1>7, <1>8, LaneOf, NextLaneOf DEF Spots
  <2>4. \A i \in 1..m : Queues'[6][Len(Queues[6]) + i] = Queues[2][i]
    BY <1>4, <1>5, <1>7, <1>8, LaneOf, NextLaneOf
  <2>5. lost' = lost \union {Queues[2][i] : i \in (m + 1)..m}
    BY <1>2, <1>4
  <2> QED BY <2>1, <2>2, <2>3, <2>4, <2>5 DEF Moved
<1>11. 2 \in Lanes /\ 6 \in Lanes /\ 2 # 6 /\ m \in Nat /\ m <= m /\ m <= Len(Queues[2])
  BY <1>3, <1>4, LaneOf DEF Lanes
<1> QED BY <1>10, <1>11, MoveStep, Zenon

(* A producer puts back what fits, and loses the rest: the frames of a loop  *)
(* in lane a, which holds nothing afterwards.                                *)
LEMMA OwnedRefill ==
  ASSUME TypedInv, FillRingInv, OwnInv, ~overlap, [BridgeNext]_bridgeVars,
         NEW a \in {5, 6}, NEW l \in LoopStates, FillProduce(l), cons' = cons,
         l.base = prod, l.n <= FillSize - FillUsed, l.n <= Len(l.frames),
         Queues[a] = l.frames, Queues'[a] = <<>>, \A q \in Lanes \ {1, a} : Queues'[q] = Queues[q]
  PROVE  OwnInv'
<1>1. PICK n, g : n = l.n /\ g = l.frames
  OBVIOUS
<1>2. /\ FillUsed' = FillUsed + n
      /\ FillQueue' = [i \in 1..(FillUsed + n) |->
                         IF i <= FillUsed THEN FillQueue[i] ELSE g[i - FillUsed]]
  BY <1>1, RingFilled, Zenon
<1>3. /\ n \in Nat /\ g \in Seq(Frames) /\ Len(g) \in Nat /\ n <= Len(g)
      /\ FillQueue \in Seq(Frames) /\ Len(FillQueue) = FillUsed /\ FillUsed \in Nat
  BY <1>1, LoopFields, LanesTyped, RingFacts, LenProperties
<1>4. Len(FillQueue') = FillUsed + n
  <2>1. PICK u \in Nat : u = FillUsed + n
    BY <1>3
  <2>2. ASSUME NEW i \in 1..u
        PROVE  (IF i <= FillUsed THEN FillQueue[i] ELSE g[i - FillUsed]) \in Frames
    <3>1. CASE i <= FillUsed
      <4>1. i \in 1..Len(FillQueue)
        BY <1>3, <3>1
      <4> QED BY <1>3, <3>1, <4>1, ElementOfSeq
    <3>2. CASE ~(i <= FillUsed)
      <4>1. i - FillUsed \in 1..Len(g)
        BY <1>3, <2>1, <3>2
      <4> QED BY <1>3, <3>2, <4>1, ElementOfSeq
    <3> QED BY <3>1, <3>2
  <2>3. FillQueue' \in [1..u -> Frames]
    BY <1>2, <2>1, <2>2
  <2>4. FillQueue' \in Seq(Frames)
    BY <2>1, <2>3, SeqDef, Zenon
  <2>5. DOMAIN FillQueue' = 1..Len(FillQueue') /\ Len(FillQueue') \in Nat
    BY <2>4, LenProperties
  <2>6. DOMAIN FillQueue' = 1..u
    BY <2>3
  <2>7. \A x, y \in Nat : 1..x = 1..y => x = y
    OBVIOUS
  <2> QED BY <2>1, <2>5, <2>6, <2>7, Zenon
<1>5. \A i \in 1..FillUsed : FillQueue'[i] = FillQueue[i]
  BY <1>2, <1>3
<1>6. \A i \in 1..n : FillQueue'[FillUsed + i] = g[i]
  <2> TAKE i \in 1..n
  <2>1. FillUsed + i \in 1..(FillUsed + n) /\ ~(FillUsed + i <= FillUsed) /\ (FillUsed + i) - FillUsed = i
    BY <1>3
  <2> QED BY <1>2, <2>1
<1>7. lost' = lost \union {g[i] : i \in (n + 1)..Len(g)}
  BY <1>1 DEF FillProduce
<1>8. Moved(Queues, Queues', lost, lost', a, 1, n, Len(g))
  <2>1. \A q \in Lanes \ {a, 1} : Queues'[q] = Queues[q]
    OBVIOUS
  <2>2. Len(Queues'[a]) = Len(Queues[a]) - Len(g) /\ \A i \in Spots(Queues', a) : Queues'[a][i] = Queues[a][Len(g) + i]
    <3>1. Len(Queues'[a]) = 0
      BY EmptySeq
    <3>2. Len(Queues[a]) = Len(g)
      BY <1>1
    <3>3. Spots(Queues', a) = {}
      BY <3>1 DEF Spots
    <3> QED BY <1>3, <3>1, <3>2, <3>3
  <2>3. Len(Queues'[1]) = Len(Queues[1]) + n /\ \A i \in Spots(Queues, 1) : Queues'[1][i] = Queues[1][i]
    BY <1>3, <1>4, <1>5, LaneOf, NextLaneOf, Zenon DEF Spots
  <2>4. \A i \in 1..n : Queues'[1][Len(Queues[1]) + i] = Queues[a][i]
    BY <1>1, <1>3, <1>6, LaneOf, NextLaneOf, Zenon
  <2>5. lost' = lost \union {Queues[a][i] : i \in (n + 1)..Len(g)}
    BY <1>1, <1>7
  <2> QED BY <2>1, <2>2, <2>3, <2>4, <2>5, Zenon DEF Moved
<1>9. a \in Lanes /\ 1 \in Lanes /\ a # 1 /\ Len(g) <= Len(Queues[a])
  BY <1>1, <1>3 DEF Lanes
<1> QED BY <1>3, <1>8, <1>9, MoveStep, Zenon

(* A step that leaves the queues alone. *)
LEMMA OwnedIdle ==
  ASSUME OwnInv, ~overlap, [BridgeNext]_bridgeVars,
         UNCHANGED <<freeFrames, fill, prod, cons, rx, lost>>, rxLoop'.todo = rxLoop.todo,
         rxLoop'.frames = rxLoop.frames, fillLoop'.frames = fillLoop.frames
  PROVE  OwnInv'
<1>1. Frames' = Frames
  BY SameFrames DEF Frames
<1>2. FillQueue' = FillQueue
  BY DEF FillQueue, FillUsed
<1>3. Queues' = Queues
  BY <1>2 DEF Queues
<1>4. Owned(Queues, lost, Frames)
  BY DEF OwnInv
<1>5. Owned(Queues', lost', Frames')
  BY <1>1, <1>3, <1>4
<1> QED BY <1>5, Zenon DEF OwnInv, Owned

(* Every step keeps each frame in one place. *)
LEMMA OwnedStep ==
  ASSUME TypedInv, FillRingInv, OwnInv, [BridgeNext]_bridgeVars
  PROVE  OwnInv'
<1> USE DEF Life, Ring, Data
<1>0. rxLoop \in LoopStates /\ fillLoop \in LoopStates
  BY DEF TypedInv, BridgeTyped
<1>1. CASE UNCHANGED bridgeVars
  <2>1. UNCHANGED <<freeFrames, fill, prod, cons, rx, lost, rxLoop, fillLoop, numFrames, overlap>>
    BY <1>1, Zenon DEF bridgeVars
  <2>2. Queues' = Queues /\ Frames' = Frames
    BY <2>1 DEF Queues, FillQueue, FillUsed, Frames
  <2> SUFFICES ASSUME ~overlap
               PROVE  Owned(Queues', lost', Frames')
    BY <2>1, Zenon DEF OwnInv, Owned
  <2>3. Owned(Queues, lost, Frames)
    BY DEF OwnInv
  <2> QED BY <2>1, <2>2, <2>3
<1> SUFFICES ASSUME BridgeNext, ~overlap
             PROVE  OwnInv'
  BY <1>1 DEF BridgeNext
<1>2. ASSUME UNCHANGED <<freeFrames, fill, prod, cons, rx, lost>>, rxLoop'.todo = rxLoop.todo,
             rxLoop'.frames = rxLoop.frames, fillLoop'.frames = fillLoop.frames
      PROVE  OwnInv'
  BY <1>2, OwnedIdle, Zenon
<1>3. CASE ConsumeMeta
  BY <1>2, <1>3, Zenon DEF ConsumeMeta
<1>4. CASE RxPoll /\ ~ctx
  <2>1. /\ rxLoop.pc = "poll" /\ rxLoop' = [Off EXCEPT !.pc = "done"]
        /\ UNCHANGED <<freeFrames, fill, prod, cons, rx, lost, fillLoop>>
    BY <1>4, Zenon DEF RxPoll
  <2>2. rxLoop.todo = <<>> /\ rxLoop.frames = <<>>
    BY <2>1 DEF TypedInv, Phases
  <2>3. rxLoop'.todo = <<>> /\ rxLoop'.frames = <<>>
    BY <2>1 DEF Off
  <2> QED BY <1>2, <2>1, <2>2, <2>3, Zenon
<1>5. CASE FillFirst \/ FillStop
  <2>1. UNCHANGED <<freeFrames, fill, prod, cons, rx, lost, rxLoop>>
    BY <1>5, Zenon DEF FillFirst, FillStop
  <2>2. fillLoop.frames = <<>>
    BY <1>5 DEF FillFirst, FillStop, TypedInv, Phases
  <2>3. fillLoop'.frames = <<>>
    BY <1>5 DEF FillFirst, FillStop, Off
  <2> QED BY <1>2, <2>1, <2>2, <2>3, Zenon
<1>6. CASE StartLoops
  <2>1. /\ UNCHANGED <<freeFrames, fill, prod, cons, rx, lost>> /\ running = "new"
        /\ rxLoop' = [Off EXCEPT !.pc = "poll"] /\ fillLoop' = [Off EXCEPT !.pc = "first"]
    BY <1>6, Zenon DEF StartLoops
  <2>2. rxLoop.todo = <<>> /\ rxLoop.frames = <<>> /\ fillLoop.frames = <<>>
    BY <2>1 DEF TypedInv, Phases
  <2>3. rxLoop'.todo = <<>> /\ rxLoop'.frames = <<>> /\ fillLoop'.frames = <<>>
    BY <2>1 DEF Off
  <2> QED BY <1>2, <2>1, <2>2, <2>3, Zenon
<1>7. CASE Cancel \/ RunReturns \/ DisableRedirect \/ BridgeClose
  BY <1>2, <1>7, Zenon DEF Cancel, RunReturns, DisableRedirect, BridgeClose
<1>8. CASE RxReserve
  <2>1. rxLoop' = Reserve(rxLoop) /\ UNCHANGED <<freeFrames, fill, prod, cons, rx, lost, fillLoop>>
    BY <1>8, Zenon DEF RxReserve
  <2>2. rxLoop'.todo = rxLoop.todo /\ rxLoop'.frames = rxLoop.frames
    BY <1>0, <2>1, Reserved, Zenon
  <2> QED BY <1>2, <2>1, <2>2, Zenon
<1>9. CASE FillReserve
  <2>1. fillLoop' = Reserve(fillLoop) /\ UNCHANGED <<freeFrames, fill, prod, cons, rx, lost, rxLoop>>
    BY <1>9, Zenon DEF FillReserve
  <2>2. fillLoop'.frames = fillLoop.frames
    BY <1>0, <2>1, Reserved, Zenon
  <2> QED BY <1>2, <2>1, <2>2, Zenon
<1>10. CASE RxRefill
  <2>1. /\ rxLoop.pc = "publish" /\ FillProduce(rxLoop) /\ rxLoop' = [Off EXCEPT !.pc = "poll"]
        /\ UNCHANGED <<freeFrames, cons, rx, fillLoop>>
    BY <1>10, Zenon DEF RxRefill
  <2>2. /\ rxLoop.base = prod /\ rxLoop.n <= FillSize - FillUsed
        /\ rxLoop.n <= Len(rxLoop.frames) /\ rxLoop.todo = <<>>
    BY <2>1 DEF FillRingInv, TypedInv, Phases
  <2>3. rxLoop'.todo = <<>> /\ rxLoop'.frames = <<>>
    BY <2>1 DEF Off
  <2>4. Queues[5] = rxLoop.frames /\ Queues'[5] = <<>> /\ \A q \in Lanes \ {1, 5} : Queues'[q] = Queues[q]
    BY <2>1, <2>2, <2>3, LaneOf, NextLaneOf DEF Lanes
  <2>5. 5 \in {5, 6}
    OBVIOUS
  <2> QED BY <1>0, <2>1, <2>2, <2>4, <2>5, OwnedRefill, Zenon
<1>11. CASE FillRefill
  <2>1. /\ fillLoop.pc = "publish" /\ FillProduce(fillLoop) /\ fillLoop' = [Off EXCEPT !.pc = "wait"]
        /\ UNCHANGED <<freeFrames, cons, rx, rxLoop>>
    BY <1>11, Zenon DEF FillRefill
  <2>2. /\ fillLoop.base = prod /\ fillLoop.n <= FillSize - FillUsed
        /\ fillLoop.n <= Len(fillLoop.frames)
    BY <2>1 DEF FillRingInv, TypedInv, Phases
  <2>3. fillLoop'.frames = <<>>
    BY <2>1 DEF Off
  <2>4. Queues[6] = fillLoop.frames /\ Queues'[6] = <<>> /\ \A q \in Lanes \ {1, 6} : Queues'[q] = Queues[q]
    BY <2>1, <2>3, LaneOf, NextLaneOf DEF Lanes
  <2>5. 6 \in {5, 6}
    OBVIOUS
  <2> QED BY <1>0, <2>1, <2>2, <2>4, <2>5, OwnedRefill, Zenon
<1>12. CASE RxPoll /\ ctx
  BY <1>12, OwnedPoll, Zenon
<1>13. CASE RxPacket
  BY <1>13, OwnedPacket, Zenon
<1>14. CASE FillTick
  BY <1>14, OwnedTick, Zenon
<1>15. ASSUME NEW p \in Shapes, KernelReceive(p)
       PROVE  OwnInv'
  BY <1>15, OwnedReceive, Zenon
<1> QED BY <1>3, <1>4, <1>5, <1>6, <1>7, <1>8, <1>9, <1>10, <1>11, <1>12, <1>13, <1>14, <1>15, Zenon
        DEF BridgeNext

(* As long as no two FillProduce calls overlap, every UMEM frame is in one    *)
(* place: the FILL ring, the pool, the RX ring or the hands of one loop, or   *)
(* it was refused by a full FILL ring, for every number of frames and all     *)
(* sizes of the rings and of their counters (bridge.go, rings.go, umem.go).   *)
THEOREM FramesOwnedOnce == BridgeSpec => []FrameOwnedOnce
<1>1. BridgeInit => TypedInv /\ FillRingInv /\ OwnInv
  BY BridgeStart, RingStart, OwnedAtStart
<1>2. TypedInv /\ FillRingInv /\ OwnInv /\ [BridgeNext]_bridgeVars => (TypedInv /\ FillRingInv /\ OwnInv)'
  BY TypedStep, RingStep, OwnedStep
<1>3. TypedInv /\ FillRingInv /\ OwnInv => FrameOwnedOnce
  BY OwnedIsOnce
<1> QED BY <1>1, <1>2, <1>3, PTL DEF BridgeSpec

-----------------------------------------------------------------------------
(* The AF_XDP bridge with no more frames than the FILL ring has slots        *)

(* The pool is empty, so fillLoop never produces. *)
OneProducer ==
  numFrames <= FillSize => /\ ~overlap /\ freeFrames = <<>>
                           /\ fillLoop.pc \notin {"reserve", "publish"}

(* With no more frames than slots, as configured by default, rxLoop is the   *)
(* only producer of the FILL ring: no two FillProduce calls overlap, and so   *)
(* every frame has one owner without exception.                               *)
THEOREM DefaultSingleProducer == BridgeSpec => [](numFrames <= FillSize => SingleProducer)
<1>1. BridgeInit => OneProducer
  <2> SUFFICES ASSUME BridgeInit, numFrames <= FillSize
               PROVE  ~overlap /\ freeFrames = <<>> /\ fillLoop.pc \notin {"reserve", "publish"}
    BY DEF OneProducer
  <2>1. numFrames \in Nat /\ FillSize \in Nat
    BY BridgeAssumption DEF BridgeInit
  <2>2. Prefilled = numFrames
    BY <2>1 DEF Prefilled, Least
  <2>3. freeFrames = [i \in 1..0 |-> numFrames + i - 1]
    BY <2>1, <2>2 DEF BridgeInit
  <2>4. freeFrames = <<>>
    BY <2>3
  <2> QED BY <2>4 DEF BridgeInit, Off
<1>2. TypedInv /\ OneProducer /\ [BridgeNext]_bridgeVars => OneProducer'
  <2> SUFFICES ASSUME TypedInv, OneProducer, [BridgeNext]_bridgeVars
               PROVE  OneProducer'
    OBVIOUS
  <2>1. numFrames' = numFrames
    BY SameFrames
  <2>2. ASSUME NEW p \in Shapes, KernelReceive(p)
        PROVE  OneProducer'
    BY <2>1, <2>2 DEF KernelReceive, OneProducer
  <2>3. CASE ConsumeMeta \/ RxPoll \/ RxPacket \/ RxRefill
    BY <2>1, <2>3 DEF ConsumeMeta, RxPoll, RxPacket, RxRefill, OneProducer
  <2>4. CASE RxReserve
    BY <2>1, <2>4, Zenon DEF RxReserve, OneProducer
  <2>5. CASE FillFirst \/ FillStop
    BY <2>1, <2>5 DEF FillFirst, FillStop, OneProducer, Off
  <2>6. CASE FillTick
    <3>1. freeFrames = <<>> => toAdd = 0
      BY EmptySeq DEF toAdd
    <3>2. ~(numFrames <= FillSize)
      BY <2>6, <3>1 DEF FillTick, OneProducer
    <3> QED BY <2>1, <3>2 DEF OneProducer
  <2>7. CASE FillReserve \/ FillRefill
    <3>1. ~(numFrames <= FillSize)
      BY <2>7 DEF FillReserve, FillRefill, OneProducer
    <3> QED BY <2>1, <3>1 DEF OneProducer
  <2>8. CASE StartLoops
    BY <2>1, <2>8 DEF StartLoops, OneProducer, Off, Data
  <2>9. CASE Cancel \/ RunReturns \/ DisableRedirect \/ BridgeClose
    BY <2>1, <2>9, Zenon DEF Cancel, RunReturns, DisableRedirect, BridgeClose, OneProducer, Data
  <2>10. CASE UNCHANGED bridgeVars
    BY <2>1, <2>10, Zenon DEF bridgeVars, OneProducer
  <2> QED BY <2>2, <2>3, <2>4, <2>5, <2>6, <2>7, <2>8, <2>9, <2>10, Zenon DEF BridgeNext
<1>3. OneProducer => (numFrames <= FillSize => SingleProducer)
  BY DEF OneProducer, SingleProducer
<1> QED BY <1>1, <1>2, <1>3, BridgeStart, TypedStep, PTL DEF BridgeSpec
=============================================================================
