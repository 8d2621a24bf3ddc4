------------------------------ MODULE SPSCRing ------------------------------
(***************************************************************************)
(* The single-producer single-consumer ring of control/failsafe.go: Push   *)
(* and Pop broken at every access to memory the other side also touches.   *)
(* head and tail are free-running counters of Word values (2^64 in the     *)
(* code) that wrap around.                                                 *)
(***************************************************************************)
EXTENDS Naturals, Sequences

CONSTANTS
  Messages,     \* the packet snapshots
  None,         \* the zero SpscMeta of an unused slot
  Capacity,     \* RingCapacity
  Word,         \* the counters count modulo this
  DropCap       \* the dropped counter is counted up to this

ASSUME RingAssumption ==
  /\ Capacity \in Nat \ {0}
  /\ Word \in Nat /\ Word % Capacity = 0 /\ Word > Capacity
  /\ Messages # {} /\ None \notin Messages
  /\ DropCap \in Nat

VARIABLES
  head, tail, dropped, slots,
  push,    \* the producer: [at, m], what it pushes and how far it is
  pop,     \* the consumer: [at, m]
  popped   \* what the last Pop returned

ringVars == <<head, tail, dropped, slots, push, pop, popped>>

Entry == Messages \union {None}
Counter == 0..(Word - 1)

TypeOK ==
  /\ head \in Counter /\ tail \in Counter
  /\ dropped \in 0..DropCap
  /\ slots \in [0..(Capacity - 1) -> Entry]
  /\ push \in [at : {"idle", "slot", "head"}, m : Entry]
  /\ pop \in [at : {"idle", "slot", "tail"}, m : Entry]
  /\ popped \in {<<>>} \union {<<m>> : m \in Entry}

Minus(a, b) == (a + Word - b) % Word

Succ(a) == (a + 1) % Word
Slot(counter) == counter % Capacity
Used == Minus(head, tail)
RingFull == Used >= Capacity

Init ==
  /\ head \in Counter     \* a ring that has been used before
  /\ tail = head
  /\ dropped = 0
  /\ slots = [i \in 0..(Capacity - 1) |-> None]
  /\ push = [at |-> "idle", m |-> None]
  /\ pop = [at |-> "idle", m |-> None]
  /\ popped = <<>>

-----------------------------------------------------------------------------
(* Push: the load of tail decides; then the slot and then head are stored. *)

PushLoad(m) ==
  /\ push.at = "idle"
  /\ \/ /\ RingFull
        /\ dropped' = IF dropped < DropCap THEN dropped + 1 ELSE dropped
        /\ UNCHANGED push
     \/ /\ ~RingFull
        /\ push' = [at |-> "slot", m |-> m]
        /\ UNCHANGED dropped
  /\ UNCHANGED <<head, tail, slots, pop, popped>>

PushSlot ==
  /\ push.at = "slot"
  /\ slots' = [slots EXCEPT ![Slot(head)] = push.m]
  /\ push' = [push EXCEPT !.at = "head"]
  /\ UNCHANGED <<head, tail, dropped, pop, popped>>

PushHead ==
  /\ push.at = "head"
  /\ head' = Succ(head)
  /\ push' = [at |-> "idle", m |-> None]
  /\ UNCHANGED <<tail, dropped, slots, pop, popped>>

-----------------------------------------------------------------------------
(* Pop: the load of head decides; then the slot is read and tail stored. *)

PopLoad ==
  /\ pop.at = "idle"
  /\ \/ /\ head = tail
        /\ popped' = <<>>
        /\ UNCHANGED pop
     \/ /\ head # tail
        /\ pop' = [at |-> "slot", m |-> None]
        /\ UNCHANGED popped
  /\ UNCHANGED <<head, tail, dropped, slots, push>>

(* Mutant: tail is released before the slot is read. *)
PopSlot_ReleasesFirst ==
  /\ pop.at = "slot"
  /\ tail' = Succ(tail)
  /\ pop' = [at |-> "tail", m |-> None]
  /\ UNCHANGED <<head, dropped, slots, push, popped>>

PopSlot ==
  /\ pop.at = "slot"
  /\ pop' = [at |-> "tail", m |-> slots[Slot(tail)]]
  /\ UNCHANGED <<head, tail, dropped, slots, push, popped>>

PopTail ==
  /\ pop.at = "tail"
  /\ tail' = Succ(tail)
  /\ popped' = <<pop.m>>
  /\ pop' = [at |-> "idle", m |-> None]
  /\ UNCHANGED <<head, dropped, slots, push>>

Next ==
  \/ \E m \in Messages : PushLoad(m)
  \/ PushSlot
  \/ PushHead
  \/ PopLoad
  \/ PopSlot
  \/ PopTail

Spec == Init /\ [][Next]_ringVars

-----------------------------------------------------------------------------
(* Properties *)

(* Push stores a slot without a lock while Pop may be reading one: the two   *)
(* never touch the same slot at the same time.                              *)
NoSlotRace == push.at = "slot" /\ pop.at = "slot" => Slot(head) # Slot(tail)

(* The entries published and not yet popped, oldest first. *)
Published == [i \in 1..Used |-> slots[Slot(tail + i - 1)]]

FIFO == INSTANCE BoundedFIFO WITH queue <- Published

(* Push and Pop, interleaved at every shared access and across the counters' *)
(* wrap-around, behave as atomic operations on a bounded FIFO queue: nothing *)
(* is lost, duplicated, reordered or refused without need.                   *)
ImplementsFIFO == FIFO!FSpec
=============================================================================
