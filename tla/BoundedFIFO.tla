---------------------------- MODULE BoundedFIFO ----------------------------
(***************************************************************************)
(* What the lock-free ring of control/failsafe.go promises its users: a    *)
(* first-in first-out queue of at most Capacity entries.  A push is        *)
(* refused, and counted, only when the queue is full; a pop comes back     *)
(* empty only when the queue is empty.                                     *)
(***************************************************************************)
EXTENDS Naturals, Sequences

CONSTANTS
  Messages,  \* the packet snapshots
  Capacity,  \* RingCapacity
  DropCap    \* the refusal counter is counted up to this

VARIABLES
  queue,     \* the entries pushed and not popped
  dropped,   \* refused pushes
  popped     \* what the last pop returned: an entry as a one-element sequence, or <<>>

fifoVars == <<queue, dropped, popped>>

FInit == queue = <<>> /\ dropped = 0 /\ popped = <<>>

Put ==
  /\ Len(queue) < Capacity
  /\ \E m \in Messages : queue' = Append(queue, m)
  /\ UNCHANGED <<dropped, popped>>

Refuse ==
  /\ Len(queue) = Capacity
  /\ dropped' = IF dropped < DropCap THEN dropped + 1 ELSE dropped
  /\ UNCHANGED <<queue, popped>>

Get ==
  /\ queue # <<>>
  /\ popped' = <<Head(queue)>>
  /\ queue' = Tail(queue)
  /\ UNCHANGED dropped

GetNothing ==
  /\ queue = <<>>
  /\ popped' = <<>>
  /\ UNCHANGED <<queue, dropped>>

FNext == Put \/ Refuse \/ Get \/ GetNothing

FSpec == FInit /\ [][FNext]_fifoVars
=============================================================================
