---------------------------- MODULE MCPacketFilter ----------------------------
(* PacketFilter for TLC: one address whose bytes read the same both ways, or *)
(* two that are each other's reverse, and the blocks callers ask for.        *)
EXTENDS PacketFilter

CONSTANTS s1, s2

SelfSwapped == [s \in Sources |-> s]
Swapped == [s \in Sources |-> IF s = s1 THEN s2 ELSE s1]

NoBlocks == {}
TimedAndPermanent == {<<"DROP", 0>>, <<"REDIRECT", 1>>}

=============================================================================
