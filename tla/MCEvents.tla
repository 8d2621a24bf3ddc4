----------------------------- MODULE MCEvents -----------------------------
(* The parts of falxd that hand packets and events on: the ring of           *)
(* control/failsafe.go, the AF_XDP bridge, the event bus, and the honeypot   *)
(* manager with its tracker.  They share no state, so one run checks all:    *)
(* which tells whose steps a behaviour consists of.  The ring never stops;   *)
(* the others do, at their bounds or when they are shut down.                *)
(* The bridge receives an IPv4 packet whose header length points past its    *)
(* end, which ParseFrame refuses, and an IPv6 packet that ends with its UDP  *)
(* header.                                                                   *)
EXTENDS SPSCRing, AFXDPBridge, EventBus, Honeypot

VARIABLE which

SomeShapes == {[len |-> 36, etype |-> "ipv4", ihl |-> 60, proto |-> "udp"],
               [len |-> 62, etype |-> "ipv6", ihl |-> 0, proto |-> "udp"]}

EventsInit == /\ which \in {"ring", "bridge", "bus", "honeypot"}
              /\ Init /\ BridgeInit /\ BusInit /\ PotInit
              /\ (which # "ring" => head = 0) /\ (which # "bridge" => numFrames = 2)
EventsNext ==
  \/ which = "ring" /\ Next /\ UNCHANGED <<which, bridgeVars, busVars, potVars>>
  \/ which = "bridge" /\ BridgeNext /\ UNCHANGED <<which, ringVars, busVars, potVars>>
  \/ which = "bus" /\ BusNext /\ UNCHANGED <<which, ringVars, bridgeVars, potVars>>
  \/ which = "honeypot" /\ PotNext /\ UNCHANGED <<which, ringVars, bridgeVars, busVars>>
  \/ which # "ring" /\ UNCHANGED <<which, ringVars, bridgeVars, busVars, potVars>>
EventsSpec == /\ EventsInit /\ [][EventsNext]_<<which, ringVars, bridgeVars, busVars, potVars>>
              /\ BusFairness /\ PotFairness
===========================================================================
