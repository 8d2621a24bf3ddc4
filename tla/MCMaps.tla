------------------------------ MODULE MCMaps ------------------------------
(* The shared maps, checked in one run from two sides that share no state in *)
(* the models: who writes, audits and expires their entries (MapOps), and    *)
(* who creates, pins and opens the maps themselves (MapPins).  which tells   *)
(* whose steps a behaviour consists of; the other side stays where it began. *)
EXTENDS MapOps, MapPins

VARIABLE which

MapsInit == which \in {"ops", "pins"} /\ Init /\ PinsInit

MapsNext ==
  \/ which = "ops" /\ Next /\ UNCHANGED <<which, pinVars>>
  \/ which = "pins" /\ PinsNext /\ UNCHANGED <<which, vars>>

(* The fairness of the sweep, where its steps are the ones taken.            *)
MapsSpec ==
  /\ MapsInit /\ [][MapsNext]_<<which, vars, pinVars>>
  /\ WF_vars(which = "ops" /\ Sweep) /\ WF_vars(which = "ops" /\ SweepDone)
  /\ \A i \in IPs : WF_vars(which = "ops" /\ Visit(i)) /\ WF_vars(which = "ops" /\ SweepDelete(i))
===========================================================================
