---------------------------- MODULE MCFailsafe ----------------------------
(* FailsafeEngine twice in one run.  Full: all actors, with SIGHUPs, a SOC   *)
(* handler and failing writes, timers of one unit.  Sole: the engine as the  *)
(* only user-space writer, with longer timers and several trips (the         *)
(* constants of the configuration).                                          *)
EXTENDS FailsafeEngine

VARIABLE which

Full == INSTANCE FailsafeEngine WITH
  MaxCooldown <- 1, TripCap <- 1, BackoffResetAfter <- 0, Thresholds <- {1},
  OverrideChCap <- 1, SocOps <- {"open", "close", "thresholds"},
  Sighups <- TRUE, Faults <- TRUE

FailsafeInit == \/ which = "full" /\ Full!Init
                \/ which = "sole" /\ Init
FailsafeNext == \/ which = "full" /\ Full!Next /\ UNCHANGED which
                \/ which = "sole" /\ Next /\ UNCHANGED which
FailsafeSpec == FailsafeInit /\ [][FailsafeNext]_<<which, vars>>
===========================================================================
