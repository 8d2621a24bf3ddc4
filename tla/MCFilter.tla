----------------------------- MODULE MCFilter -----------------------------
(* PacketFilter twice in one run.  One: one CPU, with operators and sweepers *)
(* between its map accesses.  Two: two CPUs on one source, with evictions.   *)
(* which tells the two apart; with one CPU the other stays idle.             *)
EXTENDS MCPacketFilter

VARIABLE which

One == INSTANCE PacketFilter WITH Cpus <- {1}, Evictions <- FALSE
Two == INSTANCE PacketFilter WITH
  MaxTime <- 1, MaxShift <- 1, PenaltyShift <- 1, SynCost <- 1, RateCapacity <- 1,
  RefillTime <- 1, Blocks <- NoBlocks, Operators <- FALSE, Sweeps <- FALSE

FilterInit == which \in {"one", "two"} /\ Init
FilterNext == \/ which = "one" /\ One!Next /\ UNCHANGED which
              \/ which = "two" /\ Two!Next /\ UNCHANGED which
FilterSpec == FilterInit /\ [][FilterNext]_<<which, vars>>

(* On one CPU a source is given no more tokens than its bucket and the       *)
(* elapsed time hold (check_rate_limit's truncating refill).                 *)
OneCpuRateBounded == which = "one" => RateBounded
(* On one CPU a SYN-flood ban is not shortened by a later, lesser ban        *)
(* (apply_cooling_ban), whatever operators and sweeps do in between.         *)
OneCpuPenaltyHolds == which = "one" => PenaltyHolds
===========================================================================
