------------------------- MODULE FailsafeDetection -------------------------
(***************************************************************************)
(* FailsafeEngine composed with the detectors of failsafe/detector.go and  *)
(* the packet counters they read (ReadStats over the counters bumped by    *)
(* process_packet): a tick no longer guesses its verdict, it follows from  *)
(* the traffic seen and dropped so far.                                    *)
(*                                                                         *)
(* The two ratio detectors work on cumulative counters and are exact.  The *)
(* rate detectors (absolute threshold and spike over the EMA baseline) may *)
(* or may not fire when packets arrived since the previous sample and do   *)
(* not fire when none did; the EMA itself is left out.                     *)
(***************************************************************************)
EXTENDS FailsafeEngine

CONSTANTS
  MaxPackets,    \* the packets, in all, that arrive: traffic ends
  MaxCrashes,    \* the crashes of falxd, in all (bound)
  BlockedDrops   \* whether packets are also dropped by other stages

ASSUME TrafficAssumption == {MaxPackets, MaxCrashes} \subseteq Nat /\ BlockedDrops \in BOOLEAN

VARIABLES
  stats,   \* cumulative: packets received, drops as checkDropRatio sums them, parse errors
  prevRx,  \* rx_packets at the previous sample
  samples, \* detector.sampleCount, counted up to 2
  crashes  \* crashes so far

detector == <<stats, prevRx, samples>>
dvars == <<vars, detector, crashes>>

DetectorOK ==
  /\ stats \in [rx : 0..MaxPackets, drops : 0..(2 * MaxPackets), errors : 0..MaxPackets]
  /\ prevRx \in 0..stats.rx
  /\ samples \in 0..2 /\ crashes \in 0..MaxCrashes

-----------------------------------------------------------------------------
(* DropRatioThreshold 0.90 and ParseErrorRateThreshold 0.05. *)
checkDropRatio == stats.rx # 0 /\ 10 * stats.drops > 9 * stats.rx
checkParseErrors == stats.rx # 0 /\ 20 * stats.errors > stats.rx
Flagged == checkDropRatio \/ checkParseErrors

(* Mutant: the first sample after a start is judged like the others. *)
Verdicts_FirstSample ==
  IF Flagged THEN {TRUE} ELSE IF stats.rx > prevRx THEN BOOLEAN ELSE {FALSE}

(* The verdicts one call of Analyze may return; the first sample returns none. *)
Verdicts ==
  IF samples = 0 THEN {FALSE}
  ELSE IF Flagged THEN {TRUE}
  ELSE IF stats.rx > prevRx THEN BOOLEAN
  ELSE {FALSE}

(* Mutant: the previous sample is never replaced. *)
Analyze_KeepsPrev ==
  /\ samples' = Lesser(samples + 1, 2)
  /\ UNCHANGED <<prevRx, stats>>

Analyze ==
  /\ prevRx' = stats.rx
  /\ samples' = Lesser(samples + 1, 2)
  /\ UNCHANGED stats

(* One tick.  tickOpen does not call Analyze; a quiet HALF_OPEN tick inside  *)
(* the probe window changes the detector only.                               *)
Poll ==
  \/ /\ cb.state = OPEN
     /\ Tick(FALSE)
     /\ UNCHANGED <<detector, crashes>>
  \/ /\ cb.state # OPEN
     /\ \E triggered \in Verdicts : Tick(triggered)
     /\ Analyze
     /\ UNCHANGED crashes
  \/ /\ cb.state = HALF_OPEN /\ Idle("engine")
     /\ FALSE \in Verdicts
     /\ halfOpenAge < HalfOpenProbeWindow
     /\ Analyze
     /\ UNCHANGED <<vars, crashes>>

(* process_packet, for the counters.  A packet that does not parse counts   *)
(* neither as received nor in the failsafe window.  A failsafe drop bumps   *)
(* both dropped and failsafe_drops; a blocklist drop bumps dropped and a    *)
(* rate-limited one rate_limited.                                           *)
ParseError ==
  /\ stats.errors < MaxPackets
  /\ stats' = [stats EXCEPT !.errors = @ + 1]
  /\ UNCHANGED <<vars, prevRx, samples, crashes>>

Counted(n) == [rx |-> stats.rx + 1, drops |-> stats.drops + n, errors |-> stats.errors]

Receive ==
  /\ stats.rx < MaxPackets
  /\ Packet
  /\ stats' \in IF fs'.open = 1 THEN {Counted(2)}
                ELSE {Counted(0)} \union (IF BlockedDrops THEN {Counted(1)} ELSE {})
  /\ UNCHANGED <<prevRx, samples, crashes>>

(* A non-IP frame passes before the failsafe stage. *)
ReceiveNonIP ==
  /\ stats.rx < MaxPackets
  /\ stats' = Counted(0)
  /\ UNCHANGED <<vars, prevRx, samples, crashes>>

DInit ==
  /\ Init
  /\ stats = [rx |-> 0, drops |-> 0, errors |-> 0]
  /\ prevRx = 0
  /\ samples = 0
  /\ crashes = 0

(* A restarted engine has a new detector; the kernel's counters go on. *)
Restart ==
  /\ crashes < MaxCrashes
  /\ crashes' = crashes + 1
  /\ CrashRestart
  /\ prevRx' = 0
  /\ samples' = 0
  /\ UNCHANGED stats

Quiet(A) == A /\ UNCHANGED <<detector, crashes>>

DNext == Poll \/ ParseError \/ Receive \/ ReceiveNonIP \/ Restart \/ Quiet(Others)

(* The poll ticker fires, map writes return and time passes; nothing is     *)
(* assumed of operators, signals or traffic, and falxd crashes finitely     *)
(* often.                                                                   *)
DSpec ==
  /\ DInit /\ [][DNext]_dvars
  /\ WF_dvars(Poll)
  /\ WF_dvars(Quiet(\E ok \in Outcome : EngineWrite(ok)))
  /\ WF_dvars(Quiet(Clock))

-----------------------------------------------------------------------------
(* Properties *)

(* Analyze and NewEngine: a restarted engine finds counters that have been  *)
(* growing since the XDP program was loaded; it counts no violation before  *)
(* it has two samples of its own, so a restart is never taken for a flood.  *)
RestartIsNoFlood == cb.violations > 0 => samples = 2

(* Recovery (tickOpen, tickHalfOpen): once traffic has ended and neither    *)
(* cumulative ratio is over its limit, the engine closes the circuit and    *)
(* leaves it closed.                                                        *)
ClosesWhenClean == <>[]~Flagged => <>[](cb.state = CLOSED)

(* PROJECT_REPORT.md: "The HALF-OPEN probe auto-closes after a cooldown":    *)
(* traffic ends, so the engine's circuit is closed again eventually.        *)
EngineRecovers == []<>(cb.state = CLOSED)
=============================================================================
