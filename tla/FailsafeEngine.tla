--------------------------- MODULE FailsafeEngine ---------------------------
(***************************************************************************)
(* The failsafe circuit of FALX: the polling engine of falxd               *)
(* (internal/failsafe/engine.go), the FAILSAFE_STATE map it shares with    *)
(* the XDP program (ebpf-kern/src/main.rs, check_failsafe), with the SIGHUP *)
(* handler of falxd (cmd/falxd/daemon.go, hotReload) and with the HTTP     *)
(* handlers of the falx-soc process (soc-backend, security_handler.go).    *)
(*                                                                         *)
(* Every user-space writer changes the map by reading the whole struct and *)
(* writing the whole struct back (bpfmaps.Manager, SetCircuitOpen and      *)
(* UpdateFailsafeThresholds).  io[a] holds the struct that actor a has     *)
(* computed from its read and has not written yet, so any other actor, and *)
(* the XDP program, may act in between.                                    *)
(***************************************************************************)
EXTENDS CircuitBreaker, Sequences

CONSTANTS
  BackoffResetAfter,      \* RecoveryConfig.BackoffResetAfter
  HalfOpenProbeWindow,    \* RecoveryConfig.HalfOpenProbeWindow
  AdminOverrideCooldown,  \* adminOverrideCooldown
  ConsecutiveViolations,  \* DetectorConfig.ConsecutiveViolations
  Thresholds,             \* the pps thresholds operators configure
  PpsCap,                 \* current_pps is counted up to this
  OverrideChCap,          \* capacity of overrideCh
  Handlers,               \* concurrent request handlers of falx-soc
  SocOps,                 \* the requests falx-soc receives
  Overrides,              \* the calls made to the engine's override API
  Sighups, Crashes, Faults \* whether SIGHUPs, crashes of falxd, failed map writes happen

ASSUME TimingAssumption ==
  /\ BackoffResetAfter \in Nat
  /\ HalfOpenProbeWindow \in Nat
  /\ AdminOverrideCooldown \in Nat
  /\ ConsecutiveViolations \in Nat \ {0}
ASSUME KernelAssumption ==
  /\ PpsCap \in Nat \ {0}
  /\ Thresholds \subseteq Nat \ {0}
  /\ Thresholds # {}
  /\ OverrideChCap \in Nat \ {0}
ASSUME ActorAssumption ==
  /\ SocOps \subseteq {"open", "close", "thresholds"}
  /\ Overrides \subseteq {"forceOpen", "forceClose"}
  /\ {"engine", "reload"} \cap Handlers = {}
  /\ {Sighups, Crashes, Faults} \subseteq BOOLEAN

VARIABLES
  cb,           \* the breaker record
  halfOpenAge,  \* time since e.halfOpenAt
  closedAge,    \* time since e.lastClosedAt, or NeverClosed
  latchAge,     \* time since adminLatch was armed; inactive beyond the cooldown
  fileAge,      \* age of the sentinel file; absent or stale at the cooldown
  overrideCh,   \* the engine's command channel
  detThr,       \* the threshold the in-process detector uses
  toml,         \* pps_threshold in falx.toml
  hup,          \* a SIGHUP is pending for falxd
  fs,           \* the FAILSAFE_STATE struct in the kernel
  io            \* pending map write of every user-space actor

vars == <<cb, halfOpenAge, closedAge, latchAge, fileAge, overrideCh,
          detThr, toml, hup, fs, io>>
engineTimes == <<halfOpenAge, closedAge, latchAge>>
operator == <<fileAge, toml, hup>>

Actors == {"engine", "reload"} \union Handlers
NeverClosed == -1

(* sinceAge is the age Go computes from open_since_ns, read as Unix        *)
(* nanoseconds.  The XDP program stores bpf_ktime_get_ns (time since boot) *)
(* there, and closing stores 0: both read as decades ago, i.e. MaxCooldown. *)
(* pps is current_pps while the one-second window it was counted in lasts, *)
(* and 0 afterwards, when the next packet restarts the count at 1.         *)
FailsafeState == [open : {0, 1}, sinceAge : 0..MaxCooldown, thr : Thresholds,
                  pps : 0..PpsCap]

Steps == {"idle", "write", "writeForceClose", "send", "read",
          "open", "close", "thresholds", "remove", "touch", "persist", "reload"}

Command == [kind : {"forceOpen", "forceClose", "threshold"}, thr : Thresholds]

TypeOK ==
  /\ cb \in Breaker
  /\ halfOpenAge \in 0..HalfOpenProbeWindow
  /\ closedAge \in NeverClosed..BackoffResetAfter
  /\ latchAge \in 0..(AdminOverrideCooldown + 1)
  /\ fileAge \in 0..AdminOverrideCooldown
  /\ overrideCh \in Seq(Command)
  /\ detThr \in Thresholds
  /\ toml \in Thresholds
  /\ hup \in BOOLEAN
  /\ fs \in FailsafeState
  /\ io \in [Actors -> [step : Steps, new : FailsafeState]]

-----------------------------------------------------------------------------
(* Helpers *)

LatchActive == latchAge <= AdminOverrideCooldown
LatchCleared == AdminOverrideCooldown + 1
adminOverrideFileActive == fileAge < AdminOverrideCooldown

Idle(a) == io[a].step = "idle"

(* Lookup of the map by actor a, and the struct it will write back.  The   *)
(* struct of an idle actor is irrelevant and kept at a fixed value.        *)
BeginWrite(a, step, new) == io' = [io EXCEPT ![a] = [step |-> step, new |-> new]]
Blank == [open |-> 0, sinceAge |-> MaxCooldown, thr |-> CHOOSE t \in Thresholds : TRUE,
          pps |-> 0]
Finish(a) == io' = [io EXCEPT ![a] = [step |-> "idle", new |-> Blank]]

(* The struct SetCircuitOpen writes, computed from the one it read. *)
SetCircuitOpen(open) ==
  IF open THEN [open |-> 1, sinceAge |-> 0, thr |-> fs.thr, pps |-> fs.pps]
          ELSE [open |-> 0, sinceAge |-> MaxCooldown, thr |-> fs.thr, pps |-> 0]

UpdateFailsafeThresholds(thr) == [fs EXCEPT !.thr = thr]

(* NewEngine and syncStateFromKernel: a fresh breaker, OPEN if the kernel   *)
(* circuit is; tripCount and the in-process latch are lost.                 *)
syncStateFromKernel ==
  IF fs.open = 1
  THEN [state |-> OPEN, tripCount |-> 0, violations |-> 0, openAge |-> fs.sinceAge]
  ELSE newCircuitBreaker

-----------------------------------------------------------------------------
Init ==
  /\ fs \in {f \in FailsafeState : f.pps = 0 /\ (f.open = 1 \/ f.sinceAge = MaxCooldown)}
  /\ toml = fs.thr
  /\ detThr = fs.thr
  /\ cb = syncStateFromKernel
  /\ halfOpenAge = HalfOpenProbeWindow
  /\ closedAge = NeverClosed
  /\ latchAge = LatchCleared
  /\ fileAge = AdminOverrideCooldown
  /\ overrideCh = <<>>
  /\ hup = FALSE
  /\ io = [a \in Actors |-> [step |-> "idle", new |-> Blank]]

-----------------------------------------------------------------------------
(* The engine goroutine.  triggered: some detector fires on this sample.    *)

(* tickClosed with the detector verdict, up to the circuit write. *)
BackoffReset(b) ==
  IF closedAge # NeverClosed /\ closedAge >= BackoffResetAfter
  THEN ResetTripCount(b) ELSE b

TickClosed(triggered) ==
  LET suppressed == LatchActive \/ adminOverrideFileActive
      counted == IncrViolation(BackoffReset(cb))
  IN
  /\ cb.state = CLOSED
  /\ \/ /\ suppressed
        /\ cb' = ResetViolation(cb)
        /\ UNCHANGED io
     \/ /\ ~suppressed /\ ~triggered
        /\ cb' = ResetViolation(BackoffReset(cb))
        /\ UNCHANGED io
     \/ /\ ~suppressed /\ triggered /\ counted.violations < ConsecutiveViolations
        /\ cb' = counted
        /\ UNCHANGED io
     \/ /\ ~suppressed /\ triggered /\ counted.violations >= ConsecutiveViolations
        /\ cb' = Trip(counted)
        /\ BeginWrite("engine", "write", SetCircuitOpen(TRUE))
  /\ UNCHANGED engineTimes

(* Mutant: the kernel is opened to traffic during the probe. *)
TickOpen_PassesProbe ==
  /\ cb.state = OPEN
  /\ ShouldAttemptRecovery(cb)
  /\ cb' = AttemptRecovery(cb)
  /\ halfOpenAge' = 0
  /\ BeginWrite("engine", "write", SetCircuitOpen(FALSE))
  /\ UNCHANGED <<closedAge, latchAge>>

TickOpen ==
  /\ cb.state = OPEN
  /\ ShouldAttemptRecovery(cb)
  /\ cb' = AttemptRecovery(cb)
  /\ halfOpenAge' = 0
  /\ UNCHANGED <<closedAge, latchAge, io>>

(* Mutant: closing forgets to record lastClosedAt. *)
TickHalfOpen_KeepsClosedAt(triggered) ==
  /\ cb.state = HALF_OPEN
  /\ \/ triggered /\ cb' = ReTrip(cb) /\ UNCHANGED io
     \/ /\ ~triggered /\ halfOpenAge >= HalfOpenProbeWindow
        /\ cb' = Close(cb)
        /\ BeginWrite("engine", "write", SetCircuitOpen(FALSE))
  /\ UNCHANGED engineTimes

(* Mutant: a quiet tick restarts the probe window. *)
TickHalfOpen_RestartsProbe(triggered) ==
  /\ cb.state = HALF_OPEN
  /\ \/ /\ triggered /\ cb' = ReTrip(cb)
        /\ UNCHANGED <<closedAge, halfOpenAge, io>>
     \/ /\ ~triggered /\ halfOpenAge < HalfOpenProbeWindow
        /\ halfOpenAge' = 0
        /\ UNCHANGED <<cb, closedAge, io>>
     \/ /\ ~triggered /\ halfOpenAge >= HalfOpenProbeWindow
        /\ cb' = Close(cb) /\ closedAge' = 0
        /\ BeginWrite("engine", "write", SetCircuitOpen(FALSE))
        /\ UNCHANGED halfOpenAge
  /\ UNCHANGED latchAge

(* A re-trip does not write the map; a quiet probe window closes. *)
TickHalfOpen(triggered) ==
  /\ cb.state = HALF_OPEN
  /\ \/ /\ triggered
        /\ cb' = ReTrip(cb)
        /\ UNCHANGED <<closedAge, io>>
     \/ /\ ~triggered
        /\ halfOpenAge >= HalfOpenProbeWindow
        /\ cb' = Close(cb)
        /\ closedAge' = 0
        /\ BeginWrite("engine", "write", SetCircuitOpen(FALSE))
  /\ UNCHANGED <<halfOpenAge, latchAge>>

Tick(triggered) ==
  /\ Idle("engine")
  /\ TickClosed(triggered) \/ TickOpen \/ TickHalfOpen(triggered)
  /\ UNCHANGED <<operator, overrideCh, detThr, fs>>

(* Mutant: an operator's ForceOpen leaves the latch armed. *)
applyForceOpen_KeepsLatch ==
  /\ fileAge' = AdminOverrideCooldown
  /\ cb' = Trip(cb)
  /\ BeginWrite("engine", "write", SetCircuitOpen(TRUE))
  /\ UNCHANGED <<latchAge, detThr>>

applyForceOpen ==
  /\ latchAge' = LatchCleared
  /\ fileAge' = AdminOverrideCooldown
  /\ cb' = Trip(cb)
  /\ BeginWrite("engine", "write", SetCircuitOpen(TRUE))
  /\ UNCHANGED detThr

(* touchAdminOverrideFile ignores the error of a failed write. *)
applyForceClose ==
  /\ latchAge' = 0
  /\ fileAge' \in IF Faults THEN {0, fileAge} ELSE {0}
  /\ cb' = Close(cb)
  /\ BeginWrite("engine", "writeForceClose", SetCircuitOpen(FALSE))
  /\ UNCHANGED detThr

(* Mutant: the command does not carry the threshold. *)
applyThresholds_Unset(cmd) ==
  /\ detThr' = 0
  /\ UNCHANGED <<latchAge, fileAge, cb, io>>

applyThresholds(cmd) ==
  /\ detThr' = cmd.thr
  /\ UNCHANGED <<latchAge, fileAge, cb, io>>

applyOverride ==
  /\ Idle("engine")
  /\ overrideCh # <<>>
  /\ overrideCh' = Tail(overrideCh)
  /\ LET cmd == Head(overrideCh) IN
     \/ cmd.kind = "forceOpen" /\ applyForceOpen
     \/ cmd.kind = "forceClose" /\ applyForceClose
     \/ cmd.kind = "threshold" /\ applyThresholds(cmd)
  /\ UNCHANGED <<halfOpenAge, closedAge, toml, hup, fs>>

(* The engine's map update; ok is FALSE when the rate limiter or the map    *)
(* refuses it, which is only counted.  ForceClose sets lastClosedAt last.   *)
EngineWrite(ok) ==
  /\ io["engine"].step \in {"write", "writeForceClose"}
  /\ fs' = IF ok THEN io["engine"].new ELSE fs
  /\ closedAge' = IF io["engine"].step = "writeForceClose" THEN 0 ELSE closedAge
  /\ Finish("engine")
  /\ UNCHANGED <<cb, halfOpenAge, latchAge, operator, overrideCh, detThr>>

(* ForceOpen and ForceClose: a full channel returns ErrEngineBusy. *)
ForceOverride(kind) ==
  /\ Len(overrideCh) < OverrideChCap
  /\ overrideCh' = Append(overrideCh, [kind |-> kind, thr |-> Blank.thr])
  /\ UNCHANGED <<cb, engineTimes, operator, detThr, fs, io>>

-----------------------------------------------------------------------------
(* The signal goroutine of falxd: hotReload and Engine.UpdateThresholds.    *)

(* An operator edits falx.toml and signals falxd. *)
Sighup ==
  /\ hup' = TRUE
  /\ toml' \in Thresholds
  /\ UNCHANGED <<cb, engineTimes, fileAge, overrideCh, detThr, fs, io>>

(* LoadConfig; a file that cannot be read ends the reload. *)
hotReload(ok) ==
  /\ Idle("reload") /\ hup
  /\ hup' = FALSE
  /\ \/ ok /\ BeginWrite("reload", "send", [Blank EXCEPT !.thr = toml])
     \/ ~ok /\ UNCHANGED io
  /\ UNCHANGED <<cb, engineTimes, fileAge, toml, overrideCh, detThr, fs>>

(* Engine.UpdateThresholds: queue the command, then read the map.  A full   *)
(* channel drops the reload before the kernel write.                        *)
QueueThresholds ==
  /\ io["reload"].step = "send"
  /\ \/ /\ Len(overrideCh) < OverrideChCap
        /\ overrideCh' = Append(overrideCh, [kind |-> "threshold", thr |-> io["reload"].new.thr])
        /\ io' = [io EXCEPT !["reload"].step = "read"]
     \/ /\ Len(overrideCh) >= OverrideChCap
        /\ Finish("reload")
        /\ UNCHANGED overrideCh
  /\ UNCHANGED <<cb, engineTimes, operator, detThr, fs>>

ReloadRead ==
  /\ io["reload"].step = "read"
  /\ BeginWrite("reload", "write", UpdateFailsafeThresholds(io["reload"].new.thr))
  /\ UNCHANGED <<cb, engineTimes, operator, overrideCh, detThr, fs>>

ReloadWrite(ok) ==
  /\ io["reload"].step = "write"
  /\ fs' = IF ok THEN io["reload"].new ELSE fs
  /\ Finish("reload")
  /\ UNCHANGED <<cb, engineTimes, operator, overrideCh, detThr>>

-----------------------------------------------------------------------------
(* falx-soc: a request reads the map, writes it, then does its file work.   *)

ForceOpenCircuit(h) == BeginWrite(h, "open", SetCircuitOpen(TRUE))
ForceCloseCircuit(h) == BeginWrite(h, "close", SetCircuitOpen(FALSE))
UpdateThresholds(h) ==
  \E thr \in Thresholds : BeginWrite(h, "thresholds", UpdateFailsafeThresholds(thr))

SocRequest(h, op) ==
  /\ Idle(h)
  /\ \/ op = "open" /\ ForceOpenCircuit(h)
     \/ op = "close" /\ ForceCloseCircuit(h)
     \/ op = "thresholds" /\ UpdateThresholds(h)
  /\ UNCHANGED <<cb, engineTimes, operator, overrideCh, detThr, fs>>

(* A failed write returns an error to the operator and ends the request. *)
SocWrite(h, ok) ==
  /\ io[h].step \in {"open", "close", "thresholds"}
  /\ \/ /\ ok
        /\ fs' = io[h].new
        /\ io' = [io EXCEPT ![h].step =
                    CASE @ = "open" -> "remove" [] @ = "close" -> "touch"
                      [] @ = "thresholds" -> "persist"]
     \/ /\ ~ok
        /\ Finish(h)
        /\ UNCHANGED fs
  /\ UNCHANGED <<cb, engineTimes, operator, overrideCh, detThr>>

(* The sentinel file is removed or touched, a failure to touch it ignored. *)
SocSentinel(h, ok) ==
  /\ io[h].step \in {"remove", "touch"}
  /\ fileAge' = IF io[h].step = "remove" THEN AdminOverrideCooldown
                ELSE IF ok THEN 0 ELSE fileAge
  /\ Finish(h)
  /\ UNCHANGED <<cb, engineTimes, toml, hup, overrideCh, detThr, fs>>

(* persistFailsafeThresholds; when falx.toml cannot be written no reload    *)
(* is requested.                                                            *)
SocPersist(h, ok) ==
  /\ io[h].step = "persist"
  /\ \/ /\ ok
        /\ toml' = io[h].new.thr
        /\ io' = [io EXCEPT ![h].step = "reload"]
     \/ /\ ~ok
        /\ Finish(h)
        /\ UNCHANGED toml
  /\ UNCHANGED <<cb, engineTimes, fileAge, hup, overrideCh, detThr, fs>>

(* systemctl reload falxd; a failure is only logged. *)
SocReload(h, ok) ==
  /\ io[h].step = "reload"
  /\ hup' = (hup \/ ok)
  /\ Finish(h)
  /\ UNCHANGED <<cb, engineTimes, fileAge, toml, overrideCh, detThr, fs>>

-----------------------------------------------------------------------------
(* The kernel, the clock and crashes *)

(* check_failsafe for one packet: count it in the one-second window, open   *)
(* the circuit when the count passes the threshold.                         *)
Packet ==
  LET n == Lesser(fs.pps + 1, PpsCap)
      opens == fs.open = 0 /\ n > fs.thr
  IN
  /\ fs' = [open |-> IF opens THEN 1 ELSE fs.open,
            sinceAge |-> IF opens THEN MaxCooldown ELSE fs.sinceAge,
            thr |-> fs.thr, pps |-> n]
  /\ UNCHANGED <<cb, engineTimes, operator, overrideCh, detThr, io>>

Aged(f) ==
  [open |-> f.open, sinceAge |-> Older(f.sinceAge, MaxCooldown), thr |-> f.thr, pps |-> 0]

(* One unit of time: every instant held anywhere gets older. *)
Clock ==
  /\ cb' = [cb EXCEPT !.openAge = Older(@, MaxCooldown)]
  /\ halfOpenAge' = Older(halfOpenAge, HalfOpenProbeWindow)
  /\ closedAge' = IF closedAge = NeverClosed THEN closedAge
                  ELSE Older(closedAge, BackoffResetAfter)
  /\ latchAge' = Older(latchAge, LatchCleared)
  /\ fileAge' = Older(fileAge, AdminOverrideCooldown)
  /\ fs' = Aged(fs)
  /\ io' = [a \in Actors |-> [io[a] EXCEPT !.new = IF Idle(a) THEN Blank ELSE Aged(@)]]
  /\ UNCHANGED <<overrideCh, detThr, toml, hup>>

(* falxd dies at any point, also between a map read and its write, and      *)
(* starts again from the pinned map and falx.toml.  When the map cannot be  *)
(* read the engine starts CLOSED.                                           *)
CrashRestart ==
  /\ \/ cb' = syncStateFromKernel
     \/ Faults /\ cb' = newCircuitBreaker
  /\ halfOpenAge' = HalfOpenProbeWindow
  /\ closedAge' = NeverClosed
  /\ latchAge' = LatchCleared
  /\ overrideCh' = <<>>
  /\ detThr' = toml
  /\ hup' = FALSE
  /\ io' = [a \in Actors |-> IF a \in {"engine", "reload"}
                             THEN [step |-> "idle", new |-> Blank] ELSE io[a]]
  /\ UNCHANGED <<fileAge, toml, fs>>

Outcome == IF Faults THEN BOOLEAN ELSE {TRUE}

(* Everything but the poll, the packets and the crashes. *)
Others ==
  \/ applyOverride
  \/ \E ok \in Outcome : EngineWrite(ok)
  \/ \E kind \in Overrides : ForceOverride(kind)
  \/ Sighups /\ Sighup
  \/ \E ok \in Outcome : hotReload(ok)
  \/ QueueThresholds
  \/ ReloadRead
  \/ \E ok \in Outcome : ReloadWrite(ok)
  \/ \E h \in Handlers, op \in SocOps : SocRequest(h, op)
  \/ \E h \in Handlers, ok \in Outcome : SocWrite(h, ok)
  \/ \E h \in Handlers, ok \in Outcome : SocSentinel(h, ok)
  \/ \E h \in Handlers, ok \in Outcome : SocPersist(h, ok)
  \/ \E h \in Handlers, ok \in Outcome : SocReload(h, ok)
  \/ Clock

Next ==
  \/ \E triggered \in BOOLEAN : Tick(triggered)
  \/ Packet
  \/ Crashes /\ CrashRestart
  \/ Others

Spec == Init /\ [][Next]_vars

-----------------------------------------------------------------------------
(* Properties *)

(* engine.go, header and tickOpen/tickHalfOpen ("Keep circuit_open=1 in      *)
(* kernel (already set)"): whenever the engine is between two handlers and  *)
(* believes the circuit is OPEN or HALF_OPEN, the kernel is dropping.       *)
KernelDropsWhileTripped == Idle("engine") /\ cb.state # CLOSED => fs.open = 1

(* tickClosed and applyOverride: from a ForceClose until the latch expires  *)
(* or a ForceOpen clears it, the breaker stays CLOSED, whatever the         *)
(* detectors say and however commands, ticks and expiry interleave.         *)
OverrideLatchHolds == LatchActive => cb.state = CLOSED

(* Hysteresis: violations counted before a trip never carry over into the   *)
(* next CLOSED period, and a count that should have tripped never lingers.  *)
HysteresisFresh ==
  /\ cb.state # CLOSED => cb.violations = 0
  /\ cb.violations < ConsecutiveViolations

(* tickClosed resets the backoff when the time since lastClosedAt is long    *)
(* enough: between handlers, lastClosedAt is never older than the last      *)
(* opening, so a circuit that has just been closed is not taken for stable. *)
BackoffClockFresh ==
  Idle("engine") /\ cb.state = CLOSED /\ closedAge # NeverClosed
    => closedAge <= cb.openAge \/ cb.openAge = MaxCooldown

(* CooldownFor bounds its exponent by a logarithm so that the shift cannot   *)
(* overflow; the bound must not show: for each configuration up to this one, *)
(* the wait after this many trips is base * 2^(trips - 1), cut off at max.   *)
CooldownCapped ==
  cb.tripCount > 0 =>
    \A max \in 1..MaxCooldown : \A base \in 1..max :
      Cooldown(base, max, cb.tripCount) = Lesser(base * 2^(cb.tripCount - 1), max)

(* Recovery: the engine either returns to CLOSED again and again, or its     *)
(* probes keep failing; it never rests in OPEN or HALF_OPEN.                *)
ReTripStep == cb.state = HALF_OPEN /\ cb'.state = OPEN
RecoveryProgress == []<>(cb.state = CLOSED) \/ []<><<ReTripStep>>_vars
=============================================================================
