----------------------- MODULE FailsafeEngine_proofs -----------------------
(***************************************************************************)
(* Proofs about FailsafeEngine and, at the end, about its composition with *)
(* the detectors in FailsafeDetection, for every choice of timings,        *)
(* thresholds, handlers, channel capacity, traffic and enabled environment *)
(* behaviour.                                                              *)
(***************************************************************************)
EXTENDS FailsafeDetection, TLAPS

-----------------------------------------------------------------------------
(* Facts about the operators *)

(* The breaker methods of state.go return well-formed breakers. *)
LEMMA BreakerMethods ==
  ASSUME NEW b \in Breaker
  PROVE  /\ Trip(b) \in Breaker
         /\ ReTrip(b) \in Breaker
         /\ AttemptRecovery(b) \in Breaker
         /\ Close(b) \in Breaker
         /\ IncrViolation(b) \in Breaker
         /\ ResetViolation(b) \in Breaker
         /\ ResetTripCount(b) \in Breaker
BY CooldownAssumption, TripCapAssumption
   DEF Breaker, Trip, CanTrip, Opened, ReTrip, CanReTrip, AttemptRecovery, Close, CanClose,
       IncrViolation, ResetViolation, ResetTripCount, Lesser, CircuitState, CLOSED, OPEN, HALF_OPEN

(* A saturating age stays within its limit. *)
LEMMA OlderType ==
  ASSUME NEW limit \in Nat, NEW age \in 0..limit
  PROVE  Older(age, limit) \in 0..limit
BY DEF Older, Lesser

(* The struct of an idle actor is well-formed. *)
LEMMA BlankType == Blank \in FailsafeState
<1>1. (CHOOSE t \in Thresholds : TRUE) \in Thresholds
  BY KernelAssumption
<1> QED
  BY <1>1, CooldownAssumption, KernelAssumption DEF Blank, FailsafeState

(* What SetCircuitOpen and UpdateFailsafeThresholds write is well-formed. *)
LEMMA WrittenType ==
  ASSUME fs \in FailsafeState
  PROVE  /\ SetCircuitOpen(TRUE) \in FailsafeState
         /\ SetCircuitOpen(FALSE) \in FailsafeState
         /\ \A t \in Thresholds : UpdateFailsafeThresholds(t) \in FailsafeState
<1>1. SetCircuitOpen(TRUE) \in FailsafeState
  BY CooldownAssumption, KernelAssumption DEF FailsafeState, SetCircuitOpen
<1>2. SetCircuitOpen(FALSE) \in FailsafeState
  BY CooldownAssumption, KernelAssumption DEF FailsafeState, SetCircuitOpen
<1>3. \A t \in Thresholds : UpdateFailsafeThresholds(t) \in FailsafeState
  BY DEF FailsafeState, UpdateFailsafeThresholds
<1> QED BY <1>1, <1>2, <1>3, Zenon

LEMMA AgedType ==
  ASSUME NEW f \in FailsafeState
  PROVE  Aged(f) \in FailsafeState
BY CooldownAssumption, KernelAssumption DEF FailsafeState, Aged, Older, Lesser

LEMMA SyncType ==
  ASSUME fs \in FailsafeState
  PROVE  syncStateFromKernel \in Breaker /\ newCircuitBreaker \in Breaker
BY CooldownAssumption, TripCapAssumption
   DEF FailsafeState, syncStateFromKernel, newCircuitBreaker, Breaker, CircuitState,
       CLOSED, OPEN, HALF_OPEN

TimesOK ==
  /\ halfOpenAge \in 0..HalfOpenProbeWindow
  /\ closedAge \in NeverClosed..BackoffResetAfter
  /\ latchAge \in 0..(AdminOverrideCooldown + 1)
  /\ fileAge \in 0..AdminOverrideCooldown

IOType == [Actors -> [step : Steps, new : FailsafeState]]

(* Starting and finishing a map access keeps the pending writes well-formed. *)
LEMMA PendingType ==
  ASSUME io \in IOType, NEW a \in Actors
  PROVE  /\ \A s \in Steps, new \in FailsafeState :
              BeginWrite(a, s, new) => io' \in IOType
         /\ Finish(a) => io' \in IOType
         /\ \A s \in Steps : io' = [io EXCEPT ![a].step = s] => io' \in IOType
         /\ io[a].new \in FailsafeState
         /\ io[a].step \in Steps
<1>1. \A s \in Steps, new \in FailsafeState : BeginWrite(a, s, new) => io' \in IOType
  BY DEF BeginWrite, IOType
<1>2. Finish(a) => io' \in IOType
  BY BlankType DEF Finish, IOType, Steps
<1>3. \A s \in Steps : io' = [io EXCEPT ![a].step = s] => io' \in IOType
  BY DEF IOType
<1>4. io[a].new \in FailsafeState /\ io[a].step \in Steps
  BY DEF IOType
<1> QED BY <1>1, <1>2, <1>3, <1>4

-----------------------------------------------------------------------------
(* Type correctness *)

(* The engine, the map, the command channel and every pending write of      *)
(* falxd and falx-soc stay well-formed, whatever interleaves.               *)
THEOREM TypeCorrect == Spec => []TypeOK
<1>1. Init => TypeOK
  <2> SUFFICES ASSUME Init PROVE TypeOK
    OBVIOUS
  <2>1. fs \in FailsafeState
    BY DEF Init
  <2>2. toml \in Thresholds /\ detThr \in Thresholds
    BY <2>1 DEF Init, FailsafeState
  <2>3. cb \in Breaker
    BY <2>1, SyncType DEF Init
  <2>4. io \in IOType
    BY BlankType DEF Init, IOType, Steps
  <2>5. TimesOK
    BY TimingAssumption DEF Init, TimesOK, NeverClosed, LatchCleared
  <2>6. overrideCh \in Seq(Command)
    BY DEF Init
  <2>7. hup \in BOOLEAN
    BY Zenon DEF Init
  <2> QED
    BY <2>1, <2>2, <2>3, <2>4, <2>5, <2>6, <2>7 DEF TypeOK, IOType, TimesOK
<1>2. TypeOK /\ [Next]_vars => TypeOK'
  <2> SUFFICES ASSUME TypeOK, [Next]_vars PROVE TypeOK'
    OBVIOUS
  <2> USE DEF operator, engineTimes
  <2>0. /\ cb \in Breaker /\ fs \in FailsafeState /\ io \in IOType
        /\ "engine" \in Actors /\ "reload" \in Actors /\ Handlers \subseteq Actors
        /\ fs.thr \in Thresholds
    BY DEF TypeOK, IOType, Actors, FailsafeState
  <2>t. TimesOK
    BY DEF TypeOK, TimesOK
  <2>1. ASSUME NEW triggered \in BOOLEAN, Tick(triggered) PROVE TypeOK'
    <3>1. cb' \in Breaker
      BY <2>0, <2>1, BreakerMethods, Zenon
         DEF Tick, TickClosed, TickOpen, TickHalfOpen, BackoffReset
    <3>2. io' \in IOType
      BY <2>0, <2>1, PendingType, WrittenType, Zenon DEF Tick, TickClosed, TickOpen, TickHalfOpen, Steps
    <3>3. TimesOK'
      <4>1. CASE TickClosed(triggered)
        BY <2>1, <2>t, <4>1 DEF TimesOK, Tick, TickClosed
      <4>2. CASE TickOpen
        BY <2>1, <2>t, <4>2, TimingAssumption DEF TimesOK, Tick, TickOpen
      <4>3. CASE TickHalfOpen(triggered)
        <5>1. 0 \in NeverClosed..BackoffResetAfter
          BY TimingAssumption DEF NeverClosed
        <5>2. closedAge' \in {closedAge, 0}
          BY <4>3, Zenon DEF TickHalfOpen
        <5> QED
          BY <2>1, <2>t, <4>3, <5>1, <5>2 DEF TimesOK, Tick, TickHalfOpen
      <4> QED
        BY <2>1, <4>1, <4>2, <4>3 DEF Tick
    <3> QED
      BY <2>1, <3>1, <3>2, <3>3 DEF TypeOK, IOType, TimesOK, Tick
  <2>2. ASSUME applyOverride PROVE TypeOK'
    <3>1. overrideCh' \in Seq(Command) /\ Head(overrideCh) \in Command
      BY <2>2 DEF TypeOK, applyOverride
    <3>2. cb' \in Breaker
      BY <2>0, <2>2, BreakerMethods, Zenon
         DEF applyOverride, applyForceOpen, applyForceClose, applyThresholds
    <3>3. io' \in IOType
      BY <2>0, <2>2, PendingType, WrittenType, Zenon
         DEF applyOverride, applyForceOpen, applyForceClose, applyThresholds, Steps
    <3>4. TimesOK'
      <4>1. CASE applyForceOpen
        BY <2>2, <2>t, <4>1, TimingAssumption DEF TimesOK, applyOverride, applyForceOpen, LatchCleared
      <4>2. CASE applyForceClose
        BY <2>2, <2>t, <4>2, TimingAssumption DEF TimesOK, applyOverride, applyForceClose
      <4>3. CASE applyThresholds(Head(overrideCh))
        BY <2>2, <2>t, <4>3 DEF TimesOK, applyOverride, applyThresholds
      <4> QED
        BY <2>2, <4>1, <4>2, <4>3 DEF applyOverride
    <3>5. detThr' \in Thresholds
      BY <2>2, <3>1, Zenon
         DEF TypeOK, applyOverride, applyForceOpen, applyForceClose, applyThresholds, Command
    <3> QED
      BY <2>2, <3>1, <3>2, <3>3, <3>4, <3>5 DEF TypeOK, IOType, TimesOK, applyOverride
  <2>3. ASSUME NEW ok \in Outcome, EngineWrite(ok) PROVE TypeOK'
    <3>1. fs' \in FailsafeState /\ io' \in IOType
      BY <2>0, <2>3, PendingType DEF EngineWrite
    <3>2. closedAge' \in NeverClosed..BackoffResetAfter
      BY <2>3, TimingAssumption DEF TypeOK, EngineWrite, NeverClosed
    <3> QED
      BY <2>3, <3>1, <3>2 DEF TypeOK, IOType, EngineWrite
  <2>4. ASSUME NEW kind \in Overrides, ForceOverride(kind) PROVE TypeOK'
    <3>1. [kind |-> kind, thr |-> Blank.thr] \in Command
      BY BlankType, ActorAssumption DEF Command, FailsafeState
    <3>2. overrideCh' \in Seq(Command)
      BY <2>4, <3>1 DEF TypeOK, ForceOverride
    <3> QED
      BY <2>4, <3>2 DEF TypeOK, ForceOverride
  <2>5. ASSUME Sighup PROVE TypeOK'
    BY <2>5 DEF TypeOK, Sighup
  <2>6. ASSUME NEW ok \in Outcome, hotReload(ok) PROVE TypeOK'
    <3>1. [Blank EXCEPT !.thr = toml] \in FailsafeState
      BY BlankType DEF TypeOK, FailsafeState
    <3>2. io' \in IOType
      BY <2>0, <2>6, <3>1, PendingType DEF hotReload, Steps
    <3> QED
      BY <2>6, <3>2, Zenon DEF TypeOK, IOType, hotReload
  <2>7. ASSUME QueueThresholds PROVE TypeOK'
    <3>1. [kind |-> "threshold", thr |-> io["reload"].new.thr] \in Command
      BY <2>0, PendingType DEF Command, FailsafeState
    <3>2. overrideCh' \in Seq(Command)
      BY <2>7, <3>1 DEF TypeOK, QueueThresholds
    <3>3. io' \in IOType
      BY <2>0, <2>7, PendingType DEF QueueThresholds, Steps
    <3> QED
      BY <2>7, <3>2, <3>3 DEF TypeOK, IOType, QueueThresholds
  <2>8. ASSUME ReloadRead PROVE TypeOK'
    <3>1. io["reload"].new.thr \in Thresholds
      BY <2>0, PendingType DEF FailsafeState
    <3>2. io' \in IOType
      BY <2>0, <2>8, <3>1, PendingType, WrittenType DEF ReloadRead, Steps
    <3> QED
      BY <2>8, <3>2 DEF TypeOK, IOType, ReloadRead
  <2>9. ASSUME NEW ok \in Outcome, ReloadWrite(ok) PROVE TypeOK'
    <3>1. fs' \in FailsafeState /\ io' \in IOType
      BY <2>0, <2>9, PendingType DEF ReloadWrite
    <3> QED
      BY <2>9, <3>1 DEF TypeOK, IOType, ReloadWrite
  <2>10. ASSUME NEW h \in Handlers, NEW op \in SocOps, SocRequest(h, op) PROVE TypeOK'
    <3>1. io' \in IOType
      BY <2>0, <2>10, PendingType, WrittenType, Zenon
         DEF SocRequest, ForceOpenCircuit, ForceCloseCircuit, UpdateThresholds, Steps
    <3> QED
      BY <2>10, <3>1 DEF TypeOK, IOType, SocRequest
  <2>11. ASSUME NEW h \in Handlers, NEW ok \in Outcome, SocWrite(h, ok) PROVE TypeOK'
    <3>1. fs' \in FailsafeState
      BY <2>0, <2>11, PendingType DEF SocWrite
    <3>2. io' \in IOType
      BY <2>0, <2>11, PendingType DEF SocWrite, Steps, IOType
    <3> QED
      BY <2>11, <3>1, <3>2 DEF TypeOK, IOType, SocWrite
  <2>12. ASSUME NEW h \in Handlers, NEW ok \in Outcome, SocSentinel(h, ok) PROVE TypeOK'
    <3>1. io' \in IOType
      BY <2>0, <2>12, PendingType DEF SocSentinel
    <3> QED
      BY <2>12, <3>1, TimingAssumption DEF TypeOK, IOType, SocSentinel
  <2>13. ASSUME NEW h \in Handlers, NEW ok \in Outcome, SocPersist(h, ok) PROVE TypeOK'
    <3>1. toml' \in Thresholds
      BY <2>0, <2>13, PendingType DEF SocPersist, FailsafeState, TypeOK
    <3>2. io' \in IOType
      BY <2>0, <2>13, PendingType DEF SocPersist, Steps
    <3> QED
      BY <2>13, <3>1, <3>2 DEF TypeOK, IOType, SocPersist
  <2>14. ASSUME NEW h \in Handlers, NEW ok \in Outcome, SocReload(h, ok) PROVE TypeOK'
    <3>1. io' \in IOType
      BY <2>0, <2>14, PendingType DEF SocReload
    <3>2. hup' \in BOOLEAN
      BY <2>14 DEF SocReload
    <3> QED
      BY <2>14, <3>1, <3>2 DEF TypeOK, IOType, SocReload
  <2>15. ASSUME Packet PROVE TypeOK'
    <3>1. fs' \in FailsafeState
      BY <2>0, <2>15, CooldownAssumption, KernelAssumption DEF Packet, FailsafeState, Lesser
    <3> QED
      BY <2>15, <3>1 DEF TypeOK, Packet
  <2>16. ASSUME Clock PROVE TypeOK'
    <3>1. cb' \in Breaker
      BY <2>0, <2>16, CooldownAssumption DEF Clock, Breaker, Older, Lesser
    <3>2. TimesOK'
      BY <2>t, <2>16, TimingAssumption DEF TimesOK, Clock, Older, Lesser, NeverClosed, LatchCleared
    <3>3. fs' \in FailsafeState
      BY <2>0, <2>16, AgedType DEF Clock
    <3>4. \A a \in Actors : [io[a] EXCEPT !.new = IF Idle(a) THEN Blank ELSE Aged(@)]
                              \in [step : Steps, new : FailsafeState]
      BY <2>0, AgedType, BlankType DEF IOType
    <3>5. io' \in IOType
      BY <2>16, <3>4, Zenon DEF Clock, IOType
    <3> QED
      BY <2>16, <3>1, <3>2, <3>3, <3>5 DEF TypeOK, IOType, TimesOK, Clock
  <2>17. ASSUME CrashRestart PROVE TypeOK'
    <3>1. cb' \in Breaker
      BY <2>0, <2>17, SyncType DEF CrashRestart
    <3>2. io' \in IOType
      BY <2>0, <2>17, BlankType DEF CrashRestart, IOType, Steps
    <3>3. overrideCh' \in Seq(Command)
      BY <2>17 DEF CrashRestart
    <3>4. TimesOK'
      BY <2>t, <2>17, TimingAssumption DEF TimesOK, CrashRestart, NeverClosed, LatchCleared
    <3> QED
      BY <2>17, <3>1, <3>2, <3>3, <3>4, Zenon DEF TypeOK, IOType, TimesOK, CrashRestart
  <2>18. CASE UNCHANGED vars
    BY <2>18 DEF vars, TypeOK
  <2> QED
    BY <2>1, <2>2, <2>3, <2>4, <2>5, <2>6, <2>7, <2>8, <2>9, <2>10, <2>11, <2>12,
       <2>13, <2>14, <2>15, <2>16, <2>17, <2>18 DEF Next, Others
<1> QED
  BY <1>1, <1>2, PTL DEF Spec

-----------------------------------------------------------------------------
(* The admin override latch *)

(* The steps other than the engine's own, the clock's and a restart leave   *)
(* the breaker, the engine's instants and the engine's pending write alone. *)
Bystander ==
  \/ \E kind \in Overrides : ForceOverride(kind)
  \/ Sighups /\ Sighup
  \/ \E ok \in Outcome : hotReload(ok)
  \/ QueueThresholds
  \/ ReloadRead
  \/ \E ok \in Outcome : ReloadWrite(ok)
  \/ \E h \in Handlers, op \in SocOps : SocRequest(h, op)
  \/ \E h \in Handlers, ok \in Outcome : SocWrite(h, ok)
  \/ \E h \in Handlers, ok \in Outcome : SocSentinel(h, ok)
  \/ \E h \in Handlers, ok \in Outcome : SocPersist(h, ok)
  \/ \E h \in Handlers, ok \in Outcome : SocReload(h, ok)
  \/ Packet

LEMMA NextCases ==
  Next <=> \/ \E triggered \in BOOLEAN : Tick(triggered)
           \/ applyOverride
           \/ \E ok \in Outcome : EngineWrite(ok)
           \/ Clock
           \/ Crashes /\ CrashRestart
           \/ Bystander
BY DEF Next, Others, Bystander

LEMMA BystanderFrame == Bystander => UNCHANGED <<cb, halfOpenAge, closedAge, latchAge>>
BY Zenon DEF Bystander, engineTimes, ForceOverride, Sighup, hotReload, QueueThresholds, ReloadRead,
       ReloadWrite, SocRequest, SocWrite, SocSentinel, SocPersist, SocReload, Packet

(* From an operator's ForceClose until the latch expires or a ForceOpen      *)
(* clears it, nothing takes the breaker out of CLOSED (tickClosed and        *)
(* applyOverride), for every timing and any number of SOC handlers.          *)
THEOREM LatchHolds == Spec => []OverrideLatchHolds
<1>1. Init => OverrideLatchHolds
  BY TimingAssumption DEF Init, OverrideLatchHolds, LatchActive, LatchCleared
<1>2. TypeOK /\ OverrideLatchHolds /\ [Next]_vars => OverrideLatchHolds'
  <2> SUFFICES ASSUME TypeOK, OverrideLatchHolds, [Next]_vars PROVE OverrideLatchHolds'
    OBVIOUS
  <2>0. cb \in Breaker /\ latchAge \in 0..(AdminOverrideCooldown + 1)
    BY DEF TypeOK
  <2> USE DEF OverrideLatchHolds, LatchActive, engineTimes
  <2>1. ASSUME NEW triggered \in BOOLEAN, Tick(triggered) PROVE OverrideLatchHolds'
    <3>1. CASE TickClosed(triggered)
      BY <2>0, <3>1, Zenon DEF TickClosed, Breaker, ResetViolation
    <3>2. CASE TickOpen
      BY <3>2 DEF TickOpen, OPEN, CLOSED
    <3>3. CASE TickHalfOpen(triggered)
      BY <3>3 DEF TickHalfOpen, HALF_OPEN, CLOSED
    <3> QED
      BY <2>1, <3>1, <3>2, <3>3 DEF Tick
  <2>2. ASSUME applyOverride PROVE OverrideLatchHolds'
    <3>1. CASE applyForceOpen
      BY <3>1, TimingAssumption DEF applyForceOpen, LatchCleared
    <3>2. CASE applyForceClose
      BY <2>0, <3>2 DEF applyForceClose, Close, CanClose, Breaker
    <3>3. CASE applyThresholds(Head(overrideCh))
      BY <3>3 DEF applyThresholds
    <3> QED
      BY <2>2, <3>1, <3>2, <3>3 DEF applyOverride
  <2>3. ASSUME NEW ok \in Outcome, EngineWrite(ok) PROVE OverrideLatchHolds'
    BY <2>3 DEF EngineWrite
  <2>4. ASSUME Clock PROVE OverrideLatchHolds'
    BY <2>0, <2>4, TimingAssumption DEF Clock, Older, Lesser, LatchCleared, Breaker
  <2>5. ASSUME CrashRestart PROVE OverrideLatchHolds'
    BY <2>5, TimingAssumption DEF CrashRestart, LatchCleared
  <2>6. ASSUME Bystander PROVE OverrideLatchHolds'
    BY <2>6, BystanderFrame
  <2>7. CASE UNCHANGED vars
    BY <2>7 DEF vars
  <2> QED
    BY <2>1, <2>2, <2>3, <2>4, <2>5, <2>6, <2>7, NextCases
<1> QED
  BY <1>1, <1>2, TypeCorrect, PTL DEF Spec

-----------------------------------------------------------------------------
(* Hysteresis *)

(* What each breaker method does to the state and to the violation count. *)
LEMMA MethodEffects ==
  ASSUME NEW b \in Breaker
  PROVE  /\ Opened(b).violations = 0 /\ Opened(b).state = OPEN
         /\ Close(b).violations = b.violations /\ Close(b).state = CLOSED
         /\ ResetViolation(b).violations = 0 /\ ResetViolation(b).state = b.state
         /\ IncrViolation(b).violations = b.violations + 1 /\ IncrViolation(b).state = b.state
         /\ ResetTripCount(b).violations = b.violations /\ ResetTripCount(b).state = b.state
         /\ BackoffReset(b).violations = b.violations /\ BackoffReset(b).state = b.state
         /\ BackoffReset(b) \in Breaker
<1>1. /\ Opened(b).violations = 0 /\ Opened(b).state = OPEN
      /\ Close(b).violations = b.violations /\ Close(b).state = CLOSED
  BY DEF Breaker, Opened, Close, CanClose
<1>2. /\ ResetViolation(b).violations = 0 /\ ResetViolation(b).state = b.state
      /\ IncrViolation(b).violations = b.violations + 1 /\ IncrViolation(b).state = b.state
      /\ ResetTripCount(b).violations = b.violations /\ ResetTripCount(b).state = b.state
  BY DEF Breaker, ResetViolation, IncrViolation, ResetTripCount
<1> QED
  BY <1>1, <1>2, BreakerMethods DEF BackoffReset

(* violations is 0 outside CLOSED and stays below ConsecutiveViolations:     *)
(* no count of a previous CLOSED period helps to trip the next one.          *)
THEOREM Hysteresis == Spec => []HysteresisFresh
<1>1. Init => HysteresisFresh
  BY TimingAssumption DEF Init, HysteresisFresh, syncStateFromKernel, newCircuitBreaker
<1>2. TypeOK /\ HysteresisFresh /\ [Next]_vars => HysteresisFresh'
  <2> SUFFICES ASSUME TypeOK, HysteresisFresh, [Next]_vars PROVE HysteresisFresh'
    OBVIOUS
  <2>0. cb \in Breaker
    BY DEF TypeOK
  <2> USE DEF HysteresisFresh
  <2>1. ASSUME NEW triggered \in BOOLEAN, Tick(triggered) PROVE HysteresisFresh'
    <3>1. CASE TickClosed(triggered)
      <4> DEFINE counted == IncrViolation(BackoffReset(cb))
      <4>1. /\ counted \in Breaker /\ counted.state = cb.state
            /\ counted.violations = cb.violations + 1
            /\ cb.violations \in Nat
        BY <2>0, MethodEffects, BreakerMethods DEF Breaker
      <4>2. CASE cb' = ResetViolation(cb)
        BY <2>0, <3>1, <4>2, MethodEffects, TimingAssumption DEF TickClosed
      <4>3. CASE cb' = ResetViolation(BackoffReset(cb))
        BY <2>0, <3>1, <4>3, MethodEffects, TimingAssumption DEF TickClosed
      <4>4. CASE cb' = counted /\ counted.violations < ConsecutiveViolations
        BY <3>1, <4>1, <4>4 DEF TickClosed
      <4>5. CASE cb' = Trip(counted)
        <5>1. cb' = Opened(counted)
          BY <3>1, <4>1, <4>5 DEF TickClosed, Trip, CanTrip, OPEN, CLOSED
        <5> QED
          BY <4>1, <5>1, MethodEffects, TimingAssumption
      <4> QED
        BY <3>1, <4>2, <4>3, <4>4, <4>5, Zenon DEF TickClosed
    <3>2. CASE TickOpen
      BY <2>0, <3>2 DEF TickOpen, AttemptRecovery, Breaker, OPEN, HALF_OPEN, CLOSED
    <3>3. CASE TickHalfOpen(triggered)
      <4>1. cb' = Opened(cb) \/ cb' = Close(cb)
        BY <3>3, Zenon DEF TickHalfOpen, ReTrip, CanReTrip
      <4> QED
        BY <2>0, <4>1, MethodEffects, TimingAssumption
    <3> QED
      BY <2>1, <3>1, <3>2, <3>3 DEF Tick
  <2>2. ASSUME applyOverride PROVE HysteresisFresh'
    <3>1. cb' = Opened(cb) \/ cb' = Close(cb) \/ cb' = cb
      BY <2>2, Zenon DEF applyOverride, applyForceOpen, applyForceClose, applyThresholds, Trip
    <3> QED
      BY <2>0, <3>1, MethodEffects, TimingAssumption
  <2>3. ASSUME NEW ok \in Outcome, EngineWrite(ok) PROVE HysteresisFresh'
    BY <2>3 DEF EngineWrite
  <2>4. ASSUME Clock PROVE HysteresisFresh'
    BY <2>0, <2>4 DEF Clock, Breaker
  <2>5. ASSUME CrashRestart PROVE HysteresisFresh'
    BY <2>5, TimingAssumption DEF CrashRestart, syncStateFromKernel, newCircuitBreaker
  <2>6. ASSUME Bystander PROVE HysteresisFresh'
    BY <2>6, BystanderFrame
  <2>7. CASE UNCHANGED vars
    BY <2>7 DEF vars
  <2> QED
    BY <2>1, <2>2, <2>3, <2>4, <2>5, <2>6, <2>7, NextCases
<1> QED
  BY <1>1, <1>2, TypeCorrect, PTL DEF Spec

-----------------------------------------------------------------------------
(* The engine as the only writer of circuit_open *)

(* The strengthening: no other actor has a map access in progress or can    *)
(* start one, and while the engine's own write is pending, what it is about *)
(* to write agrees with its breaker.                                        *)
SoleWriterInv ==
  /\ \A a \in Actors \ {"engine"} : Idle(a)
  /\ ~hup
  /\ cb.state # CLOSED => IF Idle("engine") THEN fs.open = 1
                          ELSE io["engine"].new.open = 1

(* The engine's map access does not touch the other actors' pending writes. *)
LEMMA EngineAccess ==
  ASSUME io \in IOType, NEW step, NEW new
  PROVE  /\ BeginWrite("engine", step, new) =>
              /\ \A a \in Actors \ {"engine"} : io'[a] = io[a]
              /\ io'["engine"].step = step /\ io'["engine"].new = new
         /\ Finish("engine") =>
              /\ \A a \in Actors \ {"engine"} : io'[a] = io[a]
              /\ io'["engine"].step = "idle"
BY DEF IOType, Actors, BeginWrite, Finish

(* The header of engine.go calls the engine the only writer of circuit_open. *)
(* Where that is so (no falx-soc request, no hot reload) and map writes do   *)
(* not fail, the kernel drops whenever the engine, between two handlers, is  *)
(* OPEN or HALF_OPEN, also across restarts and the kernel's own opening.     *)
THEOREM SoleWriter ==
  ASSUME SocOps = {}, ~Sighups, ~Faults
  PROVE  Spec => []KernelDropsWhileTripped
<1>1. Init => SoleWriterInv
  <2> SUFFICES ASSUME Init PROVE SoleWriterInv
    OBVIOUS
  <2>1. \A a \in Actors : Idle(a)
    BY DEF Init, Idle
  <2>2. cb.state # CLOSED => fs.open = 1
    BY DEF Init, syncStateFromKernel, newCircuitBreaker
  <2>3. ~hup
    BY DEF Init
  <2> QED
    BY <2>1, <2>2, <2>3 DEF SoleWriterInv, Actors
<1>2. TypeOK /\ SoleWriterInv /\ [Next]_vars => SoleWriterInv'
  <2> SUFFICES ASSUME TypeOK, SoleWriterInv, [Next]_vars PROVE SoleWriterInv'
    OBVIOUS
  <2>0. /\ cb \in Breaker /\ fs \in FailsafeState /\ io \in IOType
        /\ "engine" \in Actors /\ "reload" \in Actors \ {"engine"}
        /\ Handlers \subseteq Actors \ {"engine"}
    BY ActorAssumption DEF TypeOK, IOType, Actors
  <2>a. \A a \in Actors \ {"engine"} : io[a].step = "idle"
    BY DEF SoleWriterInv, Idle
  <2> USE DEF operator, engineTimes
  <2>1. ASSUME NEW triggered \in BOOLEAN, Tick(triggered) PROVE SoleWriterInv'
    <3>0. hup' = hup /\ fs' = fs /\ Idle("engine")
      BY <2>1 DEF Tick
    <3>1. CASE TickClosed(triggered)
      <4>1. CASE io' = io /\ cb' \in {ResetViolation(cb), ResetViolation(BackoffReset(cb)),
                                      IncrViolation(BackoffReset(cb))}
        <5>1. cb'.state = CLOSED
          BY <2>0, <3>1, <4>1, MethodEffects DEF TickClosed
        <5> QED
          BY <3>0, <4>1, <5>1 DEF SoleWriterInv, Idle
      <4>2. CASE BeginWrite("engine", "write", SetCircuitOpen(TRUE))
        <5>1. /\ \A a \in Actors \ {"engine"} : io'[a].step = "idle"
              /\ io'["engine"].step = "write" /\ io'["engine"].new.open = 1
          BY <2>0, <2>a, <4>2, EngineAccess DEF SetCircuitOpen
        <5> QED
          BY <3>0, <5>1 DEF SoleWriterInv, Idle
      <4> QED
        BY <3>1, <4>1, <4>2, Zenon DEF TickClosed
    <3>2. CASE TickOpen
      <4>1. fs.open = 1
        BY <3>0, <3>2 DEF TickOpen, SoleWriterInv, OPEN, CLOSED
      <4> QED
        BY <3>0, <3>2, <4>1 DEF TickOpen, SoleWriterInv, Idle
    <3>3. CASE TickHalfOpen(triggered)
      <4>1. fs.open = 1
        BY <3>0, <3>3 DEF TickHalfOpen, SoleWriterInv, HALF_OPEN, CLOSED
      <4>2. CASE io' = io
        BY <3>0, <4>1, <4>2 DEF SoleWriterInv, Idle
      <4>3. CASE BeginWrite("engine", "write", SetCircuitOpen(FALSE)) /\ cb' = Close(cb)
        <5>1. /\ \A a \in Actors \ {"engine"} : io'[a].step = "idle"
              /\ cb'.state = CLOSED
          BY <2>0, <2>a, <4>3, EngineAccess, MethodEffects, Zenon
        <5> QED
          BY <3>0, <5>1 DEF SoleWriterInv, Idle
      <4> QED
        BY <3>3, <4>2, <4>3, Zenon DEF TickHalfOpen
    <3> QED
      BY <2>1, <3>1, <3>2, <3>3 DEF Tick
  <2>2. ASSUME applyOverride PROVE SoleWriterInv'
    <3>0. hup' = hup /\ fs' = fs /\ Idle("engine")
      BY <2>2 DEF applyOverride
    <3>1. CASE applyForceOpen
      <4>1. /\ \A a \in Actors \ {"engine"} : io'[a].step = "idle"
            /\ io'["engine"].step = "write" /\ io'["engine"].new.open = 1
        BY <2>0, <2>a, <3>1, EngineAccess DEF applyForceOpen, SetCircuitOpen
      <4> QED
        BY <3>0, <4>1 DEF SoleWriterInv, Idle
    <3>2. CASE applyForceClose
      <4>1. /\ \A a \in Actors \ {"engine"} : io'[a].step = "idle"
            /\ cb'.state = CLOSED
        BY <2>0, <2>a, <3>2, EngineAccess, MethodEffects, Zenon DEF applyForceClose
      <4> QED
        BY <3>0, <4>1 DEF SoleWriterInv, Idle
    <3>3. CASE applyThresholds(Head(overrideCh))
      BY <3>0, <3>3 DEF applyThresholds, SoleWriterInv, Idle
    <3> QED
      BY <2>2, <3>1, <3>2, <3>3 DEF applyOverride
  <2>3. ASSUME NEW ok \in Outcome, EngineWrite(ok) PROVE SoleWriterInv'
    <3>1. ok = TRUE
      BY DEF Outcome
    <3>2. /\ fs' = io["engine"].new /\ cb' = cb /\ hup' = hup
          /\ io["engine"].step # "idle"
      BY <2>3, <3>1 DEF EngineWrite
    <3>3. /\ \A a \in Actors \ {"engine"} : io'[a].step = "idle"
          /\ io'["engine"].step = "idle"
      BY <2>0, <2>3, <2>a, EngineAccess DEF EngineWrite
    <3> QED
      BY <3>2, <3>3 DEF SoleWriterInv, Idle
  <2>4. ASSUME Clock PROVE SoleWriterInv'
    <3>1. cb'.state = cb.state /\ hup' = hup /\ fs'.open = fs.open
      BY <2>0, <2>4 DEF Clock, Breaker, Aged
    <3>2. \A a \in Actors : io'[a].step = io[a].step
      BY <2>0, <2>4 DEF Clock, IOType
    <3>3. io["engine"].step # "idle" => io'["engine"].new.open = io["engine"].new.open
      BY <2>0, <2>4 DEF Clock, IOType, Aged, Idle
    <3> QED
      BY <2>0, <3>1, <3>2, <3>3 DEF SoleWriterInv, Idle
  <2>5. ASSUME CrashRestart PROVE SoleWriterInv'
    <3>1. cb'.state # CLOSED => fs'.open = 1
      BY <2>5 DEF CrashRestart, syncStateFromKernel, newCircuitBreaker
    <3>2. \A a \in Actors : io'[a].step = "idle"
      BY <2>0, <2>5, <2>a DEF CrashRestart
    <3>3. ~hup'
      BY <2>5 DEF CrashRestart
    <3> QED
      BY <2>0, <3>1, <3>2, <3>3 DEF SoleWriterInv, Idle
  <2>6. ASSUME Bystander PROVE SoleWriterInv'
    <3>1. CASE \E kind \in Overrides : ForceOverride(kind)
      BY <3>1 DEF ForceOverride, SoleWriterInv, Idle
    <3>2. CASE Packet
      <4>1. fs.open = 1 => fs'.open = 1
        BY <3>2 DEF Packet
      <4> QED
        BY <3>2, <4>1 DEF Packet, SoleWriterInv, Idle
    <3> QED
      BY <2>0, <2>6, <2>a, <3>1, <3>2
         DEF Bystander, SoleWriterInv, hotReload, QueueThresholds, ReloadRead, ReloadWrite,
             SocWrite, SocSentinel, SocPersist, SocReload
  <2>7. CASE UNCHANGED vars
    BY <2>7 DEF vars, SoleWriterInv, Idle
  <2> QED
    BY <2>1, <2>2, <2>3, <2>4, <2>5, <2>6, <2>7, NextCases
<1>3. TypeOK /\ SoleWriterInv => KernelDropsWhileTripped
  BY DEF SoleWriterInv, KernelDropsWhileTripped
<1> QED
  BY <1>1, <1>2, <1>3, TypeCorrect, PTL DEF Spec

-----------------------------------------------------------------------------
(* The clock of the backoff *)

(* The breaker methods of a CLOSED breaker, Close among them, leave openedAt *)
(* alone.                                                                    *)
LEMMA MethodAges ==
  ASSUME NEW b \in Breaker
  PROVE  /\ Close(b).openAge = b.openAge
         /\ ResetViolation(b).openAge = b.openAge
         /\ IncrViolation(b).openAge = b.openAge
         /\ BackoffReset(b).openAge = b.openAge
BY DEF Breaker, Close, CanClose, ResetViolation, IncrViolation, ResetTripCount, BackoffReset

(* No other actor touches the engine's own pending write. *)
LEMMA BystanderIO ==
  ASSUME io \in IOType, Bystander
  PROVE  io'["engine"] = io["engine"]
<1>0. /\ io = [a \in Actors |-> io[a]] /\ "engine" \in Actors /\ "reload" \in Actors
      /\ \A h \in Handlers : h \in Actors /\ h # "engine"
  BY ActorAssumption DEF IOType, Actors
<1>1. ASSUME NEW a \in Actors, a # "engine", NEW v, io' = [io EXCEPT ![a] = v]
      PROVE  io'["engine"] = io["engine"]
  BY <1>0, <1>1
<1>2. ASSUME NEW a \in Actors, a # "engine", NEW v, io' = [io EXCEPT ![a].step = v]
      PROVE  io'["engine"] = io["engine"]
  BY <1>0, <1>2
<1>3. CASE (\E kind \in Overrides : ForceOverride(kind)) \/ (Sighups /\ Sighup) \/ Packet
  BY <1>3, Zenon DEF ForceOverride, Sighup, Packet
<1>4. CASE \/ \E ok \in Outcome : hotReload(ok)
           \/ QueueThresholds
           \/ ReloadRead
           \/ \E ok \in Outcome : ReloadWrite(ok)
  BY <1>0, <1>1, <1>2, <1>4 DEF hotReload, QueueThresholds, ReloadRead, ReloadWrite, BeginWrite, Finish
<1>5. ASSUME NEW h \in Handlers, NEW op \in SocOps, SocRequest(h, op)
      PROVE  io'["engine"] = io["engine"]
  BY <1>0, <1>1, <1>5, Zenon DEF SocRequest, ForceOpenCircuit, ForceCloseCircuit, UpdateThresholds, BeginWrite
<1>6. ASSUME NEW h \in Handlers, NEW ok \in Outcome,
             SocWrite(h, ok) \/ SocSentinel(h, ok) \/ SocPersist(h, ok) \/ SocReload(h, ok)
      PROVE  io'["engine"] = io["engine"]
  BY <1>0, <1>1, <1>2, <1>6 DEF SocWrite, SocSentinel, SocPersist, SocReload, Finish
<1> QED BY <1>3, <1>4, <1>5, <1>6 DEF Bystander

(* BackoffClockFresh also while the engine's write is pending, but for       *)
(* ForceClose, which closes the breaker first and sets lastClosedAt last.    *)
FreshInv ==
  cb.state = CLOSED /\ closedAge # NeverClosed /\ io["engine"].step # "writeForceClose"
    => closedAge <= cb.openAge \/ cb.openAge = MaxCooldown

(* Whenever the engine, between two handlers, takes the circuit for closed,  *)
(* lastClosedAt is no older than the last opening: the backoff is never      *)
(* reset by the age of an earlier closing, for every timing and however      *)
(* ticks, overrides, other writers and restarts interleave (tickClosed,      *)
(* tickHalfOpen, applyOverride).                                             *)
THEOREM BackoffNotStale == Spec => []BackoffClockFresh
<1>1. Init => FreshInv
  BY DEF Init, FreshInv
<1>2. TypeOK /\ FreshInv /\ [Next]_vars => FreshInv'
  <2> SUFFICES ASSUME TypeOK, FreshInv, [Next]_vars PROVE FreshInv'
    OBVIOUS
  <2>0. /\ cb \in Breaker /\ cb.openAge \in 0..MaxCooldown /\ closedAge \in NeverClosed..BackoffResetAfter
        /\ io \in IOType /\ MaxCooldown \in Nat /\ BackoffResetAfter \in Nat /\ NeverClosed = -1
        /\ "engine" \in Actors /\ closedAge \in Int
    BY CooldownAssumption, TimingAssumption DEF TypeOK, Breaker, IOType, Actors, NeverClosed
  <2>1. ASSUME NEW triggered \in BOOLEAN, Tick(triggered) PROVE FreshInv'
    <3>0. io["engine"].step # "writeForceClose"
      BY <2>1 DEF Tick, Idle
    <3>1. CASE TickClosed(triggered)
      <4>1. cb.state = CLOSED /\ closedAge' = closedAge
        BY <3>1 DEF TickClosed, engineTimes
      <4>2. \/ cb' = ResetViolation(cb) \/ cb' = ResetViolation(BackoffReset(cb))
            \/ cb' = IncrViolation(BackoffReset(cb)) \/ cb' = Trip(IncrViolation(BackoffReset(cb)))
        BY <3>1, Zenon DEF TickClosed
      <4>3. BackoffReset(cb) \in Breaker /\ IncrViolation(BackoffReset(cb)) \in Breaker
        BY <2>0, BreakerMethods, MethodEffects
      <4>4. CASE cb' = Trip(IncrViolation(BackoffReset(cb)))
        <5>1. IncrViolation(BackoffReset(cb)).state = CLOSED
          BY <2>0, <4>1, <4>3, MethodEffects
        <5>2. cb' = Opened(IncrViolation(BackoffReset(cb)))
          BY <4>4, <5>1 DEF Trip, CanTrip, OPEN, CLOSED
        <5>3. cb'.state = OPEN
          BY <4>3, <5>2, MethodEffects
        <5> QED BY <5>3 DEF FreshInv, OPEN, CLOSED
      <4>5. CASE cb' # Trip(IncrViolation(BackoffReset(cb)))
        <5>1. cb'.openAge = cb.openAge
          BY <2>0, <4>2, <4>3, <4>5, MethodAges
        <5> QED BY <3>0, <4>1, <5>1 DEF FreshInv
      <4> QED BY <4>4, <4>5
    <3>2. CASE TickOpen
      BY <2>0, <3>2 DEF TickOpen, AttemptRecovery, Breaker, FreshInv, OPEN, HALF_OPEN, CLOSED
    <3>3. CASE TickHalfOpen(triggered)
      <4>1. cb' = Opened(cb) \/ closedAge' = 0
        BY <3>3, Zenon DEF TickHalfOpen, ReTrip, CanReTrip
      <4>2. CASE cb' = Opened(cb)
        BY <4>2 DEF Opened, FreshInv, OPEN, CLOSED
      <4>3. CASE cb' = Close(cb) /\ closedAge' = 0
        <5>1. cb'.openAge \in 0..MaxCooldown
          BY <2>0, <4>3, MethodAges
        <5> QED BY <2>0, <4>3, <5>1 DEF FreshInv
      <4> QED BY <3>3, <4>1, <4>2, <4>3, Zenon DEF TickHalfOpen, ReTrip, CanReTrip
    <3> QED BY <2>1, <3>1, <3>2, <3>3 DEF Tick
  <2>2. ASSUME applyOverride PROVE FreshInv'
    <3>0. io["engine"].step # "writeForceClose" /\ closedAge' = closedAge
      BY <2>2 DEF applyOverride, Idle
    <3>1. CASE applyForceOpen
      <4>1. cb'.state = OPEN
        BY <2>0, <3>1, MethodEffects DEF applyForceOpen, Trip, CanTrip
      <4> QED BY <4>1 DEF FreshInv, OPEN, CLOSED
    <3>2. CASE applyForceClose
      <4>1. io'["engine"].step = "writeForceClose"
        BY <2>0, <3>2, EngineAccess, Zenon DEF applyForceClose
      <4> QED BY <4>1 DEF FreshInv
    <3>3. CASE applyThresholds(Head(overrideCh))
      BY <3>0, <3>3 DEF applyThresholds, FreshInv
    <3> QED BY <2>2, <3>1, <3>2, <3>3 DEF applyOverride
  <2>3. ASSUME NEW ok \in Outcome, EngineWrite(ok) PROVE FreshInv'
    <3>1. cb' = cb /\ closedAge' = IF io["engine"].step = "writeForceClose" THEN 0 ELSE closedAge
      BY <2>3 DEF EngineWrite
    <3> QED BY <2>0, <3>1 DEF FreshInv
  <2>4. ASSUME Clock PROVE FreshInv'
    <3>1. /\ cb'.state = cb.state /\ cb'.openAge = Older(cb.openAge, MaxCooldown)
          /\ closedAge' = IF closedAge = NeverClosed THEN closedAge ELSE Older(closedAge, BackoffResetAfter)
      BY <2>0, <2>4 DEF Clock, Breaker
    <3>2. io'["engine"].step = io["engine"].step
      BY <2>0, <2>4 DEF Clock, IOType
    <3> QED BY <2>0, <3>1, <3>2 DEF FreshInv, Older, Lesser
  <2>5. ASSUME CrashRestart PROVE FreshInv'
    BY <2>5 DEF CrashRestart, FreshInv
  <2>6. ASSUME Bystander PROVE FreshInv'
    BY <2>0, <2>6, BystanderFrame, BystanderIO DEF FreshInv
  <2>7. CASE UNCHANGED vars
    BY <2>7 DEF vars, FreshInv
  <2> QED
    BY <2>1, <2>2, <2>3, <2>4, <2>5, <2>6, <2>7, NextCases
<1>3. TypeOK /\ FreshInv => BackoffClockFresh
  BY DEF FreshInv, BackoffClockFresh, Idle
<1> QED
  BY <1>1, <1>2, <1>3, TypeCorrect, PTL DEF Spec

-----------------------------------------------------------------------------
(* The detectors across restarts *)

(* A breaker record that counts its violations. *)
Counts(b) ==
  /\ b = [state |-> b.state, tripCount |-> b.tripCount, violations |-> b.violations, openAge |-> b.openAge]
  /\ b.violations \in Nat

(* A violation is counted only by an engine that has two samples.  The       *)
(* composition restarts the engine whether or not Crashes is set, so this    *)
(* invariant stands on its own and not on TypeOK.                            *)
FloodInv == Counts(cb) /\ samples \in 0..2 /\ RestartIsNoFlood

(* Every breaker method keeps the count in form, and only IncrViolation      *)
(* raises it.                                                                *)
LEMMA NothingCounted ==
  ASSUME NEW b, Counts(b)
  PROVE  /\ Counts(IncrViolation(b))
         /\ \A m \in {Trip(b), ReTrip(b), AttemptRecovery(b), Close(b), ResetViolation(b), BackoffReset(b)} :
              Counts(m) /\ m.violations \in {0, b.violations}
<1>1. Counts(IncrViolation(b))
  BY DEF Counts, IncrViolation
<1>2. Counts(Opened(b)) /\ Opened(b).violations \in {0, b.violations}
  BY DEF Counts, Opened
<1>3. Counts(AttemptRecovery(b)) /\ AttemptRecovery(b).violations = b.violations
  BY DEF Counts, AttemptRecovery
<1>4. Counts(Close(b)) /\ Close(b).violations \in {0, b.violations}
  BY DEF Counts, Close, CanClose
<1>5. Counts(ResetViolation(b)) /\ ResetViolation(b).violations = 0
  BY DEF Counts, ResetViolation
<1>6. Counts(BackoffReset(b)) /\ BackoffReset(b).violations = b.violations
  BY DEF Counts, BackoffReset, ResetTripCount
<1> QED
  BY <1>1, <1>2, <1>3, <1>4, <1>5, <1>6 DEF Trip, ReTrip, Counts

(* A tick keeps the count in form; a tick without a verdict does not raise   *)
(* it.                                                                       *)
LEMMA QuietTick ==
  ASSUME Counts(cb), NEW triggered \in BOOLEAN, Tick(triggered)
  PROVE  /\ Counts(cb')
         /\ ~triggered => cb'.violations \in {0, cb.violations}
<1>1. Counts(BackoffReset(cb)) /\ BackoffReset(cb).violations \in {0, cb.violations}
  BY NothingCounted
<1>2. Counts(IncrViolation(BackoffReset(cb)))
  BY <1>1, NothingCounted
<1>3. Counts(Trip(IncrViolation(BackoffReset(cb))))
  BY <1>2, NothingCounted
<1>4. Counts(ResetViolation(BackoffReset(cb))) /\ ResetViolation(BackoffReset(cb)).violations = 0
  BY <1>1, NothingCounted DEF ResetViolation, Counts
<1>5. CASE TickClosed(triggered)
  <2>1. \/ cb' = ResetViolation(cb) \/ cb' = ResetViolation(BackoffReset(cb))
        \/ triggered /\ cb' = IncrViolation(BackoffReset(cb))
        \/ triggered /\ cb' = Trip(IncrViolation(BackoffReset(cb)))
    BY <1>5, Zenon DEF TickClosed
  <2> QED BY <1>2, <1>3, <1>4, <2>1, NothingCounted
<1>6. CASE TickOpen
  BY <1>6, NothingCounted DEF TickOpen
<1>7. CASE TickHalfOpen(triggered)
  <2>1. cb' = ReTrip(cb) \/ cb' = Close(cb)
    BY <1>7, Zenon DEF TickHalfOpen
  <2> QED BY <2>1, NothingCounted
<1> QED BY <1>5, <1>6, <1>7 DEF Tick

(* Everything else the engine, the operators and the clock do keeps the      *)
(* count or clears it.                                                       *)
LEMMA OthersCountNothing ==
  ASSUME Counts(cb), Others
  PROVE  Counts(cb') /\ cb'.violations \in {0, cb.violations}
<1>1. CASE applyOverride
  <2>1. cb' = Trip(cb) \/ cb' = Close(cb) \/ cb' = cb
    BY <1>1, Zenon DEF applyOverride, applyForceOpen, applyForceClose, applyThresholds
  <2> QED BY <2>1, NothingCounted
<1>2. CASE \E ok \in Outcome : EngineWrite(ok)
  BY <1>2 DEF EngineWrite
<1>3. CASE Clock
  BY <1>3 DEF Clock, Counts
<1>4. CASE Bystander
  BY <1>4, BystanderFrame
<1> QED BY <1>1, <1>2, <1>3, <1>4 DEF Others, Bystander

(* A restarted engine finds counters that have been growing since the XDP    *)
(* program was loaded, and counts no violation before it has two samples of  *)
(* its own (Analyze, NewEngine): a restart is never taken for a flood, for   *)
(* any amount of traffic and any number of restarts.                         *)
THEOREM RestartNoFlood == DSpec => []RestartIsNoFlood
<1>1. DInit => FloodInv
  <2>1. DInit => (cb = syncStateFromKernel \/ cb = newCircuitBreaker) /\ samples = 0
    BY Zenon DEF DInit, Init
  <2>2. cb = syncStateFromKernel \/ cb = newCircuitBreaker => Counts(cb) /\ cb.violations = 0
    BY DEF syncStateFromKernel, newCircuitBreaker, Counts
  <2> QED BY <2>1, <2>2 DEF FloodInv, RestartIsNoFlood
<1>2. FloodInv /\ [DNext]_dvars => FloodInv'
  <2> SUFFICES ASSUME FloodInv, [DNext]_dvars PROVE FloodInv'
    OBVIOUS
  <2>0. Counts(cb) /\ cb.violations \in Nat /\ samples \in 0..2 /\ (cb.violations > 0 => samples = 2)
    BY DEF FloodInv, Counts, RestartIsNoFlood
  <2>1. CASE Poll
    <3>1. CASE Tick(FALSE) /\ UNCHANGED <<detector, crashes>>
      <4>1. Counts(cb') /\ cb'.violations \in {0, cb.violations}
        BY <2>0, <3>1, QuietTick
      <4>2. samples' = samples
        BY <3>1 DEF detector
      <4> QED BY <2>0, <4>1, <4>2 DEF FloodInv, RestartIsNoFlood
    <3>2. ASSUME NEW triggered \in Verdicts, Tick(triggered), Analyze PROVE FloodInv'
      <4>1. triggered \in BOOLEAN /\ (samples = 0 => ~triggered)
        BY <3>2, Zenon DEF Verdicts
      <4>2. samples' = Lesser(samples + 1, 2)
        BY <3>2 DEF Analyze
      <4>3. Counts(cb') /\ (~triggered => cb'.violations \in {0, cb.violations})
        BY <2>0, <3>2, <4>1, QuietTick
      <4> QED BY <2>0, <4>1, <4>2, <4>3 DEF FloodInv, RestartIsNoFlood, Lesser
    <3>3. CASE Analyze /\ UNCHANGED <<vars, crashes>>
      BY <2>0, <3>3 DEF FloodInv, RestartIsNoFlood, Analyze, Lesser, vars
    <3> QED BY <2>1, <3>1, <3>2, <3>3, Zenon DEF Poll
  <2>2. CASE ParseError \/ Receive \/ ReceiveNonIP
    <3>1. cb' = cb /\ samples' = samples
      BY <2>2, Zenon DEF ParseError, Receive, ReceiveNonIP, Packet, vars
    <3> QED BY <2>0, <3>1 DEF FloodInv, RestartIsNoFlood
  <2>3. CASE Restart
    <3>1. cb' = syncStateFromKernel \/ cb' = newCircuitBreaker
      BY <2>3 DEF Restart, CrashRestart
    <3>2. Counts(cb') /\ cb'.violations = 0
      BY <3>1 DEF syncStateFromKernel, newCircuitBreaker, Counts
    <3> QED BY <2>3, <3>2 DEF Restart, FloodInv, RestartIsNoFlood
  <2>4. CASE Quiet(Others)
    <3>1. Others /\ samples' = samples
      BY <2>4 DEF Quiet, detector
    <3> QED BY <2>0, <3>1, OthersCountNothing DEF FloodInv, RestartIsNoFlood
  <2>5. CASE UNCHANGED dvars
    BY <2>0, <2>5 DEF dvars, vars, detector, FloodInv, RestartIsNoFlood
  <2> QED BY <2>1, <2>2, <2>3, <2>4, <2>5 DEF DNext
<1>3. FloodInv => RestartIsNoFlood
  BY DEF FloodInv
<1> QED
  BY <1>1, <1>2, <1>3, PTL DEF DSpec
=============================================================================
