--------------------------- MODULE CircuitBreaker ---------------------------
(***************************************************************************)
(* The three-state breaker of control-plane/internal/failsafe/state.go and *)
(* the recovery timing of recovery.go, as operators on a breaker record.   *)
(*                                                                         *)
(* Every method of CircuitBreaker runs under cb.mu, so each is one         *)
(* operator: the record after the call.  A method that refuses the         *)
(* transition (returns false) is the guard CanXxx.                         *)
(*                                                                         *)
(* Instants are kept as ages: openAge is the time since openedAt, counted  *)
(* up to MaxCooldown, beyond which no comparison in recovery.go can tell   *)
(* two instants apart.                                                     *)
(***************************************************************************)
EXTENDS Integers

CONSTANTS
  BaseCooldown,        \* RecoveryConfig.BaseCooldown
  MaxCooldown,         \* RecoveryConfig.MaxCooldown
  TripCap              \* tripCount is counted up to this (CooldownFor is flat there)

ASSUME CooldownAssumption ==
  /\ BaseCooldown \in Nat \ {0}
  /\ MaxCooldown \in Nat
  /\ BaseCooldown <= MaxCooldown
ASSUME TripCapAssumption == TripCap \in Nat \ {0}

CLOSED == "CLOSED"
OPEN == "OPEN"
HALF_OPEN == "HALF_OPEN"

CircuitState == {CLOSED, OPEN, HALF_OPEN}

Lesser(a, b) == IF a <= b THEN a ELSE b

(* An age one time unit later, counted up to limit. *)
Older(age, limit) == Lesser(age + 1, limit)

Breaker == [state : CircuitState, tripCount : 0..TripCap,
            violations : Nat, openAge : 0..MaxCooldown]

newCircuitBreaker ==
  [state |-> CLOSED, tripCount |-> 0, violations |-> 0, openAge |-> MaxCooldown]

-----------------------------------------------------------------------------
(* Transitions *)

CanTrip(cb) == cb.state # OPEN

(* Mutant: the hysteresis counter survives a trip. *)
Opened_KeepsViolations(cb) ==
  [cb EXCEPT !.state = OPEN, !.tripCount = Lesser(@ + 1, TripCap), !.openAge = 0]

(* Both Trip and ReTrip enter OPEN this way; they differ in their guard. *)
Opened(cb) ==
  [state |-> OPEN, tripCount |-> Lesser(cb.tripCount + 1, TripCap),
   violations |-> 0, openAge |-> 0]

Trip(cb) == IF CanTrip(cb) THEN Opened(cb) ELSE cb

CanReTrip(cb) == cb.state = HALF_OPEN

ReTrip(cb) == IF CanReTrip(cb) THEN Opened(cb) ELSE cb

AttemptRecovery(cb) ==
  IF cb.state = OPEN THEN [cb EXCEPT !.state = HALF_OPEN] ELSE cb

CanClose(cb) == cb.state # CLOSED

Close(cb) == IF CanClose(cb) THEN [cb EXCEPT !.state = CLOSED] ELSE cb

IncrViolation(cb) == [cb EXCEPT !.violations = @ + 1]

ResetViolation(cb) == [cb EXCEPT !.violations = 0]

ResetTripCount(cb) == [cb EXCEPT !.tripCount = 0]

-----------------------------------------------------------------------------
(* Recovery timing.  maxShift = floor(log2(Max / Base)) + 1, computed in   *)
(* the code with floating-point logarithms.                                *)

(* Mutant: the bound on the exponent is the floor itself. *)
maxShift_Floor(base, max) ==
  CHOOSE k \in 0..max : base * 2^k <= max /\ base * 2^(k + 1) > max

maxShift(base, max) ==
  (CHOOSE k \in 0..max : base * 2^k <= max /\ base * 2^(k + 1) > max) + 1

Cooldown(base, max, tripCount) ==
  IF tripCount <= 1 \/ max < base
  THEN base
  ELSE Lesser(base * 2^Lesser(tripCount - 1, maxShift(base, max)), max)

CooldownFor(tripCount) == Cooldown(BaseCooldown, MaxCooldown, tripCount)

ShouldAttemptRecovery(cb) == cb.openAge >= CooldownFor(cb.tripCount)
=============================================================================
