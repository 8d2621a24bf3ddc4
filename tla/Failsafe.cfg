SPECIFICATION FailsafeSpec
CONSTANTS
  BaseCooldown = 1
  MaxCooldown = 5
  TripCap = 4
  BackoffResetAfter = 4
  HalfOpenProbeWindow = 1
  AdminOverrideCooldown = 1
  ConsecutiveViolations = 2
  Thresholds = {1, 2}
  PpsCap = 2
  OverrideChCap = 2
  Handlers = {h1}
  SocOps = {}
  Overrides = {"forceOpen", "forceClose"}
  Sighups = FALSE
  Crashes = TRUE
  Faults = FALSE
INVARIANTS TypeOK OverrideLatchHolds HysteresisFresh BackoffClockFresh CooldownCapped
