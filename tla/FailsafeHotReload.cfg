SPECIFICATION Spec
CONSTANTS
  BaseCooldown = 1
  MaxCooldown = 2
  TripCap = 2
  BackoffResetAfter = 1
  HalfOpenProbeWindow = 1
  AdminOverrideCooldown = 1
  ConsecutiveViolations = 2
  Thresholds = {1, 2}
  PpsCap = 2
  OverrideChCap = 1
  Handlers = {}
  SocOps = {}
  Overrides = {}
  Sighups = TRUE
  Crashes = FALSE
  Faults = FALSE
INVARIANT KernelDropsWhileTripped
