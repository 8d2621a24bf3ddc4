SPECIFICATION DSpec
CONSTANTS
  BaseCooldown = 1
  MaxCooldown = 4
  TripCap = 3
  BackoffResetAfter = 1
  HalfOpenProbeWindow = 2
  AdminOverrideCooldown = 1
  ConsecutiveViolations = 2
  Thresholds = {1}
  PpsCap = 2
  OverrideChCap = 1
  Handlers = {}
  SocOps = {}
  Overrides = {}
  Sighups = FALSE
  Crashes = FALSE
  Faults = FALSE
  MaxPackets = 4
  MaxCrashes = 1
  BlockedDrops = TRUE
PROPERTY EngineRecovers
