SPECIFICATION MapsSpec
CONSTANTS
  V4 = {a}
  V6 = {s}
  Callers = {c1, c2}
  Rps = 1
  Second = 2
  Day = 1
  RelMax = 10
  MaxOps = 2
  MaxTime = 2
  MaxAborts = 1
  MaxLoads = 2
  MaxStarts = 2
INVARIANTS RateBound AuditTells BlockHolds PinsAreKernels
PROPERTIES ExpiredRemoved
CHECK_DEADLOCK FALSE
