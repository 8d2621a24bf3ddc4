SPECIFICATION Spec
CONSTANTS
  a = a
  b = b
  d = d
  x = x
  y = y
  None = None
  IPs = {a, b, d}
  Entries = {x, y}
  Callers = {1}
  Batches <- SomeBatches
  WindowMax = 3
  CapLimit = 2
  Refusals = 1
  Outsiders = TRUE
  MaxDrift = 1
  Purges = TRUE
PROPERTY SkipsOnlyPresent
