SPECIFICATION Spec
CONSTANTS
  s1 = s1
  s2 = s2
  Sources = {s1, s2}
  ByteSwapped <- Swapped
  Cpus = {1}
  MaxTime = 1
  Epoch = 100
  CoolingBase = 1
  MaxShift = 2
  SynThreshold = 2
  PenaltyShift = 1
  SynCost = 2
  RateCapacity = 3
  RefillTime = 2
  Blocks <- TimedAndPermanent
  Operators = TRUE
  Sweeps = FALSE
  Evictions = FALSE
INVARIANTS BlocksAreGated
