SPECIFICATION FilterSpec
CONSTANTS
  s1 = s1
  s2 = s2
  Sources = {s1}
  ByteSwapped <- SelfSwapped
  Cpus = {1, 2}
  MaxTime = 4
  Epoch = 100
  CoolingBase = 1
  MaxShift = 2
  SynThreshold = 2
  PenaltyShift = 2
  SynCost = 2
  RateCapacity = 3
  RefillTime = 2
  Blocks <- TimedAndPermanent
  Operators = TRUE
  Sweeps = TRUE
  Evictions = TRUE
INVARIANTS BanIsGated OneCpuRateBounded OneCpuPenaltyHolds
