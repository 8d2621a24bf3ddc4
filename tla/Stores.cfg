SPECIFICATION StoresSpec
CONSTANTS
  a = a
  b = b
  d = d
  x = x
  y = y
  None = None
  IPs = {a, b, d}
  Entries = {x, y}
  Callers = {1}
  Batches <- SomeBatches
  WindowMax = 3
  CapLimit = 2
  Refusals = 1
  Outsiders = TRUE
  MaxDrift = 1
  Purges = TRUE
  Workers = {"w1", "w2"}
  MaxFailed = 2
  MaxSession = 3
  MaxRequests = 5
  MaxVersion = 1
  DBResults = {TRUE, FALSE}
  Admins = {"w1", "w2"}
  Evaluators = {"e1"}
  Addrs = {1, 2}
  Drafts <- SomeDrafts
  FlowBatches <- SomeJobs
  MaxRules = 2
  MaxAdminCalls = 3
  MaxJobs = 1
INVARIANTS BatchUndone   LockHolds 
PROPERTIES RevocationFinal WritesFollowPolicy
