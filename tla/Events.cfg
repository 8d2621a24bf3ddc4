SPECIFICATION EventsSpec
CONSTANTS
  Messages = {m1, m2}
  None = None
  Capacity = 2
  Word = 8
  DropCap = 1
  FrameCounts = {2, 4}
  FillSize = 2
  RxSize = 2
  RingWord = 4
  BatchSize = 2
  MetaChCap = 1
  Shapes <- SomeShapes
  Publishers = {"p1", "p2"}
  Subs = {"s1", "s2"}
  BufSize = 1
  MaxEvents = 2
  Flows = {"f1", "f2"}
  MaxTargets = 3
  MaxSessions = 2
  UpdateEvery = 2
  EventCap = 3
  MetaCap = 1
  MaxAdmin = 4
INVARIANTS FrameOwnedOnce  EventsAlternate
PROPERTIES ImplementsFIFO NothingAfterClose UnsubscribeReturns RotationVisitsAll
