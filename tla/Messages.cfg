SPECIFICATION MessagesSpec
CONSTANTS
  Packets <- MCPackets
  Protected = {"p"}
  Scores = {"alert", "drop"}
  BatchSize = 2
  RequestCap = 1
  VerdictCap = 1
  SocketCap = 1
  QueueMax = 0
  MaxConns = 2
  MaxBeats = 1
  Clients = {"c1", "c2"}
  Ids = {1, 2}
  StoreLimit = 1
  RingCap = 2
  InboxCap = 1
  SendCap = 2
  MaxEvents = 3
INVARIANTS RequestsAccounted  RecentKept NoDeadClient
PROPERTIES RequestsForwarded
CHECK_DEADLOCK FALSE
