SPECIFICATION FairSpec
CONSTANTS
  Conns = {k1, k2}
  Requests = {q1}
  Kinds = {"connect", "disconnect", "restart", "delete"}
  NoConn = NoConn
  NoOne = NoOne
  OldDevice = OldDevice
  KnownAtStart = {FALSE}
  Vitals = {"fine"}
  MaxDrops = 1
  MaxFaults = 0
  MaxCrashes = 0
PROPERTIES LossIsNoticed ConnectingEnds
CHECK_DEADLOCK FALSE
