SPECIFICATION Spec
CONSTANTS
  Conns = {k1, k2}
  Requests = {q1}
  Kinds = {"connect", "pair", "disconnect", "restart", "delete", "deleteGroup"}
  NoConn = NoConn
  NoOne = NoOne
  OldDevice = OldDevice
  KnownAtStart = {TRUE, FALSE}
  Vitals = {"fine", "critical", "exhausted"}
  MaxDrops = 1
  MaxFaults = 0
  MaxCrashes = 1
SYMMETRY Symmetry
INVARIANT OnlineIsMapped
CHECK_DEADLOCK FALSE
