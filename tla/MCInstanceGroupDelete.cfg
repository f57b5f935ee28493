SPECIFICATION Spec
CONSTANTS
  Conns = {k1, k2}
  Requests = {q1}
  Kinds = {"connect", "deleteGroup"}
  NoConn = NoConn
  NoOne = NoOne
  OldDevice = OldDevice
  KnownAtStart = {TRUE}
  Vitals = {"fine"}
  MaxDrops = 0
  MaxFaults = 0
  MaxCrashes = 0
INVARIANT DeletedIsClosed
CHECK_DEADLOCK FALSE
