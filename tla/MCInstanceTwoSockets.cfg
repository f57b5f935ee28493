SPECIFICATION Spec
CONSTANTS
  Conns = {k1, k2}
  Requests = {q1}
  Kinds = {"pair"}
  NoConn = NoConn
  NoOne = NoOne
  OldDevice = OldDevice
  KnownAtStart = {FALSE}
  Vitals = {"fine"}
  MaxDrops = 0
  MaxFaults = 0
  MaxCrashes = 0
INVARIANT SingleSocket
CHECK_DEADLOCK FALSE
