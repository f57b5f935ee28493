SPECIFICATION Spec
CONSTANTS
  Conns = {k1, k2}
  Requests = {q1}
  Kinds = {"connect", "disconnect"}
  NoConn = NoConn
  NoOne = NoOne
  OldDevice = OldDevice
  KnownAtStart = {TRUE}
  Vitals = {"fine"}
  MaxDrops = 0
  MaxFaults = 0
  MaxCrashes = 0
PROPERTY HealthSkipsSettled
CHECK_DEADLOCK FALSE
