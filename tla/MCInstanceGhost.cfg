SPECIFICATION FairSpec
CONSTANTS
  Conns = {k1, k2}
  Requests = {q1}
  Kinds = {"connect", "disconnect"}
  NoConn = NoConn
  NoOne = NoOne
  OldDevice = OldDevice
  KnownAtStart = {FALSE}
  Vitals = {"fine"}
  MaxDrops = 0
  MaxFaults = 0
  MaxCrashes = 0
INVARIANT MappedToItsOwn
PROPERTY AvailableIsReal
CHECK_DEADLOCK FALSE
