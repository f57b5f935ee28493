SPECIFICATION FairSpec
CONSTANTS
  Conns = {k1, k2}
  Requests = {q1, q2}
  Kinds = {"connect", "restart", "delete"}
  NoConn = NoConn
  NoOne = NoOne
  OldDevice = OldDevice
  KnownAtStart = {TRUE}
  Vitals = {"fine"}
  MaxDrops = 0
  MaxFaults = 1
  MaxCrashes = 1
PROPERTY RequestsAnswer
INVARIANTS TypeOK UpIsRegistered
CHECK_DEADLOCK FALSE
