SPECIFICATION FairSpec
CONSTANTS
  Workers = {w1}
  Callers = {c1}
  Recipients = {r1, r2, r3}
  NoOne = NoOne
  ChunkSize = 2
  ProgressEvery = 2
  Connectivity = {TRUE, FALSE}
  MaxFaults = 0
  MaxCrashes = 0
INVARIANTS StoppedMeansStopped ProgressAddsUp
PROPERTIES CancelledWorkersEnd StartedWorkerDrains
