SPECIFICATION Spec
CONSTANTS
  Workers = {w1, w2}
  Callers = {c1}
  Recipients = {r1}
  NoOne = NoOne
  ChunkSize = 1
  ProgressEvery = 1
  Connectivity = {TRUE, FALSE}
  MaxFaults = 0
  MaxCrashes = 0
PROPERTY CancelledIsFinal
