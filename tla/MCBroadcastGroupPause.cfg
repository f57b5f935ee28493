SPECIFICATION Spec
CONSTANTS
  Workers = {w1}
  Callers = {c1}
  Recipients = {r1, r2}
  NoOne = NoOne
  ChunkSize = 1
  ProgressEvery = 1
  Connectivity = {TRUE}
  MaxFaults = 0
  MaxCrashes = 0
PROPERTY GroupPauseHoldsRecipients
