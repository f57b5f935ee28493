SPECIFICATION PageSpec
CONSTANTS
  Groups = {g1, g2}
  NoGroup = NoGroup
  Loads = {l1, l2}
  MaxFailures = 0
INVARIANTS ActiveIsWatched ListIsSelected
