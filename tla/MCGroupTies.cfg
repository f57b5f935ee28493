SPECIFICATION Spec
CONSTANTS
  i1 = i1
  i2 = i2
  i3 = i3
  Instances = {i1, i2}
  Selectors = {s1, s2}
  Nobody = Nobody
  Profiles <- DefaultPriorities
  Reads = {TRUE}
  MaxUpdates = 0
  MaxChanges = 0
  MaxSends = 0
INVARIANT OneActiveInstance
