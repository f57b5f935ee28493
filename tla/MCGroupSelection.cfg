SPECIFICATION Spec
CONSTANTS
  i1 = i1
  i2 = i2
  i3 = i3
  Instances = {i1, i2, i3}
  Selectors = {s1}
  Nobody = Nobody
  Profiles <- MixedProfiles
  Reads = {TRUE, FALSE}
  MaxUpdates = 1
  MaxChanges = 1
  MaxSends = 0
INVARIANTS TypeOK PickIsBest ReplacementIsBest
