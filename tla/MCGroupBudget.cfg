SPECIFICATION Spec
CONSTANTS
  i1 = i1
  i2 = i2
  i3 = i3
  Instances = {i1}
  Selectors = {s1}
  Nobody = Nobody
  Profiles <- OneMessageADay
  Reads = {TRUE}
  MaxUpdates = 0
  MaxChanges = 0
  MaxSends = 2
INVARIANT BudgetRespected
