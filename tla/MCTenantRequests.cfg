SPECIFICATION Spec
CONSTANTS
  c1 = c1
  c2 = c2
  g1 = g1
  g2 = g2
  i1 = i1
  i2 = i2
  i3 = i3
  m1 = m1
  m2 = m2
  Clients = {c1, c2}
  Groups = {g1, g2}
  Instances = {i1, i2, i3}
  Messages = {m1, m2}
  Nobody = Nobody
  NoEntry = NoEntry
  MaxGroups = 1
  MaxInstances = 1
  MaxFaults = 1
  Size = 2
  Entry <- MCEntry
SYMMETRY Symmetry
INVARIANTS OvershootBounded RowTellsOutcome OkMeansAcknowledged EntriesAreNewest
PROPERTY LogSpec
