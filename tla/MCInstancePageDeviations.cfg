SPECIFICATION DetailSpec
CONSTANTS
  Instances = {i1, i2}
  NoInstance = NoInstance
  Fetches = {1, 2}
  MaxErrors = 0
INVARIANTS CodeIsOfRouted PollsForDialog
PROPERTIES WaitingGetsCode DeletesWhatWasAsked
