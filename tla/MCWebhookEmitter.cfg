SPECIFICATION FairSpec
CONSTANTS
  Events = {e1, e2, e3, e4}
  Tests = {e4}
  NoEvent = NoEvent
  QueueSize = 2
  MaxRetries = 2
INVARIANTS NothingVanishes
PROPERTIES FifoSpec AnsweredIsFinal QueuedSettles
CHECK_DEADLOCK FALSE
