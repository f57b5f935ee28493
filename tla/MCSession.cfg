SPECIFICATION FairSpec
CONSTANTS
  Keys = {k1, k2}
  Accounts = {k1}
  NoKey = NoKey
  Idle = Idle
  MaxErrors = 1
INVARIANTS SignedInIffKeyStored ConfirmedOnce EveryCallIsServed
PROPERTY SignOutReachesTab
CHECK_DEADLOCK FALSE
