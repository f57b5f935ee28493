SPECIFICATION Spec
CONSTANTS
  Keys = {k1, k2}
  Accounts = {k1}
  NoKey = NoKey
  Idle = Idle
  MaxErrors = 1
INVARIANTS SignedOutSeesLogin LateAcceptanceAgrees
PROPERTY OnlyItsOwnAnswerEndsASession
CHECK_DEADLOCK FALSE
