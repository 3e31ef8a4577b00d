CONSTANTS
  Requests = {r1, r2}
  Keys = {k1}
  LockKey = LockKey
  NoKey = NoKey
  None = None
  MaxMessages = 3
  Overrun = FALSE
SPECIFICATION FairSpec
PROPERTY NeverWedged
CHECK_DEADLOCK FALSE
