CONSTANTS
  Requests = {r1, r2, r3}
  Keys = {k1}
  LockKey = LockKey
  NoKey = NoKey
  None = None
  MaxMessages = 3
  Overrun = FALSE
SPECIFICATION Spec
SYMMETRY RequestSymmetry
INVARIANTS
  TurnsSerialised
  ClaimHasOneOwner
  FreedClaimsHadNoEffect
PROPERTY ImplementsTurnLog
CHECK_DEADLOCK FALSE
