SPECIFICATION Spec
CONSTANTS
  u1 = u1
  u2 = u2
  s1 = s1
  t1 = t1
  t2 = t2
  None = None
  Users = {u1, u2}
  Sessions = {s1}
  Turns = {t1, t2}
  OwnerOf <- MCOwnerOf
  SessionOf <- MCSessionOf
  SessionsMayEnd = TRUE
SYMMETRY TurnSymmetry
INVARIANTS OnlyOwnTurnsQueued QueuedUntilSettled ReplayInOrder
CHECK_DEADLOCK FALSE
