SPECIFICATION FairSpec
CONSTANTS
  u1 = u1
  u2 = u2
  s1 = s1
  t1 = t1
  t2 = t2
  None = None
  Users = {u1}
  Sessions = {s1}
  Turns = {t1}
  OwnerOf <- MCOwnerOf
  SessionOf <- MCSessionOf
  SessionsMayEnd = TRUE
PROPERTY QueueDrains
CHECK_DEADLOCK FALSE
