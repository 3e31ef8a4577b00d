SPECIFICATION FairSpec
CONSTANTS
  None = None
  Users = {u1}
  Tokens = {t1, t2}
  Requests = {q1, q2}
  Swept = {u1}
PROPERTY RefreshEnds
CHECK_DEADLOCK FALSE
