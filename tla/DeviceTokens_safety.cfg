SPECIFICATION Spec
CONSTANTS
  None = None
  Users = {u1, u2}
  Tokens = {t1, t2, t3}
  Requests = {q1, q2}
  Swept = {}
SYMMETRY Symmetry
INVARIANTS SingleUse LogoutIsFinal TokensAreOwn
PROPERTIES ClearedForAReason EndedTokensBuyNothing
CHECK_DEADLOCK FALSE
