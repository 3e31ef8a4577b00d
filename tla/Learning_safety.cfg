CONSTANTS
  Types = {e1}
  Workers = {w1, w2}
  NoWorker = NoWorker
  MaxTime = 12
  Sessions = {s1, s2}
  Spoken = {s1}
  Processes = {p1, p2}
  TopLevel = 2
SPECIFICATION LearningSpec
SYMMETRY Symmetry
INVARIANTS
  MasteredAfterLadder
  ComesBackWithinAWeek
  PromotedOnce
  LevelWithinSessions
  ActivatedOnce
PROPERTIES
  NoLostAdvance
  FirstDebriefStands
CHECK_DEADLOCK FALSE
