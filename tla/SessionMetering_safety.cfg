CONSTANTS
  Procs = {p1, p2}
  Sessions = {s1, s2}
  NoDate = NoDate
  FreeDaily = 2
  Cap = 2
  Timeout = 1
  MaxSkew = 0
  DayOf <- LongDays
  MaxTime = 4
SPECIFICATION MeteringSpec
SYMMETRY Symmetry
INVARIANTS
  OneActiveSession
  NoIntervalBilledTwice
  StreakIsRun
  QuotaIsExactAlone
PROPERTY EndedIsFinal
CHECK_DEADLOCK FALSE
