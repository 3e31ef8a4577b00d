CONSTANTS
  Procs = {p1, p2}
  Sessions = {s1}
  NoDate = NoDate
  FreeDaily = 2
  Cap = 2
  Timeout = 1
  MaxSkew = 0
  DayOf <- LongDays
  MaxTime = 5
SPECIFICATION MeteringSpec
SYMMETRY Symmetry
INVARIANT EveryChargeKept
CHECK_DEADLOCK FALSE
