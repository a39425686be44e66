SPECIFICATION FairSpec
CONSTANTS
  j1 = j1
  x = x  y = y  z = z
  day = day  morning = morning  evening = evening  late = late  night = night
  Sale = {x, y, z}
  Writer <- MCWriter
  Caller = {}
  Job = {j1}
  Span = {day, morning, evening, late, night}
  Root = day
  Halves <- MCHalves
  SoldIn <- MCSoldIn
  MaxCalls = 1
  MaxParallel = 2
  MaxFaults = 1
PROPERTIES EveryJobEnds
CHECK_DEADLOCK FALSE
