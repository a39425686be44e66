SPECIFICATION FairSpec
CONSTANTS
  s1 = s1  s2 = s2  c1 = c1  c2 = c2  e1 = e1  e2 = e2
  Sale = {s1, s2}
  Cell = {c1, c2}
  Event = {e1, e2}
  CellOf <- MCTwoMinutes
  EventOf <- MCTwoEvents
  Grouped = TRUE
  Overlap = 3
  CommitLag = 1
  JobTime = 1
  MaxTime = 1
  MaxChanges = 3
  MaxRebuilds = 1
  MaxFaults = 0
  Faults = {}
CHECK_DEADLOCK FALSE
PROPERTIES
  EventuallyShown
  CoalescedIsCovered
