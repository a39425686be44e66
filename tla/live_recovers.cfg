SPECIFICATION Spec
CONSTANTS
  s1 = s1  s2 = s2  c1 = c1  c2 = c2  e1 = e1  e2 = e2
  Sale = {s1, s2}
  Cell = {c1}
  Event = {e1}
  CellOf <- MCSameMinute
  EventOf <- MCOneEvent
  Grouped = FALSE
  Overlap = 3
  CommitLag = 1
  JobTime = 1
  MaxTime = 5
  MaxChanges = 2
  MaxRebuilds = 1
  MaxFaults = 1
  Faults = {"trigger", "redis", "key", "watermark", "worker", "minutes"}
CHECK_DEADLOCK FALSE
SYMMETRY MCSymmetry
INVARIANTS
  TypeOK
  Recoverable
