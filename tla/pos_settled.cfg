SPECIFICATION FairSpec
CONSTANTS
  Request = {r1, r2}
  Pdv = {p1}
  Ticket = {t1, t2}
  MaxFlips = 2
  Faults = {"abort"}
  None = None
INVARIANTS
  NeverUndercounts
PROPERTIES
  EveryRequestAnswered
