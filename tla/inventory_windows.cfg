SPECIFICATION FairSpec
CONSTANTS
  e1 = e1
  e2 = e2
  Event <- MCEvent
  Today = e1
  Window <- MCWindow
  Element = {x}
  Director = {d}
  Guest = {g}
  MaxOps = 1
  MaxFaults = 1
INVARIANTS TypeOK ClosedIsClosed SettledStays
PROPERTIES SaleStops NothingLeftOpen
CHECK_DEADLOCK FALSE
