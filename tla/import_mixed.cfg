SPECIFICATION ImportFairSpec
CONSTANTS
  x = x  y = y
  chunk = chunk  pass = pass
  Sale = {x, y}
  Writer = {chunk, pass}
  Inserter = {chunk}
  DatesOf <- MCDatesOf
  Runner = {pass}
  Delivery <- MCDelivery
  Caller <- MCCaller
  Opening = {x}
  PageSize = 1
  MaxItems = 2
  Paged = TRUE
  MaxFaults = 1
INVARIANTS ImportTypeOK LinesOnce NothingLeftBehind GhostNeedsOverlap
PROPERTIES PassHeals CatchesUp
CHECK_DEADLOCK FALSE
