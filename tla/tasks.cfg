SPECIFICATION TasksFairSpec
CONSTANTS
  shop = shop
  store = store
  k1 = k1
  k2 = k2
  w1 = w1
  w2 = w2
  clerk = clerk
  Elements = {shop, store}
  Workers = {w1, w2, clerk}
  Counters = {}
  Transfers = {t1, t2}
  Deposits = {}
  Opening <- MCOpening
  PackSizes = {2}
  Quantities <- MCQuantities
  MaxRequests = 2
  None = None
  Tasks = {k1, k2}
  Source <- MCSource
  Target <- MCTarget
  Load <- MCLoad
  Handles <- MCWithClerk
  Clerks = {clerk}
  MaxCrashes = 1
  CreatedBy = creator
INVARIANTS TaskMatchesGoods CompletedWasCredited
PROPERTIES BatchEventuallyNotified
CHECK_DEADLOCK FALSE
