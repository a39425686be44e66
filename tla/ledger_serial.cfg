SPECIFICATION Spec
CONSTANTS
  shop = shop
  store = store
  Elements = {shop, store}
  Workers = {w1}
  Counters = {}
  Transfers = {t1, t2}
  Deposits = {d1}
  Opening <- MCOpening
  PackSizes = {2}
  Quantities <- MCQuantities
  MaxRequests = 4
  None = None
PROPERTIES ImplementsCustody
CHECK_DEADLOCK FALSE
