SPECIFICATION Spec
CONSTANTS
  shop = shop
  store = store
  Elements = {shop, store}
  Workers = {w1, w2}
  Counters = {c1}
  Transfers = {t1}
  Deposits = {d1}
  Opening <- MCOpening
  PackSizes <- MCPackSizes
  Quantities <- MCQuantities
  MaxRequests = 2
  None = None
INVARIANTS TypeOK LedgerAgrees TransferSettled SettledOncePerRequest DepositReversedOnce
PROPERTIES PartialResetKeepsExpected
CHECK_DEADLOCK FALSE
