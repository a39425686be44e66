SPECIFICATION FairSpec
CONSTANTS
  Item = {i}
  Client = {c}
  Asked <- MCAsked
  MaxSaves = 2
  MaxWaiting = 1
  MaxDeliveries = 1
  MaxFaults = 1
INVARIANTS TypeOK MarkedWasSent NeverAgainstItself
PROPERTIES DeliveriesErasedByNewCountsOnly CountReachesLogistics
