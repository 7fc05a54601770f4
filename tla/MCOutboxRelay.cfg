SPECIFICATION FairSpec
CONSTANTS
  MaxMessages = 7
  Workers = 2
  MaxFaults = 1
  MaxRows = 2
  BatchSize = 2
  MaxRetries = 2
  MaxDirect = 3
INVARIANTS
  IInv
PROPERTIES
  DeliverySpec
  EveryEventSettles
  OutboxDrains
CHECK_DEADLOCK FALSE
