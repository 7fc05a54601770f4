SPECIFICATION FairSpec
CONSTANTS
  x1 = x1
  x2 = x2
  N = 3
  Executors = {x1, x2}
  MaxFaults = 2
INVARIANTS
  IInv
  CancelStops
PROPERTY
  BatchSettles
CHECK_DEADLOCK FALSE
