SPECIFICATION Spec
CONSTANTS
  j1 = j1
  j2 = j2
  w1 = w1
  w2 = w2
  w3 = w3
  p1 = p1
  p2 = p2
  Jobs = {j1, j2}
  Workers = {w1, w2, w3}
  Procs = {p1, p2}
  ProcOf <- MCProcOf
  NoJob = NoJob
  MaxRetries = 3
  Delays = {0, 2}
  MaxAge = 9
  MaxFaults = 2
  MaxStops = 1
SYMMETRY Symmetry
INVARIANTS
  TypeOK
  OnePlace
  RetryBudget
  BackoffElapsed
  LostOnlyByFault
PROPERTY
  LifecycleSpec
CHECK_DEADLOCK FALSE
