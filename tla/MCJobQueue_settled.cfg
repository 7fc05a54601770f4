SPECIFICATION FairSpec
CONSTANTS
  j1 = j1
  j2 = j2
  w1 = w1
  w2 = w2
  w3 = w3
  p1 = p1
  p2 = p2
  Jobs = {j1, j2}
  Workers = {w1, w2}
  Procs = {p1}
  ProcOf <- MCSameProc
  NoJob = NoJob
  MaxRetries = 2
  Delays = {0, 2}
  MaxAge = 4
  MaxFaults = 0
  MaxStops = 1
PROPERTY
  EventuallySettled
CHECK_DEADLOCK FALSE
