SPECIFICATION Spec
CONSTANTS
  r1 = r1
  r2 = r2
  Requests = {}
  MaxRetries = 1
  MaxFaults = 0
PROPERTIES
  CancelSticks
CHECK_DEADLOCK FALSE
