SPECIFICATION Spec
CONSTANTS
  h1 = h1
  h2 = h2
  k1 = k1
  Handlers = {h1, h2}
  Boot = Boot
  Calls = {k1}
  MaxFaults = 1
  MaxCrashes = 1
INVARIANTS
  IInv
  TablesAgree
SYMMETRY Symmetry
CHECK_DEADLOCK FALSE
