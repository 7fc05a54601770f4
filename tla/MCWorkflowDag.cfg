SPECIFICATION DagSpec
CONSTANTS
  a = a
  b = b
  c = c
  d = d
  NoName = NoName
  StepLists <- MCStepLists
INVARIANTS
  SortInv
  MatchesReference
PROPERTY
  AlwaysDecides
CHECK_DEADLOCK FALSE
