SPECIFICATION FairSpec
CONSTANTS
  s1 = s1
  s2 = s2
  m1 = m1
  q1 = q1
  e1 = e1
  e2 = e2
  Scheduled = {s1, s2}
  Manual = {m1}
  Slots = 1
  Cancels = {q1}
  NoRun = NoRun
  Edits = {e1}
  MaxFaults = 1
INVARIANTS
  IInv
  CancelInTimeSticks
  EditSticksWhenAlone
PROPERTY
  DueIsServed
CHECK_DEADLOCK FALSE
