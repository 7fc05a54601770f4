SPECIFICATION Spec
CONSTANTS
  x1 = x1
  x2 = x2
  t1 = t1
  q1 = q1
  q2 = q2
  NoRun = NoRun
  Runs = {x1, x2}
  Triggers = {t1}
  Requests = {q1, q2}
  SourceTypes = {"gitlab", "github", "jenkins", "local"}
  MaxForeign = 1
INVARIANTS
  IInv
  OutcomeAnnounced
  TriggerRecorded
SYMMETRY Symmetry
