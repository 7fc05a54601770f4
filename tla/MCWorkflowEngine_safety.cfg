SPECIFICATION FairSpec
CONSTANTS
  a = a
  b = b
  c = c
  Steps = {a, b, c}
  NoStep = NoStep
  Workflows <- MCWorkflows
  MaxRetries = 1
  MaxFaults = 1
  MaxStops = 1
INVARIANTS
  EngineInv
  NoActionAfterFailedDependency
  SuccessIsFinal
  StatusMatchesJob
PROPERTIES
  FailureHandlersRun
  LifecycleSpec
  ExecutionSettles
CHECK_DEADLOCK FALSE
