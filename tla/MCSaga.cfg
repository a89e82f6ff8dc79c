CONSTANTS
  s1 = s1
  s2 = s2
  s3 = s3
  Steps <- MCSteps
  DependsOn <- MCDependsOn
  Position <- MCPosition
  HasCompensation = {s1, s2}
  TriggersCompensation = {s2}
  ContinuesOnFailure = {s3}
  WithHandler = {s1, s2, s3}
  WithUndoHandler = {s1}
  Starters = {c1, c2}
  Aborters = {a1}
  MaxRounds = 2
  MaxRequests = 1
  Wirings = {TRUE, FALSE}
SPECIFICATION SagaSpec
INVARIANTS
  CompensationRequested
  ReadyStepsAreRun
PROPERTIES
  ImplementsSagaOutcome
  SagaCallsReturn
CHECK_DEADLOCK FALSE
