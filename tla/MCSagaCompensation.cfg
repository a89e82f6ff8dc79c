CONSTANTS
  s1 = s1
  s2 = s2
  s3 = s3
  Steps <- MCSteps
  DependsOn <- MCDependsOn
  Position <- MCPosition
  HasCompensation = {s1, s2}
  TriggersCompensation = {s2}
  ContinuesOnFailure = {s3}
  WithHandler = {s1, s2, s3}
  WithUndoHandler = {s1}
  Starters = {c1}
  Aborters = {a1}
  MaxRounds = 2
  MaxRequests = 0
  Wirings = {FALSE}
SPECIFICATION SagaSpec
PROPERTY CompensationEnds
CHECK_DEADLOCK FALSE
