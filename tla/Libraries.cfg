CONSTANTS
  Caller = {"t1", "t2"}
  MaxCalls = 6
  CallsOf <- MCCallsOf
  InitialSize = 2
  MaxSize = 1
  InitialInstances = 1
  MaxInstances = 1
  MaxUses = 3
  Worker = {"w1", "w2", "w3"}
  PoolOf <- MCPoolOf
  QueueSize = 2
  Actor = {"a1"}
  NoActor = NoActor
  Reported = {"Running", "Stopped"}
  HoldTimes = {0, 1, 2}
  WordSize = 4
  Plugin = {"p1"}
  NoPlugin = NoPlugin
  PoolSize = 1
  NoRule = NoRule
  Policies <- MCPolicies
  NewRules <- MCNewRules
  Asker = {"p"}
  Request <- MCRequest
  Asked <- MCAsked
  Called <- MCCalled
  Below <- MCBelow
  Prefixed <- MCPrefixed
  Top <- MCTop
  AnyPort = "any"
  Author = {"p1", "p2"}
  Unknown = Unknown
  Allowed <- MCAllowed
  Level = {1, 2}
  Shard <- MCShard
  MaxBuffer = 2
  NoConfig = NoConfig
  NoVersion = NoVersion
  Inner <- MCInner
  Numeral <- MCNumeral
  Paths <- MCPaths
  Values <- MCValues
  MaxInteger = 2
  Versions <- MCVersions
  MaxPart = 3
  MaxIdentifier = 3
SPECIFICATION Spec
INVARIANTS PoolsAccounted TasksTold LocksTell AnswersWereRight RulesAgree TelemetryKept ConfigAnswers
PROPERTIES PoolServes
CHECK_DEADLOCK FALSE
