CONSTANTS
  a = a
  b = b
  e1 = e1
  t1 = t1
  t2 = t2
  NodeId <- MCNodeId
  EdgeId <- MCEdgeId
  Source <- MCSource
  Target <- MCTarget
  ConditionResults = {}
  TaskId <- MCTaskId
  PriorityOf <- MCPriorityOf
  DeadlineOf <- MCDeadlineOf
  CreatedAt <- MCCreatedAt
  MaxQueued = 2
  MlfqLevels = 1
  Callers = {c1}
  Workers = {w1, w2}
  Operator = operator
  InitialPolicy = "FIFO"
  Policies = {}
  MayPanic = {}
  MaxOperatorCalls = 0
SPECIFICATION Spec
PROPERTY WorkflowFinishes
CHECK_DEADLOCK FALSE
