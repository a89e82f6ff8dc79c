CONSTANTS
  t1 = t1
  t2 = t2
  t3 = t3
  TaskId <- MCTaskId
  PriorityOf <- MCPriorityOf
  DeadlineOf <- MCDeadlineOf
  CreatedAt <- MCCreatedAt
  MaxQueued = 1
  MlfqLevels = 2
  Callers = {c1, c2}
  Workers = {w1}
  Operator = operator
  InitialPolicy = "Priority"
  Policies = {"Priority", "MLFQ"}
  MaxOperatorCalls = 2
SPECIFICATION Spec
INVARIANTS
  TasksAccounted
  CapacityOvershoot
PROPERTIES
  PopsByPriority
  CallsReturnUnlessCircularWait
CHECK_DEADLOCK FALSE
