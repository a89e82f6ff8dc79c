CONSTANTS
  a = a
  b = b
  c = c
  d = d
  e1 = e1
  e2 = e2
  e3 = e3
  NodeId <- MCNodeId
  EdgeId <- MCEdgeId
  Source <- MCSource
  Target <- MCTarget
  ConditionResults = {"Failed"}
  Workers = {w1, w2}
SPECIFICATION Spec
INVARIANTS
  DependencyOrder
  CountersExact
  FinishAccepted
  CompletionExact
PROPERTIES
  ImplementsNodeExecution
