CONSTANTS
  n1 = n1
  n2 = n2
  n3 = n3
  a = a
  b = b
  c = c
  d = d
  e = e
  p = p
  q = q
  NodeId = {n1, n2, n3}
  EdgeId = {a, b, c, d, e}
  Source <- MCSource
  Target <- MCTarget
  Boundary = {e}
  Values <- Definitions
  Callers = {p, q}
  MaxSaves = 2
  KeepCount = 1
  Backends = {"file", "memory"}
  Absent = Absent
  Metadata = Metadata
SYMMETRY MCSymmetry
SPECIFICATION PersistenceSpec
INVARIANTS
  EditsSound
  CheckpointsKept
PROPERTIES
  LoadSound
  RefusalChangesOnlyStatus
CHECK_DEADLOCK FALSE
