CONSTANTS
  Events = {e1, e2}
  Subscribers = {s1, s2}
  Callers = {c1, c2}
  Capabilities = {{e2, s2}}
  RequiresAck = {e1}
  Expires = {e1}
  BufferSize = 1
  MaxRetries = 1
  MaxBatch = 1
  MaxCalls = 2
  First = {s1}
  Semantics = {"AtMostOnce", "ExactlyOnce"}
  Timeouts = {TRUE, FALSE}
  Absent = Absent
SPECIFICATION BrokerSpec
INVARIANTS
  CopiesBounded
PROPERTIES
  HandledOrGivenUp
  FlightEndsByExpiry
CHECK_DEADLOCK FALSE
