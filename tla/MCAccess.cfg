CONSTANTS
  c1 = c1
  c2 = c2
  absent = absent
  Client = {c1, c2}
  Absent = absent
  Under <- MCUnder
  Covers <- MCCovers
  Requests <- MCRequests
  Request <- MCRequests
  type_of <- capability_type
  permits <- Permits
  constrain <- Constrain
  split <- Split
  join <- Join
  meet <- Meet
  policed <- PolicyOf
  reduced <- PartiallyRevoked
  regains <- Regains
  refused <- Refused
  Constraint <- MCConstraint
  Grants <- MCGrants
  AnyHost = "any"
  NoHost = "none"
  TestPort = "8080"
  TestPath = "/tmp/file.txt"
  MaxCalls <- MCMaxCalls
  MaxId = 3
SPECIFICATION Spec
INVARIANTS RevocationHolds MapsAgree AlgebraSound
CHECK_DEADLOCK FALSE
