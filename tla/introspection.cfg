SPECIFICATION Spec
CONSTANTS
  u = u  i1 = i1  i2 = i2  grp = grp
  r1 = r1  r2 = r2  r3 = r3  r4 = r4  s1 = s1  s2 = s2
  Timer = Timer
  None = None
  Item = {i1, i2, grp}
  User = {u}
  Listing <- Versions
  Request = {r1, r2, r3, r4, s1, s2}
  request <- Requests
  FaultKinds = {"unreachable", "errorAnswer", "countLost", "auditLost"}
  MaxFaults = 1
  Limit = 1
  MaxInFlight = 2
  MaxRequests = 3
SYMMETRY Symmetry
CHECK_DEADLOCK FALSE
INVARIANTS
  TypeOK
  FoundIfListed
  AdmittedIfOpen
  WithinLimit
  OwnSummary
