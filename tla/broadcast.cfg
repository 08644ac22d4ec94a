SPECIFICATION FairSpec
CONSTANTS
  c1 = c1  i1 = i1
  v1 = v1  v2 = v2  a1 = a1  a2 = a2  a3 = a3
  Client = {c1}
  Resource = {i1}
  None = None
  Request = {v1, v2, a1, a2, a3}
  request <- Requests
  EventSlot = {"event"}
  FaultKinds = {"refused", "publishLost", "eventLost", "refreshLost", "restart"}
  MaxFaults = 1
  MaxInFlight = 2
  MaxTables = 1
CHECK_DEADLOCK FALSE
INVARIANTS
  TypeOK
  EventsReachCache
  RevokedTokensRefused
PROPERTIES
  CacheConverges
