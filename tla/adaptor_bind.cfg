SPECIFICATION Spec
CONSTANTS
  a1 = a1  a2 = a2  u1 = u1  u2 = u2
  r1 = r1  r2 = r2  r3 = r3  d1 = d1
  Id = {a1, a2}
  User = {u1, u2}
  Settled = {u2}
  Bindings = 2
  None = None
  Request = {r1, r2, r3, d1}
  request <- Requests
  FaultKinds = {"requestLost"}
  MaxFaults = 1
  MaxInFlight = 2
CHECK_DEADLOCK FALSE
INVARIANT FailedRegisterLeavesNoExchange
