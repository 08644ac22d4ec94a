SPECIFICATION Spec
CONSTANTS
  u1 = u1  u2 = u2  q1 = q1  q2 = q2
  a = a  b = b  m = m  blank = blank
  r1 = r1  r2 = r2  r3 = r3  r4 = r4  r5 = r5  r6 = r6
  User = {u1, u2}
  Queue = {q1, q2}
  Entity = {a, b, m, blank}
  Exchange = {a, b}
  Blank = blank
  None = None
  Request = {r1, r2, r3, r4, r5, r6}
  request <- SerialRequests
  FaultKinds = {"requestLost", "replyLost"}
  MaxFaults = 1
  MaxInFlight = 1
CHECK_DEADLOCK FALSE
INVARIANTS
  TypeOK
  RollbackOwn
  SavedKeyCurrent
PROPERTIES
  SuccessMeansSubscribed
  KeyHandedOutWorks
  Implements
