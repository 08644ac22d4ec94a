SPECIFICATION Spec
CONSTANTS
  s1 = s1  s2 = s2  s3 = s3  qa = qa  qb = qb
  Search = {s1}
  Query = {qa, qb}
  query <- OneQuery
  None = None
  Pages = 1
  MaxRunning = 1
  FaultKinds = {}
  MaxFaults = 0
CHECK_DEADLOCK FALSE
INVARIANTS
  CompleteIsHundred
