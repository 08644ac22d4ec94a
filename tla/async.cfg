SPECIFICATION Spec
CONSTANTS
  s1 = s1  s2 = s2  s3 = s3  qa = qa  qb = qb
  Search = {s1, s2}
  Query = {qa, qb}
  query <- SameQuery
  None = None
  Pages = 2
  MaxRunning = 2
  FaultKinds = {"lost", "late", "message", "scroll", "upload", "presign", "crash"}
  MaxFaults = 2
CHECK_DEADLOCK FALSE
INVARIANTS
  TypeOK
  CompleteHasResults
  RowBeforeMessage
PROPERTIES
  StatusRefines
