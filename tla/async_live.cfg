SPECIFICATION FairSpec
CONSTANTS
  s1 = s1  s2 = s2  s3 = s3  qa = qa  qb = qb
  Search = {s1, s2, s3}
  Query = {qa, qb}
  query <- Queries
  None = None
  Pages = 1
  MaxRunning = 2
  FaultKinds = {}
  MaxFaults = 0
CHECK_DEADLOCK FALSE
PROPERTIES
  Finished
