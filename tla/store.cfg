SPECIFICATION FairSpec
CONSTANTS
  q1 = q1  e1 = e1  e2 = e2  g = g
  r1 = r1  r2 = r2  r3 = r3  r4 = r4  r5 = r5  r6 = r6
  Queue = {q1}
  Entity = {e1, e2, g}
  Group = {g}
  None = None
  Request = {r1, r2, r3, r4, r5, r6}
  request <- Requests
  Job <- StoreJob
  job <- StoreJobOf
  Breaks = TRUE
  FaultKinds = {"refused", "replyLost", "timeout", "miss", "broker"}
  MaxFaults = 1
  MaxInFlight = 2
CHECK_DEADLOCK FALSE
INVARIANTS
  TypeOK
  QueueHasRow
  RowHasQueue
PROPERTIES
  SuccessMeansStored
  Answered
