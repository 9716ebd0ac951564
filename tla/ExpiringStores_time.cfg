CONSTANTS
  f1 = f1
  r1 = r1
  r2 = r2
  r3 = r3
  s1 = s1
  s2 = s2
  q1 = q1
  q2 = q2
  q3 = q3
  NoPolicy = NoPolicy
  Flows <- OneFlow
  Policies <- ShortOrLong
  Cap = 3
  MaxChanges = 3
  MaxFaults = 2
  Disruptions <- AllDisruptions
  Horizon = 4
  Records <- ThreeRecords
  Sites <- TwoSites
  SiteOf <- TwoAtFirst
  Services <- BothServices
  Trim <- Trimming
  Expiry <- Expiring
  Reads <- AskedFor
  None = None
  Requests <- ThreeRequests
  LIMIT = 2
  MINUTE = 2
SPECIFICATION Spec
INVARIANTS RecordedIsKept SumAsOfCall LimitHolds
PROPERTIES PurgedUnderAPolicy PolicyTakesEffect
CHECK_DEADLOCK FALSE
