CONSTANTS
  Sessions = {s1, s2, s3}
  Nobody = Nobody
  MaxHypotheses = 2
  GatedKeys <- GatedFirst
  MaxRequests = 5
  MaxCrashes = 1
SPECIFICATION Spec
INVARIANTS
  TypeOK
  ApprovedBeforeEffect
  RepeatsWereUnderWay
PROPERTIES
  ProposalsAreNotStale
  RequestsEnd
CHECK_DEADLOCK FALSE
