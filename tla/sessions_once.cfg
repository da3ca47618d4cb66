CONSTANTS
  Sessions = {s1, s2}
  Nobody = Nobody
  MaxHypotheses = 1
  GatedKeys <- GatedFirst
  MaxRequests = 3
  MaxCrashes = 0
SPECIFICATION Spec
INVARIANT CarriedOutOnce
CHECK_DEADLOCK FALSE
