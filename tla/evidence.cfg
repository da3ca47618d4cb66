\* The table is bounded: deliveries stop when it is full.
SPECIFICATION Spec
CONSTANTS
  Customers = {"alice", "bob"}
  Cases = {"case1", "case2"}
  CustomerOf <- MCCustomerOf
  Keys <- MCKeys
  Says <- MCSays
  MaxRecords = 4
INVARIANTS
  TypeOK
  ChainsAreLinear
  LatestIsStored
  CorrectionsLeaveOne
  TimelineIsOwn
  EntriesFollowCorrections
  EvidenceIsCountedOnce
