\* Days, deliveries and cycles are bounded: the case stops when they are used up.
SPECIFICATION Spec
CONSTANTS
  Facts <- MCFacts
  SourceOf <- MCSourceOf
  Answers <- MCAnswers
  Delays = {0, 3}
  MaxVersions <- MCMaxVersions
  MaxClock = 3
  MaxCycles = 3
CHECK_DEADLOCK FALSE
INVARIANTS
  TypeOK
  OneGenerationLeads
  LoneRecordIsCapped
PROPERTIES
  GroundedWhenStored
  ReevaluationWaits
