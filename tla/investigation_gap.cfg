\* The rules alone propose.  Days, deliveries and cycles are bounded.
SPECIFICATION Spec
CONSTANTS
  Facts <- MCFacts
  SourceOf <- MCSourceOf
  Answers = {}
  Delays = {0, 3}
  MaxVersions <- MCMaxVersions
  MaxClock = 3
  MaxCycles = 2
CHECK_DEADLOCK FALSE
PROPERTIES
  AsksForWhatIsMissing
