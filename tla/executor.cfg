\* The calls are bounded: the system stops when they are used up.
SPECIFICATION Spec
CHECK_DEADLOCK FALSE
CONSTANTS
  MaxAttempts = 3
  MaxCalls = 2
INVARIANTS
  TypeOK
  SuccessIsLast
  StatusAgreesWithAttempts
  RequestsBounded
PROPERTIES
  CallEnds
  KeepsThePromise
