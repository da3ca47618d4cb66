SPECIFICATION Spec
CHECK_DEADLOCK FALSE
CONSTANTS
  MaxAttempts = 3
  MaxCalls = 1
INVARIANT EffectOnce
