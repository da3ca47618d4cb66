SPECIFICATION Spec
CONSTANTS
  Threshold = 7500
  Diagnoses <- MCOneDiagnosis
  Exposures = {7500}
  Flags = {}
  Outcomes = {"success", "review"}
  Users = {"admin"}
  MaxHypotheses = 2
  MaxCrashes = 0
INVARIANT EffectNotRepeated
