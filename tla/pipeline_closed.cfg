SPECIFICATION Spec
CONSTANTS
  Threshold = 7500
  Diagnoses <- MCOneDiagnosis
  Exposures = {5000}
  Flags = {}
  Outcomes = {"success"}
  Users = {"admin"}
  MaxHypotheses = 2
  MaxCrashes = 0
PROPERTY ClosedOnlyReopens
