\* Crashes at any point of a request, and effects nobody heard of.
SPECIFICATION Spec
CONSTANTS
  Threshold = 7500
  Exposures = {7500}
  Flags = {f1}
  Outcomes = {"success", "lost"}
  Users = {"admin"}
  MaxHypotheses = 2
  MaxCrashes = 1
  Diagnoses <- MCOneDiagnosis
INVARIANTS
  RemediesAccounted
  ToldWhatHappened
  SettledWhenCommitted
PROPERTIES
  RequestTerminates
  ApprovedIsCarriedOut
  FollowsLifecycle
