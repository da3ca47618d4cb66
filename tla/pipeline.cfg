\* No crash, every outcome of a connector.
SPECIFICATION Spec
CONSTANTS
  Threshold = 7500
  Exposures = {7500}
  Flags = {f1}
  Outcomes = {"success", "review", "failed"}
  Users = {"supervisor", "finance_approver"}
  MaxHypotheses = 2
  MaxCrashes = 0
  Diagnoses <- MCDiagnoses
INVARIANTS
  TypeOK
  OneLiveAction
  ApprovalGate
  RejectedStaysOut
  OneRemedySucceeds
  ClosedIsJustified
  PendingIsVisible
  StageClaimsHappened
  CycleStallsByItself
PROPERTIES
  ClosureFrozen
  StageFallsOnReevaluation
