SPECIFICATION Spec
CONSTANTS
  a = a
  b = b
  c = c
  d = d
  NoStep = NoStep
  StepIDs <- MCStepIDs
  Templates <- MCTemplates
INVARIANTS
  AcceptsExactlyAcyclic
  ReportedCycleIsReal
  OrderIsKahn
PROPERTIES
  Terminates
CHECK_DEADLOCK FALSE
