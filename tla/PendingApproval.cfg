SPECIFICATION ApprovalSpec
CONSTANTS
  r1 = r1
  r2 = r2
  r3 = r3
  s1 = s1
  s2 = s2
  None = None
  Requests = {r1, r2, r3}
  Steps = {s1, s2}
  StepOf <- SharedStep
  Responses = 2
INVARIANTS
  ResultIsTheAnswer
  WaitingIsPending
PROPERTIES
  RequestReturns
CHECK_DEADLOCK FALSE
