SPECIFICATION Spec
CONSTANTS
  w1 = w1
  w2 = w2
  s1 = s1
  s2 = s2
  s3 = s3
  NoStep = NoStep
  NoRoom = NoRoom
  None = None
  Workflows = {w1}
  Steps = {s1, s2, s3}
  Rooms = {r1}
  Template <- MCTemplate
  FirstOrder <- MCFirstOrder
  NextStepID <- Chained
  Instances = {i1, i2}
  AgentCount <- OneAgent
  Failover = FALSE
  OperatorCalls = 2
  RetryCount = 0
  Environment = {"stop", "delete", "definition", "refusal", "untracked", "dockerFails", "storeFails", "restart", "command", "rpcStart"}
INVARIANTS
  CompletionIsEarned
  StartsInTemplateOrder
CHECK_DEADLOCK FALSE
