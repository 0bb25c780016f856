SPECIFICATION AgentsEnd
CONSTANTS
  w1 = w1
  w2 = w2
  s1 = s1
  s2 = s2
  s3 = s3
  NoStep = NoStep
  NoRoom = NoRoom
  None = None
  Workflows = {w1, w2}
  Steps = {s1, s2, s3}
  Rooms = {}
  Template <- MCTemplate
  FirstOrder <- MCFirstOrder
  NextStepID <- Looping
  Instances = {i1, i2, i3, i4}
  AgentCount <- TwoAgents
  Failover = TRUE
  OperatorCalls = 2
  RetryCount = 1
  Environment = {"advance", "cancel", "shutdown", "spawnFails", "cancelExecution"}
INVARIANTS
  CompletionIsEarned
  StartsInTemplateOrder
  SpawnsAreBounded
  RunningIsWatched
PROPERTIES
  ExecutionSettles
CHECK_DEADLOCK FALSE
