\* A retry deferred for want of a client.
SPECIFICATION FairSpec
CONSTANTS
  None = None
  e1 = e1  e2 = e2  e3 = e3  s1 = s1  s2 = s2  r1 = r1  r2 = r2  w1 = w1  w2 = w2
  MaxRetries = 2
  Cooldown = 2
  FundsBackoff <- MCFunds
  GatewayBackoff <- MCGateway
  LLMWired = FALSE
  Events <- MCOneEvent
  Subs <- MCSubs
  Runners <- MCRunners
  Workers <- MCWorkers
  ActionIds <- MCFourIds
  Bodies <- MCRetryBodies
  ExclusiveHandOver = TRUE
  Limit = 2
  LiveStatuses <- MCLive
  WiredAtStart = FALSE
  Horizon = 4
  MaxFaults = 0
PROPERTIES DeferredIsTakenUp
\* The system stops when every event is handled and the horizon is reached.
CHECK_DEADLOCK FALSE
