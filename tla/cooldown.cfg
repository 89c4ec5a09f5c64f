\* The cooldown taken as a spacing of attempts.
SPECIFICATION Spec
CONSTANTS
  None = None
  e1 = e1  e2 = e2  e3 = e3  s1 = s1  s2 = s2  r1 = r1  r2 = r2  w1 = w1  w2 = w2
  MaxRetries = 2
  Cooldown = 2
  FundsBackoff <- MCFunds
  GatewayBackoff <- MCGateway
  LLMWired = FALSE
  Events <- MCEvents
  Subs <- MCSubs
  Runners <- MCRunners
  Workers <- MCWorkers
  ActionIds <- MCFourIds
  Bodies <- MCRetryBodies
  ExclusiveHandOver = TRUE
  Limit = 2
  LiveStatuses <- MCLive
  WiredAtStart = TRUE
  Horizon = 4
  MaxFaults = 0
SYMMETRY Symmetry
INVARIANTS CooldownSpacing
\* The system stops when every event is handled and the horizon is reached.
CHECK_DEADLOCK FALSE
