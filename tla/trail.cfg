\* The audit trail of one exception against its docstring.
SPECIFICATION DashSpec
CONSTANTS
  None = None
  e1 = e1  e2 = e2  s1 = s1  s2 = s2  r1 = r1  w1 = w1
  MaxRetries = 2
  Cooldown = 2
  FundsBackoff <- MCFunds
  GatewayBackoff <- MCGateway
  LLMWired = FALSE
  Events <- MCEvents
  Subs <- MCOneSub
  Runners <- MCRunners
  Workers <- MCNoWorkers
  ActionIds <- MCIds
  Bodies <- MCManualBodies
  ExclusiveHandOver = TRUE
  Limit = 2
  LiveStatuses <- MCActive
  WiredAtStart = TRUE
  Horizon = 1
  MaxFaults = 0
  FailedPayments <- MCEvents
  PageSize = 1
  Skips <- MCNoSkips
  MaxRequests = 1
INVARIANTS TrailOfOneException
\* The system stops when every event is handled and the horizon is reached.
CHECK_DEADLOCK FALSE
