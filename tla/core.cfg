\* One failure of every kind, handed to two runners, a worker, a lost session, a client wired late or never.
SPECIFICATION Spec
CONSTANTS
  None = None
  e1 = e1  e2 = e2  e3 = e3  s1 = s1  s2 = s2  r1 = r1  r2 = r2  w1 = w1  w2 = w2
  MaxRetries = 2
  Cooldown = 2
  FundsBackoff <- MCFunds
  GatewayBackoff <- MCGateway
  LLMWired = TRUE
  Events <- MCOneEvent
  Subs <- MCSubs
  Runners <- MCTwoRunners
  Workers <- MCWorkers
  ActionIds <- MCFourIds
  Bodies <- MCAllBodies
  ExclusiveHandOver = FALSE
  Limit = 2
  LiveStatuses <- MCWideLive
  WiredAtStart = FALSE
  Horizon = 3
  MaxFaults = 1
SYMMETRY Symmetry
INVARIANTS TypeOK AuditPrecedesCall LinkBound OutcomeBound HandledAccounted
PROPERTIES HistoryIsFinal
\* The system stops when every event is handled and the horizon is reached.
CHECK_DEADLOCK FALSE
