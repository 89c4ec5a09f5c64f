\* Two failures of one subscription, a runner and two workers, with a lost session; their abstract lifecycle.
SPECIFICATION Spec
CONSTANTS
  None = None
  e1 = e1  e2 = e2  e3 = e3  s1 = s1  s2 = s2  r1 = r1  r2 = r2  w1 = w1  w2 = w2
  MaxRetries = 2
  Cooldown = 2
  FundsBackoff <- MCFunds
  GatewayBackoff <- MCGateway
  LLMWired = FALSE
  Events <- MCEvents
  Subs <- MCSubs
  Runners <- MCRunners
  Workers <- MCTwoWorkers
  ActionIds <- MCSixIds
  Bodies <- MCRetryBodies
  ExclusiveHandOver = TRUE
  Limit = 2
  LiveStatuses <- MCLive
  WiredAtStart = TRUE
  Horizon = 4
  MaxFaults = 1
SYMMETRY Symmetry
INVARIANTS NeverTwice StrandedBound OneOutcomePerEvent LadderSpacing
PROPERTIES EpisodesImplemented InboxImplemented
\* The system stops when every event is handled and the horizon is reached.
CHECK_DEADLOCK FALSE
