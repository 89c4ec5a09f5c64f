\* A second batch, after the retries of the first have come due.
SPECIFICATION BatchSpec
CONSTANTS
  None = None
  MaxRetries = 2
  Cooldown = 2
  FundsBackoff <- MCFunds
  GatewayBackoff <- MCGateway
  Cases <- MCCases
  Counts <- MCCounts
  Ahead = 4
  LastTick = 4
  Interrupts = 0
INVARIANTS DueRetriesExecuted
\* The cases run out.
CHECK_DEADLOCK FALSE
