\* One batch with a case of every category.
SPECIFICATION BatchSpec
CONSTANTS
  None = None
  MaxRetries = 2
  Cooldown = 2
  FundsBackoff <- MCFunds
  GatewayBackoff <- MCGateway
  Cases <- MCCases
  Counts <- MCOneBatch
  Ahead = 4
  LastTick = 1
  Interrupts = 0
INVARIANTS PendingLinksExist
\* The cases run out.
CHECK_DEADLOCK FALSE
