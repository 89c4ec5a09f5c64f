\* Batches of one case and of five, one of them interrupted, a few days apart.
SPECIFICATION BatchSpec
CONSTANTS
  None = None
  MaxRetries = 2
  Cooldown = 2
  FundsBackoff <- MCFunds
  GatewayBackoff <- MCGateway
  Cases <- MCCases
  Counts <- MCCounts
  Ahead = 4
  LastTick = 4
  Interrupts = 1
INVARIANTS BatchTypeOK ReportCountsRecoveries StopsOverLeftovers ResolvedOnce
\* The cases run out.
CHECK_DEADLOCK FALSE
