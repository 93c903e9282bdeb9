SPECIFICATION Spec
CONSTANTS
  a1 = a1
  a2 = a2
  Dispatchers = {d1}
  Alerts = {a1, a2}
  Batches <- TwoAlertBatches
  SenderModes = {TRUE}
  RetryBudget = 1
  StaleTimeout = 1
  MaxClock = 4
INVARIANT
  RecoveredWasNotSent
