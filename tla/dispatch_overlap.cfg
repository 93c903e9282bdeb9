SPECIFICATION Spec
CONSTANTS
  a1 = a1
  a2 = a2
  Dispatchers = {d1, d2}
  Alerts = {a1, a2}
  Batches <- TwoAlertBatches
  SenderModes = {TRUE, FALSE}
  RetryBudget = 1
  StaleTimeout = 1
  MaxClock = 3
SYMMETRY DispatcherSymmetry
INVARIANTS
  TypeOK
  OneRoundPerAlert
  BoundedCopies
  RowMatchesChat
  NoStaleRowAfterRecovery
PROPERTIES
  RecoveryIsConservative
  ImplementsAtMostOnce
  TerminalIsFinal
  EachStepCounts
CHECK_DEADLOCK FALSE
