SPECIFICATION Spec
CONSTANTS
  None = None
  StageAAssets <- StageA
  Patterns <- AllPatterns
  Nodes <- AllNodes
  Assets <- TwoAssets
  Batches <- Transactions
  FlowLimit = 7
  MaxMissing = 2
  MaxLate = 1
  MaxLost = 1
INVARIANTS
  MatchesBorneOut
CHECK_DEADLOCK FALSE
