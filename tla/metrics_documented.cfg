SPECIFICATION Spec
CONSTANTS
  None = None
  StageAAssets <- StageA
  Patterns <- AllPatterns
  Nodes <- AllNodes
  Assets <- OneAsset
  Batches <- Transactions
  FlowLimit = 7
  MaxMissing = 0
  MaxLate = 0
  MaxLost = 1
INVARIANTS
  EtfOrIndicatorsAsDocumented
CHECK_DEADLOCK FALSE
