SPECIFICATION FairSpec
CONSTANTS
  Jobs = {"ingestion", "btc_dominance", "fear_greed", "etf_flows", "coinglass"}
  Assets <- TwoAssets
  Enabled <- OneAsset
  HeatmapAssets <- OneAsset
  Timeframes <- TwoTimeframes
  Keyed = TRUE
  Limit = 3
  Fresh = 0
  MaxRuns = 2
  MaxClock = 1
INVARIANTS
  TypeOK
  OkCheckHasRows
  DoubledOnlyByOverlap
  HealthyMeansFresh
  FailureHiddenOnlyByNamesake
PROPERTIES
  HeatmapNeverLost
  RunsEnd
CHECK_DEADLOCK FALSE
