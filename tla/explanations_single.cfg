SPECIFICATION FairSpec
CONSTANTS
  w1 = w1
  w2 = w2
  Workers = {w1}
  NumTasks = 2
  CacheKey <- TwoKeys
  ServiceModes = {TRUE}
  BatchSize = 1
  HourCap = 1
  DayCap = 1
  HourLen = 1
  DayLen = 2
  CacheLen = 1
  StaleLen = 1
  MaxClock = 3
  MaxAborts = 1
  MaxResets = 1
INVARIANTS
  TypeOK
  RecordedWithinCaps
  ReusedTextFits
PROPERTIES
  PendingIsProcessed
CHECK_DEADLOCK FALSE
