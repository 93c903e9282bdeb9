SPECIFICATION Spec
CONSTANTS
  w1 = w1
  w2 = w2
  Workers = {w1, w2}
  NumTasks = 2
  CacheKey <- OneKey
  ServiceModes = {TRUE, FALSE}
  BatchSize = 2
  HourCap = 1
  DayCap = 2
  HourLen = 1
  DayLen = 2
  CacheLen = 1
  StaleLen = 1
  MaxClock = 2
  MaxAborts = 1
  MaxResets = 1
SYMMETRY WorkerSymmetry
INVARIANTS
  ClaimsExclusive
  RepliesBoundedByAborts
  CommittedTextWasSent
  RunningNeverCommitted
PROPERTIES
  ImplementsAtLeastOnce
CHECK_DEADLOCK FALSE
