SPECIFICATION Spec
CONSTANTS
  w1 = w1
  w2 = w2
  Workers = {w1}
  NumTasks = 1
  CacheKey <- OneKey
  ServiceModes = {TRUE}
  BatchSize = 1
  HourCap = 1
  DayCap = 1
  HourLen = 1
  DayLen = 2
  CacheLen = 1
  StaleLen = 1
  MaxClock = 1
  MaxAborts = 1
  MaxResets = 0
INVARIANTS
  CallsWithinHourCap
CHECK_DEADLOCK FALSE
