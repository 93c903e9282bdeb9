SPECIFICATION Spec
CONSTANTS
  NumKeys = 3
  Critical <- ThreeKeyCritical
  Cooldown <- ThreeKeyCooldown
  SoftCap = 1
  HourCap = 2
  DayCap = 3
  HourLen = 2
  DayLen = 4
  DispatchModes = {TRUE, FALSE}
  MaxClock = 4
INVARIANTS
  TypeOK
  HardCapsRespected
  SoftCapRespected
  CooldownRespected
  HandedOffOnce
  CompletedTickDelivers
CHECK_DEADLOCK FALSE
