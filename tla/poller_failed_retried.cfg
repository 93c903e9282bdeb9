SPECIFICATION Spec
CONSTANTS
  NumAlerts = 1
  Undeliverable = {}
  Limit = 1
  DigestLimit = 1
  Attempts = 3
  MaxFaults = 3
PROPERTIES
  FailedIsLeft
CHECK_DEADLOCK FALSE
