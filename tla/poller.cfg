SPECIFICATION FairSpec
CONSTANTS
  NumAlerts = 3
  Undeliverable = {1}
  Limit = 2
  DigestLimit = 2
  Attempts = 2
  MaxFaults = 2
INVARIANTS
  TypeOK
  SentWasDelivered
  CopiesBoundedByFaults
  MuteLeaksOneSend
PROPERTIES
  ImplementsAtLeastOnce
  AlertIsHandled
CHECK_DEADLOCK FALSE
