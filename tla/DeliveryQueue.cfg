CONSTANTS
  MaxDeliveries = 2
  Parts = 2
  MaxRetries = 2
  MaxCrashes = 1
  Scans = {"scan"}
  Modes <- OneOfEach
  Faults = {}
SPECIFICATION FairSpec
INVARIANTS
  DeliveryTypeOK
  Outbox
PROPERTIES
  NoReplay
  QueueEmpties
CHECK_DEADLOCK FALSE
