CONSTANTS
  MaxDeliveries = 1
  Parts = 2
  MaxRetries = 2
  MaxCrashes = 0
  Scans = {"scan"}
  Modes <- AllQuiet
  Faults = {"unheard"}
SPECIFICATION Spec
INVARIANTS
  Outbox
CHECK_DEADLOCK FALSE
