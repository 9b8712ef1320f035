CONSTANTS
  Lanes = {main, session}
  RawLimits <- MCRawLimits
  MaxCalls = 3
  MaxGeneration = 2
SPECIFICATION FairSpec
INVARIANTS
  TypeOK
  NoStrandedWork
  PendingAccounted
PROPERTIES
  StartsWithinLimit
  ContractSpec
  AcceptedSettles
CHECK_DEADLOCK FALSE
