CONSTANTS
  Lanes = {session}
  RawLimits <- MCRawLimits
  MaxCalls = 1
  MaxGeneration = 1
  Faults = {"earlySignal"}
SPECIFICATION LoopSpec
INVARIANTS
  ServingAcceptsWork
CHECK_DEADLOCK FALSE
