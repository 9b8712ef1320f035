CONSTANTS
  Lanes = {session}
  RawLimits <- MCRawLimits
  MaxCalls = 3
  MaxGeneration = 2
  Faults = {"startFails", "closeFails"}
SPECIFICATION FairLoopSpec
INVARIANTS
  LoopTypeOK
  ServingAcceptsWork
  NoOrphanServer
  LockWhileServing
  InFlightTurnsFinish
PROPERTIES
  DrainingEnds
CHECK_DEADLOCK FALSE
