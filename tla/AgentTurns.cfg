CONSTANTS
  Sessions = {s1, s2}
  Main = main
  Subagent = subagent
  Nested = nested
  Cron = cron
  Lanes <- MCLanes
  RawLimits = {}
  ConfigLimits <- MCConfigLimits
  Kinds = {"plain", "cron"}
  MaxTurns = 3
  MaxCalls = 9
  MaxGeneration = 1
SPECIFICATION FairTurnsSpec
INVARIANTS
  TurnsTypeOK
  OneTurnPerSession
  DrainedMeansIdle
PROPERTIES
  TurnsEnd
CHECK_DEADLOCK FALSE
