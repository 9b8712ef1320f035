CONSTANTS
  MaxStarts = 3
  MaxAttempts = 1
  Races = {}
SPECIFICATION Spec
INVARIANTS
  EveryStopSticks
