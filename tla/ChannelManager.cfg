CONSTANTS
  MaxStarts = 3
  MaxAttempts = 1
  Races = {}
SPECIFICATION FairSpec
INVARIANTS
  ChannelTypeOK
  RunningIsRecorded
  StopSticks
PROPERTIES
  ComesUp
