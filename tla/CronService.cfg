CONSTANTS
  report = report
  reminder = reminder
  Jobs = {report, reminder}
  Schedules <- AllKinds
  Stored = {report}
  Switched = {report}
  Long = {report}
  Manuals = {"manual"}
  MaxCrashes = 1
  MaxImmediate = 1
  Concurrency = 1
  Races = {}
SPECIFICATION FairSpec
INVARIANTS
  CronTypeOK
  NoOverlap
  MarkersTrue
  
PROPERTIES
  NoRepeat
  SlotsMet
CHECK_DEADLOCK FALSE
