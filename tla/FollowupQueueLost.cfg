CONSTANTS
  MaxMsgs = 3
  MessageOf <- EachOnce
  MaxFailures = 0
  MaxQueues = 1
  Keys = {k1}
  Modes = {"collect"}
  Caps = {2}
  Policies = {"summarize"}
  Races = {"overflowInTurn"}
SPECIFICATION Spec
INVARIANTS
  NothingLost
CHECK_DEADLOCK FALSE
