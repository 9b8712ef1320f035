CONSTANTS
  MaxMsgs = 4
  MessageOf <- LastTwice
  MaxFailures = 1
  MaxQueues = 1
  Keys = {k1, k2}
  Modes = {"collect", "followup"}
  Caps = {2}
  Policies = {"summarize", "old", "new"}
  Races = {"clear"}
SPECIFICATION FairSpec
INVARIANTS
  TypeOK
  NothingLost
  ShownOnce
  ShownInOrder
  OneDestination
PROPERTIES
  MessagesLeave
  BacklogEnds
CHECK_DEADLOCK FALSE
