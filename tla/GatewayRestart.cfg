CONSTANTS
  Dispatchers = {d1, d2}
  MaxReplies = 1
  LateReplies = FALSE
  Cooldown = 2
  Delays = {1}
  MaxWait = 2
  MaxPolls = 2
SPECIFICATION FairSpec
INVARIANTS
  RestartTypeOK
PROPERTIES
  RepliesFirst
  RequestsServed
