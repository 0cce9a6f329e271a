SPECIFICATION FairSpec
CONSTANTS
  Clients = {c1, c2}
  Feeds = {f1, f2}
  MaxResults = 2
  Buffer = 1
  MaxFaults = 1
  READY = READY
  NULL = NULL
INVARIANTS
  TypeOK
  NothingFallsBetween
PROPERTIES
  EveryoneLearns
CHECK_DEADLOCK FALSE
