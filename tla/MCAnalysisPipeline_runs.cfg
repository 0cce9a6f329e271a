SPECIFICATION FairSpec
CONSTANTS
  Convs = {c1}
  MaxRequests = 3
  Handlers = {h1, h2}
  MaxFaults = 2
  LastMayBeCut = FALSE
  MayOvertake = FALSE
  NULL = NULL
INVARIANTS
  TypeOK
  ActiveRunIsCarried
PROPERTIES
  KeepsRuns
  RunsEnd
CHECK_DEADLOCK FALSE
