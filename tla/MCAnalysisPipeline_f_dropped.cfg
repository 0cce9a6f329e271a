SPECIFICATION Spec
CONSTANTS
  Convs = {c1}
  MaxRequests = 1
  Handlers = {h1, h2}
  MaxFaults = 2
  LastMayBeCut = TRUE
  MayOvertake = FALSE
  NULL = NULL
SYMMETRY Symmetric
INVARIANTS
  ActiveRunIsCarried
CHECK_DEADLOCK FALSE
