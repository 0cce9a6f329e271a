SPECIFICATION Spec
CONSTANTS
  Convs = {c1}
  MaxRequests = 4
  Handlers = {h1, h2}
  MaxFaults = 1
  LastMayBeCut = FALSE
  MayOvertake = TRUE
  NULL = NULL
SYMMETRY Symmetric
INVARIANTS
  OneActiveRun
CHECK_DEADLOCK FALSE
