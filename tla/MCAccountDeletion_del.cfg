SPECIFICATION FairSpec
CONSTANTS
  Users = {u1}
  Requests = {r1, r2}
  Relays = {y1}
  Workers = {w1}
  Jobs = {j1, j2, j3, j4, j5, j6}
  MaxAttempts = 2
  MaxFaults = 2
  NULL = NULL
INVARIANTS
  TypeOK
  RecordedIsCertain
  GoneWasRevoked
PROPERTIES
  KeepsPromise
  OutboxClears
CHECK_DEADLOCK FALSE
