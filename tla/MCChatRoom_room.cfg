SPECIFICATION FairSpec
CONSTANTS
  Users = {u1}
  MaxSockets = 2
  Posters = {}
  MaxPumps = 2
  MaxMessages = 2
  Buffer = 1
  MaxFaults = 1
  NULL = NULL
INVARIANTS
  TypeOK
  AnnouncedIsDropped
  OneLateMessage
  JoinedLiveMissesNothing
PROPERTIES
  RevokedSocketsEnd
CHECK_DEADLOCK FALSE
