SPECIFICATION Spec
CONSTANTS
  MaxCalls = 4
  MaxAttempts = 2
  MaxFaults = 2
INVARIANTS
  TypeOK
  
  LastCodeStands
CHECK_DEADLOCK FALSE
