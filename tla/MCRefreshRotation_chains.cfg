SPECIFICATION Spec
CONSTANTS
  Tokens = {t1, t2, t3}
  Calls = {c1, c2, c3, c4, c5}
  NULL = NULL
SYMMETRY Symmetric
INVARIANTS
  TypeOK
  OneLivePerChain
  LateIsUseless
  GoneLeavesNone
PROPERTIES
  KeepsChains
CHECK_DEADLOCK FALSE
