SPECIFICATION Spec
CONSTANTS
  k1 = k1
  k2 = k2
  Keys = {k1, k2}
  Limit = 2
  Period = 4
  Second = 2
  MaxKeys = 1
  MaxTime = 10
SYMMETRY MCSymmetry
INVARIANTS
  TypeOK
  WindowIsBounded
  RetryIsHonest
  TableIsBounded
PROPERTIES
  RefusalIsDeserved
CHECK_DEADLOCK FALSE
