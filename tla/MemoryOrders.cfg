SPECIFICATION OrdersSpec
CONSTANTS
  Thread = {t1, t2}
  Creator = t1
  StrongRef = {s1, s2, s3}
  WeakRef = {w1, w2}
  First = s1
  NULL = NULL
SYMMETRY Symmetry
INVARIANTS
  DestroyedAfterUse
  FreedAfterUse
PROPERTIES
  LockTakesOver
CHECK_DEADLOCK FALSE
