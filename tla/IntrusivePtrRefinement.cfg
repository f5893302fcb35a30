SPECIFICATION FairSpec
CONSTANTS
  Thread = {t1, t2}
  Object = {o1}
  StrongHandle = {s1, s2}
  WeakHandle = {w1, w2}
  MaxRefs = 6
  NULL = NULL
PROPERTIES
  LockFree
  ImplementsSharedOwnership
