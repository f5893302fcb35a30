SPECIFICATION Spec
CONSTANTS
  Thread = {t1, t2}
  Object = {o1, o2}
  StrongHandle = {s1, s2, s3}
  WeakHandle = {w1, w2}
  MaxRefs = 7
  NULL = NULL
SYMMETRY Symmetry
INVARIANTS
  NoDanglingHandle
  NoUseAfterFree
  UseCountExact
  NoLeak
  LockFindsTarget
PROPERTIES
  DestructorRunsOnce
  NoResurrection
