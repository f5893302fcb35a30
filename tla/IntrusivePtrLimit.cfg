SPECIFICATION Spec
CONSTANTS
  Thread = {t1, t2}
  Object = {o1}
  StrongHandle = {s1}
  WeakHandle = {w1, w2, w3}
  MaxRefs = 3
  NULL = NULL
SYMMETRY Symmetry
PROPERTIES
  NoWrap
CHECK_DEADLOCK FALSE
