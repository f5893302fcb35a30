SPECIFICATION Spec
CONSTANTS
  Thread = {t1}
  Object = {o1}
  StrongHandle = {s1, s2, s3}
  WeakHandle = {w1}
  MaxRefs = 2
  NULL = NULL
PROPERTIES
  NoWrap
CHECK_DEADLOCK FALSE
