SPECIFICATION Spec
CONSTANTS
  DimMax = 7
  MaxRank = 3
  OVERFLOW = OVERFLOW
  NULL = NULL
INVARIANTS
  NumelExact
  StridesRowMajor
  StridesOverflow
  DenseExact
CHECK_DEADLOCK FALSE
