SPECIFICATION GraphSpec
CONSTANTS
  Object = {o1, o2, o3}
  StrongVar = {x, y}
  WeakVar = {}
  StrongField = {next}
  WeakField = {back}
  NULL = NULL
SYMMETRY Symmetry
INVARIANTS
  ReachableIsAlive
  OnlyCyclesLeak
PROPERTIES
  MoveSourceSurvives
  GraphIsSharedOwnership
CHECK_DEADLOCK FALSE
