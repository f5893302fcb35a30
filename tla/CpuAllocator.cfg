SPECIFICATION AllocatorSpec
CONSTANTS
  Handle = {x, y, z}
  Block = {b1, b2, b3}
  Device = {cpu0, cuda0}
  Cpu0 = cpu0
  Context = {c1}
  Bytes = {3}
  NULL = NULL
  Width = 3
  MaxAlign = 2
  PointerSize = 1
SYMMETRY Symmetry
INVARIANTS
  HandleIntact
  FreedOnce
  NoLeak
  AllocationSound
