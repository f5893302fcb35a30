SPECIFICATION DefaultFairSpec
CONSTANTS
  Thread = {t1, t2, t3}
  cpu = cpu
  cuda = cuda
  r1 = r1
  r2 = r2
  r3 = r3
  Runtime = {r1, r2, r3}
  DeviceType = {cpu, cuda}
  InvalidType = invalid
  TypeOf <- MCTypeOf
  Builtin = r1
  Cpu = cpu
  NULL = NULL
INVARIANTS
  NothingDiscarded
  CpuAlwaysThere
PROPERTIES
  InitializationEnds
