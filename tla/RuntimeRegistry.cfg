SPECIFICATION FairSpec
CONSTANTS
  Thread = {t1, t2, t3}
  cpu = cpu
  cuda = cuda
  r1 = r1
  r2 = r2
  r3 = r3
  r4 = r4
  Runtime = {r1, r2, r3, r4}
  DeviceType = {cpu, cuda}
  InvalidType = invalid
  TypeOf <- MCTypeOf
  NULL = NULL
INVARIANTS
  NoTornRead
PROPERTIES
  StableRegistration
  SomeCallReturns
  ImplementsAtomicRegistry
