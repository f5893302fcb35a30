SPECIFICATION FairSpec
CONSTANTS
  Thread = {t1, t2, t3}
  Device = {cpu0, cuda0}
  Cpu0 = cpu0
  Event = {e1}
  IdLimit = 3
  MaxStreams = 4
  NULL = NULL
INVARIANTS
  StreamsDistinct
  NoHalfRecorded
  RecordedForAll
PROPERTIES
  SomeCallReturns
