\* Two processes, two buffers, two blocks; transfers and user copies may fail.
CONSTANTS
  Procs = {p1, p2}
  p1 = p1
  p2 = p2
  p3 = p3
  d1 = d1
  Bufs = {b1, b2}
  Devs = {d1}
  Blknos = {1, 2}
  Values = {v1, v2}
  None = None
  bfreelist = bfreelist
  CallsOf <- MixedCalls
  MaxCalls = 0
  Bounded = {}
  Errors = {"read", "write"}
  Lone = {}
  Faults = TRUE
SPECIFICATION Spec
INVARIANTS
  TypeOK
  InOnePlace
  OneBufferPerBlock
  SleepersWillWake
  NoDupIodone
  SyncWriteDurable
CHECK_DEADLOCK FALSE
