\* Two disks on the controller: disksort may put a later request for a block before an earlier one.
CONSTANTS
  Procs = {p1, p2, p3}
  p1 = p1
  p2 = p2
  p3 = p3
  d1 = d1
  Bufs = {b1, b2}
  Devs = {d1}
  Blknos = {1, 2}
  Values = {v1, v2}
  None = None
  bfreelist = bfreelist
  CallsOf <- StoreCalls
  MaxCalls = 2
  Bounded = {p1, p2}
  Errors = {}
  Lone = {}
  Faults = FALSE
SPECIFICATION Spec
INVARIANTS CleanIsOnDisk
CHECK_DEADLOCK FALSE
