\* fsoff invalidates the device after iput has written the root inode.
CONSTANTS
  Procs = {p1, p2}
  p1 = p1
  p2 = p2
  p3 = p3
  d1 = d1
  Bufs = {b1, b2, b3}
  Devs = {d1}
  Blknos = {1, 2}
  Values = {v1}
  None = None
  bfreelist = bfreelist
  CallsOf <- UmountCalls
  MaxCalls = 0
  Bounded = {}
  Errors = {}
  Lone = {}
  Faults = FALSE
SPECIFICATION MountSpec
INVARIANTS
  DelayedWriteFindable
CHECK_DEADLOCK FALSE
