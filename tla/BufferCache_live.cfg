\* Two callers, three buffers: every call returns.
CONSTANTS
  Procs = {p1, p2}
  p1 = p1
  p2 = p2
  p3 = p3
  d1 = d1
  Bufs = {b1, b2, b3}
  Devs = {d1}
  Blknos = {1, 2}
  Values = {v1}
  None = None
  bfreelist = bfreelist
  CallsOf <- LiveCalls
  MaxCalls = 2
  Bounded = {p1, p2}
  Errors = {}
  Lone = {}
  Faults = FALSE
SPECIFICATION FairSpec
PROPERTIES
  CallsReturn
CHECK_DEADLOCK FALSE
