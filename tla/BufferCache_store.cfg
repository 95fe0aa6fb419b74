\* No failing transfer, a disk alone on its controller: the cache implements the block store, and the disk catches up.
CONSTANTS
  Procs = {p1, p2, p3}
  p1 = p1
  p2 = p2
  p3 = p3
  d1 = d1
  Bufs = {b1, b2}
  Devs = {d1}
  Blknos = {1, 2}
  Values = {v1, v2}
  None = None
  bfreelist = bfreelist
  CallsOf <- StoreCalls
  MaxCalls = 2
  Bounded = {p1, p2}
  Errors = {}
  Lone = {d1}
  Faults = FALSE
SPECIFICATION FairSpec
PROPERTIES CacheIsBlockStore DiskCatchesUp
