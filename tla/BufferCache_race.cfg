\* A failing read-ahead between getblk's look at a buffer and its claim.
CONSTANTS
  Procs = {p1, p2}
  p1 = p1
  p2 = p2
  p3 = p3
  d1 = d1
  Bufs = {b1, b2, b3}
  Devs = {d1}
  Blknos = {1, 2}
  Values = {v1}
  None = None
  bfreelist = bfreelist
  CallsOf <- RaceCalls
  MaxCalls = 0
  Bounded = {}
  Errors = {"read"}
  Lone = {}
  Faults = FALSE
SPECIFICATION FairSpec
INVARIANTS
  GetblkReturnsItsBlock
