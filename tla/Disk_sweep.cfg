\* Requests before and behind the one being transferred.
CONSTANTS
  p1 = p1
  p2 = p2
  p3 = p3
  d1 = d1
  d2 = d2
  c1 = c1
  c2 = c2
  x1 = x1
  r1 = r1
  r2 = r2
  r3 = r3
  r4 = r4
  None = None
  Nil = Nil
  init = init
  bfreelist = bfreelist
  Procs = {p1, p2}
  Bufs = {b1, b2}
  Devs = {d1}
  Blknos = {1, 2}
  Values = {v1}
  CallsOf <- MountCalls
  MaxCalls = 0
  Bounded = {}
  Errors = {"read", "write"}
  Lone = {}
  Faults = FALSE
  Sleepers = {p1, p2}
  EventChans = {c1, c2}
  ChanOf <- ChanOfProc
  PParent <- ParentOf
  Senders <- SentBy
  Settings <- SetBy
  SysCalls <- CalledBy
  MaxSecs = 1
  Ioctlers = {p1, p2}
  MaxRequests = 3
  MaxPatience = 1
  SwapProcs = {p1, p2}
  FirstProc = p1
  Texts = {x1}
  Slots = 3
  DMMAX = 8
  DMMIN = 2
  CTOD = 2
  NDMAP = 4
  nswdev = 2
  nswap = 16
  USize = 2
  DataSizes = {0, 2, 4}
  StackSizes = {0, 1}
  TextSizes = {4}
  DiskReqs = {r1, r2, r3, r4}
  Disks = {d1, d2}
  Cylinders = {1, 2, 3}
  Users = {p1, p2}
  ninode = 4
  Dirs = {1, 2}
  Ilist <- OneBlock
  Born <- FileOne
  InoCache = 1
  Goals <- DoneBy
  Runners = {p1, p2}
  FirstRunner = p1
  sched = sched
  Programs = {f1}
  ntext = 2
  Traced = {p2}
  Tasks <- TasksBy
  Nothing = Nothing
  ReadFails = {"fsget", "fsiupdat"}
  Parts = {"disk"}
SPECIFICATION KernelSpec
INVARIANTS OneWayScan
CHECK_DEADLOCK FALSE
