CONSTANTS
  p1 = p1
  p2 = p2
  t1 = t1
  t2 = t2
  Procs = {p1, p2}
  Tasks = {t1, t2}
  Workloads <- MCWorkloads
  MaxPage = 21
  PAGE_SIZE = 8
  HEADER_SIZE = 3
  SlabSizes = {2, 4}
  Requests = {1, 4, 9}
  MaxRequest = 9
  Fanout = 4
  KernelBase = 128
  KernelFrame = 100
  KernelPages = 1
  UserStack = 62
  StackPages = 2
  Segment = 60
  HeapStart = 8
  HeapTop = 32
  MmapSizes = {4, 20}
  MaxMmap = 2
  Hints = {0, 1536}
  VirtualPages = {60, 1, 2, 62, 63, 128, 192, 193}
SPECIFICATION Spec
INVARIANTS TypeOK BlocksAccounted NoSlabLost HeaderFound HigherHalfShared TablesOwned FramesExclusive PagesPartitioned
PROPERTIES HeapImplements KmallocReturns
CHECK_DEADLOCK FALSE
