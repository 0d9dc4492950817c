CONSTANTS
  na = na
  nb = nb
  nc = nc
  nd = nd
  t1 = t1
  t2 = t2
  Tasks = {t1, t2}
  Names = {na, nb, nc, nd}
  NoName = none
  Hash <- MCHash
  Capacity = 2
  Archive <- MCArchive
  Workloads <- MCWorkloads
  BlockSizes = {8, 16, 32}
  Lengths = {0, 1, 3}
  SizeRange = 8
  MaxFile = 4
  MaxNodes = 9
  MaxCwd = 10
SPECIFICATION Spec
INVARIANTS HandlesFound ListingMissesNothing NodesFound FileInCapacity
CHECK_DEADLOCK FALSE
