SPECIFICATION Spec
CONSTANTS
  a1 = a1  a2 = a2  a3 = a3  b = b  c1 = c1  c2 = c2  l1 = l1  l2 = l2
  Files <- TwoPairs
  Size <- MCSize
  Inode <- MCInode
  PartialHash <- MCPartial
  FullHash <- MCFull
  Caches <- ColdCache
  ScanBatch = 2
  CacheBatch = 1
  SizeFetch = 3
  HashFetch = 1
  LargeFrom = 3
  MaxLarge = 1
  Faults = {}
  CrashStages = {"full_hashing"}
INVARIANTS ReportComplete
CHECK_DEADLOCK FALSE
