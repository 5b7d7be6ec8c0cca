SPECIFICATION FairSpec
CONSTANTS
  a1 = a1  a2 = a2  a3 = a3  b = b  c1 = c1  c2 = c2  l1 = l1  l2 = l2
  Files <- AllKinds
  Size <- MCSize
  Inode <- MCInode
  PartialHash <- MCPartial
  FullHash <- MCFull
  Caches <- LinkFreeCaches
  ScanBatch = 2
  CacheBatch = 3
  SizeFetch = 2
  HashFetch = 1
  LargeFrom = 2
  MaxLarge = 1
  Faults = {"shutdown", "exception", "read_error"}
  CrashStages = {}
INVARIANTS TypeOK ReportComplete PartialHashesDurable
PROPERTIES ShutdownStopsWork ProcessEnds KeepsPromise
CHECK_DEADLOCK FALSE
