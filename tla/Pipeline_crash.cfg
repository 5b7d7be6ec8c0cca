SPECIFICATION Spec
CONSTANTS
  a1 = a1  a2 = a2  a3 = a3  b = b  c1 = c1  c2 = c2  l1 = l1  l2 = l2
  Files <- OneInode
  Size <- MCSize
  Inode <- MCInode
  PartialHash <- MCPartial
  FullHash <- MCFull
  Caches <- LinkFreeCaches
  ScanBatch = 2
  CacheBatch = 3
  SizeFetch = 1
  HashFetch = 1
  LargeFrom = 3
  MaxLarge = 1
  Faults = {"shutdown", "exception", "read_error", "db_error", "torn_write", "report_error"}
  CrashStages = {"scanning", "partial_hashing", "full_hashing", "done"}
INVARIANTS HashReportedOnce ReportSound
PROPERTIES StagesOnlyAdvance DoneIsOver
SYMMETRY CopySymmetry
CHECK_DEADLOCK FALSE
