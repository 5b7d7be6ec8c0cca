SPECIFICATION FairSpec
CONSTANTS
  Dirs <- TestDirs
  Files <- TestFiles
  Entries <- TestEntries
  Roots <- TestRoots
  FileSize <- Sizes
  MinSize = 2
  MaxSize = 3
  NamePats <- ByName
  PathPats <- ByPath
  FollowLinks <- Either
  MaxFaults = 2
INVARIANTS TypeOK EntryOnce NothingExcluded FilesFound
PROPERTIES WalkEnds
CHECK_DEADLOCK FALSE
