CONSTANTS
  Keys = {1, 2}
  Times = {1, 2}
  StreamLength = 3
  MaxBytes = 3
  Readers <- TwoReaders
  Requests <- WholeAndMiddle
  MaxCacheFileSize = 2
  blockOnCache <- OneBlocks
  ignoreCacheOnError <- OtherIgnores
  MayFail = TRUE
  MayClear = TRUE
  MayCrash = TRUE
SPECIFICATION FairSpec
INVARIANTS
  TypeOK
  SpansAreDisjoint
  MemoryTellsTheDisk
  
PROPERTIES
  WaitingEnds
