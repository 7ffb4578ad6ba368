CONSTANTS
  ChunkSize = 2
  MayFail = TRUE
  NumSegments = 3
  NumFormats = 2
  MinRetained = 1
  SeekTimes <- MiddleAndEnd
  MayNotParse = TRUE
SPECIFICATION Spec
INVARIANTS
  TypeOK
  QueueIsSound
  
PROPERTY
  SamplesFollowEachOther
