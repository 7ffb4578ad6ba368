CONSTANTS
  ChunkSize = 1
  MayFail = TRUE
  NumSegments = 3
  NumFormats = 2
  MinRetained = 2
  SeekTimes <- Start
  MayNotParse = FALSE
SPECIFICATION FairSpec
PROPERTY
  ReachesTheEnd
