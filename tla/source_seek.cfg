CONSTANTS
  ChunkSize = 1
  MayFail = FALSE
  NumSegments = 3
  NumFormats = 2
  MinRetained = 1
  SeekTimes <- StartAndEnd
  MayNotParse = FALSE
SPECIFICATION Spec
PROPERTY
  SeekGoesWhereAsked
