\* Seven files, reads that fail and reads that succeed, all calls in any order.
CONSTANTS
  Files <- AllFiles
  Capacity = 64
  Offsets <- AtOffsets
  ReadAhead = 1
  MayFail = TRUE
  kUnknownPTS <- Unknown
SPECIFICATION FairSpec
INVARIANTS TypeOK SamplesAreWhole DistrustedOnlyIfRepeated
PROPERTIES Demultiplexes EndIsReported
\* An extractor that was released is not called again.
CHECK_DEADLOCK FALSE
