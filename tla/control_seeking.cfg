CONSTANTS
  Loaders <- Both
  Contribution <- TightBudgets
  LowWatermark = 1
  HighWatermark = 2
  LowPoolLoad = 2
  HighPoolLoad = 8
  Duration <- Durations
  Size <- Sizes
  EndTime = 4
  SeekTimes = {0, 1}
  MaySwitch = FALSE
  MayFail = TRUE
  MayNotParse = TRUE
  MayDownload = FALSE
SPECIFICATION Spec
INVARIANTS
  TypeOK
  MemoryIsBounded
PROPERTY
  LoadsInTurn
