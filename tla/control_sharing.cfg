CONSTANTS
  Loaders <- Both
  Contribution <- Budgets
  LowWatermark = 1
  HighWatermark = 2
  LowPoolLoad = 2
  HighPoolLoad = 8
  Duration <- Durations
  Size <- Sizes
  EndTime = 4
  SeekTimes = {}
  MaySwitch = TRUE
  MayFail = FALSE
  MayNotParse = FALSE
  MayDownload = TRUE
SPECIFICATION Spec
INVARIANTS
  PriorityIsSound
