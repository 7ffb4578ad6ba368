CONSTANTS
  Loaders <- Both
  Contribution <- Budgets
  LowWatermark = 1
  HighWatermark = 2
  LowPoolLoad = 2
  HighPoolLoad = 8
  Duration <- Durations
  Size <- Sizes
  EndTime = 4
  SeekTimes = {}
  MaySwitch = FALSE
  MayFail = FALSE
  MayNotParse = FALSE
  MayDownload = FALSE
SPECIFICATION FairSpec
PROPERTY
  PlaysToTheEnd
