SPECIFICATION FairSpec
CONSTANTS
  Chain <- LogsChain
  Filters <- LogsFilters
  Verdict <- LogsVerdict
  Features <- LogsFeatures
  Normalise = TRUE
  Forest <- LogsForest
  MaxDepth = 64
  Mode = "ollama"
  AllowFallback = TRUE
  Retries = 1
  ErrLevels <- ErrorLevels
  TopLimit = 1
  ReservoirCap = 1
  WindowSeconds = 60
  Batches <- LogBatches
  MaxRecords = 4
  MaxRestarts = 1
INVARIANTS SummariesMatchRecords ScoresFollowHistory
PROPERTY EveryRecordLeaves
CHECK_DEADLOCK FALSE
