SPECIFICATION Spec
CONSTANTS
  Shards = 2
  Cap = 0
  MaxRuns = 2
  Synced = FALSE
PROPERTIES
  SkippedIsBuilt
CHECK_DEADLOCK FALSE
