SPECIFICATION Spec
CONSTANTS
  Shards = 3
  Cap = 0
  MaxRuns = 3
  Synced = TRUE
INVARIANTS
  LoggedIsBuilt
CHECK_DEADLOCK FALSE
