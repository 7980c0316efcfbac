SPECIFICATION Spec
CONSTANTS
  Meta <- Tables
  Stamp = {"at"}
  Root = "user"
  Rows <- Users
  Databases <- Contents
  Criteria <- Filters
  JsonPaths <- Paths
  Patches <- Sets
  MaxChain = 3
INVARIANTS ClauseSelects ChainMeans BulkTouchesMatching
CHECK_DEADLOCK FALSE
