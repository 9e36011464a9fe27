\* One request at a time, with crashes, rows of every kind and retries.
CONSTANTS
  k1 = k1
  None = None
  Worker = {w1}
  Key = {k1}
  Submission <- MCEveryKind
  MaxBatch = 3
  MaxCalls = 4
  MaxBulkRows = 2
  Limit = 3
  AutoPromote = TRUE
  MayCrash = TRUE
SPECIFICATION Spec
CHECK_DEADLOCK FALSE
INVARIANTS TypeOK AcceptedIsLanded StagedOnce
