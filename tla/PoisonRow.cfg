\* One row a statement breaks on holds back all the others.
CONSTANTS
  k1 = k1
  None = None
  Worker = {w1}
  Key = {k1}
  Submission <- MCPoison
  MaxBatch = 1
  MaxCalls = 2
  MaxBulkRows = 1
  Limit = 6
  AutoPromote = TRUE
  MayCrash = FALSE
SPECIFICATION FairSpec
CHECK_DEADLOCK FALSE
PROPERTIES PendingIsSettled
