\* Two requests at a time that run to their end.
CONSTANTS
  k1 = k1
  None = None
  Worker = {w1, w2}
  Key = {k1}
  Submission <- MCSoundKinds
  MaxBatch = 2
  MaxCalls = 3
  MaxBulkRows = 2
  Limit = 6
  AutoPromote = TRUE
  MayCrash = FALSE
SPECIFICATION FairSpec
CHECK_DEADLOCK FALSE
INVARIANTS OneRowPerKey AcceptedIsLanded OnRecord
PROPERTIES PendingIsSettled
