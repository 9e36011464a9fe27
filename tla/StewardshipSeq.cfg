\* One request at a time: what the review handlers guarantee without overlap.
CONSTANTS
  code = code  credit = credit
  a1 = a1  a2 = a2  raw = raw  bad = bad  mistyped = mistyped  stray = stray
  None = None
  Attr <- MCAttr
  Required <- MCKey
  BusinessKey <- MCKey
  MatchKey <- MCKey
  UniqueAttr = {}
  Default <- MCDefault
  Value <- MCValue
  Normal <- MCNormal
  OffLimits <- MCOffLimits
  Fold <- MCFold
  Mistyped <- mistyped
  Stray <- stray
  Golden = {g1, g2}
  Worker = {w1}
  User = {u1, u2}
  Steward = {u1, u2}
  StagingId = {s1, s2}
  Writes <- MCWrites
  Edits <- MCEdits
  MaxBulk = 2
  MaxCalls = 3
  EnforceSoD = TRUE
  SoftDelete = {TRUE, FALSE}
  MayCrash = TRUE
SPECIFICATION Spec
SYMMETRY Symmetries
CHECK_DEADLOCK FALSE
INVARIANTS TypeOK LastTouchNotReviewer PriorVersionsKept CreatedOnce AuditTruthful
PROPERTIES AppliedIsFinal HistoryExact UnclaimedFieldsKept EditOnlyNamed
