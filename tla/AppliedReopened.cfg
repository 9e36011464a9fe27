\* An edit that read the row before its approval reopens it.
CONSTANTS
  code = code  credit = credit
  a1 = a1  a2 = a2  raw = raw  bad = bad  mistyped = mistyped  stray = stray
  None = None
  Attr <- MCKey
  Required <- MCKey
  BusinessKey <- MCKey
  MatchKey <- MCKey
  UniqueAttr <- MCKey
  Default <- MCConcDefault
  Value <- MCValue
  Normal <- MCNormal
  OffLimits <- MCOffLimits
  Fold <- MCFold
  Mistyped <- mistyped
  Stray <- stray
  Golden = {g1, g2}
  Worker = {w1, w2}
  User = {u1, u2}
  Steward = {u1, u2}
  StagingId = {s1, s2}
  Writes <- MCConcWrites
  Edits <- MCConcEdits
  MaxBulk = 1
  MaxCalls = 3
  EnforceSoD = TRUE
  SoftDelete = {TRUE}
  MayCrash = FALSE
SPECIFICATION Spec
SYMMETRY Symmetries
CHECK_DEADLOCK FALSE
PROPERTY AppliedIsFinal
