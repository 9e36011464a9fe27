\* Two requests at a time, with crashes.
CONSTANTS
  code = code  credit = credit
  Col <- MCCol
  Definitions <- MCDefinitions
  Payloads <- MCConcPayloads
  Worker = {w1, w2}
  MaxEntities = 2
  MaxVersion = 3
  MaxCalls = 5
  MayCrash = TRUE
SPECIFICATION Spec
CHECK_DEADLOCK FALSE
SYMMETRY Symmetries
INVARIANTS VersionsComplete
PROPERTIES SnapshotsImmutable TornOnlyByTornReads StatusLostOnlyByOverlap
