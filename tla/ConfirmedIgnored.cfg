\* A confirmed destructive change is recorded as published and never made.
CONSTANTS
  code = code  credit = credit
  Col <- MCCol
  Definitions <- MCDefinitions
  Payloads <- MCPayloads
  Worker = {w1}
  MaxEntities = 2
  MaxVersion = 3
  MaxCalls = 6
  MayCrash = FALSE
SPECIFICATION Spec
CHECK_DEADLOCK FALSE
PROPERTY ConfirmedChangesMade
