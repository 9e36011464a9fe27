\* A smaller scale of a decimal is applied without asking.
CONSTANTS
  code = code  credit = credit
  Col <- MCCol
  Definitions <- MCDefinitions
  Payloads <- MCPayloads
  Worker = {w1}
  MaxEntities = 2
  MaxVersion = 3
  MaxCalls = 6
  MayCrash = FALSE
SPECIFICATION Spec
CHECK_DEADLOCK FALSE
PROPERTY NoUnaskedLoss
