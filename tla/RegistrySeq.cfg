\* One request at a time: create, change, import, publish, delete in any order.
CONSTANTS
  code = code  credit = credit
  Col <- MCCol
  Definitions <- MCDefinitions
  Payloads <- MCPayloads
  Worker = {w1}
  MaxEntities = 2
  MaxVersion = 3
  MaxCalls = 6
  MayCrash = FALSE
SPECIFICATION Spec
CHECK_DEADLOCK FALSE
INVARIANTS TypeOK StatusHonest DeployedHasTables
PROPERTIES PublishDeploysModel AppliedIsRecorded
