\* As many requests as runtime connections, fewer threads, one DDL connection.
CONSTANTS
  Request = {r1, r2, r3}
  Threads = 2
  RuntimeSize = 3
  DdlSize = 1
  MaxBlocks = 2
SPECIFICATION Spec
INVARIANTS TypeOK NothingLeaks NoGridlockBelowSize
PROPERTIES EveryRequestEnds
