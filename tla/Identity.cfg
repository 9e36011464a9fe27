\* Two requests at a time; one person of the directory, typed in two ways, beside
\* the local administrator.
CONSTANTS
  root = root  ann = ann  ANN = ANN
  staff = staff
  Account = {root, ann, ANN}
  Directory <- MCDirectory
  LocalAdmin = root
  Group = {staff}
  Bootstrap <- MCBootstrap
  Mappings <- MCMappings
  Overrides <- MCOverrides
  Key = {k1}
  NoKey = none
  Worker = {w1, w2}
  MaxCalls = 5
SPECIFICATION Spec
CHECK_DEADLOCK FALSE
SYMMETRY Symmetries
INVARIANTS TypeOK RolesExplained NoRolelessAccount AdminsAppointed KeysOnRecord
