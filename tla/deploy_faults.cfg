CONSTANTS
  Node = {n1}
  Policy = {p1, p2}
  NoPolicy = NoPolicy
  Task = {t1, t2}
  NoTask = NoTask
  Kinds = {"deploy", "rollback"}
  Backend = "sqlite"
  HistoryLimit = 2
  Target = {0, 1}
  Faults = {"remove", "disconnect", "restart", "storage"}
  Exotic = {}
  Unsupported <- MCUnsupported
SPECIFICATION Spec
INVARIANTS TypeOK RecordedVersionExists
PROPERTIES RefinesSerialDeploy
CHECK_DEADLOCK FALSE
