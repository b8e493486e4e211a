CONSTANTS
  Node = {n1}
  Policy = {p1, p2}
  NoPolicy = NoPolicy
  Task = {t1, t2, t3}
  NoTask = NoTask
  Kinds = {"deploy", "rollback", "fsmRollback"}
  Backend = "sqlite"
  HistoryLimit = 2
  Target = {0}
  Faults = {}
  Exotic = {}
  Unsupported <- MCUnsupported
SPECIFICATION Spec
INVARIANTS GuardedExclusion RecordedVersionExists LatestSuccessIsRunning
CHECK_DEADLOCK FALSE
SYMMETRY Symmetry
