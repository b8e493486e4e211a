CONSTANTS
  Node = {n1}
  Policy = {p1}
  NoPolicy = NoPolicy
  Task = {t1, t2}
  NoTask = NoTask
  Kinds = {"deploy", "fsmRollback"}
  Backend = "memory"
  HistoryLimit = 2
  Target = {0}
  Faults = {"remove", "disconnect", "agentStop"}
  Exotic = {}
  Unsupported <- MCUnsupported
SPECIFICATION Spec
INVARIANTS IndInv LeakedOnlyByDrop
CHECK_DEADLOCK FALSE
SYMMETRY Symmetry
