CONSTANTS
  Node = {n1}
  Policy = {p1, p2}
  NoPolicy = NoPolicy
  Task = {t1, t2}
  NoTask = NoTask
  Kinds = {"deploy"}
  Backend = "sqlite"
  HistoryLimit = 2
  Target = {0}
  Faults = {"disconnect", "agentStop", "silence"}
  Exotic = {p2}
  Unsupported <- MCUnsupported
SPECIFICATION FairSpec
PROPERTIES TasksEnd DeployingIsTransient DeadAgentGoesOffline OnlyHeartbeatRevives
CHECK_DEADLOCK FALSE
