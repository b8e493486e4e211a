CONSTANTS
  i1 = i1
  n1 = n1
  n2 = n2
  Setups <- MCSetups
  All = All
  Buffer = 1
  Stream = {s1}
  Cap = 2
  MaxFaults = 1
  Faults = {"days", "storage", "restart", "late"}
SPECIFICATION FairSpec
INVARIANTS TypeOK HistoryIsNewest LogIsComplete TaskSurvives StreamIsFaithful
PROPERTIES TaskCatchesUp RecoversFromLag
CHECK_DEADLOCK FALSE
