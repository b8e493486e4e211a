CONSTANTS
  Controller = {c1, c2}
  Id <- MCId
  NoId = NoId
  Duration = 4
  MaxDelay = 1
  Faults = {"stop", "storage", "late"}
SPECIFICATION FairSpec
INVARIANTS LeaseInv LeaseExclusion LeaderIsStable
PROPERTIES DeposedStepsDown SettledFindLeader SettledKeepLeader
