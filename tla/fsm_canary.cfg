CONSTANTS
  Node = {n1, n2, n3}
  Fleet <- MCFleet
  State <- MCState
  Definition <- MCDefinition
  NoDefinition = NoDefinition
  Inst = {i1}
  NoInst = NoInst
  Engine = {e1}
  Client = {c1}
  Slow = {}
  Requests = {"start", "cancel", "define", "delete"}
  Faults = {"disconnect", "restart", "fleet"}
  Early = {n1, n2}
  Marked = {n1, n3}
  Used = {"canary", "regions"}
SPECIFICATION FairSpec
INVARIANTS CompletionIsEarned
PROPERTIES EvaluationProgresses
