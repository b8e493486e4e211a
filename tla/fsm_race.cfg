CONSTANTS
  Node = {n1, n2, n3, n4}
  Fleet <- MCFleet
  State <- MCState
  Definition <- MCDefinition
  NoDefinition = NoDefinition
  Inst = {i1}
  NoInst = NoInst
  Engine = {e1}
  Client = {c1}
  Slow = {n1}
  Requests = {"start", "advance", "cancel"}
  Faults = {"disconnect", "restart", "storage"}
  Early = {n1, n2, n3, n4}
  Marked = {n1, n2, n4}
  Used = {"batches", "regions", "canary", "dangling"}
SPECIFICATION Spec
INVARIANTS TypeOK StateIsDefined BatchesArePrefix
