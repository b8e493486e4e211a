CONSTANTS
  Node = {n1}
  Fleet <- MCFleet
  State <- MCState
  Definition <- MCDefinition
  NoDefinition = NoDefinition
  Inst = {i1}
  NoInst = NoInst
  Engine = {e1}
  Client = {c1}
  Slow = {}
  Requests = {"start", "cancel"}
  Faults = {}
  Early = {n1}
  Marked = {n1}
  Used = {"canary"}
SPECIFICATION Spec
PROPERTIES StatusIsFinal
