CONSTANTS
  Node = {n1, n2}
  Fleet <- MCFleet
  State <- MCState
  Definition <- MCDefinition
  NoDefinition = NoDefinition
  Inst = {i1}
  NoInst = NoInst
  Engine = {e1}
  Client = {c1}
  Slow = {n1, n2}
  Requests = {"start", "adaptive", "delete"}
  Faults = {}
  Early = {n1, n2}
  Marked = {n2}
  Used = {"adaptive"}
  Hooked <- MCHooked
  Delivery = {1, 2, 3}
  MaxRetries = 1
  MaxRestarts = 1
  NoAlert = NoAlert
SPECIFICATION FairAlertSpec
INVARIANTS ContextTracksUntilRestart AlertedOnce SuccessIsLast AttemptsAccounted
PROPERTIES StatusIsFinal DeliveryEnds
