CONSTANTS
  Node = {n1, n2}
  drops = drops
  Counter = {drops}
  Targets = {n1, n2}
  Forms <- MCForms
  None = None
  MaxCount = 1
  MaxTime = 4
  Delay = 1
  MaxPerNode = 2
  Retention = 1
SPECIFICATION Spec
INVARIANTS TypeOK FiresOnlyWhenSustained SustainedFires RateNeedsGrowth
SYMMETRY Symmetry
CHECK_DEADLOCK FALSE
