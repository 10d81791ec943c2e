SPECIFICATION Spec
CONSTANTS
  e1 = e1
  e2 = e2
  deal = deal
  Events <- TwoEvents
  EntityOf <- SameDeal
  Imported <- Second
  Relays = {r1}
  Consumers = {c1, c2}
  Limit = 2
  Count = 2
  Modes = {TRUE, FALSE}
  MaxLen = 2
  MaxFaults = 2
  MaxSlow = 1
  MaxResets = 0
INVARIANTS Accounted EffectRunsExplained CommitOrder
SYMMETRY Symmetry
CHECK_DEADLOCK FALSE
