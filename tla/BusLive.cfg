SPECIFICATION FairSpec
CONSTANTS
  e1 = e1
  e2 = e2
  deal = deal
  Events <- OneEvent
  EntityOf <- OneDeal
  Imported = {}
  Relays = {r1, r2}
  Consumers = {c1, c2}
  Limit = 1
  Count = 1
  Modes = {FALSE}
  MaxLen = 4
  MaxFaults = 2
  MaxSlow = 1
  MaxResets = 1
INVARIANTS TypeOK ResetLeavesNothing
PROPERTIES EventsArrive
CHECK_DEADLOCK FALSE
