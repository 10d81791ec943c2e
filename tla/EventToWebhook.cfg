SPECIFICATION CSpec
CONSTANTS
  e1 = e1
  deal = deal
  Events <- OneEvent
  EntityOf <- OneDeal
  Imported = {}
  Relays = {r1}
  Consumers = {c1, c2}
  Limit = 1
  Count = 1
  Modes = {FALSE}
  MaxLen = 2
  MaxFaults = 1
  MaxSlow = 1
  MaxResets = 0
  Subs = {s1}
  Owners = {o1}
  Sweepers = {w1}
  Replayers = {}
  None = None
  MaxAttempts = 2
  MaxClaims = 1
  MaxEdits = 1
  MaxHookFaults = 1
INVARIANTS OwedReachesRow
PROPERTIES ImplementsWebhooks
SYMMETRY Symmetry
CHECK_DEADLOCK FALSE
