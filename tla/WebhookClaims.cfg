SPECIFICATION Spec
CONSTANTS
  Subs = {s1}
  Events = {e1}
  Owners = {o1, o2}
  Consumers = {c1}
  Sweepers = {w1, w2}
  Replayers = {r1}
  None = None
  MaxAttempts = 2
  MaxClaims = 3
  MaxEdits = 1
  MaxFaults = 1
INVARIANTS TypeOK OneSenderPerClaim BudgetHolds
PROPERTIES ImplementsLifecycle
SYMMETRY Symmetry
CHECK_DEADLOCK FALSE
