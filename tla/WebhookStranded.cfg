SPECIFICATION Spec
CONSTANTS
  Subs = {s1}
  Events = {e1}
  Owners = {o1}
  Consumers = {c1}
  Sweepers = {}
  Replayers = {}
  None = None
  MaxAttempts = 2
  MaxClaims = 0
  MaxEdits = 0
  MaxFaults = 1
INVARIANT StrandedIsReplayable
CHECK_DEADLOCK FALSE
