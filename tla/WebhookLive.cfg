SPECIFICATION FairSpec
CONSTANTS
  Subs = {s1, s2}
  Events = {e1}
  Owners = {o1}
  Consumers = {c1, c2}
  Sweepers = {w1}
  Replayers = {}
  None = None
  MaxAttempts = 2
  MaxClaims = 2
  MaxEdits = 0
  MaxFaults = 1
INVARIANTS FirstAttemptOnce
PROPERTIES RetriesSettle EventsHandled
CHECK_DEADLOCK FALSE
