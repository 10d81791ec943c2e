SPECIFICATION BookedSpec
CONSTANTS
    i1 = i1
    s1 = s1
    Invites = {i1, i2}
    Slots = {s1, s2}
    MaxStrays = 1
    None = None
    Gone = Gone
    MaxAttempts = 2
    MaxChanges = 2
    MaxFaults = 1
    MaxOutages = 1
INVARIANTS TypeOK WithdrawnMeansGone HostNotDoubleBooked StatusIsTrue OneEpisodePerOutage
PROPERTIES EveryChangeSettles QueueResumes
CHECK_DEADLOCK FALSE
