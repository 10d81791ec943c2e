SPECIFICATION Spec
CONSTANTS
    MaxAttempts = 3
    Shapes = {"controller"}
    Honours = FALSE
    Faults = {}
    Scrubs = FALSE
INVARIANTS RelayAtMostOnce
CHECK_DEADLOCK FALSE
