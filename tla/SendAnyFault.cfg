SPECIFICATION FairSpec
CONSTANTS
    MaxAttempts = 10
    Shapes = {"mail", "channel", "controller"}
    Honours = TRUE
    Faults = {"read", "write", "crash"}
    Scrubs = TRUE
INVARIANTS TypeOK AtMostOnce CopyLeavesTrace NeverStranded
PROPERTIES EverySendSettles
CHECK_DEADLOCK FALSE
