SPECIFICATION FairSpec
CONSTANTS
    c1 = c1
    c2 = c2
    w1 = w1
    w2 = w2
    x = x
    y = y
    None = None
    Cards = {c1, c2}
    Kinds <- Mixed
    Standing = {"split"}
    Changes = {x, y}
    Asked = {x}
    Workers = {w1, w2}
    MaxMarks = 1
    MaxUpsets = 1
INVARIANTS TypeOK ActsAsDecided MarkIsTrue
PROPERTIES ImplementsAuthority RefusalIsRemembered EveryYesIsAnswered
CHECK_DEADLOCK FALSE
