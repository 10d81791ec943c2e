SPECIFICATION Spec
CONSTANTS
    c1 = c1
    c2 = c2
    w1 = w1
    w2 = w2
    x = x
    y = y
    None = None
    Cards = {c1}
    Kinds <- OnlyStepUp
    Standing = {}
    Changes = {x}
    Asked = {x}
    Workers = {w1}
    MaxMarks = 1
    MaxUpsets = 0
INVARIANT MarkStandsForFailure
CHECK_DEADLOCK FALSE
