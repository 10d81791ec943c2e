SPECIFICATION FairSpec
CONSTANTS
    w1 = w1
    c1 = c1
    o1 = o1
    NoOne = NoOne
    StepCount = 2
    Workers = {w1}
    Shells = {c1}
    Operators = {o1}
    ReleaseOf <- Rolling
    VersionOf <- Versions
    RuleOf <- Rules
    Manual = {1}
    NeedsSchema = {2}
    Rows <- LongReview
    Limit <- Twos
    MinLimit <- Ones
    ReviewSizes = {1}
    FailureCap = 2
    MaxFaults = 1
    MaxLooks = 2
    MaxTurns = 1
INVARIANTS TypeOK FailedIsEarned WithinReview
PROPERTIES HeldStays InOrder NewerReleaseStands CorrectionsSettle
CHECK_DEADLOCK FALSE
