\* One subject under one rule that has every condition at once, the silence
\* learned as well as configured, so that conditions begin and end in every
\* order.
SPECIFICATION Spec
CONSTANTS
    NumBuckets = 2
    WindowMs = 2
    Expr = TRUE
    StaleAfter = 3
    StaleAuto = TRUE
    Off = Off
    MinCount = 2
    MaxCount = 2
    Above = 1
    UnchangedFor = 2
    EvalEvery = 2
    StaleWindow = 2
    StaleMinGaps = 1
    StaleFactor = 2
    Values = {2}
    Epoch = 4
    MaxTime = 10
    MaxMessages = 3
INVARIANTS
    AlertIsOfTheConditions
PROPERTIES
    WindowsAreReported
    StuckFollowsTheValue
    ExpressionFollowsTheTraffic
CHECK_DEADLOCK FALSE
