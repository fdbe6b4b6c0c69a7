SPECIFICATION LimiterSpec
CONSTANTS
    Keys = {k1}
    NoKey = NoKey
    Calls = {c1}
    Limit = 2
    Window = 3
    Second = 2
    MaxWait = 0
    MaxTime = 6
INVARIANTS
    AtMostLimit
CHECK_DEADLOCK FALSE
