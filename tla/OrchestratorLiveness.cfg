SPECIFICATION FairSpec
CONSTANTS
    Workflows = {w1}
    Features = {f1}
    Requests = {r1, r2}
    NoValue = NoValue
    MaxDrops = 1
PROPERTIES
    EveryRequestIsAnswered
    AnalysisIsResolved
CHECK_DEADLOCK FALSE
