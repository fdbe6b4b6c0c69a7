SPECIFICATION MCSpec
CONSTANTS
    Emails = {e1, e2}
    Tokens = {t1, t2}
    Sessions = {s1, s2}
    Requests = {r1, r2}
    None = None
    TokenTTL = 1
    SessionTTL = 1
    MaxClock = 1
    Keys = {e1, e2}
    NoKey = NoKey
    Calls = {r1, r2}
    Limit = 2
    Window = 3
    Second = 2
    MaxWait = 2
    MaxTime = 7
SYMMETRY Symmetry
INVARIANTS
    TypeOK
    OneSessionPerCredential
    SessionsAreEarned
    NoServiceAfterRevocation
    OnlyAllowedAreServed
    LimiterTypeOK
    OnlyRecentBuckets
    AtMostThreeBuckets
PROPERTIES
    BucketsLast
    RetryAfterIsEnough
CHECK_DEADLOCK FALSE
