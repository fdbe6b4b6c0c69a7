SPECIFICATION Spec
CONSTANTS
    Dates = {1, 2, 3, 4}
    Repeats = {"daily", "weekly"}
    Intervals = {1, 2}
    Clients = {c1}
    None = None
    Unset = Unset
    NoTask = NoTask
    Deleted = Deleted
    Projects = {p1}
    Times = {8, 9}
    Ranks = {0, 1}
    MaxClock = 1
    Following <- MCFollowing
INVARIANT CreatesAreAccepted
CHECK_DEADLOCK FALSE
