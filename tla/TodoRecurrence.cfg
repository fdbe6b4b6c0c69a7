SPECIFICATION WalkSpec
CONSTANTS
    Years <- MCYears
    Dates <- MCDates
    Repeats = {"daily", "weekdays", "weekends", "weekly", "monthly", "yearly"}
    Intervals = {1, 2, 13}
    Clients = {c1}
    None = None
    Unset = Unset
    NoTask = NoTask
    Deleted = Deleted
    MaxClock = 0
    Following <- MCFollowing
PROPERTIES
    CountsEveryDay
    KeepsOrSpillsTheDay
    RepetitionEnds
CHECK_DEADLOCK FALSE
