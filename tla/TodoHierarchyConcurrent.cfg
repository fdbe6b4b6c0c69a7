SPECIFICATION FairSpec
CONSTANTS
    Projects = {p1}
    Tasks = {t1, t2}
    Clients = {c1, c2}
    NoRow = NoRow
    Unset = Unset
INVARIANTS
    TypeOK
    ReferencesExist
PROPERTIES
    CyclesNeedStaleReads
    EveryRequestIsAnswered
CHECK_DEADLOCK FALSE
