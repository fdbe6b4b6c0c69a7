SPECIFICATION Spec
CONSTANTS
    Projects = {p1}
    Tasks = {t1, t2}
    Clients = {c1, c2}
    NoRow = NoRow
    Unset = Unset
PROPERTY PatchLeavesTheRest
CHECK_DEADLOCK FALSE
