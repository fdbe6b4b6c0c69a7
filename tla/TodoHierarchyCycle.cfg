SPECIFICATION Spec
CONSTANTS
    Projects = {p1, p2}
    Tasks = {}
    Clients = {c1, c2}
    NoRow = NoRow
    Unset = Unset
SYMMETRY IdSymmetry
INVARIANT Acyclic
CHECK_DEADLOCK FALSE
