SPECIFICATION Spec
CONSTANTS
    Workflows = {w1, w2}
    Features = {f1, f2}
    Requests = {r1, r2, r3}
    NoValue = NoValue
    MaxDrops = 1
SYMMETRY RowSymmetry
INVARIANTS
    TypeOK
    StatusMatchesSteps
    StatusHasEvidence
    IssueOnlyAfterBothApprovals
    
PROPERTY ImplementsGates
CHECK_DEADLOCK FALSE
