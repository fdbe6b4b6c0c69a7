SPECIFICATION MCSpec
CONSTANTS
    Categories = {food, travel, stocks}
    Transfers = {stocks}
    Modulus = 6
    Incomes = {low, high}
    Percents = {0, 1, 2}
    Whole = 2
    Clients = {c1, c2}
    NoRow = NoRow
    NoSettings = NoSettings
    Years = {2027, 2028}
    Months = {1, 2}
    Amounts = {0, 2}
    Receipts = {0, 1}
    NoMonth = NoMonth
    Blank = Blank
    Nothing = Nothing
    Loads = {l1, l2}
    MaxGestures = 3
SYMMETRY Symmetry
INVARIANTS
    TypeOK
    ReadsAreAccepted
    TotalsAgree
PROPERTIES
    ImplementsRegister
    SentIsListed
CHECK_DEADLOCK FALSE
