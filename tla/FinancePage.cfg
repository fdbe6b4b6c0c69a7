SPECIFICATION MCSpec
CONSTANTS
    Categories = {food, travel}
    Transfers = {}
    Modulus = 1000
    Incomes = {low}
    Percents = {0, 100}
    Whole = 100
    Clients = {c1}
    NoRow = NoRow
    NoSettings = NoSettings
    Years = {2027}
    Months = {1}
    Amounts = {0, 2}
    Receipts = {0, 1}
    NoMonth = NoMonth
    Blank = Blank
    Nothing = Nothing
    Loads = {l1}
    MaxGestures = 1
PROPERTY ShownIsSaved
CHECK_DEADLOCK FALSE
