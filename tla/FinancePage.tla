----------------------------- MODULE FinancePage -----------------------------
(***************************************************************************)
(* The expenses tab of the finance page, on top of FinanceYear: the page   *)
(* loads a year into a grid of inputs, the user types into the grid, and   *)
(* Save sends the months one after the other and loads the year again.     *)
(* The requests of a load answer when they like; nothing on the page waits *)
(* for them except the Save that asked.                                    *)
(***************************************************************************)
EXTENDS FinanceYear

CONSTANTS
    Blank,          \* an input without text
    Nothing,        \* undefined: no answer, no load, no save
    Loads,          \* bound: refreshes in flight
    MaxGestures     \* bound: how often the user fills an input or turns to a year

ASSUME BlankIsNoAmount == Blank \notin Amounts
ASSUME MonthsAreCounted == Cardinality(Months) \in Nat /\ Months = 1 .. Cardinality(Months)
ASSUME BoundIsNatural == MaxGestures \in Nat

VARIABLES
    year,           \* the year in the header
    loaded,         \* the expenses shown last, by month
    grid,           \* what the inputs hold
    loads,          \* the refreshes in flight
    saving,         \* the Save in progress
    saved,          \* the page says that the expenses are saved
    gestures        \* of the user so far

pageVars == <<expenses, year, loaded, grid, loads, saving, saved, gestures>>

Cells == Amounts \cup {Blank}
BlankGrid == [m \in Months |-> [c \in Categories |-> Blank]]
Refresh(y, bySave) == [year |-> y, answer |-> Nothing, bySave |-> bySave]

\* refresh: GET /expenses for the year of the closure.
StartRefresh(l, y, bySave) ==
    loads[l] = Nothing /\ loads' = [loads EXCEPT ![l] = Refresh(y, bySave)]

PageInit ==
    /\ ExpensesInit
    /\ year \in Years
    /\ loaded = Nothing
    /\ grid = BlankGrid
    /\ loads = [l \in Loads |-> IF l = CHOOSE x \in Loads : TRUE
                                THEN Refresh(year, FALSE) ELSE Nothing]
    /\ saving = Nothing
    /\ saved = FALSE
    /\ gestures = 0

-----------------------------------------------------------------------------
(* Loading *)

\* An amount of zero is shown as an empty input.
BuildExpenseGrid(months) ==
    [m \in Months |-> [c \in Categories |-> IF months[m][c] = 0 THEN Blank ELSE months[m][c]]]

\* The effect of a year that has changed.
ChangeYear(y) ==
    /\ gestures < MaxGestures
    /\ gestures' = gestures + 1
    /\ y # year
    /\ year' = y
    /\ \E l \in Loads : StartRefresh(l, y, FALSE)
    /\ UNCHANGED <<expenses, loaded, grid, saving, saved>>

\* The server runs the SELECT.
ReadYear(l) ==
    /\ loads[l] # Nothing /\ loads[l].answer = Nothing
    /\ loads' = [loads EXCEPT ![l].answer = ListedExpenses(loads[l].year)]
    /\ UNCHANGED <<expenses, year, loaded, grid, saving, saved, gestures>>

\* The end of a refresh; the Save that waited for it is done.
EndRefresh(l) ==
    /\ loads' = [loads EXCEPT ![l] = Nothing]
    /\ IF loads[l].bySave THEN saving' = Nothing /\ saved' = TRUE
                          ELSE UNCHANGED <<saving, saved>>
    /\ UNCHANGED <<expenses, year, gestures>>

Show(l) ==
    /\ loads[l] # Nothing /\ loads[l].answer # Nothing
    /\ loaded' = loads[l].answer
    /\ grid' = BuildExpenseGrid(loads[l].answer)
    /\ EndRefresh(l)

\* refresh reports an error itself, so that Save goes on as after an answer.
RefreshFails(l) ==
    /\ loads[l] # Nothing
    /\ EndRefresh(l)
    /\ UNCHANGED <<loaded, grid>>

-----------------------------------------------------------------------------
(* Typing and saving *)

HandleExpenseChange(month, category, text) ==
    /\ gestures < MaxGestures
    /\ gestures' = gestures + 1
    /\ grid[month][category] # text
    /\ grid' = [grid EXCEPT ![month][category] = text]
    /\ UNCHANGED <<expenses, year, loaded, loads, saving, saved>>

\* Save works on the grid, the answer and the year of the render it was
\* pressed in.
PressSave ==
    /\ saving = Nothing
    /\ saving' = [year |-> year, grid |-> grid, original |-> loaded, month |-> 1]
    /\ saved' = FALSE
    /\ UNCHANGED <<expenses, year, loaded, grid, loads, gestures>>

Original(save, month) ==
    IF save.original = Nothing THEN EmptyExpenseMonth ELSE save.original[month]

\* The cells whose text is not the amount of the answer; an empty input never
\* is, not even of an amount of zero.
Changed(save, month) ==
    {c \in Categories : save.grid[month][c] # Original(save, month)[c]}

Typed(cell) == IF cell = Blank THEN 0 ELSE cell
Payload(save, month) == [c \in Changed(save, month) |-> Typed(save.grid[month][c])]

InLoop == saving # Nothing /\ saving.month \in Months

PutMonth ==
    /\ InLoop
    /\ IF Changed(saving, saving.month) # {}
         THEN SaveExpense(saving.year, saving.month, Payload(saving, saving.month))
         ELSE UNCHANGED expenses
    /\ saving' = [saving EXCEPT !.month = @ + 1]
    /\ UNCHANGED <<year, loaded, grid, loads, saved, gestures>>

\* The request or its answer is lost: the months before are written, the
\* later ones are not.
PutFails ==
    /\ InLoop
    /\ Changed(saving, saving.month) # {}
    /\ \/ UNCHANGED expenses
       \/ SaveExpense(saving.year, saving.month, Payload(saving, saving.month))
    /\ saving' = Nothing
    /\ UNCHANGED <<year, loaded, grid, loads, saved, gestures>>

RefreshAfterSave ==
    /\ saving # Nothing
    /\ saving.month = Cardinality(Months) + 1
    /\ \E l \in Loads : StartRefresh(l, saving.year, TRUE)
    /\ saving' = [saving EXCEPT !.month = @ + 1]
    /\ UNCHANGED <<expenses, year, loaded, grid, saved, gestures>>

PageNext ==
    \/ \E y \in Years : ChangeYear(y)
    \/ \E l \in Loads : ReadYear(l) \/ Show(l) \/ RefreshFails(l)
    \/ \E m \in Months, c \in Categories, text \in Cells : HandleExpenseChange(m, c, text)
    \/ PressSave
    \/ PutMonth
    \/ PutFails
    \/ RefreshAfterSave

-----------------------------------------------------------------------------
(* Properties *)

ExpenseGrid == [Months -> [Categories -> Cells]]
ExpenseYear == [Months -> ExpenseMonth]
Load == [year : Years, answer : ExpenseYear \cup {Nothing}, bySave : BOOLEAN]
Save == [year : Years, grid : ExpenseGrid, original : ExpenseYear \cup {Nothing},
         month : 1 .. Cardinality(Months) + 2]
ASSUME NothingIsNone == Nothing \notin Save

PageTypeOK ==
    /\ year \in Years
    /\ loaded \in ExpenseYear \cup {Nothing}
    /\ grid \in ExpenseGrid
    /\ loads \in [Loads -> Load \cup {Nothing}]
    /\ saving \in Save \cup {Nothing}
    /\ saved \in BOOLEAN
    /\ gestures \in 0 .. MaxGestures

SaysSaved == saved' /\ saving # Nothing /\ saving' = Nothing

\* What a Save sends it also stores.  When the page says that the expenses are
\* saved, whatever failed, answered late, was typed or turned to in the
\* meantime, the server lists each cell that differed from the amounts shown
\* when Save was pressed, as it stood in that render and in the year its header
\* named, in each month whose total an int64 can hold (FinancesPage.tsx:131-160,
\* service.go:121-140).  Whether the cell had been typed for that year, and what
\* a load had taken from the grid before, it does not say: nothing on the page
\* keeps the user from typing and saving while a load is in flight.
SentIsListed ==
    [][SaysSaved =>
         \A m \in Months :
            Fits(Payload(saving, m)) =>
                \A c \in Changed(saving, m) :
                    ListedExpenses(saving.year)[m][c] = Typed(saving.grid[m][c])]_pageVars

\* "Расходы сохранены" (FinancesPage.tsx:154): the server then lists what the
\* page showed when Save was pressed.
ShownIsSaved ==
    [][SaysSaved =>
         \A m \in Months, c \in Categories :
            ListedExpenses(saving.year)[m][c] = Typed(saving.grid[m][c])]_pageVars
=============================================================================
