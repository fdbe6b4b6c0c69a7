----------------------------- MODULE FinanceYear -----------------------------
(***************************************************************************)
(* The months of a year: what was spent in each category and what came in, *)
(* written a month at a time and listed a year at a time.  A PUT replaces  *)
(* the row of its month in one statement, or deletes it when nothing is    *)
(* left in it.                                                             *)
(***************************************************************************)
EXTENDS FinanceAmounts

CONSTANTS
    Years, Months,
    Amounts,        \* of expenses, in kopecks
    Receipts,       \* of income, in kopecks, or in basis points for a bonus
    NoMonth         \* in the place of a row

ASSUME AmountsAreNumbers ==
    \A S \in {Amounts, Receipts} : 0 \in S /\ S \subseteq 0 .. (Modulus \div 2) - 1

VARIABLES
    expenses,       \* expenses[<<y, m>>]: the row of finance_monthly_expense_actuals
    earnings        \* earnings[<<y, m>>]: that of finance_monthly_income_actuals

-----------------------------------------------------------------------------
(* Expenses *)

ExpenseMonth == [Categories -> Amounts]
ASSUME NoMonthIsNone == NoMonth \notin ExpenseMonth

EmptyExpenseMonth == [c \in Categories |-> 0]

\* A category that the body leaves out is worth nothing.
NewExpenseMonth(amounts) ==
    [c \in Categories |-> IF c \in DOMAIN amounts THEN amounts[c] ELSE 0]

\* Slip: a month of transfers alone is taken for an empty one.
SpendsNothing(month) == TotalOf(month, Categories \ Transfers) = 0
IsZero(month) == Total(month) = 0

UpsertExpenseActual(year, month, actual) ==
    expenses' = [expenses EXCEPT ![<<year, month>>] = actual]
DeleteExpenseActual(year, month) ==
    expenses' = [expenses EXCEPT ![<<year, month>>] = NoMonth]

\* PUT /expenses/{year}/{month}
SaveExpense(year, month, amounts) ==
    LET actual == NewExpenseMonth(amounts)
    IN  IF IsZero(actual) THEN DeleteExpenseActual(year, month)
                          ELSE UpsertExpenseActual(year, month, actual)

\* GET /expenses: the rows there are, and empty months in between.
ListExpenseActuals(year) == {m \in Months : expenses[<<year, m>>] # NoMonth}
ListedExpenses(year) ==
    [m \in Months |-> IF m \in ListExpenseActuals(year) THEN expenses[<<year, m>>]
                                                        ELSE EmptyExpenseMonth]

SpendingTotal(month) == TotalOf(month, Categories \ Transfers)

AnnualTotal(year) == Total([m \in Months |-> Total(ListedExpenses(year)[m])])
AnnualSpendingTotal(year) == Total([m \in Months |-> SpendingTotal(ListedExpenses(year)[m])])
AnnualTotalsByCategory(year) ==
    [c \in Categories |-> Total([m \in Months |-> ListedExpenses(year)[m][c]])]

-----------------------------------------------------------------------------
(* Income *)

IncomeMonth == [salary : Receipts, bonus : Receipts, total : Receipts]
EmptyIncomeMonth == [salary |-> 0, bonus |-> 0, total |-> 0]

UpsertIncomeActual(year, month, actual) ==
    earnings' = [earnings EXCEPT ![<<year, month>>] = actual]
DeleteIncomeActual(year, month) ==
    earnings' = [earnings EXCEPT ![<<year, month>>] = NoMonth]

\* PUT /income/{year}/{month}; a month is empty when all three amounts are.
SaveIncome(year, month, actual) ==
    IF actual = EmptyIncomeMonth THEN DeleteIncomeActual(year, month)
                                 ELSE UpsertIncomeActual(year, month, actual)

\* GET /income
ListIncomeActuals(year) == {m \in Months : earnings[<<year, m>>] # NoMonth}
ListedIncome(year) ==
    [m \in Months |-> IF m \in ListIncomeActuals(year) THEN earnings[<<year, m>>]
                                                       ELSE EmptyIncomeMonth]
FilledMonths(year) == {m \in Months : ListedIncome(year)[m] # EmptyIncomeMonth}
AnnualIncome(year) == Total([m \in Months |-> ListedIncome(year)[m].total])

\* Slip: half a kopeck is dropped.
AverageMoneyDown(total, count) == IF count = 0 THEN 0 ELSE total \div count
\* Go divides towards zero, and only a sum that has wrapped is negative.
AverageMoney(total, count) ==
    LET quotient == IF total >= 0 THEN total \div count ELSE -((-total) \div count)
        remainder == total - quotient * count
    IN  IF count = 0 THEN 0
        ELSE IF 2 * remainder >= count THEN quotient + 1 ELSE quotient
AverageMonthlyTotal(year) == AverageMoney(AnnualIncome(year), Cardinality(FilledMonths(year)))

-----------------------------------------------------------------------------
(* The server *)

ExpensesInit == expenses = [k \in Years \X Months |-> NoMonth]
IncomeInit == earnings = [k \in Years \X Months |-> NoMonth]

IncomeNext == \E y \in Years, m \in Months, actual \in IncomeMonth : SaveIncome(y, m, actual)

-----------------------------------------------------------------------------
(* Properties *)

YearTypeOK ==
    /\ expenses \in [Years \X Months -> ExpenseMonth \cup {NoMonth}]
    /\ earnings \in [Years \X Months -> IncomeMonth \cup {NoMonth}]

\* The totals of a year agree: added up month by month or category by
\* category the expenses are the same, also when the int64 wraps, what is
\* spent and what is transferred is all there is, and the average income times
\* the months with income is what was earned, to half a kopeck a month, never
\* half a kopeck less (service.go:77-119, 140-181 of finance, money.go:79-90).
TotalsAgree ==
    \A y \in Years :
        LET byCategory == AnnualTotalsByCategory(y)
            count == Cardinality(FilledMonths(y))
            earned == [m \in FilledMonths(y) |-> earnings[<<y, m>>].total]
            excess == AverageMonthlyTotal(y) * count - SumFunction(earned)
        IN  /\ AnnualTotal(y) = Total(byCategory)
            /\ AnnualTotal(y) = Wrap(AnnualSpendingTotal(y) + TotalOf(byCategory, Transfers))
            /\ (Fits(earned) /\ count > 0) => -count < 2 * excess /\ 2 * excess <= count
=============================================================================
