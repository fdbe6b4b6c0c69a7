--------------------------- MODULE FinanceAmounts ---------------------------
(***************************************************************************)
(* Sums of kopecks and of basis points in an int64, which wraps around     *)
(* without an error: internal/finance/domain/money.go.                     *)
(***************************************************************************)
EXTENDS Integers, FiniteSets, Functions

CONSTANTS
    Categories,     \* of expenses
    Transfers,      \* the categories classified as a transfer
    Modulus         \* 2^64 in the code

ASSUME TransfersAreCategories == Transfers \subseteq Categories
ASSUME CategoriesAreListed == IsFiniteSet(Categories)
ASSUME WordIsEven == Modulus \in Nat \ {0} /\ Modulus % 2 = 0

Wrap(n) == ((n + Modulus \div 2) % Modulus) - Modulus \div 2

\* What Money.Add makes of the values of a map, in whatever order.
Total(amounts) == Wrap(SumFunction(amounts))
TotalOf(amounts, categories) == Wrap(SumFunctionOnSet(amounts, categories))

\* The sum is that of the mathematician.
Fits(amounts) == SumFunction(amounts) < Modulus \div 2
=============================================================================
