-------------------------- MODULE FinanceSettings --------------------------
(***************************************************************************)
(* The finance settings: the income in the one row of finance_settings and *)
(* the limits in a row of finance_expense_limit_settings per category.     *)
(* PUT /settings writes both tables in one transaction of several          *)
(* statements, GET /settings reads them in two statements without one.     *)
(*                                                                         *)
(* PostgreSQL runs at READ COMMITTED: a statement sees what was committed  *)
(* when it began and what its own transaction wrote, and waits for a       *)
(* transaction that wrote the row it wants to write.                       *)
(***************************************************************************)
EXTENDS FinanceAmounts

CONSTANTS
    Incomes,        \* salary and bonus, as one value
    Percents,       \* of a category, in basis points
    Whole,          \* 100 percent
    Clients,        \* connections, each with at most one request in flight
    NoRow, NoSettings

ASSUME PercentsAreNumbers == Percents \subseteq Nat /\ 0 \in Percents
ASSUME WholeIsANumber == Whole \in Nat \ {0}
ASSUME NoRowIsNoIncome == NoRow \notin Incomes

VARIABLES
    income,         \* the row of finance_settings
    limits,         \* the rows of finance_expense_limit_settings, by category
    at,             \* at[c]: the statement client c's request executes next
    held,           \* held[c]: what it writes, or has read so far
    cleared,        \* cleared[c]: the rows its transaction has deleted
    added           \* added[c]: those it has inserted

settingsVars == <<income, limits, at, held, cleared, added>>

-----------------------------------------------------------------------------
(* Values *)

\* Rows of no category of zero percent are ever written.
Limits == UNION {[S -> Percents \ {0}] : S \in SUBSET Categories}
NoLimits == [c \in {} |-> 0]
Settings == [income : Incomes \cup {NoRow}, limits : Limits]

ASSUME NoSettingsIsNone == NoSettings \notin Settings

\* NewFinanceSettings: a category of zero percent is as good as none.
Nonzero(percents) == [c \in {x \in Categories : percents[x] # 0} |-> percents[c]]
AddUp(l) == Total(l) \in {0, Whole}
Accepted == {s \in [income : Incomes, limits : Limits] : AddUp(s.limits)}

-----------------------------------------------------------------------------
(* PUT /settings *)

SettingsInit ==
    /\ income = NoRow
    /\ limits = NoLimits
    /\ at = [c \in Clients |-> "idle"]
    /\ held = [c \in Clients |-> NoSettings]
    /\ cleared = [c \in Clients |-> {}]
    /\ added = [c \in Clients |-> {}]

GoTo(c, statement) == at' = [at EXCEPT ![c] = statement]

\* Slip: the request leaves what its transaction has inserted behind.
LeaveRows(c) ==
    /\ GoTo(c, "idle")
    /\ held' = [held EXCEPT ![c] = NoSettings]
    /\ cleared' = [cleared EXCEPT ![c] = {}]
    /\ UNCHANGED added
\* The end of a request, of its transaction and of its locks.
Leave(c) ==
    /\ GoTo(c, "idle")
    /\ held' = [held EXCEPT ![c] = NoSettings]
    /\ cleared' = [cleared EXCEPT ![c] = {}]
    /\ added' = [added EXCEPT ![c] = {}]

\* The request is parsed and NewFinanceSettings accepts it; BEGIN.
BeginSave(c, in, percents) ==
    /\ at[c] = "idle"
    /\ AddUp(Nonzero(percents))
    /\ held' = [held EXCEPT ![c] = [income |-> in, limits |-> Nonzero(percents)]]
    /\ GoTo(c, "upsert")
    /\ UNCHANGED <<income, limits, cleared, added>>

\* The transaction of c has written the row of finance_settings, so that
\* another one that inserts or updates it waits for c.
HoldsRow(c) == at[c] \in {"clear", "insert"}

\* Slip: nothing makes the second of two transactions wait.
UpsertAtOnce(c) ==
    /\ at[c] = "upsert"
    /\ GoTo(c, "clear")
    /\ UNCHANGED <<income, limits, held, cleared, added>>
\* INSERT INTO finance_settings ... ON CONFLICT (id) DO UPDATE
Upsert(c) ==
    /\ at[c] = "upsert"
    /\ \A d \in Clients : ~HoldsRow(d)
    /\ GoTo(c, "clear")
    /\ UNCHANGED <<income, limits, held, cleared, added>>

\* Slip: only the rows that the save replaces are deleted.
ClearReplaced(c) ==
    /\ at[c] = "clear"
    /\ cleared' = [cleared EXCEPT ![c] = DOMAIN limits \cap DOMAIN held[c].limits]
    /\ GoTo(c, "insert")
    /\ UNCHANGED <<income, limits, held, added>>
\* DELETE FROM finance_expense_limit_settings
Clear(c) ==
    /\ at[c] = "clear"
    /\ \A d \in Clients \ {c} : cleared[d] \cap DOMAIN limits = {}
    /\ cleared' = [cleared EXCEPT ![c] = DOMAIN limits]
    /\ GoTo(c, "insert")
    /\ UNCHANGED <<income, limits, held, added>>

\* INSERT INTO finance_expense_limit_settings, once for each category, in any
\* order; a category that has a row is refused (Fail).
Insert(c, category) ==
    /\ at[c] = "insert"
    /\ category \in DOMAIN held[c].limits \ added[c]
    /\ category \notin DOMAIN limits \ cleared[c]
    /\ \A d \in Clients \ {c} : category \notin added[d]
    /\ added' = [added EXCEPT ![c] = @ \cup {category}]
    /\ UNCHANGED <<income, limits, at, held, cleared>>

Commit(c) ==
    /\ at[c] = "insert"
    /\ added[c] = DOMAIN held[c].limits
    /\ income' = held[c].income
    /\ limits' = [x \in (DOMAIN limits \ cleared[c]) \cup added[c] |->
                    IF x \in added[c] THEN held[c].limits[x] ELSE limits[x]]
    /\ Leave(c)

-----------------------------------------------------------------------------
(* GET /settings *)

\* The first SELECT finds the row or, not a failure, none.
ReadIncome(c) ==
    /\ at[c] = "idle"
    /\ held' = [held EXCEPT ![c] = [income |-> income, limits |-> NoLimits]]
    /\ GoTo(c, "limits")
    /\ UNCHANGED <<income, limits, cleared, added>>

\* The second SELECT, and NewFinanceSettings on what was read.
ReadLimits(c) ==
    /\ at[c] = "limits"
    /\ held' = [held EXCEPT ![c].limits = limits]
    /\ GoTo(c, IF AddUp(limits) THEN "answer" ELSE "refused")
    /\ UNCHANGED <<income, limits, cleared, added>>

Answer(c) ==
    /\ at[c] \in {"answer", "refused"}
    /\ Leave(c)
    /\ UNCHANGED <<income, limits>>

\* A statement fails, the client went away or the database did: whatever the
\* transaction wrote is rolled back.
Fail(c) ==
    /\ at[c] # "idle"
    /\ Leave(c)
    /\ UNCHANGED <<income, limits>>

SettingsStep(c) ==
    \/ \E in \in Incomes, percents \in [Categories -> Percents] : BeginSave(c, in, percents)
    \/ Upsert(c)
    \/ Clear(c)
    \/ \E category \in Categories : Insert(c, category)
    \/ Commit(c)
    \/ ReadIncome(c)
    \/ ReadLimits(c)
    \/ Answer(c)
    \/ Fail(c)

SettingsNext == \E c \in Clients : SettingsStep(c)
SettingsSpec == SettingsInit /\ [][SettingsNext]_settingsVars

-----------------------------------------------------------------------------
(* Properties *)

SettingsTypeOK ==
    /\ income \in Incomes \cup {NoRow}
    /\ limits \in Limits
    /\ at \in [Clients -> {"idle", "upsert", "clear", "insert", "limits", "answer", "refused"}]
    /\ held \in [Clients -> Settings \cup {NoSettings}]
    /\ \A c \in Clients : at[c] = "idle" <=> held[c] = NoSettings
    /\ cleared \in [Clients -> SUBSET Categories]
    /\ added \in [Clients -> SUBSET Categories]
    /\ \A c \in Clients : at[c] # "insert" => cleared[c] = {} /\ added[c] = {}

\* However saves and reads overlap, the limits that GET finds add up to 100
\* percent or to none, so that it is never refused by NewFinanceSettings,
\* which it passes the rows to (repository.go:201 of finance, settings.go:36).
ReadsAreAccepted == \A c \in Clients : at[c] # "refused"

Saving(c) == at[c] \in {"upsert", "clear", "insert"}
Register == INSTANCE SettingsRegister WITH
    Values <- Accepted,
    Initial <- [income |-> NoRow, limits |-> NoLimits],
    NoValue <- NoSettings,
    value <- [income |-> income, limits |-> limits],
    saving <- [c \in Clients |-> IF Saving(c) THEN held[c] ELSE NoSettings]

\* The two tables are written as one: after any interleaving of saves, also of
\* failing ones, the income and the limits are those of one and the same save
\* (repository.go:208-254 of finance).
ImplementsRegister == Register!Spec
=============================================================================
