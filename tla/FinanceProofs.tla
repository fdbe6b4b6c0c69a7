---------------------------- MODULE FinanceProofs ----------------------------
(***************************************************************************)
(* Theorems about Finance, for any categories, percents, incomes, amounts, *)
(* word and number of connections.                                         *)
(***************************************************************************)
EXTENDS Finance, Sums, TLAPS

-----------------------------------------------------------------------------
(* No limits add up *)

LEMMA WrapOfZero == Wrap(0) = 0
<1>1. PICK h \in Nat : Modulus = 2 * h /\ h > 0
  BY WordIsEven
<1>2. Modulus \div 2 = h /\ h % Modulus = h
  BY <1>1
<1>. QED
  BY <1>1, <1>2 DEF Wrap

LEMMA SumOfNothing == ASSUME NEW f, DOMAIN f = {} PROVE SumFunction(f) = 0
<1>. DEFINE iter[s \in SUBSET DOMAIN f] ==
       IF s = {} THEN 0 ELSE LET x == CHOOSE y \in s : TRUE IN f[x] + iter[s \ {x}]
<1>1. SumFunction(f) = iter[DOMAIN f]
  BY DEF SumFunction, SumFunctionOnSet, FoldFunctionOnSet, MapThenFoldSet
<1>. QED
  BY <1>1

LEMMA NoLimitsAddUp == NoLimits \in Limits /\ AddUp(NoLimits)
<1>1. DOMAIN NoLimits = {} /\ NoLimits \in [{} -> Percents \ {0}]
  BY DEF NoLimits
<1>2. Total(NoLimits) = 0
  BY <1>1, SumOfNothing, WrapOfZero DEF Total
<1>. QED
  BY <1>1, <1>2 DEF Limits, AddUp

LEMMA LimitsAreFunctions ==
    ASSUME NEW l \in Limits
    PROVE  l \in [DOMAIN l -> Percents \ {0}] /\ DOMAIN l \in SUBSET Categories
BY DEF Limits

\* What NewFinanceSettings makes of a request.
LEMMA NonzeroIsLimits ==
    ASSUME NEW percents \in [Categories -> Percents]
    PROVE  Nonzero(percents) \in Limits
<1>. DEFINE S == {x \in Categories : percents[x] # 0}
<1>1. Nonzero(percents) \in [S -> Percents \ {0}] /\ S \in SUBSET Categories
  BY DEF Nonzero
<1>. QED
  BY <1>1 DEF Limits

-----------------------------------------------------------------------------
(* The settings: the inductive invariant *)

\* The row of finance_settings is the lock of a save: between its first
\* statement and its COMMIT no other save has written anything.
OneWriter == \A c, d \in Clients : HoldsRow(c) /\ HoldsRow(d) => c = d

\* A save was accepted before it began, has deleted every row there is once it
\* inserts, and inserts only its own.
SavesAreSound ==
    \A c \in Clients :
        /\ Saving(c) => held[c] \in Accepted
        /\ at[c] = "insert" =>
             cleared[c] = DOMAIN limits /\ added[c] \subseteq DOMAIN held[c].limits

SettingsInv ==
    /\ SettingsTypeOK
    /\ OneWriter
    /\ SavesAreSound
    /\ AddUp(limits)
    /\ ReadsAreAccepted

LEMMA SettingsInvInit == SettingsInit => SettingsInv
<1>. SUFFICES ASSUME SettingsInit PROVE SettingsInv
  OBVIOUS
<1>1. SettingsTypeOK
  BY NoLimitsAddUp, NoSettingsIsNone DEF SettingsInit, SettingsTypeOK, Settings
<1>2. OneWriter /\ SavesAreSound /\ ReadsAreAccepted
  BY DEF SettingsInit, OneWriter, HoldsRow, SavesAreSound, Saving, ReadsAreAccepted
<1>. QED
  BY <1>1, <1>2, NoLimitsAddUp DEF SettingsInit, SettingsInv

\* However a request ends, as long as the limits it leaves behind are sound.
LEMMA LeaveKeepsInv ==
    ASSUME SettingsInv, NEW c \in Clients, Leave(c),
           income' \in Incomes \cup {NoRow}, limits' \in Limits, AddUp(limits'),
           HoldsRow(c) \/ UNCHANGED limits
    PROVE  SettingsInv'
<1>1. /\ at' = [at EXCEPT ![c] = "idle"]
      /\ held' = [held EXCEPT ![c] = NoSettings]
      /\ cleared' = [cleared EXCEPT ![c] = {}]
      /\ added' = [added EXCEPT ![c] = {}]
  BY DEF Leave, GoTo
<1>2. SettingsTypeOK'
  BY <1>1 DEF SettingsInv, SettingsTypeOK
<1>3. OneWriter' /\ ReadsAreAccepted'
  BY <1>1 DEF SettingsInv, SettingsTypeOK, OneWriter, HoldsRow, ReadsAreAccepted
<1>4. SavesAreSound'
  <2>. SUFFICES ASSUME NEW d \in Clients
       PROVE  /\ Saving(d)' => held'[d] \in Accepted
              /\ at'[d] = "insert" =>
                   cleared'[d] = DOMAIN limits' /\ added'[d] \subseteq DOMAIN held'[d].limits
    BY DEF SavesAreSound, Saving, Accepted
  <2>1. CASE d = c
    BY <2>1, <1>1 DEF SettingsInv, SettingsTypeOK, Saving
  <2>2. CASE d # c
    BY <2>2, <1>1 DEF SettingsInv, SettingsTypeOK, SavesAreSound, OneWriter, HoldsRow, Saving
  <2>. QED
    BY <2>1, <2>2
<1>5. AddUp(limits)'
  BY DEF AddUp
<1>. QED
  BY <1>2, <1>3, <1>4, <1>5 DEF SettingsInv
\* Types and locks after a step of c that is not the last of its request and
\* writes to no table.
LEMMA StepInRequest ==
    ASSUME SettingsInv, NEW c \in Clients,
           UNCHANGED <<income, limits>>,
           SettingsTypeOK', OneWriter', at'[c] # "refused",
           \A d \in Clients \ {c} : at'[d] = at[d],
           /\ Saving(c)' => held'[c] \in Accepted
           /\ at'[c] = "insert" =>
                cleared'[c] = DOMAIN limits /\ added'[c] \subseteq DOMAIN held'[c].limits,
           \A d \in Clients \ {c} :
             held'[d] = held[d] /\ cleared'[d] = cleared[d] /\ added'[d] = added[d]
    PROVE  SettingsInv'
<1>1. SavesAreSound'
  <2>. SUFFICES ASSUME NEW d \in Clients
       PROVE  /\ Saving(d)' => held'[d] \in Accepted
              /\ at'[d] = "insert" =>
                   cleared'[d] = DOMAIN limits /\ added'[d] \subseteq DOMAIN held'[d].limits
    BY DEF SavesAreSound, Saving, Accepted
  <2>1. CASE d = c
    BY <2>1
  <2>2. CASE d # c
    BY <2>2 DEF SettingsInv, SavesAreSound, Saving
  <2>. QED
    BY <2>1, <2>2
<1>2. ReadsAreAccepted'
  BY DEF SettingsInv, ReadsAreAccepted
<1>3. AddUp(limits)'
  BY DEF SettingsInv, AddUp
<1>. QED
  BY <1>1, <1>2, <1>3 DEF SettingsInv

LEMMA BeginSaveKeepsInv ==
    ASSUME SettingsInv, NEW c \in Clients, NEW in \in Incomes,
           NEW percents \in [Categories -> Percents], BeginSave(c, in, percents)
    PROVE  SettingsInv'
<1>. DEFINE s == [income |-> in, limits |-> Nonzero(percents)]
<1>1. /\ at[c] = "idle" /\ AddUp(Nonzero(percents))
      /\ held' = [held EXCEPT ![c] = s]
      /\ at' = [at EXCEPT ![c] = "upsert"]
      /\ UNCHANGED <<income, limits, cleared, added>>
  BY DEF BeginSave, GoTo
<1>2. s \in Accepted /\ s \in Settings
  BY <1>1, NonzeroIsLimits DEF Accepted, Settings
<1>. HIDE DEF s
<1>3. SettingsTypeOK'
  BY <1>1, <1>2, NoSettingsIsNone DEF SettingsInv, SettingsTypeOK
<1>4. OneWriter'
  BY <1>1 DEF SettingsInv, SettingsTypeOK, OneWriter, HoldsRow
<1>5. at'[c] = "upsert" /\ held'[c] = s
  BY <1>1 DEF SettingsInv, SettingsTypeOK
<1>6. \A d \in Clients \ {c} :
        at'[d] = at[d] /\ held'[d] = held[d] /\ cleared'[d] = cleared[d] /\ added'[d] = added[d]
  BY <1>1 DEF SettingsInv, SettingsTypeOK
<1>. QED
  BY <1>1, <1>2, <1>3, <1>4, <1>5, <1>6, StepInRequest

LEMMA WritesKeepInv ==
    ASSUME SettingsInv, NEW c \in Clients,
           Upsert(c) \/ Clear(c) \/ \E category \in Categories : Insert(c, category)
    PROVE  SettingsInv'
<1>1. CASE Upsert(c)
  <2>1. /\ at[c] = "upsert" /\ \A d \in Clients : ~HoldsRow(d)
        /\ at' = [at EXCEPT ![c] = "clear"]
        /\ UNCHANGED <<income, limits, held, cleared, added>>
    BY <1>1 DEF Upsert, GoTo
  <2>2. SettingsTypeOK'
    BY <2>1 DEF SettingsInv, SettingsTypeOK
  <2>3. OneWriter'
    BY <2>1 DEF SettingsInv, SettingsTypeOK, OneWriter, HoldsRow
  <2>4. at'[c] = "clear" /\ held[c] \in Accepted /\ \A d \in Clients \ {c} : at'[d] = at[d]
    BY <2>1 DEF SettingsInv, SettingsTypeOK, SavesAreSound, Saving
  <2>. QED
    BY <2>1, <2>2, <2>3, <2>4, StepInRequest
<1>2. CASE Clear(c)
  <2>1. /\ at[c] = "clear"
        /\ cleared' = [cleared EXCEPT ![c] = DOMAIN limits]
        /\ at' = [at EXCEPT ![c] = "insert"]
        /\ UNCHANGED <<income, limits, held, added>>
    BY <1>2 DEF Clear, GoTo
  <2>2. DOMAIN limits \subseteq Categories
    BY LimitsAreFunctions DEF SettingsInv, SettingsTypeOK
  <2>3. SettingsTypeOK'
    BY <2>1, <2>2 DEF SettingsInv, SettingsTypeOK
  <2>4. OneWriter'
    BY <2>1 DEF SettingsInv, SettingsTypeOK, OneWriter, HoldsRow
  <2>5. /\ at'[c] = "insert" /\ cleared'[c] = DOMAIN limits /\ added'[c] = {}
        /\ held[c] \in Accepted
        /\ \A d \in Clients \ {c} : at'[d] = at[d] /\ cleared'[d] = cleared[d]
    BY <2>1 DEF SettingsInv, SettingsTypeOK, SavesAreSound, Saving
  <2>. QED
    BY <2>1, <2>3, <2>4, <2>5, StepInRequest
<1>3. ASSUME NEW category \in Categories, Insert(c, category) PROVE SettingsInv'
  <2>1. /\ at[c] = "insert" /\ category \in DOMAIN held[c].limits
        /\ added' = [added EXCEPT ![c] = @ \cup {category}]
        /\ UNCHANGED <<income, limits, at, held, cleared>>
    BY <1>3 DEF Insert
  <2>2. SettingsTypeOK'
    BY <2>1 DEF SettingsInv, SettingsTypeOK
  <2>3. OneWriter'
    BY <2>1 DEF SettingsInv, OneWriter, HoldsRow
  <2>4. /\ held[c] \in Accepted /\ cleared[c] = DOMAIN limits
        /\ added[c] \subseteq DOMAIN held[c].limits
    BY <2>1 DEF SettingsInv, SavesAreSound, Saving
  <2>5. /\ added'[c] \subseteq DOMAIN held[c].limits
        /\ \A d \in Clients \ {c} : added'[d] = added[d]
    BY <2>1, <2>4 DEF SettingsInv, SettingsTypeOK
  <2>. QED
    BY <2>1, <2>2, <2>3, <2>4, <2>5, StepInRequest
<1>. QED
  BY <1>1, <1>2, <1>3

\* Nothing of another save is left between the rows that were deleted and the
\* rows that were inserted.
LEMMA CommitWritesHeld ==
    ASSUME SettingsInv, NEW c \in Clients, Commit(c)
    PROVE  /\ held[c] \in Accepted
           /\ income' = held[c].income /\ limits' = held[c].limits
           /\ Leave(c)
<1>1. held[c] \in Accepted /\ cleared[c] = DOMAIN limits
  BY DEF Commit, SettingsInv, SavesAreSound, Saving
<1>2. held[c].limits \in [DOMAIN held[c].limits -> Percents \ {0}]
  BY <1>1, LimitsAreFunctions DEF Accepted
<1>3. limits' = [x \in DOMAIN held[c].limits |-> held[c].limits[x]]
  BY <1>1 DEF Commit
<1>. QED
  BY <1>1, <1>2, <1>3 DEF Commit

LEMMA CommitKeepsInv ==
    ASSUME SettingsInv, NEW c \in Clients, Commit(c)
    PROVE  SettingsInv'
<1>1. HoldsRow(c)
  BY DEF Commit, HoldsRow
<1>2. income' \in Incomes /\ limits' \in Limits /\ AddUp(limits')
  BY CommitWritesHeld DEF Accepted
<1>. QED
  BY <1>1, <1>2, CommitWritesHeld, LeaveKeepsInv

LEMMA ReadsKeepInv ==
    ASSUME SettingsInv, NEW c \in Clients, ReadIncome(c) \/ ReadLimits(c)
    PROVE  SettingsInv'
<1>1. CASE ReadIncome(c)
  <2>. DEFINE s == [income |-> income, limits |-> NoLimits]
  <2>1. /\ at[c] = "idle"
        /\ held' = [held EXCEPT ![c] = s]
        /\ at' = [at EXCEPT ![c] = "limits"]
        /\ UNCHANGED <<income, limits, cleared, added>>
    BY <1>1 DEF ReadIncome, GoTo
  <2>2. s \in Settings
    BY NoLimitsAddUp DEF SettingsInv, SettingsTypeOK, Settings
  <2>. HIDE DEF s
  <2>3. SettingsTypeOK'
    BY <2>1, <2>2, NoSettingsIsNone DEF SettingsInv, SettingsTypeOK
  <2>4. OneWriter'
    BY <2>1 DEF SettingsInv, SettingsTypeOK, OneWriter, HoldsRow
  <2>5. /\ at'[c] = "limits"
        /\ \A d \in Clients \ {c} : at'[d] = at[d] /\ held'[d] = held[d]
    BY <2>1 DEF SettingsInv, SettingsTypeOK
  <2>. QED
    BY <2>1, <2>3, <2>4, <2>5, StepInRequest DEF Saving
<1>2. CASE ReadLimits(c)
  <2>1. /\ at[c] = "limits" /\ held[c] \in Settings
        /\ held' = [held EXCEPT ![c].limits = limits]
        /\ at' = [at EXCEPT ![c] = "answer"]
        /\ UNCHANGED <<income, limits, cleared, added>>
    BY <1>2 DEF ReadLimits, GoTo, SettingsInv, SettingsTypeOK
  <2>2. held'[c] \in Settings /\ held' \in [Clients -> Settings \cup {NoSettings}]
    BY <2>1 DEF SettingsInv, SettingsTypeOK, Settings
  <2>3. \A d \in Clients \ {c} : at'[d] = at[d] /\ held'[d] = held[d]
    BY <2>1 DEF SettingsInv, SettingsTypeOK
  <2>4. SettingsTypeOK'
    BY <2>1, <2>2, <2>3, NoSettingsIsNone DEF SettingsInv, SettingsTypeOK
  <2>5. OneWriter' /\ at'[c] = "answer"
    BY <2>1 DEF SettingsInv, SettingsTypeOK, OneWriter, HoldsRow
  <2>. QED
    BY <2>1, <2>3, <2>4, <2>5, StepInRequest DEF Saving
<1>. QED
  BY <1>1, <1>2

LEMMA SettingsInvStep == SettingsInv /\ [SettingsNext]_settingsVars => SettingsInv'
<1>. SUFFICES ASSUME SettingsInv, [SettingsNext]_settingsVars PROVE SettingsInv'
  OBVIOUS
<1>1. CASE UNCHANGED settingsVars
  BY <1>1 DEF settingsVars, SettingsInv, SettingsTypeOK, OneWriter, HoldsRow, SavesAreSound,
              Saving, AddUp, ReadsAreAccepted
<1>2. ASSUME NEW c \in Clients, SettingsStep(c) PROVE SettingsInv'
  <2>1. ASSUME Answer(c) \/ Fail(c) PROVE SettingsInv'
    <3>1. Leave(c) /\ UNCHANGED <<income, limits>>
      BY <2>1 DEF Answer, Fail
    <3>2. income \in Incomes \cup {NoRow} /\ limits \in Limits /\ AddUp(limits)
      BY DEF SettingsInv, SettingsTypeOK
    <3>. QED
      BY <3>1, <3>2, LeaveKeepsInv
  <2>. QED
    BY <1>2, <2>1, BeginSaveKeepsInv, WritesKeepInv, CommitKeepsInv, ReadsKeepInv
       DEF SettingsStep
<1>. QED
  BY <1>1, <1>2 DEF SettingsNext

LEMMA SettingsInvariant == SettingsSpec => []SettingsInv
BY SettingsInvInit, SettingsInvStep, PTL DEF SettingsSpec
-----------------------------------------------------------------------------
(* The settings implement the register *)

\* What the register calls saving[c].
Asked(c) == IF Saving(c) THEN held[c] ELSE NoSettings

LEMMA AskedIsAccepted ==
    ASSUME SettingsInv, NEW c \in Clients
    PROVE  /\ Asked(c) \in Accepted \cup {NoSettings}
           /\ Asked(c) # NoSettings <=> Saving(c)
BY NoSettingsIsNone DEF Asked, SettingsInv, SavesAreSound, Accepted, Settings

LEMMA RegisterInit == SettingsInit => Register!Init
BY DEF SettingsInit, Saving, Register!Init

\* The end of a request: what the register sees of the others stays.
LEMMA LeaveFinishes ==
    ASSUME SettingsInv, NEW c \in Clients, Leave(c)
    PROVE  [d \in Clients |-> Asked(d)'] = [[d \in Clients |-> Asked(d)] EXCEPT ![c] = NoSettings]
<1>1. /\ at' = [at EXCEPT ![c] = "idle"]
      /\ held' = [held EXCEPT ![c] = NoSettings]
  BY DEF Leave, GoTo
<1>2. Asked(c)' = NoSettings /\ \A d \in Clients \ {c} : Asked(d)' = Asked(d)
  BY <1>1 DEF Asked, Saving, SettingsInv, SettingsTypeOK
<1>. QED
  BY <1>2

LEMMA RegisterStep ==
    ASSUME SettingsInv, SettingsInv', NEW c \in Clients, SettingsStep(c)
    PROVE  [Register!Next]_<<[income |-> income, limits |-> limits],
                             [d \in Clients |-> Asked(d)]>>
<1>. DEFINE value == [income |-> income, limits |-> limits]
            asked == [d \in Clients |-> Asked(d)]
<1>0. asked = [d \in Clients |-> IF Saving(d) THEN held[d] ELSE NoSettings]
  BY DEF Asked
<1>1. ASSUME NEW in \in Incomes, NEW percents \in [Categories -> Percents],
             BeginSave(c, in, percents)
      PROVE  Register!Begin(c)
  <2>. DEFINE s == [income |-> in, limits |-> Nonzero(percents)]
  <2>1. /\ at[c] = "idle" /\ AddUp(Nonzero(percents))
        /\ held' = [held EXCEPT ![c] = s]
        /\ at' = [at EXCEPT ![c] = "upsert"]
        /\ UNCHANGED <<income, limits>>
    BY <1>1 DEF BeginSave, GoTo
  <2>2. s \in Accepted /\ s # NoSettings
    BY <2>1, NonzeroIsLimits, NoSettingsIsNone DEF Accepted, Settings
  <2>. HIDE DEF s
  <2>3. /\ Asked(c) = NoSettings /\ Asked(c)' = s
        /\ \A d \in Clients \ {c} : Asked(d)' = Asked(d)
    BY <2>1 DEF Asked, Saving, SettingsInv, SettingsTypeOK
  <2>4. /\ asked[c] = NoSettings
        /\ asked'[c] = s
        /\ asked' = [asked EXCEPT ![c] = asked'[c]]
    BY <2>3
  <2>5. UNCHANGED value
    BY <2>1
  <2>. QED
    BY <2>2, <2>4, <2>5, <1>0 DEF Register!Begin, Asked
<1>2. ASSUME \/ Upsert(c) \/ Clear(c) \/ \E category \in Categories : Insert(c, category)
             \/ ReadIncome(c) \/ ReadLimits(c)
      PROVE  UNCHANGED <<value, asked>>
  <2>1. \A d \in Clients \ {c} : at'[d] = at[d] /\ held'[d] = held[d]
    BY <1>2 DEF Upsert, Clear, Insert, ReadIncome, ReadLimits, GoTo, SettingsInv, SettingsTypeOK
  <2>2. Saving(c)' = Saving(c) /\ (Saving(c) => held'[c] = held[c])
    BY <1>2 DEF Upsert, Clear, Insert, ReadIncome, ReadLimits, GoTo, Saving, SettingsInv,
                SettingsTypeOK
  <2>3. \A d \in Clients : Asked(d)' = Asked(d)
    BY <2>1, <2>2 DEF Asked, Saving
  <2>4. UNCHANGED <<income, limits>>
    BY <1>2 DEF Upsert, Clear, Insert, ReadIncome, ReadLimits
  <2>. QED
    BY <2>3, <2>4
<1>3. ASSUME Commit(c) PROVE Register!Save(c)
  <2>1. /\ held[c] \in Accepted /\ Leave(c)
        /\ income' = held[c].income /\ limits' = held[c].limits
    BY <1>3, CommitWritesHeld
  <2>2. asked[c] = held[c] /\ asked[c] # NoSettings
    BY <1>3, AskedIsAccepted DEF Commit, Asked, Saving
  <2>3. value' = asked[c]
    BY <2>1, <2>2 DEF Accepted
  <2>4. asked' = [asked EXCEPT ![c] = NoSettings]
    BY <2>1, LeaveFinishes
  <2>. QED
    BY <2>2, <2>3, <2>4, <1>0 DEF Register!Save, Register!Finish, Asked
<1>4. ASSUME Answer(c) \/ Fail(c) PROVE Register!Abandon(c) \/ UNCHANGED <<value, asked>>
  <2>1. Leave(c) /\ UNCHANGED value
    BY <1>4 DEF Answer, Fail
  <2>2. asked' = [asked EXCEPT ![c] = NoSettings]
    BY <2>1, LeaveFinishes
  <2>3. CASE asked[c] = NoSettings
    BY <2>1, <2>2, <2>3
  <2>4. CASE asked[c] # NoSettings
    BY <2>1, <2>2, <2>4, <1>0 DEF Register!Abandon, Register!Finish, Asked
  <2>. QED
    BY <2>3, <2>4
<1>. QED
  BY <1>1, <1>2, <1>3, <1>4 DEF SettingsStep, Register!Next

-----------------------------------------------------------------------------
(* Theorems *)

\* Finance moves its settings as FinanceSettings says, whatever else it does.
THEOREM FinanceIsSettings == Spec => SettingsSpec
<1>1. Init => SettingsInit
  BY DEF Init
<1>2. [Next]_vars => [SettingsNext]_settingsVars
  BY DEF Next, vars, SettingsMove, IncomeMove, PageMove
<1>. QED
  BY <1>1, <1>2, PTL DEF Spec, SettingsSpec

\* For any categories, percents and number of connections, GET /settings never
\* finds limits that NewFinanceSettings refuses.
THEOREM ReadsSucceed == Spec => []ReadsAreAccepted
<1>1. SettingsInv => ReadsAreAccepted
  BY DEF SettingsInv
<1>. QED
  BY <1>1, SettingsInvariant, FinanceIsSettings, PTL

\* For any number of saves that overlap, fail or are read half way, the two
\* tables of the settings change as one value.
THEOREM SettingsAreOne == Spec => ImplementsRegister
<1>1. SettingsInv /\ SettingsInv' /\ [SettingsNext]_settingsVars =>
        [Register!Next]_<<[income |-> income, limits |-> limits],
                          [d \in Clients |-> Asked(d)]>>
  <2>. SUFFICES ASSUME SettingsInv, SettingsInv', [SettingsNext]_settingsVars
       PROVE  [Register!Next]_<<[income |-> income, limits |-> limits],
                                [d \in Clients |-> Asked(d)]>>
    OBVIOUS
  <2>1. CASE UNCHANGED settingsVars
    BY <2>1 DEF settingsVars, Asked, Saving
  <2>2. CASE SettingsNext
    BY <2>2, RegisterStep DEF SettingsNext
  <2>. QED
    BY <2>1, <2>2
<1>2. SettingsInv /\ SettingsInv' /\ [SettingsNext]_settingsVars =>
        [Register!Next]_<<[income |-> income, limits |-> limits],
                          [c \in Clients |-> IF Saving(c) THEN held[c] ELSE NoSettings]>>
  BY <1>1 DEF Asked
<1>3. SettingsSpec => Register!Spec
  BY <1>2, RegisterInit, SettingsInvariant, PTL DEF SettingsSpec, Register!Spec
<1>. QED
  BY <1>3, FinanceIsSettings, PTL DEF ImplementsRegister
-----------------------------------------------------------------------------
(* The types of the months and of the page *)

LEMMA ListedIsAYear ==
    ASSUME YearTypeOK, NEW y \in Years
    PROVE  ListedExpenses(y) \in ExpenseYear
<1>1. EmptyExpenseMonth \in ExpenseMonth
  BY AmountsAreNumbers DEF EmptyExpenseMonth, ExpenseMonth
<1>2. \A m \in Months : m \in ListExpenseActuals(y) => expenses[<<y, m>>] \in ExpenseMonth
  BY DEF ListExpenseActuals, YearTypeOK
<1>. QED
  BY <1>1, <1>2 DEF ListedExpenses, ExpenseYear

LEMMA GridIsTyped ==
    ASSUME NEW months \in ExpenseYear
    PROVE  BuildExpenseGrid(months) \in ExpenseGrid
<1>1. \A m \in Months, c \in Categories : months[m][c] \in Amounts
  BY DEF ExpenseYear, ExpenseMonth
<1>. QED
  BY <1>1 DEF BuildExpenseGrid, ExpenseGrid, Cells

\* A PUT writes a row of amounts, whatever the body leaves out.
LEMMA SaveExpenseTyping ==
    ASSUME YearTypeOK, UNCHANGED earnings, NEW s \in Save, s.month \in Months,
           SaveExpense(s.year, s.month, Payload(s, s.month))
    PROVE  YearTypeOK'
<1>. DEFINE actual == NewExpenseMonth(Payload(s, s.month))
<1>1. \A c \in Categories : s.grid[s.month][c] \in Cells
  BY DEF Save, ExpenseGrid
<1>2. actual \in ExpenseMonth
  BY <1>1, AmountsAreNumbers
     DEF NewExpenseMonth, Payload, Changed, Typed, Cells, ExpenseMonth
<1>3. s.year \in Years
  BY DEF Save
<1>. HIDE DEF actual
<1>4. expenses' \in {[expenses EXCEPT ![<<s.year, s.month>>] = actual],
                     [expenses EXCEPT ![<<s.year, s.month>>] = NoMonth]}
  BY DEF SaveExpense, UpsertExpenseActual, DeleteExpenseActual, actual
<1>. QED
  BY <1>2, <1>3, <1>4 DEF YearTypeOK

LEMMA SaveIncomeTyping ==
    ASSUME YearTypeOK, UNCHANGED expenses, NEW y \in Years, NEW m \in Months,
           NEW actual \in IncomeMonth, SaveIncome(y, m, actual)
    PROVE  YearTypeOK'
BY DEF YearTypeOK, SaveIncome, UpsertIncomeActual, DeleteIncomeActual

LEMMA StartRefreshTyping ==
    ASSUME PageTypeOK, NEW l \in Loads, NEW y \in Years, NEW bySave \in BOOLEAN,
           StartRefresh(l, y, bySave)
    PROVE  loads' \in [Loads -> Load \cup {Nothing}]
<1>1. Refresh(y, bySave) \in Load
  BY DEF Refresh, Load
<1>. QED
  BY <1>1 DEF StartRefresh, PageTypeOK

LEMMA LoadingTyping ==
    ASSUME YearTypeOK, PageTypeOK, NEW l \in Loads, UNCHANGED earnings,
           ReadYear(l) \/ Show(l) \/ RefreshFails(l)
    PROVE  YearTypeOK' /\ PageTypeOK'
<1>1. UNCHANGED <<expenses, year, gestures>> /\ loads[l] \in Load
  BY DEF ReadYear, Show, RefreshFails, EndRefresh, PageTypeOK
<1>2. CASE ReadYear(l)
  <2>1. ListedExpenses(loads[l].year) \in ExpenseYear
    BY <1>1, ListedIsAYear DEF Load
  <2>2. loads' = [loads EXCEPT ![l].answer = ListedExpenses(loads[l].year)]
    BY <1>2 DEF ReadYear
  <2>3. loads' \in [Loads -> Load \cup {Nothing}]
    BY <1>1, <2>1, <2>2 DEF PageTypeOK, Load
  <2>. QED
    BY <1>1, <1>2, <2>3 DEF ReadYear, YearTypeOK, PageTypeOK
<1>3. CASE Show(l) \/ RefreshFails(l)
  <2>1. loads' = [loads EXCEPT ![l] = Nothing] /\ saving' \in {saving, Nothing}
        /\ saved' \in BOOLEAN
    BY <1>3 DEF Show, RefreshFails, EndRefresh, PageTypeOK
  <2>2. loaded' \in ExpenseYear \cup {Nothing} /\ grid' \in ExpenseGrid
    BY <1>1, <1>3, GridIsTyped DEF Show, RefreshFails, PageTypeOK, Load
  <2>. QED
    BY <1>1, <2>1, <2>2 DEF YearTypeOK, PageTypeOK
<1>. QED
  BY <1>2, <1>3

LEMMA TypingTyping ==
    ASSUME PageTypeOK, NEW m \in Months, NEW c \in Categories, NEW text \in Cells,
           HandleExpenseChange(m, c, text)
    PROVE  PageTypeOK'
<1>1. /\ grid' = [grid EXCEPT ![m][c] = text]
      /\ gestures < MaxGestures /\ gestures' = gestures + 1
      /\ UNCHANGED <<year, loaded, loads, saving, saved>>
  BY DEF HandleExpenseChange
<1>2. grid' \in ExpenseGrid
  BY <1>1 DEF PageTypeOK, ExpenseGrid
<1>. QED
  BY <1>1, <1>2, BoundIsNatural DEF PageTypeOK

LEMMA SavingTyping ==
    ASSUME YearTypeOK, PageTypeOK, UNCHANGED earnings,
           PressSave \/ PutMonth \/ PutFails \/ RefreshAfterSave
    PROVE  YearTypeOK' /\ PageTypeOK'
<1>1. CASE PressSave
  <2>1. saving' \in Save
    BY <1>1, MonthsAreCounted DEF PressSave, Save, PageTypeOK
  <2>. QED
    BY <1>1, <2>1 DEF PressSave, YearTypeOK, PageTypeOK
<1>2. CASE PutMonth \/ PutFails
  <2>1. saving \in Save /\ saving.month \in Months
    BY <1>2 DEF PutMonth, PutFails, InLoop, PageTypeOK
  <2>2. YearTypeOK'
    BY <1>2, <2>1, SaveExpenseTyping DEF PutMonth, PutFails, YearTypeOK
  <2>3. saving' \in Save \cup {Nothing}
    BY <1>2, <2>1, MonthsAreCounted DEF PutMonth, PutFails, Save
  <2>. QED
    BY <1>2, <2>2, <2>3 DEF PutMonth, PutFails, PageTypeOK
<1>3. CASE RefreshAfterSave
  <2>1. saving \in Save /\ saving' = [saving EXCEPT !.month = @ + 1]
    BY <1>3 DEF RefreshAfterSave, PageTypeOK
  <2>2. saving' \in Save /\ saving.year \in Years
    BY <1>3, <2>1, MonthsAreCounted DEF RefreshAfterSave, Save
  <2>3. loads' \in [Loads -> Load \cup {Nothing}]
    BY <1>3, <2>2, StartRefreshTyping DEF RefreshAfterSave
  <2>. QED
    BY <1>3, <2>2, <2>3 DEF RefreshAfterSave, YearTypeOK, PageTypeOK
<1>. QED
  BY <1>1, <1>2, <1>3

LEMMA PageTyping ==
    ASSUME YearTypeOK, PageTypeOK, UNCHANGED earnings, PageNext
    PROVE  YearTypeOK' /\ PageTypeOK'
<1>1. ASSUME NEW y \in Years, ChangeYear(y) PROVE YearTypeOK' /\ PageTypeOK'
  <2>1. PICK l \in Loads : StartRefresh(l, y, FALSE)
    BY <1>1 DEF ChangeYear
  <2>2. loads' \in [Loads -> Load \cup {Nothing}]
    BY <2>1, StartRefreshTyping
  <2>3. /\ year' = y /\ gestures < MaxGestures /\ gestures' = gestures + 1
        /\ UNCHANGED <<expenses, loaded, grid, saving, saved>>
    BY <1>1 DEF ChangeYear
  <2>. QED
    BY <2>2, <2>3, BoundIsNatural DEF YearTypeOK, PageTypeOK
<1>2. ASSUME NEW m \in Months, NEW c \in Categories, NEW text \in Cells,
             HandleExpenseChange(m, c, text)
      PROVE  YearTypeOK' /\ PageTypeOK'
  BY <1>2, TypingTyping DEF HandleExpenseChange, YearTypeOK
<1>. QED
  BY <1>1, <1>2, LoadingTyping, SavingTyping DEF PageNext

LEMMA InitTyping == Init => YearTypeOK /\ PageTypeOK
<1>. SUFFICES ASSUME Init PROVE YearTypeOK /\ PageTypeOK
  OBVIOUS
<1>1. YearTypeOK
  BY DEF Init, IncomeInit, PageInit, ExpensesInit, YearTypeOK
<1>2. Refresh(year, FALSE) \in Load
  BY DEF Init, PageInit, Refresh, Load
<1>3. loads \in [Loads -> Load \cup {Nothing}]
  <2>. DEFINE first == CHOOSE x \in Loads : TRUE
  <2>1. loads = [l \in Loads |-> IF l = first THEN Refresh(year, FALSE) ELSE Nothing]
    BY DEF Init, PageInit
  <2>. HIDE DEF first
  <2>. QED
    BY <1>2, <2>1
<1>4. grid \in ExpenseGrid
  BY DEF Init, PageInit, BlankGrid, ExpenseGrid, Cells
<1>5. /\ year \in Years /\ loaded = Nothing /\ saving = Nothing
      /\ saved \in BOOLEAN /\ gestures = 0
  BY DEF Init, PageInit
<1>6. 0 \in 0 .. MaxGestures
  BY BoundIsNatural
<1>. QED
  BY <1>1, <1>3, <1>4, <1>5, <1>6, Zenon DEF PageTypeOK

\* For any years, months, amounts, loads and connections, the tables and the
\* page keep their types.
THEOREM TypeCorrect == Spec => []TypeOK
<1>1. YearTypeOK /\ PageTypeOK /\ [Next]_vars => YearTypeOK' /\ PageTypeOK'
  <2>. SUFFICES ASSUME YearTypeOK, PageTypeOK, [Next]_vars
       PROVE  YearTypeOK' /\ PageTypeOK'
    OBVIOUS
  <2>1. CASE UNCHANGED vars \/ SettingsMove
    BY <2>1 DEF vars, pageVars, SettingsMove, YearTypeOK, PageTypeOK
  <2>2. CASE IncomeMove
    BY <2>2, SaveIncomeTyping DEF IncomeMove, IncomeNext, pageVars, PageTypeOK
  <2>3. CASE PageMove
    BY <2>3, PageTyping DEF PageMove
  <2>. QED
    BY <2>1, <2>2, <2>3 DEF Next
<1>2. SettingsInv => SettingsTypeOK
  BY DEF SettingsInv
<1>. QED
  BY <1>1, <1>2, InitTyping, SettingsInvariant, FinanceIsSettings, PTL DEF Spec, TypeOK
-----------------------------------------------------------------------------
(* The int64 *)

LEMMA HalfWord == \E h \in Nat \ {0} : Modulus = 2 * h /\ Modulus \div 2 = h
<1>1. PICK h \in Nat : Modulus = 2 * h /\ h > 0
  BY WordIsEven
<1>. QED
  BY <1>1

\* What wraps around has gone round a whole number of times.
LEMMA WrapGoesRound ==
    ASSUME NEW n \in Int
    PROVE  Wrap(n) \in Int /\ \E k \in Int : Wrap(n) = n + Modulus * k
<1>1. PICK h \in Nat \ {0} : Modulus = 2 * h /\ Modulus \div 2 = h
  BY HalfWord
<1>. DEFINE m == Modulus
            a == n + h
            q == a \div m
            r == a % m
<1>2. m \in Nat \ {0} /\ a \in Int
  BY <1>1
<1>3. q \in Int /\ r \in Int /\ a = m * q + r
  <2>. HIDE DEF m, a
  <2>. QED
    BY <1>2
<1>4. Wrap(n) = r - h
  BY <1>1 DEF Wrap
<1>. HIDE DEF q, r
<1>5. m * (-q) = -(m * q) /\ m * q \in Int
  <2>. HIDE DEF m
  <2>. QED
    BY <1>2, <1>3
<1>6. Wrap(n) = n + m * (-q)
  <2>. HIDE DEF m
  <2>. QED
    BY <1>1, <1>3, <1>4, <1>5
<1>7. Wrap(n) \in Int /\ -q \in Int
  BY <1>1, <1>3, <1>4
<1>. QED
  BY <1>6, <1>7

\* The remainder of a division is the only one there is.
LEMMA OneRemainder ==
    ASSUME NEW m \in Nat \ {0}, NEW q \in Int, NEW p \in Int, NEW r \in Int, NEW s \in Int,
           0 <= r, r < m, 0 <= s, s < m, m * q + r = m * p + s
    PROVE  r = s
<1>1. m * (q - p) = s - r
  <2>1. m * (q - p) = m * q - m * p
    OBVIOUS
  <2>. QED
    BY <2>1
<1>. DEFINE d == q - p
<1>2. d \in Int /\ m * d = s - r
  BY <1>1
<1>. HIDE DEF d
<1>3. d < 1
  <2>. SUFFICES ASSUME d >= 1 PROVE FALSE
    BY <1>2
  <2>1. m * d >= m
    BY <1>2
  <2>. QED
    BY <1>2, <2>1
<1>4. d > -1
  <2>. SUFFICES ASSUME d <= -1 PROVE FALSE
    BY <1>2
  <2>1. m * d <= -m
    BY <1>2
  <2>. QED
    BY <1>2, <2>1
<1>5. d = 0
  BY <1>2, <1>3, <1>4
<1>. QED
  BY <1>2, <1>5

\* Sums that differ by whole rounds wrap to the same.
LEMMA WrapSame ==
    ASSUME NEW a \in Int, NEW b \in Int, NEW k \in Int, a = b + Modulus * k
    PROVE  Wrap(a) = Wrap(b)
<1>1. PICK h \in Nat \ {0} : Modulus = 2 * h /\ Modulus \div 2 = h
  BY HalfWord
<1>. DEFINE m == Modulus
            x == a + h
            y == b + h
            q == x \div m
            p == y \div m
            r == x % m
            s == y % m
<1>2. m \in Nat \ {0} /\ x \in Int /\ y \in Int /\ a = b + m * k
  BY <1>1
<1>3. /\ q \in Int /\ r \in Int /\ x = m * q + r /\ 0 <= r /\ r < m
      /\ p \in Int /\ s \in Int /\ y = m * p + s /\ 0 <= s /\ s < m
  <2>. HIDE DEF m, x, y
  <2>. QED
    BY <1>2
<1>4. Wrap(a) = r - h /\ Wrap(b) = s - h
  BY <1>1 DEF Wrap
<1>. DEFINE p1 == p + k
<1>5. m * k \in Int /\ m * p \in Int /\ m * p1 = m * p + m * k /\ p1 \in Int
  <2>. HIDE DEF m, p
  <2>. QED
    BY <1>2, <1>3
<1>. HIDE DEF m, q, p, r, s, p1
<1>6. m * q + r = m * p1 + s
  BY <1>1, <1>2, <1>3, <1>5
<1>7. r = s
  BY <1>2, <1>3, <1>5, <1>6, OneRemainder
<1>. QED
  BY <1>4, <1>7

LEMMA WrapKeeps ==
    ASSUME NEW n \in Nat, n < Modulus \div 2
    PROVE  Wrap(n) = n
<1>1. PICK h \in Nat \ {0} : Modulus = 2 * h /\ Modulus \div 2 = h
  BY HalfWord
<1>2. (n + h) % Modulus = n + h
  <2>. DEFINE m == Modulus
              x == n + h
              q == x \div m
              r == x % m
  <2>1. m \in Nat \ {0} /\ x \in Int /\ 0 <= x /\ x < m
    BY <1>1
  <2>2. q \in Int /\ r \in Int /\ x = m * q + r /\ 0 <= r /\ r < m
    <3>. HIDE DEF m, x
    <3>. QED
      BY <2>1
  <2>3. m * q + r = m * 0 + x
    <3>. HIDE DEF m, x, q, r
    <3>. QED
      BY <2>1, <2>2
  <2>. HIDE DEF m, x, q, r
  <2>4. r = x
    BY <2>1, <2>2, <2>3, OneRemainder
  <2>. QED
    BY <2>4 DEF m, x, r
<1>. QED
  BY <1>1, <1>2 DEF Wrap


LEMMA SumOfAll == ASSUME NEW f PROVE SumFunction(f) = Sum(f, DOMAIN f)
BY DEF SumFunction, Sum

LEMMA AmountFacts == Amounts \in SUBSET Nat /\ Receipts \in SUBSET Nat /\ 0 \in Amounts /\ 0 \in Receipts
BY AmountsAreNumbers

-----------------------------------------------------------------------------
(* What a Save writes *)

\* A month that is deleted held no amount, when its total did not wrap.
LEMMA DeletedIsEmpty ==
    ASSUME NEW D \in SUBSET Categories, NEW p, DOMAIN p = D, \A c \in D : p[c] \in Nat,
           Fits(p), IsZero(NewExpenseMonth(p))
    PROVE  \A c \in D : p[c] = 0
<1>. DEFINE actual == NewExpenseMonth(p)
<1>1. /\ DOMAIN actual = Categories
      /\ \A c \in D : actual[c] = p[c]
      /\ \A c \in Categories \ D : actual[c] = 0
      /\ \A c \in Categories : actual[c] \in Nat
  BY DEF NewExpenseMonth
<1>2. Wrap(Sum(actual, Categories)) = 0
  BY <1>1, SumOfAll DEF IsZero, Total
<1>. HIDE DEF actual
<1>3. IsFiniteSet(Categories) /\ IsFiniteSet(D) /\ IsFiniteSet(Categories \ D)
  BY CategoriesAreListed, FS_Subset
<1>4. NumbersOn(actual, Categories) /\ NumbersOn(actual, D)
  BY <1>1 DEF NumbersOn
<1>5. Sum(actual, Categories) = Sum(actual, Categories \ D) + Sum(actual, D)
  BY ONLY <1>3, <1>4, D \in SUBSET Categories, SumSplit
<1>6. Sum(actual, Categories \ D) = 0
  BY ONLY <1>1, <1>3, SumOfZeros
<1>7. Sum(actual, D) = Sum(p, D)
  BY ONLY <1>1, <1>3, <1>4, SumSame
<1>8. Sum(p, D) \in Nat /\ \A c \in D : p[c] <= Sum(p, D)
  <2>1. \A c \in D : p[c] \in Nat
    OBVIOUS
  <2>. QED
    BY ONLY <1>3, <2>1, SumOfNaturals
<1>9. Sum(p, D) < Modulus \div 2
  BY SumOfAll DEF Fits
<1>10. Wrap(Sum(p, D)) = Sum(p, D)
  BY <1>8, <1>9, WrapKeeps
<1>11. Sum(actual, Categories) = Sum(p, D)
  BY <1>5, <1>6, <1>7, <1>8
<1>12. Sum(p, D) = 0
  BY <1>2, <1>10, <1>11
<1>. QED
  BY <1>8, <1>12

\* The body of a PUT.
LEMMA PayloadFacts ==
    ASSUME NEW s \in Save, NEW m \in Months
    PROVE  /\ Changed(s, m) \in SUBSET Categories /\ DOMAIN Payload(s, m) = Changed(s, m)
           /\ \A c \in Changed(s, m) :
                /\ Payload(s, m)[c] = Typed(s.grid[m][c])
                /\ Payload(s, m)[c] \in Amounts /\ Payload(s, m)[c] \in Nat
<1>1. \A c \in Categories : s.grid[m][c] \in Cells
  BY DEF Save, ExpenseGrid
<1>2. \A c \in Categories : Typed(s.grid[m][c]) \in Amounts
  BY <1>1, AmountFacts DEF Typed, Cells
<1>. QED
  BY <1>2, AmountFacts DEF Changed, Payload

Stored(s, m) ==
    Fits(Payload(s, m)) =>
      \A c \in Changed(s, m) : ListedExpenses(s.year)[m][c] = Typed(s.grid[m][c])

\* After the PUT of a month, the month is stored and the others are as before.
LEMMA PutStores ==
    ASSUME YearTypeOK, NEW s \in Save, s.month \in Months,
           SaveExpense(s.year, s.month, Payload(s, s.month))
    PROVE  /\ Stored(s, s.month)'
           /\ \A m \in Months \ {s.month} :
                ListedExpenses(s.year)'[m] = ListedExpenses(s.year)[m]
<1>. DEFINE m == s.month
            D == Changed(s, m)
            p == Payload(s, m)
            actual == NewExpenseMonth(p)
<1>1. /\ D \in SUBSET Categories /\ DOMAIN p = D
      /\ \A c \in D : p[c] = Typed(s.grid[m][c]) /\ p[c] \in Amounts /\ p[c] \in Nat
  BY PayloadFacts
<1>2. s.year \in Years /\ m \in Months
  BY DEF Save
<1>. HIDE DEF D, p
<1>3. actual \in ExpenseMonth /\ \A c \in D : actual[c] = p[c]
  BY <1>1, AmountFacts DEF NewExpenseMonth, ExpenseMonth
<1>4. expenses' = [expenses EXCEPT ![<<s.year, m>>] = IF IsZero(actual) THEN NoMonth ELSE actual]
  BY DEF SaveExpense, UpsertExpenseActual, DeleteExpenseActual, p
<1>. HIDE DEF actual
<1>5. /\ \A n \in Months : n # m => expenses'[<<s.year, n>>] = expenses[<<s.year, n>>]
      /\ expenses'[<<s.year, m>>] = IF IsZero(actual) THEN NoMonth ELSE actual
  BY <1>2, <1>4 DEF YearTypeOK
<1>6. \A n \in Months : n # m => ListedExpenses(s.year)'[n] = ListedExpenses(s.year)[n]
  BY <1>5 DEF ListedExpenses, ListExpenseActuals
<1>7. ASSUME Fits(p), NEW c \in D
      PROVE  ListedExpenses(s.year)'[m][c] = p[c]
  <2>1. CASE IsZero(actual)
    <3>1. ListedExpenses(s.year)'[m] = EmptyExpenseMonth
      BY <1>2, <1>5, <2>1 DEF ListedExpenses, ListExpenseActuals
    <3>2. p[c] = 0
      BY <1>1, <1>7, <2>1, DeletedIsEmpty DEF actual
    <3>. QED
      BY <1>1, <3>1, <3>2 DEF EmptyExpenseMonth
  <2>2. CASE ~IsZero(actual)
    <3>1. ListedExpenses(s.year)'[m] = actual
      BY <1>2, <1>3, <1>5, <2>2, NoMonthIsNone DEF ListedExpenses, ListExpenseActuals
    <3>. QED
      BY <1>3, <3>1
  <2>. QED
    BY <2>1, <2>2
<1>8. Stored(s, m)'
  BY <1>1, <1>7 DEF Stored, D, p
<1>. QED
  BY <1>6, <1>8

-----------------------------------------------------------------------------
(* A Save in progress *)

\* Only the Save in progress has asked for a refresh, and only when it had
\* sent every month; what it has sent is stored.
BySave(l) == loads[l] # Nothing /\ loads[l].bySave
SaveInv ==
    /\ saving # Nothing => ~saved
    /\ \A l \in Loads : BySave(l) => saving # Nothing /\ saving.month = Cardinality(Months) + 2
    /\ \A l, k \in Loads : BySave(l) /\ BySave(k) => l = k
    /\ saving # Nothing => \A m \in Months : m < saving.month => Stored(saving, m)

PageInv == YearTypeOK /\ PageTypeOK /\ SaveInv


LEMMA SaveInvInit == Init => SaveInv
<1>. SUFFICES ASSUME Init PROVE SaveInv
  OBVIOUS
<1>1. saving = Nothing
  BY DEF Init, PageInit
<1>2. \A l \in Loads : loads[l] \in {Refresh(year, FALSE), Nothing}
  BY DEF Init, PageInit
<1>3. Refresh(year, FALSE).bySave = FALSE
  BY DEF Refresh
<1>4. \A l \in Loads : ~BySave(l)
  BY <1>2, <1>3 DEF BySave
<1>. QED
  BY <1>1, <1>4 DEF SaveInv

\* As long as the Save and the table stay as they are, only the refreshes count.
LEMMA SaveUntouched ==
    ASSUME SaveInv, UNCHANGED <<expenses, saving, saved>>,
           \A l \in Loads : BySave(l)' => BySave(l)
    PROVE  SaveInv'
<1>1. \A m \in Months : Stored(saving, m)' <=> Stored(saving, m)
  BY DEF Stored, ListedExpenses, ListExpenseActuals, Changed, Original, Payload, Typed
<1>. QED
  BY <1>1 DEF SaveInv

\* A refresh that a change of year starts is not by a Save.
LEMMA RefreshIsBySave ==
    ASSUME PageTypeOK, NEW l \in Loads, NEW y \in Years, NEW bySave \in BOOLEAN,
           StartRefresh(l, y, bySave)
    PROVE  /\ \A k \in Loads \ {l} : BySave(k)' <=> BySave(k)
           /\ BySave(l)' => bySave
<1>1. loads' = [loads EXCEPT ![l] = Refresh(y, bySave)]
  BY DEF StartRefresh
<1>2. loads'[l].bySave = bySave
  BY <1>1 DEF PageTypeOK, Refresh
<1>. QED
  BY <1>1, <1>2 DEF BySave, PageTypeOK

LEMMA EndOfRefresh ==
    ASSUME PageTypeOK, NEW l \in Loads, EndRefresh(l)
    PROVE  /\ \A k \in Loads : BySave(k)' => BySave(k) /\ k # l
           /\ loads[l] # Nothing /\ ~BySave(l) => UNCHANGED <<saving, saved>>
           /\ BySave(l) => saving' = Nothing
           /\ UNCHANGED expenses
BY DEF EndRefresh, BySave, PageTypeOK

LEMMA LoadingKeepsSaveInv ==
    ASSUME PageInv, NEW l \in Loads, ReadYear(l) \/ Show(l) \/ RefreshFails(l)
    PROVE  SaveInv'
<1>1. CASE ReadYear(l)
  <2>1. \A k \in Loads : BySave(k)' => BySave(k)
    BY <1>1 DEF ReadYear, BySave, PageInv, PageTypeOK, Load
  <2>. QED
    BY <1>1, <2>1, SaveUntouched DEF ReadYear, PageInv
<1>2. CASE Show(l) \/ RefreshFails(l)
  <2>1. loads[l] # Nothing /\ EndRefresh(l) /\ PageTypeOK /\ SaveInv
    BY <1>2 DEF Show, RefreshFails, PageInv
  <2>2. CASE BySave(l)
    <3>1. saving' = Nothing /\ \A k \in Loads : ~BySave(k)'
      BY <2>1, <2>2, EndOfRefresh DEF SaveInv
    <3>. QED
      BY <3>1 DEF SaveInv
  <2>3. CASE ~BySave(l)
    BY <2>1, <2>3, EndOfRefresh, SaveUntouched
  <2>. QED
    BY <2>2, <2>3
<1>. QED
  BY <1>1, <1>2

LEMMA SavingKeepsSaveInv ==
    ASSUME PageInv, PressSave \/ PutMonth \/ PutFails \/ RefreshAfterSave
    PROVE  SaveInv'
<1>. USE MonthsAreCounted
<1>1. CASE PressSave
  <2>1. saving = Nothing /\ saving'.month = 1 /\ saved' = FALSE /\ UNCHANGED loads
    BY <1>1 DEF PressSave
  <2>2. \A l \in Loads : ~BySave(l)'
    BY <2>1 DEF PageInv, SaveInv, BySave
  <2>3. \A m \in Months : ~(m < saving'.month)
    BY <2>1
  <2>. QED
    BY <2>1, <2>2, <2>3 DEF SaveInv
<1>2. CASE PutMonth
  <2>1. /\ saving # Nothing /\ saving \in Save /\ saving.month \in Months /\ YearTypeOK
        /\ saving' = [saving EXCEPT !.month = @ + 1] /\ UNCHANGED <<loads, saved>>
    BY <1>2 DEF PutMonth, InLoop, PageInv, PageTypeOK
  <2>2. \A l \in Loads : ~BySave(l) /\ ~BySave(l)'
    BY <2>1 DEF PageInv, SaveInv, BySave
  <2>3. /\ saving'.month = saving.month + 1 /\ saving'.year = saving.year
        /\ saving'.grid = saving.grid /\ saving'.original = saving.original
    BY <2>1 DEF Save
  <2>4. \A m \in Months : Changed(saving, m)' = Changed(saving, m)
                          /\ Payload(saving, m)' = Payload(saving, m)
    BY <2>3 DEF Payload, Changed, Original, Typed
  <2>5. ASSUME NEW m \in Months, m < saving'.month PROVE Stored(saving, m)'
    <3>1. CASE m # saving.month
      <4>1. Stored(saving, m)
        BY <2>1, <2>3, <2>5, <3>1 DEF PageInv, SaveInv, Save
      <4>2. ListedExpenses(saving.year)'[m] = ListedExpenses(saving.year)[m]
        <5>1. CASE Changed(saving, saving.month) # {}
          <6>1. SaveExpense(saving.year, saving.month, Payload(saving, saving.month))
            BY <1>2, <5>1 DEF PutMonth
          <6>. QED
            BY <2>1, <2>3, <3>1, <6>1, PutStores
        <5>2. CASE Changed(saving, saving.month) = {}
          BY <1>2, <2>3, <5>2 DEF PutMonth, ListedExpenses, ListExpenseActuals
        <5>. QED
          BY <5>1, <5>2
      <4>. QED
        BY <2>3, <2>4, <4>1, <4>2 DEF Stored, Typed
    <3>2. CASE m = saving.month /\ Changed(saving, m) = {}
      BY <2>4, <3>2 DEF Stored
    <3>3. CASE m = saving.month /\ Changed(saving, m) # {}
      <4>1. SaveExpense(saving.year, saving.month, Payload(saving, saving.month))
        BY <1>2, <3>3 DEF PutMonth
      <4>2. Fits(Payload(saving, m)) =>
              \A c \in Changed(saving, m) :
                ListedExpenses(saving.year)'[m][c] = Typed(saving.grid[m][c])
        BY <2>1, <3>3, <4>1, PutStores DEF Stored
      <4>. QED
        BY <2>3, <2>4, <4>2 DEF Stored, Typed
    <3>. QED
      BY <3>1, <3>2, <3>3
  <2>. QED
    BY <2>1, <2>2, <2>5 DEF PageInv, SaveInv
<1>3. CASE PutFails
  <2>1. /\ saving # Nothing /\ saving.month \in Months /\ saving' = Nothing
        /\ UNCHANGED <<loads, saved>>
    BY <1>3 DEF PutFails, InLoop
  <2>2. \A l \in Loads : ~BySave(l)'
    BY <2>1 DEF PageInv, SaveInv, BySave
  <2>. QED
    BY <2>1, <2>2 DEF SaveInv
<1>4. CASE RefreshAfterSave
  <2>1. PICK l \in Loads : StartRefresh(l, saving.year, TRUE)
    BY <1>4 DEF RefreshAfterSave
  <2>2. /\ saving # Nothing /\ saving \in Save /\ saving.month = Cardinality(Months) + 1
        /\ saving' = [saving EXCEPT !.month = @ + 1] /\ UNCHANGED <<expenses, saved>>
    BY <1>4 DEF RefreshAfterSave, PageInv, PageTypeOK
  <2>3. /\ saving'.month = Cardinality(Months) + 2 /\ saving'.year = saving.year
        /\ saving'.grid = saving.grid /\ saving'.original = saving.original
        /\ saving.year \in Years
    BY <2>2 DEF Save
  <2>4. \A k \in Loads : ~BySave(k)
    BY <2>2 DEF PageInv, SaveInv
  <2>5. \A k \in Loads : BySave(k)' => k = l
    BY <2>1, <2>3, <2>4, RefreshIsBySave DEF PageInv
  <2>6. \A m \in Months : Stored(saving, m)
    BY <2>2 DEF PageInv, SaveInv
  <2>7. \A m \in Months : Stored(saving, m)'
    BY <2>2, <2>3, <2>6
       DEF Stored, Payload, Changed, Original, Typed, ListedExpenses, ListExpenseActuals
  <2>8. saving' # Nothing
    BY <2>2, NothingIsNone DEF Save
  <2>. QED
    BY <2>2, <2>3, <2>5, <2>7, <2>8 DEF PageInv, SaveInv
<1>. QED
  BY <1>1, <1>2, <1>3, <1>4

LEMMA PageKeepsSaveInv == PageInv /\ [Next]_vars => SaveInv'
<1>. SUFFICES ASSUME PageInv, [Next]_vars PROVE SaveInv'
  OBVIOUS
<1>1. CASE UNCHANGED pageVars
  <2>1. \A l \in Loads : BySave(l)' => BySave(l)
    BY <1>1 DEF pageVars, BySave
  <2>. QED
    BY <1>1, <2>1, SaveUntouched DEF pageVars, PageInv
<1>2. ASSUME NEW y \in Years, ChangeYear(y) PROVE SaveInv'
  <2>1. PICK l \in Loads : StartRefresh(l, y, FALSE)
    BY <1>2 DEF ChangeYear
  <2>2. \A k \in Loads : BySave(k)' => BySave(k)
    BY <2>1, RefreshIsBySave DEF PageInv
  <2>. QED
    BY <1>2, <2>2, SaveUntouched DEF ChangeYear, PageInv
<1>3. ASSUME NEW m \in Months, NEW c \in Categories, NEW text \in Cells,
             HandleExpenseChange(m, c, text)
      PROVE  SaveInv'
  <2>1. \A l \in Loads : BySave(l)' => BySave(l)
    BY <1>3 DEF HandleExpenseChange, BySave
  <2>. QED
    BY <1>3, <2>1, SaveUntouched DEF HandleExpenseChange, PageInv
<1>4. CASE PageMove
  BY <1>2, <1>3, <1>4, LoadingKeepsSaveInv, SavingKeepsSaveInv DEF PageMove, PageNext
<1>5. CASE SettingsMove \/ IncomeMove
  BY <1>1, <1>5 DEF SettingsMove, IncomeMove
<1>. QED
  BY <1>1, <1>4, <1>5 DEF Next, vars

\* For any grid, any loss of requests and any order of answers, a Save that the
\* page reports has stored what it sent: the cells that differed from the
\* amounts shown in the render it was pressed in, under the year of that
\* render's header (FinancesPage.tsx:131-160, service.go:121-140 of finance).
\* It says nothing of inputs a load replaced before, or of the year they were
\* typed under.
THEOREM SavesStoreWhatTheySend == Spec => SentIsListed
<1>1. ASSUME PageInv, [Next]_vars, SaysSaved, NEW m \in Months, Fits(Payload(saving, m)),
             NEW c \in Changed(saving, m)
      PROVE  ListedExpenses(saving.year)[m][c] = Typed(saving.grid[m][c])
  <2>1. saving # Nothing /\ ~saved /\ saved'
    BY <1>1 DEF SaysSaved, PageInv, SaveInv
  <2>2. PICK l \in Loads : BySave(l)
    BY <1>1, <2>1
       DEF vars, pageVars, Next, SettingsMove, IncomeMove, PageMove, PageNext, ChangeYear, ReadYear,
           Show, RefreshFails, EndRefresh, HandleExpenseChange, PressSave, PutMonth, PutFails,
           RefreshAfterSave, BySave
  <2>3. m < saving.month
    BY <1>1, <2>2, MonthsAreCounted DEF PageInv, SaveInv
  <2>. QED
    BY <1>1, <2>1, <2>3 DEF PageInv, SaveInv, Stored
<1>2. PageInv /\ [Next]_vars => [SaysSaved =>
         \A m \in Months :
            Fits(Payload(saving, m)) =>
                \A c \in Changed(saving, m) :
                    ListedExpenses(saving.year)[m][c] = Typed(saving.grid[m][c])]_pageVars
  BY <1>1
<1>3. TypeOK => YearTypeOK /\ PageTypeOK
  BY DEF TypeOK
<1>. QED
  BY <1>2, <1>3, TypeCorrect, SaveInvInit, PageKeepsSaveInv, PTL
     DEF Spec, PageInv, SentIsListed


-----------------------------------------------------------------------------
(* The totals of a year *)

\* Words that stand for numbers add up to the word of their sum.
LEMMA WrapOfWraps ==
    ASSUME NEW S, IsFiniteSet(S), NEW f, NEW g, NumbersOn(f, S), \A x \in S : g[x] = Wrap(f[x])
    PROVE  NumbersOn(g, S) /\ Wrap(Sum(g, S)) = Wrap(Sum(f, S))
<1>1. \A x \in S : f[x] \in Int
  BY DEF NumbersOn
<1>2. \A x \in S : g[x] \in Int /\ Congruent(g[x], f[x], Modulus)
  BY <1>1, WrapGoesRound DEF Congruent
<1>3. NumbersOn(g, S)
  BY <1>2 DEF NumbersOn
<1>4. Modulus \in Int
  BY WordIsEven
<1>5. Congruent(Sum(g, S), Sum(f, S), Modulus)
  BY <1>2, <1>3, <1>4, SumCongruent
<1>6. PICK k \in Int : Sum(g, S) = Sum(f, S) + Modulus * k
  BY <1>5 DEF Congruent
<1>7. Sum(g, S) \in Int /\ Sum(f, S) \in Int
  BY <1>3, SumType
<1>. QED
  BY <1>3, <1>6, <1>7, WrapSame

LEMMA WrapOfTwo ==
    ASSUME NEW a \in Int, NEW b \in Int
    PROVE  Wrap(Wrap(a) + Wrap(b)) = Wrap(a + b)
<1>1. PICK k \in Int : Wrap(a) = a + Modulus * k
  BY WrapGoesRound
<1>2. PICK l \in Int : Wrap(b) = b + Modulus * l
  BY WrapGoesRound
<1>. DEFINE m == Modulus
            x == Wrap(a)
            y == Wrap(b)
<1>3. m \in Int /\ x \in Int /\ y \in Int /\ x = a + m * k /\ y = b + m * l
  BY <1>1, <1>2, WordIsEven, WrapGoesRound
<1>. DEFINE n == k + l
            u == x + y
            v == a + b
<1>. HIDE DEF m, x, y
<1>4. n \in Int /\ m * n = m * k + m * l /\ m * k \in Int /\ m * l \in Int
  BY <1>3
<1>5. u \in Int /\ v \in Int /\ u = v + m * n
  BY <1>3, <1>4
<1>. HIDE DEF n, u, v
<1>6. Wrap(u) = Wrap(v)
  BY <1>4, <1>5, WrapSame DEF m
<1>. QED
  BY <1>6 DEF u, v, x, y

\* A table of numbers, added up row by row or column by column, each sum
\* wrapping around.
LEMMA WrappedTable ==
    ASSUME NEW S, NEW T, IsFiniteSet(S), IsFiniteSet(T), NEW f, \A x \in S : NumbersOn(f[x], T)
    PROVE  Wrap(Sum([x \in S |-> Wrap(Sum(f[x], T))], S)) =
             Wrap(Sum([y \in T |-> Wrap(Sum([x \in S |-> f[x][y]], S))], T))
<1>. DEFINE row == [x \in S |-> Sum(f[x], T)]
            column == [y \in T |-> Sum([x \in S |-> f[x][y]], S)]
            rowWord == [x \in S |-> Wrap(Sum(f[x], T))]
            columnWord == [y \in T |-> Wrap(Sum([x \in S |-> f[x][y]], S))]
<1>1. NumbersOn(row, S)
  <2>1. \A x \in S : Sum(f[x], T) \in Int
    <3>. SUFFICES ASSUME NEW x \in S PROVE Sum(f[x], T) \in Int
      OBVIOUS
    <3>. DEFINE r == f[x]
    <3>1. NumbersOn(r, T)
      OBVIOUS
    <3>. HIDE DEF r
    <3>2. Sum(r, T) \in Int
      BY <3>1, SumType
    <3>. QED
      BY <3>2 DEF r
  <2>. QED
    BY <2>1 DEF NumbersOn
<1>2. NumbersOn(column, T)
  <2>1. ASSUME NEW y \in T PROVE Sum([x \in S |-> f[x][y]], S) \in Int
    <3>. DEFINE r == [x \in S |-> f[x][y]]
    <3>1. NumbersOn(r, S)
      BY DEF NumbersOn
    <3>. HIDE DEF r
    <3>2. Sum(r, S) \in Int
      BY <3>1, SumType
    <3>. QED
      BY <3>2 DEF r
  <2>. QED
    BY <2>1 DEF NumbersOn
<1>3. /\ \A x \in S : rowWord[x] = Wrap(row[x])
      /\ \A y \in T : columnWord[y] = Wrap(column[y])
  OBVIOUS
<1>4. Sum(row, S) = Sum(column, T)
  BY SumExchange
<1>. HIDE DEF row, column, rowWord, columnWord
<1>5. Wrap(Sum(rowWord, S)) = Wrap(Sum(row, S))
  BY <1>1, <1>3, WrapOfWraps
<1>6. Wrap(Sum(columnWord, T)) = Wrap(Sum(column, T))
  BY <1>2, <1>3, WrapOfWraps
<1>7. Wrap(Sum(rowWord, S)) = Wrap(Sum(columnWord, T))
  BY <1>4, <1>5, <1>6
<1>. QED
  BY <1>7 DEF rowWord, columnWord

\* Half a kopeck and more is rounded up.
LEMMA AverageIsClose ==
    ASSUME NEW total \in Nat, NEW count \in Nat \ {0}
    PROVE  /\ AverageMoney(total, count) \in Int
           /\ -count < 2 * (AverageMoney(total, count) * count - total)
           /\ 2 * (AverageMoney(total, count) * count - total) <= count
<1>. DEFINE q == total \div count
            r == total % count
            rest == total - q * count
<1>1. q \in Int /\ r \in Int /\ total = count * q + r /\ 0 <= r /\ r < count
  OBVIOUS
<1>2. AverageMoney(total, count) = IF 2 * rest >= count THEN q + 1 ELSE q
  BY DEF AverageMoney
<1>. HIDE DEF q, r
<1>3. q * count = count * q /\ count * q \in Int /\ (q + 1) * count = count * q + count
  BY <1>1
<1>4. rest = r
  BY <1>1, <1>3
<1>. HIDE DEF rest
<1>5. CASE 2 * r >= count
  BY <1>1, <1>2, <1>3, <1>4, <1>5
<1>6. CASE 2 * r < count
  BY <1>1, <1>2, <1>3, <1>4, <1>6
<1>. QED
  BY <1>1, <1>5, <1>6


LEMMA MonthsAreFinite == IsFiniteSet(Months)
<1>1. IsFiniteSet(1 .. Cardinality(Months))
  BY MonthsAreCounted, FS_Interval
<1>. QED
  BY <1>1, MonthsAreCounted

\* A year of expenses, month by month and category by category.
LEMMA ExpensesAddUp ==
    ASSUME NEW L, L \in ExpenseYear
    PROVE  LET byMonth == [m \in Months |-> Total(L[m])]
               byCategory == [c \in Categories |-> Total([m \in Months |-> L[m][c]])]
               spent == [m \in Months |-> SpendingTotal(L[m])]
           IN  /\ Total(byMonth) = Total(byCategory)
               /\ Total(byMonth) = Wrap(Total(spent) + TotalOf(byCategory, Transfers))
<1>. DEFINE byMonth == [m \in Months |-> Total(L[m])]
            byCategory == [c \in Categories |-> Total([m \in Months |-> L[m][c]])]
            spent == [m \in Months |-> SpendingTotal(L[m])]
            rest == Categories \ Transfers
            rows == [m \in Months |-> Wrap(Sum(L[m], Categories))]
            columns == [c \in Categories |-> Wrap(Sum([m \in Months |-> L[m][c]], Months))]
            spentRows == [m \in Months |-> Wrap(Sum(L[m], rest))]
            spentColumns == [c \in rest |-> Wrap(Sum([m \in Months |-> L[m][c]], Months))]
<1>1. /\ IsFiniteSet(Months) /\ IsFiniteSet(Categories) /\ IsFiniteSet(rest)
      /\ rest \in SUBSET Categories /\ Transfers \in SUBSET Categories
      /\ IsFiniteSet(Transfers)
  BY MonthsAreFinite, CategoriesAreListed, TransfersAreCategories, FS_Subset
<1>2. \A m \in Months : L[m] \in [Categories -> Amounts]
  BY DEF ExpenseYear, ExpenseMonth
<1>2a. ASSUME NEW m \in Months, NEW c \in Categories PROVE L[m][c] \in Int
  <2>1. L[m] \in [Categories -> Amounts]
    BY <1>2
  <2>2. \A a \in Amounts : a \in Int
    BY AmountFacts
  <2>3. L[m][c] \in Amounts
    BY <2>1
  <2>. QED
    BY <2>2, <2>3
<1>3. \A m \in Months : NumbersOn(L[m], Categories) /\ NumbersOn(L[m], rest)
  BY <1>2a DEF NumbersOn
<1>4. byMonth = rows
  <2>1. \A m \in Months : Total(L[m]) = Wrap(Sum(L[m], Categories))
    <3>. SUFFICES ASSUME NEW m \in Months PROVE Total(L[m]) = Wrap(Sum(L[m], Categories))
      OBVIOUS
    <3>. DEFINE r == L[m]
    <3>1. DOMAIN r = Categories
      BY <1>2
    <3>. HIDE DEF r
    <3>2. Total(r) = Wrap(Sum(r, Categories))
      BY <3>1, SumOfAll DEF Total
    <3>. QED
      BY <3>2 DEF r
  <2>. QED
    BY <2>1
<1>5. byCategory = columns
  <2>1. \A c \in Categories : Total([m \in Months |-> L[m][c]])
                                = Wrap(Sum([m \in Months |-> L[m][c]], Months))
    BY SumOfAll DEF Total
  <2>. QED
    BY <2>1
<1>6. spent = spentRows
  BY DEF SpendingTotal, TotalOf, Sum
<1>7. DOMAIN rows = Months /\ DOMAIN columns = Categories /\ DOMAIN spentRows = Months
  OBVIOUS
<1>8. Wrap(Sum(rows, Months)) = Wrap(Sum(columns, Categories))
  BY <1>1, <1>3, WrappedTable
<1>9. Wrap(Sum(spentRows, Months)) = Wrap(Sum(spentColumns, rest))
  <2>. HIDE DEF rest
  <2>. QED
    BY <1>1, <1>3, WrappedTable
<1>10. NumbersOn(columns, Categories) /\ NumbersOn(spentColumns, rest)
       /\ NumbersOn(columns, rest) /\ NumbersOn(columns, Transfers)
       /\ \A c \in rest : columns[c] = spentColumns[c]
  <2>1. ASSUME NEW c \in Categories
        PROVE  Wrap(Sum([m \in Months |-> L[m][c]], Months)) \in Int
    <3>. DEFINE r == [m \in Months |-> L[m][c]]
    <3>1. NumbersOn(r, Months)
      <4>1. \A m \in Months : L[m][c] \in Int
        BY <1>2a
      <4>2. \A m \in Months : r[m] = L[m][c]
        OBVIOUS
      <4>. HIDE DEF r
      <4>. QED
        BY <4>1, <4>2 DEF NumbersOn
    <3>. HIDE DEF r
    <3>2. Wrap(Sum(r, Months)) \in Int
      BY <1>1, <3>1, SumType, WrapGoesRound
    <3>. QED
      BY <3>2 DEF r
  <2>2. \A c \in Categories : columns[c] \in Int
    BY <2>1
  <2>3. \A c \in rest : columns[c] = spentColumns[c]
    OBVIOUS
  <2>. HIDE DEF columns, spentColumns, rest
  <2>. QED
    BY <1>1, <2>2, <2>3 DEF NumbersOn
<1>. HIDE DEF rows, columns, spentRows, spentColumns, byMonth, byCategory, spent
<1>11. Sum(columns, Categories) = Sum(columns, rest) + Sum(columns, Transfers)
  BY <1>1, <1>10, SumSplit
<1>. HIDE DEF rest
<1>12. Sum(columns, rest) = Sum(spentColumns, rest)
  BY <1>1, <1>10, SumSame
<1>13. Sum(spentColumns, rest) \in Int /\ Sum(columns, Transfers) \in Int
  BY <1>1, <1>10, SumType
<1>14. Total(byMonth) = Wrap(Sum(rows, Months))
  BY <1>4, <1>7, SumOfAll DEF Total
<1>15. Total(byCategory) = Wrap(Sum(columns, Categories))
  BY <1>5, <1>7, SumOfAll DEF Total
<1>16. Total(spent) = Wrap(Sum(spentColumns, rest))
  BY <1>6, <1>7, <1>9, SumOfAll DEF Total
<1>17. TotalOf(byCategory, Transfers) = Wrap(Sum(columns, Transfers))
  BY <1>5 DEF TotalOf, Sum
<1>18. Total(byMonth) = Total(byCategory)
  BY <1>8, <1>14, <1>15
<1>19. Total(byMonth) = Wrap(Total(spent) + TotalOf(byCategory, Transfers))
  BY <1>8, <1>11, <1>12, <1>13, <1>14, <1>16, <1>17, WrapOfTwo
<1>. QED
  BY <1>18, <1>19 DEF byMonth, byCategory, spent

\* The income of a year is that of its filled months.
LEMMA IncomeAddsUp ==
    ASSUME YearTypeOK, NEW y \in Years,
           Fits([m \in FilledMonths(y) |-> earnings[<<y, m>>].total])
    PROVE  /\ SumFunction([m \in FilledMonths(y) |-> earnings[<<y, m>>].total]) \in Nat
           /\ AnnualIncome(y) = SumFunction([m \in FilledMonths(y) |-> earnings[<<y, m>>].total])
<1>. DEFINE F == FilledMonths(y)
            earned == [m \in F |-> earnings[<<y, m>>].total]
            all == [m \in Months |-> ListedIncome(y)[m].total]
<1>1. F \in SUBSET Months /\ IsFiniteSet(Months)
  BY MonthsAreFinite DEF FilledMonths
<1>2. ASSUME NEW m \in F PROVE earnings[<<y, m>>] \in IncomeMonth /\ ListedIncome(y)[m] = earnings[<<y, m>>]
  BY <1>1 DEF FilledMonths, ListedIncome, ListIncomeActuals, YearTypeOK
<1>3. \A m \in F : earned[m] \in Nat /\ all[m] = earned[m]
  <2>1. \A m \in F : earnings[<<y, m>>].total \in Nat
    BY <1>2, AmountFacts DEF IncomeMonth
  <2>. QED
    BY <1>1, <1>2, <2>1
<1>4. \A m \in Months \ F : all[m] = 0
  BY DEF FilledMonths, EmptyIncomeMonth
<1>5. DOMAIN earned = F /\ DOMAIN all = Months
  OBVIOUS
<1>. HIDE DEF earned, all, F
<1>6. IsFiniteSet(F) /\ IsFiniteSet(Months \ F) /\ NumbersOn(all, Months) /\ NumbersOn(all, F)
  <2>1. \A m \in Months : all[m] \in Int
    BY <1>3, <1>4
  <2>. QED
    BY <1>1, <2>1, FS_Subset DEF NumbersOn
<1>7. Sum(all, Months) = Sum(all, Months \ F) + Sum(all, F)
  BY <1>1, <1>6, SumSplit
<1>8. Sum(all, Months \ F) = 0
  BY ONLY <1>4, <1>6, SumOfZeros
<1>9. Sum(all, F) = Sum(earned, F)
  BY ONLY <1>3, <1>6, SumSame
<1>10. Sum(earned, F) \in Nat
  BY ONLY <1>3, <1>6, SumOfNaturals
<1>11. SumFunction(earned) = Sum(earned, F) /\ SumFunction(all) = Sum(all, Months)
  BY <1>5, SumOfAll
<1>12. SumFunction(earned) \in Nat /\ SumFunction(all) = SumFunction(earned)
  BY <1>7, <1>8, <1>9, <1>10, <1>11
<1>13. SumFunction(earned) < Modulus \div 2
  BY DEF Fits, earned, F
<1>14. AnnualIncome(y) = Wrap(SumFunction(all))
  BY DEF AnnualIncome, Total, all
<1>15. AnnualIncome(y) = SumFunction(earned)
  BY <1>12, <1>13, <1>14, WrapKeeps
<1>. QED
  BY <1>12, <1>15 DEF earned, F

\* For any categories, months and word, the totals of a year are the same added
\* up month by month or category by category, and the average income is right
\* to half a kopeck (service.go:77-119, 140-181 of finance, money.go:79-90).
THEOREM YearsAddUp == Spec => []TotalsAgree
<1>1. ASSUME YearTypeOK, NEW y \in Years
      PROVE  LET byCategory == AnnualTotalsByCategory(y)
                 count == Cardinality(FilledMonths(y))
                 earned == [m \in FilledMonths(y) |-> earnings[<<y, m>>].total]
                 excess == AverageMonthlyTotal(y) * count - SumFunction(earned)
             IN  /\ AnnualTotal(y) = Total(byCategory)
                 /\ AnnualTotal(y) = Wrap(AnnualSpendingTotal(y) + TotalOf(byCategory, Transfers))
                 /\ (Fits(earned) /\ count > 0) => -count < 2 * excess /\ 2 * excess <= count
  <2>. DEFINE byCategory == AnnualTotalsByCategory(y)
              count == Cardinality(FilledMonths(y))
              earned == [m \in FilledMonths(y) |-> earnings[<<y, m>>].total]
              excess == AverageMonthlyTotal(y) * count - SumFunction(earned)
  <2>1. ListedExpenses(y) \in ExpenseYear
    BY <1>1, ListedIsAYear
  <2>2. /\ AnnualTotal(y) = Total(byCategory)
        /\ AnnualTotal(y) = Wrap(AnnualSpendingTotal(y) + TotalOf(byCategory, Transfers))
    BY <2>1, ExpensesAddUp DEF AnnualTotal, AnnualTotalsByCategory, AnnualSpendingTotal
  <2>3. ASSUME Fits(earned), count > 0 PROVE -count < 2 * excess /\ 2 * excess <= count
    <3>1. SumFunction(earned) \in Nat /\ AnnualIncome(y) = SumFunction(earned)
      BY <1>1, <2>3, IncomeAddsUp
    <3>2. FilledMonths(y) \in SUBSET Months
      BY DEF FilledMonths
    <3>3. count \in Nat \ {0}
      <4>1. count \in Nat
        BY <3>2, MonthsAreFinite, FS_Subset, FS_CardinalityType
      <4>. QED
        BY <2>3, <4>1
    <3>4. AverageMonthlyTotal(y) = AverageMoney(SumFunction(earned), count)
      BY <3>1 DEF AverageMonthlyTotal
    <3>. DEFINE total == SumFunction(earned)
    <3>. HIDE DEF count, total
    <3>5. /\ -count < 2 * (AverageMoney(total, count) * count - total)
          /\ 2 * (AverageMoney(total, count) * count - total) <= count
      BY <3>1, <3>3, AverageIsClose DEF total
    <3>6. excess = AverageMoney(total, count) * count - total
      BY <3>4 DEF total
    <3>. QED
      BY <3>5, <3>6
  <2>. QED
    BY <2>2, <2>3
<1>2. TypeOK => TotalsAgree
  BY <1>1 DEF TypeOK, TotalsAgree
<1>. QED
  BY <1>2, TypeCorrect, PTL

=============================================================================
