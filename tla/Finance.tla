------------------------------- MODULE Finance -------------------------------
(***************************************************************************)
(* The finance part of the hub: its settings, the income of its months and *)
(* the expenses behind the page, in one server.                            *)
(***************************************************************************)
EXTENDS FinanceSettings, FinancePage

vars == <<settingsVars, earnings, pageVars>>

Init == SettingsInit /\ IncomeInit /\ PageInit

SettingsMove == SettingsNext /\ UNCHANGED <<earnings, pageVars>>
IncomeMove == IncomeNext /\ UNCHANGED <<settingsVars, pageVars>>
PageMove == PageNext /\ UNCHANGED <<settingsVars, earnings>>

Next == SettingsMove \/ IncomeMove \/ PageMove
Spec == Init /\ [][Next]_vars

TypeOK == SettingsTypeOK /\ YearTypeOK /\ PageTypeOK
=============================================================================
