------------------------------ MODULE MCFinance ------------------------------
(***************************************************************************)
(* Finance for TLC.  Its three parts have no table in common, so whatever  *)
(* an interleaving of them shows, one of them shows alone: each moves only *)
(* where the other two have not.                                           *)
(***************************************************************************)
EXTENDS Finance, TLC

OneMoves ==
    \/ IncomeInit /\ PageInit /\ SettingsMove
    \/ SettingsInit /\ PageInit /\ IncomeMove
    \/ SettingsInit /\ IncomeInit /\ PageMove
MCSpec == Init /\ [][OneMoves]_vars

\* Connections, loads and the categories of one kind are interchangeable.
Symmetry ==
    Permutations(Clients) \cup Permutations(Loads) \cup Permutations(Categories \ Transfers)
=============================================================================
