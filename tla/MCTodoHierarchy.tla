--------------------------- MODULE MCTodoHierarchy ---------------------------
(***************************************************************************)
(* Instances of TodoHierarchy for TLC.                                     *)
(***************************************************************************)
EXTENDS TodoHierarchy, TLC

\* Ids are interchangeable, and so are connections.
IdSymmetry == Permutations(Projects) \cup Permutations(Tasks) \cup Permutations(Clients)
=============================================================================
