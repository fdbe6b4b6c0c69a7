----------------------- MODULE MCOrchestratorWorkflow -----------------------
(***************************************************************************)
(* Instances of OrchestratorWorkflow for TLC.                              *)
(***************************************************************************)
EXTENDS OrchestratorWorkflow, TLC

\* Requests and workflow ids are interchangeable; liveness runs do not use it.
RequestSymmetry == Permutations(Requests)
WorkflowSymmetry == Permutations(Workflows)
RowSymmetry == RequestSymmetry \cup WorkflowSymmetry
=============================================================================
