------------------------- MODULE MCWorkflowRestarts -------------------------
(* The pair of MCWorkflowEngine under WorkflowRestarts, for TLC. *)
EXTENDS WorkflowRestarts, MCWorkflowEngine
=============================================================================
