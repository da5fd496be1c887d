-------------------------- MODULE MCWorkflowScopes --------------------------
(* Instances of WorkflowScopes for TLC. *)
EXTENDS WorkflowScopes
============================================================================
