---------------------------- MODULE MCAgentWorkflow ----------------------------
(***************************************************************************)
(* Instances of AgentWorkflow for TLC.  The scores are two values on       *)
(* either side of the threshold and, where the order of versions matters,  *)
(* two below it.                                                           *)
(***************************************************************************)
EXTENDS AgentWorkflowInvariant, TLC

\* The three reviewers do the same thing, and nothing looks into an override.
WorkflowSymmetry == Permutations(Roles) \cup Permutations(Overrides)

================================================================================
