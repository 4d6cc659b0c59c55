--------------------------- MODULE MCWorkflowRuns ---------------------------
(* Instances of WorkflowRuns for TLC. *)
EXTENDS WorkflowRuns, TLC

\* What a completed step costs.
MCCosts == {1}

=============================================================================
