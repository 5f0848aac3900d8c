-------------------------- MODULE MCWorkflowExecutor --------------------------
(***************************************************************************)
(* Instances of WorkflowExecutor for TLC: workflows and kinds of faults.   *)
(***************************************************************************)
EXTENDS WorkflowExecutor, TLC

ActionDelayAction == <<"regular", "delay", "regular">>
ShortDelayAction == <<"short", "regular">>

WorkerSymmetry == Permutations(Workers)
================================================================================
