---------------------------- MODULE MCWorkflowCache ----------------------------
(***************************************************************************)
(* Instances of WorkflowCache for TLC.                                     *)
(***************************************************************************)
EXTENDS WorkflowCache, TLC

CONSTANTS w1, w2, t1

OneType == (w1 :> t1) @@ (w2 :> t1)
================================================================================
