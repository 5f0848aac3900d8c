---------------------------- MODULE MCQueueConsumer ----------------------------
(***************************************************************************)
(* Instances of QueueConsumer, and so of Ingestion, for TLC.               *)
(***************************************************************************)
EXTENDS QueueConsumer, TLC

CONSTANTS r1, r2, s1, a, b

\* Both requests post the same signal.
SameSignal == (r1 :> s1) @@ (r2 :> s1)

\* Two workflows that match.
TwoWorkflows == {<<a, 1>>, <<b, 1>>}
================================================================================
