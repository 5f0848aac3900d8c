------------------------------ MODULE MCScheduler ------------------------------
(***************************************************************************)
(* Instances of Scheduler for TLC: which faults may strike, and when       *)
(* callers want their jobs.                                                *)
(***************************************************************************)
EXTENDS Scheduler, TLC

At(m, p) == [minute |-> m, phase |-> p]

\* A job already due, one for the middle of minute 1, one for minute 2.
SomeRequests == {At(0, 0), At(1, 1), At(2, 0)}

\* The middle of minute 1: to come, due, or over, depending on the call.
OneRequest == {At(1, 1)}

JobSymmetry == Permutations(Jobs)
================================================================================
