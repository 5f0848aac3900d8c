---------------------------- MODULE MCZkCoordinator ----------------------------
(***************************************************************************)
(* Instances of ZkCoordinator for TLC.                                     *)
(***************************************************************************)
EXTENDS ZkCoordinator, TLC

CallerSymmetry == Permutations(Callers) \cup Permutations(Reconnectors)
================================================================================
