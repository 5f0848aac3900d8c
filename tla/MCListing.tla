------------------------------- MODULE MCListing -------------------------------
(***************************************************************************)
(* Instances of Listing for TLC.                                           *)
(***************************************************************************)
EXTENDS Listing, TLC

CONSTANTS a, b, c, d, v, w

FourRuns == {a, b, c, d}
TwoWorkflows == {v, w}
OneOfType == {w}

\* A listing compares the rows of one index only: one order does for all.
InOrder == (a :> 1) @@ (b :> 2) @@ (c :> 3) @@ (d :> 4) @@ (v :> 5) @@ (w :> 6)
================================================================================
