-------------------------- MODULE MCAbsenceCondition ---------------------------
(***************************************************************************)
(* Instances of AbsenceCondition for TLC.                                  *)
(***************************************************************************)
EXTENDS AbsenceCondition, TLC

CONSTANTS e1, e2  \* the runs; the duration that the second asks for does not parse

OneSecond == [e \in Runs |-> IF e = e2 THEN Unsupported ELSE 1]
TwoSeconds == [e \in Runs |-> 2]

\* West of the server, its own zone, and east of it.
ThreeZones == {-1, 0, 1}

Here == {0}

\* Neither organisations nor the instants of a second are told apart.
Alike == Permutations(Orgs) \cup Permutations(Instants)
================================================================================
