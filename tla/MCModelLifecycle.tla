-------------------------- MODULE MCModelLifecycle --------------------------
(***************************************************************************)
(* Instances of ModelLifecycle for TLC.                                    *)
(***************************************************************************)
EXTENDS ModelLifecycle, TLC

CONSTANTS m1, m2, m3

\* Three models of one tag: m1 and m2 share an area, m3 has none.
MCTag == [m \in Models |-> "baseline"]
MCArea == [m \in Models |-> IF m = m3 THEN NoArea ELSE "downtown"]

RequestWorkerSymmetry == Permutations(Requests) \cup Permutations(Workers)
=============================================================================
