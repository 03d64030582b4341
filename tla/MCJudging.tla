----------------------------- MODULE MCJudging -----------------------------
(***************************************************************************)
(* Judging for TLC: the first group has one test, the others two.          *)
(***************************************************************************)
EXTENDS Judging, TLC

MCNumTests == [g \in 1..NumGroups |-> IF g = 1 THEN 1 ELSE 2]
MCPoints == [g \in 1..NumGroups |-> g]

MCSymmetry == Permutations(Sub) \cup Permutations(Host)
=============================================================================
