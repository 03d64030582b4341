----------------------------- MODULE MCTransfer -----------------------------
(***************************************************************************)
(* Transfer for TLC: two rows of JudgeHost that name the same judge.       *)
(***************************************************************************)
EXTENDS Transfer, TLC

CONSTANTS j1

MCJudgeOf == [h \in Host |-> j1]

MCSymmetry == Permutations(Content) \cup Permutations(Host)
=============================================================================
