--------------------------- MODULE MCJudgeMaster ---------------------------
(***************************************************************************)
(* JudgeMaster for TLC: a few tasks and hosts; hosts are ordered numbers.  *)
(* No symmetry is declared, as the run checks a liveness property.         *)
(***************************************************************************)
EXTENDS JudgeMaster
=============================================================================
