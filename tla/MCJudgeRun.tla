----------------------------- MODULE MCJudgeRun -----------------------------
(***************************************************************************)
(* JudgeRun for TLC. A liveness property is checked, so no symmetry.       *)
(***************************************************************************)
EXTENDS JudgeRun
=============================================================================
