---------------------------- MODULE MCEvaluator ----------------------------
(***************************************************************************)
(* EvaluatorEditing for TLC. Sources and hosts are interchangeable; the    *)
(* run that checks a liveness property uses no symmetry.                   *)
(***************************************************************************)
EXTENDS EvaluatorEditing, TLC

MCSymmetry == Permutations(Source) \cup Permutations(Host)
=============================================================================
