---------------------------- MODULE MCFileStore ----------------------------
(***************************************************************************)
(* FileStore for TLC: an empty content and one of two blocks, with fewer   *)
(* temporary names than savers so that names are used again.               *)
(***************************************************************************)
EXTENDS FileStore, TLC

CONSTANTS empty, long

MCContent == {empty, long}
MCBlocks == [c \in MCContent |-> IF c = empty THEN 0 ELSE 2]

MCSymmetry == Permutations(Saver) \cup Permutations(TmpName)
=============================================================================
