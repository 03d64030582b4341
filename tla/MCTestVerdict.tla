--------------------------- MODULE MCTestVerdict ---------------------------
(***************************************************************************)
(* TestVerdict for TLC: every file of up to two tokens, a time limit of    *)
(* one and a half seconds in ticks of half a second.                       *)
(***************************************************************************)
EXTENDS TestVerdict

MCFile == {<<>>} \cup {<<a>> : a \in Token} \cup (Token \X Token)
=============================================================================
