-------------------------- MODULE CompareIgnoreWs --------------------------
(***************************************************************************)
(* web/evaluators/compare_ignore_ws.cpp, the evaluator every imported task *)
(* gets: it reads the output of a program and the correct output token by  *)
(* token. A file is the sequence of its tokens; white space is gone.       *)
(***************************************************************************)
EXTENDS Naturals, Sequences

CONSTANTS
  Token,
  File,            \* the files that are compared
  NoToken          \* a string that nothing was read into yet

ASSUME FileAssumption == File \subseteq Seq(Token)
ASSUME NoTokenAssumption == NoToken \notin Token

VARIABLES
  at,              \* where main() is; "idle" before it has started
  output, correct, \* the two files
  outputRead,      \* the number of tokens read from each
  correctRead,
  outputOk,        \* the state of each stream, !fail()
  correctOk,
  o, c,            \* the two strings
  success          \* what end() printed

compareVars == <<at, output, correct, outputRead, correctRead, outputOk, correctOk, o, c, success>>

CompareTypeOK ==
  /\ at \in {"idle", "output", "correct", "compare", "decide", "done"}
  /\ output \in Seq(Token) /\ correct \in Seq(Token)
  /\ outputRead \in 0..Len(output) /\ correctRead \in 0..Len(correct)
  /\ outputOk \in BOOLEAN /\ correctOk \in BOOLEAN
  /\ o \in Token \cup {NoToken} /\ c \in Token \cup {NoToken}
  /\ success \in BOOLEAN

CompareInit ==
  /\ at = "idle"
  /\ output = <<>> /\ correct = <<>>
  /\ outputRead = 0 /\ correctRead = 0
  /\ outputOk = TRUE /\ correctOk = TRUE
  /\ o = NoToken /\ c = NoToken
  /\ success = FALSE

-----------------------------------------------------------------------------
(* main() opens the files. *)
Open(f, g) ==
  /\ at = "idle"
  /\ at' = "output"
  /\ output' = f /\ correct' = g
  /\ UNCHANGED <<outputRead, correctRead, outputOk, correctOk, o, c, success>>

(* Mutant: a read that fails is counted. *)
ReadOutput_CountsAll ==
  /\ at = "output"
  /\ at' = "correct"
  /\ outputRead' = outputRead + 1
  /\ IF outputRead < Len(output)
       THEN o' = output[outputRead + 1] /\ UNCHANGED outputOk
       ELSE outputOk' = FALSE /\ UNCHANGED o
  /\ UNCHANGED <<output, correct, correctRead, correctOk, c, success>>

(* output >> o: at the end of the file the stream fails and o is not        *)
(* touched, and so it is when the stream has failed before.                 *)
ReadOutput ==
  /\ at = "output"
  /\ at' = "correct"
  /\ IF outputRead < Len(output)
       THEN /\ outputRead' = outputRead + 1
            /\ o' = output[outputRead + 1]
            /\ UNCHANGED outputOk
       ELSE /\ outputOk' = FALSE
            /\ UNCHANGED <<outputRead, o>>
  /\ UNCHANGED <<output, correct, correctRead, correctOk, c, success>>

(* The comma: whether the loop goes on depends on this read alone. *)
ReadCorrect ==
  /\ at = "correct"
  /\ IF correctRead < Len(correct)
       THEN /\ correctRead' = correctRead + 1
            /\ c' = correct[correctRead + 1]
            /\ at' = "compare"
            /\ UNCHANGED correctOk
       ELSE /\ correctOk' = FALSE
            /\ at' = "decide"
            /\ UNCHANGED <<correctRead, c>>
  /\ UNCHANGED <<output, correct, outputRead, outputOk, o, success>>

End(ok) ==
  /\ at' = "done"
  /\ success' = ok
  /\ UNCHANGED <<output, correct, outputRead, correctRead, outputOk, correctOk, o, c>>

CompareTokens ==
  /\ at = "compare"
  /\ \/ c # o /\ End(FALSE)
     \/ /\ c = o
        /\ at' = "output"
        /\ UNCHANGED <<output, correct, outputRead, correctRead, outputOk, correctOk, o, c, success>>

(* Mutant: "&&" in place of "||". *)
Decide_And ==
  /\ at = "decide"
  /\ End(~(outputOk /\ correctOk))

(* Both files must have ended. *)
Decide ==
  /\ at = "decide"
  /\ End(~(outputOk \/ correctOk))

CompareStep == ReadOutput \/ ReadCorrect \/ CompareTokens \/ Decide

CompareNext == (\E f, g \in File : Open(f, g)) \/ CompareStep

CompareSpec == CompareInit /\ [][CompareNext]_compareVars

-----------------------------------------------------------------------------
(* Properties *)

(* g is f, or f with its last token repeated. *)
Accepts(f, g) ==
  /\ Len(f) <= Len(g)
  /\ \A n \in 1..Len(g) : Len(f) > 0 /\ g[n] = f[IF n <= Len(f) THEN n ELSE Len(f)]

(* What the evaluator accepts, exactly. The last token of a shorter output  *)
(* stays in o and is compared again and again.                              *)
AcceptsExactly == at = "done" => (success <=> Accepts(output, correct))

(* What it is for: an output with other tokens than the correct output is   *)
(* not accepted. It does not hold.                                          *)
AcceptsOnlyEqual == at = "done" /\ success => output = correct
=============================================================================
