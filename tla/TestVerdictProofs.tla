------------------------- MODULE TestVerdictProofs -------------------------
(***************************************************************************)
(* Proofs about CompareIgnoreWs, for files of any length, and about        *)
(* TestVerdict, whose evaluator it is: what each verdict says of the       *)
(* program, for every time limit.                                          *)
(***************************************************************************)
EXTENDS TestVerdict, TLAPS

(* The evaluator by itself. *)

(* The first n tokens of the correct output were compared and were equal.   *)
EqualUpTo(n) ==
  \A k \in 1..n : Len(output) > 0 /\ correct[k] = output[IF k <= Len(output) THEN k ELSE Len(output)]

(* After r reads of output. *)
HasRead(r) ==
  /\ outputRead = IF r <= Len(output) THEN r ELSE Len(output)
  /\ outputOk <=> r <= Len(output)

Round ==
  /\ o = IF outputRead = 0 THEN NoToken ELSE output[outputRead]
  /\ at = "idle" => /\ outputRead = 0 /\ correctRead = 0 /\ outputOk /\ correctOk
  /\ at = "output" => correctOk /\ HasRead(correctRead) /\ EqualUpTo(correctRead)
  /\ at = "correct" => correctOk /\ HasRead(correctRead + 1) /\ EqualUpTo(correctRead)
  /\ at = "compare" => /\ correctOk /\ HasRead(correctRead) /\ EqualUpTo(correctRead - 1)
                       /\ correctRead > 0 /\ c = correct[correctRead]
  /\ at = "decide" => /\ ~correctOk /\ HasRead(correctRead + 1) /\ EqualUpTo(correctRead)
                      /\ correctRead = Len(correct)

IInv == CompareTypeOK /\ Round /\ AcceptsExactly

-----------------------------------------------------------------------------
LEMMA InitIInv == CompareInit => IInv
<1> SUFFICES ASSUME CompareInit PROVE IInv
    OBVIOUS
<1>1. CompareTypeOK
  <2>1. output \in Seq(Token) /\ correct \in Seq(Token) /\ Len(output) = 0 /\ Len(correct) = 0
        BY DEF CompareInit
  <2>2. outputRead \in 0..Len(output) /\ correctRead \in 0..Len(correct)
        BY <2>1 DEF CompareInit
  <2>3. outputOk \in BOOLEAN /\ correctOk \in BOOLEAN /\ success \in BOOLEAN
        BY DEF CompareInit
  <2>4. o \in Token \cup {NoToken} /\ c \in Token \cup {NoToken}
        BY DEF CompareInit
  <2>5. at \in {"idle", "output", "correct", "compare", "decide", "done"}
        BY DEF CompareInit
  <2>. QED BY <2>1, <2>2, <2>3, <2>4, <2>5 DEF CompareTypeOK
<1>2. Round
      BY DEF CompareInit, Round
<1>3. AcceptsExactly
      BY DEF CompareInit, AcceptsExactly
<1>. QED BY <1>1, <1>2, <1>3 DEF IInv

LEMMA StepIInv == ASSUME IInv, [CompareNext]_compareVars PROVE IInv'
<1> USE DEF IInv, CompareTypeOK
<1>1. ASSUME NEW f \in File, NEW g \in File, Open(f, g) PROVE IInv'
  <2>1. f \in Seq(Token) /\ g \in Seq(Token)
        BY FileAssumption
  <2>2. /\ at' = "output" /\ output' = f /\ correct' = g /\ o' = o
        /\ outputRead' = 0 /\ correctRead' = 0 /\ outputOk' /\ correctOk' /\ outputRead = 0
        /\ UNCHANGED <<outputOk, correctOk, c, success>>
        BY <1>1 DEF Open, Round
  <2>3. Len(f) \in Nat /\ Len(g) \in Nat
        BY <2>1
  <2>4. CompareTypeOK'
        BY <2>1, <2>2, <2>3
  <2>5. HasRead(0)' /\ EqualUpTo(0)'
        BY <2>2, <2>3 DEF HasRead, EqualUpTo
  <2>6. o' = NoToken
        BY <2>2 DEF Round
  <2>7. Round'
        BY <2>2, <2>5, <2>6 DEF Round
  <2>8. AcceptsExactly'
        BY <2>2 DEF AcceptsExactly
  <2>. QED BY <2>4, <2>7, <2>8
<1>2. CASE ReadOutput
  <2>1. CompareTypeOK'
    <3>1. outputRead < Len(output) => output[outputRead + 1] \in Token
          OBVIOUS
    <3>2. outputRead' \in 0..Len(output') /\ o' \in Token \cup {NoToken}
          BY <1>2, <3>1 DEF ReadOutput
    <3>3. outputOk' \in BOOLEAN /\ at' = "correct"
          BY <1>2 DEF ReadOutput
    <3>4. UNCHANGED <<output, correct, correctRead, correctOk, c, success>>
          BY <1>2 DEF ReadOutput
    <3>. QED BY <3>2, <3>3, <3>4
  <2>2. /\ at' = "correct" /\ UNCHANGED <<output, correct, correctRead, correctOk>>
        /\ correctOk /\ HasRead(correctRead) /\ EqualUpTo(correctRead)
        BY <1>2 DEF ReadOutput, Round
  <2>3. EqualUpTo(correctRead)'
        BY <2>2 DEF EqualUpTo
  <2>4. HasRead(correctRead + 1)'
        BY <1>2, <2>2 DEF ReadOutput, HasRead
  <2>5. o' = IF outputRead' = 0 THEN NoToken ELSE output'[outputRead']
        BY <1>2 DEF ReadOutput, Round
  <2>6. Round'
        BY <2>2, <2>3, <2>4, <2>5 DEF Round
  <2>7. AcceptsExactly'
        BY <1>2 DEF ReadOutput, AcceptsExactly
  <2>. QED BY <2>1, <2>6, <2>7
<1>3. CASE ReadCorrect
  <2>1. CompareTypeOK'
    <3>1. correctRead < Len(correct) => correct[correctRead + 1] \in Token
          OBVIOUS
    <3>2. correctRead' \in 0..Len(correct') /\ c' \in Token \cup {NoToken}
          BY <1>3, <3>1 DEF ReadCorrect
    <3>3. correctOk' \in BOOLEAN /\ at' \in {"compare", "decide"}
          BY <1>3 DEF ReadCorrect
    <3>4. UNCHANGED <<output, correct, outputRead, outputOk, o, success>>
          BY <1>3 DEF ReadCorrect
    <3>. QED BY <3>2, <3>3, <3>4
  <2>2. /\ correctOk /\ HasRead(correctRead + 1) /\ EqualUpTo(correctRead)
        /\ UNCHANGED <<output, correct, outputRead, outputOk, o>>
        /\ o = IF outputRead = 0 THEN NoToken ELSE output[outputRead]
        BY <1>3 DEF ReadCorrect, Round
  <2>3. ASSUME correctRead < Len(correct) PROVE Round'
    <3>1. /\ at' = "compare" /\ correctRead' = correctRead + 1 /\ correctOk'
          /\ c' = correct'[correctRead']
          BY <1>3, <2>2, <2>3 DEF ReadCorrect
    <3>2. HasRead(correctRead)' /\ EqualUpTo(correctRead - 1)' /\ correctRead' > 0
          BY <2>2, <3>1 DEF HasRead, EqualUpTo
    <3>3. o' = IF outputRead' = 0 THEN NoToken ELSE output'[outputRead']
          BY <2>2
    <3>. QED BY <3>1, <3>2, <3>3 DEF Round
  <2>4. ASSUME ~(correctRead < Len(correct)) PROVE Round'
    <3>1. /\ at' = "decide" /\ correctRead' = correctRead /\ ~correctOk'
          /\ correctRead' = Len(correct')
          BY <1>3, <2>4 DEF ReadCorrect
    <3>2. HasRead(correctRead + 1)' /\ EqualUpTo(correctRead)'
          BY <2>2, <3>1 DEF HasRead, EqualUpTo
    <3>3. o' = IF outputRead' = 0 THEN NoToken ELSE output'[outputRead']
          BY <2>2
    <3>. QED BY <3>1, <3>2, <3>3 DEF Round
  <2>5. Round'
        BY <2>3, <2>4
  <2>6. AcceptsExactly'
        BY <1>3 DEF ReadCorrect, AcceptsExactly
  <2>. QED BY <2>1, <2>5, <2>6
<1>4. CASE CompareTokens
  <2>1. CompareTypeOK'
        BY <1>4 DEF CompareTokens, End
  <2>2. CASE c # o
    <3>1. ~Accepts(output, correct)
      <4>1. correctRead \in 1..Len(correct) /\ c = correct[correctRead]
            BY <1>4 DEF CompareTokens, Round
      <4>2. Len(output) > 0 =>
              o = output[IF correctRead <= Len(output) THEN correctRead ELSE Len(output)]
            BY <1>4, <4>1 DEF CompareTokens, Round, HasRead
      <4>. QED BY <2>2, <4>1, <4>2 DEF Accepts
    <3>2. at' = "done" /\ success' = FALSE /\ output' = output /\ correct' = correct
          BY <1>4, <2>2 DEF CompareTokens, End
    <3>3. Round'
          BY <1>4, <2>2 DEF CompareTokens, End, Round
    <3>. QED BY <2>1, <3>1, <3>2, <3>3 DEF AcceptsExactly, Accepts
  <2>3. CASE c = o
    <3>1. /\ at' = "output"
          /\ UNCHANGED <<output, correct, outputRead, correctRead, outputOk, correctOk, o, c>>
          BY <1>4, <2>3 DEF CompareTokens, End
    <3>2. /\ correctOk /\ HasRead(correctRead) /\ EqualUpTo(correctRead - 1)
          /\ correctRead > 0 /\ c = correct[correctRead]
          /\ o = IF outputRead = 0 THEN NoToken ELSE output[outputRead]
          BY <1>4 DEF CompareTokens, Round
    <3>3. c \in Token
          BY <3>2
    <3>4. outputRead > 0 /\ Len(output) > 0 /\ c = output[outputRead]
      <4>1. outputRead # 0 /\ c = output[outputRead]
            BY <2>3, <3>2, <3>3, NoTokenAssumption
      <4>2. outputRead \in 0..Len(output) /\ Len(output) \in Nat
            OBVIOUS
      <4>. QED BY <4>1, <4>2
    <3>5. correct[correctRead] =
            output[IF correctRead <= Len(output) THEN correctRead ELSE Len(output)]
          BY <3>2, <3>4 DEF HasRead
    <3>6. EqualUpTo(correctRead)
          BY <3>2, <3>4, <3>5 DEF EqualUpTo
    <3>7. HasRead(correctRead)' /\ EqualUpTo(correctRead)'
          BY <3>1, <3>2, <3>6 DEF HasRead, EqualUpTo
    <3>8. Round'
          BY <3>1, <3>2, <3>7 DEF Round
    <3>9. AcceptsExactly'
          BY <1>4, <2>3 DEF CompareTokens, End, AcceptsExactly
    <3>. QED BY <2>1, <3>8, <3>9
  <2>. QED BY <2>2, <2>3
<1>5. CASE Decide
  <2>1. CompareTypeOK'
        BY <1>5 DEF Decide, End
  <2>2. Round'
        BY <1>5 DEF Decide, End, Round
  <2>3. (~(outputOk \/ correctOk)) <=> Accepts(output, correct)
        BY <1>5 DEF Decide, Round, HasRead, EqualUpTo, Accepts
  <2>4. at' = "done" /\ success' = ~(outputOk \/ correctOk) /\ output' = output /\ correct' = correct
        BY <1>5 DEF Decide, End
  <2>. QED BY <2>1, <2>2, <2>3, <2>4 DEF AcceptsExactly, Accepts
<1>6. CASE UNCHANGED compareVars
  <2>1. CompareTypeOK'
        BY <1>6 DEF compareVars
  <2>2. Round'
        BY <1>6 DEF compareVars, Round, HasRead, EqualUpTo
  <2>3. AcceptsExactly'
        BY <1>6 DEF compareVars, AcceptsExactly, Accepts
  <2>. QED BY <2>1, <2>2, <2>3
<1>. QED BY <1>1, <1>2, <1>3, <1>4, <1>5, <1>6 DEF CompareNext, CompareStep

-----------------------------------------------------------------------------
(* The evaluator accepts an output exactly when the correct output is the   *)
(* output, or the output with its last token repeated.                      *)
THEOREM AcceptsPadded == CompareSpec => []AcceptsExactly
<1>1. IInv /\ [CompareNext]_compareVars => IInv'
      BY StepIInv
<1>2. IInv => AcceptsExactly
      BY DEF IInv
<1>. QED BY InitIInv, <1>1, <1>2, PTL DEF CompareSpec

-----------------------------------------------------------------------------
(* A test in its box. *)

(* The fates restrict_syscalls exits with 0 after. *)
Succeeded == fate \in {"exit 0", "killed"}

(* The box of the program: what the script has left in the files by now.    *)
RunOK ==
  phase = "run" =>
    /\ cut => script = "end" /\ now > Limit
    /\ lost <=> script = "failed"
    /\ script = "begin" => status = "missing" /\ stdout = "missing" /\ fate = "none"
    /\ script = "ready" => status = "-3" /\ stdout = "missing" /\ fate = "none"
    /\ script = "running" => status = "-3" /\ stdout = "empty" /\ fate = "none"
    /\ script = "left" => /\ status = "-3" /\ stdout = "whole"
                          /\ fate \in Fate /\ (code = 0 <=> Succeeded)
    /\ script = "echo" => stdout = "whole" /\ Succeeded
    /\ script = "end" /\ ~cut => /\ stdout = "whole" /\ fate \in Fate
                                 /\ IF Succeeded THEN status = "1" ELSE status = "-3"
    /\ script = "failed" => fate = "none"

(* The box of the evaluator is there only for a program that succeeded; an  *)
(* answer that is there was written by end().                               *)
EvaluateOK ==
  phase = "evaluate" =>
    /\ Succeeded /\ ~cut
    /\ output \in File /\ correct \in File
    /\ script \in {"begin", "ready"} => at = "idle" /\ stdout = "missing"
    /\ script = "running" => stdout = "empty"
    /\ stdout = "whole" => at = "done"
    /\ script \in {"left", "echo", "end"} => stdout = "whole" \/ lost
    /\ script = "failed" => lost

(* The files of a program that has ended are two of File, and a script      *)
(* whose verdict is stored does nothing any more.                           *)
FilesOK ==
  /\ fate # "none" => output \in File /\ correct \in File
  /\ phase = "judged" => script \in {"end", "failed"}

(* The inductive invariant. *)
VerdictInv ==
  /\ TypeOK
  /\ IInv
  /\ RunOK /\ EvaluateOK /\ FilesOK
  /\ CorrectIsEarned /\ BlameIsDeserved /\ CutIsTimeLimit

-----------------------------------------------------------------------------
LEMMA VerdictInit == Init => VerdictInv
<1> SUFFICES ASSUME Init PROVE VerdictInv
    OBVIOUS
<1>1. IInv
      BY InitIInv DEF Init
<1>2. TypeOK
  <2>1. CompareTypeOK
        BY <1>1 DEF IInv
  <2>2. now \in 0..MaxTime
        BY TimeAssumption DEF Init
  <2>3. at = "idle"
        BY DEF Init, CompareInit
  <2>4. /\ script \in {"begin", "ready", "running", "left", "echo", "end", "failed"}
        /\ code \in {0, 1, 134}
        /\ cut \in BOOLEAN /\ lost \in BOOLEAN
        BY DEF Init
  <2>. QED BY <2>1, <2>2, <2>3, <2>4 DEF Init, TypeOK
<1>3. RunOK /\ EvaluateOK /\ FilesOK
      BY DEF Init, RunOK, EvaluateOK, FilesOK
<1>4. CorrectIsEarned /\ BlameIsDeserved /\ CutIsTimeLimit
      BY DEF Init, CorrectIsEarned, BlameIsDeserved, CutIsTimeLimit
<1>. QED BY <1>1, <1>2, <1>3, <1>4 DEF VerdictInv

(* No step of the boxes breaks the evaluator's own invariant. *)
LEMMA VerdictCompare == ASSUME VerdictInv, [Next]_vars PROVE IInv'
<1>1. ASSUME UNCHANGED compareVars PROVE IInv'
      BY <1>1, StepIInv DEF VerdictInv
<1>2. ASSUME NEW how \in Fate, NEW f \in File, NEW g \in File, ProgramEnds(how, f, g)
      PROVE  IInv'
  <2>1. /\ f \in Seq(Token) /\ g \in Seq(Token)
        /\ Len(f) \in Nat /\ Len(g) \in Nat
        BY FileAssumption
  <2>2. at = "idle"
        BY <1>2 DEF VerdictInv, TypeOK, ProgramEnds
  <2>3. outputRead = 0 /\ correctRead = 0 /\ outputOk /\ correctOk /\ o = NoToken
        BY <2>2 DEF VerdictInv, IInv, Round
  <2>4. /\ output' = f /\ correct' = g
        /\ UNCHANGED <<at, outputRead, correctRead, outputOk, correctOk, o, c, success>>
        BY <1>2 DEF ProgramEnds
  <2>5. CompareTypeOK'
        BY <2>1, <2>2, <2>3, <2>4 DEF VerdictInv, IInv, CompareTypeOK
  <2>6. Round'
        BY <2>2, <2>3, <2>4 DEF Round
  <2>7. AcceptsExactly'
        BY <2>2, <2>4 DEF AcceptsExactly
  <2>. QED BY <2>5, <2>6, <2>7 DEF IInv
<1>3. CASE RunEvaluator
  <2>1. output \in File /\ correct \in File /\ Open(output, correct)
        BY <1>3 DEF RunEvaluator, VerdictInv, EvaluateOK
  <2>. QED BY <2>1, StepIInv DEF VerdictInv, CompareNext
<1>4. CASE EvaluatorStep
      BY <1>4, StepIInv DEF EvaluatorStep, VerdictInv, CompareNext
<1>5. CASE Tick \/ BoxFails \/ EchoFailure \/ RunProgram \/ EvaluatorEnds \/ OpenStatus
           \/ EchoSuccess \/ EvaluatorDies \/ Cut \/ RunForInput \/ EvaluateOutput
      BY <1>1, <1>5
      DEF Tick, BoxFails, EchoFailure, RunProgram, EvaluatorEnds, OpenStatus, EchoSuccess,
          EvaluatorDies, Cut, RunForInput, EvaluateOutput
<1>6. CASE UNCHANGED vars
      BY <1>1, <1>6 DEF vars
<1>. QED BY <1>2, <1>3, <1>4, <1>5, <1>6 DEF Next, ScriptStep

(* What the evaluator does to its own state, as far as the boxes see it. *)
LEMMA CompareKeepsFiles ==
  ASSUME CompareStep
  PROVE  at # "done" /\ at' # "idle" /\ output' = output /\ correct' = correct
BY DEF CompareStep, ReadOutput, ReadCorrect, CompareTokens, Decide, End

LEMMA Clock ==
  ASSUME TypeOK
  PROVE  now \in 0..MaxTime /\ now \in Nat /\ {Limit, Timeout, MaxTime} \subseteq Nat /\ Limit <= Timeout
<1>1. now \in 0..MaxTime
      BY DEF TypeOK
<1>. QED BY <1>1, TimeAssumption

LEMMA VerdictStep == ASSUME VerdictInv, [Next]_vars PROVE VerdictInv'
<1>0. IInv' /\ CompareTypeOK'
      BY VerdictCompare DEF IInv
<1> DEFINE Rest == TypeOK' /\ RunOK' /\ EvaluateOK' /\ FilesOK'
           Verdicts == CorrectIsEarned' /\ BlameIsDeserved' /\ CutIsTimeLimit'
<1>a. /\ TypeOK /\ RunOK /\ EvaluateOK /\ FilesOK
      /\ CorrectIsEarned /\ BlameIsDeserved /\ CutIsTimeLimit
      BY DEF VerdictInv
<1>c. /\ now \in 0..MaxTime /\ now \in Nat
      /\ Limit \in Nat /\ Timeout \in Nat /\ MaxTime \in Nat /\ Limit <= Timeout
      BY <1>a, Clock
<1>d. ASSUME UNCHANGED <<cut, lost>> PROVE cut' \in BOOLEAN /\ lost' \in BOOLEAN
      BY <1>a, <1>d DEF TypeOK
<1>e. ASSUME UNCHANGED <<at, script, code, status, stdout, phase, fate, cut, lost, result>>,
             now' \in 0..MaxTime
      PROVE  TypeOK'
  <2>1. /\ script' \in {"begin", "ready", "running", "left", "echo", "end", "failed"}
        /\ code' \in {0, 1, 134}
        /\ status' \in {"missing", "-3", "", "1"}
        /\ stdout' \in {"missing", "empty", "whole"}
        BY <1>a, <1>e DEF TypeOK
  <2>2. /\ phase' \in {"run", "evaluate", "judged"}
        /\ fate' \in Fate \cup {"none"}
        /\ result' \in Verdict \cup {"none"}
        /\ phase' = "judged" <=> result' # "none"
        /\ phase' = "run" => at' = "idle"
        BY <1>a, <1>e DEF TypeOK
  <2>3. cut' \in BOOLEAN /\ lost' \in BOOLEAN
        BY <1>d, <1>e
  <2>. QED BY <1>0, <1>e, <2>1, <2>2, <2>3 DEF TypeOK
<1>f. ASSUME UNCHANGED <<at, now, script, code, status, stdout, fate, cut, lost>>,
             phase' = "judged", result' \in Verdict, result' # "none"
      PROVE  TypeOK'
  <2>1. /\ script' \in {"begin", "ready", "running", "left", "echo", "end", "failed"}
        /\ code' \in {0, 1, 134}
        /\ status' \in {"missing", "-3", "", "1"}
        /\ stdout' \in {"missing", "empty", "whole"}
        /\ fate' \in Fate \cup {"none"}
        BY <1>a, <1>f DEF TypeOK
  <2>2. cut' \in BOOLEAN /\ lost' \in BOOLEAN
        BY <1>d, <1>f
  <2>3. now' \in 0..MaxTime
        BY <1>c, <1>f
  <2>. QED BY <1>0, <1>f, <2>1, <2>2, <2>3 DEF TypeOK
(* A verdict is given by RunForInput and EvaluateOutput alone, and last. *)
<1>b. ASSUME phase # "judged", phase' # "judged", UNCHANGED result PROVE Verdicts
      BY <1>a, <1>b DEF TypeOK, CorrectIsEarned, BlameIsDeserved, CutIsTimeLimit
<1>1. CASE Tick
  <2>1. /\ now' \in 0..MaxTime
        /\ now > Limit => now' > Limit
    <3>1. now < MaxTime /\ now' = now + 1
          BY <1>1 DEF Tick
    <3>. QED BY <1>c, <3>1
  <2>2. UNCHANGED <<at, output, correct, script, code, status, stdout, phase, fate, cut, lost, result>>
        BY <1>1 DEF Tick, compareVars
  <2>3. TypeOK'
        BY <1>e, <2>1, <2>2
  <2>4. RunOK'
        BY <1>a, <2>1, <2>2 DEF RunOK, Succeeded
  <2>5. EvaluateOK' /\ FilesOK'
        BY <1>a, <2>2 DEF EvaluateOK, FilesOK, Succeeded
  <2>. QED BY <1>0, <1>1, <1>b, <2>3, <2>4, <2>5 DEF Tick, VerdictInv
<1>2. CASE BoxFails
  <2>1. Rest
        BY <1>0, <1>2, <1>a
        DEF BoxFails, Goto, TypeOK, RunOK, EvaluateOK, FilesOK, Succeeded, compareVars
  <2>. QED BY <1>0, <1>2, <1>b, <2>1 DEF BoxFails, VerdictInv
<1>3. CASE EchoFailure
  <2>1. Rest
        BY <1>0, <1>3, <1>a
        DEF EchoFailure, Goto, TypeOK, RunOK, EvaluateOK, FilesOK, Succeeded, compareVars
  <2>. QED BY <1>0, <1>3, <1>b, <2>1 DEF EchoFailure, VerdictInv
<1>4. CASE RunProgram
  <2>1. Rest
        BY <1>0, <1>4, <1>a
        DEF RunProgram, Goto, TypeOK, RunOK, EvaluateOK, FilesOK, Succeeded, compareVars
  <2>. QED BY <1>0, <1>4, <1>b, <2>1 DEF RunProgram, VerdictInv
<1>5. CASE RunEvaluator
  <2>1. Rest
        BY <1>0, <1>5, <1>a
        DEF RunEvaluator, Open, Goto, TypeOK, RunOK, EvaluateOK, FilesOK, Succeeded
  <2>. QED BY <1>0, <1>5, <1>b, <2>1 DEF RunEvaluator, VerdictInv
<1>6. CASE EvaluatorStep
  <2>1. Rest
        BY <1>0, <1>6, <1>a, CompareKeepsFiles
        DEF EvaluatorStep, boxVars, TypeOK, RunOK, EvaluateOK, FilesOK, Succeeded
  <2>. QED BY <1>0, <1>6, <1>b, <2>1 DEF EvaluatorStep, VerdictInv
<1>7. CASE EvaluatorEnds
  <2>1. Rest
        BY <1>0, <1>7, <1>a
        DEF EvaluatorEnds, Goto, TypeOK, RunOK, EvaluateOK, FilesOK, Succeeded, compareVars
  <2>. QED BY <1>0, <1>7, <1>b, <2>1 DEF EvaluatorEnds, VerdictInv
<1>8. CASE EvaluatorDies
  <2>1. Rest
        BY <1>0, <1>8, <1>a
        DEF EvaluatorDies, Goto, TypeOK, RunOK, EvaluateOK, FilesOK, Succeeded, compareVars
  <2>. QED BY <1>0, <1>8, <1>b, <2>1 DEF EvaluatorDies, VerdictInv
<1>9. CASE OpenStatus
  <2>0. phase # "judged" /\ phase' # "judged"
        BY <1>9, <1>a DEF OpenStatus, TypeOK, FilesOK
  <2>1. /\ UNCHANGED <<at, output, correct, now, code, stdout, phase, fate, cut, lost, result>>
        /\ script = "left" /\ script' \in {"echo", "end"} /\ status' \in {status, ""}
        /\ script' = "echo" => code = 0
        /\ script' = "end" => code # 0 /\ status' = status
        BY <1>9 DEF OpenStatus, Goto, compareVars
  <2>2. TypeOK'
    <3>1. /\ phase' \in {"run", "evaluate", "judged"}
          /\ code' \in {0, 1, 134}
          /\ status' \in {"missing", "-3", "", "1"}
          /\ stdout' \in {"missing", "empty", "whole"}
          /\ fate' \in Fate \cup {"none"} /\ result' \in Verdict \cup {"none"}
          /\ phase' = "judged" <=> result' # "none"
          /\ phase' = "run" => at' = "idle"
          BY <1>a, <2>1 DEF TypeOK
    <3>2. cut' \in BOOLEAN /\ lost' \in BOOLEAN
          BY <1>d, <2>1
    <3>3. now' \in 0..MaxTime
          BY <1>c, <2>1
    <3>. QED BY <1>0, <2>1, <3>1, <3>2, <3>3 DEF TypeOK
  <2>3. RunOK' /\ EvaluateOK' /\ FilesOK'
        BY <1>a, <2>1 DEF RunOK, EvaluateOK, FilesOK, Succeeded
  <2>. QED BY <1>0, <1>9, <1>b, <2>0, <2>2, <2>3 DEF OpenStatus, VerdictInv
<1>10. CASE EchoSuccess
  <2>0. phase # "judged" /\ phase' # "judged"
        BY <1>10, <1>a DEF EchoSuccess, TypeOK, FilesOK
  <2>1. Rest
        BY <1>0, <1>10, <1>a
        DEF EchoSuccess, Goto, TypeOK, RunOK, EvaluateOK, FilesOK, Succeeded, Fate, compareVars
  <2>. QED BY <1>0, <1>10, <1>b, <2>0, <2>1 DEF EchoSuccess, VerdictInv
<1>11. ASSUME NEW how \in Fate, NEW f \in File, NEW g \in File, ProgramEnds(how, f, g)
       PROVE  VerdictInv'
  <2>1. /\ code' \in {0, 1, 134}
        /\ code' = 0 <=> how \in {"exit 0", "killed"}
    <3>1. code' = TracerExit(how)
          BY <1>11 DEF ProgramEnds
    <3>2. CASE how \in {"exit 0", "killed"}
          BY <3>1, <3>2 DEF TracerExit
    <3>3. CASE how \in {"exit 1", "signal"}
      <4>1. how \notin {"exit 0", "killed"}
            BY <3>3
      <4>2. code' = 1
            BY <3>1, <3>3 DEF TracerExit
      <4>3. code' \in {0, 1, 134} /\ 1 # 0
            BY <4>2
      <4>. QED BY <4>1, <4>2, <4>3, Zenon
    <3>4. CASE how = "blocked"
          BY <3>1, <3>4 DEF TracerExit
    <3>. QED BY <3>2, <3>3, <3>4 DEF Fate
  <2>2. fate' \in Fate /\ fate' = how /\ fate' # "none"
        BY <1>11 DEF ProgramEnds, Fate
  <2>3. Rest
        BY <1>0, <1>11, <1>a, <2>1, <2>2
        DEF ProgramEnds, Goto, TypeOK, RunOK, EvaluateOK, FilesOK, Succeeded
  <2>. QED BY <1>0, <1>11, <1>b, <2>3 DEF ProgramEnds, VerdictInv
<1>12. CASE Cut
  <2>1. phase \in {"run", "evaluate"} /\ phase' = phase
        BY <1>12 DEF Cut
  <2>2. UNCHANGED <<at, output, correct, now, code, status, stdout, fate, result>>
        BY <1>12 DEF Cut, compareVars
  <2>3. phase = "run" => now > Limit
    <3>1. phase = "run" => now > Timeout
          BY <1>12 DEF Cut
    <3>. QED BY <1>c, <3>1
  <2>4. /\ script' = "end"
        /\ phase = "run" => cut' = TRUE /\ lost' = lost /\ script # "failed"
        /\ phase = "evaluate" => lost' = TRUE /\ cut' = cut
        BY <1>12 DEF Cut, Goto
  <2>5. TypeOK'
        BY <1>0, <1>a, <2>1, <2>2, <2>4 DEF TypeOK
  <2>6. RunOK'
        BY <1>a, <2>1, <2>2, <2>3, <2>4 DEF RunOK, Succeeded
  <2>7. EvaluateOK' /\ FilesOK'
        BY <1>a, <2>1, <2>2, <2>4 DEF EvaluateOK, FilesOK, Succeeded
  <2>. QED BY <1>0, <1>b, <2>1, <2>2, <2>5, <2>6, <2>7 DEF VerdictInv
<1>13. CASE RunForInput
  <2>0. /\ phase = "run" /\ script \in {"end", "failed"} /\ result = "none"
        /\ UNCHANGED <<at, output, correct, code, fate, cut, lost>>
        BY <1>13, <1>a DEF RunForInput, TypeOK, compareVars
  <2>2. CASE FirstVerdict = "CORRECT"
    <3>1. /\ phase' = "evaluate" /\ now' = 0 /\ script' = "begin" /\ status' = "missing"
          /\ stdout' = "missing" /\ result' = result
          BY <1>13, <2>2 DEF RunForInput, Goto
    <3>2. ~(now > Limit) /\ script = "end" /\ status \in {"missing", "1"}
          BY <2>0, <2>2 DEF FirstVerdict
    <3>3. ~cut /\ Succeeded /\ at = "idle"
          BY <1>a, <2>0, <3>2 DEF RunOK, TypeOK
    <3>7. fate # "none"
          BY <3>3 DEF Succeeded
    <3>4. now' \in 0..MaxTime
          BY <1>c, <3>1
    <3>5. TypeOK'
          BY <1>0, <1>a, <1>d, <2>0, <3>1, <3>4 DEF TypeOK
    <3>6. RunOK' /\ EvaluateOK' /\ FilesOK'
          BY <1>a, <2>0, <3>1, <3>3, <3>7 DEF RunOK, EvaluateOK, FilesOK, Succeeded
    <3>. QED BY <1>0, <1>b, <2>0, <3>1, <3>5, <3>6 DEF VerdictInv
  <2>3. CASE FirstVerdict # "CORRECT"
    <3>1. phase' = "judged" /\ result' = FirstVerdict /\ UNCHANGED <<now, script, status, stdout>>
          BY <1>13, <2>3 DEF RunForInput
    <3>2. FirstVerdict \in {"TIME_LIMIT", "RUNTIME_ERROR", "INTERNAL_ERROR"}
          BY <2>3 DEF FirstVerdict
    <3>3. TypeOK'
          BY <1>f, <2>0, <3>1, <3>2 DEF Verdict
    <3>4. RunOK' /\ EvaluateOK' /\ FilesOK'
          BY <1>a, <2>0, <3>1 DEF RunOK, EvaluateOK, FilesOK
    <3>5. cut => FirstVerdict = "TIME_LIMIT"
          BY <1>a, <2>0 DEF RunOK, FirstVerdict
    <3>6. FirstVerdict = "RUNTIME_ERROR" => fate \in {"exit 1", "signal", "blocked"}
      <4>1. SUFFICES ASSUME FirstVerdict = "RUNTIME_ERROR"
                     PROVE  fate \in {"exit 1", "signal", "blocked"}
            OBVIOUS
      <4>2. script = "end" /\ status # "1" /\ ~cut
            BY <2>0, <3>5, <4>1 DEF FirstVerdict
      <4>. QED BY <1>a, <2>0, <4>2 DEF RunOK, Succeeded, Fate
    <3>7. FirstVerdict = "INTERNAL_ERROR" => lost /\ fate = "none"
      <4>1. SUFFICES ASSUME FirstVerdict = "INTERNAL_ERROR" PROVE lost /\ fate = "none"
            OBVIOUS
      <4>2. (script = "failed" \/ stdout = "missing") /\ ~cut
            BY <3>5, <4>1 DEF FirstVerdict
      <4>. QED BY <1>a, <2>0, <4>2 DEF RunOK
    <3>8. Verdicts
          BY <2>0, <3>1, <3>2, <3>5, <3>6, <3>7
          DEF CorrectIsEarned, BlameIsDeserved, CutIsTimeLimit
    <3>. QED BY <1>0, <3>3, <3>4, <3>8 DEF VerdictInv
  <2>. QED BY <2>2, <2>3
<1>14. CASE EvaluateOutput
  <2>0. /\ phase = "evaluate" /\ script \in {"end", "failed"}
        /\ phase' = "judged" /\ result' = LastVerdict
        /\ UNCHANGED <<compareVars, now, script, code, status, stdout, fate, cut, lost>>
        BY <1>14 DEF EvaluateOutput, boxVars
  <2>1. ~cut /\ fate \in {"exit 0", "killed"}
        BY <1>a, <2>0 DEF EvaluateOK, Succeeded
  <2>2. LastVerdict \in {"CORRECT", "WRONG_ANSWER", "INTERNAL_ERROR"}
        BY DEF LastVerdict
  <2>3. LastVerdict = "INTERNAL_ERROR" => lost
        BY <1>a, <2>0 DEF LastVerdict, EvaluateOK
  <2>4. /\ LastVerdict = "CORRECT" => Accepts(output, correct)
        /\ LastVerdict = "WRONG_ANSWER" => ~Accepts(output, correct)
    <3>1. LastVerdict # "INTERNAL_ERROR" => at = "done"
          BY <1>a, <2>0 DEF LastVerdict, EvaluateOK
    <3>2. at = "done" => (success <=> Accepts(output, correct))
          BY DEF VerdictInv, IInv, AcceptsExactly
    <3>. QED BY <3>1, <3>2 DEF LastVerdict
  <2>5. output' = output /\ correct' = correct /\ at' = at
        BY <2>0 DEF compareVars
  <2>6. Verdicts
        BY <2>0, <2>1, <2>2, <2>3, <2>4, <2>5
        DEF CorrectIsEarned, BlameIsDeserved, CutIsTimeLimit, Accepts
  <2>7. TypeOK'
        BY <1>f, <2>0, <2>2, <2>5 DEF Verdict
  <2>8. RunOK' /\ EvaluateOK' /\ FilesOK'
        BY <1>a, <2>0, <2>5 DEF RunOK, EvaluateOK, FilesOK
  <2>. QED BY <1>0, <2>6, <2>7, <2>8 DEF VerdictInv
<1>15. CASE UNCHANGED vars
  <2>0. /\ UNCHANGED <<at, output, correct, now, script, code, status, stdout>>
        /\ UNCHANGED <<phase, fate, cut, lost, result>>
        BY <1>15 DEF vars, boxVars, compareVars
  <2>1. TypeOK'
        BY <1>c, <1>e, <2>0
  <2>2. RunOK' /\ EvaluateOK' /\ FilesOK'
        BY <1>a, <2>0 DEF RunOK, EvaluateOK, FilesOK, Succeeded
  <2>3. Verdicts
        BY <1>a, <2>0 DEF CorrectIsEarned, BlameIsDeserved, CutIsTimeLimit, Accepts
  <2>. QED BY <1>0, <2>1, <2>2, <2>3 DEF VerdictInv
<1>. QED BY <1>1, <1>2, <1>3, <1>4, <1>5, <1>6, <1>7, <1>8, <1>9, <1>10, <1>11, <1>12,
            <1>13, <1>14, <1>15 DEF Next, ScriptStep

-----------------------------------------------------------------------------
LEMMA VerdictAlways == Spec => []VerdictInv
<1>1. VerdictInv /\ [Next]_vars => VerdictInv'
      BY VerdictStep
<1>. QED BY VerdictInit, <1>1, PTL DEF Spec

(* The variables stay in their types. *)
THEOREM VerdictTypes == Spec => []TypeOK
<1>1. VerdictInv => TypeOK
      BY DEF VerdictInv
<1>. QED BY VerdictAlways, <1>1, PTL

(* CORRECT is given only to a program that ended within the limit by itself *)
(* and wrote what the evaluator accepts.                                    *)
THEOREM CorrectEarned == Spec => []CorrectIsEarned
<1>1. VerdictInv => CorrectIsEarned
      BY DEF VerdictInv
<1>. QED BY VerdictAlways, <1>1, PTL

(* The other verdicts are given only to who deserves them. *)
THEOREM BlameDeserved == Spec => []BlameIsDeserved
<1>1. VerdictInv => BlameIsDeserved
      BY DEF VerdictInv
<1>. QED BY VerdictAlways, <1>1, PTL

(* A program that timeout cut always gets TIME_LIMIT. *)
THEOREM CutJudged == Spec => []CutIsTimeLimit
<1>1. VerdictInv => CutIsTimeLimit
      BY DEF VerdictInv
<1>. QED BY VerdictAlways, <1>1, PTL
=============================================================================
