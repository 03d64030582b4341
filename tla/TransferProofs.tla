--------------------------- MODULE TransferProofs ---------------------------
(***************************************************************************)
(* Proofs about Transfer: a judge has the files of every run, and rows     *)
(* never dangle, for any contents, hosts and judges.                       *)
(***************************************************************************)
EXTENDS Transfer, TLAPS

(* One call. While inputs are dealt with, each is at the judge or still to  *)
(* do; while outputs are, each is at the web server or still to do.         *)
CallInv(h) ==
  /\ inputs[h] \subseteq web \cup {NoFile}
  /\ runner[h] \in web \cup {NoFile, Docker}
  /\ pc[h] \in {"idle", "run", "returned"} => todo[h] = {}
  /\ pc[h] \in {"inputs", "runner"} =>
       /\ todo[h] \subseteq inputs[h]
       /\ inputs[h] \subseteq store[JudgeOf[h]] \cup todo[h]
       /\ outputs[h] = {}
  /\ pc[h] = "run" => inputs[h] \subseteq store[JudgeOf[h]]
  /\ pc[h] \in {"run", "fetch"} => outputs[h] \subseteq store[JudgeOf[h]]
  /\ pc[h] = "fetch" => todo[h] \subseteq outputs[h] /\ outputs[h] \subseteq web \cup todo[h]
  /\ pc[h] = "returned" => outputs[h] \subseteq web
  /\ pc[h] = "idle" => outputs[h] = {}

IInv ==
  /\ TypeOK
  /\ uploaded \subseteq web
  /\ NothingDangles
  /\ \A h \in Host : CallInv(h)

-----------------------------------------------------------------------------
LEMMA InitIInv == Init => IInv
<1>. QED BY NoFileAssumption DEF Init, IInv, TypeOK, Place, NothingDangles, CallInv

(* Types. *)
LEMMA CallTypes == ASSUME IInv, NEW h \in Host, CallStep(h) PROVE TypeOK'
<1> USE JudgeAssumption, NoFileAssumption DEF IInv, TypeOK, Place, Goto
<1>0. pc[h] \in {"idle", "run"} => cur[h] = NoFile
      BY DEF CallInv
<1>1. ASSUME NEW files \in SUBSET rows, NEW sandbox \in rows \cup {NoFile, Docker},
             Call(h, files, sandbox)
      PROVE  TypeOK'
      BY <1>0, <1>1 DEF Call
<1>2. ASSUME NEW c \in Content, HasFile(h, c) PROVE TypeOK'
      BY <1>2 DEF HasFile
<1>3. ASSUME NEW c \in Content, SaveOutput(h, c) PROVE TypeOK'
      BY <1>3 DEF SaveOutput
<1>4. ASSUME NEW c \in Content, CheckOutput(h, c) PROVE TypeOK'
      BY <1>4 DEF CheckOutput
<1>5. CASE SendFile(h)
      BY <1>5 DEF SendFile
<1>6. CASE MakeSandbox(h)
      BY <1>6 DEF MakeSandbox
<1>7. CASE RunnerReady(h) \/ Return(h)
      BY <1>7 DEF RunnerReady, Return
<1>8. CASE Refused(h)
      BY <1>8 DEF Refused, EndCall
<1>9. CASE RunReply(h)
      BY <1>0, <1>9 DEF RunReply
<1>10. CASE GetFile(h)
       BY <1>10 DEF GetFile
<1>11. CASE StoreResult(h)
       BY <1>11 DEF StoreResult, EndCall
<1>. QED BY <1>1, <1>2, <1>3, <1>4, <1>5, <1>6, <1>7, <1>8, <1>9, <1>10, <1>11 DEF CallStep

LEMMA TypeStep == ASSUME IInv, [Next]_vars PROVE TypeOK'
<1> USE JudgeAssumption, NoFileAssumption DEF IInv, TypeOK, Place, Goto, callVars
<1>1. ASSUME NEW c \in Content, Upload(c) \/ SaveRow(c) PROVE TypeOK'
      BY <1>1 DEF Upload, SaveRow
<1>2. ASSUME NEW h \in Host, Connect(h) PROVE TypeOK'
      BY <1>2 DEF Connect
<1>3. ASSUME NEW h \in Host, CallThrows(h) PROVE TypeOK'
      BY <1>3 DEF CallThrows, EndCall
<1>4. ASSUME NEW h \in Host, Break(h) PROVE TypeOK'
      BY <1>4 DEF Break
<1>5. ASSUME NEW j \in Judge, JudgeRestart(j) PROVE TypeOK'
      BY <1>5 DEF JudgeRestart
<1>6. CASE WebRestart
      BY <1>6 DEF WebRestart
<1>7. CASE UNCHANGED vars
      BY <1>7 DEF vars
<1>. QED BY CallTypes, <1>1, <1>2, <1>3, <1>4, <1>5, <1>6, <1>7 DEF Next

-----------------------------------------------------------------------------
(* Stores only grow, and what a step does to other calls ends there. *)
Growing == web \subseteq web' /\ \A j \in Judge : store[j] \subseteq store'[j]

Untouched(h) ==
  /\ pc'[h] = pc[h] /\ runner'[h] = runner[h] /\ inputs'[h] = inputs[h]
  /\ todo'[h] = todo[h] /\ outputs'[h] = outputs[h]

LEMMA UntouchedInv ==
  ASSUME NEW h \in Host, CallInv(h), Growing, Untouched(h)
  PROVE  CallInv(h)'
<1>1. store[JudgeOf[h]] \subseteq store'[JudgeOf[h]]
      BY JudgeAssumption DEF Growing
<1>. QED BY <1>1 DEF CallInv, Growing, Untouched

LEMMA EndedInv ==
  ASSUME TypeOK, NEW h \in Host, EndCall(h)
  PROVE  CallInv(h)'
<1>. QED BY DEF TypeOK, EndCall, Goto, CallInv

(* A step of the call on h. *)
LEMMA CallStepInv ==
  ASSUME IInv, NEW h \in Host, CallStep(h)
  PROVE  CallInv(h)' /\ Growing /\ rows' \subseteq web' \cup {NoFile} /\ UNCHANGED uploaded
<1> USE JudgeAssumption, NoFileAssumption DEF IInv, TypeOK, CallInv, Growing, NothingDangles, Goto
<1> DEFINE Goal == CallInv(h)' /\ Growing /\ rows' \subseteq web' \cup {NoFile} /\ UNCHANGED uploaded
<1>1. ASSUME NEW files \in SUBSET rows, NEW sandbox \in rows \cup {NoFile, Docker},
             Call(h, files, sandbox)
      PROVE  Goal
      BY <1>1 DEF Call
<1>2. ASSUME NEW c \in Content, HasFile(h, c) PROVE Goal
      BY <1>2 DEF HasFile
<1>3. ASSUME NEW c \in Content, SaveOutput(h, c) PROVE Goal
      BY <1>3 DEF SaveOutput
<1>4. ASSUME NEW c \in Content, CheckOutput(h, c) PROVE Goal
      BY <1>4 DEF CheckOutput
<1>5. CASE SendFile(h)
      BY <1>5 DEF SendFile
<1>6. CASE MakeSandbox(h)
      BY <1>6 DEF MakeSandbox
<1>7. CASE RunnerReady(h)
      BY <1>7 DEF RunnerReady
<1>8. CASE Refused(h)
      BY <1>8, EndedInv DEF Refused
<1>9. CASE RunReply(h)
      BY <1>9 DEF RunReply
<1>10. CASE GetFile(h)
       BY <1>10 DEF GetFile
<1>11. CASE Return(h)
       BY <1>11 DEF Return
<1>12. CASE StoreResult(h)
  <2>1. CallInv(h)' /\ UNCHANGED <<web, store, uploaded>>
        BY <1>12, EndedInv DEF StoreResult
  <2>2. rows' \subseteq rows \cup outputs[h] /\ outputs[h] \subseteq web
        BY <1>12 DEF StoreResult
  <2>. QED BY <2>1, <2>2
<1>. QED
  BY <1>1, <1>2, <1>3, <1>4, <1>5, <1>6, <1>7, <1>8, <1>9, <1>10, <1>11, <1>12 DEF CallStep

LEMMA CallStepOthers ==
  ASSUME TypeOK, NEW h \in Host, CallStep(h), NEW k \in Host \ {h}
  PROVE  Untouched(k)
<1>. QED BY DEF TypeOK, CallStep, Untouched, Call, HasFile, SaveOutput, CheckOutput, SendFile,
               MakeSandbox, RunnerReady, Refused, RunReply, GetFile, Return, StoreResult,
               EndCall, Goto

LEMMA StepIInv == IInv /\ [Next]_vars => IInv'
<1> SUFFICES ASSUME IInv, [Next]_vars PROVE IInv'
    OBVIOUS
<1> DEFINE Files == uploaded' \subseteq web' /\ rows' \subseteq web' \cup {NoFile}
           Calls == \A h \in Host : CallInv(h)'
<1>0. /\ TypeOK /\ TypeOK' /\ uploaded \subseteq web /\ rows \subseteq web \cup {NoFile}
      /\ \A h \in Host : CallInv(h)
      BY TypeStep DEF IInv, NothingDangles
<1>1. ASSUME NEW h \in Host, CallStep(h) PROVE Files /\ Calls
  <2>1. CallInv(h)' /\ Growing /\ rows' \subseteq web' \cup {NoFile} /\ UNCHANGED uploaded
        BY <1>1, CallStepInv
  <2>2. \A k \in Host \ {h} : CallInv(k)'
        BY <1>0, <1>1, <2>1, CallStepOthers, UntouchedInv
  <2>3. uploaded' \subseteq web'
        BY <1>0, <2>1 DEF Growing
  <2>. QED BY <2>1, <2>2, <2>3
<1>2. ASSUME Growing, \A h \in Host : Untouched(h) PROVE Calls
      BY <1>0, <1>2, UntouchedInv
<1>3. ASSUME NEW c \in Content, Upload(c) \/ SaveRow(c) PROVE Files /\ Calls
  <2>1. Growing /\ Files
        BY <1>0, <1>3 DEF Upload, SaveRow, Growing
  <2>2. \A h \in Host : Untouched(h)
        BY <1>3 DEF Upload, SaveRow, Untouched, callVars
  <2>. QED BY <1>2, <2>1, <2>2
<1>4. ASSUME NEW h \in Host, Connect(h) \/ Break(h) PROVE Files /\ Calls
  <2>1. Growing /\ Files
        BY <1>0, <1>4, JudgeAssumption DEF Connect, Break, Growing, TypeOK
  <2>2. \A k \in Host : Untouched(k)
        BY <1>4 DEF Connect, Break, Untouched, callVars
  <2>. QED BY <1>2, <2>1, <2>2
<1>5. ASSUME NEW h \in Host, CallThrows(h) PROVE Files /\ Calls
  <2>1. CallInv(h)' /\ Growing /\ Files
        BY <1>0, <1>5, EndedInv DEF CallThrows, Growing
  <2>2. \A k \in Host \ {h} : Untouched(k)
        BY <1>0, <1>5 DEF CallThrows, EndCall, Goto, Untouched, TypeOK
  <2>3. \A k \in Host \ {h} : CallInv(k)'
        BY <1>0, <2>1, <2>2, UntouchedInv
  <2>. QED BY <2>1, <2>3
<1>6. ASSUME NEW j \in Judge, JudgeRestart(j) PROVE Files /\ Calls
  <2>1. Growing /\ Files
        BY <1>0, <1>6 DEF JudgeRestart, Growing
  <2>2. \A k \in Host : Untouched(k)
        BY <1>6 DEF JudgeRestart, Untouched, callVars
  <2>. QED BY <1>2, <2>1, <2>2
<1>7. ASSUME WebRestart PROVE Files /\ Calls
  <2>1. Files
        BY <1>0, <1>7 DEF WebRestart
  <2>2. ASSUME NEW h \in Host PROVE CallInv(h)'
        BY <1>7, <2>2 DEF WebRestart, CallInv
  <2>. QED BY <2>1, <2>2
<1>8. ASSUME UNCHANGED vars PROVE Files /\ Calls
  <2>1. Growing /\ Files
        BY <1>0, <1>8 DEF vars, Growing
  <2>2. \A k \in Host : Untouched(k)
        BY <1>8 DEF vars, callVars, Untouched
  <2>. QED BY <1>2, <2>1, <2>2
<1> HIDE DEF Files, Calls
<1>9. Files /\ Calls
      BY <1>1, <1>3, <1>4, <1>5, <1>6, <1>7, <1>8 DEF Next
<1>. QED BY <1>0, <1>9 DEF IInv, NothingDangles, Files, Calls

LEMMA Invariance == Spec => []IInv
<1>. QED BY InitIInv, StepIInv, PTL DEF Spec

-----------------------------------------------------------------------------
(* The variables keep their types, and the hash a call is transferring is   *)
(* one it still has to deal with.                                           *)
THEOREM TypeCorrect == Spec => []TypeOK
<1>1. IInv => TypeOK
      BY DEF IInv
<1>. QED BY <1>1, Invariance, PTL

(* A judge that runs a program has the runner and every input, whichever    *)
(* connections broke and whoever else uses the judge.                       *)
THEOREM RunsHaveTheirFiles == Spec => []RunHasItsFiles
<1>1. IInv => RunHasItsFiles
      BY DEF IInv, CallInv, RunHasItsFiles
<1>. QED BY <1>1, Invariance, PTL

(* The database only refers to files that the web server has.               *)
THEOREM RowsNeverDangle == Spec => []NothingDangles
<1>1. IInv => NothingDangles
      BY DEF IInv
<1>. QED BY <1>1, Invariance, PTL

(* No transfer asks either side for a file it does not have.                *)
THEOREM FilesAreFound == Spec => []TransfersFindTheirFile
<1>1. IInv => TransfersFindTheirFile
  <2> SUFFICES ASSUME IInv, NEW h \in Host, cur[h] # NoFile
               PROVE  cur[h] \in IF pc[h] = "fetch" THEN store[JudgeOf[h]] ELSE web
      BY DEF TransfersFindTheirFile
  <2>1. cur[h] \in todo[h] /\ pc[h] \in Place
        BY DEF IInv, TypeOK
  <2>. QED BY <2>1 DEF IInv, CallInv, Place
<1>. QED BY <1>1, Invariance, PTL
=============================================================================
