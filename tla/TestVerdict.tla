---------------------------- MODULE TestVerdict ----------------------------
(***************************************************************************)
(* The verdict of one test: RunTestGroup::runForInput and evaluateOutput   *)
(* of web/judging.cpp, with what stands between them and the program, from *)
(* the outside in: runPTrace, run_boxed.sh with its timeout, the runner    *)
(* script, and restrict_syscalls. The program runs in one such box, then   *)
(* the evaluator of CompareIgnoreWs in another.                            *)
(*                                                                         *)
(* Time is counted in ticks. A box that is cut was sent SIGTERM by         *)
(* timeout, as a group: nothing in it takes another step.                  *)
(***************************************************************************)
EXTENDS CompareIgnoreWs

CONSTANTS
  Limit,             \* the time limit of the task
  Timeout,           \* that limit in whole seconds, given to timeout
  EvaluatorTimeout,  \* the same for the evaluator
  MaxTime            \* bound on the clock

ASSUME TimeAssumption ==
  /\ Limit \in Nat /\ Timeout \in Nat /\ EvaluatorTimeout \in Nat /\ MaxTime \in Nat
  /\ Limit <= Timeout

VARIABLES
  phase,             \* whose box it is, "judged" when the Result is stored
  now,               \* ticks since runPTrace looked at the clock
  script,            \* where the runner script is
  code,              \* the exit code it sees of restrict_syscalls or the evaluator
  status,            \* the file "status" of the script
  stdout,            \* the file "stdout": "missing", "empty", "whole"
  fate,              \* how the program ended
  cut,               \* the box of the program was cut
  lost,              \* a box failed, or the evaluator did not end by itself
  result             \* the status of the Result, "none" before

boxVars == <<now, script, code, status, stdout>>
vars == <<compareVars, boxVars, phase, fate, cut, lost, result>>

(* "exit 0", "exit 1": it ended with 0, or with another code; "killed": by  *)
(* a signal that no tracer sees first, of the kernel for memory or time;    *)
(* "signal": it was to get another signal; "blocked": it made a system call *)
(* that is not allowed, or a second exec.                                   *)
Fate == {"exit 0", "exit 1", "killed", "signal", "blocked"}

(* ResultStatus *)
Verdict == {"CORRECT", "WRONG_ANSWER", "TIME_LIMIT", "RUNTIME_ERROR", "INTERNAL_ERROR"}

TypeOK ==
  /\ CompareTypeOK
  /\ phase \in {"run", "evaluate", "judged"}
  /\ now \in 0..MaxTime
  /\ script \in {"begin", "ready", "running", "left", "echo", "end", "failed"}
  /\ code \in {0, 1, 134}
  /\ status \in {"missing", "-3", "", "1"}
  /\ stdout \in {"missing", "empty", "whole"}
  /\ fate \in Fate \cup {"none"}
  /\ cut \in BOOLEAN /\ lost \in BOOLEAN
  /\ result \in Verdict \cup {"none"}
  /\ phase = "judged" <=> result # "none"
  /\ phase = "run" => at = "idle"

Init ==
  /\ CompareInit
  /\ phase = "run"
  /\ now = 0
  /\ script = "begin"
  /\ code = 0
  /\ status = "missing"
  /\ stdout = "missing"
  /\ fate = "none"
  /\ cut = FALSE
  /\ lost = FALSE
  /\ result = "none"

-----------------------------------------------------------------------------
Goto(place) == script' = place

Tick ==
  /\ phase # "judged"
  /\ now < MaxTime
  /\ now' = now + 1
  /\ UNCHANGED <<compareVars, script, code, status, stdout, phase, fate, cut, lost, result>>

(* sudo, or a command before timeout, fails: a nonzero exit status, and no  *)
(* output is saved.                                                         *)
BoxFails ==
  /\ script = "begin"
  /\ phase # "judged"
  /\ Goto("failed")
  /\ lost' = TRUE
  /\ UNCHANGED <<compareVars, now, code, status, stdout, phase, fate, cut, result>>

(* echo -3 > status *)
EchoFailure ==
  /\ script = "begin"
  /\ phase # "judged"
  /\ Goto("ready")
  /\ status' = "-3"
  /\ UNCHANGED <<compareVars, now, code, stdout, phase, fate, cut, lost, result>>

(* The redirection makes the file stdout, then the program starts. *)
RunProgram ==
  /\ phase = "run"
  /\ script = "ready"
  /\ Goto("running")
  /\ stdout' = "empty"
  /\ UNCHANGED <<compareVars, now, code, status, phase, fate, cut, lost, result>>

(* Mutant: a program that gets a signal is killed, and the tracer waits.    *)
TracerExit_SignalIsKill(how) ==
  CASE how = "exit 1" -> 1
    [] how = "blocked" -> 134
    [] OTHER -> 0

(* parent() of restrict_syscalls: the code of the program; exit(0) after a  *)
(* signal that killed it; exit(1) at a signal that stopped it; abort() at a *)
(* system call or an exec.                                                  *)
TracerExit(how) ==
  CASE how \in {"exit 0", "killed"} -> 0
    [] how \in {"exit 1", "signal"} -> 1
    [] how = "blocked" -> 134

(* The program has written f and ends. The correct output is a file of the  *)
(* test, chosen here: nothing has looked at it before. A program that       *)
(* cannot be executed ends like one that exits with 0 and has written       *)
(* nothing: child() returns, and main with it.                              *)
ProgramEnds(how, f, g) ==
  /\ phase = "run"
  /\ script = "running"
  /\ fate' = how
  /\ code' = TracerExit(how)
  /\ stdout' = "whole"
  /\ output' = f /\ correct' = g
  /\ Goto("left")
  /\ UNCHANGED <<at, outputRead, correctRead, outputOk, correctOk, o, c, success>>
  /\ UNCHANGED <<now, status, phase, cut, lost, result>>

(* The evaluator opens the two files. *)
RunEvaluator ==
  /\ phase = "evaluate"
  /\ script = "ready"
  /\ Goto("running")
  /\ stdout' = "empty"
  /\ Open(output, correct)
  /\ UNCHANGED <<now, code, status, phase, fate, cut, lost, result>>

EvaluatorStep ==
  /\ phase = "evaluate"
  /\ script = "running"
  /\ CompareStep
  /\ UNCHANGED <<boxVars, phase, fate, cut, lost, result>>

(* exit(0) writes what end() printed. *)
EvaluatorEnds ==
  /\ phase = "evaluate"
  /\ script = "running"
  /\ at = "done"
  /\ code' = 0
  /\ stdout' = "whole"
  /\ Goto("left")
  /\ UNCHANGED <<compareVars, now, status, phase, fate, cut, lost, result>>

(* It is killed: nothing in this box traces it. *)
EvaluatorDies ==
  /\ phase = "evaluate"
  /\ script = "running"
  /\ code' = 1
  /\ lost' = TRUE
  /\ Goto("left")
  /\ UNCHANGED <<compareVars, now, status, stdout, phase, fate, cut, result>>

(* && echo 1 > status, which empties the file first. *)
OpenStatus ==
  /\ script = "left"
  /\ IF code = 0
       THEN Goto("echo") /\ status' = ""
       ELSE Goto("end") /\ UNCHANGED status
  /\ UNCHANGED <<compareVars, now, code, stdout, phase, fate, cut, lost, result>>

EchoSuccess ==
  /\ script = "echo"
  /\ Goto("end")
  /\ status' = "1"
  /\ UNCHANGED <<compareVars, now, code, stdout, phase, fate, cut, lost, result>>

(* Mutant: timeout watches over the program and not over the script. *)
Cut_ProgramOnly ==
  /\ script = "running"
  /\ \/ phase = "run" /\ now > Timeout /\ cut' = TRUE /\ UNCHANGED lost
     \/ phase = "evaluate" /\ now > EvaluatorTimeout /\ lost' = TRUE /\ UNCHANGED cut
  /\ Goto("end")
  /\ UNCHANGED <<compareVars, now, code, status, stdout, phase, fate, result>>

(* timeout was started after the clock was read, so more time has passed    *)
(* than it was given.                                                       *)
Cut ==
  /\ script \notin {"end", "failed"}
  /\ \/ phase = "run" /\ now > Timeout /\ cut' = TRUE /\ UNCHANGED lost
     \/ phase = "evaluate" /\ now > EvaluatorTimeout /\ lost' = TRUE /\ UNCHANGED cut
  /\ Goto("end")
  /\ UNCHANGED <<compareVars, now, code, status, stdout, phase, fate, result>>

-----------------------------------------------------------------------------
(* Mutant: the time is looked at before the status. *)
FirstVerdict_TimeFirst ==
  IF status \notin {"missing", "1"} THEN "RUNTIME_ERROR"
  ELSE IF now > Limit THEN "TIME_LIMIT"
  ELSE IF stdout = "missing" THEN "INTERNAL_ERROR"
  ELSE "CORRECT"

(* runForInput: each of its ifs overrides the ones before. A box that       *)
(* failed has no outputs.                                                   *)
FirstVerdict ==
  IF now > Limit THEN "TIME_LIMIT"
  ELSE IF script # "failed" /\ status \notin {"missing", "1"} THEN "RUNTIME_ERROR"
  ELSE IF script = "failed" \/ stdout = "missing" THEN "INTERNAL_ERROR"
  ELSE "CORRECT"

(* runPTrace returns and looks at the clock; runForInput; and run() goes on *)
(* with the evaluator when the verdict is CORRECT so far.                   *)
RunForInput ==
  /\ phase = "run"
  /\ script \in {"end", "failed"}
  /\ IF FirstVerdict = "CORRECT"
       THEN /\ phase' = "evaluate"
            /\ now' = 0
            /\ Goto("begin")
            /\ status' = "missing"
            /\ stdout' = "missing"
            /\ UNCHANGED result
       ELSE /\ phase' = "judged"
            /\ result' = FirstVerdict
            /\ UNCHANGED <<now, script, status, stdout>>
  /\ UNCHANGED <<compareVars, code, fate, cut, lost>>

(* Mutant: a missing or empty answer leaves the verdict as it was. *)
LastVerdict_KeepsFirst ==
  IF script = "failed" \/ stdout # "whole" THEN "CORRECT"
  ELSE IF success THEN "CORRECT" ELSE "WRONG_ANSWER"

(* evaluateOutput: an empty file is not an integer. The time and the status *)
(* of the evaluator are not looked at.                                      *)
LastVerdict ==
  IF script = "failed" \/ stdout # "whole" THEN "INTERNAL_ERROR"
  ELSE IF success THEN "CORRECT" ELSE "WRONG_ANSWER"

EvaluateOutput ==
  /\ phase = "evaluate"
  /\ script \in {"end", "failed"}
  /\ phase' = "judged"
  /\ result' = LastVerdict
  /\ UNCHANGED <<compareVars, boxVars, fate, cut, lost>>

-----------------------------------------------------------------------------
ScriptStep ==
  EchoFailure \/ RunProgram \/ RunEvaluator \/ EvaluatorStep \/ EvaluatorEnds
  \/ OpenStatus \/ EchoSuccess

Next ==
  \/ Tick \/ BoxFails \/ ScriptStep
  \/ \E how \in Fate, f, g \in File : ProgramEnds(how, f, g)
  \/ EvaluatorDies \/ Cut \/ RunForInput \/ EvaluateOutput

Spec == Init /\ [][Next]_vars

(* Time passes, timeout works, and so does the judging thread. Nothing is   *)
(* assumed of the program, the scripts or the evaluator.                    *)
Fairness == WF_vars(Tick) /\ WF_vars(Cut) /\ WF_vars(RunForInput) /\ WF_vars(EvaluateOutput)

FairSpec == Spec /\ Fairness

-----------------------------------------------------------------------------
(* Properties *)

(* A test is only CORRECT when the program ended within the limit by itself *)
(* (a kill by the kernel counts as that, to restrict_syscalls) and the      *)
(* evaluator accepts what it wrote.                                         *)
CorrectIsEarned ==
  result = "CORRECT" =>
    /\ fate \in {"exit 0", "killed"}
    /\ ~cut
    /\ Accepts(output, correct)

(* Nor is a program blamed for what it did not do: WRONG_ANSWER means that  *)
(* the evaluator read a whole output and rejected it, RUNTIME_ERROR that    *)
(* the program failed, INTERNAL_ERROR that it did not, and that a box or    *)
(* the evaluator did.                                                       *)
BlameIsDeserved ==
  /\ result = "WRONG_ANSWER" =>
       fate \in {"exit 0", "killed"} /\ ~cut /\ ~Accepts(output, correct)
  /\ result = "RUNTIME_ERROR" => fate \in {"exit 1", "signal", "blocked"} /\ ~cut
  /\ result = "INTERNAL_ERROR" => lost /\ fate \in {"none", "exit 0", "killed"}

(* However far the script was when timeout cut it, status file empty or     *)
(* not, the verdict is TIME_LIMIT.                                          *)
CutIsTimeLimit == cut /\ phase = "judged" => result = "TIME_LIMIT"

(* Every test is judged, whatever the program and the evaluator do.         *)
EventuallyJudged == <>(phase = "judged")
=============================================================================
