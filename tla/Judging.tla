------------------------------ MODULE Judging ------------------------------
(***************************************************************************)
(* The judging of submissions in web/judging.cpp: the submit handler that  *)
(* stores a submission and queues it, CompileAndRunTask, and one           *)
(* RunTestGroup per test group, which all share the row of the submission. *)
(* The tasks run on the task pool that JudgeMaster implements.             *)
(*                                                                         *)
(* What a compilation or a test run answers is chosen by the environment;  *)
(* so are the exceptions of Thrift ("thrift"), every other exception       *)
(* ("std") and the death of the process ("crash"), as far as Faults allows. *)
(***************************************************************************)
EXTENDS Integers, Sequences, FiniteSets, Functions

CONSTANTS
  Sub,          \* the submissions
  NumGroups,    \* test groups of the task all submissions are for
  NumTests,     \* NumTests[g]: test cases of group g
  Points,       \* Points[g]: points of group g
  Outcomes,     \* the ResultStatus values that tests may get
  Faults,       \* the faults that may occur
  Host          \* judge hosts

ResultStatus == {"CORRECT", "WRONG_ANSWER", "TIME_LIMIT", "RUNTIME_ERROR", "INTERNAL_ERROR"}
Group == 1..NumGroups

ASSUME GroupAssumption == NumGroups \in Nat
ASSUME TestAssumption == NumTests \in [Group -> Nat]
ASSUME PointAssumption == Points \in [Group -> Nat]
ASSUME OutcomeAssumption == Outcomes \subseteq ResultStatus
ASSUME FaultAssumption == Faults \subseteq {"thrift", "std", "crash"}

(* <<s, 0>> is the CompileAndRunTask of s, <<s, g>> its RunTestGroup for g. *)
Task == Sub \X (0..NumGroups)
CompileTask(s) == <<s, 0>>

VARIABLES
  queue, connected, running, added,   \* the task pool
  db,           \* db[s]: the row of submission s
  results,      \* results[s][g]: the Result rows of the tests of g, in order
  pc,           \* pc[t]: where the thread of task t is
  mem,          \* mem[t]: the Submission object in the odb session of that thread
  submitting    \* submit handlers that have stored s and not yet queued it

poolVars == <<queue, connected, running, added>>
vars == <<queue, connected, running, added, db, results, pc, mem, submitting>>

Pool == INSTANCE TaskPool

Row == [status : {"NONE", "PENDING", "JUDGING", "COMPILE_ERROR", "READY", "ERROR"},
        score : Nat, missing : 0..NumGroups, binary : BOOLEAN]
NoRow == [status |-> "NONE", score |-> 0, missing |-> 0, binary |-> FALSE]

(* CompileAndRunTask: load, compile, compiled, adding, end. RunTestGroup:   *)
(* load, tests, end. A TException goes through "unwind_thrift" (the         *)
(* SubmissionUpdate is destroyed) and "catch"; any other exception through  *)
(* "unwind_std". "gone": the thread ended without having counted its group. *)
Place == {"idle", "load", "compile", "compiled", "adding", "tests",
          "unwind_thrift", "unwind_std", "catch", "end", "gone"}

TypeOK ==
  /\ Pool!PoolTypeOK
  /\ db \in [Sub -> Row]
  /\ results \in [Sub -> [Group -> Seq(ResultStatus)]]
  /\ pc \in [Task -> Place]
  /\ mem \in [Task -> Row]
  /\ submitting \subseteq Sub

Init ==
  /\ Pool!PoolInit
  /\ db = [s \in Sub |-> NoRow]
  /\ results = [s \in Sub |-> [g \in Group |-> <<>>]]
  /\ pc = [t \in Task |-> "idle"]
  /\ mem = [t \in Task |-> NoRow]
  /\ submitting = {}

-----------------------------------------------------------------------------
(* Helpers *)

Goto(t, place) == pc' = [pc EXCEPT ![t] = place]

(* The thread of t stores its object as it is, and goes on. *)
Store(t, row, place) ==
  /\ db' = [db EXCEPT ![t[1]] = row]
  /\ mem' = [mem EXCEPT ![t] = row]
  /\ Goto(t, place)

(* The thread of t leaves run(): its odb session goes with it. *)
Leave(t, place) ==
  /\ mem' = [mem EXCEPT ![t] = NoRow]
  /\ Goto(t, place)

Rows(t) == results[t[1]][t[2]]
AllOK(t) == \A i \in 1..Len(Rows(t)) : Rows(t)[i] = "CORRECT"
TestsLeft(t) == AllOK(t) /\ Len(Rows(t)) < NumTests[t[2]]

-----------------------------------------------------------------------------
(* submit(): the row is committed, then the task is queued. *)
Submit(s) ==
  /\ db[s].status = "NONE"
  /\ db' = [db EXCEPT ![s].status = "PENDING"]
  /\ submitting' = submitting \cup {s}
  /\ UNCHANGED <<poolVars, results, pc, mem>>

AddForJudging(s) ==
  /\ s \in submitting
  /\ submitting' = submitting \ {s}
  /\ Pool!Add(CompileTask(s))
  /\ UNCHANGED <<db, results, pc, mem>>

Connect(h) ==
  /\ h \notin connected
  /\ Pool!Connect(h)
  /\ UNCHANGED <<db, results, pc, mem, submitting>>

Start(h) ==
  /\ Pool!Start(h)
  /\ Goto(Head(queue), "load")
  /\ UNCHANGED <<db, results, mem, submitting>>

(* execute() has swallowed any exception and gives the connection back. *)
Finish(t, h) ==
  /\ pc[t] \in {"end", "gone"}
  /\ Pool!Finish(t, h)
  /\ UNCHANGED <<db, results, pc, mem, submitting>>

-----------------------------------------------------------------------------
(* CompileAndRunTask::run *)

LoadForCompile(s) ==
  LET t == CompileTask(s) IN
  /\ pc[t] = "load"
  /\ Store(t, [db[s] EXCEPT !.status = "JUDGING"], "compile")
  /\ UNCHANGED <<poolVars, results, submitting>>

(* compileProgram returns; without a binary at most the message is stored. *)
Compile(s, binary) ==
  LET t == CompileTask(s) IN
  /\ pc[t] = "compile"
  /\ Store(t, [mem[t] EXCEPT !.binary = binary], "compiled")
  /\ UNCHANGED <<poolVars, results, submitting>>

CompileThrows(s) ==
  /\ "thrift" \in Faults
  /\ pc[CompileTask(s)] = "compile"
  /\ Goto(CompileTask(s), "catch")
  /\ UNCHANGED <<poolVars, db, results, mem, submitting>>

NoBinary(s) ==
  LET t == CompileTask(s) IN
  /\ pc[t] = "compiled"
  /\ ~mem[t].binary
  /\ db' = [db EXCEPT ![s] = [mem[t] EXCEPT !.status = "COMPILE_ERROR"]]
  /\ Leave(t, "end")
  /\ UNCHANGED <<poolVars, results, submitting>>

(* Mutant: the last group is not counted as missing. *)
GroupsToCome_OneLess == NumGroups - 1
(* Mutant: one more group is waited for than there is. *)
GroupsToCome_OneMore == NumGroups + 1

(* task->testGroups.size() *)
GroupsToCome == NumGroups

(* startTestGroups stores the number of groups, then queues them in order. *)
StartTestGroups(s) ==
  LET t == CompileTask(s) IN
  /\ pc[t] = "compiled"
  /\ mem[t].binary
  /\ Store(t, [mem[t] EXCEPT !.missing = GroupsToCome], "adding")
  /\ UNCHANGED <<poolVars, results, submitting>>

AddTestGroup(s, g) ==
  /\ pc[CompileTask(s)] = "adding"
  /\ \A k \in Group : k < g <=> <<s, k>> \in added
  /\ Pool!Add(<<s, g>>)
  /\ UNCHANGED <<db, results, pc, mem, submitting>>

AllGroupsAdded(s) ==
  /\ pc[CompileTask(s)] = "adding"
  /\ \A g \in Group : <<s, g>> \in added
  /\ Leave(CompileTask(s), "end")
  /\ UNCHANGED <<poolVars, db, results, submitting>>

-----------------------------------------------------------------------------
(* RunTestGroup::run, for t = <<s, g>> *)

LoadGroup(t) ==
  /\ t[2] # 0
  /\ pc[t] = "load"
  /\ mem' = [mem EXCEPT ![t] = db[t[1]]]
  /\ Goto(t, "tests")
  /\ UNCHANGED <<poolVars, db, results, submitting>>

(* runForInput, evaluateOutput, and the Result row is committed. *)
JudgeTest(t, out) ==
  /\ pc[t] = "tests"
  /\ TestsLeft(t)
  /\ results' = [results EXCEPT ![t[1]][t[2]] = Append(@, out)]
  /\ UNCHANGED <<poolVars, db, pc, mem, submitting>>

TestThrows(t) ==
  /\ pc[t] = "tests"
  /\ TestsLeft(t)
  /\ \/ "thrift" \in Faults /\ Goto(t, "unwind_thrift")
     \/ "std" \in Faults /\ Goto(t, "unwind_std")
  /\ UNCHANGED <<poolVars, db, results, mem, submitting>>

(* Mutants: no db::reload, and every finished group gets its points. *)
Current_NoReload(t) == mem[t]
Gain_Always(t) == IF pc[t] = "tests" THEN Points[t[2]] ELSE 0
(* Mutants: READY one group early, and READY whatever the status was. *)
Published_Early(row) ==
  IF row.missing <= 1 /\ row.status = "JUDGING" THEN [row EXCEPT !.status = "READY"] ELSE row
Published_Anyway(row) ==
  IF row.missing = 0 THEN [row EXCEPT !.status = "READY"] ELSE row
(* Mutant: a group is counted twice. *)
Counted_Twice(row, gain) == [row EXCEPT !.missing = @ - 2, !.score = @ + gain]

(* ~SubmissionUpdate: reload, count the group, add its score, publish. *)
Current(t) == db[t[1]]
Gain(t) == IF pc[t] = "tests" /\ AllOK(t) THEN Points[t[2]] ELSE 0
Counted(row, gain) == [row EXCEPT !.missing = @ - 1, !.score = @ + gain]
Published(row) ==
  IF row.missing = 0 /\ row.status = "JUDGING" THEN [row EXCEPT !.status = "READY"] ELSE row

(* The destructor runs when the tests are over and when an exception leaves *)
(* the loop. It is one step: submissionMutex is held from reload to commit, *)
(* and no other code writes the row once its groups are queued.             *)
ApplyUpdate(t) ==
  /\ \/ pc[t] = "tests" /\ ~TestsLeft(t)
     \/ pc[t] \in {"unwind_thrift", "unwind_std"}
  /\ LET row == Published(Counted(Current(t), Gain(t))) IN
     IF pc[t] = "unwind_thrift"
       THEN Store(t, row, "catch")
       ELSE db' = [db EXCEPT ![t[1]] = row] /\ Leave(t, "end")
  /\ UNCHANGED <<poolVars, results, submitting>>

(* Mutant: the status is left alone. *)
Failed_Forgotten(row) == row

Failed(row) == [row EXCEPT !.status = "ERROR"]

(* The catch of RunTestGroup and of CompileAndRunTask: the object in memory *)
(* is stored with status ERROR, without a reload, and the exception goes on. *)
Catch(t) ==
  /\ pc[t] = "catch"
  /\ db' = [db EXCEPT ![t[1]] = Failed(mem[t])]
  /\ Leave(t, "end")
  /\ UNCHANGED <<poolVars, results, submitting>>

-----------------------------------------------------------------------------
(* Faults *)

(* An exception of the database or of the C++ library where no handler of   *)
(* run() is in scope, or in the handler itself: the thread is over. (One    *)
(* that leaves ~SubmissionUpdate ends the process, as a destructor does not *)
(* throw: that is Crash.)                                                   *)
Throws(t) ==
  /\ "std" \in Faults
  /\ pc[t] \in {"load", "compile", "compiled", "catch"}
  /\ Leave(t, IF pc[t] = "catch" /\ t[2] # 0 THEN "end" ELSE "gone")
  /\ UNCHANGED <<poolVars, db, results, submitting>>

(* The process dies and is started again. Threads, sessions and the queue   *)
(* are lost; nothing looks for unfinished submissions afterwards.           *)
Crash ==
  /\ "crash" \in Faults
  /\ Pool!Restart
  /\ pc' = [t \in Task |-> CASE pc[t] = "idle" -> "idle"
                             [] pc[t] = "end" \/ (pc[t] = "catch" /\ t[2] # 0) -> "end"
                             [] OTHER -> "gone"]
  /\ mem' = [t \in Task |-> NoRow]
  /\ submitting' = {}
  /\ UNCHANGED <<db, results>>

-----------------------------------------------------------------------------
CompileStep(s) ==
  \/ LoadForCompile(s)
  \/ \E b \in BOOLEAN : Compile(s, b)
  \/ CompileThrows(s)
  \/ NoBinary(s)
  \/ StartTestGroups(s)
  \/ \E g \in Group : AddTestGroup(s, g)
  \/ AllGroupsAdded(s)

GroupStep(t) ==
  \/ LoadGroup(t)
  \/ \E out \in Outcomes : JudgeTest(t, out)
  \/ TestThrows(t)
  \/ ApplyUpdate(t)

Next ==
  \/ \E s \in Sub : Submit(s) \/ AddForJudging(s) \/ CompileStep(s)
  \/ \E t \in Task : GroupStep(t) \/ Catch(t) \/ Throws(t)
  \/ \E h \in Host : Connect(h) \/ Start(h)
  \/ \E t \in Task, h \in Host : Finish(t, h)
  \/ Crash

Spec == Init /\ [][Next]_vars

(* Threads and handlers run to their end. *)
ThreadFairness ==
  /\ \A s \in Sub : WF_vars(AddForJudging(s)) /\ WF_vars(CompileStep(s))
  /\ \A t \in Task : WF_vars(GroupStep(t)) /\ WF_vars(Catch(t))
  /\ \A t \in Task, h \in Host : WF_vars(Finish(t, h))

(* Nothing is assumed of the pool: the judge loop may miss that a task was  *)
(* queued, and hosts need not connect.                                      *)
FairSpec == Spec /\ ThreadFairness

-----------------------------------------------------------------------------
(* What viewSubmission shows: the points of the groups of which every test  *)
(* has a CORRECT row.                                                       *)
Earned(s, g) ==
  Cardinality({i \in 1..Len(results[s][g]) : results[s][g][i] = "CORRECT"}) = NumTests[g]
ViewPoints(s) == FoldFunctionOnSet(+, 0, Points, {g \in Group : Earned(s, g)})

(* Properties *)

(* The group has been counted by its SubmissionUpdate. *)
Applied(t) == pc[t] \in {"catch", "end"}
Unapplied(s) == {g \in Group : ~Applied(<<s, g>>)}

GroupsStarted(s) ==
  pc[CompileTask(s)] = "adding" \/ \E g \in Group : <<s, g>> \in added

(* Until a failure, missingResults is the number of groups not yet counted: *)
(* no two groups' reload, decrement and update interfere, no group is       *)
(* counted twice, and no stale object of another session is written back.   *)
MissingCounts ==
  \A s \in Sub :
    GroupsStarted(s) /\ db[s].status # "ERROR" =>
      db[s].missing = Cardinality(Unapplied(s))

(* READY is published only after every group has been counted, whatever     *)
(* failed, crashed or finished in whatever order.                           *)
ReadyIsComplete ==
  \A s \in Sub : db[s].status = "READY" => Unapplied(s) = {}

(* The two ways the server computes points agree: the score of a READY      *)
(* submission (listSubmissions, scoreBoard) is what viewSubmission adds up  *)
(* from the results, and the score is never ahead of the results.           *)
ScoreIsEarned ==
  \A s \in Sub :
    /\ db[s].score <= ViewPoints(s)
    /\ db[s].status = "READY" => db[s].score = ViewPoints(s)

(* A submission moves through its statuses in order, a verdict stays, and   *)
(* the score of a READY submission does not change.                         *)
Life == INSTANCE SubmissionLifecycle WITH
          status <- [s \in Sub |-> db[s].status],
          score <- [s \in Sub |-> db[s].score]
FollowsLifecycle == Life!LifeSpec

AtRest(s) ==
  /\ s \notin submitting
  /\ \A g \in 0..NumGroups : <<s, g>> \in added => pc[<<s, g>>] \in {"end", "gone"}

(* When nothing of a submission is left to run, READY means that every      *)
(* group was judged to its last test or to a failed one: a group that the   *)
(* judge could not run is reported as ERROR. (Only exceptions of Thrift     *)
(* are handled so; Faults must not hold "std" or "crash".)                  *)
ReadyMeansJudged ==
  \A s \in Sub :
    db[s].status = "READY" /\ AtRest(s) => \A g \in Group : ~TestsLeft(<<s, g>>)

(* What the judge loop achieves when events keep waking it and judges are   *)
(* connected (StartsWhenWoken in JudgeMaster), and not otherwise: no task   *)
(* is left in the queue for ever.                                           *)
Queued(t) == \E i \in 1..Len(queue) : queue[i] = t
NoTaskStaysQueued == \A t \in Task : []<>~Queued(t)

(* Every stored submission gets a verdict, when tasks have test groups,     *)
(* nothing worse happens than failing calls to a judge, and the judge loop  *)
(* does not leave its tasks in the queue: whatever the order in which the   *)
(* groups of the submissions end, somebody writes the verdict.              *)
EventuallyJudged ==
  NoTaskStaysQueued =>
    \A s \in Sub :
      db[s].status = "PENDING" ~> db[s].status \in {"COMPILE_ERROR", "READY", "ERROR"}

(* What submissionMutex is for: when every group was counted, none of the   *)
(* counts is lost. It does not hold: the catch block stores an object that  *)
(* was loaded before other groups were counted.                             *)
NoUpdateLost ==
  \A s \in Sub :
    (\A g \in Group : pc[<<s, g>>] = "end") /\ Group # {} => db[s].missing = 0
=============================================================================
