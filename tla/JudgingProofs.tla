--------------------------- MODULE JudgingProofs ---------------------------
(***************************************************************************)
(* For every set of submissions, every number of test groups and tests,    *)
(* every judge host and every combination of faults: the row of a          *)
(* submission counts its outstanding groups exactly until one fails, READY *)
(* is only published when every group has been counted, the score is what  *)
(* the results say, and the row goes through its statuses as               *)
(* SubmissionLifecycle says. When nothing but calls to a judge fails, READY *)
(* also means that every group was judged, and no submission is left       *)
(* without a verdict; when no call fails, no count of a group is lost.     *)
(***************************************************************************)
EXTENDS Judging, FiniteSetTheorems, WellFoundedInduction, TLAPS

(* A task is queued at most once, before its thread starts, and only after  *)
(* it was added.                                                            *)
QueueOK ==
  /\ \A i \in 1..Len(queue) : queue[i] \in added /\ pc[queue[i]] = "idle"
  /\ \A i, j \in 1..Len(queue) : queue[i] = queue[j] => i = j
  /\ \A t \in Task : pc[t] # "idle" => t \in added

(* CompileAndRunTask: it never runs tests; until it has stored the number   *)
(* of groups it queues none of them, and it holds a JUDGING submission.     *)
CompileOK(s) ==
  /\ pc[CompileTask(s)] \notin {"tests", "unwind_thrift", "unwind_std"}
  /\ pc[CompileTask(s)] \in {"idle", "load", "compile", "compiled", "catch"} =>
       \A g \in Group : <<s, g>> \notin added
  /\ pc[CompileTask(s)] \in {"compile", "compiled"} =>
       mem[CompileTask(s)].status = "JUDGING"

(* missingResults never falls below the number of groups to come, not even  *)
(* when a catch block stores an old object, and is exact without an ERROR.  *)
MissingOK(s) ==
  /\ GroupsStarted(s) => db[s].missing >= Cardinality(Unapplied(s))
  /\ GroupsStarted(s) /\ db[s].status # "ERROR" =>
       db[s].missing = Cardinality(Unapplied(s))
  /\ \A g \in Group :
       pc[<<s, g>>] = "catch" => mem[<<s, g>>].missing >= Cardinality(Unapplied(s))

ReadyOK(s) == db[s].status = "READY" => Unapplied(s) = {}

SubInv(s) == CompileOK(s) /\ MissingOK(s) /\ ReadyOK(s)

(* The inductive invariant. *)
IInv == TypeOK /\ QueueOK /\ \A s \in Sub : SubInv(s)

-----------------------------------------------------------------------------
(* Facts about the set of groups that are not counted yet *)

LEMMA UnappliedFinite ==
  ASSUME NEW s \in Sub
  PROVE  /\ IsFiniteSet(Unapplied(s))
         /\ Cardinality(Unapplied(s)) \in 0..NumGroups
<1>1. IsFiniteSet(Group) /\ Cardinality(Group) = NumGroups
      BY GroupAssumption, FS_Interval DEF Group
<1>2. Unapplied(s) \subseteq Group
      BY DEF Unapplied
<1>3. /\ IsFiniteSet(Unapplied(s))
      /\ Cardinality(Unapplied(s)) <= Cardinality(Group)
      BY <1>1, <1>2, FS_Subset
<1>. QED BY <1>1, <1>3, FS_CardinalityType, GroupAssumption

(* No thread of a group that was not added has counted it. *)
LEMMA UnappliedAtStart ==
  ASSUME NEW s \in Sub, QueueOK, \A g \in Group : <<s, g>> \notin added
  PROVE  Unapplied(s) = Group /\ Cardinality(Unapplied(s)) = NumGroups
<1>1. ASSUME NEW g \in Group PROVE ~ Applied(<<s, g>>)
      BY <1>1 DEF QueueOK, Applied, Task, Group
<1>2. Unapplied(s) = Group
      BY <1>1 DEF Unapplied
<1>3. Cardinality(Group) = NumGroups
      BY GroupAssumption, FS_Interval DEF Group
<1>. QED BY <1>2, <1>3

(* Counting one group takes one away. *)
LEMMA UnappliedAfterOne ==
  ASSUME NEW s \in Sub, NEW g \in Group,
         ~ Applied(<<s, g>>), Applied(<<s, g>>)',
         \A k \in Group \ {g} : Applied(<<s, k>>)' <=> Applied(<<s, k>>)
  PROVE  /\ Unapplied(s)' = Unapplied(s) \ {g}
         /\ g \in Unapplied(s)
         /\ Cardinality(Unapplied(s)') = Cardinality(Unapplied(s)) - 1
<1>1. Unapplied(s)' = Unapplied(s) \ {g} /\ g \in Unapplied(s)
      BY DEF Unapplied, Group
<1>. QED BY <1>1, UnappliedFinite, FS_RemoveElement

(* A submission that a step does not touch keeps its invariant. *)
LEMMA Frame ==
  ASSUME NEW s \in Sub, SubInv(s), UNCHANGED db[s],
         \A k \in 0..NumGroups : UNCHANGED <<pc[<<s, k>>], mem[<<s, k>>]>>,
         \A g \in Group : <<s, g>> \in added' <=> <<s, g>> \in added
  PROVE  SubInv(s)'
<1>1. 0 \in 0..NumGroups /\ Group \subseteq 0..NumGroups
      BY GroupAssumption DEF Group
<1>2. \A g \in Group : Applied(<<s, g>>)' <=> Applied(<<s, g>>)
      BY <1>1 DEF Applied
<1>3. Unapplied(s)' = Unapplied(s)
      BY <1>2 DEF Unapplied, Group
<1>4. CompileOK(s)'
      BY <1>1 DEF SubInv, CompileOK, CompileTask, Group
<1>5. GroupsStarted(s)' <=> GroupsStarted(s)
      BY <1>1 DEF GroupsStarted, CompileTask, Group
<1>6. MissingOK(s)'
      BY <1>1, <1>3, <1>5 DEF SubInv, MissingOK, Group
<1>7. ReadyOK(s)'
      BY <1>3 DEF SubInv, ReadyOK
<1>. QED BY <1>4, <1>6, <1>7 DEF SubInv

-----------------------------------------------------------------------------
(* The initial states satisfy the inductive invariant. *)
LEMMA InitIInv == Init => IInv
<1> SUFFICES ASSUME Init PROVE IInv
    OBVIOUS
<1> USE DEF Init, Pool!PoolInit
<1>1. TypeOK
  <2>1. NoRow \in Row
        BY GroupAssumption DEF NoRow, Row
  <2>2. <<>> \in Seq(ResultStatus)
        OBVIOUS
  <2>. QED BY <2>1, <2>2 DEF TypeOK, Pool!PoolTypeOK, Place
<1>2. QueueOK
      BY DEF QueueOK
<1>3. ASSUME NEW s \in Sub PROVE SubInv(s)
  <2>1. \A k \in 0..NumGroups : pc[<<s, k>>] = "idle"
        BY DEF Task
  <2>2. 0 \in 0..NumGroups /\ Group \subseteq 0..NumGroups
        BY GroupAssumption DEF Group
  <2>. QED BY <2>1, <2>2 DEF SubInv, CompileOK, CompileTask, MissingOK, ReadyOK,
                             GroupsStarted, NoRow
<1>. QED BY <1>1, <1>2, <1>3 DEF IInv

-----------------------------------------------------------------------------
(* The queue *)

(* A step that leaves the pool alone and neither starts nor resets a thread *)
LEMMA QueueFrame ==
  ASSUME TypeOK, QueueOK, UNCHANGED <<queue, added>>,
         \A t \in Task : pc'[t] = "idle" <=> pc[t] = "idle"
  PROVE  QueueOK'
<1>1. \A i \in 1..Len(queue) : queue[i] \in Task
      BY DEF TypeOK, Pool!PoolTypeOK
<1>. QED BY <1>1 DEF QueueOK

LEMMA QueueAdd ==
  ASSUME TypeOK, QueueOK, NEW t \in Task, Pool!Add(t), UNCHANGED pc
  PROVE  QueueOK'
<1>1. queue \in Seq(Task) /\ t \notin added /\ added' = added \cup {t}
      BY DEF TypeOK, Pool!PoolTypeOK, Pool!Add
<1>2. /\ Len(queue') = Len(queue) + 1
      /\ queue'[Len(queue) + 1] = t
      /\ \A i \in 1..Len(queue) : queue'[i] = queue[i]
      BY <1>1 DEF Pool!Add
<1>3. \A i \in 1..Len(queue') :
        \/ i \in 1..Len(queue) /\ queue'[i] = queue[i]
        \/ i = Len(queue) + 1 /\ queue'[i] = t
      BY <1>1, <1>2
<1>4. pc[t] = "idle"
      BY <1>1 DEF QueueOK
<1>. QED BY <1>1, <1>3, <1>4 DEF QueueOK

LEMMA QueueStart ==
  ASSUME TypeOK, QueueOK, NEW h \in Host, Start(h)
  PROVE  /\ QueueOK'
         /\ Head(queue) \in Task
         /\ Head(queue) \in added
         /\ pc[Head(queue)] = "idle"
<1>1. queue \in Seq(Task) /\ queue # <<>> /\ queue' = Tail(queue) /\ added' = added
      BY DEF TypeOK, Pool!PoolTypeOK, Start, Pool!Start
<1>2. /\ Len(queue) \in Nat \ {0}
      /\ Head(queue) = queue[1] /\ 1 \in 1..Len(queue)
      /\ Len(queue') = Len(queue) - 1
      /\ \A i \in 1..Len(queue') : queue'[i] = queue[i + 1]
      BY <1>1
<1>3. \A i \in 1..Len(queue') :
        i + 1 \in 1..Len(queue) /\ i + 1 # 1 /\ queue'[i] = queue[i + 1]
      BY <1>2
<1>4. Head(queue) \in Task
      BY <1>1
<1>5. Head(queue) \in added /\ pc[Head(queue)] = "idle"
      BY <1>2 DEF QueueOK
<1>6. pc' = [pc EXCEPT ![Head(queue)] = "load"] /\ pc \in [Task -> Place]
      BY DEF Start, Goto, TypeOK
<1>7. \A i \in 1..Len(queue') : queue'[i] \in added' /\ pc'[queue'[i]] = "idle"
      BY <1>1, <1>2, <1>3, <1>6 DEF QueueOK
<1>8. \A i, j \in 1..Len(queue') : queue'[i] = queue'[j] => i = j
  <2> SUFFICES ASSUME NEW i \in 1..Len(queue'), NEW j \in 1..Len(queue'),
                      queue'[i] = queue'[j]
               PROVE  i = j
      OBVIOUS
  <2>1. i + 1 \in 1..Len(queue) /\ j + 1 \in 1..Len(queue) /\ queue[i + 1] = queue[j + 1]
        BY <1>3
  <2>2. i + 1 = j + 1
        BY <2>1 DEF QueueOK
  <2>. QED BY <2>2
<1>9. \A t \in Task : pc'[t] # "idle" => t \in added'
      BY <1>1, <1>5, <1>6 DEF QueueOK
<1>. QED BY <1>4, <1>5, <1>7, <1>8, <1>9 DEF QueueOK

LEMMA QueueCrash ==
  ASSUME TypeOK, QueueOK, Crash
  PROVE  QueueOK'
<1>1. queue' = <<>> /\ added' = added
      BY DEF Crash, Pool!Restart
<1>2. \A t \in Task : pc'[t] = "idle" <=> pc[t] = "idle"
      BY DEF Crash
<1>. QED BY <1>1, <1>2 DEF QueueOK

-----------------------------------------------------------------------------
(* ~SubmissionUpdate finds its group outstanding and counts it. *)
LEMMA GroupOutstanding ==
  ASSUME IInv, NEW s \in Sub, NEW g \in 0..NumGroups,
         pc[<<s, g>>] \in {"tests", "unwind_thrift", "unwind_std"}
  PROVE  /\ g \in Group
         /\ GroupsStarted(s)
         /\ g \in Unapplied(s)
         /\ Cardinality(Unapplied(s)) \in 1..NumGroups
         /\ db[s].missing \in 1..NumGroups
<1>1. g # 0
      BY DEF IInv, SubInv, CompileOK, CompileTask
<1>2. g \in Group
      BY <1>1, GroupAssumption DEF Group
<1>3. <<s, g>> \in added
      BY DEF IInv, QueueOK, Task
<1>4. GroupsStarted(s)
      BY <1>2, <1>3 DEF GroupsStarted
<1>5. g \in Unapplied(s)
      BY <1>2 DEF Unapplied, Applied
<1>6. Cardinality(Unapplied(s)) \in 1..NumGroups
      BY <1>5, UnappliedFinite, FS_EmptySet, GroupAssumption
<1>7. db[s].missing >= Cardinality(Unapplied(s)) /\ db[s].missing \in 0..NumGroups
      BY <1>4 DEF IInv, SubInv, MissingOK, TypeOK, Row
<1>. QED BY <1>2, <1>4, <1>5, <1>6, <1>7, GroupAssumption

LEMMA CountedRow ==
  ASSUME IInv, NEW s \in Sub, NEW g \in Group, db[s].missing \in 1..NumGroups
  PROVE  LET row == Published(Counted(Current(<<s, g>>), Gain(<<s, g>>)))
         IN  /\ row \in Row
             /\ row.missing = db[s].missing - 1
             /\ row.status = IF db[s].missing = 1 /\ db[s].status = "JUDGING"
                               THEN "READY" ELSE db[s].status
<1> DEFINE gain == Gain(<<s, g>>)
           c == Counted(db[s], gain)
<1>1. gain \in Nat
      BY PointAssumption DEF Gain
<1>2. db[s] \in Row
      BY DEF IInv, TypeOK
<1> HIDE DEF gain
<1>3. c \in Row /\ c.missing = db[s].missing - 1 /\ c.status = db[s].status
  <2>1. db[s].missing - 1 \in 0..NumGroups /\ db[s].score + gain \in Nat
        BY <1>1, <1>2, GroupAssumption DEF Row
  <2> DEFINE m == db[s].missing - 1
             n == db[s].score + gain
  <2>2. c = [db[s] EXCEPT !.missing = m, !.score = n]
        BY DEF Counted
  <2>3. m \in 0..NumGroups /\ n \in Nat
        BY <2>1
  <2> HIDE DEF m, n, c
  <2>4. c \in Row /\ c.missing = m /\ c.status = db[s].status
        BY <1>2, <2>2, <2>3 DEF Row
  <2>. QED BY <2>4 DEF m
<1> HIDE DEF c
<1>4. /\ Published(c) \in Row
      /\ Published(c).missing = c.missing
      /\ Published(c).status = IF c.missing = 0 /\ c.status = "JUDGING" THEN "READY" ELSE c.status
      BY <1>3 DEF Published, Row
<1>5. Current(<<s, g>>) = db[s]
      BY DEF Current
<1>6. Published(Counted(Current(<<s, g>>), Gain(<<s, g>>))) = Published(c)
      BY <1>5 DEF gain, c
<1>7. db[s].missing = 1 <=> c.missing = 0
      BY <1>3, <1>2, GroupAssumption DEF Row
<1>. QED BY <1>3, <1>4, <1>6, <1>7

-----------------------------------------------------------------------------
(* Every step preserves the types. *)

LEMMA RowOf ==
  ASSUME TypeOK
  PROVE  /\ NoRow \in Row
         /\ \A s \in Sub : CompileTask(s) \in Task
         /\ \A t \in Task : t[1] \in Sub /\ t[2] \in 0..NumGroups /\ t = <<t[1], t[2]>>
         /\ \A s \in Sub : db[s] \in Row
         /\ \A t \in Task : mem[t] \in Row
         /\ \A r \in Row, st \in {"PENDING", "JUDGING", "COMPILE_ERROR", "ERROR"} :
              [r EXCEPT !.status = st] \in Row
         /\ \A r \in Row, b \in BOOLEAN : [r EXCEPT !.binary = b] \in Row
         /\ \A r \in Row : [r EXCEPT !.missing = NumGroups] \in Row
<1>1. 0 \in 0..NumGroups /\ NumGroups \in 0..NumGroups
      BY GroupAssumption
<1>2. NoRow \in Row
      BY <1>1 DEF NoRow, Row
<1>3. \A s \in Sub : CompileTask(s) \in Task
      BY <1>1 DEF CompileTask, Task
<1>4. \A t \in Task : t[1] \in Sub /\ t[2] \in 0..NumGroups /\ t = <<t[1], t[2]>>
      BY DEF Task
<1>5. (\A s \in Sub : db[s] \in Row) /\ (\A t \in Task : mem[t] \in Row)
      BY DEF TypeOK
<1>6. \A r \in Row, st \in {"PENDING", "JUDGING", "COMPILE_ERROR", "ERROR"} :
        [r EXCEPT !.status = st] \in Row
      BY DEF Row
<1>7. \A r \in Row, b \in BOOLEAN : [r EXCEPT !.binary = b] \in Row
      BY DEF Row
<1>8. \A r \in Row : [r EXCEPT !.missing = NumGroups] \in Row
      BY <1>1 DEF Row
<1>. QED BY <1>2, <1>3, <1>4, <1>5, <1>6, <1>7, <1>8

LEMMA PoolType ==
  /\ Pool!PoolTypeOK /\ UNCHANGED poolVars => Pool!PoolTypeOK'
  /\ \A t \in Task : Pool!PoolTypeOK /\ Pool!Add(t) => Pool!PoolTypeOK'
  /\ \A h \in Host : Pool!PoolTypeOK /\ Pool!Connect(h) => Pool!PoolTypeOK'
  /\ \A h \in Host : Pool!PoolTypeOK /\ Pool!Start(h) => Pool!PoolTypeOK'
  /\ \A t \in Task, h \in Host : Pool!PoolTypeOK /\ Pool!Finish(t, h) => Pool!PoolTypeOK'
  /\ Pool!PoolTypeOK /\ Pool!Restart => Pool!PoolTypeOK'
<1> USE DEF Pool!PoolTypeOK
<1>1. Pool!PoolTypeOK /\ UNCHANGED poolVars => Pool!PoolTypeOK'
      BY DEF poolVars
<1>2. \A t \in Task : Pool!PoolTypeOK /\ Pool!Add(t) => Pool!PoolTypeOK'
      BY DEF Pool!Add
<1>3. \A h \in Host : Pool!PoolTypeOK /\ Pool!Connect(h) => Pool!PoolTypeOK'
      BY DEF Pool!Connect
<1>4. ASSUME NEW h \in Host, Pool!PoolTypeOK, Pool!Start(h) PROVE Pool!PoolTypeOK'
  <2>1. Head(queue) \in Task /\ Tail(queue) \in Seq(Task)
        BY <1>4 DEF Pool!Start
  <2>. QED BY <1>4, <2>1 DEF Pool!Start
<1>5. \A t \in Task, h \in Host : Pool!PoolTypeOK /\ Pool!Finish(t, h) => Pool!PoolTypeOK'
      BY DEF Pool!Finish
<1>6. Pool!PoolTypeOK /\ Pool!Restart => Pool!PoolTypeOK'
      BY DEF Pool!Restart
<1>. QED BY <1>1, <1>2, <1>3, <1>4, <1>5, <1>6

LEMMA TypeStep == IInv /\ [Next]_vars => TypeOK'
<1> SUFFICES ASSUME IInv, [Next]_vars PROVE TypeOK'
    OBVIOUS
<1>0. TypeOK
      BY DEF IInv
<1> USE <1>0, RowOf, PoolType DEF TypeOK, Goto, Store, Leave, Place
<1>1. ASSUME NEW s \in Sub, Submit(s) PROVE TypeOK'
  <2>1. db' = [db EXCEPT ![s] = [db[s] EXCEPT !.status = "PENDING"]]
        BY <1>1 DEF Submit
  <2>. QED BY <1>1, <2>1, ZenonT(60) DEF Submit
<1>2. ASSUME NEW s \in Sub, AddForJudging(s) PROVE TypeOK'
      BY <1>2 DEF AddForJudging
<1>3. ASSUME NEW s \in Sub, LoadForCompile(s) PROVE TypeOK'
  <2>1. [db[s] EXCEPT !.status = "JUDGING"] \in Row
        OBVIOUS
  <2>. QED BY <1>3, <2>1 DEF LoadForCompile
<1>4. ASSUME NEW s \in Sub, NEW b \in BOOLEAN, Compile(s, b) PROVE TypeOK'
  <2>1. [mem[CompileTask(s)] EXCEPT !.binary = b] \in Row
        OBVIOUS
  <2>. QED BY <1>4, <2>1 DEF Compile
<1>5. ASSUME NEW s \in Sub, CompileThrows(s) PROVE TypeOK'
      BY <1>5 DEF CompileThrows
<1>6. ASSUME NEW s \in Sub, NoBinary(s) PROVE TypeOK'
  <2>1. [mem[CompileTask(s)] EXCEPT !.status = "COMPILE_ERROR"] \in Row
        OBVIOUS
  <2>. QED BY <1>6, <2>1 DEF NoBinary
<1>7. ASSUME NEW s \in Sub, StartTestGroups(s) PROVE TypeOK'
  <2>1. [mem[CompileTask(s)] EXCEPT !.missing = NumGroups] \in Row
        OBVIOUS
  <2>. QED BY <1>7, <2>1 DEF StartTestGroups, GroupsToCome
<1>8. ASSUME NEW s \in Sub, NEW g \in Group, AddTestGroup(s, g) PROVE TypeOK'
  <2>1. <<s, g>> \in Task
        BY GroupAssumption DEF Task, Group
  <2>. QED BY <1>8, <2>1 DEF AddTestGroup
<1>9. ASSUME NEW s \in Sub, AllGroupsAdded(s) PROVE TypeOK'
      BY <1>9 DEF AllGroupsAdded
<1>10. ASSUME NEW t \in Task, LoadGroup(t) PROVE TypeOK'
       BY <1>10 DEF LoadGroup
<1>11. ASSUME NEW t \in Task, NEW out \in Outcomes, JudgeTest(t, out) PROVE TypeOK'
  <2>1. t[2] \in Group /\ t = <<t[1], t[2]>>
        BY <1>11, GroupOutstanding DEF JudgeTest
  <2>2. Append(results[t[1]][t[2]], out) \in Seq(ResultStatus)
        BY <2>1, OutcomeAssumption
  <2>3. results' \in [Sub -> [Group -> Seq(ResultStatus)]]
        BY <1>11, <2>1, <2>2 DEF JudgeTest
  <2>. QED BY <1>11, <2>3 DEF JudgeTest
<1>12. ASSUME NEW t \in Task, TestThrows(t) PROVE TypeOK'
       BY <1>12 DEF TestThrows
<1>13. ASSUME NEW t \in Task, ApplyUpdate(t) PROVE TypeOK'
  <2> DEFINE row == Published(Counted(Current(t), Gain(t)))
  <2>1. t[2] \in Group /\ db[t[1]].missing \in 1..NumGroups
        BY <1>13, GroupOutstanding DEF ApplyUpdate
  <2>2. row \in Row
        BY <2>1, CountedRow
  <2>3. /\ db' = [db EXCEPT ![t[1]] = row]
        /\ \/ mem' = [mem EXCEPT ![t] = row] /\ pc' = [pc EXCEPT ![t] = "catch"]
           \/ mem' = [mem EXCEPT ![t] = NoRow] /\ pc' = [pc EXCEPT ![t] = "end"]
        /\ UNCHANGED <<poolVars, results, submitting>>
        BY <1>13 DEF ApplyUpdate
  <2> HIDE DEF row
  <2>. QED BY <2>2, <2>3
<1>14. ASSUME NEW t \in Task, Catch(t) PROVE TypeOK'
  <2>1. [mem[t] EXCEPT !.status = "ERROR"] \in Row
        OBVIOUS
  <2>. QED BY <1>14, <2>1 DEF Catch, Failed
<1>15. ASSUME NEW t \in Task, Throws(t) PROVE TypeOK'
       BY <1>15 DEF Throws
<1>16. ASSUME NEW h \in Host, Connect(h) PROVE TypeOK'
       BY <1>16 DEF Connect
<1>17. ASSUME NEW h \in Host, Start(h) PROVE TypeOK'
       BY <1>17 DEF Start
<1>18. ASSUME NEW t \in Task, NEW h \in Host, Finish(t, h) PROVE TypeOK'
       BY <1>18 DEF Finish
<1>19. CASE Crash
       BY <1>19 DEF Crash
<1>20. CASE UNCHANGED vars
       BY <1>20 DEF vars, poolVars
<1>. QED
  BY <1>1, <1>2, <1>3, <1>4, <1>5, <1>6, <1>7, <1>8, <1>9, <1>10, <1>11, <1>12, <1>13,
     <1>14, <1>15, <1>16, <1>17, <1>18, <1>19, <1>20
  DEF Next, CompileStep, GroupStep

-----------------------------------------------------------------------------
(* Every step preserves the inductive invariant. *)

(* A step of one running thread, <<s, g>>: the queue, and every submission  *)
(* but s, are as before.                                                    *)
LEMMA OneThread ==
  ASSUME IInv, NEW s \in Sub, NEW g \in 0..NumGroups,
         UNCHANGED <<queue, added>>,
         pc[<<s, g>>] # "idle", pc'[<<s, g>>] # "idle",
         \A u \in Task \ {<<s, g>>} : UNCHANGED <<pc[u], mem[u]>>,
         \A r \in Sub \ {s} : UNCHANGED db[r]
  PROVE  QueueOK' /\ \A r \in Sub \ {s} : SubInv(r)'
<1>1. QueueOK'
      BY QueueFrame DEF IInv
<1>2. ASSUME NEW r \in Sub \ {s} PROVE SubInv(r)'
  <2>1. \A k \in 0..NumGroups : <<r, k>> \in Task \ {<<s, g>>}
        BY DEF Task
  <2>. QED BY <2>1, Frame DEF IInv
<1>. QED BY <1>1, <1>2

(* A step that changes no thread and no row, and adds no group. *)
LEMMA NoThread ==
  ASSUME IInv, UNCHANGED <<db, pc, mem>>,
         \A s \in Sub, k \in Group : <<s, k>> \in added' <=> <<s, k>> \in added
  PROVE  \A s \in Sub : SubInv(s)'
  BY Frame DEF IInv

(* The steps of CompileAndRunTask *)
LEMMA CompileStepIInv ==
  ASSUME IInv, NEW s \in Sub, CompileStep(s)
  PROVE  QueueOK' /\ \A r \in Sub : SubInv(r)'
<1> DEFINE t == CompileTask(s)
<1>0. /\ t = <<s, 0>> /\ t \in Task /\ 0 \in 0..NumGroups /\ 0 \notin Group
      /\ \A g \in Group : g \in 0..NumGroups /\ <<s, g>> \in Task \ {t}
      BY GroupAssumption DEF CompileTask, Task, Group
<1>a. TypeOK /\ QueueOK /\ SubInv(s)
      BY DEF IInv
<1>b. pc \in [Task -> Place] /\ mem \in [Task -> Row] /\ db \in [Sub -> Row]
      BY <1>a DEF TypeOK
(* While no group is queued, only CompileOK and the status matter. *)
<1>c. ASSUME UNCHANGED <<queue, added>>,
             pc[t] \in {"load", "compile", "compiled"},
             pc'[t] \in {"compile", "compiled", "end"},
             \A u \in Task \ {t} : UNCHANGED <<pc[u], mem[u]>>,
             \A r \in Sub \ {s} : UNCHANGED db[r],
             db'[s].status # "READY",
             pc'[t] \in {"compile", "compiled"} => mem'[t].status = "JUDGING"
      PROVE  QueueOK' /\ \A r \in Sub : SubInv(r)'
  <2>1. \A g \in Group : <<s, g>> \notin added /\ <<s, g>> \notin added'
        BY <1>a, <1>c DEF SubInv, CompileOK
  <2>2. QueueOK' /\ \A r \in Sub \ {s} : SubInv(r)'
        BY <1>0, <1>c, OneThread
  <2>3. ~ GroupsStarted(s)'
        BY <1>c, <2>1 DEF GroupsStarted, CompileTask
  <2>4. \A g \in Group : pc'[<<s, g>>] # "catch"
        BY <1>0, <1>a, <1>c, <2>1 DEF QueueOK
  <2>5. CompileOK(s)' /\ MissingOK(s)' /\ ReadyOK(s)'
        BY <1>c, <2>1, <2>3, <2>4 DEF CompileOK, MissingOK, ReadyOK, CompileTask
  <2>. QED BY <2>2, <2>5 DEF SubInv
<1>1. CASE LoadForCompile(s)
  <2>1. /\ db' = [db EXCEPT ![s] = [db[s] EXCEPT !.status = "JUDGING"]]
        /\ mem' = [mem EXCEPT ![t] = [db[s] EXCEPT !.status = "JUDGING"]]
        BY <1>1 DEF LoadForCompile, Store, CompileTask
  <2>2. [db[s] EXCEPT !.status = "JUDGING"].status = "JUDGING"
        BY <1>b DEF Row
  <2>. QED BY <1>0, <1>1, <1>b, <1>c, <2>1, <2>2
           DEF LoadForCompile, Store, Goto, poolVars
<1>2. ASSUME NEW b \in BOOLEAN, Compile(s, b) PROVE QueueOK' /\ \A r \in Sub : SubInv(r)'
  <2>1. /\ db' = [db EXCEPT ![s] = [mem[t] EXCEPT !.binary = b]]
        /\ mem' = [mem EXCEPT ![t] = [mem[t] EXCEPT !.binary = b]]
        BY <1>2 DEF Compile, Store, CompileTask
  <2>2. [mem[t] EXCEPT !.binary = b].status = "JUDGING"
        BY <1>0, <1>2, <1>a, <1>b DEF Row, Compile, SubInv, CompileOK
  <2>. QED BY <1>0, <1>2, <1>b, <1>c, <2>1, <2>2
           DEF Compile, Store, Goto, poolVars
<1>3. CASE CompileThrows(s)
  <2>1. SubInv(s)'
    <3>1. \A g \in Group : <<s, g>> \notin added /\ <<s, g>> \notin added'
          BY <1>3, <1>a DEF CompileThrows, SubInv, CompileOK, poolVars
    <3>2. pc' = [pc EXCEPT ![t] = "catch"] /\ UNCHANGED <<db, mem>>
          BY <1>3 DEF CompileThrows, Goto
    <3>3. \A g \in Group : Applied(<<s, g>>)' <=> Applied(<<s, g>>)
          BY <1>0, <1>b, <3>2 DEF Applied
    <3>4. Unapplied(s)' = Unapplied(s)
          BY <3>3 DEF Unapplied, Group
    <3>5. ~ GroupsStarted(s)' /\ CompileOK(s)'
          BY <1>0, <1>b, <3>1, <3>2 DEF GroupsStarted, CompileOK, CompileTask
    <3>6. \A g \in Group : pc'[<<s, g>>] # "catch"
          BY <1>0, <1>a, <1>b, <3>1, <3>2 DEF QueueOK
    <3>. QED BY <1>a, <3>2, <3>4, <3>5, <3>6 DEF SubInv, MissingOK, ReadyOK
  <2>2. QueueOK' /\ \A r \in Sub \ {s} : SubInv(r)'
        BY <1>0, <1>3, <1>b, OneThread DEF CompileThrows, Goto, poolVars
  <2>. QED BY <2>1, <2>2
<1>4. CASE NoBinary(s)
  <2>1. db' = [db EXCEPT ![s] = [mem[t] EXCEPT !.status = "COMPILE_ERROR"]]
        BY <1>4 DEF NoBinary, CompileTask
  <2>2. [mem[t] EXCEPT !.status = "COMPILE_ERROR"].status = "COMPILE_ERROR"
        BY <1>0, <1>b DEF Row
  <2>. QED BY <1>0, <1>4, <1>b, <1>c, <2>1, <2>2
           DEF NoBinary, Leave, Goto, poolVars
<1>5. CASE StartTestGroups(s)
  <2> DEFINE row == [mem[t] EXCEPT !.missing = NumGroups]
  <2>1. /\ db' = [db EXCEPT ![s] = row] /\ mem' = [mem EXCEPT ![t] = row]
        /\ pc' = [pc EXCEPT ![t] = "adding"] /\ pc[t] = "compiled"
        /\ UNCHANGED <<queue, added>>
        BY <1>5 DEF StartTestGroups, Store, Goto, CompileTask, GroupsToCome, poolVars
  <2>2. row.missing = NumGroups /\ row.status = "JUDGING"
        BY <1>0, <1>a, <1>b, <2>1 DEF Row, SubInv, CompileOK
  <2> HIDE DEF row
  <2>3. QueueOK' /\ \A r \in Sub \ {s} : SubInv(r)'
        BY <1>0, <1>b, <2>1, OneThread
  <2>4. \A g \in Group : <<s, g>> \notin added'
        BY <1>a, <2>1 DEF SubInv, CompileOK
  <2>5. Cardinality(Unapplied(s)') = NumGroups
    <3>1. Cardinality(Unapplied(s)) = NumGroups
          BY <1>a, <2>1, <2>4, UnappliedAtStart
    <3>2. \A g \in Group : Applied(<<s, g>>)' <=> Applied(<<s, g>>)
          BY <1>0, <1>b, <2>1 DEF Applied
    <3>3. Unapplied(s)' = Unapplied(s)
          BY <3>2 DEF Unapplied, Group
    <3>. QED BY <3>1, <3>3
  <2>6. \A g \in Group : pc'[<<s, g>>] # "catch"
        BY <1>0, <2>3, <2>4 DEF QueueOK
  <2>7. db'[s] = row /\ pc'[t] = "adding"
        BY <1>0, <1>b, <2>1
  <2>8. CompileOK(s)' /\ MissingOK(s)' /\ ReadyOK(s)'
        BY <2>2, <2>5, <2>6, <2>7, GroupAssumption
        DEF CompileOK, MissingOK, ReadyOK, CompileTask
  <2>. QED BY <2>3, <2>8 DEF SubInv
<1>6. ASSUME NEW g \in Group, AddTestGroup(s, g) PROVE QueueOK' /\ \A r \in Sub : SubInv(r)'
  <2>1. /\ pc[t] = "adding" /\ UNCHANGED <<db, pc, mem>>
        /\ added' = added \cup {<<s, g>>}
        BY <1>6 DEF AddTestGroup, Pool!Add
  <2>2. QueueOK'
        BY <1>0, <1>6, <1>a, QueueAdd DEF AddTestGroup
  <2>3. \A r \in Sub \ {s} : SubInv(r)'
        BY <2>1, Frame DEF IInv
  <2>4. Unapplied(s)' = Unapplied(s) /\ GroupsStarted(s) /\ GroupsStarted(s)'
        BY <2>1 DEF Unapplied, Applied, GroupsStarted
  <2>5. CompileOK(s)' /\ MissingOK(s)' /\ ReadyOK(s)'
        BY <1>a, <2>1, <2>4 DEF SubInv, CompileOK, MissingOK, ReadyOK, CompileTask
  <2>. QED BY <2>2, <2>3, <2>5 DEF SubInv
<1>7. CASE AllGroupsAdded(s)
  <2>1. /\ pc[t] = "adding" /\ pc' = [pc EXCEPT ![t] = "end"]
        /\ mem' = [mem EXCEPT ![t] = NoRow]
        /\ UNCHANGED <<queue, added, db>>
        BY <1>7 DEF AllGroupsAdded, Leave, Goto, poolVars
  <2>2. QueueOK' /\ \A r \in Sub \ {s} : SubInv(r)'
        BY <1>0, <1>b, <2>1, OneThread
  <2>3. \A g \in Group : UNCHANGED <<pc[<<s, g>>], mem[<<s, g>>]>>
        BY <1>0, <1>b, <2>1
  <2>4. Unapplied(s)' = Unapplied(s) /\ GroupsStarted(s) /\ pc'[t] = "end"
        BY <1>0, <1>b, <2>1, <2>3 DEF Unapplied, Applied, Group, GroupsStarted
  <2>5. CompileOK(s)' /\ MissingOK(s)' /\ ReadyOK(s)'
        BY <1>a, <2>1, <2>3, <2>4 DEF SubInv, CompileOK, MissingOK, ReadyOK, CompileTask
  <2>. QED BY <2>2, <2>5 DEF SubInv
<1>. QED BY <1>1, <1>2, <1>3, <1>4, <1>5, <1>6, <1>7 DEF CompileStep

(* A step of a RunTestGroup thread that neither counts the group nor stores *)
(* anything                                                                 *)
LEMMA GroupMoves ==
  ASSUME IInv, NEW s \in Sub, NEW g \in Group,
         UNCHANGED <<queue, added, db>>,
         pc[<<s, g>>] # "idle", pc'[<<s, g>>] \notin {"idle", "catch"},
         Applied(<<s, g>>)' <=> Applied(<<s, g>>),
         \A u \in Task \ {<<s, g>>} : UNCHANGED <<pc[u], mem[u]>>
  PROVE  QueueOK' /\ \A r \in Sub : SubInv(r)'
<1>0. /\ 0 \in 0..NumGroups /\ <<s, 0>> \in Task \ {<<s, g>>} /\ g \in 0..NumGroups
      /\ \A k \in Group \ {g} : <<s, k>> \in Task \ {<<s, g>>}
      BY GroupAssumption DEF Task, Group
<1>1. QueueOK' /\ \A r \in Sub \ {s} : SubInv(r)'
      BY <1>0, OneThread
<1>2. \A k \in Group : Applied(<<s, k>>)' <=> Applied(<<s, k>>)
      BY <1>0 DEF Applied
<1>3. Unapplied(s)' = Unapplied(s)
      BY <1>2 DEF Unapplied, Group
<1>4. GroupsStarted(s)' <=> GroupsStarted(s)
      BY <1>0 DEF GroupsStarted, CompileTask, Group
<1>5. CompileOK(s)'
      BY <1>0 DEF IInv, SubInv, CompileOK, CompileTask, Group
<1>6. ASSUME NEW k \in Group, pc'[<<s, k>>] = "catch"
      PROVE  mem'[<<s, k>>].missing >= Cardinality(Unapplied(s)')
      BY <1>0, <1>3, <1>6 DEF IInv, SubInv, MissingOK
<1>7. MissingOK(s)' /\ ReadyOK(s)'
      BY <1>3, <1>4, <1>6 DEF IInv, SubInv, MissingOK, ReadyOK
<1>. QED BY <1>1, <1>5, <1>7 DEF SubInv

(* The count of a group and the publication of the verdict *)
LEMMA ApplyUpdateIInv ==
  ASSUME IInv, NEW t \in Task, ApplyUpdate(t)
  PROVE  QueueOK' /\ \A r \in Sub : SubInv(r)'
<1>0. PICK s \in Sub, g \in 0..NumGroups : t = <<s, g>>
      BY DEF Task
<1> DEFINE row == Published(Counted(Current(t), Gain(t)))
           n == Cardinality(Unapplied(s))
<1>1. /\ g \in Group /\ GroupsStarted(s) /\ g \in Unapplied(s) /\ n \in 1..NumGroups
      /\ db[s].missing \in 1..NumGroups
      BY <1>0, GroupOutstanding DEF ApplyUpdate
<1>2. /\ row.missing = db[s].missing - 1
      /\ row.status = IF db[s].missing = 1 /\ db[s].status = "JUDGING"
                        THEN "READY" ELSE db[s].status
      BY <1>0, <1>1, CountedRow
<1>3. /\ db' = [db EXCEPT ![s] = row]
      /\ \/ mem' = [mem EXCEPT ![t] = row] /\ pc' = [pc EXCEPT ![t] = "catch"]
         \/ mem' = [mem EXCEPT ![t] = NoRow] /\ pc' = [pc EXCEPT ![t] = "end"]
      /\ UNCHANGED <<queue, added>>
      /\ pc[t] \notin {"idle", "catch", "end"}
      BY <1>0 DEF ApplyUpdate, Store, Leave, Goto, poolVars
<1> HIDE DEF row, n
<1>a. pc \in [Task -> Place] /\ mem \in [Task -> Row] /\ db \in [Sub -> Row]
      BY DEF IInv, TypeOK
<1>b. /\ <<s, 0>> \in Task \ {t} /\ 0 \in 0..NumGroups
      /\ \A k \in Group \ {g} : <<s, k>> \in Task \ {t}
      BY <1>0, <1>1, GroupAssumption DEF Task, Group
<1>4. QueueOK' /\ \A r \in Sub \ {s} : SubInv(r)'
      BY <1>0, <1>3, <1>a, OneThread
<1>5. /\ ~ Applied(<<s, g>>) /\ Applied(<<s, g>>)'
      /\ \A k \in Group \ {g} : Applied(<<s, k>>)' <=> Applied(<<s, k>>)
      BY <1>0, <1>3, <1>a, <1>b DEF Applied
<1>6. /\ Unapplied(s)' = Unapplied(s) \ {g}
      /\ Cardinality(Unapplied(s)') = n - 1
      BY <1>1, <1>5, UnappliedAfterOne DEF n
<1>7. db'[s] = row /\ pc'[<<s, 0>>] = pc[<<s, 0>>] /\ mem'[<<s, 0>>] = mem[<<s, 0>>]
      BY <1>3, <1>a, <1>b
<1>8. CompileOK(s)'
      BY <1>3, <1>7 DEF IInv, SubInv, CompileOK, CompileTask, Group
<1>9. db[s].missing >= n /\ (db[s].status # "ERROR" => db[s].missing = n)
      BY <1>1 DEF IInv, SubInv, MissingOK, n
<1>10. row.missing >= n - 1 /\ (row.status # "ERROR" => row.missing = n - 1)
       BY <1>1, <1>2, <1>9
<1>11. ASSUME NEW k \in Group, pc'[<<s, k>>] = "catch"
       PROVE  mem'[<<s, k>>].missing >= n - 1
  <2>1. CASE k = g
        BY <1>0, <1>3, <1>10, <1>11, <1>a, <2>1
  <2>2. CASE k # g
    <3>1. pc[<<s, k>>] = "catch" /\ mem'[<<s, k>>] = mem[<<s, k>>]
          BY <1>3, <1>11, <1>a, <1>b, <2>2
    <3>2. mem[<<s, k>>].missing >= n /\ mem[<<s, k>>].missing \in 0..NumGroups
          BY <1>a, <1>b, <2>2, <3>1 DEF IInv, SubInv, MissingOK, n, Row
    <3>. QED BY <1>1, <3>1, <3>2
  <2>. QED BY <2>1, <2>2
<1>12. MissingOK(s)'
       BY <1>6, <1>7, <1>10, <1>11 DEF MissingOK
<1>13. ReadyOK(s)'
  <2>1. ASSUME row.status = "READY" PROVE Unapplied(s)' = {}
    <3>1. db[s].status # "READY"
          BY <1>1 DEF IInv, SubInv, ReadyOK
    <3>2. n = 1
          BY <1>2, <1>9, <2>1, <3>1
    <3>3. Cardinality(Unapplied(s)') = 0 /\ IsFiniteSet(Unapplied(s)')
          BY <1>6, <3>2, UnappliedFinite, FS_Subset
    <3>. QED BY <3>3, FS_EmptySet
  <2>. QED BY <1>7, <2>1 DEF ReadyOK
<1>. QED BY <1>4, <1>8, <1>12, <1>13 DEF SubInv

(* The catch blocks *)
LEMMA CatchIInv ==
  ASSUME IInv, NEW t \in Task, Catch(t)
  PROVE  QueueOK' /\ \A r \in Sub : SubInv(r)'
<1>0. PICK s \in Sub, g \in 0..NumGroups : t = <<s, g>>
      BY DEF Task
<1>a. pc \in [Task -> Place] /\ mem \in [Task -> Row] /\ db \in [Sub -> Row]
      BY DEF IInv, TypeOK
<1>1. /\ pc[t] = "catch" /\ pc' = [pc EXCEPT ![t] = "end"]
      /\ db' = [db EXCEPT ![s] = Failed(mem[t])]
      /\ mem' = [mem EXCEPT ![t] = NoRow]
      /\ UNCHANGED <<queue, added>>
      BY <1>0 DEF Catch, Leave, Goto, poolVars
<1>2. Failed(mem[t]).status = "ERROR" /\ Failed(mem[t]).missing = mem[t].missing
      BY <1>a DEF Failed, Row
<1>3. QueueOK' /\ \A r \in Sub \ {s} : SubInv(r)'
      BY <1>0, <1>1, <1>a, OneThread
<1>4. \A k \in Group : <<s, k>> \in Task /\ (Applied(<<s, k>>)' <=> Applied(<<s, k>>))
      BY <1>0, <1>1, <1>a DEF Applied, Task, Group
<1>5. Unapplied(s)' = Unapplied(s)
      BY <1>4 DEF Unapplied, Group
<1>6. db'[s] = Failed(mem[t]) /\ <<s, 0>> \in Task
      BY <1>1, <1>a, GroupAssumption DEF Task
<1>7. CompileOK(s)' /\ (GroupsStarted(s)' <=> GroupsStarted(s))
  <2>1. CASE g = 0
        BY <1>0, <1>1, <1>a, <1>6, <2>1
        DEF IInv, SubInv, CompileOK, CompileTask, GroupsStarted, Group
  <2>2. CASE g # 0
    <3>1. pc'[<<s, 0>>] = pc[<<s, 0>>] /\ mem'[<<s, 0>>] = mem[<<s, 0>>]
          BY <1>0, <1>1, <1>a, <1>6, <2>2
    <3>. QED BY <1>1, <3>1 DEF IInv, SubInv, CompileOK, CompileTask, GroupsStarted, Group
  <2>. QED BY <2>1, <2>2
<1>8. GroupsStarted(s) => mem[t].missing >= Cardinality(Unapplied(s))
  <2>1. CASE g = 0
        BY <1>0, <1>1, <2>1 DEF IInv, SubInv, CompileOK, CompileTask, GroupsStarted
  <2>2. CASE g # 0
    <3>1. g \in Group
          BY <2>2, GroupAssumption DEF Group
    <3>. QED BY <1>0, <1>1, <3>1 DEF IInv, SubInv, MissingOK
  <2>. QED BY <2>1, <2>2
<1>9. ASSUME NEW k \in Group, pc'[<<s, k>>] = "catch"
      PROVE  mem'[<<s, k>>].missing >= Cardinality(Unapplied(s))
  <2>1. <<s, k>> # t /\ pc[<<s, k>>] = "catch" /\ mem'[<<s, k>>] = mem[<<s, k>>]
        BY <1>1, <1>4, <1>9, <1>a
  <2>. QED BY <2>1 DEF IInv, SubInv, MissingOK
<1>10. MissingOK(s)' /\ ReadyOK(s)'
       BY <1>2, <1>5, <1>6, <1>7, <1>8, <1>9 DEF MissingOK, ReadyOK
<1>. QED BY <1>3, <1>7, <1>10 DEF SubInv

(* Exceptions that no handler catches *)
LEMMA ThrowsIInv ==
  ASSUME IInv, NEW t \in Task, Throws(t)
  PROVE  QueueOK' /\ \A r \in Sub : SubInv(r)'
<1>0. PICK s \in Sub, g \in 0..NumGroups : t = <<s, g>>
      BY DEF Task
<1>a. pc \in [Task -> Place] /\ mem \in [Task -> Row] /\ db \in [Sub -> Row]
      BY DEF IInv, TypeOK
<1>1. /\ pc[t] \in {"load", "compile", "compiled", "tests", "catch"}
      /\ pc' = [pc EXCEPT ![t] = IF pc[t] = "catch" /\ g # 0 THEN "end" ELSE "gone"]
      /\ mem' = [mem EXCEPT ![t] = NoRow]
      /\ UNCHANGED <<queue, added, db>>
      BY <1>0 DEF Throws, Leave, Goto, poolVars
<1>2. CASE g # 0
  <2>1. g \in Group
        BY <1>2, GroupAssumption DEF Group
  <2>2. /\ pc'[t] = IF pc[t] = "catch" THEN "end" ELSE "gone"
        /\ \A u \in Task \ {t} : UNCHANGED <<pc[u], mem[u]>>
        BY <1>1, <1>2, <1>a
  <2>3. Applied(t)' <=> Applied(t)
        BY <1>1, <2>2 DEF Applied
  <2>. QED BY <1>0, <1>1, <2>1, <2>2, <2>3, GroupMoves
<1>3. CASE g = 0
  <2>1. /\ pc'[t] = "gone" /\ t = CompileTask(s)
        /\ \A u \in Task \ {t} : UNCHANGED <<pc[u], mem[u]>>
        BY <1>0, <1>1, <1>3, <1>a DEF CompileTask
  <2>2. QueueOK' /\ \A r \in Sub \ {s} : SubInv(r)'
        BY <1>0, <1>1, <2>1, OneThread
  <2>3. \A k \in Group : <<s, k>> \in Task \ {t}
        BY <1>0, <1>3, GroupAssumption DEF Task, Group
  <2>4. Unapplied(s)' = Unapplied(s)
        BY <2>1, <2>3 DEF Unapplied, Applied, Group
  <2>5. ~ GroupsStarted(s) /\ ~ GroupsStarted(s)'
        BY <1>1, <2>1 DEF IInv, SubInv, CompileOK, GroupsStarted
  <2>6. CompileOK(s)' /\ MissingOK(s)' /\ ReadyOK(s)'
        BY <1>1, <2>1, <2>3, <2>4, <2>5 DEF IInv, SubInv, CompileOK, MissingOK, ReadyOK
  <2>. QED BY <2>2, <2>6 DEF SubInv
<1>. QED BY <1>2, <1>3

(* A thread starts. *)
LEMMA StartIInv ==
  ASSUME IInv, NEW h \in Host, Start(h)
  PROVE  QueueOK' /\ \A r \in Sub : SubInv(r)'
<1>1. QueueOK' /\ Head(queue) \in Task /\ Head(queue) \in added /\ pc[Head(queue)] = "idle"
      BY QueueStart DEF IInv
<1>0. PICK s \in Sub, g \in 0..NumGroups : Head(queue) = <<s, g>>
      BY <1>1 DEF Task
<1> DEFINE t == <<s, g>>
<1>a. pc \in [Task -> Place]
      BY DEF IInv, TypeOK
<1>2. /\ pc' = [pc EXCEPT ![t] = "load"] /\ pc[t] = "idle"
      /\ UNCHANGED <<added, db, mem>>
      BY <1>0, <1>1 DEF Start, Goto, Pool!Start
<1>3. \A r \in Sub, k \in 0..NumGroups : <<r, k>> \in Task
      BY DEF Task
<1>4. ASSUME NEW r \in Sub PROVE SubInv(r)'
  <2>1. \A k \in Group : Applied(<<r, k>>)' <=> Applied(<<r, k>>)
        BY <1>2, <1>3, <1>a DEF Applied, Group
  <2>2. Unapplied(r)' = Unapplied(r)
        BY <2>1 DEF Unapplied, Group
  <2>3. \/ pc'[<<r, 0>>] = pc[<<r, 0>>]
        \/ pc[<<r, 0>>] = "idle" /\ pc'[<<r, 0>>] = "load"
        BY <1>2, <1>3, <1>a, GroupAssumption
  <2>4. CompileOK(r)' /\ (GroupsStarted(r)' <=> GroupsStarted(r))
        BY <1>2, <2>3 DEF IInv, SubInv, CompileOK, CompileTask, GroupsStarted, Group
  <2>5. \A k \in Group : pc'[<<r, k>>] = "catch" => pc[<<r, k>>] = "catch"
        BY <1>2, <1>3, <1>a DEF Group
  <2>6. MissingOK(r)' /\ ReadyOK(r)'
        BY <1>2, <2>2, <2>4, <2>5 DEF IInv, SubInv, MissingOK, ReadyOK
  <2>. QED BY <2>4, <2>6 DEF SubInv
<1>. QED BY <1>1, <1>4

(* The process is started again. *)
LEMMA CrashIInv ==
  ASSUME IInv, Crash
  PROVE  QueueOK' /\ \A r \in Sub : SubInv(r)'
<1>1. QueueOK' /\ UNCHANGED <<added, db>>
      BY QueueCrash DEF IInv, Crash, Pool!Restart
<1>2. ASSUME NEW r \in Sub PROVE SubInv(r)'
  <2>1. \A k \in Group : <<r, k>> \in Task /\ k # 0
        BY DEF Task, Group
  <2>2. \A k \in Group : Applied(<<r, k>>)' <=> Applied(<<r, k>>)
        BY <2>1 DEF Applied, Crash
  <2>3. Unapplied(r)' = Unapplied(r)
        BY <2>2 DEF Unapplied, Group
  <2>4. /\ <<r, 0>> \in Task /\ pc'[<<r, 0>>] \in {"idle", "end", "gone"}
        /\ pc'[<<r, 0>>] = "idle" => pc[<<r, 0>>] = "idle"
        BY GroupAssumption DEF Task, Crash
  <2>5. CompileOK(r)' /\ (GroupsStarted(r)' => GroupsStarted(r))
        BY <1>1, <2>4 DEF IInv, SubInv, CompileOK, CompileTask, GroupsStarted, Group
  <2>6. \A k \in Group : pc'[<<r, k>>] # "catch"
        BY <2>1 DEF Crash
  <2>7. MissingOK(r)' /\ ReadyOK(r)'
        BY <1>1, <2>3, <2>5, <2>6 DEF IInv, SubInv, MissingOK, ReadyOK
  <2>. QED BY <2>5, <2>7 DEF SubInv
<1>. QED BY <1>1, <1>2

LEMMA StepIInv == IInv /\ [Next]_vars => IInv'
<1> SUFFICES ASSUME IInv, [Next]_vars PROVE QueueOK' /\ \A r \in Sub : SubInv(r)'
    BY TypeStep DEF IInv
<1>0. TypeOK /\ QueueOK /\ pc \in [Task -> Place] /\ db \in [Sub -> Row]
      BY DEF IInv, TypeOK
<1>1. ASSUME NEW s \in Sub, Submit(s) PROVE QueueOK' /\ \A r \in Sub : SubInv(r)'
  <2>1. /\ db[s].status = "NONE" /\ db' = [db EXCEPT ![s] = [db[s] EXCEPT !.status = "PENDING"]]
        /\ UNCHANGED <<queue, added, pc, mem>>
        BY <1>1 DEF Submit, poolVars
  <2>2. QueueOK'
        BY <1>0, <2>1, QueueFrame
  <2>3. \A r \in Sub \ {s} : SubInv(r)'
        BY <1>0, <2>1, Frame DEF IInv
  <2>4. db'[s].status = "PENDING" /\ db'[s].missing = db[s].missing
        BY <1>0, <2>1 DEF Row
  <2>5. Unapplied(s)' = Unapplied(s) /\ (GroupsStarted(s)' <=> GroupsStarted(s))
        BY <2>1 DEF Unapplied, Applied, GroupsStarted
  <2>6. CompileOK(s)' /\ MissingOK(s)' /\ ReadyOK(s)'
        BY <2>1, <2>4, <2>5 DEF IInv, SubInv, CompileOK, MissingOK, ReadyOK
  <2>. QED BY <2>2, <2>3, <2>6 DEF SubInv
<1>2. ASSUME NEW s \in Sub, AddForJudging(s) PROVE QueueOK' /\ \A r \in Sub : SubInv(r)'
  <2>1. CompileTask(s) \in Task
        BY <1>0, RowOf
  <2>2. QueueOK'
        BY <1>0, <1>2, <2>1, QueueAdd DEF AddForJudging
  <2>3. \A r \in Sub, k \in Group : <<r, k>> \in added' <=> <<r, k>> \in added
        BY <1>2, GroupAssumption DEF AddForJudging, Pool!Add, CompileTask, Group
  <2>. QED BY <1>2, <2>2, <2>3, NoThread DEF AddForJudging
<1>3. ASSUME NEW s \in Sub, CompileStep(s) PROVE QueueOK' /\ \A r \in Sub : SubInv(r)'
      BY <1>3, CompileStepIInv
<1>4. ASSUME NEW t \in Task, LoadGroup(t) PROVE QueueOK' /\ \A r \in Sub : SubInv(r)'
  <2>1. PICK s \in Sub, g \in Group : t = <<s, g>>
        BY <1>4, GroupAssumption DEF LoadGroup, Task, Group
  <2>2. /\ pc[t] = "load" /\ pc' = [pc EXCEPT ![t] = "tests"]
        /\ mem' = [mem EXCEPT ![t] = db[t[1]]]
        /\ UNCHANGED <<queue, added, db>>
        BY <1>4 DEF LoadGroup, Goto, poolVars
  <2>3. pc'[t] = "tests" /\ \A u \in Task \ {t} : UNCHANGED <<pc[u], mem[u]>>
        BY <1>0, <2>2 DEF IInv, TypeOK
  <2>. QED BY <2>1, <2>2, <2>3, GroupMoves DEF Applied
<1>5. ASSUME NEW t \in Task, NEW out \in Outcomes, JudgeTest(t, out)
      PROVE  QueueOK' /\ \A r \in Sub : SubInv(r)'
      BY <1>0, <1>5, QueueFrame, NoThread DEF JudgeTest, poolVars
<1>6. ASSUME NEW t \in Task, TestThrows(t) PROVE QueueOK' /\ \A r \in Sub : SubInv(r)'
  <2>1. PICK s \in Sub, g \in Group : t = <<s, g>>
        BY <1>6, GroupOutstanding DEF TestThrows, Task
  <2>2. /\ pc[t] = "tests" /\ pc'[t] \in {"unwind_thrift", "unwind_std"}
        /\ \A u \in Task \ {t} : UNCHANGED <<pc[u], mem[u]>>
        /\ UNCHANGED <<queue, added, db>>
        BY <1>0, <1>6 DEF TestThrows, Goto, poolVars
  <2>. QED BY <2>1, <2>2, GroupMoves DEF Applied
<1>7. ASSUME NEW t \in Task, ApplyUpdate(t) PROVE QueueOK' /\ \A r \in Sub : SubInv(r)'
      BY <1>7, ApplyUpdateIInv
<1>8. ASSUME NEW t \in Task, Catch(t) PROVE QueueOK' /\ \A r \in Sub : SubInv(r)'
      BY <1>8, CatchIInv
<1>9. ASSUME NEW t \in Task, Throws(t) PROVE QueueOK' /\ \A r \in Sub : SubInv(r)'
      BY <1>9, ThrowsIInv
<1>10. ASSUME NEW h \in Host, Connect(h) PROVE QueueOK' /\ \A r \in Sub : SubInv(r)'
       BY <1>0, <1>10, QueueFrame, NoThread DEF Connect, Pool!Connect
<1>11. ASSUME NEW h \in Host, Start(h) PROVE QueueOK' /\ \A r \in Sub : SubInv(r)'
       BY <1>11, StartIInv
<1>12. ASSUME NEW t \in Task, NEW h \in Host, Finish(t, h)
       PROVE  QueueOK' /\ \A r \in Sub : SubInv(r)'
       BY <1>0, <1>12, QueueFrame, NoThread DEF Finish, Pool!Finish
<1>13. CASE Crash
       BY <1>13, CrashIInv
<1>14. CASE UNCHANGED vars
       BY <1>0, <1>14, QueueFrame, NoThread DEF vars
<1>. QED
  BY <1>1, <1>2, <1>3, <1>4, <1>5, <1>6, <1>7, <1>8, <1>9, <1>10, <1>11, <1>12, <1>13, <1>14
  DEF Next, GroupStep

(* The inductive invariant holds in every reachable state. *)
LEMMA Invariance == Spec => []IInv
  BY InitIInv, StepIInv, PTL DEF Spec

-----------------------------------------------------------------------------
(* Every variable keeps its type; in particular missingResults never        *)
(* becomes negative, although a catch block may store an old object.        *)
THEOREM TypeCorrect == Spec => []TypeOK
<1>1. IInv => TypeOK BY DEF IInv
<1>. QED BY <1>1, Invariance, PTL

(* Without a failure, missingResults is the number of groups not counted,   *)
(* in every interleaving of any number of groups on any number of hosts.    *)
THEOREM CountsAreExact == Spec => []MissingCounts
<1>1. IInv => MissingCounts BY DEF IInv, SubInv, MissingOK, MissingCounts
<1>. QED BY <1>1, Invariance, PTL

(* READY is only published when every group has been counted, whatever      *)
(* failed and whenever the process died.                                    *)
THEOREM ReadyWhenComplete == Spec => []ReadyIsComplete
<1>1. IInv => ReadyIsComplete BY DEF IInv, SubInv, ReadyOK, ReadyIsComplete
<1>. QED BY <1>1, Invariance, PTL

-----------------------------------------------------------------------------
(* The row of a submission and the thread that compiles it: the task is     *)
(* added once the row is stored, the thread holds the row as it is until it *)
(* queues groups, and afterwards the status is that of a judged submission. *)
LifeOK(s) ==
  /\ db[s].status = "NONE" => CompileTask(s) \notin added /\ s \notin submitting
  /\ pc[CompileTask(s)] \in {"idle", "load"} => db[s].status \in {"NONE", "PENDING"}
  /\ pc[CompileTask(s)] \in {"compile", "compiled", "catch"} =>
       db[s].status = "JUDGING" /\ mem[CompileTask(s)] = db[s]
  /\ GroupsStarted(s) => db[s].status \in {"JUDGING", "READY", "ERROR"}

LifeInv == IInv /\ \A s \in Sub : LifeOK(s)

LEMMA LifeFrame ==
  ASSUME NEW s \in Sub, LifeOK(s), UNCHANGED <<db[s], pc[<<s, 0>>], mem[<<s, 0>>]>>,
         \A k \in 0..NumGroups : <<s, k>> \in added' <=> <<s, k>> \in added,
         s \in submitting' => s \in submitting
  PROVE  LifeOK(s)'
<1>1. 0 \in 0..NumGroups /\ Group \subseteq 0..NumGroups
      BY GroupAssumption DEF Group
<1>2. GroupsStarted(s)' <=> GroupsStarted(s)
      BY <1>1 DEF GroupsStarted, CompileTask
<1>. QED BY <1>1, <1>2 DEF LifeOK, CompileTask

(* Once groups are queued, the compiling thread has nothing left to store. *)
LEMMA CompiledOnce ==
  ASSUME IInv, NEW s \in Sub, GroupsStarted(s)
  PROVE  pc[CompileTask(s)] \notin {"idle", "load", "compile", "compiled", "catch"}
  BY DEF IInv, SubInv, CompileOK, GroupsStarted

(* A new row of one submission, as the lifecycle allows it. *)
Allowed(old, new) ==
  \/ new.status = old.status /\ new.score = old.score
  \/ /\ <<old.status, new.status>> \in {<<"NONE", "PENDING">>, <<"PENDING", "JUDGING">>,
                                        <<"JUDGING", "COMPILE_ERROR">>}
     /\ new.score = old.score
  \/ /\ old.status = "JUDGING" /\ new.status \in {"JUDGING", "READY"}
     /\ new.score >= old.score
  \/ /\ old.status \in {"JUDGING", "READY", "ERROR"} /\ new.status = "ERROR"
     /\ new.score \in Nat

LEMMA RowMoves ==
  ASSUME NEW s \in Sub, NEW row, db \in [Sub -> Row], db' = [db EXCEPT ![s] = row],
         Allowed(db[s], row)
  PROVE  [Life!LifeNext]_(Life!lifeVars)
<1> DEFINE status == [r \in Sub |-> db[r].status]
           score == [r \in Sub |-> db[r].score]
<1>1. /\ db'[s] = row
      /\ \A r \in Sub \ {s} : db'[r] = db[r]
      OBVIOUS
<1>2. /\ status' = [status EXCEPT ![s] = row.status]
      /\ score'[s] = row.score
      /\ \A r \in Sub \ {s} : score'[r] = score[r]
      /\ status[s] = db[s].status /\ score[s] = db[s].score
      BY <1>1
<1>3. row.score = db[s].score => score' = score
      BY <1>1, <1>2
<1>4. row.status = db[s].status => status' = status
      BY <1>1, <1>2
<1>5. CASE row.status = db[s].status /\ row.score = db[s].score
      BY <1>3, <1>4, <1>5 DEF Life!lifeVars
<1>6. CASE /\ <<db[s].status, row.status>> \in {<<"NONE", "PENDING">>, <<"PENDING", "JUDGING">>,
                                                <<"JUDGING", "COMPILE_ERROR">>}
           /\ row.score = db[s].score
  <2>1. Life!Store(s) \/ Life!Begin(s) \/ Life!Reject(s)
        BY <1>2, <1>3, <1>6 DEF Life!Store, Life!Begin, Life!Reject, Life!Move
  <2>. QED BY <2>1 DEF Life!LifeNext
<1>7. CASE /\ db[s].status = "JUDGING" /\ row.status \in {"JUDGING", "READY"}
           /\ row.score >= db[s].score
  <2>1. Life!Count(s)
        BY <1>2, <1>7 DEF Life!Count, Life!Move, Life!OnlyScoreOf
  <2>. QED BY <2>1 DEF Life!LifeNext
<1>8. CASE /\ db[s].status \in {"JUDGING", "READY", "ERROR"} /\ row.status = "ERROR"
           /\ row.score \in Nat
  <2>1. Life!Fail(s)
        BY <1>2, <1>8 DEF Life!Fail, Life!Move, Life!OnlyScoreOf
  <2>. QED BY <2>1 DEF Life!LifeNext
<1>. QED BY <1>5, <1>6, <1>7, <1>8 DEF Allowed

LEMMA RowStays ==
  ASSUME UNCHANGED db
  PROVE  [Life!LifeNext]_(Life!lifeVars)
  BY DEF Life!lifeVars

(* What a group adds to the score is not negative. *)
LEMMA CountedScore ==
  ASSUME IInv, NEW s \in Sub, NEW g \in Group
  PROVE  LET row == Published(Counted(Current(<<s, g>>), Gain(<<s, g>>)))
         IN  row.score \in Nat /\ row.score >= db[s].score
<1> DEFINE gain == Gain(<<s, g>>)
           c == Counted(db[s], gain)
<1>1. gain \in Nat
      BY PointAssumption DEF Gain
<1>2. db[s] \in Row
      BY DEF IInv, TypeOK
<1>3. c.score = db[s].score + gain /\ db[s].score \in Nat
      BY <1>2 DEF Counted, Row
<1>4. Published(c).score = c.score
      BY <1>2 DEF Published, Counted, Row
<1>5. Current(<<s, g>>) = db[s]
      BY DEF Current
<1>. QED BY <1>1, <1>3, <1>4, <1>5

(* The steps of CompileAndRunTask *)
LEMMA CompileLife ==
  ASSUME LifeInv, NEW s \in Sub, CompileStep(s)
  PROVE  (\A r \in Sub : LifeOK(r)') /\ [Life!LifeNext]_(Life!lifeVars)
<1> DEFINE t == <<s, 0>>
<1>0. /\ QueueOK /\ IInv /\ SubInv(s) /\ LifeOK(s) /\ \A r \in Sub : LifeOK(r)
      /\ pc \in [Task -> Place] /\ mem \in [Task -> Row] /\ db \in [Sub -> Row]
      BY DEF LifeInv, IInv, TypeOK
<1>a. /\ CompileTask(s) = t /\ t \in Task
      /\ \A r \in Sub \ {s} : <<r, 0>> \in Task \ {t}
      BY GroupAssumption DEF CompileTask, Task
<1>b. db[s] \in Row /\ mem[t] \in Row
      BY <1>0, <1>a
(* What is left to show of a step that stores a row and adds nothing *)
<1>c. ASSUME NEW row, db' = [db EXCEPT ![s] = row], Allowed(db[s], row),
             UNCHANGED <<added, submitting>>, db[s].status # "NONE", row.status # "NONE",
             pc[t] \in {"load", "compile", "compiled"}, pc'[t] \in {"compile", "compiled", "adding", "end"},
             \A u \in Task \ {t} : UNCHANGED <<pc[u], mem[u]>>,
             pc'[t] \in {"compile", "compiled"} => row.status = "JUDGING" /\ mem'[t] = row,
             pc'[t] = "adding" => row.status = "JUDGING"
      PROVE  (\A r \in Sub : LifeOK(r)') /\ [Life!LifeNext]_(Life!lifeVars)
  <2>1. \A r \in Sub \ {s} : LifeOK(r)'
        BY <1>0, <1>a, <1>c, LifeFrame
  <2>2. db'[s] = row
        BY <1>0, <1>c
  <2>3. \A g \in Group : <<s, g>> \notin added'
        BY <1>0, <1>a, <1>c DEF SubInv, CompileOK
  <2>4. GroupsStarted(s)' => pc'[t] = "adding"
        BY <1>a, <2>3 DEF GroupsStarted, CompileTask
  <2>5. LifeOK(s)'
        BY <1>a, <1>c, <2>2, <2>4 DEF LifeOK, CompileTask
  <2>. QED BY <1>0, <1>c, <2>1, <2>5, RowMoves
<1>1. CASE LoadForCompile(s)
  <2> DEFINE row == [db[s] EXCEPT !.status = "JUDGING"]
  <2>1. /\ db' = [db EXCEPT ![s] = row] /\ mem' = [mem EXCEPT ![t] = row]
        /\ pc[t] = "load" /\ pc' = [pc EXCEPT ![t] = "compile"]
        /\ UNCHANGED <<added, submitting>>
        BY <1>1, <1>a DEF LoadForCompile, Store, Goto, poolVars
  <2>2. row.status = "JUDGING" /\ row.score = db[s].score
        BY <1>b DEF Row
  <2>3. db[s].status = "PENDING"
    <3>1. t \in added
          BY <1>0, <1>a, <2>1 DEF QueueOK
    <3>. QED BY <1>0, <1>a, <2>1, <3>1 DEF LifeOK
  <2> HIDE DEF row
  <2>4. Allowed(db[s], row)
        BY <2>2, <2>3 DEF Allowed
  <2>5. pc'[t] = "compile" /\ mem'[t] = row /\ \A u \in Task \ {t} : UNCHANGED <<pc[u], mem[u]>>
        BY <1>0, <1>a, <2>1
  <2>. QED BY <1>c, <2>1, <2>2, <2>3, <2>4, <2>5
<1>2. ASSUME NEW b \in BOOLEAN, Compile(s, b)
      PROVE  (\A r \in Sub : LifeOK(r)') /\ [Life!LifeNext]_(Life!lifeVars)
  <2> DEFINE row == [mem[t] EXCEPT !.binary = b]
  <2>1. /\ db' = [db EXCEPT ![s] = row] /\ mem' = [mem EXCEPT ![t] = row]
        /\ pc[t] = "compile" /\ pc' = [pc EXCEPT ![t] = "compiled"]
        /\ UNCHANGED <<added, submitting>>
        BY <1>2, <1>a DEF Compile, Store, Goto, poolVars
  <2>2. db[s].status = "JUDGING" /\ mem[t] = db[s]
        BY <1>0, <1>a, <2>1 DEF LifeOK
  <2>3. row.status = "JUDGING" /\ row.score = db[s].score
        BY <1>b, <2>2 DEF Row
  <2> HIDE DEF row
  <2>4. Allowed(db[s], row)
        BY <2>2, <2>3 DEF Allowed
  <2>5. pc'[t] = "compiled" /\ mem'[t] = row /\ \A u \in Task \ {t} : UNCHANGED <<pc[u], mem[u]>>
        BY <1>0, <1>a, <2>1
  <2>. QED BY <1>c, <2>1, <2>2, <2>3, <2>4, <2>5
<1>3. CASE CompileThrows(s)
  <2>1. /\ UNCHANGED <<db, mem, added, submitting>>
        /\ pc[t] = "compile" /\ pc' = [pc EXCEPT ![t] = "catch"]
        BY <1>3, <1>a DEF CompileThrows, Goto, poolVars
  <2>2. \A r \in Sub \ {s} : LifeOK(r)'
        BY <1>0, <1>a, <2>1, LifeFrame
  <2>3. pc'[t] = "catch" /\ (GroupsStarted(s)' => GroupsStarted(s))
        BY <1>0, <1>a, <2>1 DEF GroupsStarted, CompileTask
  <2>4. LifeOK(s)'
        BY <1>0, <1>a, <2>1, <2>3 DEF LifeOK, CompileTask
  <2>. QED BY <2>1, <2>2, <2>4, RowStays
<1>4. CASE NoBinary(s)
  <2> DEFINE row == [mem[t] EXCEPT !.status = "COMPILE_ERROR"]
  <2>1. /\ db' = [db EXCEPT ![s] = row] /\ mem' = [mem EXCEPT ![t] = NoRow]
        /\ pc[t] = "compiled" /\ pc' = [pc EXCEPT ![t] = "end"]
        /\ UNCHANGED <<added, submitting>>
        BY <1>4, <1>a DEF NoBinary, Leave, Goto, poolVars
  <2>2. db[s].status = "JUDGING" /\ mem[t] = db[s]
        BY <1>0, <1>a, <2>1 DEF LifeOK
  <2>3. row.status = "COMPILE_ERROR" /\ row.score = db[s].score
        BY <1>b, <2>2 DEF Row
  <2> HIDE DEF row
  <2>4. Allowed(db[s], row)
        BY <2>2, <2>3 DEF Allowed
  <2>5. pc'[t] = "end" /\ \A u \in Task \ {t} : UNCHANGED <<pc[u], mem[u]>>
        BY <1>0, <1>a, <2>1
  <2>. QED BY <1>c, <2>1, <2>2, <2>3, <2>4, <2>5
<1>5. CASE StartTestGroups(s)
  <2> DEFINE row == [mem[t] EXCEPT !.missing = GroupsToCome]
  <2>1. /\ db' = [db EXCEPT ![s] = row] /\ mem' = [mem EXCEPT ![t] = row]
        /\ pc[t] = "compiled" /\ pc' = [pc EXCEPT ![t] = "adding"]
        /\ UNCHANGED <<added, submitting>>
        BY <1>5, <1>a DEF StartTestGroups, Store, Goto, poolVars
  <2>2. db[s].status = "JUDGING" /\ mem[t] = db[s]
        BY <1>0, <1>a, <2>1 DEF LifeOK
  <2>3. row.status = "JUDGING" /\ row.score = db[s].score
        BY <1>b, <2>2 DEF Row
  <2> HIDE DEF row
  <2>4. Allowed(db[s], row)
        BY <2>2, <2>3 DEF Allowed
  <2>5. pc'[t] = "adding" /\ \A u \in Task \ {t} : UNCHANGED <<pc[u], mem[u]>>
        BY <1>0, <1>a, <2>1
  <2>. QED BY <1>c, <2>1, <2>2, <2>3, <2>4, <2>5
<1>6. ASSUME NEW g \in Group, AddTestGroup(s, g)
      PROVE  (\A r \in Sub : LifeOK(r)') /\ [Life!LifeNext]_(Life!lifeVars)
  <2>1. /\ pc[t] = "adding" /\ UNCHANGED <<db, pc, mem, submitting>>
        /\ added' = added \cup {<<s, g>>} /\ g # 0
        BY <1>6, <1>a DEF AddTestGroup, Pool!Add, Group
  <2>2. \A r \in Sub \ {s} : LifeOK(r)'
        BY <1>0, <2>1, LifeFrame
  <2>3. GroupsStarted(s)
        BY <1>a, <2>1 DEF GroupsStarted
  <2>4. LifeOK(s)'
        BY <1>0, <1>a, <2>1, <2>3 DEF LifeOK, CompileTask
  <2>. QED BY <2>1, <2>2, <2>4, RowStays
<1>7. CASE AllGroupsAdded(s)
  <2>1. /\ pc[t] = "adding" /\ pc' = [pc EXCEPT ![t] = "end"]
        /\ mem' = [mem EXCEPT ![t] = NoRow] /\ UNCHANGED <<db, added, submitting>>
        BY <1>7, <1>a DEF AllGroupsAdded, Leave, Goto, poolVars
  <2>2. \A r \in Sub \ {s} : LifeOK(r)'
        BY <1>0, <1>a, <2>1, LifeFrame
  <2>3. GroupsStarted(s) /\ pc'[t] = "end"
        BY <1>0, <1>a, <2>1 DEF GroupsStarted
  <2>4. LifeOK(s)'
        BY <1>0, <1>a, <2>1, <2>3 DEF LifeOK, CompileTask
  <2>. QED BY <2>1, <2>2, <2>4, RowStays
<1>. QED BY <1>1, <1>2, <1>3, <1>4, <1>5, <1>6, <1>7 DEF CompileStep

(* Every step keeps LifeOK and is a step of the lifecycle, or a stutter. *)
LEMMA LifeStep ==
  ASSUME LifeInv, [Next]_vars
  PROVE  (\A r \in Sub : LifeOK(r)') /\ [Life!LifeNext]_(Life!lifeVars)
<1> DEFINE Goal == (\A r \in Sub : LifeOK(r)') /\ [Life!LifeNext]_(Life!lifeVars)
<1>0. /\ TypeOK /\ QueueOK /\ IInv
      /\ pc \in [Task -> Place] /\ mem \in [Task -> Row] /\ db \in [Sub -> Row]
      /\ \A s \in Sub : LifeOK(s) /\ SubInv(s)
      BY DEF LifeInv, IInv, TypeOK
<1>a. /\ 0 \in 0..NumGroups /\ 0 \notin Group /\ Group \subseteq 0..NumGroups
      /\ \A s \in Sub : CompileTask(s) = <<s, 0>>
      /\ \A s \in Sub, k \in 0..NumGroups : <<s, k>> \in Task
      BY GroupAssumption DEF Group, CompileTask, Task
<1>b. ASSUME UNCHANGED <<db, added>>, \A r \in Sub : UNCHANGED <<pc[<<r, 0>>], mem[<<r, 0>>]>>,
             submitting' \subseteq submitting
      PROVE  Goal
      BY <1>0, <1>b, LifeFrame, RowStays
<1>1. ASSUME NEW s \in Sub, Submit(s) PROVE Goal
  <2>1. /\ db[s].status = "NONE" /\ db' = [db EXCEPT ![s] = [db[s] EXCEPT !.status = "PENDING"]]
        /\ submitting' = submitting \cup {s}
        /\ UNCHANGED <<added, pc, mem>>
        BY <1>1 DEF Submit, poolVars
  <2>2. db'[s].status = "PENDING" /\ db'[s].score = db[s].score
        BY <1>0, <2>1 DEF Row
  <2>3. \A r \in Sub \ {s} : LifeOK(r)'
        BY <1>0, <2>1, LifeFrame
  <2>4. ~ GroupsStarted(s)' /\ pc[CompileTask(s)] \notin {"compile", "compiled", "catch"}
        BY <1>0, <2>1 DEF LifeOK, GroupsStarted
  <2>5. LifeOK(s)'
        BY <1>a, <2>1, <2>2, <2>4 DEF LifeOK
  <2>6. Allowed(db[s], [db[s] EXCEPT !.status = "PENDING"])
        BY <1>0, <2>1 DEF Row, Allowed
  <2>. QED BY <1>0, <2>1, <2>3, <2>5, <2>6, RowMoves
<1>2. ASSUME NEW s \in Sub, AddForJudging(s) PROVE Goal
  <2>1. /\ s \in submitting /\ submitting' = submitting \ {s}
        /\ added' = added \cup {<<s, 0>>} /\ UNCHANGED <<db, pc, mem>>
        BY <1>2, <1>a DEF AddForJudging, Pool!Add
  <2>2. \A r \in Sub \ {s} : LifeOK(r)'
        BY <1>0, <2>1, LifeFrame
  <2>3. GroupsStarted(s)' <=> GroupsStarted(s)
        BY <1>a, <2>1 DEF GroupsStarted
  <2>4. LifeOK(s)'
        BY <1>0, <2>1, <2>3 DEF LifeOK
  <2>. QED BY <2>1, <2>2, <2>4, RowStays
<1>3. ASSUME NEW s \in Sub, CompileStep(s) PROVE Goal
      BY <1>3, CompileLife
<1>4. ASSUME NEW t \in Task, LoadGroup(t) PROVE Goal
  <2>1. \A r \in Sub : <<r, 0>> # t /\ <<r, 0>> \in Task
        BY <1>4, <1>a DEF LoadGroup
  <2>. QED BY <1>0, <1>4, <1>b, <2>1 DEF LoadGroup, Goto, poolVars
<1>5. ASSUME NEW t \in Task, NEW out \in Outcomes, JudgeTest(t, out) PROVE Goal
      BY <1>5, <1>b DEF JudgeTest, poolVars
<1>6. ASSUME NEW t \in Task, TestThrows(t) PROVE Goal
  <2>1. pc[t] = "tests"
        BY <1>6 DEF TestThrows
  <2>2. \A r \in Sub : <<r, 0>> # t /\ <<r, 0>> \in Task
        BY <1>0, <1>a, <2>1 DEF SubInv, CompileOK
  <2>. QED BY <1>0, <1>6, <1>b, <2>2 DEF TestThrows, Goto, poolVars
<1>7. ASSUME NEW t \in Task, ApplyUpdate(t) PROVE Goal
  <2>0. PICK s \in Sub, g \in 0..NumGroups : t = <<s, g>>
        BY DEF Task
  <2> DEFINE row == Published(Counted(Current(t), Gain(t)))
  <2>1. /\ g \in Group /\ GroupsStarted(s) /\ g \in Unapplied(s)
        /\ db[s].missing \in 1..NumGroups
        BY <1>0, <1>7, <2>0, GroupOutstanding DEF ApplyUpdate
  <2>2. row.status = IF db[s].missing = 1 /\ db[s].status = "JUDGING"
                       THEN "READY" ELSE db[s].status
        BY <1>0, <2>0, <2>1, CountedRow
  <2>3. row.score \in Nat /\ row.score >= db[s].score
        BY <1>0, <2>0, <2>1, CountedScore
  <2>4. db' = [db EXCEPT ![s] = row] /\ UNCHANGED <<added, submitting>>
        BY <1>7, <2>0 DEF ApplyUpdate, Store, Leave, Goto, poolVars
  <2> HIDE DEF row
  <2>5. \A r \in Sub : UNCHANGED <<pc[<<r, 0>>], mem[<<r, 0>>]>>
    <3>1. \A r \in Sub : <<r, 0>> # t /\ <<r, 0>> \in Task
          BY <1>a, <2>0, <2>1
    <3>. QED BY <1>0, <1>7, <3>1 DEF ApplyUpdate, Store, Leave, Goto
  <2>6. db[s].status \in {"JUDGING", "ERROR"}
        BY <1>0, <2>1 DEF LifeOK, SubInv, ReadyOK
  <2>7. Allowed(db[s], row)
        BY <2>2, <2>3, <2>6 DEF Allowed
  <2>8. \A r \in Sub \ {s} : LifeOK(r)'
        BY <1>0, <2>4, <2>5, LifeFrame
  <2>9. db'[s] = row /\ row.status \in {"JUDGING", "READY", "ERROR"}
        BY <1>0, <2>2, <2>4, <2>6
  <2>10. LifeOK(s)'
         BY <1>0, <1>a, <2>1, <2>5, <2>9, CompiledOnce DEF LifeOK
  <2>. QED BY <1>0, <2>4, <2>7, <2>8, <2>10, RowMoves
<1>8. ASSUME NEW t \in Task, Catch(t) PROVE Goal
  <2>0. PICK s \in Sub, g \in 0..NumGroups : t = <<s, g>>
        BY DEF Task
  <2> DEFINE row == Failed(mem[t])
  <2>1. /\ pc[t] = "catch" /\ pc' = [pc EXCEPT ![t] = "end"]
        /\ db' = [db EXCEPT ![s] = row] /\ mem' = [mem EXCEPT ![t] = NoRow]
        /\ UNCHANGED <<added, submitting>>
        BY <1>8, <2>0 DEF Catch, Leave, Goto, poolVars
  <2>2. row.status = "ERROR" /\ row.score \in Nat
        BY <1>0 DEF Failed, Row
  <2> HIDE DEF row
  <2>3. db[s].status \in {"JUDGING", "READY", "ERROR"}
    <3>1. CASE g = 0
          BY <1>0, <1>a, <2>0, <2>1, <3>1 DEF LifeOK
    <3>2. CASE g # 0
      <4>1. g \in Group /\ GroupsStarted(s)
            BY <1>0, <2>0, <2>1, <3>2, GroupAssumption DEF QueueOK, GroupsStarted, Group
      <4>. QED BY <1>0, <4>1 DEF LifeOK
    <3>. QED BY <3>1, <3>2
  <2>4. Allowed(db[s], row)
        BY <2>2, <2>3 DEF Allowed
  <2>5. \A r \in Sub \ {s} : LifeOK(r)'
    <3>1. \A r \in Sub \ {s} : <<r, 0>> # t /\ <<r, 0>> \in Task
          BY <1>a, <2>0
    <3>2. \A r \in Sub \ {s} : UNCHANGED <<db[r], pc[<<r, 0>>], mem[<<r, 0>>]>>
          BY <1>0, <2>1, <3>1
    <3>. QED BY <1>0, <2>1, <3>2, LifeFrame
  <2>6. db'[s] = row
        BY <1>0, <2>1
  <2>7. pc'[<<s, 0>>] \notin {"idle", "load", "compile", "compiled", "catch"}
    <3>1. CASE g = 0
          BY <1>0, <2>0, <2>1, <3>1
    <3>2. CASE g # 0
      <4>1. g \in Group /\ GroupsStarted(s)
            BY <1>0, <2>0, <2>1, <3>2, GroupAssumption DEF QueueOK, GroupsStarted, Group
      <4>2. pc'[<<s, 0>>] = pc[<<s, 0>>]
            BY <1>0, <1>a, <2>0, <2>1, <3>2
      <4>. QED BY <1>0, <1>a, <4>1, <4>2, CompiledOnce
    <3>. QED BY <3>1, <3>2
  <2>8. LifeOK(s)'
        BY <1>a, <2>2, <2>6, <2>7 DEF LifeOK
  <2>. QED BY <1>0, <2>1, <2>4, <2>5, <2>8, RowMoves
<1>9. ASSUME NEW t \in Task, Throws(t) PROVE Goal
  <2>0. PICK s \in Sub, g \in 0..NumGroups : t = <<s, g>>
        BY DEF Task
  <2>1. /\ pc' = [pc EXCEPT ![t] = IF pc[t] = "catch" /\ g # 0 THEN "end" ELSE "gone"]
        /\ mem' = [mem EXCEPT ![t] = NoRow] /\ pc[t] # "idle" /\ pc[t] # "adding"
        /\ UNCHANGED <<db, added, submitting>>
        BY <1>9, <2>0 DEF Throws, Leave, Goto, poolVars
  <2>2. \A r \in Sub : \/ UNCHANGED <<pc[<<r, 0>>], mem[<<r, 0>>]>>
                       \/ pc'[<<r, 0>>] \in {"end", "gone"}
        BY <1>0, <1>a, <2>1
  <2>3. ASSUME NEW r \in Sub PROVE LifeOK(r)'
    <3>1. GroupsStarted(r)' => GroupsStarted(r)
          BY <1>0, <1>a, <2>1, <2>2 DEF GroupsStarted
    <3>. QED BY <1>0, <1>a, <2>1, <2>2, <3>1 DEF LifeOK
  <2>. QED BY <2>1, <2>3, RowStays
<1>10. ASSUME NEW h \in Host, Connect(h) PROVE Goal
       BY <1>10, <1>b DEF Connect, Pool!Connect
<1>11. ASSUME NEW h \in Host, Start(h) PROVE Goal
  <2>1. /\ pc' = [pc EXCEPT ![Head(queue)] = "load"] /\ UNCHANGED <<added, db, mem, submitting>>
        /\ Head(queue) \in Task /\ pc[Head(queue)] = "idle"
        BY <1>0, <1>11, QueueStart DEF Start, Goto, Pool!Start
  <2>2. \A r \in Sub : \/ pc'[<<r, 0>>] = pc[<<r, 0>>]
                       \/ pc[<<r, 0>>] = "idle" /\ pc'[<<r, 0>>] = "load"
        BY <1>0, <1>a, <2>1
  <2>3. ASSUME NEW r \in Sub PROVE LifeOK(r)'
    <3>1. GroupsStarted(r)' => GroupsStarted(r)
          BY <1>a, <2>1, <2>2 DEF GroupsStarted
    <3>. QED BY <1>0, <1>a, <2>1, <2>2, <3>1 DEF LifeOK
  <2>. QED BY <2>1, <2>3, RowStays
<1>12. ASSUME NEW t \in Task, NEW h \in Host, Finish(t, h) PROVE Goal
       BY <1>12, <1>b DEF Finish, Pool!Finish
<1>13. CASE Crash
  <2>1. UNCHANGED <<added, db>> /\ submitting' = {}
        BY <1>13 DEF Crash, Pool!Restart
  <2>2. \A r \in Sub : /\ pc'[<<r, 0>>] \in {"idle", "end", "gone"}
                       /\ pc'[<<r, 0>>] = "idle" => pc[<<r, 0>>] = "idle"
        BY <1>13, <1>a DEF Crash
  <2>3. ASSUME NEW r \in Sub PROVE LifeOK(r)'
    <3>1. GroupsStarted(r)' => GroupsStarted(r)
          BY <1>a, <2>1, <2>2 DEF GroupsStarted
    <3>. QED BY <1>0, <1>a, <2>1, <2>2, <3>1 DEF LifeOK
  <2>. QED BY <2>1, <2>3, RowStays
<1>14. CASE UNCHANGED vars
       BY <1>14, <1>b DEF vars
<1>. QED
  BY <1>1, <1>2, <1>3, <1>4, <1>5, <1>6, <1>7, <1>8, <1>9, <1>10, <1>11, <1>12, <1>13, <1>14
  DEF Next, GroupStep

LEMMA LifeInit == Init => LifeInv /\ Life!LifeInit
<1> SUFFICES ASSUME Init PROVE LifeInv /\ Life!LifeInit
    OBVIOUS
<1>1. \A s \in Sub : db[s] = NoRow /\ NoRow.status = "NONE" /\ NoRow.score = 0
      BY DEF Init, NoRow
<1>2. Life!LifeInit
      BY <1>1 DEF Life!LifeInit
<1>3. added = {} /\ submitting = {} /\ \A s \in Sub : pc[CompileTask(s)] = "idle"
      BY GroupAssumption DEF Init, Pool!PoolInit, CompileTask, Task
<1>4. \A s \in Sub : LifeOK(s)
      BY <1>1, <1>3 DEF LifeOK, GroupsStarted
<1>. QED BY <1>2, <1>4, InitIInv DEF LifeInv

(* The row of a submission goes through its statuses in order, a verdict is *)
(* not taken back, and the score of a READY submission stays: Judging       *)
(* implements SubmissionLifecycle, whatever fails and in every interleaving. *)
THEOREM ImplementsLifecycle == Spec => FollowsLifecycle
<1>1. LifeInv /\ [Next]_vars => LifeInv' /\ [Life!LifeNext]_(Life!lifeVars)
      BY LifeStep, StepIInv DEF LifeInv
<1>. QED BY LifeInit, <1>1, PTL DEF Spec, FollowsLifecycle, Life!LifeSpec

(* Judging asks of the pool what TaskPool promises and nothing else: every  *)
(* task is added once, a thread starts from the head of the queue, and a    *)
(* connection is given back once. With JudgeMasterImplementsTaskPool, the   *)
(* judge loop can stand for the pool.                                       *)
THEOREM JudgingUsesThePool == Spec => Pool!PoolSpec
<1>1. Init => Pool!PoolInit
      BY DEF Init
<1>2. [Next]_vars => [Pool!PoolNext]_(Pool!poolVars)
  <2> SUFFICES ASSUME [Next]_vars PROVE Pool!PoolNext \/ UNCHANGED poolVars
      BY DEF Pool!poolVars, poolVars
  <2>1. ASSUME NEW s \in Sub, Submit(s) \/ AddForJudging(s) \/ CompileStep(s)
        PROVE  Pool!PoolNext \/ UNCHANGED poolVars
    <3>1. CompileTask(s) \in Task /\ \A g \in Group : <<s, g>> \in Task
          BY GroupAssumption DEF CompileTask, Task, Group
    <3>. QED BY <2>1, <3>1 DEF Submit, AddForJudging, CompileStep, LoadForCompile, Compile,
                CompileThrows, NoBinary, StartTestGroups, AddTestGroup, AllGroupsAdded,
                Pool!PoolNext
  <2>2. ASSUME NEW t \in Task, GroupStep(t) \/ Catch(t) \/ Throws(t)
        PROVE  UNCHANGED poolVars
        BY <2>2 DEF GroupStep, LoadGroup, JudgeTest, TestThrows, ApplyUpdate, Catch, Throws
  <2>3. ASSUME NEW h \in Host, Connect(h) \/ Start(h) PROVE Pool!PoolNext
        BY <2>3 DEF Connect, Start, Pool!PoolNext
  <2>4. ASSUME NEW t \in Task, NEW h \in Host, Finish(t, h) PROVE Pool!PoolNext
        BY <2>4 DEF Finish, Pool!PoolNext
  <2>5. Crash => Pool!PoolNext
        BY DEF Crash, Pool!PoolNext
  <2>6. UNCHANGED vars => UNCHANGED poolVars
        BY DEF vars, poolVars
  <2>. QED BY <2>1, <2>2, <2>3, <2>4, <2>5, <2>6 DEF Next
<1>. QED BY <1>1, <1>2, PTL DEF Spec, Pool!PoolSpec

-----------------------------------------------------------------------------
(* Sums over finite sets *)

(* f[i] elements for every i of S: as many as the sum of f over S says. *)
Units(f, S) == {u \in S \X Nat : u[2] \in 1..f[u[1]]}

(* The recursive function by which a fold is defined *)
SumsOf(f, S, it) ==
  it = [T \in SUBSET S |->
         IF T = {} THEN 0
         ELSE LET x == CHOOSE x \in T : TRUE IN f[x] + it[T \ {x}]]

(* One element, and one element more *)
LEMMA UnitsOne ==
  ASSUME NEW D, NEW f \in [D -> Nat], NEW x \in D
  PROVE  IsFiniteSet(Units(f, {x})) /\ Cardinality(Units(f, {x})) = f[x]
<1> DEFINE b == [n \in 1..f[x] |-> <<x, n>>]
<1>0. f[x] \in Nat
      OBVIOUS
<1>1. b \in Bijection(1..f[x], Units(f, {x}))
  <2>1. \A n \in 1..f[x] : b[n] \in Units(f, {x})
        BY <1>0 DEF Units
  <2>2. \A m, n \in 1..f[x] : b[m] = b[n] => m = n
        OBVIOUS
  <2>3. \A u \in Units(f, {x}) : u[2] \in 1..f[x] /\ b[u[2]] = u
        BY DEF Units
  <2>. QED BY <2>1, <2>2, <2>3 DEF Bijection, Injection, Surjection, IsInjective
<1>2. IsFiniteSet(1..f[x]) /\ Cardinality(1..f[x]) = f[x]
      BY <1>0, FS_Interval
<1>. QED BY <1>1, <1>2, FS_Bijection DEF ExistsBijection

LEMMA UnitsAdd ==
  ASSUME NEW D, NEW f \in [D -> Nat], NEW S \in SUBSET D, NEW x \in D \ S,
         IsFiniteSet(Units(f, S))
  PROVE  /\ IsFiniteSet(Units(f, S \cup {x}))
         /\ Cardinality(Units(f, S \cup {x})) = f[x] + Cardinality(Units(f, S))
<1>1. Units(f, S \cup {x}) = Units(f, S) \cup Units(f, {x})
      BY DEF Units
<1>2. Units(f, S) \cap Units(f, {x}) = {}
      BY DEF Units
<1>3. IsFiniteSet(Units(f, {x})) /\ Cardinality(Units(f, {x})) = f[x] /\ f[x] \in Nat
      BY UnitsOne
<1>4. /\ IsFiniteSet(Units(f, S) \cup Units(f, {x}))
      /\ Cardinality(Units(f, S) \cup Units(f, {x})) =
           Cardinality(Units(f, S)) + Cardinality(Units(f, {x}))
              - Cardinality(Units(f, S) \cap Units(f, {x}))
      BY <1>3, FS_Union
<1>5. Cardinality({}) = 0 /\ Cardinality(Units(f, S)) \in Nat
      BY FS_EmptySet, FS_CardinalityType
<1>6. Cardinality(Units(f, S) \cup Units(f, {x})) = Cardinality(Units(f, S)) + f[x] - 0
      BY <1>2, <1>3, <1>4, <1>5
<1>7. Cardinality(Units(f, S \cup {x})) = Cardinality(Units(f, S)) + f[x] - 0
      BY <1>1, <1>6
<1>8. IsFiniteSet(Units(f, S \cup {x}))
      BY <1>1, <1>4
<1>9. Cardinality(Units(f, S \cup {x})) = f[x] + Cardinality(Units(f, S))
      BY <1>3, <1>5, <1>7
<1>. QED BY <1>8, <1>9

(* Induction on a finite set, for a set of good sets *)
LEMMA SetInduction ==
  ASSUME NEW S, IsFiniteSet(S), NEW Good, {} \in Good,
         \A T \in SUBSET S : T # {} /\ T \ {CHOOSE x \in T : TRUE} \in Good => T \in Good
  PROVE  SUBSET S \subseteq Good
<1>0. SUBSET S \subseteq FiniteSubsetsOf(S)
      BY FS_Subset DEF FiniteSubsetsOf
<1> DEFINE Bad == (SUBSET S) \ Good
<1> SUFFICES ASSUME Bad # {} PROVE FALSE
    OBVIOUS
<1>1. IsWellFoundedOn(StrictSubsetOrdering(S), FiniteSubsetsOf(S))
      BY FS_StrictSubsetOrderingWellFounded
<1>a. Bad \subseteq FiniteSubsetsOf(S)
      BY <1>0
<1> HIDE DEF Bad
<1>2. PICK T \in Bad : \A U \in Bad : ~ (<<U, T>> \in StrictSubsetOrdering(S))
      BY <1>1, <1>a, WFMin
<1> USE DEF Bad
<1>3. T # {}
      OBVIOUS
<1> DEFINE x == CHOOSE x \in T : TRUE
<1>4. x \in T
      BY <1>3
<1>5. <<T \ {x}, T>> \in StrictSubsetOrdering(S)
      BY <1>4 DEF StrictSubsetOrdering
<1>6. T \ {x} \in Good
      BY <1>2, <1>5
<1>. QED BY <1>3, <1>6

(* A finite sum has finitely many units. *)
LEMMA UnitsFinite ==
  ASSUME NEW D, NEW f \in [D -> Nat], NEW S \in SUBSET D, IsFiniteSet(S)
  PROVE  \A T \in SUBSET S : IsFiniteSet(Units(f, T))
<1> DEFINE Good == {T \in SUBSET S : IsFiniteSet(Units(f, T))}
<1>1. {} \in Good
  <2>1. Units(f, {}) = {}
        BY DEF Units
  <2>. QED BY <2>1, FS_EmptySet
<1>2. ASSUME NEW T \in SUBSET S, T # {}, T \ {CHOOSE x \in T : TRUE} \in Good
      PROVE  T \in Good
  <2> DEFINE x == CHOOSE x \in T : TRUE
             U == T \ {x}
  <2>1. x \in T /\ x \in D \ U /\ U \cup {x} = T /\ U \in SUBSET D
        BY <1>2
  <2>2. IsFiniteSet(Units(f, U))
        BY <1>2
  <2> HIDE DEF x, U
  <2>3. IsFiniteSet(Units(f, U \cup {x}))
        BY <2>1, <2>2, UnitsAdd
  <2>. QED BY <2>1, <2>3
<1> HIDE DEF Good
<1>3. SUBSET S \subseteq Good
      BY <1>1, <1>2, SetInduction
<1>. QED BY <1>3 DEF Good

(* The fold by which viewSubmission adds up points counts units: a sum of   *)
(* natural numbers has the laws of cardinalities.                           *)
LEMMA SumIsUnits ==
  ASSUME NEW D, NEW f \in [D -> Nat], NEW S \in SUBSET D, IsFiniteSet(S)
  PROVE  FoldFunctionOnSet(+, 0, f, S) = Cardinality(Units(f, S))
<1> DEFINE count == [T \in SUBSET S |-> Cardinality(Units(f, T))]
<1>0. ASSUME NEW T \in SUBSET S, T # {}
      PROVE  LET x == CHOOSE x \in T : TRUE
             IN  x \in T /\ T \ {x} \in SUBSET S
                 /\ Cardinality(Units(f, T)) = f[x] + Cardinality(Units(f, T \ {x}))
  <2> DEFINE x == CHOOSE x \in T : TRUE
             U == T \ {x}
  <2>1. x \in T /\ x \in D \ U /\ U \cup {x} = T /\ U \in SUBSET S /\ U \in SUBSET D
        BY <1>0
  <2>2. IsFiniteSet(Units(f, U))
        BY <2>1, UnitsFinite
  <2> HIDE DEF x, U
  <2>3. Cardinality(Units(f, U \cup {x})) = f[x] + Cardinality(Units(f, U))
        BY <2>1, <2>2, UnitsAdd
  <2>4. x \in T /\ U \in SUBSET S /\ Cardinality(Units(f, T)) = f[x] + Cardinality(Units(f, U))
        BY <2>1, <2>3
  <2>. QED BY <2>4 DEF x, U
<1>1. Cardinality(Units(f, {})) = 0
  <2>1. Units(f, {}) = {}
        BY DEF Units
  <2>. QED BY <2>1, FS_EmptySet
<1>2. SumsOf(f, S, count)
  <2>1. \A T \in SUBSET S :
          count[T] = IF T = {} THEN 0
                     ELSE LET x == CHOOSE x \in T : TRUE IN f[x] + count[T \ {x}]
        BY <1>0, <1>1
  <2>. QED BY <2>1 DEF SumsOf
<1> HIDE DEF count
<1>3. PICK it : SumsOf(f, S, it) /\ FoldFunctionOnSet(+, 0, f, S) = it[S]
      BY <1>2, ZenonT(60) DEF FoldFunctionOnSet, MapThenFoldSet, SumsOf
<1> DEFINE Good == {T \in SUBSET S : it[T] = Cardinality(Units(f, T))}
<1>4. {} \in Good
      BY <1>1, <1>3 DEF SumsOf
<1>5. ASSUME NEW T \in SUBSET S, T # {}, T \ {CHOOSE x \in T : TRUE} \in Good
      PROVE  T \in Good
  <2>1. it[T] = LET x == CHOOSE x \in T : TRUE IN f[x] + it[T \ {x}]
        BY <1>3, <1>5 DEF SumsOf
  <2>. QED BY <1>0, <1>5, <2>1
<1> HIDE DEF Good
<1>6. SUBSET S \subseteq Good
      BY <1>4, <1>5, SetInduction
<1>. QED BY <1>3, <1>6 DEF Good

-----------------------------------------------------------------------------
(* The points of a set of groups: viewSubmission adds up those it finds     *)
(* earned.                                                                  *)
PointsOf(S) == FoldFunctionOnSet(+, 0, Points, S)

(* What a group adds, and that more groups have no fewer points *)
LEMMA PointsOfGroups ==
  ASSUME NEW S \in SUBSET Group
  PROVE  /\ PointsOf(S) \in Nat
         /\ \A g \in Group \ S : PointsOf(S \cup {g}) = PointsOf(S) + Points[g]
         /\ \A T \in SUBSET Group : S \subseteq T => PointsOf(S) <= PointsOf(T)
<1>1. \A T \in SUBSET Group : IsFiniteSet(T)
  <2>1. IsFiniteSet(Group)
        BY GroupAssumption, FS_Interval DEF Group
  <2>. QED BY <2>1, FS_Subset
<1>2. \A T \in SUBSET Group : /\ PointsOf(T) = Cardinality(Units(Points, T))
                              /\ IsFiniteSet(Units(Points, T))
      BY <1>1, PointAssumption, SumIsUnits, UnitsFinite DEF PointsOf
<1>3. PointsOf(S) \in Nat
      BY <1>2, FS_CardinalityType
<1>4. ASSUME NEW g \in Group \ S PROVE PointsOf(S \cup {g}) = PointsOf(S) + Points[g]
  <2>1. Cardinality(Units(Points, S \cup {g})) = Points[g] + Cardinality(Units(Points, S))
        BY <1>2, PointAssumption, UnitsAdd
  <2>2. Points[g] \in Nat /\ S \cup {g} \in SUBSET Group
        BY PointAssumption
  <2>. QED BY <1>2, <1>3, <2>1, <2>2
<1>5. ASSUME NEW T \in SUBSET Group, S \subseteq T PROVE PointsOf(S) <= PointsOf(T)
  <2>1. Units(Points, S) \subseteq Units(Points, T)
        BY <1>5 DEF Units
  <2>2. Cardinality(Units(Points, S)) <= Cardinality(Units(Points, T))
        BY <1>2, <2>1, FS_Subset
  <2>. QED BY <1>2, <2>2
<1>. QED BY <1>3, <1>4, <1>5

(* A group has no more rows than tests, and an exception interrupts a test. *)
ResultsOK(s) ==
  \A g \in Group :
    /\ Len(results[s][g]) <= NumTests[g]
    /\ pc[<<s, g>>] \in {"unwind_thrift", "unwind_std"} => TestsLeft(<<s, g>>)

CountedAndEarned(s) == {g \in Group : Applied(<<s, g>>) /\ Earned(s, g)}

(* The score is that of the groups that were counted and that were earned;  *)
(* an object that a catch block stores may be behind, never ahead.          *)
ScoreOK(s) ==
  /\ db[s].score <= PointsOf(CountedAndEarned(s))
  /\ db[s].status # "ERROR" => db[s].score = PointsOf(CountedAndEarned(s))
  /\ \A g \in Group :
       pc[<<s, g>>] = "catch" => mem[<<s, g>>].score <= PointsOf(CountedAndEarned(s))

ScoreInv == LifeInv /\ \A s \in Sub : ResultsOK(s) /\ ScoreOK(s)

(* ~SubmissionUpdate and viewSubmission decide alike: a group that has no    *)
(* tests left and no failed one has a CORRECT row for every test.           *)
LEMMA EarnedWhenJudged ==
  ASSUME TypeOK, NEW s \in Sub, NEW g \in Group, ResultsOK(s)
  PROVE  Earned(s, g) <=> AllOK(<<s, g>>) /\ ~TestsLeft(<<s, g>>)
<1> DEFINE rows == results[s][g]
           ok == {i \in 1..Len(rows) : rows[i] = "CORRECT"}
<1>0. results \in [Sub -> [Group -> Seq(ResultStatus)]]
      BY DEF TypeOK
<1>1. /\ Len(rows) \in Nat /\ NumTests[g] \in Nat
      /\ Len(rows) <= NumTests[g]
  <2>1. rows \in Seq(ResultStatus)
        BY <1>0
  <2>2. Len(rows) <= NumTests[g]
        BY DEF ResultsOK
  <2>. QED BY <2>1, <2>2, TestAssumption
<1>2. /\ IsFiniteSet(1..Len(rows)) /\ Cardinality(1..Len(rows)) = Len(rows)
  <2>1. \A n \in Nat : IsFiniteSet(1..n) /\ Cardinality(1..n) = n
        BY FS_Interval
  <2>. QED BY <1>1, <2>1
<1>3. /\ Cardinality(ok) <= Len(rows) /\ Cardinality(ok) \in Nat
      /\ Cardinality(ok) = Len(rows) => ok = 1..Len(rows)
      BY <1>2, FS_Subset, FS_CardinalityType
<1>4. Rows(<<s, g>>) = rows
      BY DEF Rows
<1>5. AllOK(<<s, g>>) <=> ok = 1..Len(rows)
      BY <1>4 DEF AllOK
<1>6. Earned(s, g) <=> Cardinality(ok) = NumTests[g]
      BY DEF Earned
<1>7. TestsLeft(<<s, g>>) <=> AllOK(<<s, g>>) /\ Len(rows) < NumTests[g]
      BY <1>4 DEF TestsLeft
<1> HIDE DEF rows, ok
<1>8. ok = 1..Len(rows) => Cardinality(ok) = Len(rows)
      BY <1>2
<1>. QED BY <1>1, <1>3, <1>5, <1>6, <1>7, <1>8

(* A step that counts nothing and changes neither results nor score *)
LEMMA ScoreKept ==
  ASSUME NEW s \in Sub, ResultsOK(s), ScoreOK(s), UNCHANGED <<results[s], db[s].score>>,
         db'[s].status # "ERROR" => db[s].status # "ERROR",
         \A g \in Group :
           /\ Applied(<<s, g>>)' <=> Applied(<<s, g>>)
           /\ pc'[<<s, g>>] = "catch" =>
                pc[<<s, g>>] = "catch" /\ UNCHANGED mem[<<s, g>>]
           /\ pc'[<<s, g>>] \in {"unwind_thrift", "unwind_std"} => TestsLeft(<<s, g>>)
  PROVE  ResultsOK(s)' /\ ScoreOK(s)'
<1>1. \A g \in Group : /\ Earned(s, g)' <=> Earned(s, g)
                       /\ TestsLeft(<<s, g>>)' <=> TestsLeft(<<s, g>>)
      BY DEF Earned, TestsLeft, AllOK, Rows
<1>2. CountedAndEarned(s)' = CountedAndEarned(s)
      BY <1>1 DEF CountedAndEarned, Group
<1>3. ResultsOK(s)'
      BY <1>1 DEF ResultsOK, Group
<1>4. PointsOf(CountedAndEarned(s))' = PointsOf(CountedAndEarned(s))
      BY <1>2
<1>5. ScoreOK(s)'
      BY <1>4 DEF ScoreOK, Group
<1>. QED BY <1>3, <1>5

(* A step of another submission, or of the pool *)
LEMMA ScoreFrame ==
  ASSUME NEW s \in Sub, ResultsOK(s), ScoreOK(s), UNCHANGED <<results[s], db[s]>>,
         \A g \in Group : UNCHANGED <<pc[<<s, g>>], mem[<<s, g>>]>>
  PROVE  ResultsOK(s)' /\ ScoreOK(s)'
<1>1. \A g \in Group : Applied(<<s, g>>)' <=> Applied(<<s, g>>)
      BY DEF Applied
<1>2. \A g \in Group : pc'[<<s, g>>] \in {"unwind_thrift", "unwind_std"} => TestsLeft(<<s, g>>)
      BY DEF ResultsOK
<1>. QED BY <1>1, <1>2, ScoreKept

(* The steps of CompileAndRunTask touch no thread of a group, and store the *)
(* score as they found it.                                                  *)
LEMMA CompileScore ==
  ASSUME ScoreInv, NEW s \in Sub, CompileStep(s)
  PROVE  \A r \in Sub : ResultsOK(r)' /\ ScoreOK(r)'
<1> DEFINE t == <<s, 0>>
<1>0. /\ SubInv(s) /\ LifeOK(s) /\ \A r \in Sub : ResultsOK(r) /\ ScoreOK(r)
      /\ pc \in [Task -> Place] /\ mem \in [Task -> Row] /\ db \in [Sub -> Row]
      BY DEF ScoreInv, LifeInv, IInv, TypeOK
<1>a. /\ CompileTask(s) = t /\ t \in Task
      /\ \A r \in Sub, g \in Group : <<r, g>> \in Task \ {t}
      BY GroupAssumption DEF CompileTask, Task, Group
<1>1. UNCHANGED results
      BY DEF CompileStep, LoadForCompile, Compile, CompileThrows, NoBinary,
             StartTestGroups, AddTestGroup, AllGroupsAdded
<1>2. \A r \in Sub, g \in Group : UNCHANGED <<pc[<<r, g>>], mem[<<r, g>>]>>
      BY <1>0, <1>a, ZenonT(60)
      DEF CompileStep, LoadForCompile, Compile, CompileThrows, NoBinary,
          StartTestGroups, AddTestGroup, AllGroupsAdded, Store, Leave, Goto
<1>3. /\ \A r \in Sub \ {s} : UNCHANGED db[r]
      /\ db'[s].score = db[s].score
      /\ db'[s].status # "ERROR" => db[s].status # "ERROR"
  <2> DEFINE Same == /\ \A r \in Sub \ {s} : UNCHANGED db[r]
                     /\ db'[s].score = db[s].score
                     /\ db'[s].status # "ERROR" => db[s].status # "ERROR"
  <2> SUFFICES Same
      OBVIOUS
  <2>1. CASE UNCHANGED db
        BY <2>1
  <2>2. ASSUME NEW row, db' = [db EXCEPT ![s] = row], row.score = db[s].score,
               db[s].status # "ERROR"
        PROVE  Same
        BY <1>0, <2>2
  <2>3. pc[t] = "load" => db[s].status # "ERROR"
        BY <1>0, <1>a DEF LifeOK
  <2>4. pc[t] \in {"compile", "compiled"} => db[s].status # "ERROR" /\ mem[t] = db[s]
        BY <1>0, <1>a DEF LifeOK
  <2> HIDE DEF Same
  <2>5. CASE LoadForCompile(s)
    <3>1. db' = [db EXCEPT ![s] = [db[s] EXCEPT !.status = "JUDGING"]] /\ pc[t] = "load"
          BY <1>a, <2>5 DEF LoadForCompile, Store
    <3>2. [db[s] EXCEPT !.status = "JUDGING"].score = db[s].score
          BY <1>0 DEF Row
    <3>. QED BY <2>2, <2>3, <3>1, <3>2
  <2>6. ASSUME NEW b \in BOOLEAN, Compile(s, b) PROVE Same
    <3>1. db' = [db EXCEPT ![s] = [mem[t] EXCEPT !.binary = b]] /\ pc[t] = "compile"
          BY <1>a, <2>6 DEF Compile, Store
    <3>2. [mem[t] EXCEPT !.binary = b].score = db[s].score
          BY <1>0, <2>4, <3>1 DEF Row
    <3>. QED BY <2>2, <2>4, <3>1, <3>2
  <2>7. CASE NoBinary(s)
    <3>1. db' = [db EXCEPT ![s] = [mem[t] EXCEPT !.status = "COMPILE_ERROR"]] /\ pc[t] = "compiled"
          BY <1>a, <2>7 DEF NoBinary
    <3>2. [mem[t] EXCEPT !.status = "COMPILE_ERROR"].score = db[s].score
          BY <1>0, <2>4, <3>1 DEF Row
    <3>. QED BY <2>2, <2>4, <3>1, <3>2
  <2>8. CASE StartTestGroups(s)
    <3>1. db' = [db EXCEPT ![s] = [mem[t] EXCEPT !.missing = GroupsToCome]] /\ pc[t] = "compiled"
          BY <1>a, <2>8 DEF StartTestGroups, Store
    <3>2. [mem[t] EXCEPT !.missing = GroupsToCome].score = db[s].score
          BY <1>0, <2>4, <3>1 DEF Row
    <3>. QED BY <2>2, <2>4, <3>1, <3>2
  <2>9. CompileThrows(s) \/ (\E g \in Group : AddTestGroup(s, g)) \/ AllGroupsAdded(s) =>
          UNCHANGED db
        BY DEF CompileThrows, AddTestGroup, AllGroupsAdded
  <2>. QED BY <2>1, <2>5, <2>6, <2>7, <2>8, <2>9 DEF CompileStep
<1>4. \A r \in Sub \ {s} : ResultsOK(r)' /\ ScoreOK(r)'
      BY <1>0, <1>1, <1>2, <1>3, ScoreFrame
<1>5. ResultsOK(s)' /\ ScoreOK(s)'
  <2>1. \A g \in Group : Applied(<<s, g>>)' <=> Applied(<<s, g>>)
        BY <1>2 DEF Applied
  <2>2. \A g \in Group : pc'[<<s, g>>] \in {"unwind_thrift", "unwind_std"} => TestsLeft(<<s, g>>)
        BY <1>0, <1>2 DEF ResultsOK
  <2>. QED BY <1>0, <1>1, <1>2, <1>3, <2>1, <2>2, ScoreKept
<1>. QED BY <1>4, <1>5

(* What ~SubmissionUpdate adds is what viewSubmission adds for the group.   *)
LEMMA CountedPoints ==
  ASSUME ScoreInv, NEW s \in Sub, NEW g \in Group, NEW t, t = <<s, g>>, ApplyUpdate(t)
  PROVE  /\ PointsOf(CountedAndEarned(s))' = PointsOf(CountedAndEarned(s)) + Gain(t)
         /\ Gain(t) \in Nat
<1>0. /\ TypeOK /\ ResultsOK(s) /\ pc \in [Task -> Place]
      /\ \A k \in Group : <<s, k>> \in Task
      BY DEF ScoreInv, LifeInv, IInv, TypeOK, Task, Group
<1>1. /\ \/ pc[t] = "tests" /\ ~TestsLeft(t)
         \/ pc[t] \in {"unwind_thrift", "unwind_std"} /\ TestsLeft(t)
      /\ pc' = [pc EXCEPT ![t] = "catch"] \/ pc' = [pc EXCEPT ![t] = "end"]
      /\ UNCHANGED results
      BY <1>0 DEF ApplyUpdate, ResultsOK, Store, Leave, Goto
<1>2. Gain(t) = IF Earned(s, g) THEN Points[g] ELSE 0
      BY <1>0, <1>1, EarnedWhenJudged DEF Gain
<1>3. \A k \in Group : Earned(s, k)' <=> Earned(s, k)
      BY <1>1 DEF Earned
<1>4. /\ ~ Applied(<<s, g>>) /\ Applied(<<s, g>>)'
      /\ \A k \in Group \ {g} : Applied(<<s, k>>)' <=> Applied(<<s, k>>)
      BY <1>0, <1>1 DEF Applied
<1>5. /\ g \notin CountedAndEarned(s) /\ CountedAndEarned(s) \in SUBSET Group
      /\ CountedAndEarned(s)' = IF Earned(s, g) THEN CountedAndEarned(s) \cup {g}
                                                ELSE CountedAndEarned(s)
      BY <1>3, <1>4 DEF CountedAndEarned, Group
<1>6. PointsOf(CountedAndEarned(s)') = PointsOf(CountedAndEarned(s)) + Gain(t)
  <2>1. CASE Earned(s, g)
        BY <1>2, <1>5, <2>1, PointsOfGroups
  <2>2. CASE ~Earned(s, g)
        BY <1>2, <1>5, <2>2, PointsOfGroups
  <2>. QED BY <2>1, <2>2
<1>7. Gain(t) \in Nat
      BY <1>2, PointAssumption
<1>. QED BY <1>6, <1>7

LEMMA ApplyScore ==
  ASSUME ScoreInv, NEW s \in Sub, NEW g \in Group, NEW t, t = <<s, g>>, ApplyUpdate(t)
  PROVE  ResultsOK(s)' /\ ScoreOK(s)'
<1> DEFINE row == Published(Counted(Current(t), Gain(t)))
           earned == PointsOf(CountedAndEarned(s))
<1>0. /\ IInv /\ TypeOK /\ ResultsOK(s) /\ ScoreOK(s)
      /\ pc \in [Task -> Place] /\ mem \in [Task -> Row] /\ db \in [Sub -> Row]
      /\ \A k \in Group : <<s, k>> \in Task
      BY DEF ScoreInv, LifeInv, IInv, TypeOK, Task, Group
<1>1. /\ db' = [db EXCEPT ![s] = row] /\ UNCHANGED results
      /\ \/ mem' = [mem EXCEPT ![t] = row] /\ pc' = [pc EXCEPT ![t] = "catch"]
         \/ mem' = [mem EXCEPT ![t] = NoRow] /\ pc' = [pc EXCEPT ![t] = "end"]
      BY DEF ApplyUpdate, Store, Leave, Goto
<1>2. earned' = earned + Gain(t) /\ Gain(t) \in Nat /\ earned \in Nat
  <2>1. CountedAndEarned(s) \in SUBSET Group
        BY DEF CountedAndEarned
  <2>. QED BY <2>1, CountedPoints, PointsOfGroups
<1>3. /\ row.score = db[s].score + Gain(t) /\ db[s].score \in Nat
      /\ row.status # "ERROR" => db[s].status # "ERROR"
      BY <1>0 DEF Published, Counted, Current, Row
<1> HIDE DEF row
<1>4. db'[s] = row
      BY <1>0, <1>1
<1>5. /\ db[s].score <= earned
      /\ db[s].status # "ERROR" => db[s].score = earned
      /\ \A k \in Group : pc[<<s, k>>] = "catch" => mem[<<s, k>>].score <= earned
      BY <1>0 DEF ScoreOK
<1>6. \A k \in Group : mem[<<s, k>>].score \in Nat
      BY <1>0 DEF Row
<1> HIDE DEF earned
<1>7. row.score <= earned' /\ (row.status # "ERROR" => row.score = earned')
      BY <1>2, <1>3, <1>5
<1>8. ASSUME NEW k \in Group, pc'[<<s, k>>] = "catch" PROVE mem'[<<s, k>>].score <= earned'
  <2>1. CASE k = g
        BY <1>0, <1>1, <1>7, <1>8, <2>1
  <2>2. CASE k # g
    <3>1. pc[<<s, k>>] = "catch" /\ mem'[<<s, k>>] = mem[<<s, k>>]
          BY <1>0, <1>1, <1>8, <2>2
    <3>. QED BY <1>2, <1>5, <1>6, <3>1
  <2>. QED BY <2>1, <2>2
<1>9. ScoreOK(s)'
      BY <1>4, <1>7, <1>8 DEF ScoreOK, earned
<1>10. ResultsOK(s)'
  <2>1. \A k \in Group : pc'[<<s, k>>] \in {"unwind_thrift", "unwind_std"} =>
                          pc'[<<s, k>>] = pc[<<s, k>>]
        BY <1>0, <1>1
  <2>2. \A k \in Group : TestsLeft(<<s, k>>)' <=> TestsLeft(<<s, k>>)
        BY <1>1 DEF TestsLeft, AllOK, Rows
  <2>. QED BY <1>0, <1>1, <2>1, <2>2 DEF ResultsOK
<1>. QED BY <1>9, <1>10

(* A test of a group that is not counted yet *)
LEMMA JudgeScore ==
  ASSUME ScoreInv, NEW s \in Sub, NEW g \in Group, NEW t, t = <<s, g>>,
         NEW out \in Outcomes, JudgeTest(t, out)
  PROVE  ResultsOK(s)' /\ ScoreOK(s)'
<1>0. /\ ResultsOK(s) /\ ScoreOK(s) /\ results \in [Sub -> [Group -> Seq(ResultStatus)]]
      /\ NumTests[g] \in Nat
      BY TestAssumption DEF ScoreInv, LifeInv, IInv, TypeOK
<1>1. /\ pc[t] = "tests" /\ TestsLeft(t) /\ UNCHANGED <<db, pc, mem>>
      /\ results' = [results EXCEPT ![s][g] = Append(results[s][g], out)]
      BY DEF JudgeTest
<1>2. /\ results'[s][g] = Append(results[s][g], out)
      /\ \A k \in Group \ {g} : results'[s][k] = results[s][k]
      BY <1>0, <1>1
<1>3. Len(results'[s][g]) <= NumTests[g]
  <2>1. results[s][g] \in Seq(ResultStatus) /\ out \in ResultStatus
        BY <1>0, OutcomeAssumption
  <2>2. Len(results'[s][g]) = Len(results[s][g]) + 1 /\ Len(results[s][g]) \in Nat
        BY <1>2, <2>1
  <2>3. Len(results[s][g]) < NumTests[g]
        BY <1>1 DEF TestsLeft, Rows
  <2>. QED BY <1>0, <2>2, <2>3
<1>4. ResultsOK(s)'
  <2>1. \A k \in Group \ {g} : TestsLeft(<<s, k>>)' <=> TestsLeft(<<s, k>>)
        BY <1>2 DEF TestsLeft, AllOK, Rows
  <2>. QED BY <1>0, <1>1, <1>2, <1>3, <2>1 DEF ResultsOK
<1>5. CountedAndEarned(s)' = CountedAndEarned(s)
  <2>1. \A k \in Group \ {g} : Earned(s, k)' <=> Earned(s, k)
        BY <1>2 DEF Earned
  <2>2. \A k \in Group : Applied(<<s, k>>)' <=> Applied(<<s, k>>)
        BY <1>1 DEF Applied
  <2>3. ~ Applied(<<s, g>>)
        BY <1>1 DEF Applied
  <2>. QED BY <2>1, <2>2, <2>3 DEF CountedAndEarned, Group
<1>6. PointsOf(CountedAndEarned(s))' = PointsOf(CountedAndEarned(s))
      BY <1>5
<1>. QED BY <1>0, <1>1, <1>4, <1>6 DEF ScoreOK

(* The catch block stores a score that may be behind. *)
LEMMA CatchScore ==
  ASSUME ScoreInv, NEW s \in Sub, NEW g \in 0..NumGroups, NEW t, t = <<s, g>>, Catch(t)
  PROVE  ResultsOK(s)' /\ ScoreOK(s)'
<1>0. /\ LifeOK(s) /\ ResultsOK(s) /\ ScoreOK(s)
      /\ pc \in [Task -> Place] /\ mem \in [Task -> Row] /\ db \in [Sub -> Row]
      /\ t \in Task /\ \A k \in Group : <<s, k>> \in Task
      BY DEF ScoreInv, LifeInv, IInv, TypeOK, Task, Group
<1>1. /\ pc[t] = "catch" /\ pc' = [pc EXCEPT ![t] = "end"]
      /\ db' = [db EXCEPT ![s] = Failed(mem[t])]
      /\ mem' = [mem EXCEPT ![t] = NoRow] /\ UNCHANGED results
      BY DEF Catch, Leave, Goto
<1>2. Failed(mem[t]).status = "ERROR" /\ Failed(mem[t]).score = mem[t].score
      BY <1>0 DEF Failed, Row
<1>3. mem[t].score <= PointsOf(CountedAndEarned(s))
  <2>1. CASE g = 0
        BY <1>0, <1>1, <2>1 DEF LifeOK, CompileTask, ScoreOK
  <2>2. CASE g # 0
    <3>1. g \in Group
          BY <2>2, GroupAssumption DEF Group
    <3>. QED BY <1>0, <1>1, <3>1 DEF ScoreOK
  <2>. QED BY <2>1, <2>2
<1>4. \A k \in Group : Applied(<<s, k>>)' <=> Applied(<<s, k>>)
      BY <1>0, <1>1 DEF Applied
<1>a. \A k \in Group : Earned(s, k)' <=> Earned(s, k)
      BY <1>1 DEF Earned
<1>5. \A k \in Group : TestsLeft(<<s, k>>)' <=> TestsLeft(<<s, k>>)
      BY <1>1 DEF TestsLeft, AllOK, Rows
<1>6. CountedAndEarned(s)' = CountedAndEarned(s)
      BY <1>4, <1>a DEF CountedAndEarned, Group
<1>7. PointsOf(CountedAndEarned(s))' = PointsOf(CountedAndEarned(s))
      BY <1>6
<1>8. db'[s] = Failed(mem[t])
      BY <1>0, <1>1
<1>9. \A k \in Group : pc'[<<s, k>>] \notin {"end"} =>
                          UNCHANGED <<pc[<<s, k>>], mem[<<s, k>>]>>
      BY <1>0, <1>1
<1>10. ScoreOK(s)'
       BY <1>0, <1>2, <1>3, <1>7, <1>8, <1>9 DEF ScoreOK
<1>11. ResultsOK(s)'
       BY <1>0, <1>1, <1>5, <1>9 DEF ResultsOK
<1>. QED BY <1>10, <1>11

LEMMA ScoreStep == ScoreInv /\ [Next]_vars => ScoreInv'
<1> DEFINE Goal == \A r \in Sub : ResultsOK(r)' /\ ScoreOK(r)'
<1> SUFFICES ASSUME ScoreInv, [Next]_vars PROVE Goal
    BY StepIInv, LifeStep DEF ScoreInv, LifeInv
<1>0. /\ LifeInv /\ IInv /\ QueueOK /\ \A r \in Sub : ResultsOK(r) /\ ScoreOK(r)
      /\ pc \in [Task -> Place] /\ mem \in [Task -> Row] /\ db \in [Sub -> Row]
      /\ results \in [Sub -> [Group -> Seq(ResultStatus)]]
      /\ \A r \in Sub, g \in 0..NumGroups : <<r, g>> \in Task
      /\ Group \subseteq 0..NumGroups
      BY DEF ScoreInv, LifeInv, IInv, TypeOK, Task, Group
(* What is left to show of a step of one thread *)
<1>a. ASSUME NEW s \in Sub, NEW g \in 0..NumGroups,
             \A u \in Task \ {<<s, g>>} : UNCHANGED <<pc[u], mem[u]>>,
             \A r \in Sub \ {s} : UNCHANGED <<db[r], results[r]>>,
             ResultsOK(s)' /\ ScoreOK(s)'
      PROVE  Goal
  <2>1. ASSUME NEW r \in Sub \ {s} PROVE ResultsOK(r)' /\ ScoreOK(r)'
    <3>1. \A k \in Group : <<r, k>> \in Task \ {<<s, g>>}
          BY <1>0
    <3>. QED BY <1>0, <1>a, <3>1, ScoreFrame
  <2>. QED BY <1>a, <2>1
(* A step that leaves rows and results alone and counts nothing *)
<1>b. ASSUME UNCHANGED <<db, results>>,
             \A r \in Sub, g \in Group :
               /\ Applied(<<r, g>>)' <=> Applied(<<r, g>>)
               /\ pc'[<<r, g>>] = "catch" =>
                    pc[<<r, g>>] = "catch" /\ UNCHANGED mem[<<r, g>>]
               /\ pc'[<<r, g>>] \in {"unwind_thrift", "unwind_std"} => TestsLeft(<<r, g>>)
      PROVE  Goal
      BY <1>0, <1>b, ScoreKept
<1>c. ASSUME UNCHANGED <<db, results, pc, mem>> PROVE Goal
      BY <1>0, <1>c, ScoreFrame
<1>1. ASSUME NEW s \in Sub, Submit(s) PROVE Goal
  <2>1. /\ db' = [db EXCEPT ![s] = [db[s] EXCEPT !.status = "PENDING"]]
        /\ UNCHANGED <<results, pc, mem>> /\ db[s].status = "NONE"
        BY <1>1 DEF Submit
  <2>2. db'[s].score = db[s].score /\ \A r \in Sub \ {s} : UNCHANGED db[r]
        BY <1>0, <2>1 DEF Row
  <2>3. ResultsOK(s)' /\ ScoreOK(s)'
        BY <1>0, <2>1, <2>2, ScoreKept DEF ResultsOK, Applied
  <2>4. \A r \in Sub \ {s} : ResultsOK(r)' /\ ScoreOK(r)'
        BY <1>0, <2>1, <2>2, ScoreFrame
  <2>. QED BY <2>3, <2>4
<1>2. ASSUME NEW s \in Sub, AddForJudging(s) PROVE Goal
      BY <1>2, <1>c DEF AddForJudging
<1>3. ASSUME NEW s \in Sub, CompileStep(s) PROVE Goal
      BY <1>3, CompileScore
<1>4. ASSUME NEW t \in Task, LoadGroup(t) PROVE Goal
  <2>1. /\ pc[t] = "load" /\ pc' = [pc EXCEPT ![t] = "tests"]
        /\ mem' = [mem EXCEPT ![t] = db[t[1]]] /\ UNCHANGED <<db, results>>
        BY <1>4 DEF LoadGroup, Goto
  <2>. QED BY <1>0, <1>b, <2>1 DEF Applied, ResultsOK
<1>5. ASSUME NEW t \in Task, NEW out \in Outcomes, JudgeTest(t, out) PROVE Goal
  <2>1. PICK s \in Sub, g \in Group : t = <<s, g>>
        BY <1>0, <1>5, GroupOutstanding DEF JudgeTest, Task
  <2>2. /\ UNCHANGED <<db, pc, mem>>
        /\ results' = [results EXCEPT ![s][g] = Append(results[s][g], out)]
        BY <1>5, <2>1 DEF JudgeTest
  <2>3. \A r \in Sub \ {s} : UNCHANGED <<db[r], results[r]>>
        BY <1>0, <2>2
  <2>4. ResultsOK(s)' /\ ScoreOK(s)'
        BY <1>5, <2>1, JudgeScore
  <2>. QED BY <1>0, <1>a, <2>2, <2>3, <2>4
<1>6. ASSUME NEW t \in Task, TestThrows(t) PROVE Goal
  <2>1. /\ pc[t] = "tests" /\ TestsLeft(t) /\ UNCHANGED <<db, results, mem>>
        /\ \/ pc' = [pc EXCEPT ![t] = "unwind_thrift"]
           \/ pc' = [pc EXCEPT ![t] = "unwind_std"]
        BY <1>6 DEF TestThrows, Goto
  <2>2. \A u \in Task : u # t => pc'[u] = pc[u]
        BY <1>0, <2>1
  <2>. QED BY <1>0, <1>b, <2>1, <2>2 DEF Applied, ResultsOK
<1>7. ASSUME NEW t \in Task, ApplyUpdate(t) PROVE Goal
  <2>1. PICK s \in Sub, g \in Group : t = <<s, g>>
        BY <1>0, <1>7, GroupOutstanding DEF ApplyUpdate, Task
  <2>2. ResultsOK(s)' /\ ScoreOK(s)'
        BY <1>7, <2>1, ApplyScore
  <2>3. /\ \A u \in Task \ {t} : UNCHANGED <<pc[u], mem[u]>>
        /\ \A r \in Sub \ {s} : UNCHANGED <<db[r], results[r]>>
        BY <1>0, <1>7, <2>1 DEF ApplyUpdate, Store, Leave, Goto
  <2>. QED BY <1>0, <1>a, <2>1, <2>2, <2>3
<1>8. ASSUME NEW t \in Task, Catch(t) PROVE Goal
  <2>1. PICK s \in Sub, g \in 0..NumGroups : t = <<s, g>>
        BY DEF Task
  <2>2. ResultsOK(s)' /\ ScoreOK(s)'
        BY <1>8, <2>1, CatchScore
  <2>3. /\ \A u \in Task \ {t} : UNCHANGED <<pc[u], mem[u]>>
        /\ \A r \in Sub \ {s} : UNCHANGED <<db[r], results[r]>>
        BY <1>0, <1>8, <2>1 DEF Catch, Leave, Goto
  <2>. QED BY <1>a, <2>1, <2>2, <2>3
<1>9. ASSUME NEW t \in Task, Throws(t) PROVE Goal
  <2>1. /\ pc[t] \in {"load", "compile", "compiled", "tests", "catch"}
        /\ pc' = [pc EXCEPT ![t] = IF pc[t] = "catch" /\ t[2] # 0 THEN "end" ELSE "gone"]
        /\ mem' = [mem EXCEPT ![t] = NoRow] /\ UNCHANGED <<db, results>>
        BY <1>9 DEF Throws, Leave, Goto
  <2>2. ASSUME NEW r \in Sub, NEW k \in Group
        PROVE  /\ Applied(<<r, k>>)' <=> Applied(<<r, k>>)
               /\ pc'[<<r, k>>] = "catch" => pc[<<r, k>>] = "catch" /\ UNCHANGED mem[<<r, k>>]
               /\ pc'[<<r, k>>] \in {"unwind_thrift", "unwind_std"} => pc'[<<r, k>>] = pc[<<r, k>>]
    <3>1. <<r, k>> \in Task /\ <<r, k>>[2] # 0
          BY <1>0 DEF Group
    <3>. QED BY <1>0, <2>1, <3>1 DEF Applied
  <2>. QED BY <1>0, <1>b, <2>1, <2>2 DEF ResultsOK
<1>10. ASSUME NEW h \in Host, Connect(h) PROVE Goal
       BY <1>10, <1>c DEF Connect
<1>11. ASSUME NEW h \in Host, Start(h) PROVE Goal
  <2>1. /\ pc' = [pc EXCEPT ![Head(queue)] = "load"] /\ UNCHANGED <<db, results, mem>>
        /\ Head(queue) \in Task /\ pc[Head(queue)] = "idle"
        BY <1>0, <1>11, QueueStart DEF Start, Goto, IInv
  <2>. QED BY <1>0, <1>b, <2>1 DEF Applied, ResultsOK
<1>12. ASSUME NEW t \in Task, NEW h \in Host, Finish(t, h) PROVE Goal
       BY <1>12, <1>c DEF Finish
<1>13. CASE Crash
  <2>1. UNCHANGED <<db, results>>
        BY <1>13 DEF Crash
  <2>2. ASSUME NEW r \in Sub, NEW k \in Group
        PROVE  /\ Applied(<<r, k>>)' <=> Applied(<<r, k>>)
               /\ pc'[<<r, k>>] \notin {"catch", "unwind_thrift", "unwind_std"}
    <3>1. <<r, k>> \in Task /\ <<r, k>>[2] # 0
          BY <1>0 DEF Group
    <3>. QED BY <1>13, <3>1 DEF Crash, Applied
  <2>. QED BY <1>b, <2>1, <2>2
<1>14. CASE UNCHANGED vars
       BY <1>14, <1>c DEF vars
<1>. QED
  BY <1>1, <1>2, <1>3, <1>4, <1>5, <1>6, <1>7, <1>8, <1>9, <1>10, <1>11, <1>12, <1>13, <1>14
  DEF Next, GroupStep

LEMMA ScoreInit == Init => ScoreInv
<1> SUFFICES ASSUME Init PROVE \A s \in Sub : ResultsOK(s) /\ ScoreOK(s)
    BY LifeInit DEF ScoreInv
<1>1. ASSUME NEW s \in Sub PROVE ResultsOK(s) /\ ScoreOK(s)
  <2>1. /\ \A g \in Group : pc[<<s, g>>] = "idle"
        /\ \A g \in Group : results[s][g] = <<>>
        /\ db[s].score = 0
        BY DEF Init, Task, Group, NoRow
  <2>2. CountedAndEarned(s) = {}
        BY <2>1 DEF CountedAndEarned, Applied
  <2>3. PointsOf({}) = 0
    <3>1. PointsOf({}) = Cardinality(Units(Points, {}))
          BY PointAssumption, FS_EmptySet, SumIsUnits DEF PointsOf
    <3>2. Units(Points, {}) = {}
          BY DEF Units
    <3>. QED BY <3>1, <3>2, FS_EmptySet
  <2>. QED BY <2>1, <2>2, <2>3, TestAssumption DEF ResultsOK, ScoreOK
<1>. QED BY <1>1

(* The score in the row never runs ahead of the results, and that of a READY *)
(* submission is what viewSubmission adds up from them: for any points and   *)
(* any numbers of groups and tests, in every interleaving of the groups and  *)
(* whatever fails.                                                           *)
THEOREM ScoresAreEarned == Spec => []ScoreIsEarned
<1>1. ScoreInv => ScoreIsEarned
  <2> SUFFICES ASSUME ScoreInv, NEW s \in Sub
               PROVE  /\ db[s].score <= ViewPoints(s)
                      /\ db[s].status = "READY" => db[s].score = ViewPoints(s)
      BY DEF ScoreIsEarned
  <2> DEFINE earned == {g \in Group : Earned(s, g)}
  <2>0. ReadyOK(s) /\ ScoreOK(s) /\ db[s].score \in Nat
        BY DEF ScoreInv, LifeInv, IInv, SubInv, TypeOK, Row
  <2>1. ViewPoints(s) = PointsOf(earned)
        BY DEF ViewPoints, PointsOf
  <2>2. /\ CountedAndEarned(s) \in SUBSET Group /\ earned \in SUBSET Group
        /\ CountedAndEarned(s) \subseteq earned
        BY DEF CountedAndEarned
  <2>3. /\ PointsOf(CountedAndEarned(s)) <= PointsOf(earned)
        /\ PointsOf(CountedAndEarned(s)) \in Nat /\ PointsOf(earned) \in Nat
        BY <2>2, PointsOfGroups
  <2>4. db[s].status = "READY" => CountedAndEarned(s) = earned
        BY <2>0 DEF ReadyOK, Unapplied, CountedAndEarned
  <2> HIDE DEF earned
  <2>. QED BY <2>0, <2>1, <2>3, <2>4 DEF ScoreOK
<1>. QED BY ScoreInit, ScoreStep, <1>1, PTL DEF Spec

-----------------------------------------------------------------------------
(* Without other exceptions and crashes, a group whose thread is over with   *)
(* tests left has reported it, and its ERROR stays.                          *)
FailureShown ==
  \A t \in Task :
    /\ pc[t] # "unwind_std"
    /\ t[2] # 0 /\ pc[t] = "end" /\ TestsLeft(t) => db[t[1]].status = "ERROR"

(* No thread ends, no row is stored and no result. *)
LEMMA ShownFrame ==
  ASSUME FailureShown, UNCHANGED <<db, results>>,
         \A t \in Task : pc'[t] = pc[t] \/ pc'[t] \notin {"end", "unwind_std"}
  PROVE  FailureShown'
<1>. QED BY DEF FailureShown, TestsLeft, AllOK, Rows

(* A thread moves and may store its row. *)
LEMMA ShownMove ==
  ASSUME IInv, FailureShown, NEW t \in Task, UNCHANGED results,
         NEW place, place # "unwind_std", pc' = [pc EXCEPT ![t] = place],
         NEW row, UNCHANGED db \/ db' = [db EXCEPT ![t[1]] = row],
         db[t[1]].status = "ERROR" => db'[t[1]].status = "ERROR",
         place = "end" /\ t[2] # 0 => ~TestsLeft(t) \/ db'[t[1]].status = "ERROR"
  PROVE  FailureShown'
<1>1. \A k \in Task : k[1] \in Sub
      BY DEF Task
<1>2. \A k \in Task : db[k[1]].status = "ERROR" => db'[k[1]].status = "ERROR"
      BY <1>1 DEF IInv, TypeOK
<1>3. \A k \in Task : pc'[k] = IF k = t THEN place ELSE pc[k]
      BY DEF IInv, TypeOK
<1>4. \A k \in Task : TestsLeft(k)' <=> TestsLeft(k)
      BY DEF TestsLeft, AllOK, Rows
<1>. QED BY <1>2, <1>3, <1>4 DEF FailureShown

(* Before any group of a submission was added, none has ended. *)
LEMMA ShownEarly ==
  ASSUME IInv, FailureShown, NEW s \in Sub,
         pc[CompileTask(s)] \in {"load", "compile", "compiled"},
         UNCHANGED results, NEW row, NEW place, place # "unwind_std",
         db' = [db EXCEPT ![s] = row], pc' = [pc EXCEPT ![CompileTask(s)] = place]
  PROVE  FailureShown'
<1>1. \A g \in Group : pc[<<s, g>>] = "idle"
      BY GroupAssumption DEF IInv, SubInv, CompileOK, QueueOK, Task, Group
<1>2. ASSUME NEW k \in Task, k[2] # 0, pc'[k] = "end" PROVE pc[k] = "end" /\ k[1] # s
  <2>1. k = <<k[1], k[2]>> /\ k[1] \in Sub /\ k[2] \in Group
        BY <1>2, GroupAssumption DEF Task, Group
  <2>. QED BY <1>1, <1>2, <2>1 DEF CompileTask, IInv, TypeOK
<1>3. \A k \in Task : pc'[k] # "unwind_std"
      BY DEF IInv, TypeOK, FailureShown
<1>4. \A k \in Task : k[1] \in Sub /\ (TestsLeft(k)' <=> TestsLeft(k))
      BY DEF TestsLeft, AllOK, Rows, Task
<1>. QED BY <1>2, <1>3, <1>4 DEF FailureShown, IInv, TypeOK

LEMMA ShownStep ==
  ASSUME IInv, FailureShown, [Next]_vars, "std" \notin Faults, "crash" \notin Faults
  PROVE  FailureShown'
<1>1. ASSUME NEW s \in Sub, Submit(s) PROVE FailureShown'
  <2>1. db[s].status # "ERROR" /\ UNCHANGED <<results, pc>> /\ \A r \in Sub \ {s} : db'[r] = db[r]
        BY <1>1 DEF Submit, IInv, TypeOK
  <2>. QED BY <2>1 DEF FailureShown, TestsLeft, AllOK, Rows, Task
<1>2. ASSUME NEW s \in Sub, AddForJudging(s) PROVE FailureShown'
      BY <1>2, ShownFrame DEF AddForJudging
<1>3. ASSUME NEW s \in Sub, CompileStep(s) PROVE FailureShown'
  <2>0. CompileTask(s) \in Task /\ CompileTask(s)[1] = s /\ CompileTask(s)[2] = 0
        BY GroupAssumption DEF CompileTask, Task
  <2>1. CASE LoadForCompile(s)
        BY <2>0, <2>1, ShownEarly DEF LoadForCompile, Store, Goto
  <2>2. ASSUME NEW b \in BOOLEAN, Compile(s, b) PROVE FailureShown'
        BY <2>0, <2>2, ShownEarly DEF Compile, Store, Goto
  <2>3. CASE CompileThrows(s)
        BY <2>0, <2>3, ShownMove DEF CompileThrows, Goto
  <2>4. CASE NoBinary(s)
        BY <2>4, ShownEarly DEF NoBinary, Leave, Goto
  <2>5. CASE StartTestGroups(s)
        BY <2>0, <2>5, ShownEarly DEF StartTestGroups, Store, Goto
  <2>6. ASSUME NEW g \in Group, AddTestGroup(s, g) PROVE FailureShown'
        BY <2>6, ShownFrame DEF AddTestGroup
  <2>7. CASE AllGroupsAdded(s)
        BY <2>0, <2>7, ShownMove DEF AllGroupsAdded, Leave, Goto
  <2>. QED BY <1>3, <2>1, <2>2, <2>3, <2>4, <2>5, <2>6, <2>7 DEF CompileStep
<1>4. ASSUME NEW t \in Task, LoadGroup(t) PROVE FailureShown'
      BY <1>4, ShownFrame DEF LoadGroup, Goto, IInv, TypeOK
<1>5. ASSUME NEW t \in Task, NEW out \in Outcomes, JudgeTest(t, out) PROVE FailureShown'
  <2>1. pc[t] = "tests" /\ UNCHANGED <<db, pc>>
        /\ results' = [results EXCEPT ![t[1]][t[2]] = Append(@, out)]
        BY <1>5 DEF JudgeTest
  <2>2. ASSUME NEW k \in Task, k # t, k[2] # 0 PROVE TestsLeft(k)' <=> TestsLeft(k)
    <3>1. k[1] \in Sub /\ k[2] \in Group /\ t[1] \in Sub /\ (k[1] # t[1] \/ k[2] # t[2])
          BY <2>2 DEF Task, Group
    <3>2. results'[k[1]][k[2]] = results[k[1]][k[2]]
          BY <2>1, <3>1 DEF IInv, TypeOK
    <3>. QED BY <3>2 DEF TestsLeft, AllOK, Rows
  <2>. QED BY <2>1, <2>2 DEF FailureShown
<1>6. ASSUME NEW t \in Task, TestThrows(t) PROVE FailureShown'
  <2>1. pc' = [pc EXCEPT ![t] = "unwind_thrift"] /\ UNCHANGED <<db, results>>
        BY <1>6 DEF TestThrows, Goto
  <2>. QED BY <2>1, ShownFrame DEF IInv, TypeOK
<1>7. ASSUME NEW t \in Task, ApplyUpdate(t) PROVE FailureShown'
  <2> DEFINE row == Published(Counted(Current(t), Gain(t)))
  <2>1. /\ db' = [db EXCEPT ![t[1]] = row] /\ UNCHANGED results
        /\ \/ pc' = [pc EXCEPT ![t] = "catch"]
           \/ pc' = [pc EXCEPT ![t] = "end"] /\ ~TestsLeft(t)
        BY <1>7 DEF ApplyUpdate, FailureShown, Store, Leave, Goto
  <2>2. db[t[1]] \in Row /\ t[1] \in DOMAIN db
        BY DEF IInv, TypeOK, Task
  <2>3. db[t[1]].status = "ERROR" => row.status = "ERROR"
        BY <2>2 DEF Published, Counted, Current, Row
  <2> HIDE DEF row
  <2>4. db[t[1]].status = "ERROR" => db'[t[1]].status = "ERROR"
        BY <2>1, <2>2, <2>3
  <2>. QED BY <2>1, <2>4, ShownMove
<1>8. ASSUME NEW t \in Task, Catch(t) PROVE FailureShown'
  <2>1. /\ db' = [db EXCEPT ![t[1]] = Failed(mem[t])]
        /\ pc' = [pc EXCEPT ![t] = "end"] /\ UNCHANGED results
        BY <1>8 DEF Catch, Leave, Goto
  <2>2. mem[t] \in Row /\ t[1] \in DOMAIN db
        BY DEF IInv, TypeOK, Task
  <2>3. Failed(mem[t]).status = "ERROR"
        BY <2>2 DEF Failed, Row
  <2>4. db'[t[1]].status = "ERROR"
        BY <2>1, <2>2, <2>3
  <2>. QED BY <2>1, <2>4, ShownMove
<1>9. ASSUME NEW h \in Host, Connect(h) PROVE FailureShown'
      BY <1>9, ShownFrame DEF Connect
<1>10. ASSUME NEW h \in Host, Start(h) PROVE FailureShown'
  <2>1. pc' = [pc EXCEPT ![Head(queue)] = "load"] /\ UNCHANGED <<db, results>>
        BY <1>10 DEF Start, Goto
  <2>. QED BY <2>1, ShownFrame DEF IInv, TypeOK
<1>11. ASSUME NEW t \in Task, NEW h \in Host, Finish(t, h) PROVE FailureShown'
       BY <1>11, ShownFrame DEF Finish
<1>12. CASE UNCHANGED vars
       BY <1>12, ShownFrame DEF vars
<1>. QED
  BY <1>1, <1>2, <1>3, <1>4, <1>5, <1>6, <1>7, <1>8, <1>9, <1>10, <1>11, <1>12
  DEF Next, GroupStep, Throws, Crash

(* When the only failures are those of calls to a judge, a READY submission  *)
(* of which nothing is left to run has had every group judged.               *)
THEOREM ReadyAfterJudging ==
  ASSUME "std" \notin Faults, "crash" \notin Faults
  PROVE  Spec => []ReadyMeansJudged
<1>1. Init => FailureShown
      BY DEF Init, FailureShown
<1>2. IInv /\ FailureShown /\ [Next]_vars => FailureShown'
      BY ShownStep
<1>3. IInv /\ FailureShown => ReadyMeansJudged
  <2> SUFFICES ASSUME IInv, FailureShown, NEW s \in Sub, db[s].status = "READY", AtRest(s),
                      NEW g \in Group
               PROVE  ~TestsLeft(<<s, g>>)
      BY DEF ReadyMeansJudged
  <2>1. <<s, g>> \in Task /\ g # 0 /\ g \in 0..NumGroups
        BY GroupAssumption DEF Task, Group
  <2>2. pc[<<s, g>>] \in {"catch", "end"}
        BY DEF IInv, SubInv, ReadyOK, Unapplied, Applied
  <2>3. <<s, g>> \in added
        BY <2>1, <2>2 DEF IInv, QueueOK
  <2>4. pc[<<s, g>>] = "end"
        BY <2>1, <2>2, <2>3 DEF AtRest
  <2>. QED BY <2>1, <2>4 DEF FailureShown
<1>. QED BY Invariance, <1>1, <1>2, <1>3, PTL DEF Spec

-----------------------------------------------------------------------------
(* Without failing calls to a judge no catch block is reached and no ERROR  *)
(* is stored.                                                               *)
NoFailure ==
  /\ \A t \in Task : pc[t] \notin {"unwind_thrift", "catch"} /\ mem[t].status # "ERROR"
  /\ \A s \in Sub : db[s].status # "ERROR"

(* A thread moves; the objects and rows of the next state are old ones or   *)
(* have another status than ERROR.                                          *)
LEMMA NoFailureMove ==
  ASSUME NoFailure,
         \A t \in Task : pc'[t] = pc[t] \/ pc'[t] \notin {"unwind_thrift", "catch"},
         \A t \in Task : mem'[t] = mem[t] \/ mem'[t].status # "ERROR",
         \A s \in Sub : db'[s] = db[s] \/ db'[s].status # "ERROR"
  PROVE  NoFailure'
<1>. QED BY DEF NoFailure

(* Every step keeps it: TestThrows and CompileThrows raise no TException.   *)
LEMMA NoFailureStep ==
  ASSUME IInv, NoFailure, [Next]_vars, "thrift" \notin Faults
  PROVE  NoFailure'
<1>0. /\ pc \in [Task -> Place] /\ mem \in [Task -> Row] /\ db \in [Sub -> Row]
      /\ \A s \in Sub, k \in 0..NumGroups : <<s, k>> \in Task
      /\ \A t \in Task : t[1] \in Sub /\ db[t[1]].status # "ERROR" /\ mem[t].status # "ERROR"
      /\ \A s \in Sub : CompileTask(s) \in Task /\ CompileTask(s)[1] = s
      /\ NoRow.status # "ERROR"
      BY GroupAssumption DEF IInv, TypeOK, NoFailure, Task, CompileTask, NoRow
<1>1. ASSUME NEW s \in Sub, Submit(s) PROVE NoFailure'
  <2>1. UNCHANGED <<pc, mem>> /\ db' = [db EXCEPT ![s] = [db[s] EXCEPT !.status = "PENDING"]]
        BY <1>1 DEF Submit
  <2>2. [db[s] EXCEPT !.status = "PENDING"].status # "ERROR"
        BY <1>0 DEF Row
  <2>. QED BY <1>0, <2>1, <2>2, NoFailureMove
<1>2. ASSUME UNCHANGED <<db, mem>>,
             \A t \in Task : pc'[t] = pc[t] \/ pc'[t] \notin {"unwind_thrift", "catch"}
      PROVE  NoFailure'
      BY <1>2, NoFailureMove
<1>3. ASSUME NEW t \in Task, NEW row, row.status # "ERROR",
             UNCHANGED db \/ db' = [db EXCEPT ![t[1]] = row],
             mem' = [mem EXCEPT ![t] = row] \/ mem' = [mem EXCEPT ![t] = NoRow],
             NEW place, place \notin {"unwind_thrift", "catch"}, pc' = [pc EXCEPT ![t] = place]
      PROVE  NoFailure'
  <2>1. \A k \in Task : pc'[k] = pc[k] \/ pc'[k] \notin {"unwind_thrift", "catch"}
        BY <1>0, <1>3
  <2>2. \A k \in Task : mem'[k] = mem[k] \/ mem'[k].status # "ERROR"
        BY <1>0, <1>3
  <2>3. \A s \in Sub : db'[s] = db[s] \/ db'[s].status # "ERROR"
        BY <1>0, <1>3
  <2>. QED BY <2>1, <2>2, <2>3, NoFailureMove
<1>4. ASSUME NEW s \in Sub, CompileStep(s) PROVE NoFailure'
  <2> DEFINE t == CompileTask(s)
  <2>0. mem[t] \in Row /\ db[s] \in Row /\ mem[t].status # "ERROR" /\ t \in Task /\ t[1] = s
        BY <1>0
  <2>1. CASE LoadForCompile(s)
    <3>1. [db[s] EXCEPT !.status = "JUDGING"].status # "ERROR"
          BY <2>0 DEF Row
    <3>. QED BY <1>3, <2>0, <2>1, <3>1 DEF LoadForCompile, Store, Goto
  <2>2. ASSUME NEW b \in BOOLEAN, Compile(s, b) PROVE NoFailure'
    <3>1. [mem[t] EXCEPT !.binary = b].status # "ERROR"
          BY <2>0 DEF Row
    <3>. QED BY <1>3, <2>0, <2>2, <3>1 DEF Compile, Store, Goto
  <2>3. ~ CompileThrows(s)
        BY DEF CompileThrows
  <2>4. CASE NoBinary(s)
    <3>1. [mem[t] EXCEPT !.status = "COMPILE_ERROR"].status # "ERROR"
          BY <2>0 DEF Row
    <3>. QED BY <1>3, <2>0, <2>4, <3>1 DEF NoBinary, Leave, Goto
  <2>5. CASE StartTestGroups(s)
    <3> DEFINE row == [mem[t] EXCEPT !.missing = GroupsToCome]
    <3>1. row.status # "ERROR"
          BY <2>0 DEF Row
    <3>2. /\ db' = [db EXCEPT ![s] = row] /\ mem' = [mem EXCEPT ![t] = row]
          /\ pc' = [pc EXCEPT ![t] = "adding"]
          BY <2>0, <2>5 DEF StartTestGroups, Store, Goto
    <3> HIDE DEF row
    <3>. QED BY <1>3, <2>0, <3>1, <3>2
  <2>6. ASSUME NEW g \in Group, AddTestGroup(s, g) PROVE NoFailure'
        BY <1>2, <2>6 DEF AddTestGroup
  <2>7. CASE AllGroupsAdded(s)
        BY <1>0, <1>3, <2>0, <2>7 DEF AllGroupsAdded, Leave, Goto
  <2>. QED BY <1>4, <2>1, <2>2, <2>3, <2>4, <2>5, <2>6, <2>7 DEF CompileStep
<1>5. ASSUME NEW t \in Task, LoadGroup(t) PROVE NoFailure'
  <2>1. pc' = [pc EXCEPT ![t] = "tests"] /\ mem' = [mem EXCEPT ![t] = db[t[1]]] /\ UNCHANGED db
        BY <1>5 DEF LoadGroup, Goto
  <2>. QED BY <1>0, <1>3, <2>1
<1>6. ASSUME NEW t \in Task, NEW out \in Outcomes, JudgeTest(t, out) PROVE NoFailure'
      BY <1>2, <1>6 DEF JudgeTest
<1>7. ASSUME NEW t \in Task, TestThrows(t) PROVE NoFailure'
  <2>1. pc' = [pc EXCEPT ![t] = "unwind_std"] /\ UNCHANGED <<db, mem>>
        BY <1>7 DEF TestThrows, Goto
  <2>. QED BY <1>0, <1>2, <2>1
<1>8. ASSUME NEW t \in Task, ApplyUpdate(t) PROVE NoFailure'
  <2> DEFINE row == Published(Counted(Current(t), Gain(t)))
  <2>1. pc[t] # "unwind_thrift"
        BY DEF NoFailure
  <2>2. /\ db' = [db EXCEPT ![t[1]] = row] /\ mem' = [mem EXCEPT ![t] = NoRow]
        /\ pc' = [pc EXCEPT ![t] = "end"]
        BY <1>8, <2>1 DEF ApplyUpdate, Leave, Goto
  <2>3. db[t[1]] \in Row /\ db[t[1]].status # "ERROR"
        BY <1>0
  <2>4. row.status # "ERROR"
        BY <2>3 DEF Published, Counted, Current, Row
  <2> HIDE DEF row
  <2>. QED BY <1>3, <2>2, <2>4
<1>9. ASSUME NEW t \in Task, Throws(t) PROVE NoFailure'
  <2>1. UNCHANGED db /\ mem' = [mem EXCEPT ![t] = NoRow]
        /\ (pc' = [pc EXCEPT ![t] = "end"] \/ pc' = [pc EXCEPT ![t] = "gone"])
        BY <1>9 DEF Throws, Leave, Goto
  <2>. QED BY <1>0, <1>3, <2>1
<1>10. ASSUME NEW h \in Host, Start(h) PROVE NoFailure'
  <2>1. pc' = [pc EXCEPT ![Head(queue)] = "load"] /\ UNCHANGED <<db, mem>>
        BY <1>10 DEF Start, Goto
  <2>. QED BY <1>0, <1>2, <2>1
<1>11. CASE Crash
  <2>1. /\ UNCHANGED db /\ \A t \in Task : mem'[t] = NoRow
        /\ \A t \in Task : pc'[t] \in {"idle", "end", "gone"}
        BY <1>11 DEF Crash
  <2>. QED BY <1>0, <2>1, NoFailureMove
<1>12. ASSUME UNCHANGED <<db, pc, mem>> PROVE NoFailure'
       BY <1>2, <1>12
<1>. QED
  <2>1. ~ \E t \in Task : Catch(t)
        BY DEF Catch, NoFailure
  <2>2. ASSUME \/ \E s \in Sub : AddForJudging(s)
               \/ \E h \in Host : Connect(h)
               \/ \E t \in Task, h \in Host : Finish(t, h)
               \/ UNCHANGED vars
        PROVE  NoFailure'
        BY <1>12, <2>2 DEF AddForJudging, Connect, Finish, vars
  <2>. QED
    BY <1>1, <1>4, <1>5, <1>6, <1>7, <1>8, <1>9, <1>10, <1>11, <2>1, <2>2 DEF Next, GroupStep

(* No count of a group is lost unless a call to a judge fails: the object   *)
(* that the catch block stores is the only one that overwrites an update.   *)
(* Other exceptions and crashes lose no count of a group that was counted.  *)
THEOREM OnlyCatchLosesUpdates ==
  ASSUME "thrift" \notin Faults
  PROVE  Spec => []NoUpdateLost
<1>1. Init => NoFailure
      BY DEF Init, NoFailure, NoRow, Task
<1>2. IInv /\ NoFailure /\ [Next]_vars => NoFailure'
      BY NoFailureStep
<1>3. IInv /\ NoFailure => NoUpdateLost
  <2> SUFFICES ASSUME IInv, NoFailure, NEW s \in Sub, NEW g \in Group,
                      \A k \in Group : pc[<<s, k>>] = "end"
               PROVE  db[s].missing = 0
      BY DEF NoUpdateLost
  <2>1. <<s, g>> \in Task
        BY GroupAssumption DEF Task, Group
  <2>2. GroupsStarted(s)
        BY <2>1 DEF IInv, QueueOK, GroupsStarted
  <2>3. Unapplied(s) = {}
        BY DEF Unapplied, Applied
  <2>4. db[s].missing = Cardinality(Unapplied(s))
        BY <2>2 DEF IInv, SubInv, MissingOK, NoFailure
  <2>. QED BY <2>3, <2>4, FS_EmptySet
<1>. QED BY Invariance, <1>1, <1>2, <1>3, PTL DEF Spec

-----------------------------------------------------------------------------
(* Nothing is left behind without a verdict: the safety half of             *)
(* EventuallyJudged. A submission that is stored and of which nothing is    *)
(* left to run has COMPILE_ERROR, READY or ERROR.                           *)
VerdictAtRest ==
  \A s \in Sub :
    AtRest(s) /\ db[s].status # "NONE" =>
      db[s].status \in {"COMPILE_ERROR", "READY", "ERROR"}

(* Who will write the verdict of a submission: the handler or the thread    *)
(* that compiles it, or the group that makes missingResults zero.           *)
VerdictToCome(s) ==
  /\ db[s].status = "PENDING" =>
       \/ s \in submitting
       \/ CompileTask(s) \in added /\ pc[CompileTask(s)] \in {"idle", "load"}
  /\ db[s].status = "JUDGING" =>
       \/ pc[CompileTask(s)] \in {"compile", "compiled", "catch", "adding"}
       \/ \A g \in Group : <<s, g>> \in added
  /\ db[s].status = "JUDGING" /\ GroupsStarted(s) => db[s].missing # 0
  /\ \A k \in 0..NumGroups : pc[<<s, k>>] # "gone"

(* A step that concerns another submission, or the threads of groups only *)
LEMMA VerdictFrame ==
  ASSUME NEW s \in Sub, VerdictToCome(s), UNCHANGED <<db[s], pc[<<s, 0>>]>>,
         \A k \in 0..NumGroups : pc'[<<s, k>>] = pc[<<s, k>>] \/ pc'[<<s, k>>] # "gone",
         \A k \in 0..NumGroups : <<s, k>> \in added' <=> <<s, k>> \in added,
         s \in submitting' <=> s \in submitting
  PROVE  VerdictToCome(s)'
<1>1. 0 \in 0..NumGroups /\ Group \subseteq 0..NumGroups
      BY GroupAssumption DEF Group
<1>2. GroupsStarted(s)' <=> GroupsStarted(s)
      BY <1>1 DEF GroupsStarted, CompileTask
<1>. QED BY <1>1, <1>2 DEF VerdictToCome, CompileTask

(* The steps of CompileAndRunTask *)
LEMMA VerdictCompile ==
  ASSUME LifeInv, \A s \in Sub : VerdictToCome(s), NumGroups > 0,
         NEW s \in Sub, CompileStep(s)
  PROVE  \A r \in Sub : VerdictToCome(r)'
<1> DEFINE t == CompileTask(s)
<1>0. /\ pc \in [Task -> Place] /\ mem \in [Task -> Row] /\ db \in [Sub -> Row]
      /\ mem[t] \in Row /\ db[s] \in Row /\ t \in Task /\ t[1] = s /\ t = <<s, 0>>
      /\ 0 \in 0..NumGroups /\ 0 \notin Group /\ Group \subseteq 0..NumGroups
      /\ \A r \in Sub, k \in 0..NumGroups : <<r, k>> \in Task
      BY GroupAssumption DEF LifeInv, IInv, TypeOK, Group, CompileTask, Task
<1>a. LifeOK(s) /\ SubInv(s) /\ QueueOK /\ VerdictToCome(s)
      BY DEF LifeInv, IInv
<1>1. ASSUME NEW place, place \notin {"gone"}, pc' = [pc EXCEPT ![t] = place],
             UNCHANGED <<added, submitting>>,
             \A r \in Sub \ {s} : UNCHANGED db[r]
      PROVE  /\ \A r \in Sub \ {s} : VerdictToCome(r)'
             /\ \A k \in 0..NumGroups : pc'[<<s, k>>] # "gone"
             /\ pc'[t] = place
  <2>1. \A k \in 0..NumGroups : pc[<<s, k>>] # "gone"
        BY <1>a DEF VerdictToCome
  <2>2. \A k \in 0..NumGroups : pc'[<<s, k>>] # "gone"
        BY <1>0, <1>1, <2>1
  <2>3. \A r \in Sub \ {s} : UNCHANGED db[r] /\ \A k \in 0..NumGroups : UNCHANGED pc[<<r, k>>]
        BY <1>0, <1>1
  <2>4. \A r \in Sub \ {s} : VerdictToCome(r)'
        BY <1>0, <1>1, <2>3, VerdictFrame, ZenonT(60)
  <2>. QED BY <1>0, <1>1, <2>2, <2>4
<1>b. pc[t] \in {"load", "compile", "compiled"} => \A g \in Group : <<s, g>> \notin added
      BY <1>a DEF SubInv, CompileOK
<1>2. CASE LoadForCompile(s)
  <2>1. /\ pc[t] = "load" /\ pc' = [pc EXCEPT ![t] = "compile"] /\ UNCHANGED <<added, submitting>>
        /\ db' = [db EXCEPT ![s] = [db[s] EXCEPT !.status = "JUDGING"]]
        /\ \A r \in Sub \ {s} : UNCHANGED db[r]
        BY <1>0, <1>2 DEF LoadForCompile, Store, Goto, poolVars
  <2>2. db'[s].status = "JUDGING"
        BY <1>0, <2>1 DEF Row
  <2>3. ~ GroupsStarted(s)'
        BY <1>0, <1>b, <2>1 DEF GroupsStarted
  <2>4. /\ \A r \in Sub \ {s} : VerdictToCome(r)'
        /\ \A k \in 0..NumGroups : pc'[<<s, k>>] # "gone"
        /\ pc'[t] = "compile"
        BY <1>1, <2>1
  <2>5. VerdictToCome(s)'
        BY <2>1, <2>2, <2>3, <2>4 DEF VerdictToCome
  <2>. QED BY <2>4, <2>5
<1>3. ASSUME NEW b \in BOOLEAN, Compile(s, b) PROVE \A r \in Sub : VerdictToCome(r)'
  <2>1. /\ pc[t] = "compile" /\ pc' = [pc EXCEPT ![t] = "compiled"] /\ UNCHANGED <<added, submitting>>
        /\ db' = [db EXCEPT ![s] = [mem[t] EXCEPT !.binary = b]]
        /\ \A r \in Sub \ {s} : UNCHANGED db[r]
        BY <1>0, <1>3 DEF Compile, Store, Goto, poolVars
  <2>2. db'[s].status = "JUDGING"
        BY <1>0, <1>a, <2>1 DEF Row, LifeOK
  <2>3. ~ GroupsStarted(s)'
        BY <1>0, <1>b, <2>1 DEF GroupsStarted
  <2>4. /\ \A r \in Sub \ {s} : VerdictToCome(r)'
        /\ \A k \in 0..NumGroups : pc'[<<s, k>>] # "gone"
        /\ pc'[t] = "compiled"
        BY <1>1, <2>1
  <2>5. VerdictToCome(s)'
        BY <2>1, <2>2, <2>3, <2>4 DEF VerdictToCome
  <2>. QED BY <2>4, <2>5
<1>4. CASE CompileThrows(s)
  <2>1. /\ pc[t] = "compile" /\ pc' = [pc EXCEPT ![t] = "catch"] /\ UNCHANGED <<added, db, submitting>>
        BY <1>0, <1>4 DEF CompileThrows, Goto, poolVars
  <2>2. db'[s].status = "JUDGING"
        BY <1>a, <2>1 DEF LifeOK
  <2>3. ~ GroupsStarted(s)'
        BY <1>0, <1>b, <2>1 DEF GroupsStarted
  <2>4. /\ \A r \in Sub \ {s} : VerdictToCome(r)'
        /\ \A k \in 0..NumGroups : pc'[<<s, k>>] # "gone"
        /\ pc'[t] = "catch"
        BY <1>1, <2>1
  <2>5. VerdictToCome(s)'
        BY <2>1, <2>2, <2>3, <2>4 DEF VerdictToCome
  <2>. QED BY <2>4, <2>5
<1>5. CASE NoBinary(s)
  <2>1. /\ pc' = [pc EXCEPT ![t] = "end"] /\ UNCHANGED <<added, submitting>>
        /\ db' = [db EXCEPT ![s] = [mem[t] EXCEPT !.status = "COMPILE_ERROR"]]
        /\ \A r \in Sub \ {s} : UNCHANGED db[r]
        BY <1>0, <1>5 DEF NoBinary, Leave, Goto, poolVars
  <2>2. db'[s].status = "COMPILE_ERROR"
        BY <1>0, <2>1 DEF Row
  <2>4. /\ \A r \in Sub \ {s} : VerdictToCome(r)'
        /\ \A k \in 0..NumGroups : pc'[<<s, k>>] # "gone"
        /\ pc'[t] = "end"
        BY <1>1, <2>1
  <2>5. VerdictToCome(s)'
        BY <2>1, <2>2, <2>4 DEF VerdictToCome
  <2>. QED BY <2>4, <2>5
<1>6. CASE StartTestGroups(s)
  <2>1. /\ pc[t] = "compiled" /\ pc' = [pc EXCEPT ![t] = "adding"] /\ UNCHANGED <<added, submitting>>
        /\ db' = [db EXCEPT ![s] = [mem[t] EXCEPT !.missing = NumGroups]]
        /\ \A r \in Sub \ {s} : UNCHANGED db[r]
        BY <1>0, <1>6 DEF StartTestGroups, Store, Goto, poolVars, GroupsToCome
  <2>2. db'[s].status = "JUDGING" /\ db'[s].missing = NumGroups
        BY <1>0, <1>a, <2>1 DEF Row, LifeOK
  <2>4. /\ \A r \in Sub \ {s} : VerdictToCome(r)'
        /\ \A k \in 0..NumGroups : pc'[<<s, k>>] # "gone"
        /\ pc'[t] = "adding"
        BY <1>1, <2>1
  <2>5. VerdictToCome(s)'
        BY <2>1, <2>2, <2>4 DEF VerdictToCome
  <2>. QED BY <2>4, <2>5
<1>7. ASSUME NEW g \in Group, AddTestGroup(s, g) PROVE \A r \in Sub : VerdictToCome(r)'
  <2>1. /\ pc[t] = "adding" /\ UNCHANGED <<db, pc, submitting>> /\ added' = added \cup {<<s, g>>}
        BY <1>7 DEF AddTestGroup, Pool!Add
  <2>2. GroupsStarted(s)
        BY <2>1 DEF GroupsStarted
  <2>3. \A r \in Sub \ {s} : VerdictToCome(r)'
        BY <1>0, <2>1, VerdictFrame
  <2>4. VerdictToCome(s)'
        BY <1>0, <1>a, <2>1, <2>2 DEF VerdictToCome, LifeOK
  <2>. QED BY <2>3, <2>4
<1>8. CASE AllGroupsAdded(s)
  <2>1. /\ pc[t] = "adding" /\ pc' = [pc EXCEPT ![t] = "end"] /\ UNCHANGED <<added, db, submitting>>
        /\ \A g \in Group : <<s, g>> \in added
        BY <1>0, <1>8 DEF AllGroupsAdded, Leave, Goto, poolVars
  <2>2. GroupsStarted(s)
        BY <2>1 DEF GroupsStarted
  <2>3. /\ \A r \in Sub \ {s} : VerdictToCome(r)'
        /\ \A k \in 0..NumGroups : pc'[<<s, k>>] # "gone"
        /\ pc'[t] = "end"
        BY <1>1, <2>1
  <2>4. VerdictToCome(s)'
        BY <1>a, <2>1, <2>2, <2>3 DEF VerdictToCome, LifeOK
  <2>. QED BY <2>3, <2>4
<1>. QED BY <1>2, <1>3, <1>4, <1>5, <1>6, <1>7, <1>8 DEF CompileStep

(* Every step: the group that counts missingResults down to zero publishes  *)
(* READY, unless a failure has been stored before.                          *)
LEMMA VerdictStep ==
  ASSUME LifeInv, \A s \in Sub : VerdictToCome(s), [Next]_vars,
         NumGroups > 0, "std" \notin Faults, "crash" \notin Faults
  PROVE  \A r \in Sub : VerdictToCome(r)'
<1> DEFINE Goal == \A r \in Sub : VerdictToCome(r)'
<1>0. /\ TypeOK /\ QueueOK /\ IInv
      /\ pc \in [Task -> Place] /\ mem \in [Task -> Row] /\ db \in [Sub -> Row]
      /\ \A s \in Sub : LifeOK(s) /\ SubInv(s) /\ VerdictToCome(s)
      BY DEF LifeInv, IInv, TypeOK
<1>a. /\ 0 \in 0..NumGroups /\ 0 \notin Group /\ Group \subseteq 0..NumGroups
      /\ \A s \in Sub : CompileTask(s) = <<s, 0>>
      /\ \A s \in Sub, k \in 0..NumGroups : <<s, k>> \in Task
      BY GroupAssumption DEF Group, CompileTask, Task
<1>b. ASSUME UNCHANGED <<db, added, submitting>>, \A r \in Sub : UNCHANGED pc[<<r, 0>>],
             \A t \in Task : pc'[t] = pc[t] \/ pc'[t] # "gone"
      PROVE  Goal
      BY <1>0, <1>a, <1>b, VerdictFrame
<1>1. ASSUME NEW s \in Sub, Submit(s) PROVE Goal
  <2>1. /\ db[s].status = "NONE" /\ db' = [db EXCEPT ![s] = [db[s] EXCEPT !.status = "PENDING"]]
        /\ submitting' = submitting \cup {s}
        /\ UNCHANGED <<added, pc>>
        BY <1>1 DEF Submit, poolVars
  <2>2. db'[s].status = "PENDING"
        BY <1>0, <2>1 DEF Row
  <2>3. \A r \in Sub \ {s} : VerdictToCome(r)'
        BY <1>0, <2>1, VerdictFrame
  <2>4. VerdictToCome(s)'
        BY <1>0, <2>1, <2>2 DEF VerdictToCome
  <2>. QED BY <2>3, <2>4
<1>2. ASSUME NEW s \in Sub, AddForJudging(s) PROVE Goal
  <2>1. /\ s \in submitting /\ submitting' = submitting \ {s} /\ <<s, 0>> \notin added
        /\ added' = added \cup {<<s, 0>>} /\ UNCHANGED <<db, pc>>
        BY <1>2, <1>a DEF AddForJudging, Pool!Add
  <2>2. \A r \in Sub \ {s} : VerdictToCome(r)'
        BY <1>0, <2>1, VerdictFrame
  <2>3. GroupsStarted(s)' <=> GroupsStarted(s)
        BY <1>a, <2>1 DEF GroupsStarted
  <2>4. pc[<<s, 0>>] = "idle"
        BY <1>0, <1>a, <2>1 DEF QueueOK
  <2>5. VerdictToCome(s)'
        BY <1>0, <1>a, <2>1, <2>3, <2>4 DEF VerdictToCome
  <2>. QED BY <2>2, <2>5
<1>3. ASSUME NEW s \in Sub, CompileStep(s) PROVE Goal
      BY <1>3, VerdictCompile
<1>4. ASSUME NEW t \in Task, LoadGroup(t) PROVE Goal
  <2>1. \A r \in Sub : <<r, 0>> # t /\ <<r, 0>> \in Task
        BY <1>4, <1>a DEF LoadGroup
  <2>2. UNCHANGED <<db, added, submitting>> /\ pc' = [pc EXCEPT ![t] = "tests"]
        BY <1>4 DEF LoadGroup, Goto, poolVars
  <2>3. \A k \in Task : pc'[k] = pc[k] \/ pc'[k] # "gone"
        BY <1>0, <2>2
  <2>. QED BY <1>0, <1>b, <2>1, <2>2, <2>3
<1>5. ASSUME NEW t \in Task, NEW out \in Outcomes, JudgeTest(t, out) PROVE Goal
      BY <1>5, <1>b DEF JudgeTest, poolVars
<1>6. ASSUME NEW t \in Task, TestThrows(t) PROVE Goal
  <2>1. pc[t] = "tests" /\ UNCHANGED <<db, added, submitting>> /\ pc' = [pc EXCEPT ![t] = "unwind_thrift"]
        BY <1>6 DEF TestThrows, Goto, poolVars
  <2>2. \A r \in Sub : <<r, 0>> # t /\ <<r, 0>> \in Task
        BY <1>0, <1>a, <2>1 DEF SubInv, CompileOK
  <2>3. \A k \in Task : pc'[k] = pc[k] \/ pc'[k] # "gone"
        BY <1>0, <2>1
  <2>. QED BY <1>0, <1>b, <2>1, <2>2, <2>3
<1>7. ASSUME NEW t \in Task, ApplyUpdate(t) PROVE Goal
  <2>0. PICK s \in Sub, g \in 0..NumGroups : t = <<s, g>>
        BY DEF Task
  <2> DEFINE row == Published(Counted(Current(t), Gain(t)))
  <2>1. /\ g \in Group /\ GroupsStarted(s) /\ g \in Unapplied(s)
        /\ db[s].missing \in 1..NumGroups
        BY <1>0, <1>7, <2>0, GroupOutstanding DEF ApplyUpdate
  <2>2. /\ row.status = IF db[s].missing = 1 /\ db[s].status = "JUDGING"
                          THEN "READY" ELSE db[s].status
        /\ row.missing = db[s].missing - 1
        BY <1>0, <2>0, <2>1, CountedRow
  <2>4. db' = [db EXCEPT ![s] = row] /\ UNCHANGED <<added, submitting>>
        BY <1>7, <2>0 DEF ApplyUpdate, Store, Leave, Goto, poolVars
  <2> HIDE DEF row
  <2>5. \/ pc' = [pc EXCEPT ![t] = "catch"]
        \/ pc' = [pc EXCEPT ![t] = "end"]
        BY <1>7 DEF ApplyUpdate, Store, Leave, Goto
  <2>6. /\ \A r \in Sub : UNCHANGED pc[<<r, 0>>]
        /\ \A k \in Task : pc'[k] = pc[k] \/ pc'[k] # "gone"
    <3>1. \A r \in Sub : <<r, 0>> # t /\ <<r, 0>> \in Task
          BY <1>a, <2>0, <2>1
    <3>. QED BY <1>0, <2>5, <3>1
  <2>7. \A r \in Sub \ {s} : VerdictToCome(r)'
        BY <1>0, <1>a, <2>4, <2>6, VerdictFrame
  <2>8. db[s].status \in {"JUDGING", "READY", "ERROR"}
        BY <1>0, <2>1 DEF LifeOK
  <2>9. /\ db'[s].status \in {"JUDGING", "READY", "ERROR"}
        /\ db'[s].status = "JUDGING" => db[s].status = "JUDGING" /\ db'[s].missing # 0
        BY <1>0, <2>1, <2>2, <2>4, <2>8
  <2>10. VerdictToCome(s)'
         BY <1>0, <1>a, <2>4, <2>6, <2>9 DEF VerdictToCome
  <2>. QED BY <2>7, <2>10
<1>8. ASSUME NEW t \in Task, Catch(t) PROVE Goal
  <2>0. PICK s \in Sub, g \in 0..NumGroups : t = <<s, g>>
        BY DEF Task
  <2> DEFINE row == Failed(mem[t])
  <2>1. /\ pc[t] = "catch" /\ pc' = [pc EXCEPT ![t] = "end"]
        /\ db' = [db EXCEPT ![s] = row]
        /\ UNCHANGED <<added, submitting>>
        BY <1>8, <2>0 DEF Catch, Leave, Goto, poolVars
  <2>2. row.status = "ERROR"
        BY <1>0 DEF Failed, Row
  <2> HIDE DEF row
  <2>3. /\ db'[s].status = "ERROR" /\ \A r \in Sub \ {s} : UNCHANGED db[r]
        /\ \A r \in Sub \ {s} : UNCHANGED pc[<<r, 0>>]
        /\ \A k \in Task : pc'[k] = pc[k] \/ pc'[k] # "gone"
        BY <1>0, <1>a, <2>0, <2>1, <2>2
  <2>4. \A r \in Sub \ {s} : VerdictToCome(r)'
        BY <1>0, <1>a, <2>1, <2>3, VerdictFrame
  <2>5. VerdictToCome(s)'
        BY <1>0, <1>a, <2>3 DEF VerdictToCome
  <2>. QED BY <2>4, <2>5
<1>9. ASSUME NEW h \in Host, Connect(h) PROVE Goal
      BY <1>9, <1>b DEF Connect, Pool!Connect
<1>10. ASSUME NEW h \in Host, Start(h) PROVE Goal
  <2>1. /\ pc' = [pc EXCEPT ![Head(queue)] = "load"] /\ UNCHANGED <<added, db, submitting>>
        /\ Head(queue) \in Task /\ pc[Head(queue)] = "idle"
        BY <1>0, <1>10, QueueStart DEF Start, Goto, Pool!Start
  <2>2. /\ \A r \in Sub : \/ pc'[<<r, 0>>] = pc[<<r, 0>>]
                          \/ pc[<<r, 0>>] = "idle" /\ pc'[<<r, 0>>] = "load"
        /\ \A k \in Task : pc'[k] = pc[k] \/ pc'[k] # "gone"
        BY <1>0, <1>a, <2>1
  <2>3. ASSUME NEW r \in Sub PROVE VerdictToCome(r)'
    <3>1. GroupsStarted(r)' => GroupsStarted(r)
          BY <1>a, <2>1, <2>2 DEF GroupsStarted
    <3>. QED BY <1>0, <1>a, <2>1, <2>2, <3>1 DEF VerdictToCome
  <2>. QED BY <2>3
<1>11. ASSUME NEW t \in Task, NEW h \in Host, Finish(t, h) PROVE Goal
       BY <1>11, <1>b DEF Finish, Pool!Finish
<1>12. CASE UNCHANGED vars
       BY <1>12, <1>b DEF vars
<1>. QED
  BY <1>1, <1>2, <1>3, <1>4, <1>5, <1>6, <1>7, <1>8, <1>9, <1>10, <1>11, <1>12
  DEF Next, GroupStep, Throws, Crash

(* Nothing is left behind without a verdict, when tasks have test groups and *)
(* the only failures are those of calls to a judge.                          *)
THEOREM NothingWithoutVerdict ==
  ASSUME NumGroups > 0, "std" \notin Faults, "crash" \notin Faults
  PROVE  Spec => []VerdictAtRest
<1> DEFINE Inv == LifeInv /\ \A s \in Sub : VerdictToCome(s)
<1>1. Init => Inv
  <2> SUFFICES ASSUME Init PROVE \A s \in Sub : VerdictToCome(s)
      BY LifeInit
  <2>1. \A s \in Sub : db[s].status = "NONE" /\ \A k \in 0..NumGroups : pc[<<s, k>>] = "idle"
        BY DEF Init, NoRow, Task
  <2>. QED BY <2>1 DEF VerdictToCome
<1>2. Inv /\ [Next]_vars => Inv'
      BY StepIInv, LifeStep, VerdictStep DEF LifeInv
<1>3. Inv => VerdictAtRest
  <2> SUFFICES ASSUME Inv, NEW s \in Sub, AtRest(s), db[s].status # "NONE"
               PROVE  db[s].status \in {"COMPILE_ERROR", "READY", "ERROR"}
      BY DEF VerdictAtRest
  <2>0. /\ VerdictToCome(s) /\ SubInv(s) /\ QueueOK /\ LifeOK(s) /\ db[s] \in Row
        /\ CompileTask(s) \in Task /\ CompileTask(s) = <<s, 0>> /\ 0 \in 0..NumGroups
        /\ \A g \in Group : g \in 0..NumGroups
        BY GroupAssumption DEF LifeInv, IInv, TypeOK, CompileTask, Task, Group
  <2>1. ASSUME db[s].status = "PENDING" PROVE FALSE
        BY <2>0, <2>1 DEF VerdictToCome, AtRest
  <2>2. ASSUME db[s].status = "JUDGING" PROVE FALSE
    <3>1. \A g \in Group : <<s, g>> \in added
          BY <2>0, <2>2 DEF VerdictToCome, AtRest, QueueOK
    <3>2. \A g \in Group : pc[<<s, g>>] = "end"
          BY <2>0, <3>1 DEF VerdictToCome, AtRest
    <3>3. Unapplied(s) = {} /\ GroupsStarted(s)
      <4>1. 1 \in Group
            BY GroupAssumption DEF Group
      <4>. QED BY <3>1, <3>2, <4>1 DEF Unapplied, Applied, GroupsStarted
    <3>4. db[s].missing = 0
          BY <2>0, <2>2, <3>3, FS_EmptySet DEF SubInv, MissingOK
    <3>. QED BY <2>0, <2>2, <3>3, <3>4 DEF VerdictToCome
  <2>. QED BY <2>0, <2>1, <2>2 DEF Row
<1>. QED BY <1>1, <1>2, <1>3, PTL DEF Spec
=============================================================================
