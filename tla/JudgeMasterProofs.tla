------------------------- MODULE JudgeMasterProofs -------------------------
(***************************************************************************)
(* What MCJudgeMaster checks for a few tasks and hosts, proved for every   *)
(* set of tasks and every set of numbered hosts: the safety invariants of  *)
(* JudgeMaster, what a dispatch leaves behind, and the refinement of       *)
(* TaskPool.                                                               *)
(***************************************************************************)
EXTENDS JudgeMaster, TLAPS

(* Nothing happens to the pool before main() serves requests. *)
IdleBeforeServing ==
  main = "starting" =>
    allJudgeHosts = {} /\ connecting = {} /\ running = {} /\ pendingTasks = <<>>

(* During a dispatch, freeHosts and the picked host split the unused hosts. *)
FreeIsExact ==
  loop = "dispatch" =>
    /\ freeHosts \cup picked = allJudgeHosts \ usedJudgeHosts
    /\ freeHosts \cap picked = {}

(* Queued and running tasks were added before. *)
OnlyAdded ==
  /\ \A i \in 1..Len(pendingTasks) : pendingTasks[i] \in added
  /\ \A p \in running : p[1] \in added

(* The inductive invariant. *)
IInv ==
  /\ TypeOK
  /\ IdleBeforeServing
  /\ FreeIsExact
  /\ UsedIsExact
  /\ ConnectionExclusive
  /\ TaskOwnedOnce
  /\ OnlyAdded

-----------------------------------------------------------------------------
(* The initial states satisfy the inductive invariant. *)
LEMMA InitIInv == Init => IInv
  BY DEF Init, IInv, TypeOK, LoopState, IdleBeforeServing, FreeIsExact, UsedIsExact,
         ConnectionExclusive, TaskOwnedOnce, OnlyAdded

(* Every step preserves the types and the scope of the dispatch's locals. *)
LEMMA TypeStep == TypeOK /\ [Next]_vars => TypeOK'
<1> SUFFICES ASSUME TypeOK, [Next]_vars PROVE TypeOK'
    OBVIOUS
<1> USE DEF TypeOK, LoopState, NotifyOne, MutexFree
<1>1. CASE BeginConstruction BY <1>1 DEF BeginConstruction
<1>2. CASE EndConstruction BY <1>2 DEF EndConstruction
<1>3. CASE UpdateJudgeHosts BY <1>3 DEF UpdateJudgeHosts
<1>4. CASE ServeWithoutJudges BY <1>4 DEF ServeWithoutJudges
<1>5. ASSUME NEW h \in Host, AddConnectedJudgeHost(h) PROVE TypeOK'
      BY <1>5 DEF AddConnectedJudgeHost
<1>6. ASSUME NEW t \in Task, AddTask(t) PROVE TypeOK'
      BY <1>6 DEF AddTask, PushBack
<1>7. CASE Wait BY <1>7 DEF Wait
<1>8. CASE SpuriousWake BY <1>8 DEF SpuriousWake
<1>9. CASE Wake BY <1>9 DEF Wake, FreeHosts
<1>10. CASE StartTask
  <2>1. PICK h \in freeHosts :
          /\ picked' = {h}
          /\ freeHosts' = freeHosts \ {h}
          /\ running' = running \cup {<<Head(pendingTasks), h>>}
        BY <1>10 DEF StartTask
  <2>2. Head(pendingTasks) \in Task /\ Tail(pendingTasks) \in Seq(Task)
        BY <1>10 DEF StartTask
  <2>. QED BY <1>10, <2>1, <2>2 DEF StartTask, PopFront
<1>11. CASE InsertUsed BY <1>11 DEF InsertUsed
<1>12. CASE EndDispatch BY <1>12 DEF EndDispatch
<1>13. ASSUME NEW t \in Task, NEW h \in Host, ReturnConnection(t, h) PROVE TypeOK'
       BY <1>13 DEF ReturnConnection, Erase
<1>14. CASE Restart BY <1>14 DEF Restart
<1>15. CASE UNCHANGED vars BY <1>15 DEF vars
<1>. QED
  BY <1>1, <1>2, <1>3, <1>4, <1>5, <1>6, <1>7, <1>8, <1>9, <1>10, <1>11, <1>12,
     <1>13, <1>14, <1>15 DEF Next

-----------------------------------------------------------------------------
(* Every step preserves the inductive invariant. Most actions leave the     *)
(* queue, the running tasks and the hosts alone; the others have a step of  *)
(* their own.                                                               *)
LEMMA StepIInv == IInv /\ [Next]_vars => IInv'
<1> SUFFICES ASSUME IInv, [Next]_vars PROVE IInv'
    OBVIOUS
<1>0. TypeOK /\ TypeOK'
      BY TypeStep DEF IInv
<1>1. ASSUME UNCHANGED <<pendingTasks, usedJudgeHosts, picked, running, added>>
      PROVE  (UsedIsExact /\ ConnectionExclusive /\ TaskOwnedOnce /\ OnlyAdded)'
      BY <1>1 DEF IInv, UsedIsExact, ConnectionExclusive, TaskOwnedOnce, OnlyAdded
<1>2. CASE BeginConstruction
      BY <1>0, <1>1, <1>2 DEF BeginConstruction, IInv, IdleBeforeServing, FreeIsExact
<1>3. CASE EndConstruction
      BY <1>0, <1>1, <1>3 DEF EndConstruction, IInv, IdleBeforeServing, FreeIsExact
<1>4. CASE UpdateJudgeHosts
      BY <1>0, <1>1, <1>4
      DEF UpdateJudgeHosts, IInv, IdleBeforeServing, FreeIsExact, MutexFree, NotifyOne
<1>5. CASE ServeWithoutJudges
      BY <1>0, <1>1, <1>5 DEF ServeWithoutJudges, IInv, IdleBeforeServing, FreeIsExact
<1>6. ASSUME NEW h \in Host, AddConnectedJudgeHost(h) PROVE IInv'
      BY <1>0, <1>1, <1>6
      DEF AddConnectedJudgeHost, IInv, IdleBeforeServing, FreeIsExact, MutexFree, NotifyOne
<1>7. ASSUME NEW t \in Task, AddTask(t) PROVE IInv'
  <2>1. IdleBeforeServing' /\ FreeIsExact'
        BY <1>7 DEF AddTask, IInv, IdleBeforeServing, FreeIsExact, MutexFree, NotifyOne
  <2>2. UsedIsExact' /\ ConnectionExclusive'
        BY <1>7 DEF AddTask, IInv, UsedIsExact, ConnectionExclusive
  <2>3. /\ Len(pendingTasks') = Len(pendingTasks) + 1
        /\ \A i \in 1..Len(pendingTasks) : pendingTasks'[i] = pendingTasks[i]
        /\ pendingTasks'[Len(pendingTasks) + 1] = t
        BY <1>0, <1>7 DEF AddTask, PushBack, TypeOK
  <2>4. \A i \in 1..Len(pendingTasks') :
          \/ i \in 1..Len(pendingTasks) /\ pendingTasks'[i] = pendingTasks[i]
          \/ i = Len(pendingTasks) + 1 /\ pendingTasks'[i] = t
        BY <1>0, <2>3 DEF TypeOK
  <2>5. t \notin added /\ added' = added \cup {t} /\ running' = running
        BY <1>7 DEF AddTask
  <2>6. TaskOwnedOnce'
        BY <2>4, <2>5 DEF IInv, OnlyAdded, TaskOwnedOnce
  <2>7. OnlyAdded'
        BY <2>4, <2>5 DEF IInv, OnlyAdded
  <2>. QED BY <1>0, <2>1, <2>2, <2>6, <2>7 DEF IInv
<1>8. CASE Wait
      BY <1>0, <1>1, <1>8 DEF Wait, IInv, IdleBeforeServing, FreeIsExact
<1>9. CASE SpuriousWake
      BY <1>0, <1>1, <1>9 DEF SpuriousWake, IInv, IdleBeforeServing, FreeIsExact
<1>10. CASE Wake
       BY <1>0, <1>1, <1>10 DEF Wake, FreeHosts, IInv, TypeOK, IdleBeforeServing, FreeIsExact
<1>11. CASE StartTask
  <2>1. PICK h \in freeHosts :
          /\ picked' = {h}
          /\ freeHosts' = freeHosts \ {h}
          /\ running' = running \cup {<<Head(pendingTasks), h>>}
        BY <1>11 DEF StartTask
  <2>2. /\ h \in allJudgeHosts /\ h \notin usedJudgeHosts
        /\ picked = {} /\ loop = "dispatch" /\ main # "starting"
        BY <1>11, <2>1 DEF StartTask, IInv, FreeIsExact, IdleBeforeServing
  <2>3. IdleBeforeServing' /\ FreeIsExact'
        BY <1>11, <2>1, <2>2 DEF StartTask, IInv, IdleBeforeServing, FreeIsExact
  <2>4. \A p \in running : p[2] # h
        BY <2>2 DEF IInv, UsedIsExact
  <2>5. UsedIsExact'
    <3>1. {p[2] : p \in running} = usedJudgeHosts
          BY <2>2 DEF IInv, UsedIsExact
    <3>2. {p[2] : p \in running'} =
            {p[2] : p \in running} \cup {<<Head(pendingTasks), h>>[2]}
          BY ONLY <2>1
    <3>. QED BY <1>11, <2>1, <2>2, <3>1, <3>2 DEF StartTask, UsedIsExact
  <2>6. ConnectionExclusive'
        BY <2>1, <2>4 DEF IInv, ConnectionExclusive
  <2>7. /\ Len(pendingTasks) \in Nat \ {0}
        /\ Head(pendingTasks) = pendingTasks[1]
        /\ Len(pendingTasks') = Len(pendingTasks) - 1
        /\ \A i \in 1..Len(pendingTasks') : pendingTasks'[i] = pendingTasks[i + 1]
        BY <1>0, <1>11 DEF StartTask, PopFront, TypeOK
  <2>8. \A i \in 1..Len(pendingTasks') :
          i + 1 \in 1..Len(pendingTasks) /\ i + 1 # 1 /\ pendingTasks'[i] = pendingTasks[i + 1]
        BY <2>7
  <2>9. 1 \in 1..Len(pendingTasks)
        BY <2>7
  <2>10. \A p \in running' : p \in running \/ p = <<pendingTasks[1], h>>
         BY <2>1, <2>7
  <2>11. \A i, j \in 1..Len(pendingTasks') :
           pendingTasks'[i] = pendingTasks'[j] => i = j
         BY <2>7, <2>8 DEF IInv, TaskOwnedOnce
  <2>12. \A p, q \in running' : p[1] = q[1] => p = q
         BY <2>9, <2>10 DEF IInv, TaskOwnedOnce
  <2>13. \A p \in running', i \in 1..Len(pendingTasks') : pendingTasks'[i] # p[1]
         BY <2>8, <2>9, <2>10 DEF IInv, TaskOwnedOnce
  <2>14. OnlyAdded'
         BY <1>11, <2>8, <2>9, <2>10 DEF StartTask, IInv, OnlyAdded
  <2>. QED BY <1>0, <2>3, <2>5, <2>6, <2>11, <2>12, <2>13, <2>14 DEF IInv, TaskOwnedOnce
<1>12. CASE InsertUsed
       BY <1>0, <1>12 DEF InsertUsed, IInv, IdleBeforeServing, FreeIsExact, UsedIsExact,
                          ConnectionExclusive, TaskOwnedOnce, OnlyAdded
<1>13. CASE EndDispatch
       BY <1>0, <1>1, <1>13 DEF EndDispatch, IInv, IdleBeforeServing, FreeIsExact
<1>14. ASSUME NEW t \in Task, NEW h \in Host, ReturnConnection(t, h) PROVE IInv'
  <2>1. /\ <<t, h>> \in running /\ running' = running \ {<<t, h>>}
        /\ usedJudgeHosts' = usedJudgeHosts \ {h}
        /\ picked = {} /\ picked' = {}
        BY <1>0, <1>14 DEF ReturnConnection, Erase, MutexFree, TypeOK
  <2>2. \A p \in running' : p[2] # h
        BY <2>1 DEF IInv, ConnectionExclusive
  <2>3. UsedIsExact'
    <3>1. \A k : (\E p \in running : k = p[2]) <=> k \in usedJudgeHosts
          BY <2>1 DEF IInv, UsedIsExact
    <3>2. \A k : (\E p \in running' : k = p[2]) <=> k \in usedJudgeHosts'
      <4>1. \A p \in running : p[2] # h => p \in running'
            BY <2>1
      <4>. QED BY <2>1, <2>2, <3>1, <4>1
    <3>. QED BY <2>1, <3>2 DEF UsedIsExact
  <2>4. IdleBeforeServing' /\ FreeIsExact'
        BY <1>14 DEF ReturnConnection, IInv, IdleBeforeServing, FreeIsExact, MutexFree, NotifyOne
  <2>5. ConnectionExclusive' /\ TaskOwnedOnce' /\ OnlyAdded'
        BY <1>14, <2>1 DEF ReturnConnection, IInv, ConnectionExclusive, TaskOwnedOnce, OnlyAdded
  <2>. QED BY <1>0, <2>3, <2>4, <2>5 DEF IInv
<1>15. CASE Restart
  <2>1. Len(pendingTasks') = 0
        BY <1>15 DEF Restart
  <2>. QED BY <1>0, <1>15, <2>1
           DEF Restart, IInv, IdleBeforeServing, FreeIsExact, UsedIsExact,
               ConnectionExclusive, TaskOwnedOnce, OnlyAdded
<1>16. CASE UNCHANGED vars
       BY <1>0, <1>1, <1>16 DEF vars, IInv, IdleBeforeServing, FreeIsExact
<1>. QED
  BY <1>2, <1>3, <1>4, <1>5, <1>6, <1>7, <1>8, <1>9, <1>10, <1>11, <1>12, <1>13,
     <1>14, <1>15, <1>16 DEF Next

(* The inductive invariant holds in every reachable state. *)
LEMMA Invariance == Spec => []IInv
  BY InitIInv, StepIInv, PTL DEF Spec

-----------------------------------------------------------------------------
(* Every variable keeps its type, and the locals of startJudgings live only *)
(* as long as a dispatch.                                                   *)
THEOREM TypeCorrect == Spec => []TypeOK
<1>1. IInv => TypeOK BY DEF IInv
<1>. QED BY <1>1, Invariance, PTL

(* No two task threads share a JudgeConnection. *)
THEOREM ConnectionsAreExclusive == Spec => []ConnectionExclusive
<1>1. IInv => ConnectionExclusive BY DEF IInv
<1>. QED BY <1>1, Invariance, PTL

(* usedJudgeHosts never leaks a host and never forgets one. *)
THEOREM UsedHostsAreExact == Spec => []UsedIsExact
<1>1. IInv => UsedIsExact BY DEF IInv
<1>. QED BY <1>1, Invariance, PTL

(* A UnitTask has one owner, the queue or one thread. *)
THEOREM TasksAreOwnedOnce == Spec => []TaskOwnedOnce
<1>1. IInv => TaskOwnedOnce BY DEF IInv
<1>. QED BY <1>1, Invariance, PTL

(* The judge loop only goes back to waiting when nothing can be started. *)
THEOREM DispatchIsComplete == Spec => DispatchLeavesNothingRunnable
<1> DEFINE Complete ==
      loop = "dispatch" /\ loop' = "start" =>
        pendingTasks' = <<>> \/ allJudgeHosts' \subseteq usedJudgeHosts'
<1>1. ASSUME IInv, [Next]_vars, loop = "dispatch", loop' = "start"
      PROVE  pendingTasks' = <<>> \/ allJudgeHosts' \subseteq usedJudgeHosts'
  <2>1. master # "none"
        BY <1>1 DEF IInv, TypeOK
  <2>2. CASE EndDispatch
        BY <1>1, <2>2 DEF EndDispatch, LoopDone, IInv, FreeIsExact
  <2>3. ~ UNCHANGED vars
        BY <1>1 DEF vars
  <2>. QED
    BY <1>1, <2>1, <2>2, <2>3
    DEF Next, BeginConstruction, EndConstruction, UpdateJudgeHosts, ServeWithoutJudges,
        AddConnectedJudgeHost, AddTask, Wait, SpuriousWake, Wake, StartTask, InsertUsed,
        ReturnConnection, Restart, MutexFree
<1>2. IInv /\ [Next]_vars => [Complete]_vars
      BY <1>1
<1>. QED BY <1>2, Invariance, PTL DEF Spec, DispatchLeavesNothingRunnable

-----------------------------------------------------------------------------
(* Every step of the JudgeMaster is a step of the task pool or changes      *)
(* nothing the pool can see.                                                *)
LEMMA StepRefines == IInv /\ [Next]_vars => [TP!PoolNext]_TP!poolVars
<1> SUFFICES ASSUME IInv, [Next]_vars PROVE TP!PoolNext \/ UNCHANGED TP!poolVars
    OBVIOUS
<1>1. ASSUME NEW h \in Host, AddConnectedJudgeHost(h) PROVE TP!Connect(h)
      BY <1>1 DEF AddConnectedJudgeHost, TP!Connect
<1>2. ASSUME NEW t \in Task, AddTask(t) PROVE TP!Add(t)
      BY <1>2 DEF AddTask, PushBack, TP!Add
<1>3. CASE StartTask
  <2>1. PICK h \in freeHosts : running' = running \cup {<<Head(pendingTasks), h>>}
        BY <1>3 DEF StartTask
  <2>2. h \in Host /\ h \in allJudgeHosts /\ h \notin usedJudgeHosts
        BY <1>3 DEF StartTask, IInv, TypeOK, FreeIsExact
  <2>3. TP!Busy = usedJudgeHosts
        BY <1>3 DEF StartTask, IInv, UsedIsExact, TP!Busy
  <2>4. TP!Start(h)
        BY <1>3, <2>1, <2>2, <2>3 DEF StartTask, PopFront, TP!Start
  <2>. QED BY <2>2, <2>4 DEF TP!PoolNext
<1>4. ASSUME NEW t \in Task, NEW h \in Host, ReturnConnection(t, h) PROVE TP!Finish(t, h)
      BY <1>4 DEF ReturnConnection, TP!Finish
<1>5. CASE Restart
      BY <1>5 DEF Restart, TP!Restart, TP!PoolNext
<1>6. CASE UpdateJudgeHosts
      BY <1>6 DEF UpdateJudgeHosts, IInv, IdleBeforeServing, TP!poolVars
<1>7. CASE \/ BeginConstruction \/ EndConstruction \/ ServeWithoutJudges \/ Wait
           \/ SpuriousWake \/ Wake \/ InsertUsed \/ EndDispatch \/ UNCHANGED vars
      BY <1>7 DEF BeginConstruction, EndConstruction, ServeWithoutJudges, Wait, SpuriousWake,
                  Wake, InsertUsed, EndDispatch, vars, TP!poolVars
<1>. QED BY <1>1, <1>2, <1>3, <1>4, <1>5, <1>6, <1>7 DEF Next, TP!PoolNext

(* The JudgeMaster implements the task pool. *)
THEOREM JudgeMasterImplementsTaskPool == Spec => ImplementsTaskPool
<1>1. Init => TP!PoolInit
      BY DEF Init, TP!PoolInit
<1>. QED BY <1>1, Invariance, StepRefines, PTL DEF Spec, ImplementsTaskPool, TP!PoolSpec
=============================================================================
