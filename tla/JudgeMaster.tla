---------------------------- MODULE JudgeMaster ----------------------------
(***************************************************************************)
(* The scheduler of web/judging.cpp: class JudgeMaster, the part of        *)
(* UnitTask::execute that takes and gives back a connection, and the calls *)
(* main() makes before it serves requests.                                 *)
(*                                                                         *)
(* JudgeMaster::mutex is held over several steps by the judge loop only,   *)
(* while it dispatches; every other critical section is one step, enabled  *)
(* when the mutex is free.                                                 *)
(***************************************************************************)
EXTENDS Naturals, Sequences, FiniteSets

CONSTANTS
  Task,            \* the UnitTask objects the web server ever creates
  Host             \* the rows of JudgeHost, numbered as JudgeConnection::operator< orders them

ASSUME HostAssumption == Host \subseteq Nat

VARIABLES
  main,            \* main(): "starting" before srv.run(), then "serving"
  master,          \* JudgeMaster::instance(): "none", "building" (constructor running), "built"
  loop,            \* the judge loop thread
  freeHosts,       \* startJudgings(): local vector
  picked,          \* startJudgings(): the host taken and not yet inserted in usedJudgeHosts
  pendingTasks,
  allJudgeHosts,
  usedJudgeHosts,
  connecting,      \* hosts with a running connectToJudgeHostLoop thread
  running,         \* pairs <<task, host>>: the detached UnitTask::execute threads
  added            \* tasks ever passed to addTask

vars == <<main, master, loop, freeHosts, picked, pendingTasks, allJudgeHosts,
          usedJudgeHosts, connecting, running, added>>

(* "start": about to take the mutex; "waiting": in condition.wait;          *)
(* "woken": notified, must take the mutex again; "dispatch": in             *)
(* startJudgings with the mutex held; "deaf": in condition.wait on a        *)
(* condition variable that was constructed after the wait began.            *)
LoopState == {"none", "start", "waiting", "woken", "dispatch", "deaf"}

TypeOK ==
  /\ main \in {"starting", "serving"}
  /\ master \in {"none", "building", "built"}
  /\ loop \in LoopState
  /\ freeHosts \subseteq Host
  /\ picked \subseteq Host
  /\ pendingTasks \in Seq(Task)
  /\ allJudgeHosts \subseteq Host
  /\ usedJudgeHosts \subseteq Host
  /\ connecting \subseteq Host
  /\ running \subseteq Task \X Host
  /\ added \subseteq Task
  /\ \A h, k \in picked : h = k
  /\ loop = "none" <=> master = "none"
  /\ loop # "dispatch" => freeHosts = {} /\ picked = {}

-----------------------------------------------------------------------------
(* The process starts with no JudgeMaster and no thread. *)
Init ==
  /\ main = "starting"
  /\ master = "none"
  /\ loop = "none"
  /\ freeHosts = {}
  /\ picked = {}
  /\ pendingTasks = <<>>
  /\ allJudgeHosts = {}
  /\ usedJudgeHosts = {}
  /\ connecting = {}
  /\ running = {}
  /\ added = {}

MutexFree == loop # "dispatch"

(* condition.notify_one(): only a thread that is waiting now is woken. *)
NotifyOne == loop' = IF loop = "waiting" THEN "woken" ELSE loop

(* Mutants: a task pushed at the wrong end, one that is not popped, a       *)
(* connection that stays used, used connections offered as free, and "if"   *)
(* for "while" in startJudgings.                                            *)
PushBack_Front(t) == <<t>> \o pendingTasks
PopFront_None == pendingTasks
Erase_None(h) == usedJudgeHosts
FreeHosts_All == allJudgeHosts
LoopDone_OneTask == TRUE

(* The deque of tasks and the set of used connections. *)
PushBack(t) == Append(pendingTasks, t)
PopFront == Tail(pendingTasks)
Erase(h) == usedJudgeHosts \ {h}

(* startJudgings(): the connections to start tasks on, and the end of the   *)
(* while loop that does so.                                                 *)
FreeHosts == allJudgeHosts \ usedJudgeHosts
LoopDone == freeHosts = {} \/ pendingTasks = <<>>

(* JudgeMaster(): mainThread is the first member, so the judge loop runs    *)
(* while the mutex and the condition variable are still to be constructed.  *)
BeginConstruction ==
  /\ master = "none"
  /\ master' = "building"
  /\ loop' = "start"
  /\ UNCHANGED <<main, freeHosts, picked, pendingTasks, allJudgeHosts,
                 usedJudgeHosts, connecting, running, added>>

(* The rest of the constructor. A loop that is already waiting is forgotten *)
(* by the condition variable that is now initialised under it.              *)
EndConstruction ==
  /\ master = "building"
  /\ master' = "built"
  /\ loop' = IF loop = "waiting" THEN "deaf" ELSE loop
  /\ UNCHANGED <<main, freeHosts, picked, pendingTasks, allJudgeHosts,
                 usedJudgeHosts, connecting, running, added>>

(* main() with -c: updateJudgeHosts() starts a connection thread per row.   *)
UpdateJudgeHosts ==
  /\ main = "starting"
  /\ master = "built"
  /\ MutexFree
  /\ main' = "serving"
  /\ allJudgeHosts' = {}
  /\ connecting' = Host
  /\ NotifyOne
  /\ UNCHANGED <<master, freeHosts, picked, pendingTasks, usedJudgeHosts,
                 running, added>>

(* main() without -c: no host is ever connected, and the first task that a  *)
(* request handler adds constructs the JudgeMaster.                         *)
ServeWithoutJudges ==
  /\ main = "starting"
  /\ master = "none"
  /\ main' = "serving"
  /\ UNCHANGED <<master, loop, freeHosts, picked, pendingTasks, allJudgeHosts,
                 usedJudgeHosts, connecting, running, added>>

(* connectToJudgeHostLoop succeeds: addConnectedJudgeHost. A failed attempt *)
(* sleeps and tries again, which changes nothing.                           *)
AddConnectedJudgeHost(h) ==
  /\ h \in connecting
  /\ MutexFree
  /\ allJudgeHosts' = allJudgeHosts \cup {h}
  /\ connecting' = connecting \ {h}
  /\ NotifyOne
  /\ UNCHANGED <<main, master, freeHosts, picked, pendingTasks,
                 usedJudgeHosts, running, added>>

(* addTask, called by a request handler or by a running task. *)
AddTask(t) ==
  /\ main = "serving"
  /\ master = "built"
  /\ t \notin added
  /\ MutexFree
  /\ pendingTasks' = PushBack(t)
  /\ added' = added \cup {t}
  /\ NotifyOne
  /\ UNCHANGED <<main, master, freeHosts, picked, allJudgeHosts,
                 usedJudgeHosts, connecting, running>>

-----------------------------------------------------------------------------
(* judgeLoop: one iteration is Wait, Wake, StartTask and InsertUsed as      *)
(* often as startJudgings loops, then EndDispatch.                          *)

(* getLock and condition.wait, which releases the mutex. *)
Wait ==
  /\ loop = "start"
  /\ loop' = "waiting"
  /\ UNCHANGED <<main, master, freeHosts, picked, pendingTasks, allJudgeHosts,
                 usedJudgeHosts, connecting, running, added>>

(* A condition variable may wake a waiter that nobody notified. *)
SpuriousWake ==
  /\ loop = "waiting"
  /\ master = "built"
  /\ loop' = "woken"
  /\ UNCHANGED <<main, master, freeHosts, picked, pendingTasks, allJudgeHosts,
                 usedJudgeHosts, connecting, running, added>>

(* The mutex is taken again and startJudgings computes the free hosts. *)
Wake ==
  /\ loop = "woken"
  /\ loop' = "dispatch"
  /\ freeHosts' = FreeHosts
  /\ UNCHANGED <<main, master, picked, pendingTasks, allJudgeHosts,
                 usedJudgeHosts, connecting, running, added>>

(* The oldest task gets a thread and the free host that is last in the order *)
StartTask ==
  /\ loop = "dispatch"
  /\ picked = {}
  /\ pendingTasks # <<>>
  /\ \E h \in freeHosts :
       /\ \A k \in freeHosts : k <= h
       /\ picked' = {h}
       /\ freeHosts' = freeHosts \ {h}
       /\ running' = running \cup {<<Head(pendingTasks), h>>}
  /\ pendingTasks' = PopFront
  /\ UNCHANGED <<main, master, loop, allJudgeHosts, usedJudgeHosts,
                 connecting, added>>

(* usedJudgeHosts.insert(host), after the thread was started. *)
InsertUsed ==
  /\ loop = "dispatch"
  /\ picked # {}
  /\ usedJudgeHosts' = usedJudgeHosts \cup picked
  /\ picked' = {}
  /\ UNCHANGED <<main, master, loop, freeHosts, pendingTasks, allJudgeHosts,
                 connecting, running, added>>

(* Mutant: the free hosts outlive the dispatch that computed them. *)
EndDispatch_KeepsFree ==
  /\ loop = "dispatch"
  /\ picked = {}
  /\ LoopDone
  /\ loop' = "start"
  /\ UNCHANGED <<main, master, freeHosts, picked, pendingTasks, allJudgeHosts,
                 usedJudgeHosts, connecting, running, added>>

(* The while loop of startJudgings ends and the mutex is released. *)
EndDispatch ==
  /\ loop = "dispatch"
  /\ picked = {}
  /\ LoopDone
  /\ loop' = "start"
  /\ freeHosts' = {}
  /\ UNCHANGED <<main, master, picked, pendingTasks, allJudgeHosts,
                 usedJudgeHosts, connecting, running, added>>

(* execute(): run() has returned or thrown, and ~ReturnConnection gives the *)
(* connection back whatever happened.                                       *)
ReturnConnection(t, h) ==
  /\ <<t, h>> \in running
  /\ MutexFree
  /\ running' = running \ {<<t, h>>}
  /\ usedJudgeHosts' = Erase(h)
  /\ NotifyOne
  /\ UNCHANGED <<main, master, freeHosts, picked, pendingTasks,
                 allJudgeHosts, connecting, added>>

(* The process dies at any point and is started again. *)
Restart ==
  /\ main' = "starting"
  /\ master' = "none"
  /\ loop' = "none"
  /\ freeHosts' = {}
  /\ picked' = {}
  /\ pendingTasks' = <<>>
  /\ allJudgeHosts' = {}
  /\ usedJudgeHosts' = {}
  /\ connecting' = {}
  /\ running' = {}
  /\ UNCHANGED added

Next ==
  \/ BeginConstruction
  \/ EndConstruction
  \/ UpdateJudgeHosts
  \/ ServeWithoutJudges
  \/ \E h \in Host : AddConnectedJudgeHost(h)
  \/ \E t \in Task : AddTask(t)
  \/ Wait
  \/ SpuriousWake
  \/ Wake
  \/ StartTask
  \/ InsertUsed
  \/ EndDispatch
  \/ \E t \in Task, h \in Host : ReturnConnection(t, h)
  \/ Restart

Spec == Init /\ [][Next]_vars

(* The operating system runs every ready thread, and a judge answers every  *)
(* call made to it: the sandbox it runs is killed at its time limit. A      *)
(* thread that returns its connection competes for the mutex with the judge *)
(* loop, which lets go of it in every iteration, and gets it in the end.    *)
(* Nothing is assumed of clients, of hosts being reachable, of spurious     *)
(* wake-ups or of restarts.                                                 *)
Fairness ==
  /\ WF_vars(EndConstruction)
  /\ WF_vars(Wait)
  /\ WF_vars(Wake)
  /\ WF_vars(StartTask)
  /\ WF_vars(InsertUsed)
  /\ WF_vars(EndDispatch)
  /\ \A t \in Task, h \in Host : SF_vars(ReturnConnection(t, h))

FairSpec == Spec /\ Fairness

-----------------------------------------------------------------------------
(* Properties *)

TP == INSTANCE TaskPool WITH queue <- pendingTasks, connected <- allJudgeHosts

(* The JudgeMaster implements the task pool: tasks start oldest first, once *)
(* each, on a connected host no other task is using, whatever the           *)
(* interleaving of dispatch, returned connections, new hosts and restarts.  *)
ImplementsTaskPool == TP!PoolSpec

(* No two task threads ever share a JudgeConnection: its Thrift client is   *)
(* not usable from two threads, and each thread calls it without a lock.    *)
ConnectionExclusive ==
  \A p, q \in running : p[2] = q[2] => p = q

(* usedJudgeHosts is exactly the hosts that threads hold, up to the one     *)
(* whose thread is started and not yet inserted: an insert that ran after   *)
(* the thread's returnConnection would leak the host for ever.              *)
UsedIsExact ==
  /\ {p[2] : p \in running} = usedJudgeHosts \cup picked
  /\ usedJudgeHosts \cap picked = {}

(* execute() deletes its task, so a UnitTask must be owned once: it is in   *)
(* the queue once, or held by one thread, and never both.                   *)
TaskOwnedOnce ==
  /\ \A i, j \in 1..Len(pendingTasks) :
       pendingTasks[i] = pendingTasks[j] => i = j
  /\ \A p, q \in running : p[1] = q[1] => p = q
  /\ \A p \in running, i \in 1..Len(pendingTasks) : pendingTasks[i] # p[1]

(* When the judge loop goes back to waiting it leaves no task queued while  *)
(* a connected host is unused: until the next event there is nothing to do. *)
DispatchLeavesNothingRunnable ==
  [][loop = "dispatch" /\ loop' = "start" =>
       pendingTasks' = <<>> \/ allJudgeHosts' \subseteq usedJudgeHosts']_vars

Queued(t) == \E i \in 1..Len(pendingTasks) : pendingTasks[i] = t

(* As long as events keep finding the loop waiting (it is woken again and   *)
(* again) and judges are connected, every queued task leaves the queue.     *)
StartsWhenWoken ==
  []<>(loop = "woken") =>
    \A t \in Task : Queued(t) /\ allJudgeHosts # {} ~> ~Queued(t)

(* What judgeLoop is for: a task queued while judges are connected is       *)
(* started without any further event, when the constructor's race did not   *)
(* already make the loop deaf. It does not hold: a notification that finds  *)
(* the loop between two waits is lost.                                      *)
NoLostWakeup ==
  [](loop # "deaf") =>
    \A t \in Task : Queued(t) /\ allJudgeHosts # {} ~> ~Queued(t)
=============================================================================
