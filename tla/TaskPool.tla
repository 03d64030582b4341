------------------------------ MODULE TaskPool ------------------------------
(***************************************************************************)
(* What the judge master promises to the rest of the web server, without   *)
(* its mutex, its condition variable and its set of used connections:      *)
(* tasks are started in the order they were added, each at most once and   *)
(* each on a connected judge host that no other task is using.             *)
(*                                                                         *)
(* JudgeMaster is shown to implement this module, and Judging is built on  *)
(* top of it.                                                              *)
(***************************************************************************)
EXTENDS Sequences

CONSTANTS
  Task,       \* the UnitTask objects the web server ever creates
  Host        \* the rows of JudgeHost

VARIABLES
  queue,      \* tasks added and not started, oldest first
  connected,  \* hosts with an open connection
  running,    \* pairs <<task, host>>: task threads and the connections they use
  added       \* every task ever added

poolVars == <<queue, connected, running, added>>

PoolTypeOK ==
  /\ queue \in Seq(Task)
  /\ connected \subseteq Host
  /\ running \subseteq Task \X Host
  /\ added \subseteq Task

PoolInit ==
  /\ queue = <<>>
  /\ connected = {}
  /\ running = {}
  /\ added = {}

(* The hosts whose connection is in use. *)
Busy == {p[2] : p \in running}

Add(t) ==
  /\ t \notin added
  /\ queue' = Append(queue, t)
  /\ added' = added \cup {t}
  /\ UNCHANGED <<connected, running>>

Connect(h) ==
  /\ connected' = connected \cup {h}
  /\ UNCHANGED <<queue, running, added>>

(* The oldest task starts on a connected host that is not busy. *)
Start(h) ==
  /\ queue # <<>>
  /\ h \in connected \ Busy
  /\ running' = running \cup {<<Head(queue), h>>}
  /\ queue' = Tail(queue)
  /\ UNCHANGED <<connected, added>>

Finish(t, h) ==
  /\ <<t, h>> \in running
  /\ running' = running \ {<<t, h>>}
  /\ UNCHANGED <<queue, connected, added>>

(* The web server dies and is started again: nothing of the pool is stored. *)
Restart ==
  /\ queue' = <<>>
  /\ connected' = {}
  /\ running' = {}
  /\ UNCHANGED added

PoolNext ==
  \/ \E t \in Task : Add(t)
  \/ \E h \in Host : Connect(h) \/ Start(h)
  \/ \E t \in Task, h \in Host : Finish(t, h)
  \/ Restart

PoolSpec == PoolInit /\ [][PoolNext]_poolVars
=============================================================================
