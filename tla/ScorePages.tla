----------------------------- MODULE ScorePages -----------------------------
(***************************************************************************)
(* The list of submissions and the score board (web/main.cpp): what they   *)
(* show while submissions arrive and are judged. submit takes the time     *)
(* before it stores the row, so ids and times need not agree, and a clock  *)
(* that counts seconds gives the same time to several.                     *)
(***************************************************************************)
EXTENDS Naturals, Sequences, FiniteSets, FiniteSetsExt

CONSTANTS
  Contestant, Task,
  Post,         \* the POSTs of the form of submit
  Groups,       \* how many test groups a task has
  Gains,        \* points a test group may give
  LastSecond    \* bound: the clock stops there

(* A task has a group: import() makes one when the package declares none.   *)
ASSUME GroupsAssumption == Groups \in Nat \ {0}
ASSUME GainsAssumption == Gains \subseteq Nat

VARIABLES
  clock,
  post,         \* post[p]: the handler of p
  submissions   \* the rows; the id of a row is its place

pageVars == <<clock, post, submissions>>

PagesInit ==
  /\ clock = 0
  /\ post = [p \in Post |-> [at |-> "new"]]
  /\ submissions = <<>>

-----------------------------------------------------------------------------
Tick ==
  /\ clock < LastSecond
  /\ clock' = clock + 1
  /\ UNCHANGED <<post, submissions>>

(* submit: currentTime, then persist in a transaction. *)
TakeTime(p, u, t) ==
  /\ post[p].at = "new"
  /\ post' = [post EXCEPT ![p] = [at |-> "timed", user |-> u, task |-> t, time |-> clock]]
  /\ UNCHANGED <<clock, submissions>>

Submit(p) ==
  /\ post[p].at = "timed"
  /\ submissions' = Append(submissions,
       [user |-> post[p].user, task |-> post[p].task, time |-> post[p].time,
        status |-> "PENDING", score |-> 0, todo |-> Groups])
  /\ post' = [post EXCEPT ![p] = [at |-> "done"]]
  /\ UNCHANGED clock

(* What judging does to a row (Judging has the threads that do it); todo is *)
(* how many test groups are not counted yet.                                *)
StartJudging(i) ==
  /\ submissions[i].status = "PENDING"
  /\ submissions' = [submissions EXCEPT ![i].status = "JUDGING"]

(* The compilation fails or leaves no binary: no group is started.          *)
NoBinary(i) ==
  /\ submissions[i].status = "JUDGING" /\ submissions[i].todo = Groups
  /\ \E s \in {"COMPILE_ERROR", "ERROR"} : submissions' = [submissions EXCEPT ![i].status = s]

(* Groups that have been started go on after another of them has failed.    *)
Counting(i) ==
  \/ submissions[i].status = "JUDGING" /\ submissions[i].todo > 0
  \/ submissions[i].status = "ERROR" /\ submissions[i].todo \in 1..(Groups - 1)

(* ~SubmissionUpdate *)
CountGroup(i) ==
  /\ Counting(i)
  /\ \E g \in {0} \cup Gains :
       LET row == submissions[i]
       IN  submissions' = [submissions EXCEPT ![i] =
             [row EXCEPT !.score = row.score + g, !.todo = row.todo - 1,
                         !.status = IF row.status = "JUDGING" /\ row.todo = 1
                                    THEN "READY" ELSE row.status]]

(* The catch of RunTestGroup::run: the row as this group has counted itself *)
(* in it, with an older score if others have since done so.                 *)
GroupFails(i) ==
  /\ submissions[i].status \in {"JUDGING", "READY", "ERROR"} /\ submissions[i].todo < Groups
  /\ \E older \in 0..submissions[i].score :
       submissions' = [submissions EXCEPT ![i].status = "ERROR", ![i].score = older]

Judge(i) ==
  /\ StartJudging(i) \/ NoBinary(i) \/ CountGroup(i) \/ GroupFails(i)
  /\ UNCHANGED <<clock, post>>

PagesNext ==
  \/ Tick
  \/ \E p \in Post : Submit(p) \/ \E u \in Contestant, t \in Task : TakeTime(p, u, t)
  \/ \E i \in DOMAIN submissions : Judge(i)

PagesSpec == PagesInit /\ [][PagesNext]_pageVars

-----------------------------------------------------------------------------
Of(u, t) == {i \in DOMAIN submissions : submissions[i].user = u /\ submissions[i].task = t}

(* Mutant: a list in the order of ids. *)
ListedFirst_ById(i, j) == i > j

(* listSubmissions: the order of the tuples (-time, id, ...). *)
ListedFirst(i, j) ==
  \/ submissions[i].time > submissions[j].time
  \/ submissions[i].time = submissions[j].time /\ i <= j

Top(u, t) == {i \in Of(u, t) : \A j \in Of(u, t) \ {i} : ListedFirst(i, j)}

(* scoreBoard: rows come in the order of their times, each overwriting the  *)
(* one before; the database chooses among equal times.                      *)
Newest(u, t) == {i \in Of(u, t) : \A j \in Of(u, t) : submissions[j].time <= submissions[i].time}

(* A cell has the score of the row, whatever its status; a user's total is  *)
(* the sum of the cells.                                                    *)
Boards(u) ==
  {cells \in [Task -> 0..Len(submissions)] :
     \A t \in Task : IF Of(u, t) = {} THEN cells[t] = 0 ELSE cells[t] \in Newest(u, t)}
Total(cells) == MapThenSumSet(LAMBDA t : IF cells[t] = 0 THEN 0 ELSE submissions[cells[t]].score, Task)

(* listSubmissions has a number only for a submission that is READY: one in *)
(* ERROR is listed as "WTF", and the others as a word, too.                 *)
Listed(i) == IF submissions[i].status = "READY" THEN submissions[i].score ELSE 0

(* Properties *)

(* The score board counts what the list of submissions does not show, the   *)
(* points of a row in JUDGING or in ERROR. Unless one of a user's newest    *)
(* submissions is such a row, or two to a task carry the same second, the   *)
(* total is the sum of the numbers on top of the user's list, in whatever   *)
(* order the rows were stored and judged.                                   *)
BoardAgreesWithList ==
  \A u \in Contestant :
    (\A t \in Task : /\ Cardinality(Newest(u, t)) <= 1
                     /\ \A i \in Newest(u, t) : submissions[i].status \notin {"JUDGING", "ERROR"}) =>
      \A cells \in Boards(u) :
        Total(cells) = MapThenSumSet(LAMBDA t : MapThenSumSet(LAMBDA i : Listed(i), Top(u, t)), Task)
=============================================================================
