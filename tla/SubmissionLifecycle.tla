------------------------ MODULE SubmissionLifecycle ------------------------
(***************************************************************************)
(* What the rest of the web server may rely on about the row of a          *)
(* submission: the order of its statuses, that a verdict is never taken    *)
(* back (a READY submission may only turn out to be an ERROR), and that    *)
(* the score shown with READY does not move.                               *)
(***************************************************************************)
EXTENDS Naturals

CONSTANT Sub        \* the submissions

VARIABLES
  status,           \* status[s]: "NONE" until the row of s is stored
  score

lifeVars == <<status, score>>

SubmissionStatus == {"PENDING", "JUDGING", "COMPILE_ERROR", "READY", "ERROR"}

LifeInit ==
  /\ status = [s \in Sub |-> "NONE"]
  /\ score = [s \in Sub |-> 0]

Move(s, old, new) ==
  /\ status[s] \in old
  /\ status' = [status EXCEPT ![s] = new]

OnlyScoreOf(s) == \A r \in Sub \ {s} : score'[r] = score[r]

Store(s) == Move(s, {"NONE"}, "PENDING") /\ UNCHANGED score
Begin(s) == Move(s, {"PENDING"}, "JUDGING") /\ UNCHANGED score
Reject(s) == Move(s, {"JUDGING"}, "COMPILE_ERROR") /\ UNCHANGED score

(* A test group is counted; the last one may complete the submission. *)
Count(s) ==
  /\ Move(s, {"JUDGING"}, "JUDGING") \/ Move(s, {"JUDGING"}, "READY")
  /\ score'[s] >= score[s]
  /\ OnlyScoreOf(s)

(* The score of a failed submission is not promised to mean anything. *)
Fail(s) ==
  /\ Move(s, {"JUDGING", "READY", "ERROR"}, "ERROR")
  /\ score'[s] \in Nat
  /\ OnlyScoreOf(s)

LifeNext == \E s \in Sub : Store(s) \/ Begin(s) \/ Reject(s) \/ Count(s) \/ Fail(s)

LifeSpec == LifeInit /\ [][LifeNext]_lifeVars
=============================================================================
