-------------------------- MODULE EvaluatorEditing --------------------------
(***************************************************************************)
(* The evaluator of one task: administrators who post the form of editTask *)
(* (web/main.cpp) and the CompileEvaluatorTasks they queue                 *)
(* (web/judging.cpp). Both load the whole row of the task, keep it across  *)
(* transactions and store it whole, so each may overwrite the other.       *)
(*                                                                         *)
(* A binary is named by the source it was compiled from. Every task comes  *)
(* from an import and has a source, which no form can take away. The       *)
(* import queues the compilation before its transaction is committed.      *)
(***************************************************************************)
EXTENDS Naturals, Sequences

CONSTANTS
  Source,       \* evaluator sources
  None,         \* no binary
  Request,      \* the POSTs of the form, and the request that imports the task
  Importer,     \* that request
  Host,         \* judge hosts
  Crashes       \* whether the web server may be restarted

ASSUME NoneAssumption == None \notin Source
ASSUME ImporterAssumption == Importer \in Request
ASSUME CrashesAssumption == Crashes \in BOOLEAN

VARIABLES
  queue, connected, running, added,   \* the task pool; a request names its compilation
  row,          \* what the database holds of the task's evaluator
  request,      \* request[e]: how far the handler of e is
  form,         \* form[e]: the Task object of that handler
  pc,           \* pc[e]: where the thread of the compilation is
  mem,          \* mem[e]: the Task object of that thread
  failed,       \* some compilation failed, or was lost
  import,       \* the transaction of the import
  early         \* a compilation began before that transaction was committed

poolVars == <<queue, connected, running, added>>
importVars == <<import, early>>
vars == <<poolVars, row, request, form, pc, mem, failed, importVars>>

Pool == INSTANCE TaskPool WITH Task <- Request

Row == [source : Source, binary : Source \cup {None}]

TypeOK ==
  /\ Pool!PoolTypeOK
  /\ row \in Row
  /\ request \in [Request -> {"new", "loaded", "stored", "done"}]
  /\ form \in [Request -> Row]
  /\ pc \in [Request -> {"idle", "load", "compile", "end"}]
  /\ mem \in [Request -> Row]
  /\ failed \in BOOLEAN
  /\ import \in {"open", "committed", "aborted"}
  /\ early \in BOOLEAN
  /\ \A e \in Request : pc[e] \in {"load", "compile"} => \E h \in Host : <<e, h>> \in running

(* The import has persisted the task with the default evaluator, in a       *)
(* transaction that is still open: only its own connection sees the row.    *)
Init ==
  /\ Pool!PoolInit
  /\ \E s \in Source : row = [source |-> s, binary |-> None]
  /\ request = [e \in Request |-> IF e = Importer THEN "stored" ELSE "new"]
  /\ form = [e \in Request |-> row]
  /\ pc = [e \in Request |-> "idle"]
  /\ mem = [e \in Request |-> row]
  /\ failed = FALSE
  /\ import = "open"
  /\ early = FALSE

-----------------------------------------------------------------------------
Goto(e, place) == pc' = [pc EXCEPT ![e] = place]
Proceed(e, place) == request' = [request EXCEPT ![e] = place]

(* editTask: getByStringOrFail. *)
LoadForm(e) ==
  /\ import = "committed"
  /\ request[e] = "new"
  /\ form' = [form EXCEPT ![e] = row]
  /\ Proceed(e, "loaded")
  /\ UNCHANGED <<poolVars, row, pc, mem, failed, importVars>>

(* readForm and db::update: a new source was uploaded, or none.             *)
StoreForm(e) ==
  /\ request[e] = "loaded"
  /\ \E s \in Source : row' = [form[e] EXCEPT !.source = s]
  /\ Proceed(e, "stored")
  /\ UNCHANGED <<poolVars, form, pc, mem, failed, importVars>>

(* Mutant: a form is only compiled when the task has no binary yet.         *)
QueueCompilation_Once(e) ==
  /\ request[e] = "stored"
  /\ Proceed(e, "done")
  /\ IF row.binary = None THEN Pool!Add(e) ELSE UNCHANGED poolVars
  /\ UNCHANGED <<row, form, pc, mem, failed, importVars>>

(* compileEvaluator, whether or not the source is another one. The import   *)
(* calls it with its transaction open.                                      *)
QueueCompilation(e) ==
  /\ request[e] = "stored"
  /\ Proceed(e, "done")
  /\ Pool!Add(e)
  /\ UNCHANGED <<row, form, pc, mem, failed, importVars>>

(* import(): t.commit(), after the compilations of all tasks were queued.   *)
Commit ==
  /\ import = "open"
  /\ request[Importer] = "done"
  /\ import' = "committed"
  /\ UNCHANGED <<poolVars, row, request, form, pc, mem, failed, early>>

(* Something of the import is not valid (the points of a later group, a     *)
(* name in use): nothing of it is stored, but what was queued stays queued. *)
Abort ==
  /\ import = "open"
  /\ import' = "aborted"
  /\ Proceed(Importer, "done")
  /\ UNCHANGED <<poolVars, row, form, pc, mem, failed, early>>

(* The task pool. *)
Connect(h) ==
  /\ h \notin connected
  /\ Pool!Connect(h)
  /\ UNCHANGED <<row, request, form, pc, mem, failed, importVars>>

Start(h) ==
  /\ Pool!Start(h)
  /\ Goto(Head(queue), "load")
  /\ UNCHANGED <<row, request, form, mem, failed, importVars>>

(* Mutant: the connection is returned before the compilation is over.       *)
Finish_Early(e, h) ==
  /\ pc[e] # "load"
  /\ Pool!Finish(e, h)
  /\ UNCHANGED <<row, request, form, pc, mem, failed, importVars>>

Finish(e, h) ==
  /\ pc[e] = "end"
  /\ Pool!Finish(e, h)
  /\ UNCHANGED <<row, request, form, pc, mem, failed, importVars>>

(* CompileEvaluatorTask::run *)
Load(e) ==
  /\ pc[e] = "load"
  /\ import = "committed"
  /\ mem' = [mem EXCEPT ![e] = row]
  /\ Goto(e, "compile")
  /\ UNCHANGED <<poolVars, row, request, form, failed, importVars>>

(* No other connection sees the row yet, or ever: db::load throws. *)
LoadFails(e) ==
  /\ pc[e] = "load"
  /\ import # "committed"
  /\ early' = TRUE
  /\ Goto(e, "end")
  /\ UNCHANGED <<poolVars, row, request, form, mem, failed, import>>

(* Mutant: only the binary is stored. *)
Compiled_BinaryOnly(e) ==
  /\ pc[e] = "compile"
  /\ row' = [row EXCEPT !.binary = mem[e].source]
  /\ Goto(e, "end")
  /\ UNCHANGED <<poolVars, request, form, mem, failed, importVars>>

(* compileProgram: the object that was loaded before the compiler ran gets  *)
(* the binary and is stored whole.                                          *)
Compiled(e) ==
  /\ pc[e] = "compile"
  /\ row' = [mem[e] EXCEPT !.binary = mem[e].source]
  /\ Goto(e, "end")
  /\ UNCHANGED <<poolVars, request, form, mem, failed, importVars>>

(* No binary: the message of the compiler is stored, with the rest of the   *)
(* object; or there is no message either; or runOnJudge throws.             *)
NotCompiled(e) ==
  /\ pc[e] = "compile"
  /\ row' \in {mem[e], row}
  /\ failed' = TRUE
  /\ Goto(e, "end")
  /\ UNCHANGED <<poolVars, request, form, mem, importVars>>

(* The web server restarts. *)
Crash ==
  /\ Crashes
  /\ Pool!Restart
  /\ request' = [e \in Request |-> IF request[e] = "new" THEN "new" ELSE "done"]
  /\ pc' = [e \in Request |-> IF pc[e] = "idle" THEN "idle" ELSE "end"]
  /\ failed' = TRUE
  /\ import' = IF import = "open" THEN "aborted" ELSE import
  /\ UNCHANGED <<row, form, mem, early>>

-----------------------------------------------------------------------------
Handle(e) == LoadForm(e) \/ StoreForm(e) \/ QueueCompilation(e)
Compile(e) == Load(e) \/ LoadFails(e) \/ Compiled(e) \/ NotCompiled(e)

Next ==
  \/ \E e \in Request : Handle(e) \/ Compile(e)
  \/ \E h \in Host : Connect(h) \/ Start(h)
  \/ \E e \in Request, h \in Host : Finish(e, h)
  \/ Commit \/ Abort
  \/ Crash

Spec == Init /\ [][Next]_vars

(* Handlers and threads run to their end (an import may abort). Nobody has  *)
(* to post a form, and nothing is assumed of the pool: the judge loop may   *)
(* miss that a task was queued, and hosts need not connect.                 *)
Fairness ==
  /\ \A e \in Request :
       WF_vars(StoreForm(e)) /\ WF_vars(QueueCompilation(e)) /\ WF_vars(Compile(e))
  /\ \A e \in Request, h \in Host : WF_vars(Finish(e, h))
  /\ WF_vars(Commit \/ Abort)

FairSpec == Spec /\ Fairness

-----------------------------------------------------------------------------
(* Properties *)

Queued(e) == \E i \in 1..Len(queue) : queue[i] = e

(* A compilation of e is still to store its result. *)
Pending(e) == request[e] = "stored" \/ Queued(e) \/ pc[e] \in {"load", "compile"}

(* The import's compilation found no task, and nobody has posted the form   *)
(* since.                                                                   *)
MissedImport ==
  early /\ \A e \in Request \ {Importer} : request[e] \in {"new", "loaded"}

(* A binary that was not compiled from the source beside it does not stay:  *)
(* a compilation is on its way that will store a source with its binary,    *)
(* however forms and compilations overwrite each other's rows. There is one *)
(* exception without any failure: the compilation that the import queued    *)
(* began before the import was committed.                                   *)
StaleMeansPending ==
  import = "committed" /\ ~failed /\ row.binary # row.source =>
    MissedImport \/ \E e \in Request : Pending(e)

(* What the judge loop achieves when events keep waking it and judges are   *)
(* connected (StartsWhenWoken in JudgeMaster), and not otherwise: no        *)
(* compilation is left in the queue for ever.                               *)
NoTaskStaysQueued == \A e \in Request : []<>~Queued(e)

(* If the judge loop does not leave a compilation in the queue, the         *)
(* evaluator that judges submissions is in the end the one of the task,     *)
(* however edits and compilations overlapped; an import that was compiled   *)
(* too early is repaired by posting the form.                               *)
EvaluatorSettles ==
  NoTaskStaysQueued /\ [](~failed /\ import # "aborted") =>
    <>[](row.binary = row.source \/ MissedImport)
=============================================================================
