------------------------------ MODULE Transfer ------------------------------
(***************************************************************************)
(* JudgeConnection::runOnJudge of web/judging.cpp against the handlers of  *)
(* judge/Judge.cpp: the inputs a judge does not have are sent, the program *)
(* is run, and the outputs the web server does not have are fetched.       *)
(*                                                                         *)
(* The two kinds of store are sets of contents: FileStore implements a     *)
(* store that only grows. A connection is used by one call at a time       *)
(* (ConnectionExclusive of JudgeMaster), but several rows of JudgeHost may *)
(* name one judge process.                                                 *)
(***************************************************************************)
EXTENDS Naturals, FiniteSets

CONSTANTS
  Content,         \* contents, which stand for their hashes
  NoFile,          \* the hash "" of a MaybeFile that holds no file
  Docker,          \* in place of a runner: the sandbox is a Docker image
  Host,            \* rows of JudgeHost
  Judge,           \* judge processes
  JudgeOf,         \* JudgeOf[h]: the process that row h names
  MaxInputs,       \* bounds on the files of one run
  MaxOutputs

ASSUME NoFileAssumption == NoFile \notin Content /\ Docker \notin Content \cup {NoFile}
ASSUME JudgeAssumption == JudgeOf \in [Host -> Judge]

VARIABLES
  web,             \* the contents in the web server's store
  store,           \* store[j]: the contents in the store of judge j
  uploaded,        \* files of submitted forms, saved and not yet in a row
  rows,            \* the hashes in the rows of the database
  socket,          \* socket[h]: "none", "open" or "broken"
  pc,              \* pc[h]: where the call on connection h is
  runner,          \* runner[h]: what makeSandbox is to find
  inputs,          \* inputs[h]: files of the run so far, the runner's included
  todo,            \* todo[h]: hashes the current loop has yet to deal with
  cur,             \* cur[h]: the one that was found missing, or NoFile
  outputs          \* outputs[h]: the outputs of the run

callVars == <<pc, runner, inputs, todo, cur, outputs>>
vars == <<web, store, uploaded, rows, socket, callVars>>

(* "inputs" and "runner": hasFile and sendFile; "run": the judge is running *)
(* the program; "fetch": the loop over result.outputs; "returned": the      *)
(* caller has the result.                                                   *)
Place == {"idle", "inputs", "runner", "run", "fetch", "returned"}

TypeOK ==
  /\ web \subseteq Content
  /\ store \in [Judge -> SUBSET Content]
  /\ uploaded \subseteq Content
  /\ rows \subseteq Content \cup {NoFile}
  /\ socket \in [Host -> {"none", "open", "broken"}]
  /\ pc \in [Host -> Place]
  /\ runner \in [Host -> Content \cup {NoFile, Docker}]
  /\ inputs \in [Host -> SUBSET (Content \cup {NoFile})]
  /\ todo \in [Host -> SUBSET (Content \cup {NoFile})]
  /\ cur \in [Host -> Content \cup {NoFile}]
  /\ outputs \in [Host -> SUBSET Content]
  /\ \A h \in Host : cur[h] # NoFile => cur[h] \in todo[h]

(* Nothing is stored; a MaybeFile of a row may hold no file.                *)
Init ==
  /\ web = {}
  /\ store = [j \in Judge |-> {}]
  /\ uploaded = {}
  /\ rows = {NoFile}
  /\ socket = [h \in Host |-> "none"]
  /\ pc = [h \in Host |-> "idle"]
  /\ runner = [h \in Host |-> NoFile]
  /\ inputs = [h \in Host |-> {}]
  /\ todo = [h \in Host |-> {}]
  /\ cur = [h \in Host |-> NoFile]
  /\ outputs = [h \in Host |-> {}]

-----------------------------------------------------------------------------
Goto(h, place) == pc' = [pc EXCEPT ![h] = place]

(* The locals of the call are gone, whether it returned or threw. *)
EndCall(h) ==
  /\ Goto(h, "idle")
  /\ runner' = [runner EXCEPT ![h] = NoFile]
  /\ inputs' = [inputs EXCEPT ![h] = {}]
  /\ todo' = [todo EXCEPT ![h] = {}]
  /\ cur' = [cur EXCEPT ![h] = NoFile]
  /\ outputs' = [outputs EXCEPT ![h] = {}]

(* FileUploadProvider, submit and the import save a file first ... *)
Upload(c) ==
  /\ c \notin uploaded
  /\ web' = web \cup {c}
  /\ uploaded' = uploaded \cup {c}
  /\ UNCHANGED <<store, rows, socket, callVars>>

(* ... and the handler stores a row with its hash afterwards. *)
SaveRow(c) ==
  /\ c \in uploaded
  /\ uploaded' = uploaded \ {c}
  /\ rows' = rows \cup {c}
  /\ UNCHANGED <<web, store, socket, callVars>>

(* JudgeConnection(): the only place where a connection is opened. *)
Connect(h) ==
  /\ socket[h] = "none"
  /\ socket' = [socket EXCEPT ![h] = "open"]
  /\ UNCHANGED <<web, store, uploaded, rows, callVars>>

(* A task calls runOnJudge with hashes from rows: MaybeFile may hold "".    *)
Call(h, files, sandbox) ==
  /\ pc[h] = "idle"
  /\ socket[h] # "none"
  /\ Goto(h, "inputs")
  /\ runner' = [runner EXCEPT ![h] = sandbox]
  /\ inputs' = [inputs EXCEPT ![h] = files]
  /\ todo' = [todo EXCEPT ![h] = files]
  /\ UNCHANGED <<web, store, uploaded, rows, socket, cur, outputs>>

(* hasFile: the answer is about the judge's store at this moment. *)
HasFile(h, c) ==
  /\ pc[h] \in {"inputs", "runner"}
  /\ socket[h] = "open"
  /\ cur[h] = NoFile
  /\ c \in todo[h] \ {NoFile}
  /\ IF c \in store[JudgeOf[h]]
       THEN todo' = [todo EXCEPT ![h] = @ \ {c}] /\ UNCHANGED cur
       ELSE cur' = [cur EXCEPT ![h] = c] /\ UNCHANGED todo
  /\ UNCHANGED <<web, store, uploaded, rows, socket, pc, runner, inputs, outputs>>

(* Mutant: the hash that was sent is sent for ever. *)
SendFile_Again(h) ==
  /\ pc[h] \in {"inputs", "runner"}
  /\ socket[h] = "open"
  /\ cur[h] # NoFile
  /\ store' = [store EXCEPT ![JudgeOf[h]] = @ \cup {cur[h]}]
  /\ todo' = [todo EXCEPT ![h] = @ \ {cur[h]}]
  /\ UNCHANGED <<web, uploaded, rows, socket, pc, runner, inputs, cur, outputs>>

(* readFileByHash and sendFile. *)
SendFile(h) ==
  /\ pc[h] \in {"inputs", "runner"}
  /\ socket[h] = "open"
  /\ cur[h] # NoFile
  /\ store' = [store EXCEPT ![JudgeOf[h]] = @ \cup {cur[h]}]
  /\ todo' = [todo EXCEPT ![h] = @ \ {cur[h]}]
  /\ cur' = [cur EXCEPT ![h] = NoFile]
  /\ UNCHANGED <<web, uploaded, rows, socket, pc, runner, inputs, outputs>>

(* Mutant: the judge is taken to have every runner. *)
MakeSandbox_Unsent(h) ==
  /\ pc[h] = "inputs"
  /\ todo[h] = {}
  /\ runner[h] # NoFile
  /\ IF runner[h] = Docker
       THEN Goto(h, "run") /\ UNCHANGED <<inputs, todo>>
       ELSE /\ Goto(h, "runner")
            /\ inputs' = [inputs EXCEPT ![h] = @ \cup {runner[h]}]
            /\ UNCHANGED todo
  /\ UNCHANGED <<web, store, uploaded, rows, socket, runner, cur, outputs>>

(* makeSandbox: a ptrace sandbox has a runner, which is sent as inputs are. *)
MakeSandbox(h) ==
  /\ pc[h] = "inputs"
  /\ todo[h] = {}
  /\ runner[h] # NoFile
  /\ IF runner[h] = Docker
       THEN Goto(h, "run") /\ UNCHANGED <<inputs, todo>>
       ELSE /\ Goto(h, "runner")
            /\ inputs' = [inputs EXCEPT ![h] = @ \cup {runner[h]}]
            /\ todo' = [todo EXCEPT ![h] = {runner[h]}]
  /\ UNCHANGED <<web, store, uploaded, rows, socket, runner, cur, outputs>>

RunnerReady(h) ==
  /\ pc[h] = "runner"
  /\ todo[h] = {}
  /\ Goto(h, "run")
  /\ UNCHANGED <<web, store, uploaded, rows, socket, runner, inputs, todo, cur, outputs>>

(* hasFile("") is answered with InvalidDataError; makeSandbox throws when   *)
(* there is no runner.                                                      *)
Refused(h) ==
  /\ \/ pc[h] = "inputs" /\ socket[h] = "open" /\ cur[h] = NoFile /\ NoFile \in todo[h]
     \/ pc[h] = "inputs" /\ todo[h] = {} /\ runner[h] = NoFile
  /\ EndCall(h)
  /\ UNCHANGED <<web, store, uploaded, rows, socket>>

(* Mutant: the judge reports the hash of an output and does not save it. *)
SaveOutput_Unsaved(h, c) ==
  /\ pc[h] = "run"
  /\ c \notin outputs[h]
  /\ Cardinality(outputs[h]) < MaxOutputs
  /\ outputs' = [outputs EXCEPT ![h] = @ \cup {c}]
  /\ UNCHANGED <<web, store, uploaded, rows, socket, pc, runner, inputs, todo, cur>>

(* Judge::run: the program has run, and its outputs are saved one by one.   *)
SaveOutput(h, c) ==
  /\ pc[h] = "run"
  /\ c \notin outputs[h]
  /\ Cardinality(outputs[h]) < MaxOutputs
  /\ store' = [store EXCEPT ![JudgeOf[h]] = @ \cup {c}]
  /\ outputs' = [outputs EXCEPT ![h] = @ \cup {c}]
  /\ UNCHANGED <<web, uploaded, rows, socket, pc, runner, inputs, todo, cur>>

RunReply(h) ==
  /\ pc[h] = "run"
  /\ socket[h] = "open"
  /\ todo' = [todo EXCEPT ![h] = outputs[h]]
  /\ Goto(h, "fetch")
  /\ UNCHANGED <<web, store, uploaded, rows, socket, runner, inputs, cur, outputs>>

(* fileHashExists: other threads add files to the web server's store too. *)
CheckOutput(h, c) ==
  /\ pc[h] = "fetch"
  /\ cur[h] = NoFile
  /\ c \in todo[h]
  /\ IF c \in web
       THEN todo' = [todo EXCEPT ![h] = @ \ {c}] /\ UNCHANGED cur
       ELSE cur' = [cur EXCEPT ![h] = c] /\ UNCHANGED todo
  /\ UNCHANGED <<web, store, uploaded, rows, socket, pc, runner, inputs, outputs>>

(* getFile, and the content is saved. *)
GetFile(h) ==
  /\ pc[h] = "fetch"
  /\ socket[h] = "open"
  /\ cur[h] # NoFile
  /\ web' = web \cup {cur[h]}
  /\ todo' = [todo EXCEPT ![h] = @ \ {cur[h]}]
  /\ cur' = [cur EXCEPT ![h] = NoFile]
  /\ UNCHANGED <<store, uploaded, rows, socket, pc, runner, inputs, outputs>>

(* Mutant: the loop over the outputs stops after the first. *)
Return_Early(h) ==
  /\ pc[h] = "fetch"
  /\ todo[h] # outputs[h] \/ todo[h] = {}
  /\ Goto(h, "returned")
  /\ UNCHANGED <<web, store, uploaded, rows, socket, runner, inputs, todo, cur, outputs>>

Return(h) ==
  /\ pc[h] = "fetch"
  /\ todo[h] = {}
  /\ Goto(h, "returned")
  /\ UNCHANGED <<web, store, uploaded, rows, socket, runner, inputs, todo, cur, outputs>>

(* The caller stores some of the hashes: a binary, an output, a message.    *)
StoreResult(h) ==
  /\ pc[h] = "returned"
  /\ \E kept \in SUBSET outputs[h] : rows' = rows \cup kept
  /\ EndCall(h)
  /\ UNCHANGED <<web, store, uploaded, socket>>

-----------------------------------------------------------------------------
(* Faults *)

Calling(h) == pc[h] \in {"inputs", "runner", "run", "fetch"}

(* An error of the judge, or of the web server's disk. *)
CallThrows(h) ==
  /\ Calling(h)
  /\ EndCall(h)
  /\ UNCHANGED <<web, store, uploaded, rows, socket>>

(* The connection breaks, before the judge did what was asked or after: the *)
(* reply of sendFile is lost here, that of run after any SaveOutput.        *)
Break(h) ==
  /\ socket[h] = "open"
  /\ socket' = [socket EXCEPT ![h] = "broken"]
  /\ \/ UNCHANGED store
     \/ /\ pc[h] \in {"inputs", "runner"}
        /\ cur[h] # NoFile
        /\ store' = [store EXCEPT ![JudgeOf[h]] = @ \cup {cur[h]}]
  /\ UNCHANGED <<web, uploaded, rows, callVars>>

(* The judge restarts: its store stays, its connections break. *)
JudgeRestart(j) ==
  /\ socket' = [h \in Host |->
                  IF socket[h] = "open" /\ JudgeOf[h] = j THEN "broken" ELSE socket[h]]
  /\ UNCHANGED <<web, store, uploaded, rows, callVars>>

(* The web server restarts. A run it leaves behind may still save outputs   *)
(* at the judge; SaveOutput steps before the restart stand for those.       *)
WebRestart ==
  /\ socket' = [h \in Host |-> "none"]
  /\ uploaded' = {}
  /\ pc' = [h \in Host |-> "idle"]
  /\ runner' = [h \in Host |-> NoFile]
  /\ inputs' = [h \in Host |-> {}]
  /\ todo' = [h \in Host |-> {}]
  /\ cur' = [h \in Host |-> NoFile]
  /\ outputs' = [h \in Host |-> {}]
  /\ UNCHANGED <<web, store, rows>>

-----------------------------------------------------------------------------
CallStep(h) ==
  \/ \E files \in SUBSET rows, sandbox \in rows \cup {NoFile, Docker} :
       files # {} /\ Cardinality(files) <= MaxInputs /\ Call(h, files, sandbox)
  \/ \E c \in Content : HasFile(h, c) \/ SaveOutput(h, c) \/ CheckOutput(h, c)
  \/ SendFile(h) \/ MakeSandbox(h) \/ RunnerReady(h) \/ Refused(h)
  \/ RunReply(h) \/ GetFile(h) \/ Return(h) \/ StoreResult(h)

Next ==
  \/ \E c \in Content : Upload(c) \/ SaveRow(c)
  \/ \E h \in Host : Connect(h) \/ CallStep(h) \/ CallThrows(h) \/ Break(h)
  \/ \E j \in Judge : JudgeRestart(j)
  \/ WebRestart

Spec == Init /\ [][Next]_vars

-----------------------------------------------------------------------------
(* Properties *)

(* When a judge runs a program, it has the runner and all inputs, although  *)
(* they were checked and sent one by one, over connections that break, with *)
(* other connections to the same judge.                                     *)
RunHasItsFiles ==
  \A h \in Host : pc[h] = "run" => inputs[h] \subseteq store[JudgeOf[h]]

(* A row never refers to a file that the web server does not have, whatever *)
(* failed between a run and the storing of its results.                     *)
NothingDangles == rows \subseteq web \cup {NoFile}

(* readFileByHash and getFile never miss the file they are asked for: what  *)
(* is to be sent is at the web server, what is to be fetched at the judge.  *)
TransfersFindTheirFile ==
  \A h \in Host : cur[h] # NoFile =>
    cur[h] \in IF pc[h] = "fetch" THEN store[JudgeOf[h]] ELSE web
=============================================================================
