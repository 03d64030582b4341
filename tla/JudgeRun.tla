------------------------------ MODULE JudgeRun ------------------------------
(***************************************************************************)
(* One judge process: the handlers of Judge::run (judge/Judge.cpp), each a *)
(* thread of the server's pool (judge/main.cpp), with runPTrace and        *)
(* runDocker. The handlers share the environment of the process, the set   *)
(* imagesPulledCache, docker and the directory tmp/.                       *)
(*                                                                         *)
(* Calls overlap. A connection of the web server carries one call at a     *)
(* time, but it has a connection per row of JudgeHost, and nothing keeps   *)
(* two rows from naming one judge; a handler does not notice when its      *)
(* caller is gone, so that a web server that was restarted calls again     *)
(* while the old handler goes on.                                          *)
(***************************************************************************)
EXTENDS FiniteSets

CONSTANTS
  Run,       \* the calls of run
  Image,     \* docker images
  Ptrace,    \* the other kind of sandbox
  None

ASSUME SandboxAssumption == Ptrace \notin Image /\ None \notin Image \cup {Ptrace}
ASSUME RunAssumption == None \notin Run

VARIABLES
  pc,        \* pc[r]: where the handler of r is
  sandbox,   \* sandbox[r]: an image, or Ptrace
  env,       \* the environment of the process: whose values it holds
  mixed,     \* history: the runs that called setenv between setenv and system of another
  images,    \* what docker has
  cache,     \* imagesPulledCache
  listing,   \* listing[r]: what "docker images" printed for r
  raced,     \* the runs that use the set while another changes it, or after two did at once
  dirs,      \* the runs whose temporary directories exist
  program,   \* program[r]: the box or the container of r, and what it was given
  written,   \* written[d]: in the output directory of d, <<program, input directory>>
  type,      \* type[r]: RunResult.type
  outputs    \* outputs[r]: RunResult.outputs

envVars == <<env, mixed>>
dockerVars == <<images, cache, listing, raced>>
boxVars == <<dirs, program, written>>
resultVars == <<type, outputs>>
vars == <<pc, sandbox, envVars, dockerVars, boxVars, resultVars>>

EnvName == {"IN", "OUT", "ALLOWED_SYSCALLS"}
DockerPlace == {"check", "list", "insert", "recount", "mkdirs", "start", "sleep",
                "inspect", "exitcode", "remove", "saveDocker", "stuck"}
PtracePlace == {"dirs", "fork", "boxed", "savePtrace"} \cup EnvName
Over == {"answered", "refused", "missing", "dead"}
Place == {"new"} \cup DockerPlace \cup PtracePlace \cup Over

Owner == Run \cup {None}
Program == [state : {"none", "running", "zero", "nonzero"}, in : Owner, out : Owner, allowed : Owner]
NoProgram == [state |-> "none", in |-> None, out |-> None, allowed |-> None]

GoingOn(r) == pc[r] \in DockerPlace \cup PtracePlace

TypeOK ==
  /\ pc \in [Run -> Place]
  /\ sandbox \in [Run -> Image \cup {Ptrace, None}]
  /\ env \in [EnvName -> Owner]
  /\ mixed \subseteq Run
  /\ images \subseteq Image
  /\ cache \subseteq images
  /\ listing \in [Run -> SUBSET images]
  /\ raced \subseteq Run
  /\ dirs \subseteq Run
  /\ program \in [Run -> Program]
  /\ written \in [Run -> SUBSET (Run \X Owner)]
  /\ type \in [Run -> {"NONE", "SUCCESS", "NONZERO_EXIT_STATUS", "TIME_LIMIT_EXCEEDED"}]
  /\ outputs \in [Run -> SUBSET (Run \X Owner)]
  /\ \A r \in Run : /\ pc[r] \in DockerPlace \cup {"missing"} => sandbox[r] \in Image
                    /\ pc[r] \in PtracePlace => sandbox[r] = Ptrace

Init ==
  /\ pc = [r \in Run |-> "new"]
  /\ sandbox = [r \in Run |-> None]
  /\ env = [v \in EnvName |-> None]
  /\ mixed = {}
  /\ images \in SUBSET Image
  /\ cache = {}
  /\ listing = [r \in Run |-> {}]
  /\ raced = {}
  /\ dirs = {}
  /\ program = [r \in Run |-> NoProgram]
  /\ written = [r \in Run |-> {}]
  /\ type = [r \in Run |-> "NONE"]
  /\ outputs = [r \in Run |-> {}]

-----------------------------------------------------------------------------
Goto(r, place) == pc' = [pc EXCEPT ![r] = place]

(* A thread of the server takes the call and unpacks it. *)
Call(r) ==
  /\ pc[r] = "new"
  /\ \E s \in Image \cup {Ptrace} :
       /\ sandbox' = [sandbox EXCEPT ![r] = s]
       /\ Goto(r, IF s = Ptrace THEN "dirs" ELSE "check")
  /\ UNCHANGED <<envVars, dockerVars, boxVars, resultVars>>

-----------------------------------------------------------------------------
(* runPTrace *)

(* Two TempDirs and the links to the inputs. *)
MakeTempDirs(r) ==
  /\ pc[r] = "dirs"
  /\ dirs' = dirs \cup {r}
  /\ Goto(r, "IN")
  /\ UNCHANGED <<sandbox, envVars, dockerVars, program, written, resultVars>>

(* A ptrace run is in its window from its first setenv to its system.       *)
InWindow(r) == pc[r] \in {"OUT", "ALLOWED_SYSCALLS", "fork"}

(* The windows of r and of other runs overlap. *)
Mixing(r) ==
  LET others == {q \in Run \ {r} : InWindow(q)} IN
  mixed' = IF others = {} THEN mixed ELSE mixed \cup {r} \cup others

(* Mutant: setenv(..., false) leaves a variable that is set. *)
SetEnv_Once(r, v) ==
  /\ pc[r] = v
  /\ env' = IF env[v] = None THEN [env EXCEPT ![v] = r] ELSE env
  /\ Mixing(r)
  /\ Goto(r, CASE v = "IN" -> "OUT" [] v = "OUT" -> "ALLOWED_SYSCALLS" [] OTHER -> "fork")
  /\ UNCHANGED <<sandbox, dockerVars, boxVars, resultVars>>

(* setenv, three times: the variable is one of the process, not of the run. *)
(* RUNSAFE has the same value in every run.                                 *)
SetEnv(r, v) ==
  /\ pc[r] = v
  /\ env' = [env EXCEPT ![v] = r]
  /\ Mixing(r)
  /\ Goto(r, CASE v = "IN" -> "OUT" [] v = "OUT" -> "ALLOWED_SYSCALLS" [] OTHER -> "fork")
  /\ UNCHANGED <<sandbox, dockerVars, boxVars, resultVars>>

(* system(): the box starts with the environment the process has now. *)
Fork(r) ==
  /\ pc[r] = "fork"
  /\ program' = [program EXCEPT ![r] = [state |-> "running", in |-> env["IN"], out |-> env["OUT"],
                                        allowed |-> env["ALLOWED_SYSCALLS"]]]
  /\ Goto(r, "boxed")
  /\ UNCHANGED <<sandbox, envVars, dockerVars, dirs, written, resultVars>>

(* system() returns 0: the script of the box, program[r], has ended. (A     *)
(* process that ignores the signal of timeout may outlive the script that   *)
(* started it; what it still writes is not modelled.)                       *)
Waited(r) ==
  /\ pc[r] = "boxed"
  /\ program[r].state # "running"
  /\ Goto(r, "savePtrace")
  /\ type' = [type EXCEPT ![r] = "SUCCESS"]
  /\ UNCHANGED <<sandbox, envVars, dockerVars, boxVars, outputs>>

(* system() returns something else: the early return, without the outputs. *)
BoxFailed(r) ==
  /\ pc[r] = "boxed"
  /\ program[r].state # "running"
  /\ Goto(r, "answered")
  /\ dirs' = dirs \ {r}
  /\ type' = [type EXCEPT ![r] = "NONZERO_EXIT_STATUS"]
  /\ UNCHANGED <<sandbox, envVars, dockerVars, program, written, outputs>>

(* outputDir.saveContents, and the destructors of both directories. *)
SaveContents(r) ==
  /\ pc[r] = "savePtrace"
  /\ outputs' = [outputs EXCEPT ![r] = written[r]]
  /\ Goto(r, "answered")
  /\ dirs' = dirs \ {r}
  /\ UNCHANGED <<sandbox, envVars, dockerVars, program, written, type>>

-----------------------------------------------------------------------------
(* runDocker *)

(* imagesPulledCache.count, without a lock: while another handler inserts,  *)
(* it may miss what is in the set, or find what is being inserted; in a     *)
(* broken set it may always miss.                                           *)
Inserting(r) == {q \in Run \ {r} : pc[q] = "insert"}
MayFind(r) == sandbox[r] \in cache \/ \E q \in Inserting(r) : sandbox[r] \in listing[q]
MayMiss(r) == sandbox[r] \notin cache \/ Inserting(r) # {} \/ r \in raced

(* What the set may hold after some images were inserted. Two loops of      *)
(* inserts at once leave some of both, and a set in which later inserts may *)
(* be lost, too.                                                            *)
Inserted(r, some) == IF r \in raced THEN SUBSET (cache \cup some) ELSE {cache \cup some}

(* checkRunParameters has accepted the call. *)
CheckCache(r) ==
  /\ pc[r] = "check"
  /\ \/ MayFind(r) /\ Goto(r, "mkdirs")
     \/ MayMiss(r) /\ Goto(r, "list")
  /\ UNCHANGED <<sandbox, envVars, dockerVars, boxVars, resultVars>>

(* The loop of inserts begins: whoever counts at this time may be misled,   *)
(* and if another one inserts, the set is broken for as long as the process *)
(* lives.                                                                   *)
ListImages(r) ==
  /\ pc[r] = "list"
  /\ listing' = [listing EXCEPT ![r] = images]
  /\ raced' = raced \cup IF Inserting(r) = {} THEN {q \in Run : pc[q] = "recount"}
                                            ELSE {q \in Run : pc[q] \notin Over}
  /\ Goto(r, "insert")
  /\ UNCHANGED <<sandbox, envVars, images, cache, boxVars, resultVars>>

(* Mutant: the loop stops before the last image. *)
InsertImages_ButLast(r) ==
  /\ pc[r] = "insert"
  /\ \E last \in listing[r] : cache' = cache \cup (listing[r] \ {last})
  /\ Goto(r, "recount")
  /\ UNCHANGED <<sandbox, envVars, images, listing, raced, boxVars, resultVars>>

(* Mutant: the image that was asked for is inserted unseen. *)
InsertImages_Unseen(r) ==
  /\ pc[r] = "insert"
  /\ cache' = cache \cup {sandbox[r]}
  /\ Goto(r, "recount")
  /\ UNCHANGED <<sandbox, envVars, images, listing, raced, boxVars, resultVars>>

(* The end of the loop of inserts. *)
InsertImages(r) ==
  /\ pc[r] = "insert"
  /\ cache' \in Inserted(r, listing[r])
  /\ Goto(r, "recount")
  /\ UNCHANGED <<sandbox, envVars, images, listing, raced, boxVars, resultVars>>

ImageIsThere(r) ==
  /\ pc[r] = "recount"
  /\ MayFind(r)
  /\ Goto(r, "mkdirs")
  /\ UNCHANGED <<sandbox, envVars, dockerVars, boxVars, resultVars>>

(* A handler may loop for ever in a set that changes under it. *)
Loop(r) ==
  /\ pc[r] \in {"check", "insert", "recount"}
  /\ r \in raced \/ Inserting(r) # {}
  /\ Goto(r, "stuck")
  /\ UNCHANGED <<sandbox, envVars, dockerVars, boxVars, resultVars>>

(* "too lazy to go get it..." *)
ImageIsMissing(r) ==
  /\ pc[r] = "recount"
  /\ MayMiss(r)
  /\ Goto(r, "missing")
  /\ UNCHANGED <<sandbox, envVars, dockerVars, boxVars, resultVars>>

MakeDirectories(r) ==
  /\ pc[r] = "mkdirs"
  /\ dirs' = dirs \cup {r}
  /\ Goto(r, "start")
  /\ UNCHANGED <<sandbox, envVars, dockerVars, program, written, resultVars>>

StartContainer(r) ==
  /\ pc[r] = "start"
  /\ program' = [program EXCEPT ![r] = [state |-> "running", in |-> r, out |-> r, allowed |-> r]]
  /\ Goto(r, "sleep")
  /\ UNCHANGED <<sandbox, envVars, dockerVars, dirs, written, resultVars>>

(* nanosleep for the whole time limit. *)
Sleep(r) ==
  /\ pc[r] = "sleep"
  /\ Goto(r, "inspect")
  /\ UNCHANGED <<sandbox, envVars, dockerVars, boxVars, resultVars>>

(* Mutant: the handler inspects until the container has stopped. *)
InspectRunning_Waits(r) ==
  /\ pc[r] = "inspect"
  /\ program[r].state # "running"
  /\ Goto(r, "exitcode")
  /\ UNCHANGED <<sandbox, envVars, dockerVars, boxVars, resultVars>>

InspectRunning(r) ==
  /\ pc[r] = "inspect"
  /\ IF program[r].state = "running"
     THEN Goto(r, "remove") /\ type' = [type EXCEPT ![r] = "TIME_LIMIT_EXCEEDED"]
     ELSE Goto(r, "exitcode") /\ UNCHANGED type
  /\ UNCHANGED <<sandbox, envVars, dockerVars, boxVars, outputs>>

InspectExitCode(r) ==
  /\ pc[r] = "exitcode"
  /\ type' = [type EXCEPT ![r] =
                IF program[r].state = "zero" THEN "SUCCESS" ELSE "NONZERO_EXIT_STATUS"]
  /\ Goto(r, "remove")
  /\ UNCHANGED <<sandbox, envVars, dockerVars, boxVars, outputs>>

(* Mutant: only a container that runs is removed. *)
RemoveContainer_Running(r) ==
  /\ pc[r] = "remove"
  /\ program' = IF program[r].state = "running" THEN [program EXCEPT ![r] = NoProgram] ELSE program
  /\ Goto(r, "saveDocker")
  /\ UNCHANGED <<sandbox, envVars, dockerVars, dirs, written, resultVars>>

RemoveContainer(r) ==
  /\ pc[r] = "remove"
  /\ program' = [program EXCEPT ![r] = NoProgram]
  /\ Goto(r, "saveDocker")
  /\ UNCHANGED <<sandbox, envVars, dockerVars, dirs, written, resultVars>>

(* The output files are saved; the directories stay (a TODO of the code). *)
SaveOutputs(r) ==
  /\ pc[r] = "saveDocker"
  /\ outputs' = [outputs EXCEPT ![r] = written[r]]
  /\ Goto(r, "answered")
  /\ UNCHANGED <<sandbox, envVars, dockerVars, boxVars, type>>

-----------------------------------------------------------------------------
(* Whatever throws (bad parameters, a failing command or system call, docker's *)
(* output in another format, a file that cannot be saved) ends the handler     *)
(* there: Judge::run turns every exception into InternalError. TempDirs are    *)
(* removed by their destructors; the directories and the container of          *)
(* runDocker stay. docker's format is checked while the images are inserted.   *)
MayThrow == {"check", "list", "insert", "mkdirs", "start", "sleep", "inspect", "exitcode",
             "remove", "saveDocker", "dirs", "fork", "savePtrace"}
Throws(r) ==
  /\ pc[r] \in MayThrow
  /\ Goto(r, "refused")
  /\ dirs' = IF sandbox[r] = Ptrace THEN dirs \ {r} ELSE dirs
  /\ IF pc[r] = "insert" THEN \E some \in SUBSET listing[r] : cache' \in Inserted(r, some)
                         ELSE UNCHANGED cache
  /\ UNCHANGED <<sandbox, envVars, images, listing, raced, program, written, resultVars>>

(* The judge process dies (of the unlocked set, too) and is started again.  *)
(* Containers and boxes are other processes: they go on.                    *)
Crash ==
  /\ pc' = [r \in Run |-> IF GoingOn(r) THEN "dead" ELSE pc[r]]
  /\ env' = [v \in EnvName |-> None]
  /\ cache' = {}
  /\ raced' = {r \in raced : pc[r] # "new"}
  /\ UNCHANGED <<sandbox, mixed, images, listing, boxVars, resultVars>>

-----------------------------------------------------------------------------
(* Outside of the judge. *)

(* The program of a run ends, of itself or by "timeout" in run_boxed.sh. It *)
(* leaves its output in the directory it was told, if that is still there.  *)
(* A container that exits with 0 has written; the status of a box says      *)
(* nothing of its program (run_boxed.sh ends with an echo).                 *)
ProgramEnds(r) ==
  /\ program[r].state = "running"
  /\ \E status \in {"zero", "nonzero"}, writes \in BOOLEAN :
       /\ sandbox[r] \in Image /\ status = "zero" => writes
       /\ program' = [program EXCEPT ![r].state = status]
       /\ written' = IF writes /\ program[r].out \in dirs
                     THEN [written EXCEPT ![program[r].out] = @ \cup {<<r, program[r].in>>}]
                     ELSE written
  /\ UNCHANGED <<pc, sandbox, envVars, dockerVars, dirs, resultVars>>

(* An administrator of the judge pulls an image. Images are not removed.    *)
Pull(i) ==
  /\ i \notin images
  /\ images' = images \cup {i}
  /\ UNCHANGED <<pc, sandbox, envVars, cache, listing, raced, boxVars, resultVars>>

-----------------------------------------------------------------------------
RunPTrace(r) ==
  \/ MakeTempDirs(r)
  \/ \E v \in EnvName : SetEnv(r, v)
  \/ Fork(r)
  \/ Waited(r)
  \/ BoxFailed(r)
  \/ SaveContents(r)

RunDocker(r) ==
  \/ CheckCache(r) \/ ListImages(r) \/ InsertImages(r)
  \/ Loop(r) \/ ImageIsThere(r) \/ ImageIsMissing(r)
  \/ MakeDirectories(r) \/ StartContainer(r) \/ Sleep(r)
  \/ InspectRunning(r) \/ InspectExitCode(r) \/ RemoveContainer(r) \/ SaveOutputs(r)

Handle(r) == RunPTrace(r) \/ RunDocker(r) \/ Throws(r)

Next ==
  \/ \E r \in Run : Call(r) \/ Handle(r) \/ ProgramEnds(r)
  \/ \E i \in Image : Pull(i)
  \/ Crash

Spec == Init /\ [][Next]_vars

(* Handlers are scheduled, and "timeout" ends what a box waits for. Nothing *)
(* but the handler ends a container.                                        *)
Fairness ==
  \A r \in Run : /\ WF_vars(RunPTrace(r) \/ RunDocker(r))
                 /\ WF_vars(sandbox[r] = Ptrace /\ ProgramEnds(r))

FairSpec == Spec /\ Fairness

-----------------------------------------------------------------------------
(* Properties *)

(* What the outputs of an answer were made from is this run's program and   *)
(* this run's inputs, however runs overlap, and a container that is called  *)
(* a success wrote all of them. A ptrace run finds its directories through  *)
(* the environment of the process: for it, this holds unless another run    *)
(* was between its setenv and its system at the same time ("this is not     *)
(* thread safe"), and nothing that happens outside of that window harms it. *)
AnswersAreOwn ==
  \A r \in Run :
    pc[r] = "answered" =>
      /\ sandbox[r] \in Image \/ r \notin mixed => outputs[r] \subseteq {<<r, r>>}
      /\ sandbox[r] \in Image /\ type[r] = "SUCCESS" => outputs[r] = {<<r, r>>}

(* With the same proviso, a program is boxed with the system calls and the  *)
(* directories of its own run, and they are there as long as it runs.       *)
BoxesAreOwn ==
  \A r \in Run :
    program[r].state = "running" /\ (sandbox[r] \in Image \/ r \notin mixed) =>
      /\ program[r] = [state |-> "running", in |-> r, out |-> r, allowed |-> r]
      /\ r \in dirs

RunsAreSeparate == AnswersAreOwn /\ BoxesAreOwn

(* Whichever way a ptrace run is left, no directory of it and no program    *)
(* stays; a docker run that is answered leaves no container. (What a docker *)
(* run leaves when it throws, or when the process dies, stays for ever.)    *)
NothingLeftBehind ==
  \A r \in Run :
    /\ sandbox[r] = Ptrace /\ pc[r] \in {"answered", "refused"} =>
         r \notin dirs /\ program[r].state # "running"
    /\ sandbox[r] \in Image /\ pc[r] = "answered" => program[r] = NoProgram

(* Although handlers read and insert into the set without a lock, a run is  *)
(* refused for a missing image only if docker did not list it, unless       *)
(* another run began to insert while this one was about to look the image   *)
(* up, or two inserted at once since the process was started. Even then no  *)
(* container is started from an image that docker does not have.            *)
CacheAgreesWithDocker ==
  \A r \in Run :
    /\ pc[r] = "missing" /\ r \notin raced => sandbox[r] \notin listing[r]
    /\ sandbox[r] \in Image /\ program[r].state # "none" => sandbox[r] \in images

(* Every call ends, also when its program does not; except in a set that    *)
(* changed under the handler.                                               *)
EveryRunEnds == \A r \in Run : GoingOn(r) ~> pc[r] \in Over \cup {"stuck"}
=============================================================================
