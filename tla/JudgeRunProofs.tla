--------------------------- MODULE JudgeRunProofs ---------------------------
(***************************************************************************)
(* Proofs about JudgeRun, for any runs and images and however calls        *)
(* overlap: what an answer holds is of its own run unless another run was  *)
(* between setenv and system at the same time, a ptrace run leaves nothing *)
(* behind, and the set of images agrees with docker unless handlers change *)
(* it at once.                                                             *)
(***************************************************************************)
EXTENDS JudgeRun, TLAPS

(* A call that was not made has left no trace. *)
Untouched(r) ==
  pc[r] = "new" \/ sandbox[r] = None =>
    /\ pc[r] = "new" /\ sandbox[r] = None
    /\ program[r] = NoProgram /\ written[r] = {} /\ type[r] = "NONE"

(* In its window the environment is the run's own, as far as it has set it, *)
(* unless another window overlaps.                                          *)
EnvIsOwn(r) ==
  r \notin mixed =>
    /\ pc[r] \in {"OUT", "ALLOWED_SYSCALLS", "fork"} => env["IN"] = r
    /\ pc[r] \in {"ALLOWED_SYSCALLS", "fork"} => env["OUT"] = r
    /\ pc[r] = "fork" => env["ALLOWED_SYSCALLS"] = r

(* Who owns the output directory that another run is about to be given has  *)
(* set it in that run's window.                                             *)
ForeignOut(r) ==
  pc[r] \in {"ALLOWED_SYSCALLS", "fork"} => env["OUT"] \in mixed \cup {r}

(* Directories last from when they are made to the end of a ptrace run, or  *)
(* for ever. Boxes end before their handlers go on.                         *)
HasDirs(r) ==
  /\ pc[r] \in {"start", "sleep", "inspect", "exitcode", "remove", "saveDocker"} => r \in dirs
  /\ pc[r] \in {"IN", "OUT", "ALLOWED_SYSCALLS", "fork", "boxed", "savePtrace"} => r \in dirs
  /\ sandbox[r] \in Image /\ program[r].state # "none" => r \in dirs
  /\ sandbox[r] = Ptrace /\ program[r].state = "running" =>
       pc[r] \in {"boxed", "dead"} /\ r \in dirs
  /\ sandbox[r] = Ptrace /\ pc[r] \in {"answered", "refused"} => r \notin dirs
  /\ sandbox[r] \in Image /\ pc[r] \in {"saveDocker", "answered"} => program[r] = NoProgram

(* Programs know their own run. With a foreign environment, a box may write *)
(* to the directory of a run whose window overlapped, but not to that of a  *)
(* container.                                                               *)
ProgramIsOwn(r) ==
  /\ (sandbox[r] \in Image \/ r \notin mixed) /\ program[r].state # "none" =>
       program[r].in = r /\ program[r].out = r /\ program[r].allowed = r
  /\ program[r].out \in mixed \cup {r, None}
  /\ sandbox[r] = Ptrace /\ program[r].out \in Run => sandbox[program[r].out] = Ptrace

EnvIsOfBoxes == env["OUT"] \in Run => sandbox[env["OUT"]] = Ptrace

WrittenIsOwn(r) ==
  /\ sandbox[r] \in Image \/ r \notin mixed => written[r] \subseteq {<<r, r>>}
  /\ sandbox[r] \in Image /\ (program[r].state = "zero" \/ type[r] = "SUCCESS") =>
       <<r, r>> \in written[r]

AnswerIsOwn(r) ==
  /\ pc[r] # "answered" => outputs[r] = {}
  /\ sandbox[r] \in Image \/ r \notin mixed => outputs[r] \subseteq {<<r, r>>}
  /\ pc[r] = "answered" /\ sandbox[r] \in Image /\ type[r] = "SUCCESS" =>
       outputs[r] = {<<r, r>>}

(* Between its inserts and its second look nobody else inserts, unless the  *)
(* run is marked; and a container has its image.                            *)
CacheIsFull(r) ==
  /\ r \notin raced =>
       /\ pc[r] \in {"insert", "recount"} => \A q \in Run \ {r} : pc[q] # "insert"
       /\ pc[r] = "recount" => listing[r] \subseteq cache
       /\ pc[r] = "missing" => sandbox[r] \notin listing[r]
  /\ pc[r] \in {"mkdirs", "start"} => sandbox[r] \in images
  /\ sandbox[r] \in Image /\ program[r].state # "none" => sandbox[r] \in images

RunInv(r) ==
  /\ Untouched(r) /\ EnvIsOwn(r) /\ ForeignOut(r) /\ HasDirs(r) /\ ProgramIsOwn(r)
  /\ WrittenIsOwn(r) /\ AnswerIsOwn(r) /\ CacheIsFull(r)

IInv ==
  /\ TypeOK
  /\ EnvIsOfBoxes
  /\ \A r \in Run : RunInv(r)
-----------------------------------------------------------------------------
(* An image that is found is one that docker has, and an image in the set   *)
(* is found unless another run inserts or the set is broken.                *)
LEMMA CountIsRight ==
  ASSUME TypeOK, NEW r \in Run
  PROVE  /\ MayFind(r) => sandbox[r] \in images
         /\ MayMiss(r) /\ r \notin raced /\ (\A q \in Run \ {r} : pc[q] # "insert") =>
              sandbox[r] \notin cache
<1>. QED BY DEF MayFind, MayMiss, Inserting, TypeOK

(* A call comes in, whatever else goes on. *)
LEMMA CallKeeps == ASSUME IInv, NEW q \in Run, Call(q) PROVE IInv'
<1> USE SandboxAssumption, RunAssumption
      DEF IInv, TypeOK, Place, DockerPlace, PtracePlace, Over, EnvName, Owner, Program, NoProgram,
          envVars, dockerVars, boxVars, resultVars, Goto
<1>1. CASE Call(q)
  <2>1. TypeOK'
        BY <1>1 DEF Call
  <2>2. EnvIsOfBoxes'
        BY <1>1 DEF Call, EnvIsOfBoxes, RunInv, Untouched
  <2>3. ASSUME NEW r \in Run PROVE RunInv(r)'
    <3> RunInv(r) /\ RunInv(q)
        OBVIOUS
    <3> USE <1>1 DEF Call, RunInv
    <3>1. Untouched(r)'
          BY DEF Untouched, HasDirs, ProgramIsOwn, EnvIsOfBoxes
    <3>2. EnvIsOwn(r)' /\ ForeignOut(r)'
          BY DEF EnvIsOwn, ForeignOut
    <3>3. HasDirs(r)'
          BY DEF HasDirs, Untouched
    <3>4. ProgramIsOwn(r)'
          BY DEF ProgramIsOwn, EnvIsOwn, ForeignOut, EnvIsOfBoxes, Untouched
    <3>5. WrittenIsOwn(r)'
          BY DEF WrittenIsOwn, ProgramIsOwn, Untouched, HasDirs
    <3>6. AnswerIsOwn(r)'
          BY DEF AnswerIsOwn, WrittenIsOwn, Untouched
    <3>7. CacheIsFull(r)'
          BY DEF CacheIsFull, Untouched, NoProgram
    <3>. QED BY <3>1, <3>2, <3>3, <3>4, <3>5, <3>6, <3>7
  <2>. QED BY <2>1, <2>2, <2>3
<1>. QED BY <1>1

(* runPTrace: the values set in the environment are those the box gets. *)
LEMMA PtraceKeeps == ASSUME IInv, NEW q \in Run, RunPTrace(q) PROVE IInv'
<1> USE SandboxAssumption, RunAssumption
      DEF IInv, TypeOK, Place, DockerPlace, PtracePlace, Over, EnvName, Owner, Program, NoProgram,
          envVars, dockerVars, boxVars, resultVars, Goto
<1>1. CASE MakeTempDirs(q)
  <2>1. TypeOK'
        BY <1>1 DEF MakeTempDirs
  <2>2. EnvIsOfBoxes'
        BY <1>1 DEF MakeTempDirs, EnvIsOfBoxes, RunInv, Untouched
  <2>3. ASSUME NEW r \in Run PROVE RunInv(r)'
        BY <1>1 DEF MakeTempDirs, RunInv, Untouched, EnvIsOwn, ForeignOut, HasDirs, ProgramIsOwn, WrittenIsOwn,
                   AnswerIsOwn, CacheIsFull, EnvIsOfBoxes
  <2>. QED BY <2>1, <2>2, <2>3
<1>2. ASSUME NEW v \in EnvName, SetEnv(q, v) PROVE IInv'
  <2>1. /\ mixed' \subseteq Run /\ mixed \subseteq mixed'
        /\ \A p \in Run \ {q} : InWindow(p) => p \in mixed' /\ q \in mixed'
        BY <1>2 DEF SetEnv, Mixing
  <2>2. TypeOK'
        BY <1>2, <2>1 DEF SetEnv
  <2>3. EnvIsOfBoxes'
        BY <1>2 DEF SetEnv, EnvIsOfBoxes, RunInv, Untouched
  <2>4. ASSUME NEW r \in Run PROVE RunInv(r)'
    <3> RunInv(r) /\ RunInv(q)
        OBVIOUS
    <3> USE <1>2, <2>1 DEF SetEnv, RunInv
    <3>1. Untouched(r)' /\ HasDirs(r)' /\ WrittenIsOwn(r)' /\ AnswerIsOwn(r)' /\ CacheIsFull(r)'
          BY DEF Untouched, HasDirs, WrittenIsOwn, AnswerIsOwn, CacheIsFull
    <3>2. EnvIsOwn(r)'
          BY DEF EnvIsOwn, InWindow
    <3>3. ForeignOut(r)'
          BY DEF ForeignOut, InWindow
    <3>4. ProgramIsOwn(r)'
          BY DEF ProgramIsOwn
    <3>. QED BY <3>1, <3>2, <3>3, <3>4
  <2>. QED BY <2>2, <2>3, <2>4
<1>3. CASE Fork(q)
  <2>1. TypeOK'
        BY <1>3 DEF Fork
  <2>2. EnvIsOfBoxes'
        BY <1>3 DEF Fork, EnvIsOfBoxes, RunInv, Untouched
  <2>3. ASSUME NEW r \in Run PROVE RunInv(r)'
        BY <1>3 DEF Fork, RunInv, Untouched, EnvIsOwn, ForeignOut, HasDirs, ProgramIsOwn, WrittenIsOwn,
                   AnswerIsOwn, CacheIsFull, EnvIsOfBoxes
  <2>. QED BY <2>1, <2>2, <2>3
<1>4. CASE Waited(q)
  <2>1. TypeOK'
        BY <1>4 DEF Waited
  <2>2. EnvIsOfBoxes'
        BY <1>4 DEF Waited, EnvIsOfBoxes, RunInv, Untouched
  <2>3. ASSUME NEW r \in Run PROVE RunInv(r)'
        BY <1>4 DEF Waited, RunInv, Untouched, EnvIsOwn, ForeignOut, HasDirs, ProgramIsOwn, WrittenIsOwn,
                   AnswerIsOwn, CacheIsFull, EnvIsOfBoxes
  <2>. QED BY <2>1, <2>2, <2>3
<1>5. CASE BoxFailed(q)
  <2>1. TypeOK'
        BY <1>5 DEF BoxFailed
  <2>2. EnvIsOfBoxes'
        BY <1>5 DEF BoxFailed, EnvIsOfBoxes, RunInv, Untouched
  <2>3. ASSUME NEW r \in Run PROVE RunInv(r)'
        BY <1>5 DEF BoxFailed, RunInv, Untouched, EnvIsOwn, ForeignOut, HasDirs, ProgramIsOwn, WrittenIsOwn,
                   AnswerIsOwn, CacheIsFull, EnvIsOfBoxes
  <2>. QED BY <2>1, <2>2, <2>3
<1>6. CASE SaveContents(q)
  <2>1. TypeOK'
        BY <1>6 DEF SaveContents
  <2>2. EnvIsOfBoxes'
        BY <1>6 DEF SaveContents, EnvIsOfBoxes, RunInv, Untouched
  <2>3. ASSUME NEW r \in Run PROVE RunInv(r)'
        BY <1>6 DEF SaveContents, RunInv, Untouched, EnvIsOwn, ForeignOut, HasDirs, ProgramIsOwn, WrittenIsOwn,
                   AnswerIsOwn, CacheIsFull, EnvIsOfBoxes
  <2>. QED BY <2>1, <2>2, <2>3
<1>. QED BY <1>1, <1>2, <1>3, <1>4, <1>5, <1>6 DEF RunPTrace

(* runDocker. *)
LEMMA DockerKeeps == ASSUME IInv, NEW q \in Run, RunDocker(q) PROVE IInv'
<1> USE SandboxAssumption, RunAssumption
      DEF IInv, TypeOK, Place, DockerPlace, PtracePlace, Over, EnvName, Owner, Program, NoProgram,
          envVars, dockerVars, boxVars, resultVars, Goto
<1>1. CASE CheckCache(q)
  <2>1. \/ sandbox[q] \in images /\ Goto(q, "mkdirs")
        \/ Goto(q, "list")
    <3>1. MayFind(q) => sandbox[q] \in images
          BY CountIsRight
    <3>. QED BY <1>1, <3>1 DEF CheckCache
  <2>2. TypeOK'
        BY <1>1, <2>1 DEF CheckCache
  <2>3. EnvIsOfBoxes'
        BY <1>1 DEF CheckCache, EnvIsOfBoxes
  <2>4. ASSUME NEW r \in Run PROVE RunInv(r)'
        BY <1>1, <2>1 DEF CheckCache, RunInv, Untouched, EnvIsOwn, ForeignOut, HasDirs, ProgramIsOwn,
                   WrittenIsOwn, AnswerIsOwn, CacheIsFull
  <2>. QED BY <2>2, <2>3, <2>4
<1>2. CASE ListImages(q)
  <2>1. TypeOK'
        BY <1>2 DEF ListImages
  <2>2. EnvIsOfBoxes'
        BY <1>2 DEF ListImages, EnvIsOfBoxes, RunInv, Untouched
  <2>3. ASSUME NEW r \in Run PROVE RunInv(r)'
    <3> RunInv(r) /\ RunInv(q)
        OBVIOUS
    <3>1. /\ Untouched(r)' /\ EnvIsOwn(r)' /\ ForeignOut(r)' /\ HasDirs(r)' /\ ProgramIsOwn(r)'
          /\ WrittenIsOwn(r)' /\ AnswerIsOwn(r)'
          BY <1>2 DEF ListImages, RunInv, Untouched, EnvIsOwn, ForeignOut, HasDirs, ProgramIsOwn,
                     WrittenIsOwn, AnswerIsOwn
    <3>2. CacheIsFull(r)'
      <4>1. CASE \A p \in Run \ {q} : pc[p] # "insert"
            BY <1>2, <4>1 DEF ListImages, RunInv, CacheIsFull, Inserting
      <4>2. CASE \E p \in Run \ {q} : pc[p] = "insert"
            BY <1>2, <4>2 DEF ListImages, RunInv, CacheIsFull, Inserting
      <4>. QED BY <4>1, <4>2
    <3>. QED BY <3>1, <3>2 DEF RunInv
  <2>. QED BY <2>1, <2>2, <2>3
<1>3. CASE InsertImages(q)
  <2>1. cache' \subseteq cache \cup listing[q] /\ (q \notin raced => listing[q] \subseteq cache')
        BY <1>3 DEF InsertImages, Inserted
  <2>2. TypeOK'
        BY <1>3, <2>1 DEF InsertImages
  <2>3. EnvIsOfBoxes'
        BY <1>3 DEF InsertImages, EnvIsOfBoxes
  <2>4. ASSUME NEW r \in Run PROVE RunInv(r)'
        BY <1>3, <2>1 DEF InsertImages, RunInv, Untouched, EnvIsOwn, ForeignOut, HasDirs, ProgramIsOwn,
                   WrittenIsOwn, AnswerIsOwn, CacheIsFull
  <2>. QED BY <2>2, <2>3, <2>4
<1>4. CASE ImageIsThere(q)
  <2>1. sandbox[q] \in images
        BY <1>4, CountIsRight DEF ImageIsThere
  <2>2. TypeOK'
        BY <1>4 DEF ImageIsThere
  <2>3. EnvIsOfBoxes'
        BY <1>4 DEF ImageIsThere, EnvIsOfBoxes
  <2>4. ASSUME NEW r \in Run PROVE RunInv(r)'
        BY <1>4, <2>1 DEF ImageIsThere, RunInv, Untouched, EnvIsOwn, ForeignOut, HasDirs, ProgramIsOwn,
                   WrittenIsOwn, AnswerIsOwn, CacheIsFull
  <2>. QED BY <2>2, <2>3, <2>4
<1>5. CASE ImageIsMissing(q)
  <2>1. TypeOK'
        BY <1>5 DEF ImageIsMissing
  <2>2. EnvIsOfBoxes'
        BY <1>5 DEF ImageIsMissing, EnvIsOfBoxes, RunInv, Untouched
  <2>3. ASSUME NEW r \in Run PROVE RunInv(r)'
    <3> RunInv(r) /\ RunInv(q)
        OBVIOUS
    <3>0. MayMiss(q) /\ q \notin raced /\ (\A p \in Run \ {q} : pc[p] # "insert") =>
            sandbox[q] \notin cache
          BY CountIsRight
    <3> USE <1>5 DEF ImageIsMissing, RunInv
    <3>1. Untouched(r)'
          BY DEF Untouched, HasDirs, ProgramIsOwn, EnvIsOfBoxes
    <3>2. EnvIsOwn(r)' /\ ForeignOut(r)'
          BY DEF EnvIsOwn, ForeignOut
    <3>3. HasDirs(r)'
          BY DEF HasDirs, Untouched
    <3>4. ProgramIsOwn(r)'
          BY DEF ProgramIsOwn, EnvIsOwn, ForeignOut, EnvIsOfBoxes, Untouched
    <3>5. WrittenIsOwn(r)'
          BY DEF WrittenIsOwn, ProgramIsOwn, Untouched, HasDirs
    <3>6. AnswerIsOwn(r)'
          BY DEF AnswerIsOwn, WrittenIsOwn, Untouched
    <3>7. CacheIsFull(r)'
          BY <3>0 DEF CacheIsFull, Untouched, NoProgram
    <3>. QED BY <3>1, <3>2, <3>3, <3>4, <3>5, <3>6, <3>7
  <2>. QED BY <2>1, <2>2, <2>3
<1>6. CASE MakeDirectories(q)
  <2>1. TypeOK'
        BY <1>6 DEF MakeDirectories
  <2>2. EnvIsOfBoxes'
        BY <1>6 DEF MakeDirectories, EnvIsOfBoxes, RunInv, Untouched
  <2>3. ASSUME NEW r \in Run PROVE RunInv(r)'
        BY <1>6 DEF MakeDirectories, RunInv, Untouched, EnvIsOwn, ForeignOut, HasDirs, ProgramIsOwn, WrittenIsOwn,
                   AnswerIsOwn, CacheIsFull, EnvIsOfBoxes
  <2>. QED BY <2>1, <2>2, <2>3
<1>7. CASE StartContainer(q)
  <2>1. TypeOK'
        BY <1>7 DEF StartContainer
  <2>2. EnvIsOfBoxes'
        BY <1>7 DEF StartContainer, EnvIsOfBoxes, RunInv, Untouched
  <2>3. ASSUME NEW r \in Run PROVE RunInv(r)'
        BY <1>7 DEF StartContainer, RunInv, Untouched, EnvIsOwn, ForeignOut, HasDirs, ProgramIsOwn, WrittenIsOwn,
                   AnswerIsOwn, CacheIsFull, EnvIsOfBoxes
  <2>. QED BY <2>1, <2>2, <2>3
<1>8. CASE Sleep(q)
  <2>1. TypeOK'
        BY <1>8 DEF Sleep
  <2>2. EnvIsOfBoxes'
        BY <1>8 DEF Sleep, EnvIsOfBoxes, RunInv, Untouched
  <2>3. ASSUME NEW r \in Run PROVE RunInv(r)'
        BY <1>8 DEF Sleep, RunInv, Untouched, EnvIsOwn, ForeignOut, HasDirs, ProgramIsOwn, WrittenIsOwn,
                   AnswerIsOwn, CacheIsFull, EnvIsOfBoxes
  <2>. QED BY <2>1, <2>2, <2>3
<1>9. CASE InspectRunning(q)
  <2>1. TypeOK'
    <3>1. pc' \in [Run -> Place] /\ type' \in [Run -> {"NONE", "SUCCESS", "NONZERO_EXIT_STATUS",
                                                          "TIME_LIMIT_EXCEEDED"}]
          BY <1>9 DEF InspectRunning
    <3>. QED BY <1>9, <3>1 DEF InspectRunning
  <2>2. EnvIsOfBoxes'
        BY <1>9 DEF InspectRunning, EnvIsOfBoxes, RunInv, Untouched
  <2>3. ASSUME NEW r \in Run PROVE RunInv(r)'
        BY <1>9 DEF InspectRunning, RunInv, Untouched, EnvIsOwn, ForeignOut, HasDirs, ProgramIsOwn, WrittenIsOwn,
                   AnswerIsOwn, CacheIsFull, EnvIsOfBoxes
  <2>. QED BY <2>1, <2>2, <2>3
<1>10. CASE InspectExitCode(q)
  <2>1. TypeOK'
        BY <1>10 DEF InspectExitCode
  <2>2. EnvIsOfBoxes'
        BY <1>10 DEF InspectExitCode, EnvIsOfBoxes, RunInv, Untouched
  <2>3. ASSUME NEW r \in Run PROVE RunInv(r)'
        BY <1>10 DEF InspectExitCode, RunInv, Untouched, EnvIsOwn, ForeignOut, HasDirs, ProgramIsOwn, WrittenIsOwn,
                   AnswerIsOwn, CacheIsFull, EnvIsOfBoxes
  <2>. QED BY <2>1, <2>2, <2>3
<1>11. CASE RemoveContainer(q)
  <2>1. TypeOK'
        BY <1>11 DEF RemoveContainer
  <2>2. EnvIsOfBoxes'
        BY <1>11 DEF RemoveContainer, EnvIsOfBoxes, RunInv, Untouched
  <2>3. ASSUME NEW r \in Run PROVE RunInv(r)'
        BY <1>11 DEF RemoveContainer, RunInv, Untouched, EnvIsOwn, ForeignOut, HasDirs, ProgramIsOwn, WrittenIsOwn,
                   AnswerIsOwn, CacheIsFull, EnvIsOfBoxes
  <2>. QED BY <2>1, <2>2, <2>3
<1>12. CASE SaveOutputs(q)
  <2>1. TypeOK'
        BY <1>12 DEF SaveOutputs
  <2>2. EnvIsOfBoxes'
        BY <1>12 DEF SaveOutputs, EnvIsOfBoxes, RunInv, Untouched
  <2>3. ASSUME NEW r \in Run PROVE RunInv(r)'
        BY <1>12 DEF SaveOutputs, RunInv, Untouched, EnvIsOwn, ForeignOut, HasDirs, ProgramIsOwn, WrittenIsOwn,
                   AnswerIsOwn, CacheIsFull, EnvIsOfBoxes
  <2>. QED BY <2>1, <2>2, <2>3
<1>13. CASE Loop(q)
  <2>1. TypeOK'
        BY <1>13 DEF Loop
  <2>2. EnvIsOfBoxes'
        BY <1>13 DEF Loop, EnvIsOfBoxes
  <2>3. ASSUME NEW r \in Run PROVE RunInv(r)'
        BY <1>13 DEF Loop, RunInv, Untouched, EnvIsOwn, ForeignOut, HasDirs, ProgramIsOwn, WrittenIsOwn,
                   AnswerIsOwn, CacheIsFull, Inserting
  <2>. QED BY <2>1, <2>2, <2>3
<1>. QED BY <1>1, <1>2, <1>3, <1>4, <1>5, <1>6, <1>7, <1>8, <1>9, <1>10, <1>11, <1>12, <1>13 DEF RunDocker

(* Exceptions, and programs that end. *)
LEMMA OthersKeep == ASSUME IInv, NEW q \in Run, Throws(q) \/ ProgramEnds(q) PROVE IInv'
<1> USE SandboxAssumption, RunAssumption
      DEF IInv, TypeOK, Place, DockerPlace, PtracePlace, Over, EnvName, Owner, Program, NoProgram,
          envVars, dockerVars, boxVars, resultVars, Goto
<1>1. CASE Throws(q)
  <2>1. cache' \subseteq cache \cup listing[q] /\ (pc[q] # "insert" => UNCHANGED cache)
        BY <1>1 DEF Throws, Inserted
  <2>2. TypeOK'
        BY <1>1, <2>1 DEF Throws, MayThrow
  <2>3. EnvIsOfBoxes'
        BY <1>1 DEF Throws, EnvIsOfBoxes
  <2>4. ASSUME NEW r \in Run PROVE RunInv(r)'
        BY <1>1, <2>1 DEF Throws, MayThrow, RunInv, Untouched, EnvIsOwn, ForeignOut, HasDirs, ProgramIsOwn,
                   WrittenIsOwn, AnswerIsOwn, CacheIsFull
  <2>. QED BY <2>2, <2>3, <2>4
<1>2. CASE ProgramEnds(q)
  <2>1. TypeOK'
    <3>1. program' \in [Run -> Program]
      <4>1. PICK status \in {"zero", "nonzero"} : program' = [program EXCEPT ![q].state = status]
            BY <1>2 DEF ProgramEnds
      <4>2. [program[q] EXCEPT !.state = status] \in Program
            OBVIOUS
      <4>. QED BY <4>1, <4>2
    <3>2. written' \in [Run -> SUBSET (Run \X Owner)]
      <4>1. <<q, program[q].in>> \in Run \X Owner
            OBVIOUS
      <4>. QED BY <1>2, <4>1 DEF ProgramEnds
    <3>. QED BY <1>2, <3>1, <3>2 DEF ProgramEnds
  <2>2. EnvIsOfBoxes'
        BY <1>2 DEF ProgramEnds, EnvIsOfBoxes, RunInv, Untouched
  <2>3. ASSUME NEW r \in Run PROVE RunInv(r)'
    <3> RunInv(r) /\ RunInv(q)
        OBVIOUS
    <3> USE <1>2 DEF ProgramEnds, RunInv
    <3>1. Untouched(r)'
          BY DEF Untouched, HasDirs, ProgramIsOwn, EnvIsOfBoxes
    <3>2. EnvIsOwn(r)' /\ ForeignOut(r)'
          BY DEF EnvIsOwn, ForeignOut
    <3>3. HasDirs(r)'
          BY DEF HasDirs, Untouched
    <3>4. ProgramIsOwn(r)'
          BY DEF ProgramIsOwn, EnvIsOwn, ForeignOut, EnvIsOfBoxes, Untouched
    <3>5. WrittenIsOwn(r)'
          BY DEF WrittenIsOwn, ProgramIsOwn, Untouched, HasDirs
    <3>6. AnswerIsOwn(r)'
          BY DEF AnswerIsOwn, WrittenIsOwn, Untouched
    <3>7. CacheIsFull(r)'
          BY DEF CacheIsFull, Untouched, NoProgram
    <3>. QED BY <3>1, <3>2, <3>3, <3>4, <3>5, <3>6, <3>7
  <2>. QED BY <2>1, <2>2, <2>3
<1>. QED BY <1>1, <1>2

(* The judge dies, or an image is pulled. *)
LEMMA WorldKeeps ==
  ASSUME IInv, Crash \/ (\E i \in Image : Pull(i)) \/ UNCHANGED vars
  PROVE  IInv'
<1> USE SandboxAssumption, RunAssumption
      DEF IInv, TypeOK, Place, DockerPlace, PtracePlace, Over, EnvName, Owner, Program, NoProgram,
          envVars, dockerVars, boxVars, resultVars, Goto, GoingOn
<1> USE DEF Inserting, EnvIsOfBoxes, RunInv, Untouched, EnvIsOwn, ForeignOut, HasDirs, ProgramIsOwn, WrittenIsOwn,
          AnswerIsOwn, CacheIsFull
<1>1. CASE Crash
  <2>1. TypeOK' /\ EnvIsOfBoxes'
        BY <1>1 DEF Crash
  <2>2. ASSUME NEW r \in Run PROVE RunInv(r)'
        BY <1>1 DEF Crash
  <2>. QED BY <2>1, <2>2
<1>2. ASSUME NEW i \in Image, Pull(i) PROVE IInv'
      BY <1>2 DEF Pull
<1>3. CASE UNCHANGED vars
      BY <1>3 DEF vars
<1>. QED BY <1>1, <1>2, <1>3

-----------------------------------------------------------------------------
LEMMA InitIInv == Init => IInv
<1> SUFFICES ASSUME Init PROVE IInv
    OBVIOUS
<1> USE SandboxAssumption, RunAssumption
      DEF Init, Place, Owner, Program, NoProgram, EnvName, DockerPlace, PtracePlace, Over
<1>1. TypeOK
      BY DEF TypeOK
<1>2. EnvIsOfBoxes
      BY DEF EnvIsOfBoxes
<1>3. ASSUME NEW r \in Run PROVE RunInv(r)
      BY DEF RunInv, Untouched, EnvIsOwn, ForeignOut, HasDirs, ProgramIsOwn, WrittenIsOwn, AnswerIsOwn, CacheIsFull
<1>. QED BY <1>1, <1>2, <1>3 DEF IInv

LEMMA NextIInv == IInv /\ [Next]_vars => IInv'
<1> SUFFICES ASSUME IInv, [Next]_vars PROVE IInv'
    OBVIOUS
<1>. QED BY CallKeeps, PtraceKeeps, DockerKeeps, OthersKeep, WorldKeeps DEF Next, Handle

THEOREM Invariance == Spec => []IInv
<1>. QED BY InitIInv, NextIInv, PTL DEF Spec

(* The types of the judge's state. *)
THEOREM TypeCorrect == Spec => []TypeOK
<1>1. IInv => TypeOK
      BY DEF IInv
<1>. QED BY <1>1, Invariance, PTL

(* Whatever the handlers do at the same time, containers answer for their   *)
(* own runs; boxes do unless another run was between its setenv and its     *)
(* system at the same time.                                                 *)
THEOREM Separation == Spec => []RunsAreSeparate
<1>1. IInv => RunsAreSeparate
  <2> SUFFICES ASSUME IInv, NEW r \in Run
               PROVE  AnswersAreOwn!(r) /\ BoxesAreOwn!(r)
      BY DEF RunsAreSeparate, AnswersAreOwn, BoxesAreOwn
  <2>1. RunInv(r)
        BY DEF IInv
  <2>2. sandbox[r] \in Image \cup {Ptrace}  \/ program[r].state # "running"
        BY <2>1 DEF IInv, TypeOK, RunInv, Untouched, NoProgram
  <2>3. program[r] \in Program
        BY DEF IInv, TypeOK
  <2>. QED BY <2>1, <2>2, <2>3
           DEF RunInv, AnswerIsOwn, ProgramIsOwn, HasDirs, Program
<1>. QED BY <1>1, Invariance, PTL

(* Nothing of a ptrace run stays, and no container of an answered run. *)
THEOREM CleanUp == Spec => []NothingLeftBehind
<1>1. IInv => NothingLeftBehind
      BY DEF IInv, RunInv, HasDirs, NothingLeftBehind
<1>. QED BY <1>1, Invariance, PTL

(* The set of known images agrees with docker as far as handlers do not     *)
(* insert at once, and no container has an image that docker lacks.         *)
THEOREM KnownImages == Spec => []CacheAgreesWithDocker
<1>1. IInv => CacheAgreesWithDocker
      BY DEF IInv, RunInv, CacheIsFull, CacheAgreesWithDocker
<1>. QED BY <1>1, Invariance, PTL
=============================================================================
