# A formal model of cses-green

cses-green is a programming contest system. A **web server** (`web/`) keeps
users, contests, tasks and submissions in an SQLite database and files in a
content-addressed directory. One or more **judge processes** (`judge/`) run
programs in a sandbox on its behalf, over Thrift. This directory holds TLA+
models of the parts of it where threads, processes and failures meet, the
configurations that check them with TLC, and proofs that TLAPS checks.

Paths below are relative to the root of the repository; `judging.cpp` is
`web/judging.cpp`, `main.cpp` is `web/main.cpp`.

## 1. Inventory

| Component | Where | State it keeps | Operations |
|---|---|---|---|
| Judge master | `judging.cpp` 122-278 | queue of tasks, connected and used hosts, one loop thread, one mutex, one condition variable | `addTask`, `updateJudgeHosts`, `addConnectedJudgeHost`, `returnConnection`, `judgeLoop`/`startJudgings`, `UnitTask::execute` |
| Submission judging | `judging.cpp` 280-514, `main.cpp` 391-439 | rows `Submission`, `Result`; per thread copies of them | `submit`, `CompileAndRunTask`, `RunTestGroup`, `SubmissionUpdate` |
| Verdict of a test | `judging.cpp` 323-385, `judge/run_ptrace.cpp`, `run_boxed.sh`, `run_binary.sh`, `restrict_syscalls.cpp`, `compare_ignore_ws.cpp` | clock, files `status` and `stdout`, exit codes | `runForInput`, `evaluateOutput`, the scripts, the evaluator |
| Transfer to judges | `judging.cpp` 30-120, `judge/Judge.cpp`, `TempDir.cpp` | two file stores, a socket per host | `runOnJudge`, `makeSandbox`, `hasFile`, `sendFile`, `getFile`, `run` |
| File store | `common/file.cpp` | directory `files/` | `FileSave`, `readFileByHash`, `fileHashExists` |
| Evaluators and task editing | `main.cpp` 148-171, `judging.cpp` 412-451 | row `Task` | `editTask`, `CompileEvaluatorTask`, the compilation an import queues |
| Submission pages, score board | `main.cpp` 173-389 | none | `listSubmissions`, `scoreBoard`, `viewSubmission` |
| Contest import | `web/import.cpp`, `main.cpp` 620-721 | rows `Contest`, `Task`, `TestGroup`, `TestCase`; an open transaction | `Import::process`, `import` |
| Users, login, languages | `main.cpp` 441-609, 738-760, `model.cpp`, `content.hpp` | rows `User`, `Language`; session cookies | `registration`, `login`, `logout`, `editUser`, `editLanguage`, `testLogin` |
| Docker sandbox | `judge/run_docker.cpp` | directory `tmp/`, `imagesPulledCache`, containers | `runDocker`, `ensureImagePulled` |
| Ptrace sandbox | `judge/run_ptrace.cpp`, `run_boxed.sh` | environment of the judge process, temporary directories | `runPTrace` |
| System call filter | `judge/syscalls/restrict_syscalls.cpp` | table of allowed calls | `parent`, `child`, `readCalls` |
| Judge process | `judge/main.cpp`, `Judge.cpp` | what the sandboxes share | a Thrift server whose handlers are threads |

How they meet:

* A request handler stores a row, then calls `JudgeMaster::addTask`. The judge
  loop pairs the oldest task with a host that is not used and starts a detached
  thread, `UnitTask::execute`. The thread has the connection to itself until
  `ReturnConnection` gives it back.
* Task threads talk to each other through the database only. Each keeps an
  object loaded in one transaction and stores it whole in a later one.
  `RunTestGroup::submissionMutex` is to keep test groups apart.
* `CompileAndRunTask` queues one `RunTestGroup` per test group. The one that
  finishes last publishes the verdict.
* Every task calls `runOnJudge`, which moves files between the two stores and
  runs one program. In the judge process a thread of its own handles the call,
  and does not notice when its caller is gone. Calls overlap there: nothing keeps
  two rows of `JudgeHost` from naming one judge (`updateJudgeHosts` connects once
  per row), and a web server that was restarted calls while old handlers go on.
* An import queues the compilation of its evaluators from inside the transaction
  that stores the tasks; the thread of the compilation loads the task in another.
* Handlers of forms check who asks, load what is edited and store it whole in
  three transactions, with others in between.

What is hard about it: a condition variable without a predicate; a thread that
starts inside a constructor; read-modify-write of rows across transactions; a
destructor that does database work while an exception unwinds; a queue that is
not stored, next to rows that are; exceptions of two families, of which only one
is reported on the submission; checks of a remote store followed by the use of
it; files that appear under their final name while others read them; a timeout
that may cut a script between any two of its commands; an environment and a set
that the threads of a judge share without a lock; work that is queued before the
transaction it depends on is committed; a parser that waits for a word; pages
that order the same rows in two ways. `PROJECT.json` lists
these under `hazards`, each at its line.

What makes each component correct: the judge master gives every task to one
thread and every connection to one task at a time, and starts what can be
started; a submission gets exactly one verdict, READY only when every group was
counted, with the score its results earned; a test is CORRECT only when the
program did what it was to do, and no program is blamed for a failure of ours;
a run has all its files; no row names a file that is not there; a name in
`files/` always has that content; the evaluator in use belongs to its source;
runs in one judge process do not mix; an imported task is the one its author
declared; the score board and the list of submissions agree; who is not an
administrator changes nothing an administrator has to allow.

## 2. Modules

```
TaskPool ............ abstract: a queue, hosts, tasks running on hosts
JudgeMaster ......... implements TaskPool
SubmissionLifecycle . abstract: the states of a submission
Judging ............. on TaskPool; implements SubmissionLifecycle
EvaluatorEditing .... on TaskPool, with the transaction of an import
ContentStore ........ abstract: a set of contents that grows
FileStore ........... implements ContentStore
Transfer ............ two stores, taken as sets that grow, and runOnJudge
CompareIgnoreWs ..... the default evaluator
TestVerdict ......... one test in its box; extends CompareIgnoreWs
JudgeRun ............ the handlers of one judge process and both sandboxes
Accounts ............ users, sessions, the forms of users and languages
Import .............. a package, its task.nfo, the task that is stored
ScorePages .......... submit's clock, the list of submissions, the score board
MCSite .............. Accounts, Import and ScorePages beside one another
*Proofs ............. theorems and proofs about the module of that name
SiteProofs .......... those about Accounts, Import and ScorePages
MC* ................. constants and symmetry for TLC
```

`JudgeMaster` is shown to implement `TaskPool`, so `Judging` and
`EvaluatorEditing` use the pool in place of the scheduler: they instantiate its
actions and add what the task does. In the same way `Transfer` uses stores that
only grow because `FileStore` implements `ContentStore`. What `Judging` leaves
to its environment is the business of the others: which verdict a test gets is
decided in `TestVerdict`, whether a call to a judge fails in `Transfer`, what a
call does inside the judge in `JudgeRun`.

### JudgeMaster

One action per critical section, except `startJudgings`, which holds the mutex
over several steps because the threads it starts run beside it: `StartTask`
starts the thread, `InsertUsed` marks the host used afterwards, as the code
does. `Wait`, `Wake` and `SpuriousWake` are `condition.wait`; `NotifyOne` wakes
a loop that is waiting and is lost otherwise. `BeginConstruction` and
`EndConstruction` model that `mainThread` is the first member of `JudgeMaster`:
the loop may wait on a condition variable that has yet to be constructed, and
then never hears of anything (`deaf`).

### SubmissionLifecycle and Judging

A row holds `status`, `missingResults` and `score`; `mem` holds the copies the
threads loaded. Compilation, each test, the destructor of `SubmissionUpdate`
and the catch block are steps of their own, so that two groups of a submission
interleave between them. `Faults` says which faults can happen: Thrift
exceptions, other exceptions (both wherever the code can throw them and the
process survives it), and crashes of the web server, which lose the queue and
the threads and keep the rows. An exception in `~SubmissionUpdate`, a destructor
and so `noexcept`, is such a crash.

### TestVerdict and CompareIgnoreWs

The life of one test: the box of the program (`echo -3 > status`, the program
under `restrict_syscalls`, `&& echo 1 > status`), `runForInput`, the box of the
evaluator, `evaluateOutput`. The program ends in any of five ways or not at
all. `Cut` is `timeout` and may come between any two steps. Files are sequences
of tokens; the evaluator is modelled read by read, with its stream states.

A program that the kernel kills counts as one that exited with 0
(`restrict_syscalls.cpp` 121-124): that is what the code does, and the
properties say "exit 0 or killed" where one might expect "exit 0".

### FileStore and ContentStore

`FileSave` step by step: the temporary file, blocks hashed and buffered, blocks
flushed, `close`, `rename`, the destructor. An inode is named by the `FileSave`
that made it, so that a rename over an open file can be told from a change of
that file. Constructors and every later call may throw; the process may die at
any point and leaves its directory behind.

### Transfer

The calls of one `runOnJudge` in order, for connections that share judges: the
check of each input, the sending of what is missing, the runner, the outputs
saved by the judge one by one, the check and fetching of each. Connections
break before or after the judge did what it was asked to, and stay broken; both
sides restart. Rows get hashes from uploads and from results.

### EvaluatorEditing

Administrators post the form of one task while compilations that earlier forms
queued are under way. Both keep a whole `Task` from load to store. A binary is
named by its source, so `row.binary = row.source` says that the evaluator in
use is the one on the page.

The model begins where the import has persisted the task in a transaction that
is still open (`import = "open"`): only the import's own connection sees the row.
It queues the compilation (`QueueCompilation(Importer)`), then ends with `Commit`
or `Abort`. A compilation that starts before that finds no task (`LoadFails`),
and since nothing else looks for tasks without a binary the evaluator is missing
until somebody posts the form (`MissedImport`, the exception in both properties).

### JudgeRun

`Call` is `Judge::run` being entered, whatever the other handlers do. A handler then
takes the steps of `runPTrace` or `runDocker`, one action per command or system
call that others can come between. `written[d]` records which program wrote into which
output directory and from which inputs, so that an answer can be traced to its run.
Two pieces of state are shared without a lock:

* `env` is the environment of the process, which three `setenv` calls change one by
  one and which the box inherits at `Fork`. A run is in its window from its first
  `setenv` to its `system`. `mixed` is a history variable: the runs of which the window
  has overlapped with another's. Only to those do the properties promise nothing.
* `cache` is `imagesPulledCache`. While a handler inserts, another's `count` may miss
  what is there or find what is being inserted (`MayMiss`, `MayFind`); after two loops
  of inserts at once the set has lost some of both, and stays so until the process is
  restarted; a handler in a broken set may loop for ever (`Loop`, `"stuck"`) or take
  the process down (`Crash`). `raced` holds the runs that met any of this.

`Throws` ends a handler wherever the code can throw; `Crash` is the judge process that
dies and is started again, leaving boxes and containers running.

### Accounts

A session is a cookie and survives restarts; `getOptionalUser` drops a user who is
not active any more. An edit is three steps, `Begin` (who asks), `Load` (the row),
`StoreUser` or `StoreLanguage` (the whole row, with what the form has put in it; a
blank password or an upload that is missing keeps what was loaded). `Valid` and
`NameInUse` are what `persist` and `update` refuse.

### Import

`ReadDirectory` sorts the files of the package, in whatever order `readdir` listed
them, and pads the outputs. `task.nfo` is a sequence of words read one action per
word by the three nested loops of `Import::process`; `Hang` is a loop whose word
will never come. `Store` assigns cases to groups and commits, `Reject` is a
transaction that rolls back, `ReadFails` a file that cannot be saved or a plain file
where a task's directory should be (`readdir(NULL)` ends the web server). Packages are every pair of sets of inputs and outputs
with a declaration of groups, and every way to leave out one word of it or to cut
it short.

### ScorePages

`TakeTime` and `Submit` are the two halves of `submit`, which takes the time before
it stores the row, so ids and times need not agree. `Judge` is what judging does to a
row: the compilation that leaves no binary or fails, each of `Groups` test groups that
is counted once (`todo` counts down), and the catch block of a group that fails, which
stores `ERROR` with an older score while others may still be counted. `Top` is the first
row of `listSubmissions` in the order of its tuples and `Listed` the number that it
shows, which only a `READY` row has. `Newest` is the row that `scoreBoard` keeps when it
overwrites older ones; it adds the score of that row in any status.

## 3. Runs

| Run | Module and configuration | Shows |
|---|---|---|
| judge_master | MCJudgeMaster, `MCJudgeMaster.cfg` | connections and tasks have one owner (`ConnectionExclusive`, `UsedIsExact`, `TaskOwnedOnce`), a dispatch leaves nothing that could start, the scheduler implements `TaskPool`, and a loop that keeps being woken starts every task |
| judge_master_lost | MCJudgeMaster, `MCJudgeMasterLost.cfg` | violation of `NoLostWakeup` (finding 1) |
| judging | MCJudging, `MCJudging.cfg` | all faults: `MissingCounts`, `ReadyIsComplete`, `ScoreIsEarned`, and the life cycle |
| judging_live | MCJudging, `MCJudgingLive.cfg` | Thrift faults only: every submission gets a verdict if no task stays queued for ever, and READY means that every group was judged |
| judging_lost_update | MCJudging, `MCJudgingLost.cfg` | violation of `NoUpdateLost` (finding 2) |
| evaluator | MCEvaluator, `MCEvaluator.cfg` | an import and two edits: a stale binary is about to be replaced and without failures and compilations that stay queued the evaluator settles, unless the import's compilation began before its commit |
| file_store | MCFileStore, `MCFileStore.cfg` | reads are whole, temporary files are owned, the content store is implemented |
| transfer | MCTransfer, `MCTransfer.cfg` | a run has its files, rows never dangle, nothing is asked for where it is not |
| test_verdict | MCTestVerdict, `MCTestVerdict.cfg` | CORRECT is earned, blame is deserved, a cut is a time limit, every test is judged |
| compare_equal | MCTestVerdict, `MCTestVerdictAccepts.cfg` | violation of `AcceptsOnlyEqual` (finding 3) |
| judge_run | MCJudgeRun, `MCJudgeRun.cfg` | runs keep to their own inputs, directories and programs and leave nothing behind (`RunsAreSeparate`, `NothingLeftBehind`), an image is missing only if docker did not list it and none is run that docker lacks (`CacheAgreesWithDocker`), however calls overlap, except where the unlocked environment or set was used by two at once; every call ends |
| site | MCSite, `MCSite.cfg` | no edit of an outsider before one of an insider, unique names; whole packages become the task they declare and imports of them end; the board agrees with the list on what is neither being judged nor in ERROR |

Bounds, and why they are enough:

* judge_master: three tasks, three hosts. A host can be free, picked and used at
  the same time as others, and there are more tasks than free hosts.
* judging: two submissions of two groups (one test, two tests) on two hosts;
  judging_live: one of three groups. Two groups of a submission run at once,
  another waits, and a second submission competes for hosts.
* evaluator: the import and two forms, two sources, two hosts: two compilations
  run at once while a form overwrites their row.
* file_store: three `FileSave`s, two temporary names, an empty content and one of
  two blocks: equal contents meet, names are used again, buffers are half full.
* judge_run: two calls, of ptrace or of the one image, which docker has or gets
  later. The calls overlap in every way. Every property is about one run and what
  one other does to it.
* site: an insider's and an outsider's browser, two edits that overlap, up to three
  users and three names, so that one edit can take a name, promote or rename while
  the other holds an older row; packages of up to three inputs and three outputs
  under five declarations (none, two groups, a case in both, an empty group, points
  that are refused) with every one-word slip; three posts of a contestant to two
  tasks of two groups within two seconds, so that two newest rows can be of one second,
  and a newest row can be older by id; a group gives one point or none, and the score of
  a row can be the points of two groups, of one, or an older one. `MaxUsers` and `LastSecond` are the bounds in guards.
  The three modules share no variable; `MCSite` lets each move only while the other
  two have not begun, since no property relates them.
* transfer: two contents, two connections to one judge, two inputs and outputs a
  run. Connections to different judges share only the web server's store, which
  the two connections here share as well.
* test_verdict: files of up to two tokens of two kinds; a limit of one and a half
  seconds in ticks of half a second, and a clock that goes beyond the timeout.

Every property of a passing run has a mutant in `PROJECT.json`: a definition of
the model with a plausible bug, kept beside the original and marked "Mutant" in
its comment, with which TLC finds the property violated.

`CHECK_DEADLOCK FALSE` stands where the system may really stop: all calls, posts
and handlers of the instance are over, or an import hangs.

Fairness:

* `JudgeMaster!Fairness`: the loop thread and the constructor run on; a task that
  runs gives its connection back (strong fairness, as its step waits for a mutex).
  Nobody has to add tasks or hosts. That judges answer is an assumption: the
  connection has no timeouts (`judging.cpp` 109-119).
* `Judging!ThreadFairness` and `EvaluatorEditing!Fairness`: handlers and threads that
  have been started run to their end, and an import commits or aborts. Nothing is
  assumed of the pool: since the loop waits without a predicate (`judging.cpp` 187-194),
  a queued task need not start. `EventuallyJudged` and `EvaluatorSettles` are therefore
  conditional, `NoTaskStaysQueued => ...`. When the condition holds is a matter of the
  scheduler: `StartsWhenWoken` shows that a loop which keeps being woken, and has hosts,
  starts every task, and `NoLostWakeup` that a lone submission may not be started.
* `JudgeRun!Fairness`: the thread of a handler runs on, and the box of a ptrace run
  ends because `run_boxed.sh` runs its program under `timeout` (without `-k`: what is
  waited for is the script, see section 6). Nothing is assumed of
  a container: the handler itself removes it after the time limit.
* `MCSite!FairSpec`: the handler of an import runs on. Nobody has to upload.
* `TestVerdict!Fairness`: time passes, `timeout` works and the judging thread
  goes on. Nothing is assumed of the program or the evaluator.

## 4. Findings

1. **A lost wake-up** (`judging.cpp` 190). A task that is added while the loop is
   between two waits stays queued beside an idle judge until the next event.
2. **A lost update** (`judging.cpp` 311-314). The catch block of a failing group
   stores a copy that is older than what another group has just counted.
3. **Repeated last tokens** (`compare_ignore_ws.cpp` 13). The evaluator accepts
   the output `a` for the correct output `a a`.

Also met while modelling, without a run:

* An edit of a task that is made while a compilation runs is overwritten by it,
  source included (the evaluator that is left is consistent, but it is the old one).
* The compilation an import queues may begin before the import commits; the task then
  has no evaluator until its form is posted (`main.cpp` 713).
* After a first compilation that failed the page says "Compiling..." for ever and
  does not show the message (`main.cpp` 169).
* An exception that is not a Thrift exception leaves a submission JUDGING or counts a
  group that was not judged; a submission that was PENDING or JUDGING at a restart
  stays so.
* Two rows of `JudgeHost` with one judge, or a restart of the web server in the middle
  of a run, make calls overlap in a judge. When two of them are between `setenv` and
  `system`, a box starts with the directories or the system calls of another run
  (`run_ptrace.cpp` 55, "this is not thread safe"); when two use the set of images, a
  run may be refused for an image that docker has, loop for ever or end the process
  (`run_docker.cpp` 93-121).
* What `runDocker` throws leaves its directories, and a container if there was one;
  so does a judge process that dies, which leaves the directories of ptrace runs too.
* A group in `task.nfo` that is not closed by `end` makes the import read for ever
  (`import.cpp` 75). An output that is missing in the middle shifts those after it
  onto the wrong inputs. A case in no group scores in the first, a case in several
  in the last.
* `editUser` stores the password it loaded when the field is blank: overlapping edits
  bring an old one back. An administrator may take away his own rights, also the last
  one.
* `langID` is never set in `editLanguage`, so an existing language cannot be changed
  (`main.cpp` 554-609).
* Two submissions in the same second: the list and the board may show different ones.
* The score board adds the score of a row in any status (`main.cpp` 245; 258 has the
  TODO), where the list has a number only for READY (`main.cpp` 200-204). While groups
  are counted, and for ever after an ERROR, the board counts points that the list does
  not show.

## 5. Proofs

All theorems hold for every value of the constants that satisfies the named
assumptions of the module (`HostAssumption`, `BlocksAssumption`, ...). The
argument is the same everywhere: an inductive invariant `IInv` that holds
initially, is kept by every action, and implies the property.

* **JudgeMasterProofs.** Type correctness, `ConnectionExclusive`, `UsedIsExact`,
  `TaskOwnedOnce`, `DispatchLeavesNothingRunnable`, and the refinement of
  `TaskPool`. The strengthening adds that nothing happens before `main()` serves,
  that during a dispatch `freeHosts` and the picked host split the connected
  hosts that are not used, and that every queued or running task has been added.
  The refinement maps `StartTask` to `Start`, `ReturnConnection` to `Finish`, and
  the steps of the mutex and the condition variable to stutters.
* **JudgingProofs.** Type correctness, `MissingCounts`, `ReadyIsComplete` and the
  refinement of `SubmissionLifecycle` (`FollowsLifecycle`).
  `MissingCounts` alone is not inductive. The strengthening has four parts: a queued
  task is idle, was added, and is queued once; no group of a submission is added
  before the number of groups is stored, and the compiling task holds a `JUDGING`
  object; `missingResults` never falls below the number of groups still to be
  counted, not even when a `catch` block stores its old copy, and equals it without
  an `ERROR`; and a `READY` submission has no group left. The third part is what
  `ReadyIsComplete` needs, whatever fails. The refinement needs a second invariant,
  `LifeOK`: until the compiling thread queues groups it alone writes the row, so
  the object it holds is the row; afterwards the status is `JUDGING`, `READY` or
  `ERROR`, also when a `catch` block of a group overwrites it. `ReadyMeansJudged`,
  for `Faults` without other exceptions and crashes, adds `FailureShown`: a thread that
  has ended with tests left has stored `ERROR`, and whoever stores the row later
  keeps that.
  `ScoreIsEarned` holds whatever fails. Its strengthening, `ScoreInv`, says that a
  group never has more rows than tests, that a thread which an exception interrupts
  has tests left, that without an `ERROR` the score is the sum of the points of the
  groups that are counted and earned, and that the score, in the row or in an object
  that a `catch` block will store, is never more than that. The
  server adds points with a fold; `SumIsUnits` shows that such a sum is the
  cardinality of a set with `Points[g]` elements for every group, so that the laws of
  cardinalities say what one more group adds.
  `NothingWithoutVerdict` (for tasks with groups, `Faults` without other exceptions and
  crashes) is the part of `EventuallyJudged` that needs no fairness: when nothing of a
  submission is left to run, it has its verdict. The invariant `VerdictToCome` says who
  will write it: the handler or the compiling thread, then the group that makes
  `missingResults` zero. `OnlyCatchLosesUpdates` bounds the finding about
  `NoUpdateLost`: without failing calls to a judge no `catch` block stores an old
  object, and no count is lost, also when threads end with other exceptions or the
  process dies. `JudgingUsesThePool` shows that every behaviour of `Judging` is one of
  `TaskPool`, the specification that `JudgeMaster` implements.
* **EvaluatorProofs.** Type correctness and `StaleMeansPending`. An action that
  stores no row keeps every pending compilation pending; one that stores a row
  either leaves a pending compilation or stores a source with its binary. The
  strengthening, `OpenImport`, is about the time before the commit: no form has been
  loaded, no compilation is past its load, and the import's own compilation is
  pending or has missed the task.
* **JudgeRunProofs.** Type correctness, `RunsAreSeparate`, `NothingLeftBehind` and
  `CacheAgreesWithDocker`, for any number of overlapping calls and images. In its
  window, the environment holds what a run has set, unless the window has overlapped
  (`EnvIsOwn`); and what a run is about to be given as an output directory is its own or
  that of a run whose window has overlapped (`ForeignOut`), so that a box which is
  started with a foreign environment can only harm runs that are marked, too. Hence a
  box has what its own run set (`ProgramIsOwn`), and what is written in a run's directory
  is of that program (`WrittenIsOwn`). Containers are started with arguments rather than
  the environment, and need none of this. For the set, `CacheIsFull`: between its inserts
  and its second look at the set no other handler inserts, unless the run is marked, so
  that what docker listed is still there.
* **FileStoreProofs.** Type correctness, `TmpFilesOwned`, `ReadsAreWhole`, and the
  refinement of `ContentStore`. The strengthening says that a `FileSave` remembers
  its temporary name exactly while the file exists, that a file is whole once it
  is closed, and that whatever a hash in the directory or an open reader refers to
  is the inode of a finished save: whole, of that hash, and never written again.
* **TransferProofs.** Type correctness, `RunHasItsFiles`, `NothingDangles` and
  `TransfersFindTheirFile`. The strengthening says of each call that the inputs
  not in `todo` any more are at its judge, that a running program has all of them,
  and that every hash a call deals with is at the web server, because rows
  reference only what the web server has.
* **TestVerdictProofs.** Type correctness, `CorrectIsEarned`, `BlameIsDeserved` and
  `CutIsTimeLimit`, for every time limit no longer than the timeout. The
  strengthening has the invariant of the evaluator's loop in it, and says for each
  place of the script what the files `status` and `stdout` hold, that a cut comes
  after the limit, and that the evaluator runs only for a program that succeeded
  and has written its answer only when its loop has ended. The same module proves
  `AcceptsExactly` of the default evaluator alone, for files of any length; its
  invariant is that of the loop, with the round counted by the tokens read from the
  correct output.
* **SiteProofs**, three arguments about modules that share no state.
  * *Accounts:* `OutsidersNeedInsiders`. Until somebody else has stored an edit, the
    first user is the only administrator and has a password that the outsider does
    not know, the outsider's session is not the first user's, and no edit of the
    outsider has passed the check (`Untouched`). Names stay unique because a stored
    user still has the id it was loaded with, and rows are never deleted.
  * *ScorePages:* `BoardAgreesWithList`, with `GroupsAssumption` (a task has a group) and
    `GainsAssumption` (what is added to a score is a natural number). If a user has only
    one newest submission to a task, it is the top of the list (`TopIsNewest`). What the
    list shows of it is what the board counts (`ListedIsScore`): this rests on an
    invariant of the steps, `ScoreOK`, that a row has no points before a group of it is
    counted and that a row which is PENDING or has a COMPILE_ERROR has none counted. The
    sum over the set of newest submissions, which the board computes, is the number of
    its only member (`SumOfOne`), so both folds over the tasks have the same summands.
  * *Import:* `ImportedAsDeclared`, with `SuffixAssumption` (names are finitely many
    natural numbers) and `DeclarationsAssumption` (points are integers, cases are
    natural numbers). Sorting puts a name at the number of names up to it
    (`SortedPlaces`), so an input is compared with the output of the same name
    whatever `readdir` returned. `ReadingOK` is the invariant of the parser: the groups
    it has made are those the author declared, and what is left of `task.nfo` is the rest
    of the current group followed by the groups not yet read (`Rest`). Hence it also
    never waits for a word of a whole file that will not come
    (`WholePackagesAreRead`, the safety half of `ImportEnds`).

The induction theorems of the library take an operator as a parameter and cannot be
used. Where a proof needs induction over data (`SumIsUnits`, the sorted lists, the
words of `task.nfo`), it takes the set of bad values instead and a minimal element of
it: a smallest number, or a smallest subset in the strict subset ordering, which the
library shows to be well founded (`SetInduction`, `CountingUp`).

Only model-checked: liveness (`StartsWhenWoken`, `EventuallyJudged`,
`EvaluatorSettles`, `EveryRunEnds`, `ImportEnds`, and the `EventuallyJudged` of
`TestVerdict`) and everything else under
fairness, which is beyond the provers. Every invariant and action property of the
passing runs is a theorem; those of the runs that expect a violation are of course not.

## 6. Not modelled

* Pages that only read, or that store one row whose every field is in the form
  (`editContest`, `viewCode`, the static pages).
* Submission languages, runners and docker fields of a language: the same template
  and the same whole-row update as the evaluator languages of `Accounts`.
* Names of test files that are input and output at once; the other tasks of a package,
  which are read by the same loop and stored by the same transaction.
* Images that are removed from docker while a judge runs: `imagesPulledCache` is never
  shrunk, and `docker run` would then fail like any other command.
* Which file names and parameters `checkRunParameters` refuses: `JudgeRun` lets the
  check throw.
* A sandboxed program is taken not to write to its inputs, which are hard links to
  files of the store.
* The loop of `restrict_syscalls` over the stops of its child, and the list of calls
  it lets pass: only how it ends. The seccomp filter is compiled out.
* A machine that loses power: `FileSave` does not sync files before it renames them.
* What a process that ignores the signal of `timeout` does after the script that started
  it has ended (`run_boxed.sh` 17 has no `-k`): `Waited` waits for the script, as `system`
  does.
* A clock that is set back: times come from `gettimeofday`, which is not monotonic, and
  `TestVerdict` lets time only pass.
* What is left on disk by an import that is not finished: its directory and its files.
* SHA-1 is taken to be injective, SQLite transactions to be serialisable.
* CppCMS, ODB, Thrift, the templates, and the layout of pages.

## 7. What is left

`RestrictSyscalls`: the loop of the tracer against its child; a call that is not
allowed is never carried out. It needs a model of what the kernel promises a tracer,
of which this repository says little.
