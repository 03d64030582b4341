----------------------------- MODULE FileStore -----------------------------
(***************************************************************************)
(* common/file.cpp: FileSave and readFileByHash, in the directory "files"  *)
(* that the threads of a process share and that outlives the process. The  *)
(* web server and every judge have one each.                               *)
(*                                                                         *)
(* A content is a number of blocks; its hash is the content itself. Every  *)
(* FileSave creates one inode, which is named after it, and is given one   *)
(* content, block after block.                                             *)
(***************************************************************************)
EXTENDS Naturals

CONSTANTS
  Content,         \* the byte strings
  Blocks,          \* Blocks[c]: the number of blocks of c
  Saver,           \* the FileSave objects
  Reader,          \* the threads that read files
  TmpName,         \* the names mkstemp can choose
  None

ASSUME BlocksAssumption == Blocks \in [Content -> Nat]
ASSUME NoneAssumption == None \notin TmpName

VARIABLES
  pc,              \* pc[s]: where FileSave s is
  content,         \* content[s]: what its owner writes
  given,           \* given[s]: blocks passed to write(), all hashed
  data,            \* data[s]: blocks that have left the stream's buffer
  tmpfilename,     \* tmpfilename[s], None for ""
  tmp,             \* the entries files/tmp_*: name -> FileSave that made the inode
  dir,             \* the entries files/<hash>: content -> FileSave that made the inode
  reading          \* reading[r]: the file a reader has open, None if it has none

vars == <<pc, content, given, data, tmpfilename, tmp, dir, reading>>

(* "new"; "writing": constructed; "closed": save() has closed tmpfile;      *)
(* "saved": save() has returned; "unwind": an exception leaves the scope;   *)
(* "done": destroyed; "dead": its constructor threw or its process died.    *)
Place == {"new", "writing", "closed", "saved", "unwind", "done", "dead"}

(* len: what seekg and tellg said, None before. *)
OpenFile == [hash : Content, inode : Saver, len : Nat \cup {None}]

TypeOK ==
  /\ pc \in [Saver -> Place]
  /\ content \in [Saver -> Content]
  /\ given \in [Saver -> Nat]
  /\ data \in [Saver -> Nat]
  /\ \A s \in Saver : data[s] <= given[s] /\ given[s] <= Blocks[content[s]]
  /\ tmpfilename \in [Saver -> TmpName \cup {None}]
  /\ DOMAIN tmp \subseteq TmpName /\ tmp \in [DOMAIN tmp -> Saver]
  /\ DOMAIN dir \subseteq Content /\ dir \in [DOMAIN dir -> Saver]
  /\ reading \in [Reader -> OpenFile \cup {None}]

Init ==
  /\ pc = [s \in Saver |-> "new"]
  /\ content \in [Saver -> Content]
  /\ given = [s \in Saver |-> 0]
  /\ data = [s \in Saver |-> 0]
  /\ tmpfilename = [s \in Saver |-> None]
  /\ tmp = [n \in {} |-> None]
  /\ dir = [h \in {} |-> None]
  /\ reading = [r \in Reader |-> None]

-----------------------------------------------------------------------------
(* A directory entry is added (or replaced) and removed. *)
Link(entries, name, inode) ==
  [n \in DOMAIN entries \cup {name} |-> IF n = name THEN inode ELSE entries[n]]
Unlink(entries, name) == [n \in DOMAIN entries \ {name} |-> entries[n]]

Goto(s, place) == pc' = [pc EXCEPT ![s] = place]

(* FileSave(): mkstemp makes an empty file under a name that is not taken.  *)
Create(s, n) ==
  /\ pc[s] = "new"
  /\ n \notin DOMAIN tmp
  /\ tmp' = Link(tmp, n, s)
  /\ tmpfilename' = [tmpfilename EXCEPT ![s] = n]
  /\ Goto(s, "writing")
  /\ UNCHANGED <<content, given, data, dir, reading>>

(* tmpfile.open throws: the destructor of an object that was never          *)
(* constructed does not run, and the file stays.                            *)
CreateThrows(s, n) ==
  /\ pc[s] = "new"
  /\ n \notin DOMAIN tmp
  /\ tmp' = Link(tmp, n, s)
  /\ Goto(s, "dead")
  /\ UNCHANGED <<content, given, data, tmpfilename, dir, reading>>

(* write(): the block is hashed, and put into the stream's buffer. *)
Write(s) ==
  /\ pc[s] = "writing"
  /\ given[s] < Blocks[content[s]]
  /\ given' = [given EXCEPT ![s] = @ + 1]
  /\ UNCHANGED <<pc, content, data, tmpfilename, tmp, dir, reading>>

(* Mutant: a block reaches the file more than once. *)
Flush_Again(s) ==
  /\ pc[s] = "writing"
  /\ data[s] < Blocks[content[s]]
  /\ data' = [data EXCEPT ![s] = @ + 1]
  /\ UNCHANGED <<pc, content, given, tmpfilename, tmp, dir, reading>>

(* The stream empties its buffer when it likes. *)
Flush(s) ==
  /\ pc[s] = "writing"
  /\ data[s] < given[s]
  /\ data' = [data EXCEPT ![s] = @ + 1]
  /\ UNCHANGED <<pc, content, given, tmpfilename, tmp, dir, reading>>

(* Mutant: the file is not closed before it gets its name. *)
Close_Buffered(s) ==
  /\ pc[s] = "writing"
  /\ given[s] = Blocks[content[s]]
  /\ Goto(s, "closed")
  /\ UNCHANGED <<content, given, data, tmpfilename, tmp, dir, reading>>

(* save() up to tmpfile.close(), which empties the buffer; everything has   *)
(* been written by then.                                                    *)
Close(s) ==
  /\ pc[s] = "writing"
  /\ given[s] = Blocks[content[s]]
  /\ data' = [data EXCEPT ![s] = given[s]]
  /\ Goto(s, "closed")
  /\ UNCHANGED <<content, given, tmpfilename, tmp, dir, reading>>

(* Mutant: tmpfilename is kept. *)
Rename_KeepsName(s) ==
  /\ pc[s] = "closed"
  /\ dir' = Link(dir, content[s], s)
  /\ tmp' = Unlink(tmp, tmpfilename[s])
  /\ Goto(s, "saved")
  /\ UNCHANGED <<content, given, data, tmpfilename, reading>>

(* save(): rename() replaces an equal file that is there already.           *)
Rename(s) ==
  /\ pc[s] = "closed"
  /\ dir' = Link(dir, content[s], s)
  /\ tmp' = Unlink(tmp, tmpfilename[s])
  /\ tmpfilename' = [tmpfilename EXCEPT ![s] = None]
  /\ Goto(s, "saved")
  /\ UNCHANGED <<content, given, data, reading>>

(* The disk is full, the source of the data cannot be read, or rename()     *)
(* fails: each throws through the scope of the FileSave.                    *)
Throws(s) ==
  /\ pc[s] \in {"writing", "closed"}
  /\ Goto(s, "unwind")
  /\ UNCHANGED <<content, given, data, tmpfilename, tmp, dir, reading>>

(* Mutant: what was saved is removed with the FileSave. *)
Destroy_RemovesSaved(s) ==
  /\ pc[s] \in {"saved", "unwind"}
  /\ tmp' = IF tmpfilename[s] = None THEN tmp ELSE Unlink(tmp, tmpfilename[s])
  /\ dir' = Unlink(dir, content[s])
  /\ tmpfilename' = [tmpfilename EXCEPT ![s] = None]
  /\ Goto(s, "done")
  /\ UNCHANGED <<content, given, data, reading>>

(* ~FileSave() *)
Destroy(s) ==
  /\ pc[s] \in {"saved", "unwind"}
  /\ tmp' = IF tmpfilename[s] = None THEN tmp ELSE Unlink(tmp, tmpfilename[s])
  /\ tmpfilename' = [tmpfilename EXCEPT ![s] = None]
  /\ Goto(s, "done")
  /\ UNCHANGED <<content, given, data, dir, reading>>

-----------------------------------------------------------------------------
(* readFileByHash: open, find the length, read that much. *)
OpenByHash(r, h) ==
  /\ reading[r] = None
  /\ h \in DOMAIN dir
  /\ reading' = [reading EXCEPT ![r] = [hash |-> h, inode |-> dir[h], len |-> None]]
  /\ UNCHANGED <<pc, content, given, data, tmpfilename, tmp, dir>>

TellLength(r) ==
  /\ reading[r] # None
  /\ reading[r].len = None
  /\ reading' = [reading EXCEPT ![r].len = data[reading[r].inode]]
  /\ UNCHANGED <<pc, content, given, data, tmpfilename, tmp, dir>>

ReadAndClose(r) ==
  /\ reading[r] # None
  /\ reading[r].len # None
  /\ reading' = [reading EXCEPT ![r] = None]
  /\ UNCHANGED <<pc, content, given, data, tmpfilename, tmp, dir>>

(* The process dies: directories stay, objects and buffers are lost. *)
Crash ==
  /\ pc' = [s \in Saver |-> IF pc[s] \in {"new", "done"} THEN pc[s] ELSE "dead"]
  /\ tmpfilename' = [s \in Saver |-> None]
  /\ reading' = [r \in Reader |-> None]
  /\ UNCHANGED <<content, given, data, tmp, dir>>

-----------------------------------------------------------------------------
Next ==
  \/ \E s \in Saver, n \in TmpName : Create(s, n) \/ CreateThrows(s, n)
  \/ \E s \in Saver :
       Write(s) \/ Flush(s) \/ Close(s) \/ Rename(s) \/ Throws(s) \/ Destroy(s)
  \/ \E r \in Reader, h \in Content : OpenByHash(r, h)
  \/ \E r \in Reader : TellLength(r) \/ ReadAndClose(r)
  \/ Crash

Spec == Init /\ [][Next]_vars

-----------------------------------------------------------------------------
(* Properties *)

Whole(s) == data[s] = Blocks[content[s]]

(* Concurrent savers, exceptions and crashes implement the content store: a *)
(* file appears under its hash in one step and whole, and never changes or  *)
(* disappears. So an answer of fileHashExists stays true.                   *)
Store == INSTANCE ContentStore WITH
  file <- [h \in DOMAIN dir |-> IF Whole(dir[h]) THEN content[dir[h]] ELSE None]
ImplementsContentStore == Store!StoreSpec

(* A thread that reads a file by its hash gets the content of that hash,    *)
(* even when the file is replaced by an equal one while it is open.         *)
ReadsAreWhole ==
  \A r \in Reader :
    reading[r] # None => LET f == reading[r] IN
      /\ content[f.inode] = f.hash
      /\ f.len # None => f.len = Blocks[f.hash]

(* ~FileSave unlinks by name, so the name a FileSave remembers must be its  *)
(* own file, never one another FileSave made since; and a temporary file    *)
(* that nobody will unlink is left only by a dead process or constructor.   *)
TmpFilesOwned ==
  /\ \A s \in Saver : tmpfilename[s] # None =>
       tmpfilename[s] \in DOMAIN tmp /\ tmp[tmpfilename[s]] = s
  /\ \A n \in DOMAIN tmp : pc[tmp[n]] = "dead" \/ tmpfilename[tmp[n]] = n
=============================================================================
