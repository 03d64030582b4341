-------------------------- MODULE FileStoreProofs --------------------------
(***************************************************************************)
(* Proofs about FileStore: types, the ownership of temporary files, whole  *)
(* reads, and that FileStore implements ContentStore.                      *)
(***************************************************************************)
EXTENDS FileStore, TLAPS

(* A FileSave remembers a name exactly while it has a temporary file, and   *)
(* a closed file is whole.                                                  *)
SaverOK(s) ==
  /\ tmpfilename[s] # None <=> pc[s] \in {"writing", "closed", "unwind"}
  /\ pc[s] = "closed" => Whole(s)

(* The inodes that hashes name: whole, and never written again. *)
Stored(s) == Whole(s) /\ pc[s] \in {"saved", "done", "dead"}

(* The same after a step, of an inode that was picked before it. *)
StoredNext(s) ==
  /\ data'[s] = Blocks[content'[s]]
  /\ pc'[s] \in {"saved", "done", "dead"}
  /\ content'[s] = content[s]

DirOK == \A h \in DOMAIN dir : content[dir[h]] = h /\ Stored(dir[h])

ReadingOK ==
  \A r \in Reader :
    reading[r] # None => LET f == reading[r] IN
      /\ content[f.inode] = f.hash
      /\ Stored(f.inode)
      /\ f.len # None => f.len = Blocks[f.hash]

IInv ==
  /\ TypeOK
  /\ TmpFilesOwned
  /\ \A s \in Saver : SaverOK(s)
  /\ DirOK
  /\ ReadingOK

-----------------------------------------------------------------------------
LEMMA InitIInv == Init => IInv
<1> SUFFICES ASSUME Init PROVE IInv
    OBVIOUS
<1>1. TypeOK
      BY BlocksAssumption DEF Init, TypeOK, Place
<1>2. TmpFilesOwned
      BY DEF Init, TmpFilesOwned
<1>3. (\A s \in Saver : SaverOK(s)) /\ DirOK /\ ReadingOK
      BY DEF Init, SaverOK, DirOK, ReadingOK
<1>. QED BY <1>1, <1>2, <1>3 DEF IInv

(* Types. *)
LEMMA TypeStep == ASSUME TypeOK, [Next]_vars PROVE TypeOK'
<1> USE DEF TypeOK, Goto
<1>1. ASSUME NEW s \in Saver, NEW n \in TmpName, Create(s, n) PROVE TypeOK'
      BY <1>1 DEF Create, Link, Place
<1>2. ASSUME NEW s \in Saver, NEW n \in TmpName, CreateThrows(s, n) PROVE TypeOK'
      BY <1>2 DEF CreateThrows, Link, Place
<1>3. ASSUME NEW s \in Saver, Write(s) PROVE TypeOK'
      BY <1>3, BlocksAssumption DEF Write
<1>4. ASSUME NEW s \in Saver, Flush(s) PROVE TypeOK'
      BY <1>4 DEF Flush
<1>5. ASSUME NEW s \in Saver, Close(s) PROVE TypeOK'
      BY <1>5 DEF Close, Place
<1>6. ASSUME NEW s \in Saver, Rename(s) PROVE TypeOK'
      BY <1>6 DEF Rename, Link, Unlink, Place
<1>7. ASSUME NEW s \in Saver, Throws(s) PROVE TypeOK'
      BY <1>7 DEF Throws, Place
<1>8. ASSUME NEW s \in Saver, Destroy(s) PROVE TypeOK'
      BY <1>8 DEF Destroy, Unlink, Place
<1>9. ASSUME NEW r \in Reader, NEW h \in Content, OpenByHash(r, h) PROVE TypeOK'
  <2>1. [hash |-> h, inode |-> dir[h], len |-> None] \in OpenFile
        BY <1>9 DEF OpenByHash, OpenFile
  <2>. QED BY <1>9, <2>1 DEF OpenByHash
<1>10. ASSUME NEW r \in Reader, TellLength(r) PROVE TypeOK'
  <2>1. reading[r] \in OpenFile
        BY <1>10 DEF TellLength
  <2>2. [reading[r] EXCEPT !.len = data[reading[r].inode]] \in OpenFile
        BY <2>1 DEF OpenFile
  <2>. QED BY <1>10, <2>2 DEF TellLength
<1>11. ASSUME NEW r \in Reader, ReadAndClose(r) PROVE TypeOK'
       BY <1>11 DEF ReadAndClose
<1>12. CASE Crash
       BY <1>12 DEF Crash, Place
<1>13. CASE UNCHANGED vars
       BY <1>13 DEF vars
<1>. QED
  BY <1>1, <1>2, <1>3, <1>4, <1>5, <1>6, <1>7, <1>8, <1>9, <1>10, <1>11, <1>12, <1>13 DEF Next

(* Temporary files. *)
LEMMA TmpStep == ASSUME IInv, [Next]_vars PROVE TmpFilesOwned' /\ \A s \in Saver : SaverOK(s)'
<1> USE NoneAssumption DEF IInv, TypeOK, TmpFilesOwned, SaverOK, Whole, Goto
<1> DEFINE Goal == TmpFilesOwned' /\ \A s \in Saver : SaverOK(s)'
<1>1. ASSUME NEW s \in Saver, NEW n \in TmpName, Create(s, n) PROVE Goal
      BY <1>1 DEF Create, Link
<1>2. ASSUME NEW s \in Saver, NEW n \in TmpName, CreateThrows(s, n) PROVE Goal
      BY <1>2 DEF CreateThrows, Link
<1>3. ASSUME NEW s \in Saver, Write(s) PROVE Goal
      BY <1>3 DEF Write
<1>4. ASSUME NEW s \in Saver, Flush(s) PROVE Goal
      BY <1>4 DEF Flush
<1>5. ASSUME NEW s \in Saver, Close(s) PROVE Goal
      BY <1>5 DEF Close
<1>6. ASSUME NEW s \in Saver, Rename(s) PROVE Goal
      BY <1>6 DEF Rename, Unlink
<1>7. ASSUME NEW s \in Saver, Throws(s) PROVE Goal
      BY <1>7 DEF Throws
<1>8. ASSUME NEW s \in Saver, Destroy(s) PROVE Goal
      BY <1>8 DEF Destroy, Unlink
<1>9. ASSUME NEW r \in Reader, NEW h \in Content, OpenByHash(r, h) PROVE Goal
      BY <1>9 DEF OpenByHash
<1>10. ASSUME NEW r \in Reader, TellLength(r) \/ ReadAndClose(r) PROVE Goal
       BY <1>10 DEF TellLength, ReadAndClose
<1>12. CASE Crash
       BY <1>12 DEF Crash
<1>13. CASE UNCHANGED vars
       BY <1>13 DEF vars
<1>. QED
  BY <1>1, <1>2, <1>3, <1>4, <1>5, <1>6, <1>7, <1>8, <1>9, <1>10, <1>12, <1>13 DEF Next

(* What a hash names stays as it is. *)
LEMMA StoredStep ==
  ASSUME IInv, [Next]_vars, NEW s \in Saver, Stored(s)
  PROVE  StoredNext(s)
<1> USE DEF IInv, TypeOK, Stored, StoredNext, Whole, Goto
<1>1. CASE \E u \in Saver, n \in TmpName : Create(u, n) \/ CreateThrows(u, n)
      BY <1>1 DEF Create, CreateThrows
<1>2. CASE \E u \in Saver : Write(u) \/ Flush(u) \/ Close(u)
      BY <1>2 DEF Write, Flush, Close
<1>3. CASE \E u \in Saver : Rename(u) \/ Throws(u) \/ Destroy(u)
      BY <1>3 DEF Rename, Throws, Destroy
<1>4. CASE \E r \in Reader, h \in Content : OpenByHash(r, h)
      BY <1>4 DEF OpenByHash
<1>5. CASE \E r \in Reader : TellLength(r) \/ ReadAndClose(r)
      BY <1>5 DEF TellLength, ReadAndClose
<1>6. CASE Crash
      BY <1>6 DEF Crash
<1>7. CASE UNCHANGED vars
      BY <1>7 DEF vars
<1>. QED BY <1>1, <1>2, <1>3, <1>4, <1>5, <1>6, <1>7 DEF Next

(* The directory changes by a rename only, and what is renamed is whole. *)
LEMMA DirStep ==
  ASSUME IInv, [Next]_vars
  PROVE  \/ UNCHANGED dir
         \/ \E s \in Saver : dir' = Link(dir, content[s], s) /\ StoredNext(s)
<1>1. ASSUME NEW s \in Saver, Rename(s)
      PROVE  dir' = Link(dir, content[s], s) /\ StoredNext(s)
      BY <1>1 DEF IInv, TypeOK, SaverOK, Rename, StoredNext, Whole, Goto
<1>2. CASE ~ \E s \in Saver : Rename(s)
      BY <1>2 DEF Next, vars, Create, CreateThrows, Write, Flush, Close, Throws, Destroy,
                  OpenByHash, TellLength, ReadAndClose, Crash
<1>. QED BY <1>1, <1>2

LEMMA DirOKStep == ASSUME IInv, [Next]_vars PROVE DirOK'
<1>1. ASSUME NEW h \in DOMAIN dir PROVE content[dir[h]] = h /\ StoredNext(dir[h])
  <2>1. dir[h] \in Saver /\ content[dir[h]] = h /\ Stored(dir[h])
        BY DEF IInv, TypeOK, DirOK
  <2>. QED BY <2>1, StoredStep
<1>2. CASE UNCHANGED dir
      BY <1>1, <1>2 DEF DirOK, Stored, StoredNext, Whole
<1>3. ASSUME NEW s \in Saver, dir' = Link(dir, content[s], s), StoredNext(s)
      PROVE  DirOK'
      BY <1>1, <1>3 DEF DirOK, Link, Stored, StoredNext, Whole
<1>. QED BY <1>2, <1>3, DirStep

LEMMA ReadingStep == ASSUME IInv, [Next]_vars PROVE ReadingOK'
<1> SUFFICES ASSUME NEW r \in Reader, reading'[r] # None
             PROVE  /\ content'[reading'[r].inode] = reading'[r].hash
                    /\ data'[reading'[r].inode] = Blocks[content'[reading'[r].inode]]
                    /\ pc'[reading'[r].inode] \in {"saved", "done", "dead"}
                    /\ reading'[r].len # None => reading'[r].len = Blocks[reading'[r].hash]
    BY DEF ReadingOK, Stored, Whole
<1> USE DEF StoredNext
<1>0. /\ reading \in [Reader -> OpenFile \cup {None}]
      /\ DOMAIN dir \subseteq Content /\ dir \in [DOMAIN dir -> Saver]
      BY DEF IInv, TypeOK
<1>1. CASE UNCHANGED reading
  <2>1. /\ reading[r].inode \in Saver
        /\ content[reading[r].inode] = reading[r].hash
        /\ Stored(reading[r].inode)
        /\ reading[r].len # None => reading[r].len = Blocks[reading[r].hash]
        BY <1>0, <1>1 DEF IInv, ReadingOK, OpenFile
  <2>. QED BY <1>1, <2>1, StoredStep
<1>2. ASSUME NEW u \in Reader, NEW h \in Content, OpenByHash(u, h), u = r
      PROVE  /\ reading'[r].inode = dir[h] /\ reading'[r].hash = h /\ reading'[r].len = None
             /\ content[dir[h]] = h /\ dir[h] \in Saver /\ Stored(dir[h])
      BY <1>0, <1>2 DEF OpenByHash, IInv, DirOK
<1>3. ASSUME NEW u \in Reader, TellLength(u), u = r
      PROVE  /\ reading[r].inode \in Saver
             /\ reading'[r].inode = reading[r].inode /\ reading'[r].hash = reading[r].hash
             /\ reading'[r].len = Blocks[reading[r].hash]
             /\ content[reading[r].inode] = reading[r].hash /\ Stored(reading[r].inode)
  <2>1. reading[r] \in OpenFile
        BY <1>0, <1>3 DEF TellLength
  <2>2. reading'[r] = [reading[r] EXCEPT !.len = data[reading[r].inode]]
        BY <1>0, <1>3 DEF TellLength
  <2>3. content[reading[r].inode] = reading[r].hash /\ Stored(reading[r].inode)
        BY <1>3 DEF TellLength, IInv, ReadingOK
  <2>. QED BY <2>1, <2>2, <2>3 DEF OpenFile, Stored, Whole
<1>4. ASSUME NEW u \in Reader, u # r,
             (\E h \in Content : OpenByHash(u, h)) \/ TellLength(u) \/ ReadAndClose(u)
      PROVE  reading'[r] = reading[r]
      BY <1>0, <1>4 DEF OpenByHash, TellLength, ReadAndClose
<1>5. CASE \E u \in Reader, h \in Content : OpenByHash(u, h) /\ u = r
      BY <1>2, <1>5, StoredStep
<1>6. CASE \E u \in Reader : TellLength(u) /\ u = r
      BY <1>3, <1>6, StoredStep
<1>7. CASE reading'[r] = reading[r]
  <2>1. /\ reading[r].inode \in Saver
        /\ content[reading[r].inode] = reading[r].hash
        /\ Stored(reading[r].inode)
        /\ reading[r].len # None => reading[r].len = Blocks[reading[r].hash]
        BY <1>0, <1>7 DEF IInv, ReadingOK, OpenFile
  <2>. QED BY <1>7, <2>1, StoredStep
<1>8. ~ ReadAndClose(r) /\ ~ Crash
      BY <1>0 DEF ReadAndClose, Crash
<1>9. \/ UNCHANGED reading
      \/ \E u \in Reader : (\E h \in Content : OpenByHash(u, h)) \/ TellLength(u) \/ ReadAndClose(u)
      BY <1>8 DEF Next, vars, Create, CreateThrows, Write, Flush, Close, Rename, Throws, Destroy
<1>. QED BY <1>1, <1>4, <1>5, <1>6, <1>7, <1>8, <1>9

LEMMA StepIInv == IInv /\ [Next]_vars => IInv'
<1> SUFFICES ASSUME IInv, [Next]_vars PROVE IInv'
    OBVIOUS
<1>1. TypeOK'
      BY TypeStep DEF IInv
<1>2. TmpFilesOwned' /\ \A s \in Saver : SaverOK(s)'
      BY TmpStep
<1>3. DirOK' /\ ReadingOK'
      BY DirOKStep, ReadingStep
<1>. QED BY <1>1, <1>2, <1>3 DEF IInv

LEMMA Invariance == Spec => []IInv
<1>. QED BY InitIInv, StepIInv, PTL DEF Spec

-----------------------------------------------------------------------------
(* The variables keep their types; the stream never gets ahead of what was  *)
(* written to it, for any contents, savers and names.                       *)
THEOREM TypeCorrect == Spec => []TypeOK
<1>1. IInv => TypeOK
      BY DEF IInv
<1>. QED BY <1>1, Invariance, PTL

(* A FileSave unlinks its own temporary file or none.                       *)
THEOREM TmpFilesAreOwned == Spec => []TmpFilesOwned
<1>1. IInv => TmpFilesOwned
      BY DEF IInv
<1>. QED BY <1>1, Invariance, PTL

(* Every read by hash returns the content of the hash.                      *)
THEOREM ReadsReturnTheContent == Spec => []ReadsAreWhole
<1>1. IInv => ReadsAreWhole
      BY DEF IInv, ReadingOK, ReadsAreWhole
<1>. QED BY <1>1, Invariance, PTL

(* FileSave implements the content store: files appear whole, in one step,  *)
(* and stay, whatever other savers, exceptions and crashes do.              *)
THEOREM FileStoreImplementsContentStore == Spec => ImplementsContentStore
<1> DEFINE held(h) == IF Whole(dir[h]) THEN content[dir[h]] ELSE None
           file == [h \in DOMAIN dir |-> held(h)]
<1>1. Init => Store!StoreInit
      BY DEF Init, Store!StoreInit
<1>2. ASSUME IInv, IInv', [Next]_vars PROVE [Store!StoreNext]_file
  <2>1. \A h \in DOMAIN dir : held(h) = h
        BY <1>2 DEF IInv, DirOK, Stored
  <2>2. \A h \in DOMAIN dir' : held(h)' = h
        BY <1>2 DEF IInv, DirOK, Stored, Whole
  <2>3. file = [h \in DOMAIN dir |-> h] /\ file' = [h \in DOMAIN dir' |-> h]
        BY <2>1, <2>2
  <2>4. CASE UNCHANGED dir
        BY <2>3, <2>4
  <2>5. ASSUME NEW s \in Saver, dir' = Link(dir, content[s], s) PROVE Store!StoreNext
    <3>1. content[s] \in Content /\ DOMAIN dir' = DOMAIN dir \cup {content[s]}
          BY <1>2, <2>5 DEF IInv, TypeOK, Link
    <3>2. Store!Put(content[s])
          BY <2>3, <3>1 DEF Store!Put
    <3>. QED BY <3>1, <3>2 DEF Store!StoreNext, Store!Put
  <2>. QED BY <1>2, <2>4, <2>5, DirStep
<1>. QED BY <1>1, <1>2, Invariance, PTL DEF Spec, ImplementsContentStore, Store!StoreSpec
=============================================================================
