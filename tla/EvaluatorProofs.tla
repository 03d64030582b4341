-------------------------- MODULE EvaluatorProofs --------------------------
(***************************************************************************)
(* Proofs about EvaluatorEditing, for any number of requests and hosts.    *)
(***************************************************************************)
EXTENDS EvaluatorEditing, TLAPS

(* Until the import is committed nobody else sees the task, and its         *)
(* compilation is on its way unless it has missed the task already.         *)
OpenImport ==
  import = "open" =>
    /\ \A e \in Request \ {Importer} : request[e] = "new"
    /\ \A e \in Request : pc[e] # "compile"
    /\ failed \/ early \/ Pending(Importer)

IInv == TypeOK /\ OpenImport /\ StaleMeansPending

-----------------------------------------------------------------------------
LEMMA InitIInv == Init => IInv
<1>1. ASSUME Init PROVE TypeOK
  <2>1. row \in Row
        BY <1>1 DEF Init, Row
  <2>2. Pool!PoolTypeOK
        BY <1>1 DEF Init, Pool!PoolInit, Pool!PoolTypeOK
  <2>3. request \in [Request -> {"new", "loaded", "stored", "done"}]
        BY <1>1 DEF Init
  <2>4. form \in [Request -> Row] /\ mem \in [Request -> Row]
        BY <1>1, <2>1 DEF Init
  <2>5. pc \in [Request -> {"idle", "load", "compile", "end"}] /\ failed \in BOOLEAN
        BY <1>1 DEF Init
  <2>6. \A e \in Request : pc[e] = "idle"
        BY <1>1 DEF Init
  <2>7. import \in {"open", "committed", "aborted"} /\ early \in BOOLEAN
        BY <1>1 DEF Init
  <2>. QED BY <2>1, <2>2, <2>3, <2>4, <2>5, <2>6, <2>7 DEF TypeOK
<1>2. Init => OpenImport /\ StaleMeansPending
      BY ImporterAssumption DEF Init, OpenImport, StaleMeansPending, Pending
<1>. QED BY <1>1, <1>2 DEF IInv

(* Types. *)
LEMMA TypeStep == ASSUME TypeOK, [Next]_vars PROVE TypeOK'
<1> USE ImporterAssumption DEF TypeOK, Pool!PoolTypeOK, poolVars, importVars, Goto, Proceed
<1>1. ASSUME NEW e \in Request, LoadForm(e) PROVE TypeOK'
      BY <1>1 DEF LoadForm
<1>2. ASSUME NEW e \in Request, StoreForm(e) PROVE TypeOK'
  <2>1. \A s \in Source : [form[e] EXCEPT !.source = s] \in Row
        BY DEF Row
  <2>. QED BY <1>2, <2>1 DEF StoreForm
<1>3. ASSUME NEW e \in Request, QueueCompilation(e) PROVE TypeOK'
  <2>1. Pool!PoolTypeOK'
        BY <1>3 DEF QueueCompilation, Pool!Add
  <2>2. request' \in [Request -> {"new", "loaded", "stored", "done"}]
        BY <1>3 DEF QueueCompilation
  <2>. QED BY <1>3, <2>1, <2>2 DEF QueueCompilation, Pool!Add
<1>4. ASSUME NEW h \in Host, Connect(h) PROVE TypeOK'
      BY <1>4 DEF Connect, Pool!Connect
<1>5. ASSUME NEW h \in Host, Start(h) PROVE TypeOK'
  <2>1. Head(queue) \in Request /\ Tail(queue) \in Seq(Request)
        BY <1>5 DEF Start, Pool!Start
  <2>2. running' = running \cup {<<Head(queue), h>>} /\ Head(queue) \in Request
        BY <1>5, <2>1 DEF Start, Pool!Start
  <2>3. Pool!PoolTypeOK'
        BY <1>5, <2>1, <2>2 DEF Start, Pool!Start
  <2>4. pc' = [pc EXCEPT ![Head(queue)] = "load"]
        BY <1>5 DEF Start
  <2>5. pc' \in [Request -> {"idle", "load", "compile", "end"}]
        BY <2>4
  <2>6. ASSUME NEW e \in Request, pc'[e] \in {"load", "compile"}
        PROVE  \E g \in Host : <<e, g>> \in running'
    <3>1. CASE e = Head(queue)
          BY <2>2, <3>1
    <3>2. CASE e # Head(queue)
          BY <2>2, <2>4, <2>6, <3>2
    <3>. QED BY <3>1, <3>2
  <2>. QED BY <1>5, <2>3, <2>5, <2>6 DEF Start
<1>6. ASSUME NEW e \in Request, NEW h \in Host, Finish(e, h) PROVE TypeOK'
      BY <1>6 DEF Finish, Pool!Finish
<1>7. ASSUME NEW e \in Request, Load(e) PROVE TypeOK'
      BY <1>7 DEF Load
<1>8. ASSUME NEW e \in Request, Compiled(e) PROVE TypeOK'
  <2>1. [mem[e] EXCEPT !.binary = mem[e].source] \in Row
        BY DEF Row
  <2>. QED BY <1>8, <2>1 DEF Compiled
<1>9. ASSUME NEW e \in Request, NotCompiled(e) PROVE TypeOK'
  <2>1. row' \in Row
        BY <1>9 DEF NotCompiled
  <2>2. pc' = [pc EXCEPT ![e] = "end"] /\ failed' \in BOOLEAN
        BY <1>9 DEF NotCompiled
  <2>3. \A d \in Request : pc'[d] \in {"load", "compile"} => pc[d] \in {"load", "compile"}
        BY <2>2
  <2>4. UNCHANGED <<queue, connected, running, added, request, form, mem, import, early>>
        BY <1>9 DEF NotCompiled
  <2>. QED BY <2>1, <2>2, <2>3, <2>4
<1>10. CASE Crash
       BY <1>10 DEF Crash, Pool!Restart
<1>11. CASE UNCHANGED vars
       BY <1>11 DEF vars
<1>12. ASSUME NEW e \in Request, LoadFails(e) PROVE TypeOK'
       BY <1>12 DEF LoadFails
<1>13. CASE Commit \/ Abort
       BY <1>13 DEF Commit, Abort
<1>. QED
  BY <1>1, <1>2, <1>3, <1>4, <1>5, <1>6, <1>7, <1>8, <1>9, <1>10, <1>11, <1>12, <1>13
  DEF Next, Handle, Compile

(* A step that stores no row keeps something pending. *)
LEMMA PendingKept ==
  ASSUME StaleMeansPending, OpenImport,
         UNCHANGED <<row, failed, importVars>>,
         \A e \in Request : Pending(e) => Pending(e)',
         MissedImport => MissedImport' \/ \E e \in Request : Pending(e)',
         import = "open" => /\ \A e \in Request \ {Importer} : request'[e] = request[e]
                            /\ \A e \in Request : pc'[e] = "compile" => pc[e] = "compile"
  PROVE  StaleMeansPending' /\ OpenImport'
<1>1. StaleMeansPending'
      BY DEF StaleMeansPending, importVars
<1>2. OpenImport'
      BY ImporterAssumption DEF OpenImport, importVars
<1>. QED BY <1>1, <1>2

(* One step of a handler, of the pool or of a thread at a time. *)
LEMMA StaleStep == ASSUME IInv, [Next]_vars PROVE StaleMeansPending' /\ OpenImport'
<1> USE ImporterAssumption DEF IInv, TypeOK, Pool!PoolTypeOK, poolVars, importVars, Goto, Proceed
<1>1. ASSUME NEW e \in Request, LoadForm(e) PROVE StaleMeansPending' /\ OpenImport'
  <2>1. /\ import = "committed" /\ import' = "committed"
        /\ UNCHANGED <<row, failed, early, queue, pc>>
        /\ request[e] = "new" /\ request' = [request EXCEPT ![e] = "loaded"]
        BY <1>1 DEF LoadForm
  <2>2. \A d \in Request : Pending(d) => Pending(d)'
        BY <2>1 DEF Pending, Queued
  <2>3. MissedImport => MissedImport'
        BY <2>1 DEF MissedImport
  <2>. QED BY <2>1, <2>2, <2>3, PendingKept
<1>2. ASSUME NEW e \in Request, StoreForm(e) PROVE StaleMeansPending' /\ OpenImport'
  <2>1. /\ request[e] = "loaded" /\ request' = [request EXCEPT ![e] = "stored"]
        /\ UNCHANGED <<failed, early, import, pc>>
        BY <1>2 DEF StoreForm
  <2>2. Pending(e)'
        BY <2>1 DEF Pending
  <2>3. OpenImport'
    <3>1. CASE e = Importer
          BY <2>1, <2>2, <3>1 DEF OpenImport
    <3>2. CASE e # Importer
          BY <2>1, <3>2 DEF OpenImport
    <3>. QED BY <3>1, <3>2
  <2>. QED BY <2>2, <2>3 DEF StaleMeansPending
<1>3. ASSUME NEW e \in Request, QueueCompilation(e) PROVE StaleMeansPending' /\ OpenImport'
  <2>1. /\ queue' = Append(queue, e)
        /\ UNCHANGED <<row, pc, failed, early, import>>
        /\ request[e] = "stored" /\ request' = [request EXCEPT ![e] = "done"]
        BY <1>3 DEF QueueCompilation, Pool!Add
  <2>2. queue'[Len(queue')] = e /\ Len(queue') \in 1..Len(queue')
        BY <2>1
  <2>3. \A d \in Request : Queued(d) => Queued(d)'
        BY <2>1 DEF Queued
  <2>4. \A d \in Request \ {e} : request'[d] = request[d]
        BY <2>1
  <2>5. \A d \in Request : Pending(d) => Pending(d)'
        BY <2>1, <2>2, <2>3, <2>4 DEF Pending, Queued
  <2>6. MissedImport => MissedImport'
        BY <2>1 DEF MissedImport
  <2>7. import = "open" => e = Importer
        BY <2>1 DEF OpenImport
  <2>. QED BY <2>1, <2>4, <2>5, <2>6, <2>7, PendingKept
<1>4. ASSUME NEW h \in Host, Connect(h) PROVE StaleMeansPending' /\ OpenImport'
  <2>1. UNCHANGED <<queue, row, request, pc, failed, early, import>>
        BY <1>4 DEF Connect, Pool!Connect
  <2>. QED BY <2>1 DEF StaleMeansPending, OpenImport, Pending, Queued, MissedImport
<1>5. ASSUME NEW h \in Host, Start(h) PROVE StaleMeansPending' /\ OpenImport'
  <2>1. /\ queue # <<>> /\ queue' = Tail(queue) /\ Head(queue) \in Request
        /\ pc' = [pc EXCEPT ![Head(queue)] = "load"]
        /\ UNCHANGED <<row, request, failed, early, import>>
        BY <1>5 DEF Start, Pool!Start
  <2>2. ASSUME NEW d \in Request, NEW i \in 1..Len(queue), queue[i] = d, d # Head(queue)
        PROVE  Queued(d)'
    <3>1. i - 1 \in 1..Len(Tail(queue)) /\ Tail(queue)[i - 1] = d
          BY <2>1, <2>2
    <3>. QED BY <2>1, <3>1 DEF Queued
  <2>3. \A d \in Request : Pending(d) => Pending(d)'
        BY <2>1, <2>2 DEF Pending, Queued
  <2>4. MissedImport => MissedImport'
        BY <2>1 DEF MissedImport
  <2>5. \A d \in Request : pc'[d] = "compile" => pc[d] = "compile"
        BY <2>1
  <2>. QED BY <2>1, <2>3, <2>4, <2>5, PendingKept
<1>6. ASSUME NEW e \in Request, NEW h \in Host, Finish(e, h) PROVE StaleMeansPending' /\ OpenImport'
  <2>1. UNCHANGED <<queue, row, request, pc, failed, early, import>>
        BY <1>6 DEF Finish, Pool!Finish
  <2>. QED BY <2>1 DEF StaleMeansPending, OpenImport, Pending, Queued, MissedImport
<1>7. ASSUME NEW e \in Request, Load(e) PROVE StaleMeansPending' /\ OpenImport'
  <2>1. /\ import = "committed" /\ import' = "committed"
        /\ pc' = [pc EXCEPT ![e] = "compile"]
        /\ UNCHANGED <<queue, row, request, failed, early>>
        BY <1>7 DEF Load
  <2>2. \A d \in Request : Pending(d) => Pending(d)'
        BY <2>1 DEF Pending, Queued
  <2>3. MissedImport => MissedImport'
        BY <2>1 DEF MissedImport
  <2>. QED BY <2>1, <2>2, <2>3, PendingKept
<1>8. ASSUME NEW e \in Request, Compiled(e) PROVE StaleMeansPending' /\ OpenImport'
  <2>1. row'.binary = row'.source
        BY <1>8 DEF Compiled, Row
  <2>2. import' # "open"
        BY <1>8 DEF Compiled, OpenImport
  <2>. QED BY <2>1, <2>2 DEF StaleMeansPending, OpenImport
<1>9. ASSUME NEW e \in Request, NotCompiled(e) PROVE StaleMeansPending' /\ OpenImport'
  <2>1. failed' /\ import' # "open"
        BY <1>9 DEF NotCompiled, OpenImport
  <2>. QED BY <2>1 DEF StaleMeansPending, OpenImport
<1>10. ASSUME Crash PROVE StaleMeansPending' /\ OpenImport'
  <2>1. failed' /\ import' # "open"
        BY <1>10 DEF Crash
  <2>. QED BY <2>1 DEF StaleMeansPending, OpenImport
<1>11. CASE UNCHANGED vars
  <2>1. UNCHANGED <<queue, row, request, pc, failed, early, import>>
        BY <1>11 DEF vars
  <2>. QED BY <2>1 DEF StaleMeansPending, OpenImport, Pending, Queued, MissedImport
<1>12. ASSUME NEW e \in Request, LoadFails(e) PROVE StaleMeansPending' /\ OpenImport'
  <2>1. /\ import # "committed" /\ early'
        /\ pc' = [pc EXCEPT ![e] = "end"]
        /\ UNCHANGED <<request, import>>
        BY <1>12 DEF LoadFails
  <2>2. \A d \in Request : pc'[d] = "compile" => pc[d] = "compile"
        BY <2>1
  <2>. QED BY <2>1, <2>2 DEF StaleMeansPending, OpenImport
<1>13. ASSUME Commit PROVE StaleMeansPending' /\ OpenImport'
  <2>1. /\ import = "open" /\ import' = "committed"
        /\ UNCHANGED <<queue, row, request, pc, failed, early>>
        BY <1>13 DEF Commit
  <2>2. failed \/ MissedImport' \/ Pending(Importer)'
        BY <2>1 DEF OpenImport, MissedImport, Pending, Queued
  <2>. QED BY <2>1, <2>2 DEF StaleMeansPending, OpenImport
<1>14. ASSUME Abort PROVE StaleMeansPending' /\ OpenImport'
      BY <1>14 DEF Abort, StaleMeansPending, OpenImport
<1>. QED
  BY <1>1, <1>2, <1>3, <1>4, <1>5, <1>6, <1>7, <1>8, <1>9, <1>10, <1>11, <1>12, <1>13, <1>14
  DEF Next, Handle, Compile

LEMMA Invariance == Spec => []IInv
<1>1. IInv /\ [Next]_vars => IInv'
      BY TypeStep, StaleStep DEF IInv
<1>. QED BY InitIInv, <1>1, PTL DEF Spec

-----------------------------------------------------------------------------
(* The variables keep their types, and a compilation that runs holds a      *)
(* connection to a judge.                                                   *)
THEOREM TypeCorrect == Spec => []TypeOK
<1>1. IInv => TypeOK
      BY DEF IInv
<1>. QED BY <1>1, Invariance, PTL

(* An evaluator binary that does not belong to the source beside it is      *)
(* about to be replaced, for any number of concurrent edits and             *)
(* compilations, as long as none of them failed.                            *)
THEOREM StaleBinariesAreReplaced == Spec => []StaleMeansPending
<1>1. IInv => StaleMeansPending
      BY DEF IInv
<1>. QED BY <1>1, Invariance, PTL
=============================================================================
