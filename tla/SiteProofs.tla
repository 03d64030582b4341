----------------------------- MODULE SiteProofs -----------------------------
(***************************************************************************)
(* Proofs about the pages of the web server: who may store what            *)
(* (Accounts), what the list of submissions and the score board show       *)
(* (ScorePages) and what becomes of an uploaded package (Import), for any  *)
(* number of browsers, users, tasks, submissions and files.                *)
(***************************************************************************)
EXTENDS Accounts, Import, ScorePages, FiniteSetTheorems, SequenceTheorems, WellFoundedInduction,
        TLAPS

(***************************************************************************)
(* Accounts                                                                *)
(***************************************************************************)
Loaded == {"user", "language"}

(* What an edit holds between its transactions. *)
EditOK(e) ==
  /\ edit[e].at \in {"new", "refused", "checked", "user", "language", "stored"}
  /\ edit[e].at \in Loaded \cup {"checked", "stored"} => edit[e].by \in Browser
  /\ edit[e].at = "user" => edit[e].id \in DOMAIN users /\ edit[e].row \in User
  /\ edit[e].at = "language" => edit[e].old # {}

Cookie == [id : Nat, prelogin : BOOLEAN]

TypeOK ==
  /\ users \in Seq(User)
  /\ DOMAIN languages = LanguageName
  /\ session \in [Browser -> Cookie]
  /\ \A b \in Browser : session[b].id \in DOMAIN users \cup {Nobody}
  /\ DOMAIN edit = Edit
  /\ \A e \in Edit : EditOK(e)

(* Until somebody else has stored something, the first user is the only      *)
(* administrator and has the password that the outsider does not know, and   *)
(* nothing of the outsider has passed the check.                             *)
Untouched ==
  /\ Len(users) > 0
  /\ users[1].password = RootPassword
  /\ \A i \in DOMAIN users : users[i].admin => i = 1
  /\ session[Outsider].id # 1
  /\ \A e \in Edit : edit[e].at \in Loaded \cup {"checked", "stored"} => edit[e].by # Outsider

IInv ==
  /\ TypeOK
  /\ StoredBy(Browser \ {Outsider}) \/ Untouched
  /\ NamesAreUnique
  /\ languages[Cpp] # {}

-----------------------------------------------------------------------------
(* The first user is the only one, and nobody edits anything. *)
LEMMA InitIInv == AccountsInit => IInv
<1> SUFFICES ASSUME AccountsInit PROVE IInv
    OBVIOUS
<1> USE RootAssumption, OutsiderAssumption DEF AccountsInit
<1>1. users[1] \in User /\ Len(users) = 1 /\ DOMAIN users = {1} /\ users \in Seq(User)
      BY DEF User
<1>2. TypeOK
      BY <1>1 DEF TypeOK, Cookie, EditOK, Loaded, Nobody
<1>3. Untouched
      BY <1>1 DEF Untouched, Loaded, Nobody
<1>4. NamesAreUnique
      BY <1>1 DEF NamesAreUnique
<1>5. languages[Cpp] # {}
      OBVIOUS
<1>. QED BY <1>2, <1>3, <1>4, <1>5 DEF IInv

(* A session is that of an active user, or nobody's. *)
LEMMA OptionalUserId ==
  ASSUME TypeOK, NEW b \in Browser
  PROVE  OptionalUser(b) \in {session[b].id, Nobody} /\ OptionalUser(b) \in DOMAIN users \cup {Nobody}
<1>. QED BY DEF TypeOK, OptionalUser, Nobody

(* The cookie of one browser changes, to an id that it may have. *)
LEMMA SessionKeeps ==
  ASSUME IInv, NEW b \in Browser, NEW s \in Cookie,
         session' = [session EXCEPT ![b] = s], UNCHANGED <<users, languages, edit>>,
         s.id \in DOMAIN users \cup {Nobody},
         Untouched /\ b = Outsider => s.id # 1
  PROVE  IInv'
<1>1. TypeOK'
      BY DEF IInv, TypeOK, EditOK, Nobody
<1>2. Untouched => Untouched'
      BY OutsiderAssumption DEF IInv, TypeOK, Untouched
<1>. QED BY <1>1, <1>2 DEF IInv, StoredBy, NamesAreUnique

(* Visits, and logging in and out. *)
LEMMA BrowserKeeps ==
  ASSUME IInv, NEW b \in Browser, Visit(b) \/ LoginForm(b) \/ Login(b) \/ Logout(b)
  PROVE  IInv'
<1>1. TypeOK /\ Nobody # 1
      BY DEF IInv, Nobody
<1>2. /\ Seen(b) \in Cookie /\ Seen(b).id \in DOMAIN users \cup {Nobody}
      /\ Untouched /\ b = Outsider => Seen(b).id # 1
  <2>1. OptionalUser(b) \in Nat
        BY <1>1, OptionalUserId DEF TypeOK, Nobody
  <2>2. Seen(b) \in Cookie /\ Seen(b).id = OptionalUser(b)
        BY <1>1, <2>1 DEF Seen, TypeOK, Cookie
  <2>. QED BY <1>1, <2>2, OptionalUserId DEF Untouched
<1>3. CASE Visit(b)
      BY <1>2, <1>3, SessionKeeps DEF Visit
<1>4. CASE LoginForm(b)
  <2>1. /\ [Seen(b) EXCEPT !.prelogin = TRUE] \in Cookie
        /\ [Seen(b) EXCEPT !.prelogin = TRUE].id = Seen(b).id
        BY <1>2 DEF Cookie
  <2>. QED BY <1>2, <1>4, <2>1, SessionKeeps DEF LoginForm
<1>5. CASE Login(b)
  <2>0. PICK name \in UserName, password \in Knows[b] :
          \E id \in TestLogin(name, password) :
            session' = [session EXCEPT ![b] = [id |-> id, prelogin |-> FALSE]]
        BY <1>5 DEF Login
  <2>1. PICK id \in TestLogin(name, password) :
          session' = [session EXCEPT ![b] = [id |-> id, prelogin |-> FALSE]]
        BY <2>0
  <2>2. id \in DOMAIN users /\ users[id].password = password
        BY DEF TestLogin
  <2>3. Untouched /\ b = Outsider => id # 1
        BY <2>2, OutsiderAssumption DEF Untouched
  <2>4. [id |-> id, prelogin |-> FALSE] \in Cookie
        BY <1>1, <2>2 DEF Cookie, TypeOK
  <2>. QED BY <1>5, <2>1, <2>2, <2>3, <2>4, SessionKeeps DEF Login
<1>6. CASE Logout(b)
  <2>1. session' = [session EXCEPT ![b] = [session[b] EXCEPT !.id = Nobody]]
        BY <1>6 DEF Logout
  <2>2. /\ [session[b] EXCEPT !.id = Nobody] \in Cookie
        /\ [session[b] EXCEPT !.id = Nobody].id = Nobody
        BY <1>1 DEF TypeOK, Cookie, Nobody
  <2>. QED BY <1>1, <1>6, <2>1, <2>2, SessionKeeps DEF Logout
<1>. QED BY <1>3, <1>4, <1>5, <1>6

(* A new user is no administrator, and its name is new. *)
LEMMA RegisterKeeps == ASSUME IInv, NEW b \in Browser, Register(b) PROVE IInv'
<1>1. PICK name \in UserName \cup {Blank}, password \in Knows[b] \cup {Blank} :
        LET row == [name |-> name, password |-> password, admin |-> FALSE, active |-> TRUE]
        IN  Valid(row) /\ ~NameInUse(name, DOMAIN users) /\ users' = Append(users, row)
      BY DEF Register
<1> DEFINE row == [name |-> name, password |-> password, admin |-> FALSE, active |-> TRUE]
<1>2. row \in User /\ ~row.admin /\ row.name = name
      BY <1>1, KnowsAssumption DEF User, Valid
<1>3. users' = Append(users, row) /\ \A i \in DOMAIN users : users[i].name # name
      BY <1>1 DEF NameInUse
<1> HIDE DEF row
<1>4. /\ users \in Seq(User) /\ users' \in Seq(User)
      /\ DOMAIN users = 1..Len(users) /\ DOMAIN users' = 1..(Len(users) + 1) /\ Len(users') = Len(users) + 1
      /\ \A i \in DOMAIN users : users'[i] = users[i]
      /\ users'[Len(users) + 1] = row
      BY <1>2, <1>3 DEF IInv, TypeOK
<1>5. /\ session' = [session EXCEPT ![b] = Seen(b)]
      /\ UNCHANGED <<languages, edit>>
      BY DEF Register
<1>6. Seen(b) \in Cookie /\ Seen(b).id = OptionalUser(b)
      BY OptionalUserId DEF IInv, Seen, TypeOK, Cookie, Nobody
<1>7. OptionalUser(b) \in {session[b].id, Nobody} /\ OptionalUser(b) \in DOMAIN users \cup {Nobody}
      BY OptionalUserId DEF IInv
<1>8. TypeOK'
      BY <1>4, <1>5, <1>6, <1>7 DEF IInv, TypeOK, EditOK
<1>9. Untouched => Untouched'
      BY <1>2, <1>4, <1>5, <1>6, <1>7, OutsiderAssumption DEF IInv, TypeOK, Untouched, Nobody
<1>10. NamesAreUnique'
      BY <1>2, <1>3, <1>4 DEF IInv, NamesAreUnique
<1>. QED BY <1>5, <1>8, <1>9, <1>10 DEF IInv, StoredBy

-----------------------------------------------------------------------------
(* An edit begins: the outsider has no administrator's session as long as    *)
(* nobody else has stored anything.                                          *)
LEMMA BeginKeeps == ASSUME IInv, NEW e \in Edit, NEW b \in Browser, Begin(e, b) PROVE IInv'
<1>1. PICK d : /\ edit' = [edit EXCEPT ![e] = d]
               /\ \/ d = [at |-> "checked", by |-> b] /\ RequiredAdmin(b)
                  \/ d = [at |-> "refused"]
      BY DEF Begin
<1>2. session' = [session EXCEPT ![b] = Seen(b)] /\ UNCHANGED <<users, languages>> /\ edit[e].at = "new"
      BY DEF Begin
<1>3. Seen(b) \in Cookie /\ Seen(b).id = OptionalUser(b)
      BY OptionalUserId DEF IInv, Seen, TypeOK, Cookie, Nobody
<1>4. OptionalUser(b) \in {session[b].id, Nobody} /\ OptionalUser(b) \in DOMAIN users \cup {Nobody}
      BY OptionalUserId DEF IInv
<1>5. TypeOK'
      BY <1>1, <1>2, <1>3, <1>4 DEF IInv, TypeOK, EditOK, Loaded
<1>6. Untouched => Untouched'
  <2> SUFFICES ASSUME Untouched PROVE Untouched'
      OBVIOUS
  <2>1. RequiredAdmin(b) => b # Outsider
        BY <1>4 DEF RequiredAdmin, Untouched, Nobody
  <2>2. session'[Outsider].id # 1
        BY <1>2, <1>3, <1>4, OutsiderAssumption DEF IInv, TypeOK, Untouched, Nobody
  <2>. QED BY <1>1, <1>2, <2>1, <2>2 DEF IInv, TypeOK, Untouched, Loaded
<1>7. StoredBy(Browser \ {Outsider}) => StoredBy(Browser \ {Outsider})'
      BY <1>1, <1>2 DEF IInv, TypeOK, StoredBy
<1>. QED BY <1>2, <1>5, <1>6, <1>7 DEF IInv, NamesAreUnique

(* The steps of an edit between its check and its end: it stays its         *)
(* author's, and of the outsider's there is none.                           *)
LEMMA EditGoesOn ==
  ASSUME IInv, NEW e \in Edit, NEW d,
         edit[e].at \in Loaded \cup {"checked"},
         edit' = [edit EXCEPT ![e] = d],
         \/ d.at = "refused"
         \/ d.at \in Loaded \cup {"stored"} /\ d.by = edit[e].by
  PROVE  /\ StoredBy(Browser \ {Outsider}) => StoredBy(Browser \ {Outsider})'
         /\ Untouched => \A f \in Edit : edit'[f].at \in Loaded \cup {"checked", "stored"} => edit'[f].by # Outsider
<1>1. StoredBy(Browser \ {Outsider}) => StoredBy(Browser \ {Outsider})'
      BY DEF IInv, TypeOK, StoredBy, Loaded
<1>2. Untouched => \A f \in Edit : edit'[f].at \in Loaded \cup {"checked", "stored"} => edit'[f].by # Outsider
      BY DEF IInv, TypeOK, Untouched, Loaded
<1>. QED BY <1>1, <1>2

(* An edit that is refused, or that ends in an exception. *)
LEMMA EndKeeps ==
  ASSUME IInv, NEW e \in Edit, edit[e].at \in Loaded \cup {"checked"},
         edit' = [edit EXCEPT ![e] = [at |-> "refused"]], UNCHANGED <<users, languages, session>>
  PROVE  IInv'
<1>1. TypeOK'
      BY DEF IInv, TypeOK, EditOK, Loaded
<1>2. Untouched => Untouched'
      BY DEF IInv, TypeOK, Untouched, Loaded
<1>3. StoredBy(Browser \ {Outsider}) => StoredBy(Browser \ {Outsider})'
      BY DEF IInv, TypeOK, StoredBy, Loaded
<1>. QED BY <1>1, <1>2, <1>3 DEF IInv, NamesAreUnique

(* An edit that is stored is not the outsider's, or not the first. *)
LEMMA StoredStays ==
  ASSUME IInv, NEW e \in Edit, edit[e].at \in Loaded, edit[e].by \in Browser,
         edit' = [edit EXCEPT ![e] = [at |-> "stored", by |-> edit[e].by]]
  PROVE  StoredBy(Browser \ {Outsider})'
<1>1. CASE Untouched
      BY <1>1 DEF IInv, TypeOK, Untouched, StoredBy, Loaded
<1>2. CASE StoredBy(Browser \ {Outsider})
      BY <1>2 DEF IInv, TypeOK, StoredBy, Loaded
<1>. QED BY <1>1, <1>2 DEF IInv

(* What Load leaves of an edit. *)
LoadedAs(e, d) ==
  \/ d = [at |-> "refused"]
  \/ \E id \in DOMAIN users :
       d = [at |-> "user", by |-> edit[e].by, id |-> id, row |-> users[id]]
  \/ \E old : old # {} /\ d = [at |-> "language", by |-> edit[e].by, old |-> old]

(* A draft holds rows that are stored. *)
LEMMA LoadKeeps == ASSUME IInv, NEW e \in Edit, Load(e) PROVE IInv'
<1>1. /\ edit[e].at = "checked" /\ edit[e].by \in Browser
      /\ UNCHANGED <<users, languages, session>>
      BY DEF Load, IInv, TypeOK, EditOK, Loaded
<1>2. PICK d : edit' = [edit EXCEPT ![e] = d] /\ LoadedAs(e, d)
  <2>1. ASSUME NEW id \in UserId,
               edit' = [edit EXCEPT ![e] =
                          IF id \in DOMAIN users
                          THEN [at |-> "user", by |-> edit[e].by, id |-> id, row |-> users[id]]
                          ELSE [at |-> "refused"]]
        PROVE  \E d : edit' = [edit EXCEPT ![e] = d] /\ LoadedAs(e, d)
        BY <2>1 DEF LoadedAs
  <2>2. ASSUME NEW n \in LanguageName,
               edit' = [edit EXCEPT ![e] =
                          IF languages[n] # {}
                          THEN [at |-> "language", by |-> edit[e].by, old |-> languages[n]]
                          ELSE [at |-> "refused"]]
        PROVE  \E d : edit' = [edit EXCEPT ![e] = d] /\ LoadedAs(e, d)
        BY <2>2 DEF LoadedAs
  <2>3. ASSUME edit' = [edit EXCEPT ![e] = [at |-> "language", by |-> edit[e].by, old |-> {Blank}]]
        PROVE  \E d : edit' = [edit EXCEPT ![e] = d] /\ LoadedAs(e, d)
        BY <2>3 DEF LoadedAs
  <2>. QED BY <2>1, <2>2, <2>3 DEF Load
<1>3. d.at = "refused" \/ (d.at \in Loaded \cup {"stored"} /\ d.by = edit[e].by)
      BY <1>2 DEF LoadedAs, Loaded
<1>4. \A i \in DOMAIN users : users[i] \in User
      BY DEF IInv, TypeOK
<1>5. TypeOK'
      BY <1>1, <1>2, <1>4 DEF LoadedAs, IInv, TypeOK, EditOK, Loaded
<1>6. edit[e].at \in Loaded \cup {"checked"}
      BY <1>1
<1>7. Untouched => Untouched'
      BY <1>1, <1>2, <1>3, <1>6, EditGoesOn DEF Untouched
<1>8. StoredBy(Browser \ {Outsider}) => StoredBy(Browser \ {Outsider})'
      BY <1>2, <1>3, <1>6, EditGoesOn
<1>. QED BY <1>1, <1>5, <1>7, <1>8 DEF IInv, NamesAreUnique

(* A loaded user that is stored: its id is still there, and its name was    *)
(* looked for among all others.                                             *)
LEMMA StoreUserKeeps == ASSUME IInv, NEW e \in Edit, StoreUser(e) PROVE IInv'
<1>1. /\ edit[e].at = "user" /\ edit[e].by \in Browser
      /\ edit[e].id \in DOMAIN users /\ edit[e].row \in User
      /\ UNCHANGED <<languages, session>>
      BY DEF StoreUser, IInv, TypeOK, EditOK, Loaded
<1>2. PICK name \in UserName \cup {Blank}, password \in Password \cup {Blank},
           admin \in BOOLEAN, active \in BOOLEAN :
        LET row == ReadForm(edit[e].row, name, password, admin, active)
            stored == Valid(row) /\ ~NameInUse(name, DOMAIN users \ {edit[e].id})
        IN  /\ users' = IF stored THEN [users EXCEPT ![edit[e].id] = row] ELSE users
            /\ Answer(e, stored)
      BY DEF StoreUser
<1> DEFINE row == ReadForm(edit[e].row, name, password, admin, active)
           stored == Valid(row) /\ ~NameInUse(name, DOMAIN users \ {edit[e].id})
<1>3. stored => row \in User /\ row.name = name
      BY <1>1 DEF ReadForm, NewPassword, Valid, User
<1>4. stored => \A i \in DOMAIN users \ {edit[e].id} : users[i].name # name
      BY DEF NameInUse
<1>5. /\ users' = IF stored THEN [users EXCEPT ![edit[e].id] = row] ELSE users
      /\ edit' = [edit EXCEPT ![e] =
                    IF stored THEN [at |-> "stored", by |-> edit[e].by] ELSE [at |-> "refused"]]
      BY <1>2 DEF Answer
<1> HIDE DEF row, stored
<1>6. CASE ~stored
      BY <1>1, <1>5, <1>6, EndKeeps DEF Loaded
<1>7. CASE stored
  <2>1. /\ users' = [users EXCEPT ![edit[e].id] = row] /\ row \in User
        /\ edit' = [edit EXCEPT ![e] = [at |-> "stored", by |-> edit[e].by]]
        BY <1>3, <1>5, <1>7
  <2>2. users' \in Seq(User) /\ DOMAIN users' = DOMAIN users
        BY <1>1, <2>1 DEF IInv, TypeOK
  <2>3. TypeOK'
        BY <1>1, <2>1, <2>2 DEF IInv, TypeOK, EditOK, Loaded
  <2>4. NamesAreUnique'
        BY <1>1, <1>3, <1>4, <1>7, <2>1, <2>2 DEF IInv, TypeOK, NamesAreUnique
  <2>5. StoredBy(Browser \ {Outsider})'
        BY <1>1, <2>1, StoredStays DEF Loaded
  <2>. QED BY <1>1, <2>3, <2>4, <2>5 DEF IInv
<1>. QED BY <1>6, <1>7

(* A language is stored under a name that is not in use: the others stay.   *)
LEMMA StoreLanguageKeeps == ASSUME IInv, NEW e \in Edit, StoreLanguage(e) PROVE IInv'
<1>1. edit[e].at = "language" /\ edit[e].by \in Browser /\ UNCHANGED <<users, session>>
      BY DEF StoreLanguage, IInv, TypeOK, EditOK, Loaded
<1>2. PICK n \in LanguageName \cup {Blank}, script \in Script \cup {Blank} :
        LET stored == n # Blank /\ languages[n] = {}
        IN  /\ languages' = IF stored THEN [languages EXCEPT ![n] = Compiler(script, edit[e].old)]
                                      ELSE languages
            /\ Answer(e, stored)
      BY DEF StoreLanguage
<1> DEFINE stored == n # Blank /\ languages[n] = {}
<1>3. CASE ~stored
      BY <1>1, <1>2, <1>3, EndKeeps DEF Answer, Loaded
<1>4. CASE stored
  <2>1. /\ DOMAIN languages' = LanguageName /\ languages'[Cpp] # {}
        /\ edit' = [edit EXCEPT ![e] = [at |-> "stored", by |-> edit[e].by]]
        BY <1>2, <1>4, RootAssumption DEF Answer, IInv, TypeOK
  <2>2. TypeOK'
        BY <1>1, <2>1 DEF IInv, TypeOK, EditOK, Loaded
  <2>3. StoredBy(Browser \ {Outsider})'
        BY <1>1, <2>1, StoredStays DEF Loaded
  <2>. QED BY <1>1, <2>1, <2>2, <2>3 DEF IInv, NamesAreUnique
<1>. QED BY <1>3, <1>4

(* An edit that ends before it stores anything *)
LEMMA AbandonKeeps == ASSUME IInv, NEW e \in Edit, Abandon(e) PROVE IInv'
<1>. QED BY EndKeeps DEF Abandon, Answer, Loaded
-----------------------------------------------------------------------------
(* Every step of Accounts preserves the invariant. *)
LEMMA NextIInv == IInv /\ [AccountsNext]_accountVars => IInv'
<1> SUFFICES ASSUME IInv, [AccountsNext]_accountVars PROVE IInv'
    OBVIOUS
<1>1. CASE UNCHANGED accountVars
      BY <1>1 DEF accountVars, IInv, TypeOK, EditOK, Untouched, StoredBy, NamesAreUnique
<1>2. CASE AccountsNext
      BY <1>2, BrowserKeeps, RegisterKeeps, BeginKeeps, LoadKeeps, StoreUserKeeps,
         StoreLanguageKeeps, AbandonKeeps DEF AccountsNext
<1>. QED BY <1>1, <1>2

(* For any number of browsers, users and overlapping edits: an outsider's   *)
(* edit is stored only after an insider's, names are unique and the         *)
(* language of every import's evaluator stays.                              *)
THEOREM OutsidersWait == AccountsSpec => []OutsidersNeedInsiders
<1>1. IInv => OutsidersNeedInsiders
  <2> SUFFICES ASSUME IInv, StoredBy({Outsider}), ~StoredBy(Browser \ {Outsider}) PROVE FALSE
      BY DEF IInv, OutsidersNeedInsiders, InsidersFirst
  <2>. QED BY DEF IInv, Untouched, StoredBy
<1>. QED BY InitIInv, NextIInv, <1>1, PTL DEF AccountsSpec

-----------------------------------------------------------------------------
(***************************************************************************)
(* ScorePages                                                              *)
(***************************************************************************)

Submission == [user : Contestant, task : Task, time : Nat, score : Nat, todo : 0..Groups,
               status : {"PENDING", "JUDGING", "COMPILE_ERROR", "READY", "ERROR"}]

(* Where no group has been counted there are no points, and none is counted *)
(* of a submission that is not compiled: the list then hides nothing that   *)
(* the board counts.                                                        *)
ScoreOK(row) ==
  /\ row.todo = Groups => row.score = 0
  /\ row.status \in {"PENDING", "COMPILE_ERROR"} => row.todo = Groups

PagesTypeOK ==
  /\ clock \in Nat
  /\ submissions \in Seq(Submission)
  /\ \A i \in DOMAIN submissions : ScoreOK(submissions[i])
  /\ DOMAIN post = Post
  /\ \A p \in Post : post[p].at = "timed" =>
       post[p].user \in Contestant /\ post[p].task \in Task /\ post[p].time \in Nat

(* The invariant of ScorePages holds at first. *)
LEMMA PagesTypeInit == PagesInit => PagesTypeOK
  BY DEF PagesInit, PagesTypeOK

(* What judging makes of a row is a row, with points only where groups have *)
(* been counted.                                                            *)
LEMMA JudgedRow ==
  ASSUME PagesTypeOK, NEW i \in DOMAIN submissions, Judge(i)
  PROVE  \E row \in Submission : ScoreOK(row) /\ submissions' = [submissions EXCEPT ![i] = row]
<1> DEFINE old == submissions[i]
<1>0. old \in Submission /\ ScoreOK(old)
      BY DEF PagesTypeOK
<1>1. CASE StartJudging(i)
  <2> DEFINE new == [old EXCEPT !.status = "JUDGING"]
  <2>1. new \in Submission /\ ScoreOK(new)
        BY <1>0, <1>1 DEF StartJudging, Submission, ScoreOK
  <2>2. submissions' = [submissions EXCEPT ![i] = new]
        BY <1>1 DEF StartJudging
  <2>. QED BY <2>1, <2>2
<1>2. CASE NoBinary(i)
  <2>1. PICK s \in {"COMPILE_ERROR", "ERROR"} : submissions' = [submissions EXCEPT ![i].status = s]
        BY <1>2 DEF NoBinary
  <2> DEFINE new == [old EXCEPT !.status = s]
  <2>2. new \in Submission /\ ScoreOK(new)
        BY <1>0, <1>2 DEF NoBinary, Submission, ScoreOK
  <2>. QED BY <2>1, <2>2
<1>3. CASE CountGroup(i)
  <2>1. PICK g \in {0} \cup Gains :
          submissions' = [submissions EXCEPT ![i] =
             [old EXCEPT !.score = old.score + g, !.todo = old.todo - 1,
                         !.status = IF old.status = "JUDGING" /\ old.todo = 1
                                    THEN "READY" ELSE old.status]]
        BY <1>3 DEF CountGroup
  <2> DEFINE status == IF old.status = "JUDGING" /\ old.todo = 1 THEN "READY" ELSE old.status
             new == [old EXCEPT !.score = old.score + g, !.todo = old.todo - 1, !.status = status]
  <2>2. /\ old.score + g \in Nat
        /\ old.todo - 1 \in 0..Groups /\ old.todo - 1 # Groups
        /\ status \in {"JUDGING", "READY", "ERROR"}
    <3>1. old.score \in Nat /\ old.todo \in 0..Groups /\ g \in Nat
          BY <1>0, GainsAssumption DEF Submission
    <3>2. old.status \in {"JUDGING", "ERROR"} /\ old.todo > 0
          BY <1>3, GroupsAssumption DEF CountGroup, Counting
    <3>. QED BY <3>1, <3>2, GroupsAssumption
  <2> HIDE DEF status
  <2>3. new \in Submission /\ ScoreOK(new)
        BY <1>0, <2>2 DEF Submission, ScoreOK
  <2>. QED BY <2>1, <2>3 DEF status
<1>4. CASE GroupFails(i)
  <2>1. PICK older \in 0..old.score :
          submissions' = [submissions EXCEPT ![i].status = "ERROR", ![i].score = older]
        BY <1>4 DEF GroupFails
  <2> DEFINE new == [old EXCEPT !.status = "ERROR", !.score = older]
  <2>2. new \in Submission /\ ScoreOK(new)
    <3>1. old.todo # Groups /\ older \in Nat
          BY <1>0, <1>4, GroupsAssumption DEF GroupFails, Submission
    <3>. QED BY <1>0, <3>1 DEF Submission, ScoreOK
  <2>3. submissions' = [submissions EXCEPT ![i] = new]
        BY <2>1
  <2>. QED BY <2>2, <2>3
<1>. QED BY <1>1, <1>2, <1>3, <1>4 DEF Judge

(* Every step preserves it. *)
LEMMA PagesTypeStep == PagesTypeOK /\ [PagesNext]_pageVars => PagesTypeOK'
<1> SUFFICES ASSUME PagesTypeOK, [PagesNext]_pageVars PROVE PagesTypeOK'
    OBVIOUS
<1>1. CASE Tick
      BY <1>1 DEF PagesTypeOK, Tick
<1>2. ASSUME NEW p \in Post, Submit(p) PROVE PagesTypeOK'
  <2> DEFINE row == [user |-> post[p].user, task |-> post[p].task, time |-> post[p].time,
                     status |-> "PENDING", score |-> 0, todo |-> Groups]
  <2>1. row \in Submission /\ ScoreOK(row)
        BY <1>2, GroupsAssumption DEF PagesTypeOK, Submit, Submission, ScoreOK
  <2>2. submissions' = Append(submissions, row)
        BY <1>2 DEF Submit
  <2> HIDE DEF row
  <2>3. /\ submissions' \in Seq(Submission)
        /\ \A i \in DOMAIN submissions' : ScoreOK(submissions'[i])
    <3>1. submissions \in Seq(Submission) /\ \A i \in DOMAIN submissions : ScoreOK(submissions[i])
          BY DEF PagesTypeOK
    <3>2. ASSUME NEW i \in DOMAIN submissions' PROVE ScoreOK(submissions'[i])
      <4>1. submissions'[i] = row \/ (i \in DOMAIN submissions /\ submissions'[i] = submissions[i])
            BY <2>1, <2>2, <3>1
      <4>. QED BY <2>1, <3>1, <4>1
    <3>. QED BY <2>1, <2>2, <3>1, <3>2
  <2>. QED BY <1>2, <2>3 DEF PagesTypeOK, Submit
<1>3. ASSUME NEW p \in Post, NEW u \in Contestant, NEW t \in Task, TakeTime(p, u, t)
      PROVE  PagesTypeOK'
      BY <1>3 DEF PagesTypeOK, TakeTime
<1>4. ASSUME NEW i \in DOMAIN submissions, Judge(i) PROVE PagesTypeOK'
  <2>1. PICK row \in Submission : ScoreOK(row) /\ submissions' = [submissions EXCEPT ![i] = row]
        BY <1>4, JudgedRow
  <2>2. /\ submissions' \in Seq(Submission)
        /\ \A j \in DOMAIN submissions' : ScoreOK(submissions'[j])
    <3>1. submissions \in Seq(Submission) /\ \A j \in DOMAIN submissions : ScoreOK(submissions[j])
          BY DEF PagesTypeOK
    <3>2. ASSUME NEW j \in DOMAIN submissions' PROVE ScoreOK(submissions'[j])
      <4>1. submissions'[j] = row \/ (j \in DOMAIN submissions /\ submissions'[j] = submissions[j])
            BY <2>1
      <4>. QED BY <2>1, <3>1, <4>1
    <3>. QED BY <2>1, <3>1, <3>2
  <2>3. UNCHANGED <<clock, post>>
        BY <1>4 DEF Judge
  <2>. QED BY <2>2, <2>3 DEF PagesTypeOK
<1>5. CASE UNCHANGED pageVars
      BY <1>5 DEF PagesTypeOK, pageVars
<1>. QED BY <1>1, <1>2, <1>3, <1>4, <1>5 DEF PagesNext

(* What the list shows of no submission and of one *)
LEMMA SumOfNone == MapThenSumSet(LAMBDA i : Listed(i), {}) = 0
<1> DEFINE Sums(it) ==
             it = [T \in SUBSET {} |->
                    IF T = {} THEN 0
                    ELSE LET x == CHOOSE x \in T : TRUE IN Listed(x) + it[T \ {x}]]
<1>1. Sums([T \in SUBSET {} |-> 0])
      OBVIOUS
<1>2. \A it : Sums(it) => it[{}] = 0
      OBVIOUS
<1>3. \E it : Sums(it) /\ MapThenSumSet(LAMBDA i : Listed(i), {}) = it[{}]
      BY <1>1 DEF MapThenSumSet, MapThenFoldSet
<1>. QED BY <1>2, <1>3

(* What it shows of the only submission of a set is the sum. *)
LEMMA SumOfOne ==
  ASSUME NEW i, Listed(i) \in Nat
  PROVE  MapThenSumSet(LAMBDA k : Listed(k), {i}) = Listed(i)
<1> DEFINE score == Listed(i)
           Sums(it) ==
             it = [T \in SUBSET {i} |->
                    IF T = {} THEN 0
                    ELSE LET x == CHOOSE x \in T : TRUE IN Listed(x) + it[T \ {x}]]
<1>1. \A it : Sums(it) => it[{i}] = score
  <2> SUFFICES ASSUME NEW it, Sums(it) PROVE it[{i}] = score
      OBVIOUS
  <2>1. it[{}] = 0
        OBVIOUS
  <2>2. (CHOOSE x \in {i} : TRUE) = i /\ {i} \ {i} = {}
        OBVIOUS
  <2>3. it[{i}] = LET x == CHOOSE x \in {i} : TRUE IN Listed(x) + it[{i} \ {x}]
        OBVIOUS
  <2>. QED BY <2>1, <2>2, <2>3
<1>2. \E it : Sums(it)
  <2> DEFINE it == [T \in SUBSET {i} |-> IF T = {} THEN 0 ELSE score]
  <2>1. ASSUME NEW T \in SUBSET {i}
        PROVE  it[T] = IF T = {} THEN 0
                       ELSE LET x == CHOOSE x \in T : TRUE IN Listed(x) + it[T \ {x}]
    <3>1. CASE T = {}
          BY <3>1
    <3>2. CASE T = {i}
      <4>1. (CHOOSE x \in T : TRUE) = i /\ T \ {i} = {} /\ T # {}
            BY <3>2
      <4>2. it[T] = score /\ it[{}] = 0
            BY <3>2
      <4>. QED BY <4>1, <4>2
    <3>. QED BY <3>1, <3>2
  <2>2. it = [T \in SUBSET {i} |->
               IF T = {} THEN 0
               ELSE LET x == CHOOSE x \in T : TRUE IN Listed(x) + it[T \ {x}]]
        BY <2>1
  <2>. QED BY <2>2
<1>3. \E it : Sums(it) /\ MapThenSumSet(LAMBDA k : Listed(k), {i}) = it[{i}]
      BY <1>2 DEF MapThenSumSet, MapThenFoldSet
<1>. QED BY <1>1, <1>3

(* A user's only newest submission to a task is the top of the list, and    *)
(* what the board shows.                                                    *)
LEMMA TopIsNewest ==
  ASSUME PagesTypeOK, NEW u \in Contestant, NEW t \in Task, NEW cells \in Boards(u),
         Cardinality(Newest(u, t)) <= 1
  PROVE  \/ cells[t] = 0 /\ Top(u, t) = {}
         \/ cells[t] \in DOMAIN submissions /\ cells[t] # 0 /\ Top(u, t) = {cells[t]}
<1> DEFINE c == cells[t]
<1>0. /\ submissions \in Seq(Submission)
      /\ \A i \in Of(u, t) : /\ i \in DOMAIN submissions /\ i # 0
                             /\ submissions[i].time \in Nat
  <2>1. submissions \in Seq(Submission)
        BY DEF PagesTypeOK
  <2>2. ASSUME NEW i \in Of(u, t) PROVE i \in DOMAIN submissions /\ i # 0 /\ submissions[i].time \in Nat
    <3>1. i \in DOMAIN submissions /\ i # 0 /\ submissions[i] \in Submission
          BY <2>1 DEF Of
    <3>. QED BY <3>1 DEF Submission
  <2>. QED BY <2>1, <2>2
<1>1. IF Of(u, t) = {} THEN c = 0 ELSE c \in Newest(u, t)
      BY DEF Boards
<1>2. CASE Of(u, t) = {}
      BY <1>1, <1>2 DEF Top
<1>3. CASE Of(u, t) # {}
  <2>1. /\ c \in Of(u, t)
        /\ \A j \in Of(u, t) : submissions[j].time <= submissions[c].time
        BY <1>1, <1>3 DEF Newest
  <2>2. Newest(u, t) = {c}
    <3>1. IsFiniteSet(Newest(u, t))
      <4>1. Newest(u, t) \subseteq 1..Len(submissions) /\ Len(submissions) \in Nat
            BY <1>0 DEF Newest, Of
      <4>2. IsFiniteSet(1..Len(submissions))
            BY <4>1, FS_Interval
      <4>. QED BY <4>1, <4>2, FS_Subset
    <3>2. c \in Newest(u, t)
          BY <1>1, <1>3
    <3>3. Cardinality(Newest(u, t)) = Cardinality({c})
      <4>1. IsFiniteSet({c}) /\ Cardinality({c}) = 1
            BY FS_Singleton
      <4>2. Cardinality({c}) <= Cardinality(Newest(u, t)) /\ Cardinality(Newest(u, t)) \in Nat
            BY <3>1, <3>2, FS_Subset, FS_CardinalityType
      <4>. QED BY <4>1, <4>2
    <3>. QED BY <3>1, <3>2, <3>3, FS_Subset
  <2>3. \A j \in Of(u, t) \ {c} : submissions[j].time < submissions[c].time
    <3>1. ASSUME NEW j \in Of(u, t) \ {c} PROVE submissions[j].time # submissions[c].time
      <4>1. j \notin Newest(u, t)
            BY <2>2
      <4>2. PICK k \in Of(u, t) : ~(submissions[k].time <= submissions[j].time)
            BY <4>1 DEF Newest
      <4>. QED BY <1>0, <2>1, <4>2
    <3>. QED BY <1>0, <2>1, <3>1
  <2>4. c \in Top(u, t)
        BY <1>0, <2>1, <2>3 DEF Top, ListedFirst
  <2>5. ASSUME NEW i \in Top(u, t) PROVE i = c
    <3> SUFFICES ASSUME i # c PROVE FALSE
        OBVIOUS
    <3>1. i \in Of(u, t) \ {c} /\ ListedFirst(i, c)
          BY <2>1 DEF Top
    <3>2. submissions[i].time < submissions[c].time
          BY <2>3, <3>1
    <3>3. submissions[i].time >= submissions[c].time
          BY <1>0, <2>1, <3>1 DEF ListedFirst
    <3>. QED BY <1>0, <2>1, <3>1, <3>2, <3>3
  <2>. QED BY <1>0, <2>1, <2>4, <2>5
<1>. QED BY <1>2, <1>3

(* The list shows what the board counts of a row that is neither in JUDGING *)
(* nor in ERROR.                                                            *)
LEMMA ListedIsScore ==
  ASSUME PagesTypeOK, NEW i \in DOMAIN submissions,
         submissions[i].status \notin {"JUDGING", "ERROR"}
  PROVE  Listed(i) = submissions[i].score /\ Listed(i) \in Nat
<1>1. submissions[i] \in Submission /\ ScoreOK(submissions[i])
      BY DEF PagesTypeOK
<1>. QED BY <1>1 DEF Submission, ScoreOK, Listed

(* A total of the score board is the sum of what is on top of the lists.    *)
LEMMA SameTotals ==
  ASSUME PagesTypeOK, NEW u \in Contestant, NEW cells \in Boards(u),
         \A t \in Task : /\ Cardinality(Newest(u, t)) <= 1
                         /\ \A i \in Newest(u, t) : submissions[i].status \notin {"JUDGING", "ERROR"}
  PROVE  Total(cells) =
           MapThenSumSet(LAMBDA t : MapThenSumSet(LAMBDA i : Listed(i), Top(u, t)), Task)
<1> DEFINE Cell(t) == IF cells[t] = 0 THEN 0 ELSE submissions[cells[t]].score
           Line(t) == MapThenSumSet(LAMBDA i : Listed(i), Top(u, t))
           Cells(it) == it = [T \in SUBSET Task |->
                                IF T = {} THEN 0
                                ELSE LET x == CHOOSE x \in T : TRUE IN Cell(x) + it[T \ {x}]]
           Lines(it) == it = [T \in SUBSET Task |->
                                IF T = {} THEN 0
                                ELSE LET x == CHOOSE x \in T : TRUE IN Line(x) + it[T \ {x}]]
<1>1. ASSUME NEW t \in Task PROVE Cell(t) = Line(t)
  <2>1. CASE cells[t] = 0 /\ Top(u, t) = {}
        BY <2>1, SumOfNone
  <2>2. CASE cells[t] \in DOMAIN submissions /\ cells[t] # 0 /\ Top(u, t) = {cells[t]}
    <3>1. cells[t] \in Newest(u, t)
          BY <2>2 DEF Boards
    <3>2. Listed(cells[t]) = submissions[cells[t]].score /\ Listed(cells[t]) \in Nat
          BY <2>2, <3>1, ListedIsScore
    <3>3. Line(t) = Listed(cells[t])
          BY <2>2, <3>2, SumOfOne
    <3>. QED BY <2>2, <3>2, <3>3
  <2>. QED BY <2>1, <2>2, TopIsNewest
<1>2. Total(cells) = (CHOOSE it : Cells(it))[Task]
      BY DEF Total, MapThenSumSet, MapThenFoldSet
<1>3. MapThenSumSet(LAMBDA t : Line(t), Task) = (CHOOSE it : Lines(it))[Task]
      BY DEF MapThenSumSet, MapThenFoldSet
<1> HIDE DEF Cell, Line
<1>4. \A it : Cells(it) <=> Lines(it)
  <2> SUFFICES ASSUME NEW it PROVE Cells(it) <=> Lines(it)
      OBVIOUS
  <2> DEFINE First(T) == CHOOSE x \in T : TRUE
             OfCells(T) == IF T = {} THEN 0 ELSE Cell(First(T)) + it[T \ {First(T)}]
             OfLines(T) == IF T = {} THEN 0 ELSE Line(First(T)) + it[T \ {First(T)}]
  <2>1. ASSUME NEW T \in SUBSET Task PROVE OfCells(T) = OfLines(T)
    <3>1. T # {} => First(T) \in Task
          OBVIOUS
    <3>. QED BY <1>1, <3>1
  <2>2. Cells(it) <=> it = [T \in SUBSET Task |-> OfCells(T)]
        OBVIOUS
  <2>3. Lines(it) <=> it = [T \in SUBSET Task |-> OfLines(T)]
        OBVIOUS
  <2> HIDE DEF OfCells, OfLines
  <2>4. [T \in SUBSET Task |-> OfCells(T)] = [T \in SUBSET Task |-> OfLines(T)]
        BY <2>1
  <2>. QED BY <2>2, <2>3, <2>4
<1> HIDE DEF Cells, Lines
<1>5. (CHOOSE it : Cells(it)) = (CHOOSE it : Lines(it))
      BY <1>4
<1>6. Total(cells) = MapThenSumSet(LAMBDA t : Line(t), Task)
      BY <1>2, <1>3, <1>5
<1>. QED BY <1>6 DEF Line

(* For any number of contestants, tasks, test groups and submissions, in     *)
(* whatever order they were stored and judged: a total of the score board is *)
(* what the list of submissions shows, unless a newest submission is being   *)
(* judged or in ERROR or carries the same second as another.                 *)
THEOREM BoardsAgree == PagesSpec => []BoardAgreesWithList
<1>1. PagesTypeOK => BoardAgreesWithList
      BY SameTotals DEF BoardAgreesWithList
<1>. QED BY PagesTypeInit, PagesTypeStep, <1>1, PTL DEF PagesSpec

-----------------------------------------------------------------------------
(***************************************************************************)
(* Import                                                                  *)
(***************************************************************************)

(* The names up to x: the place of x in an ascending list of S is their     *)
(* number.                                                                  *)
UpTo(S, x) == {y \in S : y <= x}
Place(S, x) == Cardinality(UpTo(S, x))

(* A name has a place among those up to it. *)
LEMMA PlaceType ==
  ASSUME NEW S \in SUBSET Nat, IsFiniteSet(S), NEW x \in S
  PROVE  Place(S, x) \in 1..Cardinality(S)
<1>1. UpTo(S, x) \subseteq S /\ x \in UpTo(S, x)
      BY DEF UpTo
<1>2. IsFiniteSet(UpTo(S, x)) /\ Place(S, x) <= Cardinality(S)
      BY <1>1, FS_Subset DEF Place
<1>3. Place(S, x) \in Nat /\ Cardinality(S) \in Nat /\ Place(S, x) # 0
      BY <1>1, <1>2, FS_CardinalityType, FS_EmptySet DEF Place
<1>. QED BY <1>2, <1>3

(* A larger name has a larger place. *)
LEMMA PlaceGrows ==
  ASSUME NEW S \in SUBSET Nat, IsFiniteSet(S), NEW x \in S, NEW y \in S, x < y
  PROVE  Place(S, x) < Place(S, y)
<1>0. S \subseteq Nat /\ x \in Nat /\ y \in Nat
      OBVIOUS
<1>1. UpTo(S, x) \subseteq UpTo(S, y) /\ UpTo(S, x) # UpTo(S, y) /\ UpTo(S, y) \subseteq S
  <2>1. UpTo(S, y) \subseteq S
        BY DEF UpTo
  <2>2. y \in UpTo(S, y) /\ y \notin UpTo(S, x)
        BY <1>0 DEF UpTo
  <2>3. \A z \in S : z <= x => z <= y
        BY <1>0
  <2>. QED BY <2>1, <2>2, <2>3 DEF UpTo
<1>2. IsFiniteSet(UpTo(S, y))
      BY <1>1, FS_Subset
<1>3. Place(S, x) <= Place(S, y) /\ Place(S, x) # Place(S, y)
      BY <1>1, <1>2, FS_Subset DEF Place
<1>4. Place(S, x) \in Nat /\ Place(S, y) \in Nat
      BY PlaceType, FS_CardinalityType
<1>. QED BY <1>3, <1>4

(* Every finite set of names has a sorted list. *)
LEMMA SortExists ==
  ASSUME NEW S \in SUBSET Nat, IsFiniteSet(S)
  PROVE  \E s \in SetToSeqs(S) : Ascending(s)
<1> DEFINE n == Cardinality(S)
           rank == [x \in S |-> Place(S, x)]
<1>1. n \in Nat /\ IsFiniteSet(1..n) /\ Cardinality(1..n) = n
      BY FS_CardinalityType, FS_Interval
<1>2. rank \in Injection(S, 1..n)
  <2>1. rank \in [S -> 1..n]
        BY PlaceType
  <2>2. ASSUME NEW x \in S, NEW y \in S, x # y PROVE rank[x] # rank[y]
    <3>1. x < y \/ y < x
          BY <2>2
    <3>2. Place(S, x) \in Nat /\ Place(S, y) \in Nat
          BY <1>1, PlaceType
    <3>. QED BY <3>1, <3>2, PlaceGrows
  <2>. QED BY <2>1, <2>2 DEF Injection, IsInjective
<1> HIDE DEF rank
<1>3. rank \in Surjection(S, 1..n)
      BY <1>1, <1>2, FS_Injection
<1> DEFINE s == [i \in 1..n |-> CHOOSE x \in S : rank[x] = i]
<1>4. \A i \in 1..n : s[i] \in S /\ rank[s[i]] = i
      BY <1>3 DEF Surjection
<1>5. s \in [1..n -> S] /\ \A i, j \in 1..n : i # j => s[i] # s[j]
      BY <1>4
<1> HIDE DEF s
<1>6. ASSUME NEW i \in 1..n, NEW j \in 1..n, i < j PROVE s[i] < s[j]
  <2>1. s[i] \in S /\ s[j] \in S /\ s[i] # s[j]
        BY <1>4, <1>5, <1>6, <1>1
  <2>2. rank[s[i]] = Place(S, s[i]) /\ rank[s[j]] = Place(S, s[j])
        BY <2>1 DEF rank
  <2>3. ~ (Place(S, s[j]) < Place(S, s[i]))
        BY <1>1, <1>4, <1>6, <2>2
  <2>4. s[i] \in Nat /\ s[j] \in Nat
        BY <2>1
  <2>5. s[i] < s[j] \/ s[j] < s[i]
        BY <2>1, <2>4
  <2>. QED BY <2>1, <2>3, <2>5, PlaceGrows
<1>7. s \in SetToSeqs(S)
      BY <1>5 DEF SetToSeqs
<1>8. DOMAIN s = 1..n
      BY <1>5
<1>. QED BY <1>6, <1>7, <1>8 DEF Ascending

(* Where sorting puts a name does not depend on the order it was read in.   *)
LEMMA SortedPlaces ==
  ASSUME NEW S \in SUBSET Nat, IsFiniteSet(S), NEW s \in SetToSeqs(S)
  PROVE  /\ Sorted(s) \in [1..Cardinality(S) -> S]
         /\ \A x \in S : \E i \in 1..Cardinality(S) : Sorted(s)[i] = x
         /\ \A i \in 1..Cardinality(S) : Place(S, Sorted(s)[i]) = i
<1> DEFINE n == Cardinality(S)
<1>0. n \in Nat /\ IsFiniteSet(1..n) /\ Cardinality(1..n) = n
      BY FS_CardinalityType, FS_Interval
<1>a. \A f \in SetToSeqs(S) : /\ f \in [1..n -> S] /\ f \in Surjection(1..n, S)
                              /\ \A i, j \in 1..n : i # j => f[i] # f[j]
  <2> SUFFICES ASSUME NEW f \in SetToSeqs(S)
               PROVE  /\ f \in [1..n -> S] /\ f \in Surjection(1..n, S)
                      /\ \A i, j \in 1..n : i # j => f[i] # f[j]
      OBVIOUS
  <2>1. f \in [1..n -> S] /\ \A i, j \in 1..n : i # j => f[i] # f[j]
        BY DEF SetToSeqs
  <2>2. f \in Injection(1..n, S)
        BY <2>1 DEF Injection, IsInjective
  <2>3. f \in Surjection(1..n, S)
        BY <1>0, <2>2, FS_Injection
  <2>. QED BY <2>1, <2>3
<1>1. Range(s) = S
  <2>1. s \in [1..n -> S] /\ \A x \in S : \E i \in 1..n : s[i] = x
        BY <1>a DEF Surjection
  <2> HIDE DEF n
  <2>. QED BY <2>1 DEF Range
<1> DEFINE t == Sorted(s)
<1>2. t \in SetToSeqs(S) /\ Ascending(t)
      BY <1>1, SortExists DEF Sorted
<1> HIDE DEF t
<1>3. t \in [1..n -> S] /\ (\A x \in S : \E i \in 1..n : t[i] = x) /\ DOMAIN t = 1..n
      BY <1>a, <1>2 DEF Surjection
<1>4. ASSUME NEW i \in 1..n PROVE Place(S, t[i]) = i
  <2> DEFINE b == [j \in 1..i |-> t[j]]
  <2>0. i \in Nat /\ 1..i \subseteq 1..n /\ t[i] \in Nat
    <3>1. t[i] \in S
          BY <1>3
    <3>2. i \in Nat /\ i <= n /\ n \in Nat
          BY <1>0
    <3> HIDE DEF n
    <3>3. \A j \in 1..i : j \in 1..n
          BY <3>2
    <3>. QED BY <3>1, <3>2, <3>3
  <2>1. \A j \in 1..n : t[j] <= t[i] <=> j <= i
    <3> SUFFICES ASSUME NEW j \in 1..n PROVE t[j] <= t[i] <=> j <= i
        OBVIOUS
    <3>1. t[i] \in Nat /\ t[j] \in Nat
          BY <1>3
    <3>. QED BY <1>0, <1>2, <1>3, <3>1 DEF Ascending
  <2>2. \A j \in 1..i : b[j] \in UpTo(S, t[i])
        BY <1>3, <2>0, <2>1 DEF UpTo
  <2>3. \A j, k \in 1..i : b[j] = b[k] => j = k
        BY <1>a, <1>2, <2>0
  <2>4. \A x \in UpTo(S, t[i]) : \E j \in 1..i : b[j] = x
    <3> SUFFICES ASSUME NEW x \in UpTo(S, t[i]) PROVE \E j \in 1..i : b[j] = x
        OBVIOUS
    <3>1. PICK j \in 1..n : t[j] = x
          BY <1>3 DEF UpTo
    <3>2. j \in 1..i
          BY <1>0, <2>0, <2>1, <3>1 DEF UpTo
    <3>. QED BY <3>1, <3>2
  <2>5. b \in Bijection(1..i, UpTo(S, t[i]))
        BY <2>2, <2>3, <2>4 DEF Bijection, Injection, Surjection, IsInjective
  <2>6. IsFiniteSet(1..i) /\ Cardinality(1..i) = i
        BY <2>0, FS_Interval
  <2>. QED BY <2>5, <2>6, FS_Bijection DEF Place, ExistsBijection
<1>. QED BY <1>3, <1>4 DEF t

(* If the same names are in both sets up to x, then x has the same place.   *)
LEMMA SamePlace ==
  ASSUME NEW S \in SUBSET (Nat \ {0}), NEW T \in SUBSET (Nat \ {0}), NEW x \in S,
         \A y \in 1..x : y \in S <=> y \in T
  PROVE  x \in T /\ Place(S, x) = Place(T, x)
<1>0. x \in Nat \ {0} /\ S \subseteq Nat \ {0} /\ T \subseteq Nat \ {0}
      OBVIOUS
<1>1. x \in T
      BY <1>0
<1>2. \A y \in Nat \ {0} : y <= x <=> y \in 1..x
      BY <1>0
<1>3. UpTo(S, x) = UpTo(T, x)
      BY <1>0, <1>2 DEF UpTo
<1>. QED BY <1>1, <1>3 DEF Place

(* The outputs begin with the sorted ones, so a submission is compared with *)
(* the output of its input.                                                 *)
LEMMA PairedFiles ==
  ASSUME NEW S \in SUBSET Suffix, NEW T \in SUBSET Suffix,
         NEW is \in SetToSeqs(S), NEW os \in SetToSeqs(T), NEW length \in Nat,
         NEW i \in 1..Cardinality(S),
         \A x \in 1..Sorted(is)[i] : x \in S <=> x \in T
  PROVE  Padded(Sorted(os), length)[i] = Sorted(is)[i]
<1> DEFINE x == Sorted(is)[i]
           outs == Sorted(os)
           m == Cardinality(T)
<1>1. /\ S \in SUBSET (Nat \ {0}) /\ T \in SUBSET (Nat \ {0})
      /\ S \in SUBSET Nat /\ T \in SUBSET Nat
      /\ IsFiniteSet(S) /\ IsFiniteSet(T)
      BY SuffixAssumption, FS_Subset
<1>2. x \in S /\ Place(S, x) = i
  <2>1. Sorted(is) \in [1..Cardinality(S) -> S] /\ Place(S, Sorted(is)[i]) = i
        BY <1>1, SortedPlaces
  <2>. QED BY <2>1
<1> HIDE DEF x
<1>3. x \in T /\ Place(T, x) = i
  <2>1. \A y \in 1..x : y \in S <=> y \in T
        BY DEF x
  <2>2. x \in T /\ Place(S, x) = Place(T, x)
        BY <1>1, <1>2, <2>1, SamePlace
  <2>. QED BY <1>2, <2>2
<1>4. i \in 1..m /\ m \in Nat
      BY <1>1, <1>3, PlaceType, FS_CardinalityType
<1>5. outs \in [1..m -> T] /\ outs[i] = x
  <2>1. /\ outs \in [1..m -> T]
        /\ \E j \in 1..m : outs[j] = x
        /\ \A j \in 1..m : Place(T, outs[j]) = j
    <3>1. /\ Sorted(os) \in [1..Cardinality(T) -> T]
          /\ \A y \in T : \E j \in 1..Cardinality(T) : Sorted(os)[j] = y
          /\ \A j \in 1..Cardinality(T) : Place(T, Sorted(os)[j]) = j
          BY <1>1, SortedPlaces
    <3>. QED BY <1>3, <3>1
  <2>. QED BY <1>3, <2>1
<1> HIDE DEF outs, m
<1> DEFINE pad == [j \in 1..(length - Len(outs)) |-> NoFile]
<1>6. outs \in Seq(Nat) /\ Len(outs) = m
  <2>1. outs \in [1..m -> Nat]
        BY <1>1, <1>5
  <2>. QED BY <1>4, <2>1
<1>7. pad \in Seq(Nat)
  <2>1. PICK k \in Nat : 1..(length - Len(outs)) = 1..k
    <3>1. CASE length - Len(outs) \in Nat
          BY <3>1
    <3>2. CASE length - Len(outs) \notin Nat
      <4>1. 1..(length - Len(outs)) = 1..0
            BY <1>4, <1>6, <3>2
      <4>. QED BY <4>1
    <3>. QED BY <3>1, <3>2
  <2>2. pad = [j \in 1..k |-> NoFile] /\ NoFile \in Nat
        BY <2>1 DEF NoFile
  <2>. QED BY <2>2
<1> HIDE DEF pad
<1>8. (outs \o pad)[i] = outs[i]
      BY <1>4, <1>6, <1>7
<1>9. Padded(outs, length) = outs \o pad
      BY DEF Padded, pad
<1>. QED BY <1>5, <1>8, <1>9 DEF outs, x

-----------------------------------------------------------------------------
(* Induction on the naturals, for a set of them *)
LEMMA CountingUp ==
  ASSUME NEW Good, 0 \in Good, \A n \in Nat : n \in Good => n + 1 \in Good
  PROVE  Nat \subseteq Good
<1> DEFINE Bad == Nat \ Good
<1> SUFFICES ASSUME Bad # {} PROVE FALSE
    OBVIOUS
<1>1. Bad \subseteq Nat
      OBVIOUS
<1> HIDE DEF Bad
<1>2. PICK n \in Bad : \A m \in Bad : ~ (<<m, n>> \in OpToRel(<, Nat))
      BY <1>1, NatLessThanWellFounded, WFMin
<1> USE DEF Bad
<1>3. n \in Nat \ {0} /\ n - 1 \in Nat /\ n - 1 < n
      OBVIOUS
<1>4. n - 1 \in Good
      BY <1>2, <1>3 DEF OpToRel
<1>. QED BY <1>3, <1>4

(* The recursive function by which FlattenSeq is defined *)
FlattenedTo(s, n, it) == it = [i \in 1..n |-> IF i = 1 THEN s[i] ELSE it[i - 1] \o s[i]]

(* There is such a function, so FlattenSeq has its value. *)
LEMMA FlattenedExists == ASSUME NEW s, NEW n \in Nat PROVE \E it : FlattenedTo(s, n, it)
<1> DEFINE Good == {m \in Nat : \E it : FlattenedTo(s, m, it)}
<1>1. 0 \in Good
  <2>1. FlattenedTo(s, 0, [i \in 1..0 |-> s])
        BY DEF FlattenedTo
  <2>. QED BY <2>1
<1>2. ASSUME NEW m \in Nat, m \in Good PROVE m + 1 \in Good
  <2>1. PICK it : FlattenedTo(s, m, it)
        BY <1>2
  <2> DEFINE more == [i \in 1..(m + 1) |->
                       IF i = m + 1 THEN IF i = 1 THEN s[i] ELSE it[m] \o s[i]
                       ELSE it[i]]
  <2>2. ASSUME NEW i \in 1..(m + 1)
        PROVE  more[i] = IF i = 1 THEN s[i] ELSE more[i - 1] \o s[i]
    <3>1. CASE i = m + 1
      <4>1. i # 1 => more[i - 1] = it[m]
            BY <3>1
      <4>. QED BY <3>1, <4>1
    <3>2. CASE i # m + 1
      <4>1. i \in 1..m /\ more[i] = it[i] /\ (i # 1 => more[i - 1] = it[i - 1])
            BY <3>2
      <4>. QED BY <2>1, <4>1 DEF FlattenedTo
    <3>. QED BY <3>1, <3>2
  <2>3. FlattenedTo(s, m + 1, more)
        BY <2>2 DEF FlattenedTo
  <2>. QED BY <2>3
<1> HIDE DEF Good
<1>3. Nat \subseteq Good
      BY <1>1, <1>2, CountingUp
<1>. QED BY <1>3 DEF Good

(* A sequence of sequences is flattened into a sequence. *)
LEMMA Flattened ==
  ASSUME NEW W, NEW s \in Seq(Seq(W)), s # <<>>
  PROVE  \E it : /\ FlattenSeq(s) = it[Len(s)]
                 /\ it[1] = s[1]
                 /\ \A i \in 2..Len(s) : it[i] = it[i - 1] \o s[i]
                 /\ \A i \in 1..Len(s) : it[i] \in Seq(W)
<1>1. Len(s) \in Nat \ {0} /\ \A i \in 1..Len(s) : s[i] \in Seq(W)
      OBVIOUS
<1>2. PICK it : FlattenedTo(s, Len(s), it) /\ FlattenSeq(s) = it[Len(s)]
  <2>1. Len(s) # 0 /\ \E it : FlattenedTo(s, Len(s), it)
        BY <1>1, FlattenedExists
  <2> DEFINE all == CHOOSE it : FlattenedTo(s, Len(s), it)
  <2>2. FlattenedTo(s, Len(s), all)
        BY <2>1
  <2>3. FlattenSeq(s) = all[Len(s)]
        BY <2>1 DEF FlattenSeq, FlattenedTo
  <2>. QED BY <2>2, <2>3
<1>3. it[1] = s[1] /\ \A i \in 2..Len(s) : it[i] = it[i - 1] \o s[i]
  <2>1. \A i \in 1..Len(s) : it[i] = IF i = 1 THEN s[i] ELSE it[i - 1] \o s[i]
        BY <1>2 DEF FlattenedTo
  <2>2. 1 \in 1..Len(s) /\ \A i \in 2..Len(s) : i \in 1..Len(s) /\ i # 1
        BY <1>1
  <2>. QED BY <2>1, <2>2
<1> DEFINE Good == {n \in Nat : n + 1 \in 1..Len(s) => it[n + 1] \in Seq(W)}
<1>4. 0 \in Good
      BY <1>1, <1>3
<1>5. ASSUME NEW n \in Nat, n \in Good PROVE n + 1 \in Good
  <2> SUFFICES ASSUME (n + 1) + 1 \in 1..Len(s) PROVE it[(n + 1) + 1] \in Seq(W)
      OBVIOUS
  <2>1. it[n + 1] \in Seq(W)
        BY <1>1, <1>5
  <2>2. it[(n + 1) + 1] = it[n + 1] \o s[(n + 1) + 1]
    <3>1. (n + 1) + 1 \in 2..Len(s) /\ ((n + 1) + 1) - 1 = n + 1
          BY <1>1
    <3>2. it[(n + 1) + 1] = it[((n + 1) + 1) - 1] \o s[(n + 1) + 1]
          BY <1>3, <3>1
    <3>. QED BY <3>1, <3>2
  <2>. QED BY <1>1, <2>1, <2>2
<1> HIDE DEF Good
<1>6. Nat \subseteq Good
      BY <1>4, <1>5, CountingUp
<1>7. ASSUME NEW i \in 1..Len(s) PROVE it[i] \in Seq(W)
  <2>1. i - 1 \in Nat /\ (i - 1) + 1 = i
        BY <1>1
  <2>. QED BY <1>6, <2>1 DEF Good
<1>. QED BY <1>2, <1>3, <1>7

(* Parts can be put together from the front or from the back. *)
Associative(W) == \A a, b, c \in Seq(W) : (a \o b) \o c = a \o (b \o c)

LEMMA ThreeParts == \A W : Associative(W)
  BY ConcatAssociative, SMTT(30) DEF Associative

(* What is flattened begins with the first sequence. *)
LEMMA FlattenHead ==
  ASSUME NEW W, NEW s \in Seq(Seq(W)), s # <<>>
  PROVE  /\ FlattenSeq(Tail(s)) \in Seq(W)
         /\ FlattenSeq(s) = Head(s) \o FlattenSeq(Tail(s))
<1>c. Associative(W)
      BY ThreeParts
<1> DEFINE t == Tail(s)
<1>0. t \in Seq(Seq(W)) /\ Head(s) = s[1]
      OBVIOUS
<1>1. Len(t) = Len(s) - 1 /\ Len(s) \in Nat \ {0} /\ Len(t) \in Nat
      OBVIOUS
<1>a. \A i \in 1..Len(t) : t[i] = s[i + 1]
      OBVIOUS
<1>b. \A i \in 1..Len(s) : s[i] \in Seq(W)
      OBVIOUS
<1>2. PICK it : /\ FlattenSeq(s) = it[Len(s)]
                /\ it[1] = s[1]
                /\ \A i \in 2..Len(s) : it[i] = it[i - 1] \o s[i]
                /\ \A i \in 1..Len(s) : it[i] \in Seq(W)
      BY Flattened
<1> HIDE DEF t
<1>3. CASE t = <<>>
  <2>1. FlattenSeq(t) = <<>>
        BY <1>3 DEF FlattenSeq
  <2>2. Len(s) = 1
        BY <1>1, <1>3
  <2>3. FlattenSeq(s) = s[1] /\ s[1] \in Seq(W)
        BY <1>1, <1>b, <1>2, <2>2
  <2>4. s[1] \o <<>> = s[1] /\ <<>> \in Seq(W)
        BY <2>3
  <2>. QED BY <1>0, <2>1, <2>3, <2>4 DEF t
<1>4. CASE t # <<>>
  <2>1. PICK jt : /\ FlattenSeq(t) = jt[Len(t)]
                  /\ jt[1] = t[1]
                  /\ \A i \in 2..Len(t) : jt[i] = jt[i - 1] \o t[i]
                  /\ \A i \in 1..Len(t) : jt[i] \in Seq(W)
        BY <1>0, <1>4, Flattened
  <2>0. Len(t) \in Nat \ {0}
        BY <1>0, <1>4
  <2> DEFINE Same(n) == it[n + 2] = s[1] \o jt[n + 1]
             Good == {n \in Nat : n + 1 \in 1..Len(t) => Same(n)}
  <2>2. 0 \in Good
    <3>1. it[2] = it[1] \o s[2]
      <4>1. 2 \in 2..Len(s) /\ 2 - 1 = 1
            BY <1>1, <2>0
      <4>. QED BY <1>2, <4>1
    <3>2. jt[1] = s[2]
      <4>1. 1 \in 1..Len(t) /\ 1 + 1 = 2
            BY <2>0
      <4>. QED BY <1>a, <2>1, <4>1
    <3>3. it[2] = s[1] \o jt[1]
          BY <1>2, <3>1, <3>2
    <3>4. 0 + 2 = 2 /\ 0 + 1 = 1
          OBVIOUS
    <3>5. it[0 + 2] = s[1] \o jt[0 + 1]
          BY <3>3, <3>4
    <3>. QED BY <3>5
  <2>3. ASSUME NEW n \in Nat, n \in Good PROVE n + 1 \in Good
    <3>0. (n + 1) + 1 = n + 2 /\ (n + 1) + 2 = n + 3
          OBVIOUS
    <3> HIDE DEF Same
    <3> SUFFICES ASSUME (n + 1) + 1 \in 1..Len(t) PROVE Same(n + 1)
        OBVIOUS
    <3>a. n + 2 \in 1..Len(t)
          BY <3>0
    <3>1. it[n + 3] = it[n + 2] \o s[n + 3]
      <4>1. n + 3 \in 2..Len(s) /\ (n + 3) - 1 = n + 2
            BY <1>1, <3>a
      <4>. QED BY <1>2, <4>1
    <3>2. it[n + 2] = s[1] \o jt[n + 1]
      <4>1. n + 1 \in 1..Len(t)
            BY <1>1, <3>a
      <4>. QED BY <2>3, <4>1 DEF Same
    <3>3. jt[n + 2] = jt[n + 1] \o s[n + 3]
      <4>1. n + 2 \in 2..Len(t) /\ (n + 2) - 1 = n + 1 /\ t[n + 2] = s[(n + 2) + 1] /\ (n + 2) + 1 = n + 3
            BY <1>1, <1>a, <3>a
      <4>. QED BY <2>1, <4>1
    <3>4. s[1] \in Seq(W) /\ jt[n + 1] \in Seq(W) /\ s[n + 3] \in Seq(W)
      <4>1. n + 3 \in 1..Len(s) /\ n + 1 \in 1..Len(t)
            BY <1>1, <3>a
      <4>2. 1 \in 1..Len(s)
            BY <1>1
      <4>. QED BY <1>b, <2>1, <4>1, <4>2
    <3>5. (s[1] \o jt[n + 1]) \o s[n + 3] = s[1] \o (jt[n + 1] \o s[n + 3])
          BY <1>c, <3>4 DEF Associative
    <3>6. it[n + 3] = s[1] \o jt[n + 2]
          BY <3>1, <3>2, <3>3, <3>5
    <3>. QED BY <3>0, <3>6 DEF Same
  <2> HIDE DEF Good
  <2>4. Nat \subseteq Good
        BY <2>2, <2>3, CountingUp
  <2>5. it[Len(s)] = s[1] \o jt[Len(t)]
    <3>1. Len(t) - 1 \in Nat /\ (Len(t) - 1) + 1 \in 1..Len(t) /\ (Len(t) - 1) + 2 = Len(s)
          /\ (Len(t) - 1) + 1 = Len(t)
          BY <1>1, <2>0
    <3>2. Len(t) - 1 \in Good
          BY <2>4, <3>1
    <3>. QED BY <3>1, <3>2 DEF Good
  <2>6. Len(t) \in 1..Len(t)
        BY <2>0
  <2>. QED BY <1>0, <1>2, <2>1, <2>5, <2>6 DEF t
<1>. QED BY <1>3, <1>4

-----------------------------------------------------------------------------
Word == [kind : {"group", "end", "number", "case"}, value : Int]
DeclaredGroup == [points : Int, cases : Seq(Nat)]

(* The words of a group *)
LEMMA WordsAre ==
  ASSUME NEW g \in DeclaredGroup
  PROVE  /\ WordsOf(g) \in Seq(Word)
         /\ Len(WordsOf(g)) = Len(g.cases) + 3
         /\ WordsOf(g)[1] = Group
         /\ WordsOf(g)[2] = Number(g.points)
         /\ \A c \in 1..Len(g.cases) : WordsOf(g)[c + 2] = Case(g.cases[c])
         /\ WordsOf(g)[Len(g.cases) + 3] = End
<1> DEFINE cases == [i \in DOMAIN g.cases |-> Case(g.cases[i])]
           n == Len(g.cases)
<1>1. g.points \in Int /\ g.cases \in Seq(Nat)
      BY DEF DeclaredGroup
<1>2. /\ Group \in Word /\ End \in Word /\ Number(g.points) \in Word
      /\ \A s \in Nat : Case(s) \in Word
      BY <1>1 DEF Word, Group, End, Number, Case
<1>3. n \in Nat /\ DOMAIN g.cases = 1..n /\ \A c \in 1..n : g.cases[c] \in Nat
      BY <1>1
<1>4. cases \in Seq(Word) /\ Len(cases) = n /\ \A c \in 1..n : cases[c] = Case(g.cases[c])
  <2>1. cases = [c \in 1..n |-> Case(g.cases[c])]
        BY <1>3
  <2>2. cases \in [1..n -> Word]
        BY <1>2, <1>3, <2>1
  <2>. QED BY <1>3, <2>1, <2>2
<1>5. WordsOf(g) = <<Group, Number(g.points)>> \o cases \o <<End>>
      BY DEF WordsOf
<1> HIDE DEF cases, n
<1> DEFINE start == <<Group, Number(g.points)>>
<1>6. /\ start \in Seq(Word) /\ Len(start) = 2
      /\ start[1] = Group /\ start[2] = Number(g.points)
      BY <1>2
<1>7. <<End>> \in Seq(Word) /\ Len(<<End>>) = 1 /\ <<End>>[1] = End
      BY <1>2
<1> HIDE DEF start
<1>8. /\ start \o cases \in Seq(Word) /\ Len(start \o cases) = n + 2
      /\ (start \o cases)[1] = Group /\ (start \o cases)[2] = Number(g.points)
      /\ \A c \in 1..n : (start \o cases)[c + 2] = Case(g.cases[c])
  <2>1. /\ start \o cases \in Seq(Word) /\ Len(start \o cases) = 2 + n
        /\ \A i \in 1..(2 + n) : (start \o cases)[i] = IF i <= 2 THEN start[i] ELSE cases[i - 2]
    <3>1. /\ start \o cases \in Seq(Word) /\ Len(start \o cases) = Len(start) + Len(cases)
          /\ \A i \in 1..(Len(start) + Len(cases)) :
               (start \o cases)[i] = IF i <= Len(start) THEN start[i] ELSE cases[i - Len(start)]
          BY <1>4, <1>6, ConcatProperties
    <3>. QED BY <1>4, <1>6, <3>1
  <2>2. 1 \in 1..(2 + n) /\ 2 \in 1..(2 + n)
        BY <1>3
  <2>3. ASSUME NEW c \in 1..n PROVE (start \o cases)[c + 2] = Case(g.cases[c])
    <3>1. c + 2 \in 1..(2 + n) /\ ~ (c + 2 <= 2) /\ (c + 2) - 2 = c
          BY <1>3
    <3>2. (start \o cases)[c + 2] = cases[(c + 2) - 2]
          BY <2>1, <3>1
    <3>. QED BY <1>4, <3>1, <3>2
  <2>4. (start \o cases)[1] = start[1] /\ (start \o cases)[2] = start[2]
        BY <2>1, <2>2
  <2>5. Len(start \o cases) = n + 2
        BY <1>3, <2>1
  <2>. QED BY <1>6, <2>1, <2>3, <2>4, <2>5
<1> DEFINE body == start \o cases
<1> HIDE DEF body
<1>9. /\ body \o <<End>> \in Seq(Word) /\ Len(body \o <<End>>) = n + 3
      /\ \A i \in 1..(n + 2) : (body \o <<End>>)[i] = body[i]
      /\ (body \o <<End>>)[n + 3] = End
      BY <1>3, <1>7, <1>8 DEF body
<1>10. WordsOf(g) = body \o <<End>>
       BY <1>5 DEF body, start
<1>11. 1 \in 1..(n + 2) /\ 2 \in 1..(n + 2) /\ \A c \in 1..n : c + 2 \in 1..(n + 2)
       BY <1>3
<1>. QED BY <1>8, <1>9, <1>10, <1>11 DEF body, n

(* What is left of task.nfo after k groups *)
Rest(d, k) == Written(SubSeq(d, k + 1, Len(d)))

(* task.nfo begins with the words of its first group. *)
LEMMA WrittenHead ==
  ASSUME NEW d \in Seq(DeclaredGroup), d # <<>>
  PROVE  /\ Written(Tail(d)) \in Seq(Word)
         /\ Written(d) = WordsOf(Head(d)) \o Written(Tail(d))
<1> DEFINE words == [i \in DOMAIN d |-> WordsOf(d[i])]
<1>1. Len(d) \in Nat \ {0} /\ DOMAIN d = 1..Len(d) /\ \A i \in 1..Len(d) : d[i] \in DeclaredGroup
      OBVIOUS
<1>2. \A i \in 1..Len(d) : WordsOf(d[i]) \in Seq(Word)
      BY <1>1, WordsAre
<1>3. words \in Seq(Seq(Word)) /\ Len(words) = Len(d) /\ words # <<>>
  <2>1. words \in [1..Len(d) -> Seq(Word)]
        BY <1>1, <1>2
  <2>. QED BY <1>1, <2>1
<1>4. Head(words) = WordsOf(Head(d))
      BY <1>1, <1>3
<1>5. Tail(words) = [i \in DOMAIN Tail(d) |-> WordsOf(Tail(d)[i])]
  <2>1. /\ Tail(d) \in Seq(DeclaredGroup) /\ Len(Tail(d)) = Len(d) - 1
        /\ DOMAIN Tail(d) = 1..(Len(d) - 1)
        /\ \A i \in 1..(Len(d) - 1) : Tail(d)[i] = d[i + 1]
        BY <1>1
  <2>2. /\ Tail(words) \in Seq(Seq(Word)) /\ Len(Tail(words)) = Len(d) - 1
        /\ \A i \in 1..(Len(d) - 1) : Tail(words)[i] = words[i + 1]
        BY <1>1, <1>3
  <2>3. \A i \in 1..(Len(d) - 1) : words[i + 1] = WordsOf(d[i + 1])
        BY <1>1
  <2> HIDE DEF words
  <2>4. \A i \in 1..(Len(d) - 1) : Tail(words)[i] = WordsOf(Tail(d)[i])
        BY <2>1, <2>2, <2>3
  <2>5. Tail(words) \in [1..(Len(d) - 1) -> Seq(Word)]
        BY <2>2, LenProperties
  <2>. QED BY <2>1, <2>4, <2>5
<1> HIDE DEF words
<1>6. /\ FlattenSeq(Tail(words)) \in Seq(Word)
      /\ FlattenSeq(words) = Head(words) \o FlattenSeq(Tail(words))
      BY <1>3, FlattenHead
<1>7. Written(d) = FlattenSeq(words) /\ Written(Tail(d)) = FlattenSeq(Tail(words))
      BY <1>5 DEF Written, words
<1>. QED BY <1>4, <1>6, <1>7

(* Without groups the file is empty. *)
LEMMA WrittenNone == Written(<<>>) = <<>>
<1>1. [i \in DOMAIN <<>> |-> WordsOf(<<>>[i])] = <<>>
      OBVIOUS
<1>. QED BY <1>1 DEF Written, FlattenSeq

(* After k groups comes the next one, or the end of the file. *)
LEMMA Rests ==
  ASSUME NEW d \in Seq(DeclaredGroup)
  PROVE  /\ Rest(d, 0) = Written(d)
         /\ Rest(d, Len(d)) = <<>>
         /\ \A k \in 0..Len(d) : Rest(d, k) \in Seq(Word)
         /\ \A k \in 0..(Len(d) - 1) : Rest(d, k) = WordsOf(d[k + 1]) \o Rest(d, k + 1)
<1>0. Len(d) \in Nat
      OBVIOUS
<1>1. Rest(d, 0) = Written(d)
  <2>1. SubSeq(d, 0 + 1, Len(d)) = d
        BY <1>0, SubSeqFull
  <2>. QED BY <2>1 DEF Rest
<1>2. Rest(d, Len(d)) = <<>>
  <2>1. SubSeq(d, Len(d) + 1, Len(d)) = <<>>
        BY <1>0, SubSeqEmpty
  <2>. QED BY <2>1, WrittenNone DEF Rest
<1>3. ASSUME NEW k \in 0..(Len(d) - 1)
      PROVE  /\ Rest(d, k + 1) \in Seq(Word)
             /\ Rest(d, k) = WordsOf(d[k + 1]) \o Rest(d, k + 1)
  <2> DEFINE left == SubSeq(d, k + 1, Len(d))
  <2>1. k + 1 \in 1..Len(d) /\ Len(d) \in (k + 1)..Len(d)
        BY <1>0
  <2>2. Head(left) = d[k + 1] /\ Tail(left) = SubSeq(d, (k + 1) + 1, Len(d))
        BY <2>1, HeadTailOfSubSeq
  <2>3. left \in Seq(DeclaredGroup) /\ left # <<>>
    <3>1. \A i \in (k + 1)..Len(d) : d[i] \in DeclaredGroup
          BY <1>0, <2>1
    <3>2. k + 1 \in Int /\ Len(d) \in Int /\ k + 1 <= Len(d)
          BY <1>0, <2>1
    <3>3. left \in Seq(DeclaredGroup) /\ Len(left) = Len(d) - (k + 1) + 1
          BY <3>1, <3>2, SubSeqProperties
    <3> HIDE DEF left
    <3>4. Len(left) # 0
          BY <1>0, <3>2, <3>3
    <3>. QED BY <3>3, <3>4
  <2> HIDE DEF left
  <2>4. /\ Written(Tail(left)) \in Seq(Word)
        /\ Written(left) = WordsOf(Head(left)) \o Written(Tail(left))
        BY <2>3, WrittenHead
  <2>5. Rest(d, k) = Written(left) /\ Rest(d, k + 1) = Written(Tail(left))
        BY <2>2 DEF Rest, left
  <2>. QED BY <2>2, <2>4, <2>5
<1>4. ASSUME NEW k \in 0..Len(d) PROVE Rest(d, k) \in Seq(Word)
  <2>1. CASE k = Len(d)
        BY <1>2, <2>1
  <2>2. CASE k # Len(d)
    <3>1. k \in 0..(Len(d) - 1)
          BY <1>0, <2>2
    <3>2. k + 1 \in 1..Len(d) /\ d[k + 1] \in DeclaredGroup
          BY <1>0, <3>1
    <3>3. WordsOf(d[k + 1]) \in Seq(Word)
          BY <3>2, WordsAre
    <3>4. Rest(d, k) = WordsOf(d[k + 1]) \o Rest(d, k + 1) /\ Rest(d, k + 1) \in Seq(Word)
          BY <1>3, <3>1
    <3>. QED BY <3>3, <3>4, ConcatProperties
  <2>. QED BY <2>1, <2>2
<1>. QED BY <1>1, <1>2, <1>3, <1>4

(* What is left of w after n words, with r behind it *)
From(w, n, r) == SubSeq(w, n + 1, Len(w)) \o r

(* Reading a word leaves the others. *)
LEMMA NextWord ==
  ASSUME NEW w \in Seq(Word), NEW r \in Seq(Word), NEW n \in 0..(Len(w) - 1)
  PROVE  /\ From(w, n, r) \in Seq(Word)
         /\ From(w, n, r) # <<>>
         /\ Len(From(w, n, r)) >= Len(w) - n
         /\ Head(From(w, n, r)) = w[n + 1]
         /\ Tail(From(w, n, r)) = From(w, n + 1, r)
<1> DEFINE u == SubSeq(w, n + 1, Len(w))
           v == SubSeq(w, (n + 1) + 1, Len(w))
<1>0. Len(w) \in Nat /\ Len(r) \in Nat /\ n + 1 \in 1..Len(w) /\ Len(w) \in (n + 1)..Len(w)
      OBVIOUS
<1>1. Head(u) = w[n + 1] /\ Tail(u) = v
      BY <1>0, HeadTailOfSubSeq
<1>2. u \in Seq(Word) /\ Len(u) = Len(w) - n /\ u # <<>>
  <2>1. \A i \in (n + 1)..Len(w) : w[i] \in Word
        BY <1>0
  <2>2. n + 1 \in Int /\ Len(w) \in Int /\ n + 1 <= Len(w)
        BY <1>0
  <2>3. u \in Seq(Word) /\ Len(u) = Len(w) - (n + 1) + 1
        BY <2>1, <2>2, SubSeqProperties
  <2> HIDE DEF u
  <2>4. Len(u) = Len(w) - n /\ Len(u) # 0
        BY <1>0, <2>2, <2>3
  <2>. QED BY <2>3, <2>4
<1> HIDE DEF u, v
<1>3. /\ u \o r \in Seq(Word) /\ u \o r # <<>> /\ Len(u \o r) >= Len(w) - n
      /\ Head(u \o r) = Head(u)
      BY <1>0, <1>2
<1>4. Tail(u \o r) = Tail(u) \o r
  <2>1. /\ Tail(u) \in Seq(Word) /\ Len(Tail(u)) = Len(u) - 1 /\ Len(u) \in Nat \ {0}
        /\ \A i \in 1..(Len(u) - 1) : Tail(u)[i] = u[i + 1]
        BY <1>2
  <2>2. /\ u \o r \in Seq(Word) /\ Len(u \o r) = Len(u) + Len(r)
        /\ \A i \in 1..(Len(u) + Len(r)) : (u \o r)[i] = IF i <= Len(u) THEN u[i] ELSE r[i - Len(u)]
        BY <1>2, ConcatProperties
  <2>3. /\ Tail(u \o r) \in Seq(Word) /\ Len(Tail(u \o r)) = Len(u) + Len(r) - 1
        /\ \A i \in 1..(Len(u) + Len(r) - 1) : Tail(u \o r)[i] = (u \o r)[i + 1]
        BY <1>0, <1>3, <2>1, <2>2
  <2>4. /\ Tail(u) \o r \in Seq(Word) /\ Len(Tail(u) \o r) = Len(u) + Len(r) - 1
        /\ \A i \in 1..(Len(u) + Len(r) - 1) :
             (Tail(u) \o r)[i] = IF i <= Len(u) - 1 THEN Tail(u)[i] ELSE r[i - (Len(u) - 1)]
        BY <1>0, <2>1, ConcatProperties
  <2>5. ASSUME NEW i \in 1..(Len(u) + Len(r) - 1) PROVE Tail(u \o r)[i] = (Tail(u) \o r)[i]
    <3>1. i + 1 \in 1..(Len(u) + Len(r)) /\ (i + 1) - Len(u) = i - (Len(u) - 1)
          BY <1>0, <2>1
    <3>2. CASE i <= Len(u) - 1
      <4>1. i \in 1..(Len(u) - 1) /\ i + 1 <= Len(u)
            BY <1>0, <2>1, <3>2
      <4>. QED BY <2>1, <2>2, <2>3, <2>4, <3>1, <3>2, <4>1
    <3>3. CASE ~ (i <= Len(u) - 1)
      <4>1. ~ (i + 1 <= Len(u))
            BY <1>0, <2>1, <3>3
      <4>. QED BY <2>2, <2>3, <2>4, <3>1, <3>3, <4>1
    <3>. QED BY <3>2, <3>3
  <2>. QED BY <2>3, <2>4, <2>5, SeqEqual
<1>5. From(w, n, r) = u \o r /\ From(w, n + 1, r) = v \o r
      BY DEF From, u, v
<1>. QED BY <1>1, <1>3, <1>4, <1>5

(* After all words of a group the rest of the file is left. *)
LEMMA AllWords ==
  ASSUME NEW w \in Seq(Word), NEW r \in Seq(Word)
  PROVE  From(w, 0, r) = w \o r /\ From(w, Len(w), r) = r
<1>0. Len(w) \in Nat
      OBVIOUS
<1>1. SubSeq(w, 0 + 1, Len(w)) = w
      BY <1>0, SubSeqFull
<1>2. SubSeq(w, Len(w) + 1, Len(w)) = <<>>
      BY <1>0, SubSeqEmpty
<1>3. <<>> \o r = r
      BY ConcatEmptySeq
<1>. QED BY <1>1, <1>2, <1>3 DEF From

-----------------------------------------------------------------------------
(* What a group of task.nfo is when its first n cases have been read        *)
ReadUpTo(g, n) == [points |-> g.points, cases |-> {Case(g.cases[i]) : i \in 1..n}]

(* The groups that have been read are the first of those the author meant.  *)
ParsedOK ==
  /\ DOMAIN groups = 1..Len(groups) /\ Len(groups) \in 0..Len(package.groups)
  /\ \A k \in 1..Len(groups) :
       groups[k] = ReadUpTo(package.groups[k], Len(package.groups[k].cases))

(* The group that is being read, and what is left of task.nfo after its     *)
(* first n words.                                                           *)
Current == package.groups[Len(groups) + 1]
LeftAfter(n) == nfo = From(WordsOf(Current), n, Rest(package.groups, Len(groups) + 1))

(* Where a whole task.nfo is read: the parser neither loses its place nor   *)
(* hangs.                                                                   *)
ReadingOK ==
  /\ stage = "directory" => groups = <<>> /\ nfo = Rest(package.groups, 0)
  /\ stage = "header" => ParsedOK /\ nfo = Rest(package.groups, Len(groups))
  /\ stage = "points" => ParsedOK /\ Len(groups) < Len(package.groups) /\ LeftAfter(1)
  /\ stage = "cases" => /\ ParsedOK /\ Len(groups) < Len(package.groups)
                        /\ \E n \in 0..Len(Current.cases) :
                             LeftAfter(n + 2) /\ reading = ReadUpTo(Current, n)
  /\ stage = "store" => ParsedOK /\ Len(groups) = Len(package.groups)
  /\ stage # "hanging"

FilesOK ==
  \E is \in SetToSeqs(package.ins), os \in SetToSeqs(package.outs) :
    inputs = Sorted(is) /\ outputs = Padded(Sorted(os), Len(is))

Uploaded ==
  /\ package.ins \in SUBSET Suffix /\ package.outs \in SUBSET Suffix
  /\ package.groups \in Declarations

ImportInv ==
  /\ stage \in {"idle", "directory", "header", "points", "cases", "store", "hanging",
                "committed", "aborted"}
  /\ stage = "idle" => groups = <<>>
  /\ stage # "idle" => Uploaded
  /\ stage \notin {"idle", "directory", "aborted"} => FilesOK
  /\ stage # "idle" /\ package.whole => ReadingOK
  /\ ImportedAsDeclared

(* Nothing is imported yet. *)
LEMMA ImportInitInv == ImportInit => ImportInv
  BY DEF ImportInit, ImportInv, ImportedAsDeclared

(* A package is uploaded: nothing of its task.nfo has been read. *)
LEMMA UploadKeeps == ASSUME ImportInv, Upload PROVE ImportInv'
<1>1. /\ stage' = "directory" /\ groups = <<>> /\ UNCHANGED <<reading, inputs, outputs, groups, tests>>
      BY DEF Upload, ImportInv
<1>2. PICK ins \in SUBSET Suffix, outs \in SUBSET Suffix, declared \in Declarations :
        package' = [ins |-> ins, outs |-> outs, groups |-> declared,
                    whole |-> nfo' = Written(declared)]
      BY ZenonT(60) DEF Upload
<1>3. Uploaded' /\ package'.groups = declared
      BY <1>2 DEF Uploaded
<1>a. package'.whole => nfo' = Written(declared)
      BY <1>2
<1>4. Rest(declared, 0) = Written(declared)
  <2>1. declared \in Seq(DeclaredGroup)
        BY DeclarationsAssumption DEF DeclaredGroup
  <2>. QED BY <2>1, Rests
<1>5. package'.whole => ReadingOK'
      BY <1>1, <1>3, <1>a, <1>4 DEF ReadingOK
<1>. QED BY <1>1, <1>3, <1>5 DEF ImportInv, ImportedAsDeclared

(* Reading the directory touches no word of task.nfo. *)
LEMMA DirectoryKeeps == ASSUME ImportInv, ReadDirectory PROVE ImportInv'
<1>1. /\ stage = "directory" /\ stage' = "header"
      /\ UNCHANGED <<package, nfo, reading, groups, tests>>
      /\ FilesOK'
      BY DEF ReadDirectory, FilesOK
<1>2. Uploaded'
      BY <1>1 DEF ImportInv, Uploaded
<1>3. ASSUME package.whole PROVE ReadingOK'
  <2>1. groups = <<>> /\ nfo = Rest(package.groups, 0) /\ package.groups \in Seq(DeclaredGroup)
        BY <1>1, <1>3, DeclarationsAssumption DEF ImportInv, ReadingOK, Uploaded, DeclaredGroup
  <2>2. ParsedOK' /\ Len(groups) = 0
        BY <1>1, <2>1 DEF ParsedOK
  <2>. QED BY <1>1, <2>1, <2>2 DEF ReadingOK
<1>. QED BY <1>1, <1>2, <1>3 DEF ImportInv, ImportedAsDeclared

(* While a group is read: it is one of the author's, and its words are not  *)
(* all behind the parser.                                                   *)
LEMMA CurrentIs ==
  ASSUME Uploaded, ParsedOK, Len(groups) < Len(package.groups)
  PROVE  /\ Current \in DeclaredGroup /\ Len(Current.cases) \in Nat
         /\ WordsOf(Current) \in Seq(Word) /\ Len(WordsOf(Current)) = Len(Current.cases) + 3
         /\ Rest(package.groups, Len(groups) + 1) \in Seq(Word)
         /\ Rest(package.groups, Len(groups)) =
              From(WordsOf(Current), 0, Rest(package.groups, Len(groups) + 1))
<1> DEFINE d == package.groups
           k == Len(groups)
<1>1. d \in Seq(DeclaredGroup)
      BY DeclarationsAssumption DEF Uploaded, DeclaredGroup
<1>2. k \in 0..(Len(d) - 1) /\ k + 1 \in 1..Len(d) /\ k + 1 \in 0..Len(d) /\ Len(d) \in Nat
      BY <1>1 DEF ParsedOK
<1>3. Current \in DeclaredGroup
      BY <1>1, <1>2 DEF Current
<1> HIDE DEF d, k
<1>4. Current.cases \in Seq(Nat)
      BY <1>3 DEF DeclaredGroup
<1>5. Rest(d, k + 1) \in Seq(Word) /\ Rest(d, k) = WordsOf(Current) \o Rest(d, k + 1)
      BY <1>1, <1>2, Rests DEF Current, d, k
<1>6. WordsOf(Current) \in Seq(Word) /\ Len(WordsOf(Current)) = Len(Current.cases) + 3
      BY <1>3, WordsAre
<1>7. From(WordsOf(Current), 0, Rest(d, k + 1)) = WordsOf(Current) \o Rest(d, k + 1)
      BY <1>5, <1>6, AllWords
<1>. QED BY <1>3, <1>4, <1>5, <1>6, <1>7 DEF d, k

(* The word under the parser is the next one of the current group. *)
LEMMA WordIs ==
  ASSUME Uploaded, ParsedOK, Len(groups) < Len(package.groups),
         NEW n \in 0..(Len(Current.cases) + 2), LeftAfter(n)
  PROVE  /\ nfo # <<>> /\ Len(nfo) >= Len(Current.cases) + 3 - n
         /\ Head(nfo) = WordsOf(Current)[n + 1]
         /\ Tail(nfo) = From(WordsOf(Current), n + 1, Rest(package.groups, Len(groups) + 1))
<1> DEFINE r == Rest(package.groups, Len(groups) + 1)
<1>1. /\ Len(Current.cases) \in Nat /\ Len(WordsOf(Current)) = Len(Current.cases) + 3
      /\ WordsOf(Current) \in Seq(Word) /\ r \in Seq(Word)
      BY CurrentIs
<1>2. n \in 0..(Len(WordsOf(Current)) - 1)
      BY <1>1
<1>3. nfo = From(WordsOf(Current), n, r)
      BY DEF LeftAfter
<1> HIDE DEF r
<1>4. /\ From(WordsOf(Current), n, r) # <<>>
      /\ Len(From(WordsOf(Current), n, r)) >= Len(WordsOf(Current)) - n
      /\ Head(From(WordsOf(Current), n, r)) = WordsOf(Current)[n + 1]
      /\ Tail(From(WordsOf(Current), n, r)) = From(WordsOf(Current), n + 1, r)
      BY <1>1, <1>2, NextWord
<1>. QED BY <1>1, <1>3, <1>4 DEF r

(* The parser is at the end of the file exactly after the last group.       *)
LEMMA HeaderKeeps == ASSUME ImportInv, ReadHeader \/ ReadNoHeader PROVE ImportInv'
<1>1. /\ stage = "header" /\ stage' \in {"points", "store"}
      /\ UNCHANGED <<package, reading, inputs, outputs, groups, tests>>
      BY DEF ReadHeader, ReadNoHeader
<1>2. Uploaded' /\ FilesOK' /\ Uploaded
      BY <1>1 DEF ImportInv, Uploaded, FilesOK
<1>3. ASSUME package.whole PROVE ReadingOK'
  <2>1. ParsedOK /\ nfo = Rest(package.groups, Len(groups)) /\ ParsedOK'
        BY <1>1, <1>3 DEF ImportInv, ReadingOK, ParsedOK
  <2>2. package.groups \in Seq(DeclaredGroup) /\ Len(package.groups) \in Nat
        BY <1>2, DeclarationsAssumption DEF Uploaded, DeclaredGroup
  <2>3. CASE Len(groups) = Len(package.groups)
    <3>1. nfo = <<>>
          BY <2>1, <2>2, <2>3, Rests
    <3>2. stage' = "store"
          BY <3>1 DEF ReadHeader, ReadNoHeader, NextIs
    <3>. QED BY <1>1, <2>1, <2>3, <3>2 DEF ReadingOK
  <2>4. CASE Len(groups) < Len(package.groups)
    <3>1. LeftAfter(0) /\ Len(Current.cases) \in Nat /\ 0 \in 0..(Len(Current.cases) + 2)
          BY <1>2, <2>1, <2>4, CurrentIs DEF LeftAfter
    <3>2. /\ nfo # <<>> /\ Len(nfo) >= Len(Current.cases) + 3 - 0 /\ Head(nfo) = WordsOf(Current)[0 + 1]
          /\ Tail(nfo) = From(WordsOf(Current), 0 + 1, Rest(package.groups, Len(groups) + 1))
          BY <1>2, <2>1, <2>4, <3>1, WordIs
    <3>3. WordsOf(Current)[1] = Group
          BY <1>2, <2>1, <2>4, CurrentIs, WordsAre
    <3>4. NextIs("group") /\ Len(nfo) # 1
      <4>1. Head(nfo) = Group /\ nfo # <<>>
            BY <3>2, <3>3
      <4>2. NextIs("group")
            BY <4>1 DEF NextIs, Group
      <4>3. Len(nfo) # 1
        <5>1. Len(nfo) >= Len(Current.cases) + 3
              BY <3>1, <3>2
        <5>2. ~ (1 >= Len(Current.cases) + 3)
              BY <3>1
        <5>. QED BY <5>1, <5>2
      <4>. QED BY <4>2, <4>3
    <3>5. stage' = "points" /\ nfo' = Tail(nfo)
          BY <3>4 DEF ReadHeader, ReadNoHeader
    <3>6. LeftAfter(1)'
          BY <1>1, <3>2, <3>5 DEF LeftAfter, Current
    <3>. QED BY <1>1, <2>1, <2>4, <3>5, <3>6 DEF ReadingOK
  <2>. QED BY <2>1, <2>2, <2>3, <2>4 DEF ParsedOK
<1>. QED BY <1>1, <1>2, <1>3 DEF ImportInv, ImportedAsDeclared

(* The points of the current group are those its author declared. *)
LEMMA PointsKeep == ASSUME ImportInv, ReadPoints PROVE ImportInv'
<1>1. /\ stage = "points" /\ stage' = "cases" /\ nfo' = Tail(nfo)
      /\ reading' = [points |-> Head(nfo).value, cases |-> {}]
      /\ UNCHANGED <<package, inputs, outputs, groups, tests>>
      BY DEF ReadPoints
<1>2. Uploaded' /\ FilesOK' /\ Uploaded
      BY <1>1 DEF ImportInv, Uploaded, FilesOK
<1>3. ASSUME package.whole PROVE ReadingOK'
  <2>1. ParsedOK /\ Len(groups) < Len(package.groups) /\ LeftAfter(1) /\ ParsedOK'
        BY <1>1, <1>3 DEF ImportInv, ReadingOK, ParsedOK
  <2>2. Current \in DeclaredGroup /\ Len(Current.cases) \in Nat /\ 1 \in 0..(Len(Current.cases) + 2)
        BY <1>2, <2>1, CurrentIs
  <2>3. /\ Head(nfo) = WordsOf(Current)[1 + 1]
        /\ Tail(nfo) = From(WordsOf(Current), 1 + 1, Rest(package.groups, Len(groups) + 1))
        BY <1>2, <2>1, <2>2, WordIs
  <2>4. Head(nfo).value = Current.points
    <3>1. WordsOf(Current)[2] = Number(Current.points)
          BY <2>2, WordsAre
    <3>2. Head(nfo) = Number(Current.points)
          BY <2>3, <3>1
    <3>. QED BY <3>2 DEF Number
  <2>5. Current' = Current
        BY <1>1 DEF Current
  <2>6. LeftAfter(0 + 2)'
    <3>1. 0 + 2 = 1 + 1
          OBVIOUS
    <3>2. nfo' = From(WordsOf(Current), 0 + 2, Rest(package.groups, Len(groups) + 1))
          BY <1>1, <2>3, <3>1
    <3>. QED BY <1>1, <2>5, <3>2 DEF LeftAfter
  <2>7. reading' = ReadUpTo(Current, 0)
    <3>1. 1..0 = {} /\ {Case(Current.cases[i]) : i \in {}} = {}
          OBVIOUS
    <3>2. ReadUpTo(Current, 0) = [points |-> Current.points, cases |-> {}]
          BY <3>1 DEF ReadUpTo
    <3>. QED BY <1>1, <2>4, <3>2
  <2>8. 0 \in 0..Len(Current.cases)
        BY <2>2
  <2>. QED BY <1>1, <2>1, <2>5, <2>6, <2>7, <2>8 DEF ReadingOK
<1>. QED BY <1>1, <1>2, <1>3 DEF ImportInv, ImportedAsDeclared

(* The parser has one more case of the current group. *)
LEMMA CaseKeeps == ASSUME ImportInv, ReadCase PROVE ImportInv'
<1>1. /\ stage = "cases" /\ stage' = "cases" /\ nfo' = Tail(nfo) /\ ~NextIs("end") /\ nfo # <<>>
      /\ reading' = [reading EXCEPT !.cases = @ \cup {Head(nfo)}]
      /\ UNCHANGED <<package, inputs, outputs, groups, tests>>
      BY DEF ReadCase
<1>2. Uploaded' /\ FilesOK' /\ Uploaded
      BY <1>1 DEF ImportInv, Uploaded, FilesOK
<1>3. ASSUME package.whole PROVE ReadingOK'
  <2>1. ParsedOK /\ Len(groups) < Len(package.groups) /\ ParsedOK'
        BY <1>1, <1>3 DEF ImportInv, ReadingOK, ParsedOK
  <2>2. PICK n \in 0..Len(Current.cases) : LeftAfter(n + 2) /\ reading = ReadUpTo(Current, n)
        BY <1>1, <1>3 DEF ImportInv, ReadingOK
  <2>3. Current \in DeclaredGroup /\ Len(Current.cases) \in Nat /\ n + 2 \in 0..(Len(Current.cases) + 2)
        BY <1>2, <2>1, CurrentIs
  <2>4. /\ Head(nfo) = WordsOf(Current)[(n + 2) + 1]
        /\ Tail(nfo) = From(WordsOf(Current), (n + 2) + 1, Rest(package.groups, Len(groups) + 1))
        BY <1>2, <2>1, <2>2, <2>3, WordIs
  <2>5. n # Len(Current.cases)
    <3>1. WordsOf(Current)[Len(Current.cases) + 3] = End
          BY <2>3, WordsAre
    <3>2. n = Len(Current.cases) => (n + 2) + 1 = Len(Current.cases) + 3
          BY <2>3
    <3>. QED BY <1>1, <2>4, <3>1, <3>2 DEF NextIs, End
  <2>6. n + 1 \in 1..Len(Current.cases) /\ n + 1 \in 0..Len(Current.cases) /\ (n + 2) + 1 = (n + 1) + 2
        BY <2>3, <2>5
  <2>7. Head(nfo) = Case(Current.cases[n + 1])
        BY <2>3, <2>4, <2>6, WordsAre
  <2>8. reading' = ReadUpTo(Current, n + 1)
    <3>1. 1..(n + 1) = 1..n \cup {n + 1}
          BY <2>3
    <3>2. {Case(Current.cases[i]) : i \in 1..(n + 1)} =
            {Case(Current.cases[i]) : i \in 1..n} \cup {Case(Current.cases[n + 1])}
          BY <3>1
    <3>. QED BY <1>1, <2>2, <2>7, <3>2 DEF ReadUpTo
  <2>9. Current' = Current
        BY <1>1 DEF Current
  <2>10. LeftAfter((n + 1) + 2)'
        BY <1>1, <2>4, <2>6, <2>9 DEF LeftAfter
  <2>. QED BY <1>1, <2>1, <2>6, <2>8, <2>9, <2>10 DEF ReadingOK
<1>. QED BY <1>1, <1>2, <1>3 DEF ImportInv, ImportedAsDeclared

(* A group that ends has all its cases, and the next one follows. *)
LEMMA EndOfGroupKeeps == ASSUME ImportInv, ReadEnd PROVE ImportInv'
<1>1. /\ stage = "cases" /\ stage' = "header" /\ nfo' = Tail(nfo) /\ NextIs("end")
      /\ groups' = Append(groups, reading)
      /\ UNCHANGED <<package, reading, inputs, outputs, tests>>
      BY DEF ReadEnd
<1>2. Uploaded' /\ FilesOK' /\ Uploaded
      BY <1>1 DEF ImportInv, Uploaded, FilesOK
<1>3. ASSUME package.whole PROVE ReadingOK'
  <2>1. ParsedOK /\ Len(groups) < Len(package.groups)
        BY <1>1, <1>3 DEF ImportInv, ReadingOK
  <2>2. PICK n \in 0..Len(Current.cases) : LeftAfter(n + 2) /\ reading = ReadUpTo(Current, n)
        BY <1>1, <1>3 DEF ImportInv, ReadingOK
  <2>3. Current \in DeclaredGroup /\ Len(Current.cases) \in Nat /\ n + 2 \in 0..(Len(Current.cases) + 2)
        BY <1>2, <2>1, CurrentIs
  <2>4. /\ Head(nfo) = WordsOf(Current)[(n + 2) + 1]
        /\ Tail(nfo) = From(WordsOf(Current), (n + 2) + 1, Rest(package.groups, Len(groups) + 1))
        BY <1>2, <2>1, <2>2, <2>3, WordIs
  <2>5. n = Len(Current.cases)
    <3>1. n # Len(Current.cases) => n + 1 \in 1..Len(Current.cases) /\ (n + 2) + 1 = (n + 1) + 2
          BY <2>3
    <3>2. n # Len(Current.cases) => Head(nfo) = Case(Current.cases[n + 1])
          BY <2>3, <2>4, <3>1, WordsAre
    <3>. QED BY <1>1, <3>2 DEF NextIs, Case
  <2> DEFINE k == Len(groups)
             d == package.groups
  <2>6. k \in Nat /\ k + 1 \in 0..Len(d) /\ Len(d) \in Nat /\ DOMAIN groups = 1..k
    <3>1. d \in Seq(DeclaredGroup)
          BY <1>2, DeclarationsAssumption DEF Uploaded, DeclaredGroup
    <3>. QED BY <2>1, <3>1 DEF ParsedOK
  <2>7. nfo' = Rest(d, k + 1)
    <3>1. (n + 2) + 1 = Len(WordsOf(Current))
          BY <1>2, <2>1, <2>3, <2>5, CurrentIs
    <3>2. WordsOf(Current) \in Seq(Word) /\ Rest(d, k + 1) \in Seq(Word)
          BY <1>2, <2>1, CurrentIs
    <3>3. From(WordsOf(Current), Len(WordsOf(Current)), Rest(d, k + 1)) = Rest(d, k + 1)
          BY <3>2, AllWords
    <3>. QED BY <1>1, <2>4, <3>1, <3>3
  <2>8. /\ Len(groups') = k + 1 /\ DOMAIN groups' = 1..(k + 1)
        /\ groups'[k + 1] = reading /\ \A j \in 1..k : groups'[j] = groups[j]
        BY <1>1, <2>6
  <2>9. reading = ReadUpTo(d[k + 1], Len(d[k + 1].cases))
        BY <2>2, <2>5 DEF Current
  <2>10. ParsedOK'
    <3>1. \A j \in 1..k : groups[j] = ReadUpTo(d[j], Len(d[j].cases))
          BY <2>1 DEF ParsedOK
    <3>. QED BY <1>1, <2>6, <2>8, <2>9, <3>1 DEF ParsedOK
  <2>. QED BY <1>1, <2>7, <2>8, <2>10 DEF ReadingOK
<1>. QED BY <1>1, <1>2, <1>3 DEF ImportInv, ImportedAsDeclared

(* Where a number is expected in a whole task.nfo, there is one; where the  *)
(* end of a group is expected, the file has not ended.                      *)
LEMMA HangKeeps == ASSUME ImportInv, Hang PROVE ImportInv'
<1>1. /\ stage \in {"points", "cases"} /\ stage' = "hanging"
      /\ UNCHANGED <<package, nfo, reading, inputs, outputs, groups, tests>>
      BY DEF Hang
<1>2. Uploaded' /\ FilesOK' /\ Uploaded
      BY <1>1 DEF ImportInv, Uploaded, FilesOK
<1>3. ASSUME package.whole PROVE FALSE
  <2>1. ParsedOK /\ Len(groups) < Len(package.groups)
        BY <1>1, <1>3 DEF ImportInv, ReadingOK
  <2>2. CASE stage = "points"
    <3>1. LeftAfter(1) /\ Current \in DeclaredGroup /\ 1 \in 0..(Len(Current.cases) + 2)
          BY <1>2, <1>3, <2>1, <2>2, CurrentIs DEF ImportInv, ReadingOK
    <3>2. nfo # <<>> /\ Head(nfo) = WordsOf(Current)[1 + 1]
          BY <1>2, <2>1, <3>1, WordIs
    <3>3. NextIs("number")
      <4>1. WordsOf(Current)[2] = Number(Current.points)
            BY <3>1, WordsAre
      <4>2. Head(nfo) = Number(Current.points)
            BY <3>2, <4>1
      <4>. QED BY <3>2, <4>2 DEF NextIs, Number
    <3>. QED BY <2>2, <3>3 DEF Hang
  <2>3. CASE stage = "cases"
    <3>1. PICK n \in 0..Len(Current.cases) : LeftAfter(n + 2)
          BY <1>3, <2>3 DEF ImportInv, ReadingOK
    <3>2. n + 2 \in 0..(Len(Current.cases) + 2)
          BY <1>2, <2>1, CurrentIs
    <3>3. nfo # <<>>
          BY <1>2, <2>1, <3>1, <3>2, WordIs
    <3>. QED BY <2>3, <3>3 DEF Hang
  <2>. QED BY <1>1, <2>2, <2>3
<1>. QED BY <1>1, <1>2, <1>3 DEF ImportInv, ImportedAsDeclared

(* A package that is refused stores nothing. *)
LEMMA RejectKeeps == ASSUME ImportInv, Reject PROVE ImportInv'
<1>1. /\ stage = "store" /\ stage' = "aborted"
      /\ UNCHANGED <<package, nfo, reading, inputs, outputs, groups, tests>>
      BY DEF Reject
<1>2. Uploaded' /\ FilesOK'
      BY <1>1 DEF ImportInv, Uploaded, FilesOK
<1>. QED BY <1>1, <1>2 DEF ImportInv, ImportedAsDeclared, ReadingOK

(* Neither does one that cannot be read. *)
LEMMA ReadFailsKeeps == ASSUME ImportInv, ReadFails PROVE ImportInv'
<1>1. /\ stage = "directory" /\ stage' = "aborted"
      /\ UNCHANGED <<package, nfo, reading, inputs, outputs, groups, tests>>
      BY DEF ReadFails
<1>2. Uploaded'
      BY <1>1 DEF ImportInv, Uploaded
<1>. QED BY <1>1, <1>2 DEF ImportInv, ImportedAsDeclared, ReadingOK

-----------------------------------------------------------------------------
(* Store: every input is a test case. *)
LEMMA AllInputs ==
  ASSUME ImportInv, Store
  PROVE  /\ {tests'[i].input : i \in DOMAIN tests'} = package.ins
         /\ Len(tests') = Cardinality(package.ins)
         /\ DOMAIN tests' = 1..Cardinality(package.ins)
<1> DEFINE n == Cardinality(package.ins)
<1>1. PICK is \in SetToSeqs(package.ins), os \in SetToSeqs(package.outs) :
        inputs = Sorted(is) /\ outputs = Padded(Sorted(os), Len(is))
      BY DEF Store, ImportInv, FilesOK
<1>2. package.ins \in SUBSET Nat /\ IsFiniteSet(package.ins) /\ n \in Nat
  <2>1. package.ins \in SUBSET Suffix
        BY DEF Store, ImportInv, Uploaded
  <2>. QED BY <2>1, SuffixAssumption, FS_Subset, FS_CardinalityType
<1>3. inputs \in [1..n -> package.ins] /\ \A x \in package.ins : \E i \in 1..n : inputs[i] = x
      BY <1>1, <1>2, SortedPlaces
<1> HIDE DEF n
<1>4. tests' = [i \in 1..n |->
                  [input |-> inputs[i], output |-> outputs[i],
                   group |-> IF groups = <<>> THEN 1 ELSE GroupOfCase(inputs[i])]]
      BY <1>3 DEF Store
<1>5. DOMAIN tests' = 1..n /\ \A i \in 1..n : tests'[i].input = inputs[i]
      BY <1>4
<1>6. {tests'[i].input : i \in DOMAIN tests'} = package.ins
      BY <1>3, <1>5
<1>7. Len(tests') = n
      BY <1>2, <1>4
<1>. QED BY <1>5, <1>6, <1>7 DEF n

(* Store: a test case has the output of its input. *)
LEMMA StoredPaired == ASSUME ImportInv, Store PROVE Paired'
<1> DEFINE n == Cardinality(package.ins)
<1>1. PICK is \in SetToSeqs(package.ins), os \in SetToSeqs(package.outs) :
        inputs = Sorted(is) /\ outputs = Padded(Sorted(os), Len(is))
      BY DEF Store, ImportInv, FilesOK
<1>2. /\ package.ins \in SUBSET Suffix /\ package.outs \in SUBSET Suffix /\ package' = package
      BY DEF Store, ImportInv, Uploaded
<1>3. Len(is) \in Nat /\ n \in Nat
  <2>1. IsFiniteSet(package.ins)
        BY <1>2, SuffixAssumption, FS_Subset
  <2>2. n \in Nat
        BY <2>1, FS_CardinalityType
  <2>3. is \in [1..n -> package.ins]
        BY DEF SetToSeqs
  <2>. QED BY <2>2, <2>3
<1>4. DOMAIN tests' = 1..n
      BY AllInputs
<1>5. \A i \in DOMAIN tests' : tests'[i].input = inputs[i] /\ tests'[i].output = outputs[i]
      BY DEF Store
<1>6. ASSUME NEW i \in DOMAIN tests',
             \A s \in 1..tests'[i].input : s \in package.ins <=> s \in package.outs
      PROVE  tests'[i].output = tests'[i].input
  <2>1. i \in 1..Cardinality(package.ins)
        BY <1>4
  <2>2. \A x \in 1..Sorted(is)[i] : x \in package.ins <=> x \in package.outs
        BY <1>1, <1>5, <1>6
  <2>3. Padded(Sorted(os), Len(is))[i] = Sorted(is)[i]
        BY <1>2, <1>3, <2>1, <2>2, PairedFiles
  <2>. QED BY <1>1, <1>5, <2>3
<1>. QED BY <1>2, <1>6 DEF Paired

(* Store: a test case is in the only group that its author put it in. *)
LEMMA StoredGrouped ==
  ASSUME ImportInv, Store, package.whole
  PROVE  Grouped'
<1> DEFINE d == package.groups
<1>1. /\ package' = package /\ stage = "store" /\ stage # "idle"
      /\ groups' = IF groups = <<>> THEN <<[points |-> 100, cases |-> {}]>> ELSE groups
      BY DEF Store
<1>2. ParsedOK /\ Len(groups) = Len(d) /\ d \in Seq(DeclaredGroup)
      BY <1>1, DeclarationsAssumption DEF ImportInv, ReadingOK, Uploaded, DeclaredGroup
<1>3. Len(d) \in Nat /\ DOMAIN d = 1..Len(d) /\ DOMAIN groups = 1..Len(d)
      BY <1>2 DEF ParsedOK
<1>4. CASE d = <<>>
  <2>1. groups = <<>>
        BY <1>2, <1>3, <1>4
  <2>2. Len(groups') = 1 /\ groups'[1].points = 100
        BY <1>1, <2>1
  <2>. QED BY <1>1, <1>4, <2>2 DEF Grouped
<1>5. CASE d # <<>>
  <2>1. groups # <<>> /\ groups' = groups
        BY <1>1, <1>2, <1>3, <1>5
  <2>2. \A i \in DOMAIN tests' : /\ tests'[i].input = inputs[i]
                                 /\ tests'[i].group = GroupOfCase(inputs[i])
        BY <2>1 DEF Store
  <2>a. \A g \in DOMAIN d : groups[g] = ReadUpTo(d[g], Len(d[g].cases))
        BY <1>2, <1>3 DEF ParsedOK
  <2>b. ASSUME NEW g, NEW n
        PROVE  /\ ReadUpTo(g, n).points = g.points
               /\ ReadUpTo(g, n).cases = {Case(g.cases[i]) : i \in 1..n}
        BY DEF ReadUpTo
  <2>3. \A g \in DOMAIN d : groups[g].points = d[g].points
        BY <2>a, <2>b
  <2> DEFINE Has(g, s) == \E i \in DOMAIN d[g].cases : d[g].cases[i] = s
  <2>4. ASSUME NEW s, NEW g \in DOMAIN d PROVE Case(s) \in groups[g].cases <=> Has(g, s)
    <3>1. groups[g].cases = {Case(d[g].cases[i]) : i \in 1..Len(d[g].cases)}
      <4>1. groups[g].cases = ReadUpTo(d[g], Len(d[g].cases)).cases
            BY <2>a
      <4> DEFINE h == d[g]
                 n == Len(d[g].cases)
      <4> HIDE DEF h, n
      <4>2. ReadUpTo(h, n).cases = {Case(h.cases[i]) : i \in 1..n}
            BY <2>b
      <4>. QED BY <4>1, <4>2 DEF h, n
    <3>2. DOMAIN d[g].cases = 1..Len(d[g].cases)
      <4>1. d[g] \in DeclaredGroup
            BY <1>2
      <4>2. d[g].cases \in Seq(Nat)
            BY <4>1 DEF DeclaredGroup
      <4>. QED BY <4>2
    <3>3. \A r : Case(s) = Case(r) <=> s = r
          BY DEF Case
    <3>. QED BY <3>1, <3>2, <3>3
  <2>5. ASSUME NEW s, NEW g \in DOMAIN d, \A h \in DOMAIN d : Has(h, s) <=> h = g
        PROVE  GroupOfCase(s) = g
    <3> DEFINE having == {h \in DOMAIN groups : Case(s) \in groups[h].cases}
    <3>1. having = {g}
          BY <1>3, <2>4, <2>5
    <3>2. g <= g
          BY <1>3
    <3>3. GroupOfCase(s) = CHOOSE h \in having : \A k \in having : k <= h
          BY <3>1 DEF GroupOfCase
    <3> HIDE DEF having
    <3>. QED BY <3>1, <3>2, <3>3
  <2>6. ASSUME NEW i \in DOMAIN tests', NEW g \in DOMAIN d,
               \A h \in DOMAIN d : Has(h, tests'[i].input) <=> h = g
        PROVE  tests'[i].group = g
    <3> DEFINE s == tests'[i].input
    <3>1. GroupOfCase(s) = g
      <4> HIDE DEF s
      <4>1. \A h \in DOMAIN d : Has(h, s) <=> h = g
            BY <2>6 DEF s
      <4> HIDE DEF Has
      <4>. QED BY <2>5, <4>1
    <3>2. tests'[i].group = GroupOfCase(tests'[i].input)
          BY <2>2
    <3>. QED BY <3>1, <3>2
  <2>7. \A i \in DOMAIN tests', g \in DOMAIN d :
          /\ groups'[g].points = d[g].points
          /\ (\A h \in DOMAIN d : Has(h, tests'[i].input) <=> h = g) => tests'[i].group = g
        BY <2>1, <2>3, <2>6
  <2>. QED BY <1>1, <1>5, <2>7 DEF Grouped
<1>. QED BY <1>4, <1>5

(* The stored task is the one its author meant. *)
LEMMA StoreKeeps == ASSUME ImportInv, Store PROVE ImportInv'
<1>1. /\ stage = "store" /\ stage' = "committed"
      /\ UNCHANGED <<package, nfo, reading, inputs, outputs>>
      BY DEF Store
<1>2. Uploaded' /\ FilesOK'
      BY <1>1 DEF ImportInv, Uploaded, FilesOK
<1>3. ImportedAsDeclared'
      BY <1>1, AllInputs, StoredPaired, StoredGrouped DEF ImportedAsDeclared
<1>4. package.whole => ReadingOK'
      BY <1>1 DEF ReadingOK
<1>. QED BY <1>1, <1>2, <1>3, <1>4 DEF ImportInv

(* Every step of an import preserves the invariant. *)
LEMMA ImportStepInv == ImportInv /\ [ImportNext]_importingVars => ImportInv'
<1> SUFFICES ASSUME ImportInv, [ImportNext]_importingVars PROVE ImportInv'
    OBVIOUS
<1>1. CASE ImportNext
      BY <1>1, UploadKeeps, DirectoryKeeps, HeaderKeeps, PointsKeep, CaseKeeps, EndOfGroupKeeps,
         HangKeeps, StoreKeeps, RejectKeeps, ReadFailsKeeps DEF ImportNext, ImportStep
<1>2. CASE UNCHANGED importingVars
  <2>1. UNCHANGED <<stage, package, nfo, reading, inputs, outputs, groups, tests>>
        BY <1>2 DEF importingVars
  <2>2. (ReadingOK <=> ReadingOK') /\ (FilesOK <=> FilesOK') /\ (Uploaded <=> Uploaded')
        BY <2>1 DEF ReadingOK, FilesOK, Uploaded, ParsedOK, LeftAfter, Current
  <2>3. ImportedAsDeclared <=> ImportedAsDeclared'
        BY <2>1 DEF ImportedAsDeclared, Paired, Grouped
  <2>. QED BY <2>1, <2>2, <2>3 DEF ImportInv
<1>. QED BY <1>1, <1>2

(* For any names of files and any declarations of groups: a package whose   *)
(* task.nfo is whole becomes the task that its author meant, in whatever    *)
(* order the directory lists the files.                                     *)
THEOREM ImportsAreFaithful == ImportSpec => []ImportedAsDeclared
<1>1. ImportInv => ImportedAsDeclared
      BY DEF ImportInv
<1>. QED BY ImportInitInv, ImportStepInv, <1>1, PTL DEF ImportSpec

(* The safety half of ImportEnds: the server does not hang on a whole       *)
(* task.nfo.                                                                *)
WholeIsRead == package.whole => stage # "hanging"

THEOREM WholePackagesAreRead == ImportSpec => []WholeIsRead
<1>1. ImportInv => WholeIsRead
      BY DEF ImportInv, WholeIsRead, ReadingOK
<1>. QED BY ImportInitInv, ImportStepInv, <1>1, PTL DEF ImportSpec
=============================================================================
