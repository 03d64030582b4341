------------------------------ MODULE Accounts ------------------------------
(***************************************************************************)
(* Users, logins and what administrators may edit (web/main.cpp,           *)
(* web/model.cpp): the forms of users and of evaluator languages. A        *)
(* session is a cookie of the browser, so a restart keeps it. An edit      *)
(* checks its author in one transaction, loads its target in another and   *)
(* stores it whole in a third: others may come in between.                 *)
(*                                                                         *)
(* A user's id is its place in users. CppCMS, ODB and SQLite are external: *)
(* encrypted cookies, transactions that do not overlap and unique names.   *)
(***************************************************************************)
EXTENDS Naturals, Sequences

CONSTANTS
  Browser,
  Knows,        \* Knows[b]: the passwords that are typed into browser b
  Outsider,     \* a browser whose passwords belong to no account at first
  UserName, Root,               \* names; that of the user db::init creates
  Password, RootPassword,
  LanguageName, Cpp,            \* likewise for languages
  Script,                       \* uploaded runner scripts
  Blank,        \* a field without text, or without a file
  Edit,         \* the POSTs of editUser and editLanguage
  MaxUsers      \* bound: no registration after so many users

ASSUME OutsiderAssumption == Outsider \in Browser /\ RootPassword \notin Knows[Outsider]
ASSUME KnowsAssumption == \A b \in Browser : Knows[b] \subseteq Password
ASSUME BlankAssumption == Blank \notin UserName \cup Password \cup LanguageName \cup Script
ASSUME RootAssumption == Root \in UserName /\ RootPassword \in Password /\ Cpp \in LanguageName

VARIABLES
  users,        \* the rows of User
  languages,    \* languages[n]: the evaluator language named n, {} or its compiler script
  session,      \* session[b]: the cookie of browser b
  edit          \* edit[e]: the handler of e

accountVars == <<users, languages, session, edit>>

User == [name : UserName, password : Password, admin : BOOLEAN, active : BOOLEAN]
UserId == 1..MaxUsers
Nobody == 0

AccountsInit ==
  /\ users = <<[name |-> Root, password |-> RootPassword, admin |-> TRUE, active |-> TRUE]>>
  /\ \E s \in Script : languages = [n \in LanguageName |-> IF n = Cpp THEN {s} ELSE {}]
  /\ session = [b \in Browser |-> [id |-> Nobody, prelogin |-> FALSE]]
  /\ edit = [e \in Edit |-> [at |-> "new"]]

-----------------------------------------------------------------------------
(* getOptionalUser: a session of somebody who is not active loses its user. *)
IsActive(id) == id # Nobody /\ users[id].active
OptionalUser(b) == IF IsActive(session[b].id) THEN session[b].id ELSE Nobody
Seen(b) == [session[b] EXCEPT !.id = OptionalUser(b)]

(* testLogin: names are unique. *)
TestLogin(name, password) ==
  {id \in DOMAIN users : users[id].name = name /\ users[id].active /\ users[id].password = password}

Visit(b) ==
  /\ session' = [session EXCEPT ![b] = Seen(b)]
  /\ UNCHANGED <<users, languages, edit>>

(* login: the form is shown, for the first time or again. *)
LoginForm(b) ==
  /\ session' = [session EXCEPT ![b] = [Seen(b) EXCEPT !.prelogin = TRUE]]
  /\ UNCHANGED <<users, languages, edit>>

Login(b) ==
  /\ session[b].prelogin
  /\ \E name \in UserName, password \in Knows[b] : \E id \in TestLogin(name, password) :
       session' = [session EXCEPT ![b] = [id |-> id, prelogin |-> FALSE]]
  /\ UNCHANGED <<users, languages, edit>>

Logout(b) ==
  /\ session' = [session EXCEPT ![b].id = Nobody]
  /\ UNCHANGED <<users, languages, edit>>

(* persist: the row is validated, and its name must be new. What the page   *)
(* answers otherwise changes nothing.                                       *)
NameInUse(name, others) == \E id \in others : users[id].name = name
Valid(row) == row.name # Blank /\ row.password # Blank

Register(b) ==
  /\ Len(users) < MaxUsers
  /\ session' = [session EXCEPT ![b] = Seen(b)]
  /\ \E name \in UserName \cup {Blank}, password \in Knows[b] \cup {Blank} :
       LET row == [name |-> name, password |-> password, admin |-> FALSE, active |-> TRUE]
       IN  Valid(row) /\ ~NameInUse(name, DOMAIN users) /\ users' = Append(users, row)
  /\ UNCHANGED <<languages, edit>>

-----------------------------------------------------------------------------
(* Mutant: every user will do. *)
RequiredAdmin_AnyUser(b) == OptionalUser(b) # Nobody

(* getRequiredAdminUser does not throw Redirect. *)
RequiredAdmin(b) == OptionalUser(b) # Nobody /\ users[OptionalUser(b)].admin

Begin(e, b) ==
  /\ edit[e].at = "new"
  /\ edit' = [edit EXCEPT ![e] =
                IF RequiredAdmin(b) THEN [at |-> "checked", by |-> b] ELSE [at |-> "refused"]]
  /\ session' = [session EXCEPT ![b] = Seen(b)]
  /\ UNCHANGED <<users, languages>>

(* getByStringOrFail, of a user or a language; or a new language.           *)
Load(e) ==
  /\ edit[e].at = "checked"
  /\ \/ \E id \in UserId :
          edit' = [edit EXCEPT ![e] =
                     IF id \in DOMAIN users
                     THEN [at |-> "user", by |-> edit[e].by, id |-> id, row |-> users[id]]
                     ELSE [at |-> "refused"]]
     \/ \E n \in LanguageName :
          edit' = [edit EXCEPT ![e] =
                     IF languages[n] # {}
                     THEN [at |-> "language", by |-> edit[e].by, old |-> languages[n]]
                     ELSE [at |-> "refused"]]
     \/ edit' = [edit EXCEPT ![e] = [at |-> "language", by |-> edit[e].by, old |-> {Blank}]]
  /\ UNCHANGED <<users, languages, session>>

(* A password that is left blank does not change the loaded one. *)
NewPassword(row, password) == IF password = Blank THEN row.password ELSE password

(* readForm: every other field overwrites the loaded one. *)
ReadForm(row, name, password, admin, active) ==
  [name |-> name, password |-> NewPassword(row, password), admin |-> admin, active |-> active]

Answer(e, stored) ==
  edit' = [edit EXCEPT ![e] = IF stored THEN [at |-> "stored", by |-> edit[e].by] ELSE [at |-> "refused"]]

StoreUser(e) ==
  /\ edit[e].at = "user"
  /\ \E name \in UserName \cup {Blank}, password \in Password \cup {Blank},
        admin, active \in BOOLEAN :
       LET row == ReadForm(edit[e].row, name, password, admin, active)
           stored == Valid(row) /\ ~NameInUse(name, DOMAIN users \ {edit[e].id})
       IN  /\ users' = IF stored THEN [users EXCEPT ![edit[e].id] = row] ELSE users
           /\ Answer(e, stored)
  /\ UNCHANGED <<languages, session>>

(* A script that is not uploaded is that of the loaded language, or none. *)
Compiler(script, old) == IF script = Blank THEN old ELSE {script}

(* editLanguage never sets langID: it stores a new row whichever language   *)
(* was loaded, so a name that is in use is refused, the loaded one's too.   *)
StoreLanguage(e) ==
  /\ edit[e].at = "language"
  /\ \E n \in LanguageName \cup {Blank}, script \in Script \cup {Blank} :
       LET stored == n # Blank /\ languages[n] = {}
       IN  /\ languages' = IF stored THEN [languages EXCEPT ![n] = Compiler(script, edit[e].old)]
                                     ELSE languages
           /\ Answer(e, stored)
  /\ UNCHANGED <<users, session>>

(* The web server restarts, or the handler throws. *)
Abandon(e) ==
  /\ edit[e].at \in {"checked", "user", "language"}
  /\ Answer(e, FALSE)
  /\ UNCHANGED <<users, languages, session>>

AccountsNext ==
  \/ \E b \in Browser : Visit(b) \/ LoginForm(b) \/ Login(b) \/ Logout(b) \/ Register(b)
  \/ \E e \in Edit, b \in Browser : Begin(e, b)
  \/ \E e \in Edit : Load(e) \/ StoreUser(e) \/ StoreLanguage(e) \/ Abandon(e)

AccountsSpec == AccountsInit /\ [][AccountsNext]_accountVars

-----------------------------------------------------------------------------
(* Properties *)

StoredBy(B) == \E e \in Edit : edit[e].at = "stored" /\ edit[e].by \in B

(* An edit of the outsider is stored only after one of somebody else.       *)
InsidersFirst == StoredBy({Outsider}) => StoredBy(Browser \ {Outsider})

NamesAreUnique == \A i, j \in DOMAIN users : users[i].name = users[j].name => i = j

(* Whatever is registered, whoever logs in, out and in again and however    *)
(* edits overlap: nothing of a browser that knows no administrator's        *)
(* password is stored unless an edit of another browser has been before (it *)
(* may have promoted its account, or given a password that it knows); names *)
(* stay unique, though edits check them and store rows that they loaded     *)
(* before; and the language with which every import compiles its evaluator  *)
(* (getDefaultEvaluator) is never lost.                                     *)
OutsidersNeedInsiders ==
  InsidersFirst /\ NamesAreUnique /\ languages[Cpp] # {}
=============================================================================
