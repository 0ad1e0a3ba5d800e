------------------------------ MODULE MasterData ------------------------------
(***************************************************************************)
(* The tables an import looks up and fills (wt_migration/models/           *)
(* wt_migration.py): users, statuses, types, priorities, labels, projects  *)
(* and boards.  Each request reads them into dicts when it begins, and     *)
(* creates a row for what it does not find there.  Only the login of a user*)
(* is unique in the database; an import that would create one twice fails. *)
(*                                                                         *)
(* A migration is created with all the server has (__load_master_data);    *)
(* what is not `known` then the server gets later.  A scene has the issues *)
(* that are imported, the people that have been users before, by a login   *)
(* and an address of their own or those they have on the server, and the   *)
(* authors of work logs; users are loaded only if there are any.           *)
(*                                                                         *)
(* The server is a Jira Cloud: it names the assignee by her e-mail address,*)
(* if she shows it, and the tester by her account id.                      *)
(***************************************************************************)
EXTENDS TokenAccess

CONSTANTS Person, Visible,    (* who show their e-mail address             *)
          Nobody,
          Status, Item,       (* types, priorities and labels              *)
          Issue,              (* issues on the server, with a project, an  *)
                              (* assignee, a tester, a status and items    *)
          HasBoard            (* projects with a board on the server       *)

ASSUME TableAssumption ==
  /\ Visible \subseteq Person /\ Nobody \notin Person /\ Item \cap Status = {}
  /\ \A i \in Issue : /\ i.project \in Key
                      /\ {i.assignee, i.tester} \subseteq Person \cup {Nobody}
                      /\ i.status \in Status /\ i.items \subseteq Item
  /\ HasBoard \subseteq Key
  /\ \A s \in Scenes : /\ s.known \subseteq Item \cup Status
                       /\ s.issues \subseteq Issue
                       /\ s.authors \subseteq Person
                       /\ s.people \subseteq [person : Person, login : {"mail", "own"},
                                              name : {"mail", "own"}]
                       /\ \A x, y \in s.people : x.person = y.person => x = y

VARIABLES
  accounts,     (* res.users: a login, the name dict_user has for it, and  *)
                (* what created it                                         *)
  rows,         (* how many rows there are for an item or a status         *)
  boards,       (* how many rows of board.board a row of wt.project has    *)
  dict,         (* the tables when the early request began                 *)
  testers,      (* history: who was met as a tester                        *)
  unseeing,     (* history: how often load_projects saw no project         *)
  doubled,      (* history: what an early import created a second time     *)
  clashes       (* history: logins an import would have created again      *)

tables == <<accounts, rows, boards>>
tableHist == <<testers, unseeing, doubled, clashes>>
tableVars == <<tables, dict, tableHist>>

(* The names of a person: get_user takes partner_id.email before login.    *)
Mail(x) == <<x, "mail">>
Id(x) == <<x, "id">>
IdAtMail(x) == <<x, "id@mail">>

Name(x) == IF x \in Visible THEN Mail(x) ELSE Id(x)

(* load_all_users: an account for each login there is not yet.             *)
AllUsers(A) ==
  {[login |-> Name(x), name |-> IF x \in Visible THEN Mail(x) ELSE IdAtMail(x),
    by |-> "load_all_users"] : x \in {y \in Person : \A a \in A : a.login # Name(y)}}

(* create, __load_master_data: load_statuses, load_types, load_priorities; *)
(* some people have been users before, and their login and address are     *)
(* whatever they were given.                                               *)
TablesInit ==
  /\ AccessInit
  /\ accounts = {[login |-> <<x.person, x.login>>, name |-> <<x.person, x.name>>,
                   by |-> "hand"] : x \in scene.people}
  /\ rows = [i \in Item \cup Status |-> IF i \in scene.known THEN 1 ELSE 0]
  /\ boards = [n \in DOMAIN scene.projects |-> 0]
  /\ dict = <<>>
  /\ testers = {} /\ unseeing = 0 /\ doubled = {} /\ clashes = {}
-----------------------------------------------------------------------------
(* get_local_issue_data: what a request knows.                             *)
Known(r) ==
  IF r.early THEN dict
  ELSE [accounts |-> accounts, rows |-> rows, boards |-> boards,
        projects |-> r.seen]

Missing(D, names) == names \ {a.name : a \in D.accounts}

People(I, role) == {i[role] : i \in I} \ {Nobody}

(* The name create_missing_users looks for before it creates a tester: the *)
(* assignee's, if she shows her address.                                   *)
AskedFor(i) == IF i.assignee \in Visible THEN Mail(i.assignee) ELSE Id(i.tester)

(* create_missing_users: the names of the assignees and of the testers.    *)
MissingUsers(D, I) ==
  Missing(D, {Name(x) : x \in People(I, "assignee")})
  \cup {Id(i.tester) : i \in {j \in I : /\ j.tester # Nobody
                                        /\ Missing(D, {AskedFor(j)}) # {}}}

(* Mutant of NewAccount: the partner keeps the address it is created with. *)
NewAccountUnnamed(name) ==
  [login |-> name, name |-> IF name[2] = "id" THEN IdAtMail(name[1]) ELSE name,
   by |-> "import"]

(* The name is the e-mail address, too: partner_id.email = login.          *)
NewAccount(name) == [login |-> name, name |-> name, by |-> "import"]

Clashing(names) == names \cap {a.login : a \in accounts}

(* create_missing_types, _labels, _priorities: what dict does not have.  A *)
(* status is looked up by its id in a dict that has the key of its         *)
(* category: it is not found.                                              *)
MissingItems(D, I) ==
  {t \in UNION {i.items : i \in I} : D.rows[t] = 0} \cup {i.status : i \in I}

(* create_missing_projects                                                 *)
MissingProjects(r, I) == {i.project : i \in I} \ KeysOf(projects, r.seen)

Appended(u, K) ==
  projects \o [n \in 1..Cardinality(K) |-> [key |-> SetToSeq(K)[n], managers |-> {u}]]

Padded(f, T) == [n \in DOMAIN T |-> IF n \in DOMAIN f THEN f[n] ELSE 0]

(* load_boards of the projects P with the tokens of some users: each of    *)
(* them creates the boards that did not exist before the first.            *)
NewBoards(T, P, existing, users) ==
  [n \in DOMAIN T |->
    LET k == T[n].key
    IN  IF /\ n \in P /\ n = RowOf(T, P, k) /\ k \in HasBoard
           /\ \A m \in P : T[m].key = k => Padded(existing, T)[m] = 0
        THEN Cardinality({v \in users : k \in Listed[v]}) ELSE 0]

WithBoards(T, more) == [n \in DOMAIN T |-> Padded(boards, T)[n] + more[n]]

(* History: an early request created these again.                          *)
Again(r, things) == doubled' = doubled \cup IF r.early THEN things ELSE {}

Unseen(r) == KeysOf(projects, DOMAIN projects \ r.seen)

BoardsOf(r, T, P, a) ==
  IF BoardsRaise(r, a) THEN [n \in DOMAIN T |-> 0]
  ELSE NewBoards(T, P, Known(r).boards, a.answer.users)
-----------------------------------------------------------------------------
Begin(p) ==
  /\ BeginEarly(p)
  /\ dict' = Known(Request(p))
  /\ UNCHANGED <<tables, tableHist>>

DictAfter(r) == dict' = IF r.early THEN <<>> ELSE dict

(* The steps that are about tokens.                                        *)
TokenStep ==
  \/ /\ \/ \E u \in User, t \in 1..scene.renewals, p \in Process : Enter(p, u, t)
        \/ AbortEntered
        \/ \E u \in User : Renew(u)
     /\ UNCHANGED tableVars
  \/ /\ CommitEntered
     /\ boards' = Padded(boards, projects')
     /\ doubled' = doubled \cup (KeysOf(projects, DOMAIN projects \ entering[1].seen)
                                   \cap Listed[entering[1].user])
     /\ UNCHANGED <<accounts, rows, dict, testers, unseeing, clashes>>
  \/ \E r \in Requests, P \in (SUBSET DOMAIN projects) \ {{}} :
       P \subseteq r.seen /\ Fetch(r, P) /\ DictAfter(r) /\ UNCHANGED <<tables, tableHist>>

Projects(r, u) ==
  /\ LoadProjects(r, u)
  /\ boards' = Padded(boards, projects')
  /\ unseeing' = IF projects' = projects \/ u \in SeesAll THEN unseeing ELSE unseeing + 1
  /\ Again(r, Unseen(r) \cap Listed[u])
  /\ DictAfter(r)
  /\ UNCHANGED <<accounts, rows, testers, clashes>>

Boards(r) ==
  LET more == BoardsOf(r, projects, r.seen,
                       Answer(r, BoardUsers(projects, r.seen), "boards"))
  IN
  /\ LoadBoards(r)
  /\ boards' = WithBoards(projects, more)
  /\ Again(r, HasBoard)
  /\ DictAfter(r)
  /\ UNCHANGED <<accounts, rows, testers, unseeing, clashes>>

(* What the server answers to u: it accepts her token.                     *)
Served(r, u) == TokenOf(r, u) # 0 /\ TokenOf(r, u) = accepted[u]

Tried(r, u) ==
  [r EXCEPT !.cache = [token |-> CachedTokens(r, {u}), answer |-> r.cache.answer]]

(* A request of u the server does not serve.                               *)
NotServed(r, u) ==
  /\ ~Served(r, u)
  /\ Keep(r, Tried(r, u).cache)
  /\ Ended(r) /\ DictAfter(r)
  /\ UNCHANGED <<scene, token, accepted, marked, projects, entering, left, tables, tableHist>>

(* The button "Load Users".                                                *)
LoadAllUsers(r, u) ==
  /\ Served(r, u)
  /\ Keep(r, Tried(r, u).cache)
  /\ LET new == AllUsers(Known(r).accounts)
     IN  accounts' = IF Clashing({a.login : a \in new}) # {} THEN accounts
                     ELSE accounts \cup new
  /\ Ended(r) /\ DictAfter(r)
  /\ UNCHANGED <<scene, token, accepted, marked, projects, entering, left, rows, boards,
                 tableHist>>

(* History of a failure.                                                   *)
Clash(r, names, tested) ==
  clashes' = clashes \cup
    {[account |-> a, early |-> r.early, tester |-> a.login \in {Id(x) : x \in tested}] :
       a \in {b \in accounts : b.login \in names}}

(* create_missing_assignee: an import of the work logs of x.               *)
ImportLogs(r, u, x) ==
  LET names == Missing(Known(r), {Name(x)})
      fails == Clashing(names) # {}
  IN
  /\ Served(r, u)
  /\ Keep(r, Tried(r, u).cache)
  /\ accounts' = IF fails THEN accounts ELSE accounts \cup {NewAccount(l) : l \in names}
  /\ Clash(r, names, {})
  /\ Ended(r) /\ DictAfter(r)
  /\ UNCHANGED <<scene, token, accepted, marked, projects, entering, left, rows, boards,
                 testers, unseeing, doubled>>

(* do_request and load_boards: an import of issues.  The projects it finds *)
(* are created first, and cron_fetch_issue runs for them.  When it raises  *)
(* it is rolled back, but the API answers and commits.  Bound: no request  *)
(* but those of load_boards meets trouble, and the first of them does.     *)
Import(r, u, I, api) ==
  LET D     == Known(r)
      names == MissingUsers(D, I)
      items == MissingItems(D, I)
      K     == MissingProjects(r, I)
      T     == Appended(u, K)
      a     == Answer([Tried(r, u) EXCEPT !.trouble = "none"], {u}, "cron")
      r1    == IF K = {} THEN Tried(r, u) ELSE [r EXCEPT !.cache = a.cache]
      P     == {RowOf(T, r.seen \cup (DOMAIN T \ DOMAIN projects), i.project) : i \in I}
      b     == Answer(r1, BoardUsers(T, P), "boards")
      more  == BoardsOf(r1, T, P, b)
      fails == Clashing(names) # {}
      ends  == ~fails /\ (api \/ ~BoardsRaise(r1, b))
  IN
  /\ Served(r, u)
  /\ IF fails THEN Keep(r, r1.cache) ELSE BoardsDone(r1, b)
  /\ Clash(r, names, People(I, "tester"))
  /\ IF ends
     THEN /\ projects' = T
          /\ accounts' = accounts \cup {NewAccount(l) : l \in names}
          /\ rows' = [i \in Item \cup Status |-> rows[i] + IF i \in items THEN 1 ELSE 0]
          /\ boards' = WithBoards(T, more)
          /\ marked' = marked \cup b.refused
          /\ testers' = testers \cup People(I, "tester")
          /\ Again(r, {i \in items : rows[i] > 0} \cup (K \cap Unseen(r)) \cup HasBoard)
          /\ left' = IF K # {} /\ LeavesOut(T, DOMAIN T \ DOMAIN projects, a.answer)
                        /\ raced = {} /\ r.token = token
                     THEN {a.answer} ELSE left
     ELSE UNCHANGED <<projects, tables, marked, testers, doubled, left>>
  /\ Ended(r) /\ DictAfter(r)
  /\ UNCHANGED <<scene, token, accepted, entering, unseeing>>

TablesNext ==
  \/ TokenStep
  \/ \E p \in Process : Begin(p)
  \/ \E r \in Requests :
       \/ Boards(r)
       \/ \E u \in User : Projects(r, u) \/ NotServed(r, u)
       \/ \E u \in User, x \in scene.authors : LoadAllUsers(r, u) \/ ImportLogs(r, u, x)
       \/ \E u \in User, I \in (SUBSET scene.issues) \ {{}}, api \in BOOLEAN : Import(r, u, I, api)

TablesSpec == TablesInit /\ [][TablesNext]_<<accessVars, tableVars>>
-----------------------------------------------------------------------------
(* What an import and load_projects look up has one row, unless an early   *)
(* import created it again, or load_projects could not see it; a board has *)
(* one for each user who loads it at once.                                 *)
RowsOnce ==
  /\ \A i \in Item : rows[i] > 1 => i \in doubled
  /\ \A k \in Key \ doubled :
       /\ Cardinality({n \in DOMAIN projects : projects[n].key = k}) <= 1 + unseeing
       /\ \A n \in DOMAIN projects :
            projects[n].key = k => boards[n] <= Cardinality({u \in User : k \in Listed[u]})

(* Those who were users before under an address the server does not tell.  *)
Hidden ==
  {x.person : x \in {y \in scene.people : y.person \notin Visible \/ y.name = "own"}}

(* Those who were users before under a login that is not their address.    *)
Renamed == {x.person : x \in {y \in scene.people : y.login = "own"}}

AccountsOf(x) == {a \in accounts : a.login[1] = x}

(* A person has one account, unless she was met as a tester as well, or was*)
(* a user before under an address that the server does not tell.  Where the*)
(* address is right but not the login, load_all_users adds one.            *)
AccountsOnce ==
  \A x \in Person \ (testers \cup Hidden) :
    Cardinality({a \in AccountsOf(x) : a.by = "load_all_users" => x \notin Renamed}) <= 1

(* An import fails for a login that exists only if another one created it  *)
(* just then, if it is that of a tester, of a person load_all_users gave an*)
(* address that no import knows, or of one who was a user before under her *)
(* address, but has another one here.                                      *)
ClashesExplained ==
  \A c \in clashes :
    \/ c.early \/ c.tester
    \/ c.account.by = "load_all_users"
    \/ c.account.by = "hand" /\ c.account.name[2] = "own"

TablesExplained == RowsOnce /\ AccountsOnce /\ ClashesExplained
=============================================================================
