------------------------------ MODULE TokenAccess ------------------------------
(***************************************************************************)
(* Whose tokens are used to talk to the Jira server (wt_migration/models/  *)
(* res_users.py, token_storage.py, hr_employee.py, wt_project.py).         *)
(*                                                                         *)
(* Tokens are rows of a table of the database.  Each Odoo process caches   *)
(* them by user, and caches the users that have one by migration: for all  *)
(* its calls of token_exists_by_migration, whatever users they ask about.  *)
(* A process that drops its cache has the others drop theirs when its      *)
(* request ends: they do so when they begin their next one.                *)
(*                                                                         *)
(* A request is one step, but for that which enters a token, the commit of *)
(* which is another one, and for one that began, and had its snapshot of   *)
(* the database, before others that it overlaps.  There is one migration.  *)
(***************************************************************************)
EXTENDS Integers, FiniteSets, Sequences, SequencesExt

CONSTANTS User, Process,
          Key,          (* the keys of the projects on the server          *)
          Listed,       (* those it shows to a user                        *)
          SeesAll,      (* the users in group_wt_admin                     *)
          Scenes        (* the bounds of a behaviour, each with            *)
                        (*   admins, robin  admin_user_ids, is_round_robin *)
                        (*   stored   the users that have a token          *)
                        (*   projects the rows of wt.project               *)
                        (*   renewals how many tokens the server issues    *)
                        (*   calls    how many requests there are          *)
                        (*   early    whether one overlaps others          *)
                        (*   trouble  what may be amiss on the server      *)

ASSUME AccessAssumption ==
  /\ IsFiniteSet(User) /\ IsFiniteSet(Key)
  /\ Listed \in [User -> SUBSET Key] /\ SeesAll \subseteq User
  /\ \A s \in Scenes :
       /\ s.admins \cup s.stored \subseteq User /\ {s.robin, s.early} \subseteq BOOLEAN
       /\ s.projects \in Seq([key : Key, managers : SUBSET User])
       /\ \A m, n \in DOMAIN s.projects : s.projects[m].key = s.projects[n].key => m = n
       /\ {s.renewals, s.calls} \subseteq Nat
       /\ s.trouble \subseteq {"trial", "request"}

VARIABLES
  scene,
  token,        (* token_cache: the token of a user, 0 for none            *)
  accepted,     (* server: the token it accepts of a user                  *)
  marked,       (* unaccess_token_user_ids                                 *)
  projects,     (* wt.project: rows with a key and allowed_manager_ids     *)
  cached,       (* by process: the tokens, and the users that have one     *)
  dirty,        (* processes that are to drop their cache                  *)
  entering,     (* a request that has yet to commit the token it entered   *)
  early,        (* a request that began before the last steps              *)
  calls,
  raced,        (* history: processes that cached what a request had read  *)
                (* while a token was entered                               *)
  left          (* history: the answer by which the last cron left out a   *)
                (* project although it has a user with a token             *)

access == <<token, accepted, marked, projects, cached, dirty, entering, early, raced, left>>
accessVars == <<scene, calls, access>>

NoAnswer == [by |-> "none", users |-> {}]
Nothing == [token |-> [u \in User |-> 0], answer |-> NoAnswer]

AccessInit ==
  /\ scene \in Scenes
  /\ token = [u \in User |-> IF u \in scene.stored THEN 1 ELSE 0]
  /\ accepted = token
  /\ marked = {}
  /\ projects = scene.projects
  /\ cached = [p \in Process |-> Nothing] /\ dirty = {}
  /\ entering = <<>> /\ early = <<>> /\ calls = 0
  /\ raced = {} /\ left = {}
-----------------------------------------------------------------------------
(* A request in process p: what it reads, and what it finds in the cache;  *)
(* and whether the server answers with an error, to the trial of the tokens*)
(* or to the requests after it.                                            *)
Request(p) ==
  [process |-> p, early |-> FALSE, trouble |-> "none", token |-> token, seen |-> DOMAIN projects,
   cache |-> IF p \in dirty THEN Nothing ELSE cached[p]]

(* The early request, which has seen to the cache when it began.           *)
EarlyRequest ==
  [process |-> early[1].process, early |-> TRUE, trouble |-> "none",
   token |-> early[1].token, seen |-> early[1].seen,
   cache |-> cached[early[1].process]]

Requests ==
  IF calls = scene.calls THEN {}
  ELSE {[r EXCEPT !.trouble = s] :
          r \in {Request(p) : p \in Process} \cup IF early = <<>> THEN {} ELSE {EarlyRequest},
          s \in {"none"} \cup scene.trouble}

Counted == calls < scene.calls /\ calls' = calls + 1

BeginEarly(p) ==
  /\ early = <<>> /\ scene.early /\ calls < scene.calls
  /\ early' = <<[process |-> p, token |-> token, seen |-> DOMAIN projects]>>
  /\ cached' = [cached EXCEPT ![p] = Request(p).cache]
  /\ dirty' = dirty \ {p}
  /\ raced' = IF p \in dirty THEN raced \ {p} ELSE raced
  /\ UNCHANGED <<scene, calls, token, accepted, marked, projects, entering, left>>

(* get_jira_token                                                          *)
TokenOf(r, u) == IF r.cache.token[u] # 0 THEN r.cache.token[u] ELSE r.token[u]

(* token_exists                                                            *)
Holders(r, U) == {u \in U : TokenOf(r, u) # 0}

(* The users whose token the server does not accept: _get_permission       *)
(* raises, as it does for any error.                                       *)
Refused(r, U) ==
  {u \in Holders(r, U) \ marked : r.trouble = "trial" \/ TokenOf(r, u) # accepted[u]}

CachedTokens(r, U) ==
  [u \in User |-> IF u \in U THEN TokenOf(r, u) ELSE r.cache.token[u]]

(* token_exists_by_migration of the users U, by a request of a kind: the   *)
(* users it answers, those for whom it raises, and the cache after it.     *)
Answer(r, U, by) ==
  IF r.cache.answer # NoAnswer
  THEN [answer |-> r.cache.answer, refused |-> {}, cache |-> r.cache]
  ELSE LET answer == [by |-> by, users |-> Holders(r, U) \ marked]
           bad    == Refused(r, U)
       IN  [answer |-> answer, refused |-> bad,
            cache |-> [token |-> CachedTokens(r, U),
                       answer |-> IF bad = {} THEN answer ELSE NoAnswer]]

(* The request leaves this in the cache of its process.                    *)
Keep(r, cache) ==
  LET p == r.process
  IN  /\ cached' = [cached EXCEPT ![p] = cache]
      /\ dirty' = IF r.early THEN dirty ELSE dirty \ {p}
      /\ raced' = (IF ~r.early /\ p \in dirty THEN raced \ {p} ELSE raced)
                  \cup IF r.token # token THEN {p} ELSE {}

(* Mutant of Drop: the caches stay.                                        *)
DropNothing(r, cache) == Keep(r, cache)

(* token_clear_cache                                                       *)
Drop(r, cache) ==
  /\ cached' = [cached EXCEPT ![r.process] = Nothing]
  /\ dirty' = (dirty \cup Process) \ {r.process}
  /\ raced' = raced \ {r.process}

Ended(r) ==
  /\ early' = IF r.early THEN <<>> ELSE early
  /\ Counted
-----------------------------------------------------------------------------
Managers(T, P) == UNION {T[n].managers : n \in P}

(* The users cron_fetch_issue may use for a project, of whom it chooses    *)
(* those the answer has.  Bound: nobody is in allowed_user_ids.            *)
Designated(T, n) ==
  IF ~scene.robin /\ scene.admins # {} THEN scene.admins ELSE T[n].managers

Works(u) == token[u] # 0 /\ token[u] = accepted[u] /\ u \notin marked

(* A run of the cron leaves a project out without need.                    *)
LeavesOut(T, P, answer) ==
  \E n \in P :
    /\ Designated(T, n) \cap answer.users = {}
    /\ \E u \in Designated(T, n) \cap Managers(T, P) : Works(u)

(* cron_fetch_issue of some projects.                                      *)
Fetch(r, P) ==
  LET a == Answer(r, Managers(projects, P), "cron")
  IN
  /\ Keep(r, a.cache)
  /\ left' = IF /\ a.refused = {} /\ LeavesOut(projects, P, a.answer)
                /\ raced = {} /\ r.token = token
             THEN {a.answer} ELSE {}
  /\ Ended(r)
  /\ UNCHANGED <<scene, token, accepted, marked, projects, entering>>

(* Whom load_boards asks for: a shared migration any manager of the        *)
(* projects.                                                               *)
BoardUsers(T, P) == IF scene.robin THEN Managers(T, P) ELSE scene.admins

(* It raises: for a token token_exists_by_migration has tried, or another  *)
(* one that an answer in the cache counts on, or for any error the server  *)
(* answers with.                                                           *)
BoardsRaise(r, a) ==
  \/ a.refused # {}
  \/ \E u \in a.answer.users : r.trouble = "request" \/ TokenOf(r, u) # accepted[u]

(* History: an answer that a request which raises leaves in the cache.     *)
LeftBehind(cache) ==
  [cache EXCEPT !.answer.by = IF @ \in {"boards", "projects"} THEN "raised" ELSE @]

(* load_boards, of all projects: the end of it, unless nobody has a token. *)
BoardsDone(r, a) ==
  IF a.answer.users = {} THEN Keep(r, a.cache)
  ELSE IF BoardsRaise(r, a) THEN Keep(r, LeftBehind(a.cache))
  ELSE Drop(r, a.cache)

(* The button.                                                             *)
LoadBoards(r) ==
  LET a == Answer(r, BoardUsers(projects, r.seen), "boards")
  IN
  /\ BoardsDone(r, a)
  /\ Ended(r)
  /\ UNCHANGED <<scene, token, accepted, marked, projects, entering, left>>

KeysOf(T, P) == {T[n].key : n \in P}

(* The row a dict of them has for a key: the oldest.                       *)
RowOf(T, P, k) ==
  CHOOSE n \in P : T[n].key = k /\ \A m \in P : T[m].key = k => n <= m

(* The rows of wt.project after load_projects of u, who saw these.         *)
WithProjects(u, seen) ==
  LET mine == Listed[u] \cap KeysOf(projects, seen)
      old == [n \in DOMAIN projects |->
               IF n \in {RowOf(projects, seen, k) : k \in mine}
               THEN [projects[n] EXCEPT !.managers = @ \cup {u}] ELSE projects[n]]
      new == Listed[u] \ mine
  IN  old \o [n \in 1..Cardinality(new) |->
               [key |-> SetToSeq(new)[n], managers |-> {u}]]

ProjectsLoaded(r, u) ==
  /\ Answer(r, {u}, "projects").refused = {} /\ r.trouble # "request"
  /\ TokenOf(r, u) # 0 /\ TokenOf(r, u) = accepted[u]

(* load_projects, a button.  A record rule shows a user the projects of    *)
(* which she is in allowed_user_ids: none, unless she sees all.            *)
LoadProjects(r, u) ==
  LET a == Answer(r, {u}, "projects")
  IN
  /\ IF ProjectsLoaded(r, u)
     THEN /\ Drop(r, a.cache)
          /\ projects' = WithProjects(u, IF u \in SeesAll THEN r.seen ELSE {})
     ELSE /\ Keep(r, LeftBehind([token |-> CachedTokens(r, {u}), answer |-> a.cache.answer]))
          /\ UNCHANGED projects
  /\ Ended(r)
  /\ UNCHANGED <<scene, token, accepted, marked, entering, left>>
-----------------------------------------------------------------------------
(* set_jira_token: the caches are dropped, and the token is tried by       *)
(* load_projects, which drops them again; all before the commit.  A token  *)
(* the server does not accept makes it raise.                              *)
Enter(p, u, t) ==
  LET r == [Request(p) EXCEPT !.token = [token EXCEPT ![u] = t], !.cache = Nothing]
  IN
  /\ entering = <<>>
  /\ entering' = IF ProjectsLoaded(r, u)
                 THEN <<[process |-> p, user |-> u, token |-> t,
                         seen |-> DOMAIN projects]>>
                 ELSE <<>>
  /\ cached' = [cached EXCEPT ![p] = Nothing]
  /\ dirty' = dirty \ {p} /\ raced' = raced \ {p}
  /\ Counted
  /\ UNCHANGED <<scene, token, accepted, marked, projects, early, left>>

CommitEntered ==
  /\ entering # <<>>
  /\ LET e == entering[1]
     IN  /\ token' = [token EXCEPT ![e.user] = e.token]
         /\ projects' = WithProjects(e.user, e.seen)
         /\ dirty' = dirty \cup (Process \ {e.process})
         /\ raced' = IF cached[e.process] = Nothing THEN raced
                     ELSE raced \cup {e.process}
  /\ entering' = <<>>
  /\ UNCHANGED <<scene, calls, accepted, marked, cached, early, left>>

(* It fails to commit: the cron has written latest_unix, too.              *)
AbortEntered ==
  /\ entering # <<>>
  /\ cached' = [cached EXCEPT ![entering[1].process] = Nothing]
  /\ raced' = raced \ {entering[1].process}
  /\ entering' = <<>>
  /\ UNCHANGED <<scene, calls, token, accepted, marked, projects, dirty, early, left>>

(* The server issues a new token, and accepts the old one no more.         *)
Renew(u) ==
  /\ accepted[u] < scene.renewals
  /\ accepted' = [accepted EXCEPT ![u] = @ + 1]
  /\ UNCHANGED <<scene, calls, token, marked, projects, cached, dirty, entering, early,
                 raced, left>>
-----------------------------------------------------------------------------
AccessTypeOK ==
  /\ {token, accepted} \subseteq [User -> Nat]
  /\ marked \subseteq User /\ dirty \cup raced \subseteq Process
  /\ \A n \in DOMAIN projects : projects[n].key \in Key /\ projects[n].managers \subseteq User
  /\ \A p \in Process : cached[p].token \in [User -> Nat] /\ cached[p].answer.users \subseteq User

(* A token that was entered is the one every later request uses: no cache  *)
(* has another one, unless a request that had read the old one filled it   *)
(* after it was dropped.                                                   *)
TokensCurrent ==
  \A p \in Process \ (dirty \cup raced), u \in User :
    cached[p].token[u] \in {0, token[u]}

(* The cron leaves a project out although it may use one who has a token   *)
(* and is not marked only by an answer it finds in the cache, about other  *)
(* users: one of an earlier run of its own, which the cron does not drop,  *)
(* one that named nobody, after which load_boards does not either, or one  *)
(* of a load_boards or load_projects that raised before it dropped it.     *)
LeftOutExplained == \A a \in left : a.by \in {"cron", "raised"} \/ a.users = {}

AccessExplained == AccessTypeOK /\ TokensCurrent /\ LeftOutExplained
=============================================================================
