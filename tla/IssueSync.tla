------------------------------ MODULE IssueSync ------------------------------
(***************************************************************************)
(* Issues of one Jira server and their copies here: the paged import with  *)
(* its epics and sprints, the clone of issues of another server and their  *)
(* export (wt_migration/models/wt_migration.py, wt_issue.py).              *)
(*                                                                         *)
(* Two transactions at most overlap.  Each works on the snapshot of its    *)
(* begin, is refused at its commit if another wrote a row it wrote, and    *)
(* leaves on the server what its requests did there when it is rolled      *)
(* back.                                                                   *)
(*                                                                         *)
(* An issue on the server is a number, its key, in the order of creation;  *)
(* of its fields, those whose import looks at other records are kept, and  *)
(* the assignee: the user who loads "his" issues, another one or nobody.   *)
(* Its sprint is the first of the list that the server gives.              *)
(***************************************************************************)
EXTENDS Integers, Sequences, FiniteSets, SequencesExt

CONSTANTS Transactions,
          Source, None,             (* issues of the other server          *)
          Sprint,                   (* ids of sprints on the server        *)
          BoardRow,                 (* id of a board there -> its row here *)
          EpicKeys,                 (* issues whose type is an epic type   *)
          InitServer, InitIssues, InitSprints,
          PageSize,                 (* paging, 100 in do_request           *)
          MaxKeys, MaxRows, MaxOpened, MaxChanges       (* bounds          *)

(* f where it is defined, and g elsewhere.                                 *)
Over(f, g) ==
  [a \in DOMAIN f \cup DOMAIN g |-> IF a \in DOMAIN f THEN f[a] ELSE g[a]]

Key == 1..MaxKeys

Row == 1..MaxRows

Assignee == {"me", "other", "none"}

(* origin (history): the row that was exported as this issue, or 0         *)
ServerIssue == [assignee : Assignee, parent : Key \cup {0},
                sprint : Sprint \cup {0}, origin : Row \cup {0}]

(* key 0: not exported; src: the issue it is a clone of.  History: last is *)
(* the sprint its last import saw, wavered that this import found a known  *)
(* sprint while the key of an unknown one waited.                          *)
Issue == [key : Key \cup {0}, src : Source \cup {None}, assignee : Assignee,
          epic : Row \cup {0}, sprint : Sprint \cup {0},
          sprintKey : Sprint \cup {0},
          last : Sprint \cup {0}, wavered : BOOLEAN]

ASSUME SyncAssumption ==
  /\ {PageSize, MaxKeys, MaxRows} \subseteq Nat \ {0}
  /\ {MaxOpened, MaxChanges} \subseteq Nat
  /\ InitServer \in Seq(ServerIssue) /\ Len(InitServer) <= MaxKeys
  /\ InitIssues \in Seq(Issue) /\ InitSprints \subseteq Sprint
  /\ Sprint \subseteq Nat \ {0} /\ DOMAIN BoardRow \subseteq Nat
  /\ None \notin Source /\ EpicKeys \subseteq Key
  /\ (Source \cup {None}) \cap (Key \cup {0}) = {} /\ IsFiniteSet(Source)

VARIABLES server,     (* a sequence of ServerIssue                         *)
          issues,     (* wt.issue: rows to Issue, as far as there are      *)
          nextRow,    (* the sequence of the table                         *)
          sprints,    (* agile.sprint: the ids that are known here         *)
          jobs,       (* update_board_by_new_issues: the rows of each      *)
          tx,         (* the transactions                                  *)
          opened,     (* how many transactions there were                  *)
          changes,    (* what users did beside them                          *)
          excused,    (* history: second copies by a cause that is known   *)
          lost        (* history: exports rolled back after their request  *)

vars == <<server, issues, nextRow, sprints, jobs, tx, opened, changes,
          excused, lost>>

Name == Key \cup Source

(* What a row stands for: an issue of one of the servers.                  *)
Names(r) == {r.key, r.src} \ {0, None}

(* What there is at first is as imports and exports leave it: one row for  *)
(* a name, epics and parents that exist, exports that are linked.          *)
ASSUME InitAssumption ==
  /\ Len(InitIssues) <= MaxRows
  /\ \A k \in DOMAIN InitServer :
       LET there == InitServer[k] IN
       /\ there.parent \in {0} \cup DOMAIN InitServer
       /\ there.origin # 0 => /\ there.origin \in DOMAIN InitIssues
                              /\ InitIssues[there.origin].key = k
  /\ \A r \in DOMAIN InitIssues :
       LET here == InitIssues[r] IN
       /\ here.key \in {0} \cup DOMAIN InitServer
       /\ here.epic \in {0} \cup DOMAIN InitIssues
       /\ here.key # 0 /\ here.src # None => InitServer[here.key].origin = r
       /\ here.last # 0 /\ ~here.wavered =>
            \/ here.sprintKey = here.last
            \/ here.sprintKey = 0 /\ here.sprint = here.last
  /\ \A q, r \in DOMAIN InitIssues :
       q # r => Names(InitIssues[q]) \cap Names(InitIssues[r]) = {}

Idle == [at |-> "idle"]

Init ==
  /\ server = InitServer
  /\ issues = InitIssues /\ nextRow = Len(InitIssues) + 1
  /\ sprints = InitSprints /\ jobs = {}
  /\ tx = [t \in Transactions |-> Idle]
  /\ opened = 0 /\ changes = 0
  /\ excused = [n \in Name |-> 0]
  /\ lost = [r \in Row |-> 0]
-----------------------------------------------------------------------------
(* Bound: what users do beside transactions.                               *)
Changes ==
  /\ changes < MaxChanges /\ changes' = changes + 1
  /\ Cardinality({t \in Transactions : tx[t] # Idle}) < 2

(* A transaction: the rows it creates and writes, those others wrote and   *)
(* the names they used since its begin.                                    *)
Begun(at) == [at |-> at, new |-> <<>>, writes |-> <<>>,
              outdated |-> {}, raced |-> {}, posted |-> {}]

View(x) == Over(x.new, Over(x.writes, issues))

Blank == [key |-> 0, src |-> None, assignee |-> "none", epic |-> 0, sprint |-> 0,
          sprintKey |-> 0, last |-> 0, wavered |-> FALSE]

(* Bound: users change the server after transactions overlapped, not       *)
(* before.                                                                 *)
Open(t, x) ==
  /\ tx[t] = Idle
  /\ changes = 0 \/ \A u \in Transactions : tx[u] = Idle
  /\ opened < MaxOpened
  /\ opened' = opened + 1
  /\ tx' = [tx EXCEPT ![t] = x]

(* Others learn what a commit wrote and which names it used first.         *)
Told(f, W, N) ==
  [u \in Transactions |->
    IF f[u] = Idle THEN Idle
    ELSE [f[u] EXCEPT !.outdated = @ \cup W, !.raced = @ \cup N]]

(* The rows whose key a transaction sets, and the names for which it adds  *)
(* a copy.                                                                 *)
Rekeyed(x) == {r \in DOMAIN x.writes : issues[r].key # x.writes[r].key}

Gained(x) ==
  (UNION {Names(x.new[r]) : r \in DOMAIN x.new}) \cup
  {x.writes[r].key : r \in Rekeyed(x)}

Gains(x, n) ==
  Cardinality({r \in DOMAIN x.new : n \in Names(x.new[r])}) +
  Cardinality({r \in Rekeyed(x) : x.writes[r].key = n})

Importing(x) == x # Idle /\ "kind" \in DOMAIN x

Causes(x) ==
  x.raced \cup
  IF Importing(x)
  THEN x.hidden \cup x.split \cup IF x.shifted THEN Key ELSE {}
  ELSE {}

(* An import ends after its last page, or earlier, when the server answers *)
(* six times with nothing.                                                 *)
Commit(t) ==
  LET x == tx[t] IN
  /\ x.at \in {"ready", "paging"}
  /\ DOMAIN x.writes \cap x.outdated = {}
  /\ issues' = View(x)
  /\ excused' = [n \in Name |->
                  excused[n] + IF n \in Causes(x) THEN Gains(x, n) ELSE 0]
  /\ jobs' = IF Importing(x) /\ x.kind # "project" /\ x.met # {}
             THEN jobs \cup {x.met} ELSE jobs
  /\ tx' = Told([tx EXCEPT ![t] = Idle], DOMAIN x.writes, Gained(x))
  /\ UNCHANGED <<server, nextRow, sprints, opened, changes, lost>>

(* An exception, an error of the server or a refused commit.               *)
Rollback(t) ==
  /\ tx[t] # Idle
  /\ tx' = [tx EXCEPT ![t] = Idle]
  /\ lost' = [r \in Row |->
               lost[r] + Cardinality({k \in tx[t].posted :
                                        server[k].origin = r})]
  /\ UNCHANGED <<server, issues, nextRow, sprints, jobs, opened, changes,
                 excused>>
-----------------------------------------------------------------------------
(* Imports.  "project": _update_project, "all": update_projects and the    *)
(* other searches, "mine": load_my_issues, "one": import_issue_wt and the  *)
(* search by a key.                                                        *)

Matches(x, s) ==
  CASE x.kind = "mine" -> {k \in DOMAIN s : s[k].assignee = "me"}
    [] x.kind = "one"  -> {x.target}
    [] OTHER           -> DOMAIN s

(* Mutant of Place: startAt counts from one.                               *)
PlaceFromOne(x, k) ==
  1 + Cardinality({j \in Matches(x, server) : IF x.asc THEN j < k ELSE j > k})

(* The place of an issue in the listing, from zero as startAt.             *)
Place(x, k) ==
  Cardinality({j \in Matches(x, server) : IF x.asc THEN j < k ELSE j > k})

(* Mutant of Found: the domain of the user's own issues in every import.   *)
FoundMine(kind, target, typed) ==
  {r \in DOMAIN issues : issues[r].key # 0 /\ issues[r].assignee = "me"}

(* get_local_issue_data(domain): the rows the import can find.             *)
Found(kind, target, typed) ==
  {r \in DOMAIN issues :
    /\ issues[r].key # 0
    /\ CASE kind = "mine" -> issues[r].assignee = "me"
         [] kind = "one"  -> \/ typed /\ issues[r].key = target
                             \/ issues[r].key \in EpicKeys
         [] OTHER         -> TRUE}

KeysOf(R) == {issues[r].key : r \in R}

Keyed(R) == {f \in [KeysOf(R) -> R] : \A k \in KeysOf(R) : issues[f[k]].key = k}

(* typed: the key was entered as it is, not in lower case.  Of several     *)
(* copies, the last one found is updated.                                  *)
OpenImport(t, kind, asc, target, typed) ==
  /\ kind \notin {"all", "project"} => asc
  /\ IF kind = "one" THEN target \in DOMAIN server
     ELSE target = 0 /\ typed
  /\ \E known \in Keyed(Found(kind, target, typed)) :
       Open(t, Over(Begun("paging"),
                    [kind |-> kind, asc |-> asc, target |-> target,
                     start |-> 0, total |-> PageSize, known |-> known,
                     sprints |-> sprints, met |-> {},
                     base |-> server, shifted |-> FALSE, moved |-> FALSE,
                     hidden |-> IF kind \in {"mine", "one"}
                                THEN KeysOf(DOMAIN issues) \ ({0} \cup DOMAIN known)
                                ELSE {},
                     listed |-> {}, split |-> {}]))
  /\ UNCHANGED <<server, issues, nextRow, sprints, jobs, changes, excused, lost>>

(* Mutant of Mapped: the key of a sprint that is not known is dropped.     *)
MappedIfKnown(x, r, s, known) ==
  [r EXCEPT
    !.assignee = IF s.assignee = "none" THEN @ ELSE s.assignee,
    !.epic = IF s.parent = 0 THEN @ ELSE known[s.parent],
    !.sprint = IF s.sprint \in x.sprints THEN s.sprint ELSE @,
    !.last = IF s.sprint = 0 THEN @ ELSE s.sprint]

(* mapping_issue on a row: empty fields are left out, so they never clear  *)
(* what is here; labels, names and the like are left out.                  *)
Mapped(x, r, s, known) ==
  [r EXCEPT
    !.assignee = IF s.assignee = "none" THEN @ ELSE s.assignee,
    !.epic = IF s.parent = 0 THEN @ ELSE known[s.parent],
    !.sprint = IF s.sprint \in x.sprints THEN s.sprint ELSE @,
    !.sprintKey = IF s.sprint \in {0} \cup x.sprints THEN @ ELSE s.sprint,
    !.last = IF s.sprint = 0 THEN @ ELSE s.sprint,
    !.wavered = IF s.sprint = 0 THEN @
                ELSE s.sprint \in x.sprints /\ r.sprintKey \notin {0, s.sprint}]

(* Numbers the keys of a set from n on.                                    *)
Numbered(K, n) == [k \in K |-> n + Cardinality({j \in K : j < k})]

(* A page: create_missing_epics creates the parents that are not known,    *)
(* then each issue is written or listed for creation.                      *)
Page(t) ==
  LET x      == tx[t]
      total  == Cardinality(Matches(x, server))
      size   == IF x.total - x.start < PageSize THEN x.total - x.start
                ELSE PageSize
      shown  == {k \in Matches(x, server) :
                   Place(x, k) \in x.start..(x.start + size - 1)}
      epics  == {server[k].parent : k \in shown} \ ({0} \cup DOMAIN x.known)
      epicAt == Numbered(epics, nextRow)
      known  == Over(epicAt, x.known)
      fresh  == Numbered(shown \ DOMAIN known, nextRow + Cardinality(epics))
      rowOf  == Over(fresh, known)
      before == [r \in {rowOf[k] : k \in shown \cup epics} |->
                  IF r < nextRow THEN View(x)[r]
                  ELSE [Blank EXCEPT !.key = CHOOSE k \in DOMAIN rowOf :
                                               rowOf[k] = r]]
      after  == [r \in DOMAIN before |->
                  LET k == before[r].key IN
                  IF k \in shown THEN Mapped(x, before[r], server[k], known)
                  ELSE before[r]]
      ours   == {r \in DOMAIN after : r >= nextRow \/ r \in DOMAIN x.new}
  IN
  /\ x.at = "paging" /\ x.start < x.total
  /\ nextRow + Cardinality(epics) + Cardinality(DOMAIN fresh) <= MaxRows + 1
  /\ nextRow' = nextRow + Cardinality(epics) + Cardinality(DOMAIN fresh)
  /\ tx' = [tx EXCEPT ![t] =
       [x EXCEPT
         !.new     = Over([r \in ours |-> after[r]], @),
         !.writes  = Over([r \in DOMAIN after \ ours |-> after[r]], @),
         !.met     = @ \cup {rowOf[k] : k \in shown},
         !.known   = known,
         !.total   = IF x.kind # "one" /\ total > @ THEN total ELSE @,
         !.start   = @ + PageSize,
         !.shifted = @ \/ Matches(x, server) # Matches(x, x.base),
         !.moved   = @ \/ server # x.base,
         !.split   = @ \cup (epics \cap x.listed),
         !.listed  = @ \cup shown]]
  /\ UNCHANGED <<server, issues, sprints, jobs, opened, changes, excused, lost>>

-----------------------------------------------------------------------------
(* update_board_by_new_issues for the rows of an import: the sprints of    *)
(* the board of their sprints, and those of their keys, unless the row of  *)
(* a board with one of these ids has the id of the sprint.                 *)
Boarded(J) ==
  IF \E r \in J : issues[r].sprint # 0 THEN Sprint ELSE {}

Keys(J) == {issues[r].sprintKey : r \in J} \ {0}

Gap(J) == Keys(J) \ {BoardRow[b] : b \in Keys(J) \cap DOMAIN BoardRow}

Resolved(r) == [r EXCEPT !.sprint = r.sprintKey, !.sprintKey = 0]

(* update_issue_for_sprints, for every issue that waits for one of S       *)
UpdateIssueForSprints(S) ==
  LET waiting == {r \in DOMAIN issues : issues[r].sprintKey \in S} IN
  /\ issues' = Over([r \in waiting |-> Resolved(issues[r])], issues)
  /\ tx' = Told(tx, waiting, {})

UpdateBoard(J) ==
  LET found == sprints \cup Boarded(J) \cup Gap(J) IN
  /\ jobs' = jobs \ {J}
  /\ sprints' = found
  /\ UpdateIssueForSprints(Keys(J) \cap found)
  /\ UNCHANGED <<server, nextRow, opened, changes, excused, lost>>

(* The buttons "Load Sprints" (a board of known id) and "Update Sprints"   *)
LoadSprints ==
  /\ Changes
  /\ sprints' = Sprint /\ sprints # Sprint
  /\ UNCHANGED <<server, issues, nextRow, jobs, tx, opened, excused, lost>>

UpdateSprints ==
  /\ Changes
  /\ \E r \in DOMAIN issues : issues[r].sprintKey \in sprints
  /\ UpdateIssueForSprints(sprints)
  /\ UNCHANGED <<server, nextRow, sprints, jobs, opened, excused, lost>>
-----------------------------------------------------------------------------
(* Clones of issues of the other server.  A rule or template gives each an *)
(* epic and a sprint of this one, which are on the server.                 *)
Epics == {r \in DOMAIN issues : issues[r].key \in EpicKeys}

NotCloned(S) == S \ {issues[r].src : r \in DOMAIN issues}

OpenClone(t, S, autoExport) ==
  LET C     == NotCloned(S)
      order == SetToSeq(C)
      rows  == nextRow..(nextRow + Cardinality(C) - 1)
  IN
  /\ C # {} /\ nextRow + Cardinality(C) <= MaxRows + 1
  /\ nextRow' = nextRow + Cardinality(C)
  /\ \E epic \in [rows -> {0} \cup Epics], sprint \in {0} \cup sprints :
       Open(t, Over([batch |-> rows,
                     new |-> [r \in rows |->
                       [Blank EXCEPT !.src = order[r - nextRow + 1],
                                     !.epic = epic[r], !.sprint = sprint]]],
                    Begun(IF autoExport THEN "exporting" ELSE "ready")))
  /\ UNCHANGED <<server, issues, sprints, jobs, changes, excused, lost>>

(* Mutant of Exportable: what was exported is exported again.              *)
ExportableAgain == {r \in DOMAIN issues : issues[r].src # None}

Exportable == {r \in DOMAIN issues : issues[r].key = 0}

OpenExport(t, R) ==
  /\ R # {} /\ R \subseteq Exportable
  /\ Open(t, Over([batch |-> R], Begun("exporting")))
  /\ UNCHANGED <<server, issues, nextRow, sprints, jobs, changes, excused, lost>>

(* POST issue/bulk: when it returns all the issues, their keys are taken   *)
(* in the order of the batch.                                              *)
Post(t) ==
  LET x == tx[t] IN
  /\ x.at = "exporting"
  /\ \E C \in SUBSET x.batch :
       LET key   == Numbered(C, Len(server) + 1)
           row   == [i \in 1..Cardinality(C) |->
                       CHOOSE r \in C : key[r] = Len(server) + i]
           keyed == [r \in C |-> [View(x)[r] EXCEPT !.key = key[r]]]
           at    == IF C = x.batch THEN "linking" ELSE "failed"
       IN
       /\ Len(server) + Len(row) <= MaxKeys
       /\ server' = server \o [i \in DOMAIN row |->
            [assignee |-> View(x)[row[i]].assignee, parent |-> 0, sprint |-> 0,
             origin |-> row[i]]]
       /\ tx' = [tx EXCEPT ![t] =
            [x EXCEPT !.at = at,
                      !.posted = {key[r] : r \in C},
                      !.new = Over([r \in C \cap DOMAIN @ |-> keyed[r]], @),
                      !.writes = [r \in C \ DOMAIN x.new |-> keyed[r]]]]
  /\ UNCHANGED <<issues, nextRow, sprints, jobs, opened, changes, excused, lost>>

Lasts(S) == IF S \subseteq {0} THEN {0} ELSE S \ {0}

(* The epics and sprints of the batch: the requests are made up in a loop  *)
(* and sent after it, so only the last one is.                             *)
Link(t) ==
  LET x == tx[t]
      rowOf(k) == View(x)[server[k].origin]
  IN
  /\ x.at = "linking"
  /\ \E epic \in Lasts({View(x)[r].epic : r \in x.batch}),
        sprint \in Lasts({View(x)[r].sprint : r \in x.batch}) :
       server' = [k \in DOMAIN server |->
         IF k \in x.posted
         THEN [server[k] EXCEPT
                !.parent = IF epic # 0 /\ rowOf(k).epic = epic
                           THEN View(x)[epic].key ELSE @,
                !.sprint = IF rowOf(k).sprint = sprint THEN sprint ELSE @]
         ELSE server[k]]
  /\ tx' = [tx EXCEPT ![t].at = "ready"]
  /\ UNCHANGED <<issues, nextRow, sprints, jobs, opened, changes, excused, lost>>
-----------------------------------------------------------------------------
(* Users of the server.                                                    *)
CreateOnServer ==
  /\ Changes
  /\ Len(server) < MaxKeys
  /\ \E assignee \in Assignee, parent \in {0} \cup DOMAIN server :
       /\ parent # 0 => server[parent].parent = 0
       /\ server' = Append(server, [assignee |-> assignee, parent |-> parent,
                                    sprint |-> 0, origin |-> 0])
  /\ UNCHANGED <<issues, nextRow, sprints, jobs, tx, opened, excused, lost>>

ChangeOnServer ==
  /\ Changes
  /\ \E k \in DOMAIN server :
       \/ \E a \in Assignee :
            a # server[k].assignee /\ server' = [server EXCEPT ![k].assignee = a]
       \/ \E s \in Sprint \cup {0} :
            s # server[k].sprint /\ server' = [server EXCEPT ![k].sprint = s]
       \/ \E p \in {0} \cup DOMAIN server :
            /\ p \notin {k, server[k].parent}
            /\ p # 0 => server[p].parent = 0
                        /\ \A j \in DOMAIN server : server[j].parent # k
            /\ server' = [server EXCEPT ![k].parent = p]
  /\ UNCHANGED <<issues, nextRow, sprints, jobs, tx, opened, excused, lost>>

Next ==
  \/ \E t \in Transactions :
       \/ Commit(t) \/ Rollback(t) \/ Page(t)
       \/ Post(t) \/ Link(t)
       \/ \E kind \in {"project", "all", "mine", "one"}, asc, typed \in BOOLEAN,
             target \in {0} \cup DOMAIN server :
            OpenImport(t, kind, asc, target, typed)
       \/ \E S \in SUBSET Source, autoExport \in BOOLEAN :
            OpenClone(t, S, autoExport)
       \/ \E R \in SUBSET DOMAIN issues : OpenExport(t, R)
  \/ \E J \in jobs : UpdateBoard(J)
  \/ LoadSprints \/ UpdateSprints
  \/ CreateOnServer \/ ChangeOnServer

Spec == Init /\ [][Next]_vars
-----------------------------------------------------------------------------
TypeOK ==
  /\ server \in Seq(ServerIssue) /\ Len(server) <= MaxKeys
  /\ DOMAIN issues \subseteq 1..(nextRow - 1) /\ nextRow <= MaxRows + 1
  /\ \A r \in DOMAIN issues : issues[r] \in Issue
  /\ sprints \subseteq Sprint
  /\ \A J \in jobs : J \subseteq DOMAIN issues
  /\ opened \in 0..MaxOpened /\ changes \in 0..MaxChanges

Copies(f, n) == {r \in DOMAIN f : n \in Names(f[r])}

(* One row for each issue of the server, and one clone for each issue of   *)
(* the other: second copies come from overlapping transactions, from rows  *)
(* the domain of an import hides, from a listing that changed between its  *)
(* pages, and from an epic listed on a page before that of its child.      *)
CopiesExplained ==
  /\ TypeOK
  /\ \A n \in Name : Cardinality(Copies(issues, n)) <= 1 + excused[n]

Quiet(x) ==
  /\ Importing(x) /\ x.raced = {} /\ x.hidden = {} /\ x.split = {}
  /\ x.start >= x.total /\ ~x.moved /\ x.base = server

(* An import with none of these causes, of a server that does not change   *)
(* meanwhile, leaves every issue it asked for with as many copies as       *)
(* before, or one, and a copy that has the fields the server has set.      *)
QuietImportExact ==
  [][\A t \in Transactions :
       Commit(t) /\ Quiet(tx[t]) =>
         \A k \in Matches(tx[t], server) :
           /\ Cardinality(Copies(issues', k)) =
                IF Copies(issues, k) = {} THEN 1
                ELSE Cardinality(Copies(issues, k))
           /\ \E r \in Copies(issues', k) :
                LET here == issues'[r] IN
                /\ server[k].assignee \in {"none", here.assignee}
                /\ server[k].parent # 0 =>
                     /\ here.epic # 0
                     /\ issues'[here.epic].key = server[k].parent
                /\ server[k].sprint \in {0, here.sprint, here.sprintKey}
    ]_vars

(* An issue is in the sprint its last import saw, or waits for it; unless  *)
(* the import found a known sprint while the key of another one waited:    *)
(* the key stays, and the job for it moves the issue back.                 *)
SprintExplained ==
  \A r \in DOMAIN issues :
    issues[r].last # 0 /\ ~issues[r].wavered =>
      issues[r].last \in {issues[r].sprint, issues[r].sprintKey}

InFlight == UNION {IF tx[t] = Idle THEN {} ELSE tx[t].posted :
                   t \in Transactions}

(* What was posted for a row is the issue it is tied to, belongs to a      *)
(* transaction that goes on, or was lost with one that was rolled back.    *)
ExportsAccounted ==
  \A r \in Row :
    LET key == IF r \in DOMAIN issues THEN issues[r].key ELSE 0 IN
    /\ key # 0 /\ issues[r].src # None => server[key].origin = r
    /\ lost[r] = Cardinality({k \in DOMAIN server :
                   server[k].origin = r /\ k \notin {key} \cup InFlight})
=============================================================================
