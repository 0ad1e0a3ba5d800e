------------------------------ MODULE LogExport ------------------------------
(***************************************************************************)
(* Sending time logs to Jira (wt_migration/models/wt_overall.py,           *)
(* wt_migration.py, wt_issue.py) beside the import that brings work logs   *)
(* back.  A time log here and its work log there are tied by id_on_wt.     *)
(*                                                                         *)
(* The requests to Jira are sent in the middle of a transaction: what they *)
(* did stays when it is rolled back.  A user's transaction or an import is *)
(* `open` while others are served at once; its commit is refused if one of *)
(* these wrote a row that it has written.                                  *)
(*                                                                         *)
(* What a log says (start, duration, description) is one value, its text.  *)
(* An import reads the duration anew from how Jira writes it, and rounds it*)
(* up for those who have that set; what it captures is what the server has.*)
(***************************************************************************)
EXTENDS Integers, Sequences, FiniteSets

CONSTANTS Issue, Text, None,
          Rounded,                       (* what reading and rounding make *)
                                         (* of a text                      *)
          Gone,                          (* what was deleted               *)
          Nesting,                       (* how deep write() gets inside   *)
                                         (* itself before Python stops it  *)
          MaxLogs, MaxPosts, MaxSteps    (* bounds                         *)

ASSUME ExportAssumption ==
  /\ None \notin Text /\ None \notin Issue /\ Gone # None
  /\ Rounded \in [Text -> Text]
  /\ {Nesting, MaxLogs, MaxPosts} \subseteq Nat \ {0}
  /\ MaxSteps \in Nat

Row == 1..MaxLogs

Mark == {"none", "exported", "changed"}     (* export_state 0, 1, above 1  *)

(* Histories.  sent: what was last sent to the work log, or imported of it;*)
(* late: a PUT was to bring the work log up to date and failed;            *)
(* behind: auto export sent what the log said before the write; adrift: the*)
(* log was moved while it was not marked.                                  *)
Log == [state : {"progress", "done"}, issue : Issue, text : Text,
        id : Nat, mark : Mark, captured : Text \cup {None},
        sent : Text \cup {None},
        late : BOOLEAN, behind : BOOLEAN, adrift : BOOLEAN]

WorkLog == [issue : Issue, text : Text, new : BOOLEAN, foreign : BOOLEAN, origin : Row]

(* A transaction that others overlap with: the rows it wrote, those others *)
(* wrote since, what it will write, and the work logs it posted.  One of an*)
(* import has the rows and the work logs it began with.                    *)
Transient ==
  [kind : {"user", "import"}, wrote : SUBSET Row, touched : SUBSET Row,
   logs : [Row -> Log \cup {None, Gone}], kept : SUBSET Nat, posted : SUBSET Nat]

ASSUME RowAssumption ==
  None \notin Log \cup Transient /\ Gone \notin Log \cup WorkLog

VARIABLES auto,      (* both auto_export_work_log, of employee and server  *)
          logs,      (* wt.time.log: a row, None or Gone                   *)
          jira,      (* the server's work logs, in order of their ids; new *)
                     (* are those changed since they were imported, foreign*)
                     (* (history) those changed since by people there, or  *)
                     (* by transactions that overlap or are rolled back;   *)
                     (* origin (history) is the log they were posted for   *)
          open,      (* the transaction others overlap with, or None       *)
          steps,     (* how many requests of users, failures, overlaps and *)
                     (* changes on the server there were                   *)
          stray,     (* history: posted by a call whose answer was dropped *)
          raced,     (* history: imported although an open transaction had *)
                     (* posted it, or posted while an import was open      *)
          kept       (* history: work logs whose DELETE failed             *)

vars == <<auto, logs, jira, open, steps, stray, raced, kept>>

Init ==
  /\ auto \in BOOLEAN
  /\ logs = [k \in Row |-> None]
  /\ jira = <<>>
  /\ open = None
  /\ steps = 0
  /\ stray = {} /\ raced = {} /\ kept = {}
-----------------------------------------------------------------------------
(* What a transaction sees and does is a record of the rows, the server    *)
(* and the histories its requests add to.  `ok` is FALSE after an          *)
(* exception, `bad` counts the server's failures.                          *)

Now == [logs |-> logs, jira |-> jira, stray |-> {}, kept |-> {},
        ok |-> TRUE, bad |-> 0]

Put(x, k, l) == [x EXCEPT !.logs[k] = l]

(* An exception is answered or dropped, and what was done is committed.    *)
Swallowed(x) == [x EXCEPT !.ok = TRUE]

Rows(L) == {k \in Row : L[k] \notin {None, Gone}}

OfIssue(L, i) == {k \in Rows(L) : L[k].issue = i}

(* The request for the work log of this log would find it: the path names  *)
(* the issue, too.                                                         *)
Reachable(x, k) ==
  /\ x.logs[k].id # 0
  /\ x.jira[x.logs[k].id] # Gone
  /\ x.jira[x.logs[k].id].issue = x.logs[k].issue

Posting(L, k) ==
  [issue |-> L[k].issue, text |-> L[k].text, new |-> TRUE, foreign |-> FALSE,
   origin |-> k]

(* The place of a log among those that are posted, from 0.                 *)
Place(P, k) == Cardinality({m \in P : m < k})

Linked(l, s, marked) ==
  [l EXCEPT !.id = s, !.mark = IF marked THEN "exported" ELSE @,
            !.sent = l.text, !.behind = FALSE]

(* add_time_logs(K), of which the logs in P are posted.  With auto export  *)
(* on, the assignment of id_on_wt is a write() that exports the log, which *)
(* has no id yet, once more: n work logs are posted, and the first id is   *)
(* assigned last.                                                          *)
Added(x, K, P, n) ==
  LET first(k) == Len(x.jira) + n * Place(P, k) + 1
      post == [i \in 1..(n * Cardinality(P)) |->
                Posting(x.logs, CHOOSE k \in P : Place(P, k) = (i - 1) \div n)]
  IN  [x EXCEPT
        !.jira = @ \o post,
        !.logs = [k \in Row |-> IF k \in P THEN Linked(@[k], first(k), P = K \/ n > 1)
                                 ELSE @[k]],
        !.stray = @ \cup {s \in (Len(x.jira) + 1)..(Len(x.jira) + Len(post)) :
                           \A k \in P : s # first(k)},
        !.ok = P = K,
        !.bad = @ + IF P = K THEN 0 ELSE 1]

Nested == IF auto THEN 1..Nesting ELSE {1}

AddTimeLogs(x, K) ==
  IF K = {} THEN {x}
  ELSE {Added(x, K, P, n) : P \in SUBSET K, n \in Nested}

Told(w, t) == [w EXCEPT !.new = TRUE, !.text = t]

Marked(l, late) ==
  [l EXCEPT !.mark = "exported", !.late = late, !.behind = @ /\ late,
            !.sent = IF late THEN @ ELSE l.text]

(* update_time_logs(K), of which O are updated: an error is ignored, and   *)
(* all are marked.                                                         *)
Updated(x, K, O) ==
  [x EXCEPT
    !.jira = [s \in DOMAIN @ |->
      IF \E k \in O : x.logs[k].id = s
      THEN Told(@[s], x.logs[CHOOSE k \in O : x.logs[k].id = s].text) ELSE @[s]],
    !.logs = [k \in Row |-> IF k \in K THEN Marked(@[k], k \notin O) ELSE @[k]],
    !.bad = @ + Cardinality({k \in K \ O : Reachable(x, k)})]

UpdateTimeLogs(x, K) ==
  {Updated(x, K, O) : O \in SUBSET {k \in K : Reachable(x, k)}}

(* Mutant of Unexported: what has an id is posted again.                   *)
UnexportedOrNot(x, K) == {k \in K : x.logs[k].state = "done"}

Unexported(x, K) == {k \in K : x.logs[k].id = 0 /\ x.logs[k].state = "done"}

OnceExported(x, K) == {k \in K : x.logs[k].id # 0 /\ x.logs[k].state = "done"}

(* Additions, then updates of what was exported before; a raise ends it.   *)
Export(x, K, old) ==
  UNION {IF y.ok THEN UpdateTimeLogs(y, old) ELSE {y} :
         y \in AddTimeLogs(x, Unexported(x, K))}

(* export_specific_log                                                     *)
ExportSpecific(x, K) == Export(x, K, OnceExported(x, K))

(* export_time_log.  Which logs were written since last_export, a user's   *)
(* pivot time, is left open.                                               *)
ExportTimeLog(x, i) ==
  LET K == OfIssue(x.logs, i)
  IN  UNION {Export(x, K, old) : old \in SUBSET OnceExported(x, K)}
-----------------------------------------------------------------------------
(* What users do: each is the set of ways the transaction may go.          *)

NewLog(state, i, t) ==
  [state |-> state, issue |-> i, text |-> t, id |-> 0, mark |-> "none",
   captured |-> None, sent |-> None, late |-> FALSE, behind |-> FALSE, adrift |-> FALSE]

(* A row that neither a log nor the open transaction has taken.            *)
Unused == {k \in Row : logs[k] = None /\ (open = None \/ k \notin open.wrote)}

FreeRow == CHOOSE k \in Unused : \A m \in Unused : k <= m

(* Mutant of Restated: the mark is not judged anew.                        *)
NotRestated(l, t) == l.mark

(* _get_export_state, for a log that was exported.                         *)
Restated(l, t) ==
  IF l.mark = "none" THEN "none"
  ELSE IF l.captured = t THEN "exported" ELSE "changed"

Says(x, k, t, mark) ==
  Swallowed(Put(x, k, [x.logs[k] EXCEPT !.text = t, !.mark = mark]))

(* What auto export has not sent.                                          *)
SaysUnsent(x, k, t) ==
  Says(Put(x, k, [x.logs[k] EXCEPT !.behind = @ \/ x.logs[k].text # t]), k, t, "exported")

(* write() of what a log says.  With auto export on, the log is exported   *)
(* before it is written.                                                   *)
Write(x, k, t) ==
  IF ~auto THEN {Says(x, k, t, Restated(x.logs[k], t))}
  ELSE {IF y.ok THEN SaysUnsent(y, k, t)
        ELSE Says(y, k, t, Restated(y.logs[k], t)) : y \in ExportSpecific(x, {k})}

Deleted(x, s) == [x EXCEPT !.jira[s] = Gone]

(* Mutant of MoveMarked: the work log is left behind.                      *)
MoveWithout(x, k, i) == {[x EXCEPT !.logs[k].issue = i]}

(* write() of issue_id, for a marked log: the work log is deleted, or the  *)
(* request raises, and the columns are reset behind the back of the ORM,   *)
(* which may write the mark again.                                         *)
MoveMarked(x, k, i) ==
  IF ~Reachable(x, k) THEN {}
  ELSE {Deleted(Put(x, k, [NewLog(x.logs[k].state, i, x.logs[k].text) EXCEPT !.mark = mark]),
                x.logs[k].id) :
        mark \in IF auto THEN {"none", "exported"} ELSE {"none"}}

(* For one that is not marked: auto export sends it to the issue it leaves.*)
MoveUnmarked(x, k, i) ==
  {Swallowed(Put(y, k, [y.logs[k] EXCEPT !.issue = i, !.adrift = @ \/ y.logs[k].id # 0,
                                         !.mark = IF auto /\ y.ok THEN "exported" ELSE @])) :
   y \in IF auto THEN ExportSpecific(x, {k}) ELSE {x}}

Move(x, k, i) ==
  IF x.logs[k].mark = "none" THEN MoveUnmarked(x, k, i) ELSE MoveMarked(x, k, i)

Capture(l, mark) == [l EXCEPT !.captured = l.text, !.mark = mark]

(* force_export first captures what the logs say.  These are writes: with  *)
(* auto export on each exports the log, else they judge the mark anew,     *)
(* field by field, so that the last may find the log changed or not.       *)
Captured(x, K, judged) ==
  LET mark(l) ==
        IF auto /\ l.id # 0 THEN "exported"
        ELSE IF l.mark = "none" THEN "none"
        ELSE IF l.captured = l.text THEN "exported" ELSE judged
  IN  [x EXCEPT !.ok = TRUE,
                !.logs = [k \in Row |-> IF k \in K THEN Capture(@[k], mark(@[k])) ELSE @[k]]]

ByWrites(x, K) ==
  IF ~auto THEN {x}
  ELSE UNION {UpdateTimeLogs(y, OnceExported(x, K)) :
              y \in AddTimeLogs(x, Unexported(x, K))}

(* Then it exports them.  The route answers an exception and commits.      *)
ForceExport(x, K) ==
  {Swallowed(z) : z \in UNION {ExportSpecific(Captured(y, K, judged), K) :
                              y \in ByWrites(x, K), judged \in {"exported", "changed"}}}

(* action_done_work_log: the state is written before the description, so   *)
(* that auto export sends the log before it says t; export_time_log_to_wt  *)
(* then exports the issue.  Exceptions are dropped.                        *)
Done(x, k, t) ==
  LET z == Put(x, k, [x.logs[k] EXCEPT !.state = "done"])
      Ended(y) == IF y.ok THEN SaysUnsent(y, k, t) ELSE Says(y, k, t, "changed")
  IN  IF ~auto THEN {Says(z, k, t, Restated(z.logs[k], t))}
      ELSE {Swallowed(v) :
            v \in UNION {ExportTimeLog(Ended(y), x.logs[k].issue) :
                         y \in ExportSpecific(z, {k})}}

(* action_manual_work_log: here, too.                                      *)
Manual(x, k, i, t) ==
  LET z == Put(x, k, NewLog("done", i, t))
  IN  IF auto THEN {Swallowed(y) : y \in AddTimeLogs(z, {k})} ELSE {z}

(* Mutant of Unlink: the server is not asked.                              *)
UnlinkHere(x, k) == {Put(x, k, Gone)}

(* unlink: the work log is deleted if the request gets through.            *)
Unlink(x, k) ==
  LET s == x.logs[k].id
      z == Put(x, k, Gone)
      failed == [z EXCEPT !.kept = @ \cup {s},
                           !.bad = @ + IF Reachable(x, k) THEN 1 ELSE 0]
  IN  IF s = 0 THEN {z}
      ELSE IF Reachable(x, k) THEN {Deleted(z, s), failed} ELSE {failed}

-----------------------------------------------------------------------------
(* Transactions.                                                           *)

Posted(x) == (Len(jira) + 1)..Len(x.jira)

Bounded(x) == Len(x.jira) <= MaxPosts /\ steps + 1 + x.bad <= MaxSteps

(* What a transaction told the server may be overtaken, or not remembered. *)
Overlapped(x) ==
  [s \in DOMAIN x.jira |->
    IF s \in DOMAIN jira /\ x.jira[s] \notin {jira[s], Gone}
    THEN [x.jira[s] EXCEPT !.foreign = TRUE] ELSE x.jira[s]]

(* What was posted and is not remembered.                                  *)
RolledBack(x) ==
  /\ jira' = Overlapped(x)
  /\ stray' = stray \cup Posted(x)
  /\ steps' = steps + 1 + x.bad
  /\ UNCHANGED <<auto, logs, open, raced, kept>>

(* The open transaction has the rows K of others to reckon with.           *)
Touch(K) ==
  open' = IF open = None THEN None ELSE [open EXCEPT !.touched = @ \cup K]

Committed(x) ==
  /\ logs' = x.logs
  /\ jira' = IF open = None THEN x.jira ELSE Overlapped(x)
  /\ Touch({k \in Row : x.logs[k] # logs[k]})
  /\ stray' = stray \cup x.stray
  /\ kept' = kept \cup x.kept
  /\ steps' = steps + 1 + x.bad
  /\ UNCHANGED <<auto, raced>>

(* Its requests are answered, but others come before its commit.           *)
Opened(x) ==
  /\ open = None /\ x.ok /\ x.logs # logs
  /\ steps' = steps + x.bad + 2 /\ steps' <= MaxSteps
  /\ LET wrote == {k \in Row : x.logs[k] # logs[k]}
     IN  open' = [kind |-> "user", wrote |-> wrote, touched |-> {},
                  logs |-> [k \in Row |-> IF k \in wrote THEN x.logs[k] ELSE None],
                  kept |-> x.kept, posted |-> Posted(x)]
  /\ jira' = Overlapped(x)
  /\ stray' = stray \cup x.stray
  /\ UNCHANGED <<auto, logs, raced, kept>>

Transaction(X) ==
  /\ steps < MaxSteps
  /\ \E x \in X : /\ Bounded(x)
                  /\ IF x.ok THEN Committed(x) \/ Opened(x) ELSE RolledBack(x)

Conflict == open.wrote \cap open.touched # {}

Commit ==
  /\ open # None /\ open.kind = "user" /\ ~Conflict
  /\ logs' = [k \in Row |-> IF k \in open.wrote THEN open.logs[k] ELSE logs[k]]
  /\ kept' = kept \cup open.kept
  /\ open' = None
  /\ UNCHANGED <<auto, jira, steps, stray, raced>>

(* A conflict, here or on a row of the issue, or the end of the process.   *)
Rollback ==
  /\ open # None /\ open.kind = "user"
  /\ stray' = stray \cup open.posted
  /\ open' = None
  /\ UNCHANGED <<auto, logs, jira, steps, raced, kept>>
-----------------------------------------------------------------------------
(* Users.                                                                  *)

(* generate_progress_work_log, of which WorkLogs.tla tells the rest.       *)
Start(i, t) ==
  /\ Unused # {}
  /\ Transaction({Put(Now, FreeRow, NewLog("progress", i, t))})

EnterManually(i, t) == Unused # {} /\ Transaction(Manual(Now, FreeRow, i, t))

End(k, t) ==
  /\ logs[k].state = "progress"
  /\ Transaction(Done(Now, k, t))

Edit(k, t) == logs[k].text # t /\ Transaction(Write(Now, k, t))

MoveTo(k, i) == logs[k].issue # i /\ Transaction(Move(Now, k, i))

Delete(k) == Transaction(Unlink(Now, k))

ForceLogs(K) ==
  /\ \A k \in K : logs[k].state = "done"
  /\ Transaction(ForceExport(Now, K))

ExportIssue(i) ==
  /\ OfIssue(logs, i) # {}
  /\ Transaction(ExportTimeLog(Now, i))
-----------------------------------------------------------------------------
(* The server, where people change work logs, too.                         *)

EditOnServer(s, t) ==
  /\ steps < MaxSteps
  /\ steps' = steps + 1
  /\ jira[s] # Gone /\ jira[s].text # t
  /\ jira' = [jira EXCEPT ![s].text = t, ![s].new = TRUE, ![s].foreign = TRUE]
  /\ UNCHANGED <<auto, logs, open, stray, raced, kept>>

DeleteOnServer(s) ==
  /\ steps < MaxSteps
  /\ steps' = steps + 1
  /\ jira[s] # Gone
  /\ jira' = [jira EXCEPT ![s] = Gone]
  /\ UNCHANGED <<auto, logs, open, stray, raced, kept>>

(* The import, of one work log.  Its windows are the matter of JiraFetch.  *)

Holders(L, s) == {k \in Rows(L) : L[k].id = s}

(* prepare_worklog_data: the row says t.                                   *)
FromServer(s, t) ==
  [state |-> "done", issue |-> jira[s].issue, text |-> t, id |-> s,
   mark |-> "exported", captured |-> jira[s].text, sent |-> jira[s].text,
   late |-> FALSE, behind |-> FALSE, adrift |-> FALSE]

(* rounding: what an import may make of what the server has.               *)
Readings(s) == {jira[s].text, Rounded[jira[s].text]}

Read(s) == jira' = [jira EXCEPT ![s].new = FALSE, ![s].foreign = FALSE]

(* Mutant of Imported: dict_log is not looked up.                          *)
ImportedAnew(L, s, k) ==
  /\ jira[s] # Gone /\ jira[s].new
  /\ Unused # {} /\ k = FreeRow
  /\ \E t \in Readings(s) : logs' = [logs EXCEPT ![k] = FromServer(s, t)]
  /\ Read(s)

(* mapping_worklog with the logs of a snapshot: a new row k, or a write.  To*)
(* write another issue to a marked log is to have its work log deleted     *)
(* there, which the server refuses.                                        *)
Imported(L, s, k) ==
  /\ jira[s] # Gone /\ jira[s].new
  /\ \/ Holders(L, s) = {} /\ Unused # {} /\ k = FreeRow
     \/ /\ k \in Holders(L, s)
        /\ L[k].issue = jira[s].issue \/ L[k].mark = "none"
  /\ \E t \in Readings(s) : logs' = [logs EXCEPT ![k] = FromServer(s, t)]
  /\ Read(s)

Import(s) ==
  /\ open # None => open.kind = "user"
  /\ \E k \in Row : Imported(logs, s, k) /\ Touch({k})
  /\ raced' = raced \cup IF open # None /\ s \in open.posted THEN {s} ELSE {}
  /\ UNCHANGED <<auto, steps, stray, kept>>

OpenImport ==
  /\ steps < MaxSteps
  /\ steps' = steps + 1
  /\ open = None /\ \E s \in DOMAIN jira : jira[s] # Gone /\ jira[s].new
  /\ open' = [kind |-> "import", wrote |-> {}, touched |-> {}, logs |-> logs,
              kept |-> {}, posted |-> DOMAIN jira]
  /\ UNCHANGED <<auto, logs, jira, stray, raced, kept>>

FinishImport(s) ==
  /\ open # None /\ open.kind = "import"
  /\ \E k \in Row \ open.touched : Imported(open.logs, s, k)
  /\ raced' = raced \cup IF s \notin open.posted THEN {s} ELSE {}
  /\ open' = None
  /\ UNCHANGED <<auto, steps, stray, kept>>

(* delete_work_logs_by_unix: unlink asks for what is done already, and     *)
(* ignores the answer.                                                     *)
ImportDeletion(s) ==
  /\ jira[s] = Gone /\ Holders(logs, s) # {}
  /\ logs' = [k \in Row |-> IF k \in Holders(logs, s)
                            THEN Gone ELSE logs[k]]
  /\ Touch(Holders(logs, s))
  /\ UNCHANGED <<auto, jira, steps, stray, raced, kept>>

Next ==
  \/ \E i \in Issue, t \in Text : Start(i, t) \/ EnterManually(i, t)
  \/ \E k \in Rows(logs) :
       \/ \E t \in Text : End(k, t) \/ Edit(k, t)
       \/ \E i \in Issue : MoveTo(k, i)
       \/ Delete(k)
  \/ \E i \in Issue :
       \/ \E K \in (SUBSET OfIssue(logs, i)) \ {{}} : ForceLogs(K)
       \/ ExportIssue(i)
  \/ Commit \/ Rollback
  \/ \E s \in DOMAIN jira :
       \/ \E t \in Text : EditOnServer(s, t)
       \/ DeleteOnServer(s)
       \/ Import(s) \/ FinishImport(s) \/ ImportDeletion(s)
  \/ OpenImport

Spec == Init /\ [][Next]_vars
-----------------------------------------------------------------------------
TypeOK ==
  /\ auto \in BOOLEAN
  /\ logs \in [Row -> Log \cup {None, Gone}]
  /\ \A k \in Rows(logs) : logs[k].id \in {0} \cup DOMAIN jira
  /\ jira \in Seq(WorkLog \cup {Gone}) /\ Len(jira) <= MaxPosts
  /\ open \in Transient \cup {None}
  /\ steps \in 0..MaxSteps
  /\ stray \cup raced \cup kept \subseteq DOMAIN jira

(* The work logs a transaction that goes on has posted.                    *)
Pending == IF open # None /\ open.kind = "user" THEN open.posted ELSE {}

(* Nothing the server has is unknown here: it is held by a log, or will be *)
(* imported.  But for what unlink failed to delete.                        *)
Accounted ==
  /\ TypeOK
  /\ \A s \in DOMAIN jira :
       jira[s] # Gone =>
         jira[s].new \/ Holders(logs, s) # {} \/ s \in kept

(* A log is on the server once: work logs that were posted for it and that *)
(* it does not hold come from a transaction rolled back after its request, *)
(* or from exports nested in the assignment of id_on_wt.                   *)
CountedOnce ==
  \A k \in Rows(logs) : \A s \in DOMAIN jira :
    jira[s] # Gone /\ jira[s].origin = k =>
      logs[k].id = s \/ s \in stray \cup Pending

(* A work log is held by one log, unless the import did not see that it    *)
(* was posted for one.                                                     *)
HeldOnce ==
  \A s \in DOMAIN jira : Cardinality(Holders(logs, s)) > 1 => s \in raced

(* A log and its work log belong to the same issue, unless the log was     *)
(* moved without a mark: by auto export, which had just posted it, or after*)
(* a failure between the post and the mark.                                *)
SameIssue ==
  \A k \in Rows(logs) :
    logs[k].id # 0 /\ jira[logs[k].id] # Gone /\ ~logs[k].adrift =>
      jira[logs[k].id].issue = logs[k].issue

(* "Exported" is true: the work log says what the log says, unless it was  *)
(* changed there since; or an import has rounded what it says; or what was *)
(* captured is not what was sent last, and the log says it again.  But for *)
(* logs whose last export failed, or sent what they said before a write, or*)
(* was imported before it was committed.                                   *)
MarkTruthful ==
  \A k \in Rows(logs) :
    LET l == logs[k]  w == jira[l.id] IN
    /\ l.state = "done" /\ l.id # 0 /\ l.mark = "exported"
    /\ ~l.late /\ ~l.behind /\ w # Gone /\ l.id \notin raced
    => \/ w.text = l.text
       \/ w.foreign /\ w.text # l.sent
       \/ l.captured = w.text /\ l.text = Rounded[w.text]
       \/ l.captured # l.sent /\ l.captured = l.text
=============================================================================
