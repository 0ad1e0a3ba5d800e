------------------------------ MODULE JiraFetch ------------------------------
(***************************************************************************)
(* Keeping the time logs up to date with the work logs of a Jira server    *)
(* (wt_migration/models/wt_project.py, wt_migration.py).  A cron creates   *)
(* queue jobs, each for what changed on the server `since` the run before, *)
(* and moves latest_unix on at once.  The job that loads work logs takes   *)
(* only those of issues that were written since then: it counts on the job *)
(* that updates issues to have run first.                                  *)
(*                                                                         *)
(* The channel has a capacity of one (JobRunner.tla), so that no two jobs  *)
(* overlap.  A job that raises is rolled back and stays failed until a     *)
(* user requeues it.  Of a work log only the time of its last change       *)
(* counts: it stands for its content too.                                  *)
(***************************************************************************)
EXTENDS Integers, FiniteSets, Sequences, SequencesExt

CONSTANTS WorkLog, Issue, Project,
          IssueOf, ProjectOf,          (* of a work log, of an issue       *)
          MaxTime, MaxFaults, MaxCopies    (* bounds                       *)

ASSUME FetchAssumption ==
  /\ IssueOf \in [WorkLog -> Issue]
  /\ ProjectOf \in [Issue -> Project] /\ IsFiniteSet(Project)
  /\ {MaxTime, MaxFaults, MaxCopies} \subseteq Nat

VARIABLES now,
          at,        (* server: last change of a work log, 0 for none      *)
          gone,      (* server: when it was deleted, 0 if not              *)
          stamp,     (* write_date of an issue here, 0 for no such issue   *)
          local,     (* the time logs with this id_on_wt, each as the time *)
                     (* of the change it holds                             *)
          fetched,   (* the projects that have a last_update               *)
          latest,    (* latest_unix                                        *)
          jobs,      (* not done, in order of creation                     *)
          faults,
          missed,    (* history: changes that were loaded while the job    *)
                     (* for their issues had not succeeded                 *)
          skipped,   (* history: changes latest_unix has moved past        *)
          dropped,   (* history: changes left out by a job that gave up    *)
          reloads    (* history: how often load_missing found work logs of *)
                     (* a project that were here already                   *)

server == <<at, gone>>
hist == <<missed, skipped, dropped, reloads>>
vars == <<now, at, gone, stamp, local, fetched, latest, jobs, faults,
          missed, skipped, dropped, reloads>>

Job == [kind : {"_update_project", "load_missing", "update_projects",
                "delete_work_logs", "load_work_logs"},
        since : Nat, projects : SUBSET Project,
        state : {"pending", "postponed", "failed"}]

Init ==
  /\ now = 1 /\ latest = 1
  /\ at = [w \in WorkLog |-> 0] /\ gone = [w \in WorkLog |-> 0]
  /\ stamp = [i \in Issue |-> 0]
  /\ local = [w \in WorkLog |-> <<>>]
  /\ fetched = {}
  /\ jobs = <<>>
  /\ faults = 0
  /\ missed = {} /\ skipped = {} /\ dropped = {}
  /\ reloads = [p \in Project |-> 0]
-----------------------------------------------------------------------------
(* The server.                                                             *)

OnServer(w) == at[w] # 0 /\ gone[w] = 0

(* `updated` of an issue: every change of its work logs counts.            *)
UpdatedSince(i, t) ==
  \/ t = 0
  \/ \E w \in WorkLog : IssueOf[w] = i /\ (at[w] >= t \/ gone[w] >= t)

(* A work log is added or edited.                                          *)
Change(w) ==
  /\ gone[w] = 0 /\ at[w] < now
  /\ at' = [at EXCEPT ![w] = now]
  /\ missed' = missed \ {w} /\ skipped' = skipped \ {w} /\ dropped' = dropped \ {w}
  /\ UNCHANGED <<now, gone, stamp, local, fetched, latest, jobs, faults, reloads>>

DeleteOnServer(w) ==
  /\ OnServer(w)
  /\ gone' = [gone EXCEPT ![w] = now]
  /\ missed' = missed \ {w} /\ skipped' = skipped \ {w} /\ dropped' = dropped \ {w}
  /\ UNCHANGED <<now, at, stamp, local, fetched, latest, jobs, faults, reloads>>
-----------------------------------------------------------------------------
(* The cron.                                                               *)

NewJob(kind, since, P) ==
  [kind |-> kind, since |-> since, projects |-> P, state |-> "pending"]

(* load_new_project: a job for the issues of each project, and one for     *)
(* their work logs.                                                        *)
JobsForNew(P) ==
  [n \in 1..Cardinality(P) |->
    NewJob("_update_project", 0, {SetToSeq(P)[n]})]
  \o IF P = {} THEN <<>> ELSE <<NewJob("load_missing", 0, P)>>

(* with_delay(), with_delay(eta=1), with_delay(eta=2).                     *)
JobsForKnown(P, since) ==
  IF P = {} THEN <<>>
  ELSE <<NewJob("update_projects", since, P),
         NewJob("delete_work_logs", since, P),
         NewJob("load_work_logs", since, P)>>

(* What latest_unix moves past.                                            *)
Passed(times) == {w \in WorkLog : times[w] \in latest..(now - 1)}

(* What no job is to load: the changes in projects of which no user has a  *)
(* token, for which cron_fetch_issue continues, and those since latest_unix*)
(* in projects it was not asked for.                                       *)
Unserved(chosen, served) ==
  {w \in WorkLog :
    LET p == ProjectOf[IssueOf[w]]
    IN  /\ p \notin served /\ p \in chosen \cup fetched
        /\ at[w] \in (IF p \in fetched THEN latest ELSE 1)..(now - 1)}

(* Mutant of Cron: the jobs look no further back than this run.            *)
CronFromCheckpoint(chosen) ==
  /\ latest < now
  /\ \E served \in SUBSET chosen :
       LET known == served \cap fetched
       IN  /\ faults' = faults + (IF served = Project THEN 0 ELSE 1)
           /\ faults' <= MaxFaults
           /\ jobs' = jobs \o JobsForNew(served \ fetched)
                          \o JobsForKnown(known, now)
           /\ skipped' = skipped \cup Unserved(chosen, served)
                                \cup IF known = {} THEN Passed(gone) ELSE {}
  /\ fetched' = fetched \cup chosen
  /\ latest' = now
  /\ UNCHANGED <<now, server, stamp, local, missed, dropped, reloads>>

(* cron_fetch_issue, once in a unit of time: for all projects by the cron, *)
(* for those a user selects, or for one that an import has found.  It      *)
(* serves those some user of which has a token, but last_update is written *)
(* to all that were chosen, and latest_unix is that of every project.      *)
(* Deletions are asked for only when one it serves is known already.       *)
Cron(chosen) ==
  /\ latest < now
  /\ \E served \in SUBSET chosen :
       LET known == served \cap fetched
       IN  /\ faults' = faults + (IF served = Project THEN 0 ELSE 1)
           /\ faults' <= MaxFaults
           /\ jobs' = jobs \o JobsForNew(served \ fetched)
                          \o JobsForKnown(known, latest)
           /\ skipped' = skipped \cup Unserved(chosen, served)
                                \cup IF known = {} THEN Passed(gone) ELSE {}
  /\ fetched' = fetched \cup chosen
  /\ latest' = now
  /\ UNCHANGED <<now, server, stamp, local, missed, dropped, reloads>>
-----------------------------------------------------------------------------
(* The jobs.                                                               *)

(* The jobs with an eta, of a second or two.                               *)
Delayed == {"load_missing", "delete_work_logs", "load_work_logs"}

(* They start in order of creation, but for those that were put off: a job *)
(* without an eta may pass one with.                                       *)
Runs(n, kind) ==
  /\ jobs[n].kind = kind
  /\ \/ jobs[n].state = "postponed"
     \/ /\ jobs[n].state = "pending"
        /\ \A m \in 1..(n - 1) :
             jobs[m].state = "pending" =>
               jobs[m].kind \in Delayed /\ kind \notin Delayed

Over(n) == jobs' = RemoveAt(jobs, n)

GivesUp == faults < MaxFaults /\ faults' = faults + 1

(* All of S is handled; or six answers in a row are neither a dict nor a   *)
(* list, the loop over the pages ends, and the job is done with a part.    *)
Handled(S, part) ==
  /\ part \subseteq S
  /\ (part = S /\ UNCHANGED faults) \/ GivesUp

(* do_request creates the issues it does not find, and sets write_date of  *)
(* the others.                                                             *)
Stamped(I) == stamp' = [i \in Issue |-> IF i \in I THEN now ELSE stamp[i]]

UpdateIssues(n) ==
  /\ Runs(n, "_update_project") \/ Runs(n, "update_projects")
  /\ LET t == jobs[n].since
         I == {i \in Issue : ProjectOf[i] \in jobs[n].projects /\ UpdatedSince(i, t)}
     IN  \E part \in SUBSET I :
           /\ Handled(I, part)
           /\ Stamped(part)
           /\ dropped' = dropped \cup
                {w \in WorkLog : OnServer(w) /\ at[w] >= t /\ IssueOf[w] \in I \ part}
  /\ Over(n)
  /\ UNCHANGED <<now, server, local, fetched, latest, missed, skipped, reloads>>

(* mapping_worklog: a work log that dict_log has is written to its time    *)
(* log (of two with one id_on_wt dict_log has either), another is created. *)
Mapped(W, Known) ==
  \E pick \in [W -> 1..MaxCopies] :
    /\ \A w \in W : w \in Known => pick[w] \in DOMAIN local[w]
    /\ local' = [w \in WorkLog |->
                  IF w \notin W THEN local[w]
                  ELSE IF w \in Known THEN [local[w] EXCEPT ![pick[w]] = at[w]]
                  ELSE Append(local[w], at[w])]

Here == {w \in WorkLog : local[w] # <<>>}

(* Mutant of KnownSince: dict_log is left empty, as in load_missing.       *)
KnownNone(t) == {}

(* dict_log: the time logs of the issues written since.                    *)
KnownSince(t) == {w \in Here : stamp[IssueOf[w]] >= t}

(* What the issues that belong to a job of this one are waiting for.       *)
Unfinished(kind, since, P) ==
  \E m \in DOMAIN jobs :
    /\ jobs[m].kind = kind /\ jobs[m].since = since
    /\ jobs[m].projects \cap P # {}

LoadWorkLogs(n) ==
  /\ Runs(n, "load_work_logs")
  /\ LET t  == jobs[n].since
         U  == {w \in WorkLog : OnServer(w) /\ at[w] >= t}
         W  == {w \in U : stamp[IssueOf[w]] # 0 /\ stamp[IssueOf[w]] >= t}
     IN  /\ \E part \in SUBSET W :
              /\ Handled(W, part)
              /\ Mapped(part, KnownSince(t))
              /\ dropped' = dropped \cup (W \ part)
         /\ missed' = IF Unfinished("update_projects", t, jobs[n].projects)
                      THEN missed \cup (U \ W) ELSE missed
  /\ Over(n)
  /\ UNCHANGED <<now, server, stamp, fetched, latest, skipped, reloads>>

(* load_missing_work_logs_by_unix(0): dict_log is empty.  Its query is     *)
(* malformed when the server has no work logs at all (FindNothing), unless *)
(* the job has given up before.                                            *)
LoadMissing(n) ==
  /\ Runs(n, "load_missing")
  /\ LET P == jobs[n].projects
         U == {w \in WorkLog : OnServer(w) /\ ProjectOf[IssueOf[w]] \in P}
         W == {w \in U : stamp[IssueOf[w]] # 0}
     IN  /\ \A w \in W : Len(local[w]) < MaxCopies
         /\ \E part \in SUBSET W :
              /\ Handled(W, part)
              /\ Mapped(part, {})
              /\ dropped' = dropped \cup (W \ part)
              /\ reloads' = [p \in Project |->
                              IF \E w \in part \cap Here : ProjectOf[IssueOf[w]] = p
                              THEN reloads[p] + 1 ELSE reloads[p]]
         /\ faults' = faults => \E w \in WorkLog : OnServer(w)
         /\ missed' = IF Unfinished("_update_project", 0, P)
                      THEN missed \cup (U \ W) ELSE missed
  /\ Over(n)
  /\ UNCHANGED <<now, server, stamp, fetched, latest, skipped>>

FindNothing(n) ==
  /\ Runs(n, "load_missing")
  /\ \A w \in WorkLog : ~OnServer(w)
  /\ jobs' = [jobs EXCEPT ![n].state = "failed"]
  /\ UNCHANGED <<now, server, stamp, local, fetched, latest, faults, hist>>

(* Mutant of DeletedSince: what was deleted just then is left out.         *)
DeletedAfter(t) == {w \in WorkLog : gone[w] > t}

DeletedSince(t) == {w \in WorkLog : gone[w] # 0 /\ gone[w] >= t}

(* delete_work_logs_by_unix.  unlink asks the server to delete as well and *)
(* ignores its answer.                                                     *)
DeleteWorkLogs(n) ==
  /\ Runs(n, "delete_work_logs")
  /\ LET D == DeletedSince(jobs[n].since)
     IN  \E part \in SUBSET D :
           /\ Handled(D, part)
           /\ local' = [w \in WorkLog |-> IF w \in part THEN <<>> ELSE local[w]]
           /\ dropped' = dropped \cup (D \ part)
  /\ Over(n)
  /\ UNCHANGED <<now, server, stamp, fetched, latest, missed, skipped, reloads>>

(* The server answers with an error, or a conflict postpones the job.      *)
Disrupt(n) ==
  /\ faults < MaxFaults
  /\ faults' = faults + 1
  /\ \E kind \in {jobs[n].kind} : Runs(n, kind)
  /\ \E s \in {"failed", "postponed"} : jobs' = [jobs EXCEPT ![n].state = s]
  /\ UNCHANGED <<now, server, stamp, local, fetched, latest, hist>>

RequeueFailed(n) ==
  /\ jobs[n].state = "failed"
  /\ jobs' = [jobs EXCEPT ![n].state = "postponed"]
  /\ UNCHANGED <<now, server, stamp, local, fetched, latest, faults, hist>>
-----------------------------------------------------------------------------
(* Users.                                                                  *)

(* fetch_issue_from_server: the issue, and load_work_logs of all it has.   *)
Fetch(i) ==
  /\ Stamped({i})
  /\ LET W == {w \in WorkLog : IssueOf[w] = i /\ OnServer(w)}
     IN  Mapped(W, Here)
  /\ UNCHANGED <<now, server, fetched, latest, jobs, faults, hist>>

(* reset_state of a project.                                               *)
Reset(p) ==
  /\ faults < MaxFaults
  /\ faults' = faults + 1
  /\ p \in fetched
  /\ fetched' = fetched \ {p}
  /\ UNCHANGED <<now, server, stamp, local, latest, jobs, hist>>

(* set_jira_token: load_jira_projects sets latest_unix, and loads no       *)
(* work logs.                                                              *)
SetToken ==
  /\ faults < MaxFaults
  /\ faults' = faults + 1
  /\ latest' = now
  /\ skipped' = skipped \cup Passed(at) \cup Passed(gone)
  /\ UNCHANGED <<now, server, stamp, local, fetched, jobs, missed, dropped, reloads>>

Tick ==
  /\ now < MaxTime
  /\ now' = now + 1
  /\ UNCHANGED <<server, stamp, local, fetched, latest, jobs, faults, hist>>

Next ==
  \/ \E w \in WorkLog : Change(w) \/ DeleteOnServer(w)
  \/ \E P \in (SUBSET Project) \ {{}} : Cron(P)
  \/ \E n \in DOMAIN jobs :
       \/ UpdateIssues(n) \/ LoadWorkLogs(n) \/ LoadMissing(n)
       \/ FindNothing(n) \/ DeleteWorkLogs(n) \/ Disrupt(n) \/ RequeueFailed(n)
  \/ \E i \in Issue : Fetch(i)
  \/ \E p \in Project : Reset(p)
  \/ SetToken
  \/ Tick

Spec == Init /\ [][Next]_vars
-----------------------------------------------------------------------------
TypeOK ==
  /\ {now, latest, faults} \subseteq Nat
  /\ at \in [WorkLog -> Nat] /\ gone \in [WorkLog -> Nat]
  /\ stamp \in [Issue -> Nat]
  /\ local \in [WorkLog -> Seq(Nat)]
  /\ fetched \subseteq Project
  /\ jobs \in Seq(Job)
  /\ missed \cup skipped \cup dropped \subseteq WorkLog
  /\ reloads \in [Project -> Nat]

(* The change of w will be fetched: by the next run of the cron, or by a   *)
(* job that loads its project or its window and finds its issue, or has it *)
(* found before.                                                           *)
ToBeLoaded(w) ==
  LET i == IssueOf[w]
      p == ProjectOf[i]
  IN  \/ latest <= at[w]
      \/ p \notin fetched
      \/ \E n \in DOMAIN jobs :
           LET j == jobs[n]
           IN  \/ /\ j.kind = "load_missing" /\ p \in j.projects
                  /\ stamp[i] # 0 \/ Unfinished("_update_project", 0, {p})
               \/ /\ j.kind = "load_work_logs" /\ j.since <= at[w]
                  /\ stamp[i] >= j.since \/ Unfinished("update_projects", j.since, {p})

(* No change of a work log is forgotten: it is here, or it will be         *)
(* fetched.  But for those that were loaded before their issues were, those*)
(* a new token made latest_unix skip, those of projects no user served     *)
(* when the cron ran, or that were not among those a user chose then, and  *)
(* those that a job which gave up and is done has left out.                *)
ChangesArrive ==
  /\ TypeOK
  /\ \A w \in WorkLog \ (missed \cup skipped \cup dropped) :
       OnServer(w) => (\E k \in DOMAIN local[w] : local[w][k] = at[w]) \/ ToBeLoaded(w)

(* Nor is a deletion: no job brings a deleted work log back for good.  But *)
(* for those that latest_unix skipped without a job that asks for them, or *)
(* with one that gave up.                                                  *)
DeletionsArrive ==
  \A w \in WorkLog \ (skipped \cup dropped) :
    gone[w] # 0 /\ w \in Here =>
      \/ latest <= gone[w]
      \/ \E n \in DOMAIN jobs :
           jobs[n].kind = "delete_work_logs" /\ jobs[n].since <= gone[w]

(* A work log has one time log here, but for load_missing, which adds one  *)
(* each time it runs.                                                      *)
OneTimeLog == \A w \in WorkLog : Len(local[w]) <= 1 + reloads[ProjectOf[IssueOf[w]]]
=============================================================================
