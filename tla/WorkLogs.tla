------------------------------- MODULE WorkLogs -------------------------------
(***************************************************************************)
(* Starting, pausing, ending and cancelling work on an issue               *)
(* (project_management/models/wt_issue.py, wt_time_logging.py,             *)
(* wt_work_log.py).  A time log is what is billed; the work logs of its    *)
(* cluster are the stretches of time it sums up.  The applications a user  *)
(* runs (web, extension) are the sources.                                  *)
(*                                                                         *)
(* Each request is a transaction.  Those that overlap are modelled by one  *)
(* slow request, which reads a snapshot and commits later, while others    *)
(* are served at once.  The API answers 404 to an exception and commits    *)
(* what was written before it (utils/error_tracking.py).                   *)
(***************************************************************************)
EXTENDS Integers, FiniteSets, Sequences, FiniteSetsExt

CONSTANTS Issue, User, Source,
          NoIssue,
          Parent,        (* the parent of an issue, or NoIssue             *)
          LogsToParent,  (* the issues whose log_to_parent is set          *)
          Floor,         (* the least duration of work, 60 s in the code   *)
          Unit,          (* the employee's rouding_up in seconds, or 1 when*)
                         (* it is not positive                             *)
          Day,           (* 86400 s                                        *)
          Rounds,        (* how often write() rounds: with wt_migration,   *)
                         (* whose write() does it before this one, twice   *)
          Scenes,        (* bounds: see Scene                              *)
          MaxLogs        (* bound                                          *)

ASSUME TreeAssumption ==
  /\ NoIssue \notin Issue /\ IsFiniteSet(Issue)
  /\ Parent \in [Issue -> Issue \cup {NoIssue}]
  /\ LogsToParent \subseteq Issue
  /\ \E depth \in [Issue -> 0..Cardinality(Issue)] :
       \A i \in Issue : Parent[i] # NoIssue => depth[Parent[i]] < depth[i]

ASSUME DurationAssumption ==
  /\ Floor \in Nat \ {0} /\ Unit \in Nat \ {0} /\ Day \in Nat \ {0}
  /\ Rounds \in 1..2

(* The bounds of a behaviour: who works on what from where, the durations  *)
(* they enter, how many logs, work logs and slow requests there are, how   *)
(* long it goes on, who leads the chain session and how many calls it gets *)
(* (ChainSession.tla).                                                     *)
Scene == [who : SUBSET (User \X Issue \X Source), given : SUBSET (Nat \ {0}),
          logs : Nat, works : Nat, slow : Nat, time : Nat,
          leaders : SUBSET User, calls : Nat]

ASSUME SceneAssumption ==
  MaxLogs \in Nat /\ Scenes \subseteq Scene /\ \A c \in Scenes : c.logs <= MaxLogs

VARIABLES logs,        (* wt.time.log, in order of creation: its place is  *)
                       (* the name of its cluster                          *)
          works,       (* wt.work.log                                      *)
          now,
          slow,        (* the request that is being served slowly, if any, *)
                       (* with its snapshot                                *)
          slowSoFar,
          atWork,      (* history: who was started on what, from where     *)
          worked,      (* history: for how long, for each time log         *)
          mixed,       (* history: time logs that a request from another   *)
                       (* source or for a child issue got into             *)
          overlapped,  (* history: time logs that a slow request wrote to  *)
                       (* and another one since its snapshot               *)
          scene        (* the bounds of this behaviour                     *)

vars == <<logs, works, now, slow, slowSoFar, atWork, worked, mixed, overlapped, scene>>

Log == [user : User, issue : Issue, source : Source, duration : Nat,
        state : {"progress", "done", "deleted"}, entered : BOOLEAN]

Work == [user : User, issue : Issue, source : Source, cluster : 1..MaxLogs,
         state : {"progress", "done", "cancel"}, start : Nat, end : Nat]

Request == [op : {"start", "pause", "done", "cancel"},
            user : User, issue : Issue, source : Source]

(* The requests of those who take part.                                    *)
Requests ==
  {[op |-> op, user |-> w[1], issue |-> w[2], source |-> w[3]] :
     op \in {"start", "pause", "done", "cancel"}, w \in scene.who}

Init ==
  /\ logs = <<>> /\ works = <<>>
  /\ now = 1
  /\ slow = <<>> /\ slowSoFar = 0
  /\ atWork = {} /\ worked = [k \in 1..MaxLogs |-> 0]
  /\ mixed = {} /\ overlapped = {}
  /\ scene \in Scenes
-----------------------------------------------------------------------------
(* rouding_log                                                             *)
RoundUp(d) ==
  LET residual == (d % Day) % Unit
  IN  IF residual > 0 THEN d + Unit - residual ELSE d

(* What write() makes of a duration; create() rounds once.                 *)
RoundedUp(d) == IF Rounds = 1 THEN RoundUp(d) ELSE RoundUp(RoundUp(d))

(* _get_suitable_log                                                       *)
Target[i \in Issue] ==
  IF Parent[i] = NoIssue \/ i \notin LogsToParent THEN i ELSE Target[Parent[i]]

(* The time logs in progress a request is about.                           *)
Pivot(L, u, i, s) ==
  {k \in DOMAIN L : /\ L[k].user = u /\ L[k].issue = i /\ L[k].source = s
                    /\ L[k].state = "progress"}

(* suitable_time_log_pivot_id.cluster_id.id raises for several clusters.   *)
Ambiguous(K) == Cardinality(K) > 1

Pieces(W, u, i, s, K) ==
  {n \in DOMAIN W : /\ W[n].user = u /\ W[n].issue = i /\ W[n].source = s
                    /\ W[n].cluster \in K}

Stretch(w) == IF w.end = 0 THEN 0 ELSE w.end - w.start

Total(W, N) == FoldSet(LAMBDA n, sum : sum + Stretch(W[n]), 0, N)

(* Mutant of Paused: the work logs are done but have no end.               *)
PausedOpenEnded(L, W, u, i, s) ==
  [n \in DOMAIN W |->
    IF n \in Pieces(W, u, i, s, Pivot(L, u, i, s)) /\ W[n].state = "progress"
    THEN [W[n] EXCEPT !.state = "done"]
    ELSE W[n]]

(* action_pause_work_log: the work logs in progress end now.               *)
Paused(L, W, u, i, s) ==
  LET N == Pieces(W, u, i, s, Pivot(L, u, i, s))
  IN  [n \in DOMAIN W |->
        IF n \in N /\ W[n].state = "progress"
        THEN [W[n] EXCEPT !.state = "done", !.end = now]
        ELSE W[n]]

(* Mutant of Cancelled: work in progress is not given an end.              *)
CancelledOpenEnded(W, K) ==
  [n \in DOMAIN W |->
    IF W[n].cluster \in K THEN [W[n] EXCEPT !.state = "cancel"] ELSE W[n]]

(* WtTimeLog.unlink: the work logs of the clusters are cancelled.          *)
Cancelled(W, K) ==
  [n \in DOMAIN W |->
    IF W[n].cluster \in K
    THEN [W[n] EXCEPT !.state = "cancel", !.end = IF @ = 0 THEN now ELSE @]
    ELSE W[n]]

Deleted(L, K) ==
  [k \in DOMAIN L |-> IF k \in K THEN [L[k] EXCEPT !.state = "deleted"] ELSE L[k]]
-----------------------------------------------------------------------------
(* What a request that read L and W is to commit: the new values of the    *)
(* rows, the rows it adds, and the histories.                              *)
Effect(L, W, newLogs, newWorks, at, mix) ==
  [logs |-> L, works |-> W, newLogs |-> newLogs, newWorks |-> newWorks,
   atWork |-> at, mixed |-> mix]

(* Mutant of Open: work always gets a time log of its own.                 *)
OpenNever(L, u, i) == {}

(* The time logs generate_progress_work_log may go on with: those of every *)
(* source, for it compares the source with itself.                         *)
Open(L, u, i) ==
  {k \in DOMAIN L : L[k].user = u /\ L[k].issue = i /\ L[k].state = "progress"}

(* generate_progress_work_log                                              *)
Start(u, i, s, L, W) ==
  LET log     == [user |-> u, issue |-> i, source |-> s, duration |-> 0,
                  state |-> "progress", entered |-> FALSE]
      work(k) == [user |-> u, issue |-> i, source |-> s, cluster |-> k,
                  state |-> "progress", start |-> now, end |-> 0]
      W1      == Paused(L, W, u, i, s)
      at      == atWork \cup {<<u, i, s>>}
  IN  IF Ambiguous(Pivot(L, u, i, s)) THEN {}
      ELSE IF Open(L, u, i) = {}
      THEN {Effect(L, W1, <<log>>, <<work(Len(logs) + 1)>>, at, mixed)}
      ELSE {Effect(L, W1, <<>>, <<work(k)>>, at,
                   IF L[k].source = s THEN mixed ELSE mixed \cup {k}) :
              k \in Open(L, u, i)}

(* History: who has work stopped is not at it any more.                    *)
Stopped(W, W1, u, i, s) == IF W1 = W THEN atWork ELSE atWork \ {<<u, i, s>>}

(* The request to pause.                                                   *)
Pause(u, i, s, L, W) ==
  IF Ambiguous(Pivot(L, u, i, s)) THEN {}
  ELSE LET W1 == Paused(L, W, u, i, s)
       IN  {Effect(L, W1, <<>>, <<>>, Stopped(W, W1, u, i, s), mixed)}

(* The time log and the work logs of the target, whatever their state.     *)
EndedLogs(L, W, u, r, s) ==
  LET K     == Pivot(L, u, r, s)
      total == Total(W, Pieces(W, u, r, s, K))
  IN  [k \in DOMAIN L |->
        IF k \in K
        THEN [L[k] EXCEPT !.state = "done", !.entered = FALSE,
                          !.duration = RoundedUp(IF total > Floor THEN total ELSE Floor)]
        ELSE L[k]]

EndedWorks(L, W, u, r, s) ==
  LET N == Pieces(W, u, r, s, Pivot(L, u, r, s))
  IN  [n \in DOMAIN W |->
        IF n \in N THEN [W[n] EXCEPT !.state = "done"] ELSE W[n]]

(* action_done_work_log pauses work on the issue and ends the time log of  *)
(* its target; if that raises, the pause stays.                            *)
Done(u, i, s, L, W) ==
  LET r  == Target[i]
      W1 == Paused(L, W, u, i, s)
      at == Stopped(W, W1, u, i, s)
  IN  IF Ambiguous(Pivot(L, u, i, s)) THEN {}
      ELSE IF Ambiguous(Pivot(L, u, r, s))
      THEN {Effect(L, W1, <<>>, <<>>, at, mixed)}
      ELSE {Effect(EndedLogs(L, W1, u, r, s), EndedWorks(L, W1, u, r, s), <<>>, <<>>, at,
                   IF r = i THEN mixed ELSE mixed \cup Pivot(L, u, r, s))}

(* action_cancel_progress                                                  *)
Cancel(u, i, s, L, W) ==
  LET K == Pivot(L, u, i, s)
  IN  {Effect(Deleted(L, K), Cancelled(W, K), <<>>, <<>>, atWork, mixed)}

(* None for a request that fails and writes nothing.                       *)
Effects(r, L, W) ==
  CASE r.op = "start"  -> Start(r.user, r.issue, r.source, L, W)
    [] r.op = "pause"  -> Pause(r.user, r.issue, r.source, L, W)
    [] r.op = "done"   -> Done(r.user, r.issue, r.source, L, W)
    [] r.op = "cancel" -> Cancel(r.user, r.issue, r.source, L, W)
-----------------------------------------------------------------------------
Changed(old, new) == {n \in DOMAIN old : new[n] # old[n]}

Written(current, old, new) ==
  [n \in DOMAIN current |->
    IF n \in Changed(old, new) THEN new[n] ELSE current[n]]

(* A transaction is refused if a row it changed was written since it read  *)
(* it.                                                                     *)
Refused(L, W, e) ==
  \/ \E k \in Changed(L, e.logs) : logs[k] # L[k]
  \/ \E n \in Changed(W, e.works) : works[n] # W[n]

Commit(L, W, e) ==
  /\ ~Refused(L, W, e)
  /\ Len(logs) + Len(e.newLogs) <= scene.logs
  /\ Len(works) + Len(e.newWorks) <= scene.works
  /\ logs' = Written(logs, L, e.logs) \o e.newLogs
  /\ works' = Written(works, W, e.works) \o e.newWorks
  /\ atWork' = e.atWork
  /\ mixed' = e.mixed

(* A request that no other overlaps.                                       *)
Serve(r) ==
  /\ \E e \in Effects(r, logs, works) : Commit(logs, works, e)
  /\ UNCHANGED <<now, slow, slowSoFar, worked, overlapped, scene>>

(* A request takes its snapshot.                                           *)
Delay(r) ==
  /\ slow = <<>> /\ slowSoFar < scene.slow
  /\ slow' = <<[request |-> r, logs |-> logs, works |-> works]>>
  /\ slowSoFar' = slowSoFar + 1
  /\ UNCHANGED <<logs, works, now, atWork, worked, mixed, overlapped, scene>>

(* The clusters of which the snapshot is outdated.                         *)
Outdated(L, W) ==
  {k \in DOMAIN logs :
     \/ k \notin DOMAIN L \/ logs[k] # L[k]
     \/ \E n \in DOMAIN works :
          works[n].cluster = k /\ (n \notin DOMAIN W \/ works[n] # W[n])}

(* The clusters this step writes to.                                       *)
Touched ==
  {k \in DOMAIN logs' : k \notin DOMAIN logs \/ logs'[k] # logs[k]} \cup
  {works'[n].cluster : n \in {m \in DOMAIN works' :
                                m \notin DOMAIN works \/ works'[m] # works[m]}}

(* It commits.  A time log is overlapped when the request wrote to its     *)
(* cluster without knowing what another wrote to one of its issue.         *)
Complete ==
  /\ slow # <<>>
  /\ LET r == slow[1].request
         L == slow[1].logs
         W == slow[1].works
     IN  /\ \E e \in Effects(r, L, W) : Commit(L, W, e)
         /\ overlapped' =
              overlapped \cup
                {k \in Touched : \E o \in Outdated(L, W) : logs[o].issue = logs'[k].issue}
  /\ slow' = <<>>
  /\ UNCHANGED <<now, slowSoFar, worked, scene>>

(* It fails, or its commit is refused.                                     *)
Abort ==
  /\ slow # <<>>
  /\ LET r == slow[1].request
         L == slow[1].logs
         W == slow[1].works
     IN  \A e \in Effects(r, L, W) : Refused(L, W, e)
  /\ slow' = <<>>
  /\ UNCHANGED <<logs, works, now, slowSoFar, atWork, worked, mixed, overlapped, scene>>

(* The time log action_manual_work_log adds, for the target of the issue.  *)
Entered(u, i, s, d) ==
  [user |-> u, issue |-> Target[i], source |-> s, duration |-> RoundUp(d),
   state |-> "done", entered |-> TRUE]

Manual(u, i, s, d) ==
  /\ Len(logs) < scene.logs
  /\ logs' = Append(logs, Entered(u, i, s, d))
  /\ UNCHANGED <<works, now, slow, slowSoFar, atWork, worked, mixed, overlapped, scene>>

(* /work-log/update of a time log of one's own.                            *)
Update(k, d) ==
  /\ logs[k].state # "deleted"
  /\ logs' = [logs EXCEPT ![k].duration = RoundedUp(d), ![k].entered = TRUE]
  /\ UNCHANGED <<works, now, slow, slowSoFar, atWork, worked, mixed, overlapped, scene>>

(* /work-log/delete, of a time log of anyone in the project.               *)
Delete(k) ==
  /\ logs[k].state # "deleted"
  /\ logs' = Deleted(logs, {k})
  /\ works' = Cancelled(works, {k})
  /\ UNCHANGED <<now, slow, slowSoFar, atWork, worked, mixed, overlapped, scene>>

(* Time passes between requests.                                           *)
Tick ==
  /\ slow = <<>>
  /\ now < scene.time
  /\ now' = now + 1
  /\ worked' = [k \in 1..MaxLogs |->
                 IF /\ k \in DOMAIN logs
                    /\ logs[k].state = "progress"
                    /\ <<logs[k].user, logs[k].issue, logs[k].source>> \in atWork
                 THEN worked[k] + 1 ELSE worked[k]]
  /\ UNCHANGED <<logs, works, slow, slowSoFar, atWork, mixed, overlapped, scene>>

RequestNext ==
  \/ \E r \in Requests : Serve(r) \/ Delay(r)
  \/ Complete \/ Abort
  \/ \E w \in scene.who, d \in scene.given : Manual(w[1], w[2], w[3], d)
  \/ \E k \in DOMAIN logs : Delete(k) \/ \E d \in scene.given : Update(k, d)

Next == RequestNext \/ Tick

Spec == Init /\ [][Next]_vars
-----------------------------------------------------------------------------
TypeOK ==
  /\ logs \in Seq(Log) /\ Len(logs) <= scene.logs
  /\ works \in Seq(Work) /\ Len(works) <= scene.works
  /\ {now, slowSoFar} \subseteq Nat
  /\ Len(slow) <= 1 /\ (slow # <<>> => slow[1].request \in Request)
  /\ atWork \subseteq User \X Issue \X Source
  /\ worked \in [1..MaxLogs -> Nat]
  /\ mixed \cup overlapped \subseteq 1..MaxLogs

(* A work log in progress can be ended by the one who started it: its time *)
(* log is in progress, of that user, issue and source, and it is the only  *)
(* one in progress in its cluster.  Any other has an end.  Only a second   *)
(* source in the cluster, an end that came from a child issue, or requests *)
(* that overlap break this.                                                *)
InOrder(n) ==
  LET w == works[n]
      k == w.cluster
  IN  IF w.state = "progress"
      THEN /\ w.end = 0
           /\ k \in Pivot(logs, w.user, w.issue, w.source)
           /\ \A m \in DOMAIN works \ {n} :
                works[m].cluster = k => works[m].state # "progress"
      ELSE w.end # 0

WorkCanBeEnded ==
  /\ TypeOK
  /\ \A n \in DOMAIN works :
       InOrder(n) \/ works[n].cluster \in mixed \cup overlapped

(* A user has one time log in progress for an issue, unless two starts     *)
(* overlapped; with two from one source every start, pause and end fails.  *)
OneLogInProgress ==
  \A j, k \in DOMAIN logs :
    /\ j # k
    /\ logs[j].state = "progress" /\ logs[k].state = "progress"
    /\ logs[j].user = logs[k].user /\ logs[j].issue = logs[k].issue
    => {j, k} \cap overlapped # {}

(* Nothing that mixes or overlaps time logs got into one of the user for   *)
(* the issue: two of them in progress would share what is worked.          *)
Undisturbed(k) ==
  \A j \in DOMAIN logs :
    logs[j].user = logs[k].user /\ logs[j].issue = logs[k].issue =>
      j \notin mixed \cup overlapped

(* Rounding is for the seconds of the last day only: this time has a       *)
(* multiple of the unit for its next.                                      *)
Exact(d) == Day % Unit = 0 \/ d + Unit <= Day

(* What is billed for a log that was started and ended, and not edited, is *)
(* the time worked, at least Floor, up to the next multiple of the unit.   *)
(* From about a day on, a unit that does not divide it is not kept to, and *)
(* each time a write rounds may add up to a unit.                          *)
TimeBilled ==
  \A k \in DOMAIN logs :
    logs[k].state = "done" /\ ~logs[k].entered /\ Undisturbed(k) =>
      LET least == IF worked[k] > Floor THEN worked[k] ELSE Floor
      IN  /\ logs[k].duration \in least..(least + Rounds * (Unit - 1))
          /\ Exact(least) =>
               logs[k].duration < least + Unit /\ logs[k].duration % Unit = 0
=============================================================================
