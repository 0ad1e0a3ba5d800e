------------------------------ MODULE JobRunner ------------------------------
(***************************************************************************)
(* The life of a job across the processes that share its row of queue_job: *)
(* the runner thread (jobrunner/runner.py) with its view of the rows, the  *)
(* daemon thread of each HTTP GET, the Odoo workers (controllers/main.py,  *)
(* job.py), and the users and crons (models/queue_job.py).                 *)
(*                                                                         *)
(* The view of the runner is a JobPool (Channels.tla implements it).  A    *)
(* GET is a thread that waits one second for the answer and a request that *)
(* a worker serves when it can: either may end first.                      *)
(***************************************************************************)
EXTENDS Integers, FiniteSets

CONSTANTS Job, Worker,
          NoJob,       (* what an idle worker works on                     *)
          Capacity,    (* of the root channel                              *)
          MaxGets,     (* bound on the GETs of a job that are on their way *)
          Fault,       (* the disturbances of a run, a subset of FaultKind *)
          MaxFaults    (* bound on their number                            *)

FaultKind == {"requeue",                         (* the wizard: any state  *)
              "requeue_failed",                  (* the button: failed only*)
              "set_done", "delete",              (* wizard, RPC, autovacuum*)
              "timeout",                         (* a GET resets its job   *)
              "lost",                            (* a GET never served     *)
              "retry",                           (* RetryableJobError      *)
              "runner", "worker"}                (* a process dies         *)

ASSUME RunnerAssumption ==
  /\ IsFiniteSet(Job) /\ IsFiniteSet(Worker)
  /\ NoJob \notin Job
  /\ Capacity \in Nat \ {0}
  /\ MaxGets \in Nat
  /\ MaxFaults \in Nat
  /\ Fault \subseteq FaultKind

VARIABLES row,         (* state of the row of each job, "absent" for none  *)
          born,        (* the jobs a with_delay() has created              *)
          notes,       (* uuids notified to the runner's connection        *)
          phase,       (* of the runner                                    *)
          waiting, active,           (* its view: see JobPool.tla          *)
          sent,        (* GETs of a job not served, their thread waits     *)
          orphan,      (* GETs not served, their thread has given up       *)
          unanswered,  (* GETs served, their thread still waits            *)
          work,        (* what each worker does                            *)
          faults,      (* disturbances so far                              *)
          commits,     (* history: executions of a job that were committed *)
          requeues     (* history: how often a user requeued a job that    *)
                       (* had not failed                                   *)

view == <<waiting, active>>
gets == <<sent, orphan, unanswered>>
vars == <<row, born, notes, phase, waiting, active, sent, orphan,
          unanswered, work,
          faults, commits, requeues>>

RowState == {"absent", "pending", "enqueued", "started", "done", "failed"}
Idle == [job |-> NoJob, pc |-> "idle"]
Task == [job : Job, pc : {"started", "performing", "stale"}]

TypeOK ==
  /\ row \in [Job -> RowState]
  /\ born \subseteq Job
  /\ notes \subseteq Job
  /\ phase \in {"down", "listening", "ready"}
  /\ waiting \subseteq Job
  /\ active \subseteq Job
  /\ sent \in [Job -> Nat]
  /\ orphan \in [Job -> Nat]
  /\ unanswered \in [Job -> Nat]
  /\ work \in [Worker -> Task \cup {Idle}]
  /\ faults \in Nat
  /\ commits \in [Job -> Nat]
  /\ requeues \in [Job -> Nat]

Init ==
  /\ row = [j \in Job |-> "absent"]
  /\ born = {}
  /\ notes = {}
  /\ phase = "down"
  /\ waiting = {}
  /\ active = {}
  /\ sent = [j \in Job |-> 0]
  /\ orphan = [j \in Job |-> 0]
  /\ unanswered = [j \in Job |-> 0]
  /\ work = [w \in Worker |-> Idle]
  /\ faults = 0
  /\ commits = [j \in Job |-> 0]
  /\ requeues = [j \in Job |-> 0]

ActiveRow(j) == row[j] \in {"enqueued", "started"}

ActiveRows == {j \in Job : ActiveRow(j)}

Busy(w) == work[w] # Idle

Executing(j) == {w \in Worker : work[w].job = j}

Disturb(kind) ==
  /\ kind \in Fault
  /\ faults < MaxFaults
  /\ faults' = faults + 1

(* The trigger of post_init_hook.py: the transaction that writes the row   *)
(* notifies the runner, if its connection listens.                         *)
Notify(j) == notes' = IF phase = "down" THEN notes ELSE notes \cup {j}

(* A transaction of a worker that has read the row in its snapshot cannot  *)
(* write it any more once another transaction did (REPEATABLE READ).       *)
Outdated(j) ==
  [w \in Worker |-> IF work[w] = [job |-> j, pc |-> "performing"]
                    THEN [job |-> j, pc |-> "stale"]
                    ELSE work[w]]

(* A committed write of the row by anyone.                                 *)
Write(j, state) ==
  /\ row' = [row EXCEPT ![j] = state]
  /\ Notify(j)
-----------------------------------------------------------------------------
(* Callers, users and crons.                                               *)

(* with_delay(): Job.enqueue stores a new row.                             *)
Create(j) ==
  /\ j \notin born
  /\ born' = born \cup {j}
  /\ Write(j, "pending")
  /\ UNCHANGED <<phase, view, gets, work, faults, commits, requeues>>

(* requeue: the form shows the button for failed jobs, the wizard takes    *)
(* jobs of any state.                                                      *)
Requeue(j) ==
  /\ \/ row[j] # "absent" /\ Disturb("requeue")
     \/ row[j] = "failed" /\ Disturb("requeue_failed")
  /\ Write(j, "pending")
  /\ work' = Outdated(j)
  /\ requeues' = [requeues EXCEPT ![j] = IF row[j] = "failed" THEN @ ELSE @ + 1]
  /\ UNCHANGED <<born, phase, view, gets, commits>>

(* button_done, queue_jobs_to_done.                                        *)
SetDone(j) ==
  /\ Disturb("set_done")
  /\ row[j] # "absent"
  /\ Write(j, "done")
  /\ work' = Outdated(j)
  /\ UNCHANGED <<born, phase, view, gets, commits, requeues>>

(* Mutant of Delete: the trigger is not set up for DELETE.                 *)
DeleteSilently(j) ==
  /\ Disturb("delete")
  /\ row[j] # "absent"
  /\ row' = [row EXCEPT ![j] = "absent"]
  /\ UNCHANGED notes
  /\ work' = Outdated(j)
  /\ UNCHANGED <<born, phase, view, gets, commits, requeues>>

(* unlink; the trigger is silent for a done row.                           *)
Delete(j) ==
  /\ Disturb("delete")
  /\ row[j] # "absent"
  /\ row' = [row EXCEPT ![j] = "absent"]
  /\ IF row[j] = "done" THEN UNCHANGED notes ELSE Notify(j)
  /\ work' = Outdated(j)
  /\ UNCHANGED <<born, phase, view, gets, commits, requeues>>

(* requeue_stuck_jobs(enqueued_delta=5): after five minutes the thread of  *)
(* the GET, which waits for one second, is gone.                           *)
RequeueStuck(j) ==
  /\ row[j] = "enqueued"
  /\ sent[j] = 0 /\ unanswered[j] = 0
  /\ Write(j, "pending")
  /\ UNCHANGED <<born, phase, view, gets, work, faults, commits, requeues>>
-----------------------------------------------------------------------------
(* The runner.                                                             *)

(* Database._initialize: notifications are collected from here on.         *)
Listen ==
  /\ phase = "down"
  /\ phase' = "listening"
  /\ UNCHANGED <<row, born, notes, view, gets, work, faults, commits, requeues>>

(* Mutant of SelectJobs: the started rows are left out of the select.      *)
SelectJobsNotStarted ==
  /\ phase = "listening"
  /\ phase' = "ready"
  /\ waiting' = {j \in Job : row[j] = "pending"}
  /\ active' = {j \in Job : row[j] = "enqueued"}
  /\ UNCHANGED <<row, born, notes, gets, work, faults, commits, requeues>>

(* initialize_databases: the manager is told of every row that is not done.*)
SelectJobs ==
  /\ phase = "listening"
  /\ phase' = "ready"
  /\ waiting' = {j \in Job : row[j] = "pending"}
  /\ active' = ActiveRows
  /\ UNCHANGED <<row, born, notes, gets, work, faults, commits, requeues>>

(* Channel.set_running does nothing for a job that waits downstream of its *)
(* channel, otherwise the job runs.                                        *)
ViewRunning(j) ==
  \/ waiting' = waiting \ {j} /\ active' = active \cup {j}
  \/ j \in waiting /\ UNCHANGED view

(* Mutant of ProcessNotification: a failed job keeps its place.            *)
ProcessNotificationKeepsFailed(j) ==
  /\ phase = "ready"
  /\ j \in notes
  /\ notes' = notes \ {j}
  /\ \/ row[j] = "pending" /\ waiting' = waiting \cup {j} /\ active' = active \ {j}
     \/ (ActiveRow(j) \/ row[j] = "failed") /\ ViewRunning(j)
     \/ row[j] \in {"done", "absent"}
          /\ waiting' = waiting \ {j} /\ active' = active \ {j}
  /\ UNCHANGED <<row, born, phase, gets, work, faults, commits, requeues>>

(* Mutant of ProcessNotification: set_pending leaves the job in _running.  *)
ProcessNotificationKeepsRunning(j) ==
  /\ phase = "ready"
  /\ j \in notes
  /\ notes' = notes \ {j}
  /\ \/ row[j] = "pending" /\ waiting' = waiting \cup {j} /\ UNCHANGED active
     \/ ActiveRow(j) /\ ViewRunning(j)
     \/ row[j] \in {"done", "failed", "absent"}
          /\ waiting' = waiting \ {j} /\ active' = active \ {j}
  /\ UNCHANGED <<row, born, phase, gets, work, faults, commits, requeues>>

(* process_notifications reads the row as it is now.                       *)
ProcessNotification(j) ==
  /\ phase = "ready"
  /\ j \in notes
  /\ notes' = notes \ {j}
  /\ \/ row[j] = "pending" /\ waiting' = waiting \cup {j} /\ active' = active \ {j}
     \/ ActiveRow(j) /\ ViewRunning(j)
     \/ row[j] \in {"done", "failed", "absent"}
          /\ waiting' = waiting \ {j} /\ active' = active \ {j}
  /\ UNCHANGED <<row, born, phase, gets, work, faults, commits, requeues>>

(* Mutant of HasSlot: one job too many.                                    *)
HasSlotOffByOne == Cardinality(active) <= Capacity

(* has_capacity of the root channel.                                       *)
HasSlot == Cardinality(active) < Capacity

(* run_jobs: the manager yields j, set_job_enqueued writes the row without *)
(* looking at its state, and a thread sends the GET.                       *)
Dispatch(j) ==
  /\ phase = "ready"
  /\ j \in waiting
  /\ HasSlot
  /\ sent[j] + orphan[j] + unanswered[j] < MaxGets
  /\ waiting' = waiting \ {j}
  /\ active' = active \cup {j}
  /\ IF row[j] = "absent"
     THEN UNCHANGED <<row, notes, work>>
     ELSE Write(j, "enqueued") /\ work' = Outdated(j)
  /\ sent' = [sent EXCEPT ![j] = @ + 1]
  /\ UNCHANGED <<born, phase, orphan, unanswered, faults, commits, requeues>>

(* An exception in run(): close_databases, and start over.  When the whole *)
(* process dies its GET threads die with it.                               *)
RunnerFails ==
  /\ Disturb("runner")
  /\ phase # "down"
  /\ phase' = "down"
  /\ notes' = {}
  /\ waiting' = {}
  /\ active' = {}
  /\ \/ UNCHANGED gets
     \/ /\ orphan' = [j \in Job |-> orphan[j] + sent[j]]
        /\ sent' = [j \in Job |-> 0]
        /\ unanswered' = [j \in Job |-> 0]
  /\ UNCHANGED <<row, born, work, commits, requeues>>

(* Mutant of ResetRow: the UPDATE does not ask for state = enqueued.       *)
ResetAnyRow(j) ==
  /\ row[j] # "absent"
  /\ Write(j, "pending")

(* set_job_pending                                                         *)
ResetRow(j) ==
  IF row[j] = "enqueued" THEN Write(j, "pending") ELSE UNCHANGED <<row, notes>>

(* The GET times out, or the answer is an error: set_job_pending.  Only    *)
(* the resets of a row are counted as disturbances.                        *)
ClientReset(j) ==
  /\ \/ /\ sent[j] > 0
        /\ sent' = [sent EXCEPT ![j] = @ - 1]
        /\ orphan' = [orphan EXCEPT ![j] = @ + 1]
        /\ UNCHANGED unanswered
     \/ /\ unanswered[j] > 0
        /\ unanswered' = [unanswered EXCEPT ![j] = @ - 1]
        /\ UNCHANGED <<sent, orphan>>
  /\ IF row[j] = "enqueued" THEN Disturb("timeout") ELSE UNCHANGED faults
  /\ ResetRow(j)
  /\ UNCHANGED <<born, phase, view, work, commits, requeues>>

(* The thread of a GET that was served gets its answer.                    *)
ClientReturns(j) ==
  /\ unanswered[j] > 0
  /\ unanswered' = [unanswered EXCEPT ![j] = @ - 1]
  /\ UNCHANGED <<row, born, notes, phase, view, sent, orphan, work, faults,
                 commits, requeues>>
-----------------------------------------------------------------------------
(* The workers.                                                            *)

TakeRequest(j) ==
  \/ /\ sent[j] > 0
     /\ sent' = [sent EXCEPT ![j] = @ - 1]
     /\ unanswered' = [unanswered EXCEPT ![j] = @ + 1]
     /\ UNCHANGED orphan
  \/ /\ orphan[j] > 0
     /\ orphan' = [orphan EXCEPT ![j] = @ - 1]
     /\ UNCHANGED <<sent, unanswered>>

(* Mutant of Begin: runjob does not check the state of the row.            *)
BeginAnyState(w, j) ==
  /\ ~Busy(w)
  /\ TakeRequest(j)
  /\ row[j] # "absent"
  /\ Write(j, "started")
  /\ work' = [work EXCEPT ![w] = [job |-> j, pc |-> "started"]]
  /\ UNCHANGED <<born, phase, view, faults, commits, requeues>>

(* runjob locks an enqueued row, then set_started, store and commit: one   *)
(* step, as the lock excludes every other writer in between.               *)
Begin(w, j) ==
  /\ ~Busy(w)
  /\ TakeRequest(j)
  /\ row[j] = "enqueued"
  /\ Write(j, "started")
  /\ work' = [work EXCEPT ![w] = [job |-> j, pc |-> "started"]]
  /\ UNCHANGED <<born, phase, view, faults, commits, requeues>>

(* The row is not enqueued, or not there: nothing is run.                  *)
Refuse(j) ==
  /\ TakeRequest(j)
  /\ row[j] # "enqueued"
  /\ UNCHANGED <<row, born, notes, phase, view, work, faults, commits, requeues>>

(* The connection is refused and the thread resets the job at once, or a   *)
(* request whose thread is gone is dropped by a dying server.              *)
LoseRequest(j) ==
  /\ Disturb("lost")
  /\ \/ /\ sent[j] > 0
        /\ sent' = [sent EXCEPT ![j] = @ - 1]
        /\ ResetRow(j)
        /\ UNCHANGED orphan
     \/ /\ orphan[j] > 0
        /\ orphan' = [orphan EXCEPT ![j] = @ - 1]
        /\ UNCHANGED <<row, notes, sent>>
  /\ UNCHANGED <<born, phase, view, unanswered, work, commits, requeues>>

(* The transaction that performs the job takes its snapshot.               *)
Snapshot(w) ==
  /\ work[w].pc = "started"
  /\ work' = [work EXCEPT ![w].pc = "performing"]
  /\ UNCHANGED <<row, born, notes, phase, view, gets, faults, commits, requeues>>

(* store() of the outcome: the other executions of the job are outdated.   *)
Release(w, j) == [Outdated(j) EXCEPT ![w] = Idle]

(* perform() returns, set_done, store, commit.  Also NothingToDoJob.  store*)
(* creates the row when the snapshot holds none.                           *)
FinishDone(w) ==
  LET j == work[w].job
  IN  /\ work[w].pc = "performing"
      /\ Write(j, "done")
      /\ work' = Release(w, j)
      /\ commits' = [commits EXCEPT ![j] = @ + 1]
      /\ UNCHANGED <<born, phase, view, gets, faults, requeues>>

(* retry_postpone writes in a transaction of its own, whatever the row is  *)
(* by then: after a RetryableJobError, or after the commit was refused     *)
(* because the snapshot was outdated.                                      *)
RetryPostpone(w) ==
  LET j == work[w].job
  IN  /\ \/ work[w].pc = "performing" /\ Disturb("retry")
         \/ work[w].pc = "stale" /\ UNCHANGED faults
      /\ Write(j, "pending")
      /\ work' = Release(w, j)
      /\ UNCHANGED <<born, phase, view, gets, commits, requeues>>

(* Any other exception: set_failed, in a transaction of its own.           *)
FinishFailed(w) ==
  LET j == work[w].job
  IN  /\ work[w].pc \in {"performing", "stale"}
      /\ Write(j, "failed")
      /\ work' = Release(w, j)
      /\ UNCHANGED <<born, phase, view, gets, faults, commits, requeues>>

(* NothingToDoJob: set_done is refused as the snapshot is outdated, and    *)
(* nothing catches that any more.                                          *)
Abandon(w) ==
  /\ work[w].pc = "stale"
  /\ work' = [work EXCEPT ![w] = Idle]
  /\ UNCHANGED <<row, born, notes, phase, view, gets, faults, commits, requeues>>

(* The process of the worker dies: the row stays as it is.                 *)
WorkerDies(w) ==
  /\ Busy(w)
  /\ Disturb("worker")
  /\ work' = [work EXCEPT ![w] = Idle]
  /\ UNCHANGED <<row, born, notes, phase, view, gets, commits, requeues>>
-----------------------------------------------------------------------------
Finish(w) == FinishDone(w) \/ RetryPostpone(w) \/ FinishFailed(w) \/ Abandon(w)

Next ==
  \/ \E j \in Job :
       \/ Create(j) \/ Requeue(j) \/ SetDone(j) \/ Delete(j) \/ RequeueStuck(j)
       \/ ProcessNotification(j) \/ Dispatch(j)
       \/ ClientReset(j) \/ ClientReturns(j)
       \/ Refuse(j) \/ LoseRequest(j)
  \/ Listen \/ SelectJobs \/ RunnerFails
  \/ \E w \in Worker, j \in Job : Begin(w, j)
  \/ \E w \in Worker : Snapshot(w) \/ Finish(w) \/ WorkerDies(w)

Spec == Init /\ [][Next]_vars

(* The runner's loop, the GET threads, the workers and the cron keep       *)
(* going; callers, users and failures do what they like.  Strong fairness: *)
(* requests are not for ever served later than the cron's five minutes.    *)
Fairness ==
  /\ WF_vars(Listen) /\ WF_vars(SelectJobs)
  /\ \A j \in Job :
       /\ WF_vars(ProcessNotification(j))
       /\ WF_vars(Dispatch(j))
       /\ WF_vars(ClientReset(j) \/ ClientReturns(j))
       /\ WF_vars(Refuse(j))
       /\ SF_vars(\E w \in Worker : Begin(w, j))
       /\ WF_vars(RequeueStuck(j))
  /\ \A w \in Worker : WF_vars(Snapshot(w)) /\ WF_vars(Finish(w))

FairSpec == Spec /\ Fairness
-----------------------------------------------------------------------------
(* What the manager is to think of a row.                                  *)
ViewAgrees(j) ==
  /\ j \in waiting <=> row[j] = "pending"
  /\ j \in active <=> ActiveRow(j)

(* Nothing is missed: once the runner is ready, a row it sees wrongly has  *)
(* a notification on its way.  LISTEN comes before the first select, every *)
(* write notifies, and a notification is only a reason to read the row.    *)
NothingMissed ==
  phase = "ready" => \A j \in Job : j \notin notes => ViewAgrees(j)

(* The runner never takes an enqueued or started row for one that waits:   *)
(* it would hand it out a second time.                                     *)
ActiveRowsOccupy == phase = "ready" => ActiveRows \subseteq active

(* Never more rows enqueued or started than the root channel has room for, *)
(* through timeouts, requeues, failures and restarts of the runner.        *)
WithinCapacity ==
  /\ Cardinality(ActiveRows) <= Capacity
  /\ Cardinality(active) <= Capacity

(* What makes the three of them inductive: a job the runner takes for      *)
(* waiting has no place in the channel as well.                            *)
RunnerInv ==
  /\ TypeOK
  /\ waiting \cap active = {}
  /\ WithinCapacity
  /\ ActiveRowsOccupy
  /\ NothingMissed

(* An execution of j that is still to begin: j is not created yet, it has  *)
(* failed, its row waits for a worker, or the runner takes it for waiting. *)
ToBegin(j) ==
  \/ j \notin born
  \/ j \in waiting
  \/ row[j] \in {"pending", "enqueued", "failed"}

Owed(j) == IF ToBegin(j) THEN 1 ELSE 0

(* Each execution is paid for: by the creation of the job or by a requeue  *)
(* of a job that had not failed.  Those that were committed, those a       *)
(* worker is at and the one still to begin are never more than that,       *)
(* whatever GET times out or arrives late, whoever dies or is reset.       *)
ExecutionsBought ==
  \A j \in Job :
    commits[j] + Cardinality(Executing(j)) + Owed(j) <= 1 + requeues[j]

(* What makes it inductive together with RunnerInv.                        *)
ExecutionInv ==
  /\ \A j \in Job : row[j] # "absent" \/ Executing(j) # {} => j \in born
  /\ phase # "ready" => waiting = {}
  /\ ExecutionsBought

(* A job that nobody requeues, unless it failed, is executed by one worker *)
(* at a time and takes effect once.                                        *)
SingleExecution ==
  \A j \in Job : requeues[j] = 0 => Cardinality(Executing(j)) + commits[j] <= 1

(* A pending job is eventually settled.                                    *)
EveryJobSettles ==
  \A j \in Job : row[j] = "pending" ~> row[j] \in {"done", "failed", "absent"}
=============================================================================
