------------------------------ MODULE JobRecord ------------------------------
(***************************************************************************)
(* The fields of one row of queue_job through its attempts: the retry      *)
(* counter, the eta and the dates that Job (job.py) loads, changes in the  *)
(* memory of a worker and stores as a whole, that the runner updates with  *)
(* SQL of its own, and that the two crons search by.                       *)
(*                                                                         *)
(* One worker at a time executes the job (JobRunner.tla: nobody requeues a *)
(* job that runs).                                                         *)
(***************************************************************************)
EXTENDS Integers, FiniteSets, FiniteSetsExt, Folds

CONSTANTS MaxRetries,      (* of the job, 0 for infinite                   *)
          RetryPattern,    (* count of tries -> the seconds it may choose  *)
          RetryInterval, PgRetry,          (* the constants of these names *)
          ErrorSeconds,    (* what a RetryableJobError may ask, 0 for None *)
          StuckDelta,      (* enqueued_delta of the garbage collector      *)
          RemovalInterval, (* of the job's channel                         *)
          MaxTime, MaxAttempts             (* bounds of the run            *)

ASSUME RecordAssumption ==
  /\ {MaxRetries, RetryInterval, PgRetry, StuckDelta, RemovalInterval,
      MaxTime, MaxAttempts} \subseteq Nat
  /\ IsFiniteSet(DOMAIN RetryPattern) /\ DOMAIN RetryPattern \subseteq Nat
  /\ \A k \in DOMAIN RetryPattern : RetryPattern[k] \subseteq Nat
  /\ ErrorSeconds \subseteq Nat

VARIABLES row,          (* the stored fields, Absent without a row         *)
          mem,          (* the Job object of the worker                    *)
          pc,           (* of the worker                                   *)
          now,
          attempts,     (* executions so far                               *)
          raised,       (* history: retryable errors since the last reset  *)
          due,          (* history: when the last postponement is over     *)
          enqueuedLast, (* history: when the runner last enqueued the job  *)
          seen          (* the runner takes the job for pending            *)

vars == <<row, mem, pc, now, attempts, raised, due, enqueuedLast, seen>>

(* A date of 0 is none.                                                    *)
Fields == [state : {"absent", "pending", "enqueued", "started", "done", "failed"},
           retry : Nat, eta : Nat, enqueued : Nat, started : Nat, done : Nat]

New(e) == [state |-> "pending", retry |-> 0, eta |-> e,
           enqueued |-> 0, started |-> 0, done |-> 0]

Absent == [New(0) EXCEPT !.state = "absent"]

Init ==
  /\ \E e \in {0, 2} : row = New(e) /\ due = e
  /\ mem = row
  /\ pc = "idle"
  /\ now = 1
  /\ attempts = 0
  /\ raised = 0
  /\ enqueuedLast = 0
  /\ seen = FALSE
-----------------------------------------------------------------------------
(* The methods of Job on its fields r.                                     *)

(* Mutant of SetPending: the counter is reset by a postponement too.       *)
SetPendingAlwaysResets(r, reset_retry) ==
  [r EXCEPT !.state = "pending", !.enqueued = 0, !.started = 0, !.retry = 0]

SetPending(r, reset_retry) ==
  [r EXCEPT !.state = "pending", !.enqueued = 0, !.started = 0,
            !.retry = IF reset_retry THEN 0 ELSE @]

SetStarted(r) == [r EXCEPT !.state = "started", !.started = now]

SetDone(r) == [r EXCEPT !.state = "done", !.done = now]

SetFailed(r) == [r EXCEPT !.state = "failed"]

Tried(r) == [r EXCEPT !.retry = @ + 1]

(* Mutant of RetrySeconds: `>` for `>=`.                                   *)
RetrySecondsAfter(seconds, retry) ==
  LET Longer(n, chosen) == IF retry > n THEN RetryPattern[n] ELSE chosen
  IN  IF seconds # 0 THEN {seconds}
      ELSE MapThenFoldSet(Longer, {RetryInterval}, LAMBDA n : n, Max, DOMAIN RetryPattern)

(* _get_retry_seconds: the loop over the pattern sorted by count, the      *)
(* highest count last.                                                     *)
RetrySeconds(seconds, retry) ==
  LET Longer(n, chosen) == IF retry >= n THEN RetryPattern[n] ELSE chosen
  IN  IF seconds # 0 THEN {seconds}
      ELSE MapThenFoldSet(Longer, {RetryInterval}, LAMBDA n : n, Max, DOMAIN RetryPattern)

Postpone(r, s) == [r EXCEPT !.eta = now + s]

(* What the wait is to be: of the last entry of the pattern reached.       *)
LeastWait(seconds, retry) ==
  LET reached == {n \in DOMAIN RetryPattern : n <= retry}
  IN  IF seconds # 0 THEN seconds
      ELSE IF reached = {} THEN RetryInterval
      ELSE Min(RetryPattern[Max(reached)])
-----------------------------------------------------------------------------
(* The runner.                                                             *)

(* The runner reads the row.                                               *)
RunnerReads ==
  /\ seen' = (row.state = "pending")
  /\ UNCHANGED <<row, mem, pc, now, attempts, raised, due, enqueuedLast>>

(* What the runner may hand out: the job is pending in its view, and the   *)
(* eta it has read is over.  The row may be done by now, with that eta.    *)
HandsOut == seen /\ row.state # "absent" /\ row.eta <= now

(* Mutant of Enqueue: the date stays.                                      *)
EnqueueUndated ==
  /\ HandsOut
  /\ row' = [row EXCEPT !.state = "enqueued"]
  /\ enqueuedLast' = now
  /\ seen' = FALSE
  /\ UNCHANGED <<mem, pc, now, attempts, raised, due>>

(* set_job_enqueued, once the channel no longer holds the job back: it     *)
(* does not look at the state of the row.                                  *)
Enqueue ==
  /\ HandsOut
  /\ row' = [row EXCEPT !.state = "enqueued", !.enqueued = now]
  /\ enqueuedLast' = now
  /\ seen' = FALSE
  /\ UNCHANGED <<mem, pc, now, attempts, raised, due>>

(* set_job_pending: the GET failed.                                        *)
GetFails ==
  /\ row.state = "enqueued"
  /\ row' = [row EXCEPT !.state = "pending", !.enqueued = 0, !.started = 0]
  /\ UNCHANGED <<mem, pc, now, attempts, raised, due, enqueuedLast, seen>>
-----------------------------------------------------------------------------
(* The worker: runjob.                                                     *)

Start ==
  /\ pc = "idle"
  /\ row.state = "enqueued"
  /\ attempts < MaxAttempts
  /\ row' = SetStarted(row)
  /\ mem' = row'
  /\ pc' = "performing"
  /\ attempts' = attempts + 1
  /\ UNCHANGED <<now, raised, due, enqueuedLast, seen>>

Running == pc \in {"performing", "stale"}

(* job.store(): all the fields at once, in a new row if there is none.     *)
Store(r) ==
  /\ row' = r
  /\ mem' = r
  /\ pc' = "idle"

(* perform() returns, or raises NothingToDoJob.                            *)
Succeeds ==
  /\ pc = "performing"
  /\ Store(SetDone(Tried(mem)))
  /\ UNCHANGED <<now, attempts, raised, due, enqueuedLast, seen>>

(* retry_postpone                                                          *)
RetryPostpone(r, seconds) ==
  /\ \E s \in RetrySeconds(seconds, r.retry) :
       Store(SetPending(Postpone(r, s), FALSE))
  /\ due' = now + LeastWait(seconds, r.retry)

(* perform() raises a RetryableJobError with ignore_retry.                 *)
RaisesIgnored ==
  /\ Running
  /\ \E seconds \in ErrorSeconds : RetryPostpone(mem, seconds)
  /\ UNCHANGED <<now, attempts, raised, enqueuedLast, seen>>

ReachesMaxRetries == MaxRetries # 0 /\ mem.retry + 1 >= MaxRetries

(* perform() raises a RetryableJobError, and has tries left.               *)
RaisesRetryable ==
  /\ Running
  /\ ~ReachesMaxRetries
  /\ \E seconds \in ErrorSeconds : RetryPostpone(Tried(mem), seconds)
  /\ raised' = raised + 1
  /\ UNCHANGED <<now, attempts, enqueuedLast, seen>>

(* It raises any other exception, or its last RetryableJobError.           *)
Fails ==
  /\ Running
  /\ Store(SetFailed(Tried(mem)))
  /\ \/ UNCHANGED raised
     \/ ReachesMaxRetries /\ raised' = raised + 1
  /\ UNCHANGED <<now, attempts, due, enqueuedLast, seen>>

(* A serialization error: with the writer of the row if the Job object is  *)
(* stale, or with any other transaction.                                   *)
Conflicts ==
  /\ Running
  /\ RetryPostpone(Tried(mem), PgRetry)
  /\ UNCHANGED <<now, attempts, raised, enqueuedLast, seen>>

(* The worker dies; or NothingToDoJob, and set_done is refused.            *)
Vanishes ==
  /\ Running
  /\ pc' = "idle"
  /\ UNCHANGED <<row, mem, now, attempts, raised, due, enqueuedLast, seen>>
-----------------------------------------------------------------------------
(* Users and crons.                                                        *)

Outdate == pc' = IF Running THEN "stale" ELSE pc

(* requeue, of a job that does not run.                                    *)
Requeue ==
  /\ row.state # "absent"
  /\ ~Running
  /\ row' = SetPending(row, TRUE)
  /\ raised' = 0
  /\ UNCHANGED <<mem, pc, now, attempts, due, enqueuedLast, seen>>

ButtonDone ==
  /\ row.state # "absent"
  /\ row' = SetDone(row)
  /\ Outdate
  /\ UNCHANGED <<mem, now, attempts, raised, due, enqueuedLast, seen>>

(* requeue_stuck_jobs, the cron of the garbage collector.                  *)
RequeueStuck ==
  /\ row.state = "enqueued"
  /\ row.enqueued # 0 /\ row.enqueued <= now - StuckDelta
  /\ row' = SetPending(row, TRUE)
  /\ raised' = 0
  /\ UNCHANGED <<mem, pc, now, attempts, due, enqueuedLast, seen>>

(* autovacuum: it searches by date_done alone.                             *)
Autovacuum ==
  /\ row.done # 0 /\ row.done <= now - RemovalInterval
  /\ row' = Absent
  /\ Outdate
  /\ UNCHANGED <<mem, now, attempts, raised, due, enqueuedLast, seen>>

Tick ==
  /\ now < MaxTime
  /\ now' = now + 1
  /\ UNCHANGED <<row, mem, pc, attempts, raised, due, enqueuedLast, seen>>

Next ==
  \/ RunnerReads \/ Enqueue \/ GetFails
  \/ Start \/ Succeeds \/ RaisesIgnored \/ RaisesRetryable \/ Fails \/ Conflicts
  \/ Vanishes
  \/ Requeue \/ ButtonDone \/ RequeueStuck \/ Autovacuum
  \/ Tick

Spec == Init /\ [][Next]_vars
-----------------------------------------------------------------------------
TypeOK ==
  /\ row \in Fields /\ mem \in Fields
  /\ pc \in {"idle", "performing", "stale"}
  /\ {now, attempts, raised, due, enqueuedLast} \subseteq Nat
  /\ seen \in BOOLEAN

(* The fields the crons and the worker rely on: an enqueued row bears the  *)
(* date of its last enqueueing, by which the garbage collector finds it;   *)
(* a done row bears the date by which the autovacuum does; a worker that   *)
(* may still store its Job object holds what is stored.                    *)
RecordConsistent ==
  /\ TypeOK
  /\ row.state = "enqueued" => row.enqueued = enqueuedLast
  /\ row.state = "done" => row.done # 0
  /\ row.state = "pending" => row.enqueued = 0 /\ row.started = 0
  /\ pc = "performing" => mem = row

(* A job that still waits has not raised max_retries RetryableJobErrors    *)
(* since it was last reset, whatever was stored in between: set to done,   *)
(* vacuumed and stored again, conflicts, attempts that died.               *)
LimitEnforced ==
  MaxRetries # 0 /\ row.state \in {"pending", "enqueued"} => raised < MaxRetries

(* A postponed job is not enqueued again before its retry pattern or its   *)
(* error says so, also when somebody requeues it or sets it done.          *)
ScheduleKept ==
  [][row.state # "enqueued" /\ row'.state = "enqueued" => due <= now]_vars
=============================================================================
