----------------------------- MODULE IdentityKey -----------------------------
(***************************************************************************)
(* with_delay(identity_key=...): Job.enqueue (job.py) looks for a job that *)
(* waits with the same key and creates none if there is one.  The callers  *)
(* are Odoo transactions, which read a snapshot (REPEATABLE READ) and      *)
(* commit later.  All the jobs here have the same key.                     *)
(***************************************************************************)
EXTENDS FiniteSets

CONSTANTS Job, Caller,
          NoJob      (* what a transaction has created so far: nothing     *)

ASSUME KeyAssumption == NoJob \notin Job

VARIABLES state,     (* of the committed rows                              *)
          tx,        (* what each caller's transaction does                *)
          view,      (* jobs the runner takes for pending                  *)
          visible,   (* history: for each job, what its creator could see  *)
          back       (* history: jobs that waited no longer, and were put  *)
                     (* back                                               *)

keyVars == <<state, tx, view, visible, back>>

(* "over" is done, failed or deleted: a worker may store a deleted job     *)
(* again.                                                                  *)
State == {"absent", "pending", "enqueued", "started", "over"}

Closed == [open |-> FALSE, rows |-> [j \in Job |-> "absent"], new |-> NoJob]

KeyTypeOK ==
  /\ state \in [Job -> State]
  /\ tx \in [Caller -> [open : BOOLEAN, rows : [Job -> State], new : Job \cup {NoJob}]]
  /\ view \subseteq Job
  /\ visible \in [Job -> SUBSET Job]
  /\ back \subseteq Job

KeyInit ==
  /\ state = [j \in Job |-> "absent"]
  /\ tx = [t \in Caller |-> Closed]
  /\ view = {}
  /\ visible = [j \in Job |-> {}]
  /\ back = {}

(* What enqueue() can tell apart in a snapshot.                            *)
Snapshot ==
  [j \in Job |-> IF state[j] = "started" THEN "over" ELSE state[j]]

(* The first query of a transaction takes its snapshot.                    *)
Begin(t) ==
  /\ ~tx[t].open
  /\ tx' = [tx EXCEPT ![t] = [open |-> TRUE, rows |-> Snapshot, new |-> NoJob]]
  /\ UNCHANGED <<state, view, visible, back>>

(* Mutant of SameKey: the search is for pending jobs only.                 *)
SameKeyPending(t) == {j \in Job : tx[t].rows[j] = "pending"}

(* job_record_with_same_identity_key                                       *)
SameKey(t) == {j \in Job : tx[t].rows[j] \in {"pending", "enqueued"}}

(* A uuid4 that no transaction uses.                                       *)
Fresh(j) ==
  /\ state[j] = "absent" /\ j \notin back /\ visible[j] = {}
  /\ \A t \in Caller : tx[t].new # j

(* store() in the transaction, which then sees the row itself.             *)
Stored(t, j) ==
  [open |-> TRUE, rows |-> [tx[t].rows EXCEPT ![j] = "pending"], new |-> j]

(* Job.enqueue: the existing job is returned, or a new one is stored in    *)
(* the transaction.  A second call finds the job of the first.             *)
EnqueueOnce(t) ==
  /\ tx[t].open
  /\ SameKey(t) = {}
  /\ \E j \in Job :
       /\ Fresh(j)
       /\ tx' = [tx EXCEPT ![t] = Stored(t, j)]
       /\ visible' = [visible EXCEPT ![j] = {i \in Job : tx[t].rows[i] # "absent"}]
  /\ UNCHANGED <<state, view, back>>

Commit(t) ==
  /\ tx[t].open
  /\ state' = [j \in Job |-> IF j = tx[t].new THEN "pending" ELSE state[j]]
  /\ tx' = [tx EXCEPT ![t] = Closed]
  /\ UNCHANGED <<view, visible, back>>

Rollback(t) ==
  /\ tx[t].open
  /\ tx' = [tx EXCEPT ![t] = Closed]
  /\ visible' = [j \in Job |-> IF j = tx[t].new THEN {} ELSE visible[j]]
  /\ UNCHANGED <<state, view, back>>

(* The rest of the life of a job, see JobRunner.tla: it is started or reset *)
(* once it is enqueued, and ends once it is started.                       *)
Proceed(j) ==
  /\ \/ state[j] = "enqueued"
          /\ \E s \in {"pending", "started"} : state' = [state EXCEPT ![j] = s]
     \/ state[j] = "started" /\ state' = [state EXCEPT ![j] = "over"]
  /\ UNCHANGED <<tx, view, visible, back>>

(* button_done, unlink, or the outcome of a worker that was overtaken: no  *)
(* guard on the state.                                                     *)
SetOver(j) ==
  /\ state[j] # "absent"
  /\ state' = [state EXCEPT ![j] = "over"]
  /\ UNCHANGED <<tx, view, visible, back>>

(* The runner reads the row.                                               *)
Notified(j) ==
  /\ view' = IF state[j] = "pending" THEN view \cup {j} ELSE view \ {j}
  /\ UNCHANGED <<state, tx, visible, back>>

Gone(j) == state[j] \in {"started", "over"}

PutBackIfGone(j) == back' = IF Gone(j) THEN back \cup {j} ELSE back

(* set_job_enqueued writes the row of a job the runner takes for pending   *)
(* without looking at its state.                                           *)
SetJobEnqueued(j) ==
  /\ j \in view
  /\ state[j] # "absent"
  /\ state' = [state EXCEPT ![j] = "enqueued"]
  /\ view' = view \ {j}
  /\ PutBackIfGone(j)
  /\ UNCHANGED <<tx, visible>>

(* retry_postpone, requeue: any row.                                       *)
PutBack(j) ==
  /\ state[j] # "absent"
  /\ state' = [state EXCEPT ![j] = "pending"]
  /\ PutBackIfGone(j)
  /\ UNCHANGED <<tx, view, visible>>

KeyNext ==
  \/ \E t \in Caller : Begin(t) \/ EnqueueOnce(t) \/ Commit(t) \/ Rollback(t)
  \/ \E j \in Job :
       Proceed(j) \/ SetOver(j) \/ Notified(j) \/ SetJobEnqueued(j) \/ PutBack(j)

KeySpec == KeyInit /\ [][KeyNext]_keyVars
-----------------------------------------------------------------------------
Waiting == {j \in Job : state[j] \in {"pending", "enqueued"}}

(* Two jobs wait with one key only if neither creator could see the job of *)
(* the other, or if the one that was seen waited no longer, as it had      *)
(* started, had ended or was set done, and somebody put it back: by a      *)
(* retry, a requeue, or the runner with an outdated view of its row.       *)
DuplicatesExplained ==
  /\ KeyTypeOK
  /\ \A i, j \in Waiting : i # j /\ i \in visible[j] => i \in back
=============================================================================
