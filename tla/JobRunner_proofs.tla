-------------------------- MODULE JobRunner_proofs --------------------------
(***************************************************************************)
(* For all finite sets of jobs and workers, every capacity of the root     *)
(* channel and every choice of disturbances: the runner's view of the rows *)
(* is right up to the notifications on their way, the rows enqueued or     *)
(* started never exceed the capacity, and no job is executed more often    *)
(* than its creation and its requeues pay for.                             *)
(***************************************************************************)
EXTENDS JobRunner, FiniteSetTheorems, TLAPS

(* What a worker does in its transaction, it does for a job.               *)
LEMMA WorkedOnIsJob ==
  ASSUME TypeOK, NEW w \in Worker, work[w].pc # "idle"
  PROVE  work[w] \in Task /\ work[w].job \in Job
  BY DEF TypeOK, Task, Idle

LEMMA OutdatedType ==
  ASSUME TypeOK, NEW j \in Job
  PROVE  /\ Outdated(j) \in [Worker -> Task \cup {Idle}]
         /\ \A w \in Worker : Release(w, j) \in [Worker -> Task \cup {Idle}]
<1>1. Outdated(j) \in [Worker -> Task \cup {Idle}]
  BY DEF TypeOK, Outdated, Task
<1>2. QED
  BY <1>1 DEF Release

LEMMA WriteType ==
  ASSUME TypeOK, NEW j \in Job, NEW s \in RowState, Write(j, s)
  PROVE  row' \in [Job -> RowState] /\ notes' \subseteq Job
  BY DEF TypeOK, Write, Notify

LEMMA ResetRowType ==
  ASSUME TypeOK, NEW j \in Job, ResetRow(j)
  PROVE  row' \in [Job -> RowState] /\ notes' \subseteq Job
<1>1. CASE row[j] = "enqueued"
  BY <1>1, WriteType DEF ResetRow, RowState
<1>2. CASE row[j] # "enqueued"
  BY <1>2 DEF ResetRow, TypeOK
<1>3. QED
  BY <1>1, <1>2

LEMMA TakeRequestType ==
  ASSUME TypeOK, NEW j \in Job, TakeRequest(j)
  PROVE  /\ sent' \in [Job -> Nat]
         /\ orphan' \in [Job -> Nat]
         /\ unanswered' \in [Job -> Nat]
  BY DEF TypeOK, TakeRequest

LEMMA DisturbType ==
  ASSUME TypeOK, NEW kind, Disturb(kind)
  PROVE  faults' \in Nat
  BY DEF TypeOK, Disturb

LEMMA NextType == TypeOK /\ [Next]_vars => TypeOK'
<1> SUFFICES ASSUME TypeOK, [Next]_vars PROVE TypeOK'
  OBVIOUS
<1> USE DEF view, gets
<1>1. ASSUME NEW j \in Job, Create(j) PROVE TypeOK'
  <2>1. row' \in [Job -> RowState] /\ notes' \subseteq Job
    BY <1>1, WriteType DEF Create, RowState
  <2>2. QED
    BY <1>1, <2>1 DEF Create, TypeOK
<1>2. ASSUME NEW j \in Job, Requeue(j) PROVE TypeOK'
  <2>1. row' \in [Job -> RowState] /\ notes' \subseteq Job
    BY <1>2, WriteType DEF Requeue, RowState
  <2>2. work' \in [Worker -> Task \cup {Idle}] /\ faults' \in Nat
    BY <1>2, OutdatedType, DisturbType DEF Requeue
  <2>3. requeues' \in [Job -> Nat]
    BY <1>2 DEF Requeue, TypeOK
  <2>4. QED
    BY <1>2, <2>1, <2>2, <2>3 DEF Requeue, TypeOK
<1>3. ASSUME NEW j \in Job, SetDone(j) PROVE TypeOK'
  <2>1. row' \in [Job -> RowState] /\ notes' \subseteq Job
    BY <1>3, WriteType DEF SetDone, RowState
  <2>2. work' \in [Worker -> Task \cup {Idle}] /\ faults' \in Nat
    BY <1>3, OutdatedType, DisturbType DEF SetDone
  <2>3. QED
    BY <1>3, <2>1, <2>2 DEF SetDone, TypeOK
<1>4. ASSUME NEW j \in Job, Delete(j) PROVE TypeOK'
  <2>1. row' \in [Job -> RowState] /\ notes' \subseteq Job
    BY <1>4 DEF Delete, Notify, TypeOK, RowState
  <2>2. work' \in [Worker -> Task \cup {Idle}] /\ faults' \in Nat
    BY <1>4, OutdatedType, DisturbType DEF Delete
  <2>3. QED
    BY <1>4, <2>1, <2>2 DEF Delete, TypeOK
<1>5. ASSUME NEW j \in Job, RequeueStuck(j) PROVE TypeOK'
  <2>1. row' \in [Job -> RowState] /\ notes' \subseteq Job
    BY <1>5, WriteType DEF RequeueStuck, RowState
  <2>2. QED
    BY <1>5, <2>1 DEF RequeueStuck, TypeOK
<1>6. ASSUME Listen PROVE TypeOK'
  BY <1>6 DEF Listen, TypeOK
<1>7. ASSUME SelectJobs PROVE TypeOK'
  BY <1>7 DEF SelectJobs, ActiveRows, TypeOK
<1>8. ASSUME NEW j \in Job, ProcessNotification(j) PROVE TypeOK'
  <2>1. waiting' \subseteq Job /\ active' \subseteq Job /\ notes' \subseteq Job
    BY <1>8 DEF ProcessNotification, ViewRunning, TypeOK
  <2>2. QED
    BY <1>8, <2>1 DEF ProcessNotification, TypeOK
<1>9. ASSUME NEW j \in Job, Dispatch(j) PROVE TypeOK'
  <2>1. /\ row' \in [Job -> RowState] /\ notes' \subseteq Job
        /\ work' \in [Worker -> Task \cup {Idle}]
    <3>1. CASE row[j] = "absent"
      BY <1>9, <3>1 DEF Dispatch, TypeOK
    <3>2. CASE row[j] # "absent"
      BY <1>9, <3>2, WriteType, OutdatedType DEF Dispatch, RowState
    <3>3. QED
      BY <3>1, <3>2
  <2>2. waiting' \subseteq Job /\ active' \subseteq Job /\ sent' \in [Job -> Nat]
    BY <1>9 DEF Dispatch, TypeOK
  <2>3. QED
    BY <1>9, <2>1, <2>2 DEF Dispatch, TypeOK
<1>10. ASSUME RunnerFails PROVE TypeOK'
  <2>1. faults' \in Nat
    BY <1>10, DisturbType DEF RunnerFails
  <2>2. /\ sent' \in [Job -> Nat]
        /\ orphan' \in [Job -> Nat]
        /\ unanswered' \in [Job -> Nat]
    BY <1>10 DEF RunnerFails, TypeOK
  <2>3. QED
    BY <1>10, <2>1, <2>2 DEF RunnerFails, TypeOK
<1>11. ASSUME NEW j \in Job, ClientReset(j) PROVE TypeOK'
  <2>1. row' \in [Job -> RowState] /\ notes' \subseteq Job
    BY <1>11, ResetRowType DEF ClientReset
  <2>2. faults' \in Nat
    BY <1>11, DisturbType DEF ClientReset, TypeOK
  <2>3. /\ sent' \in [Job -> Nat]
        /\ orphan' \in [Job -> Nat]
        /\ unanswered' \in [Job -> Nat]
    BY <1>11 DEF ClientReset, TypeOK
  <2>4. QED
    BY <1>11, <2>1, <2>2, <2>3 DEF ClientReset, TypeOK
<1>12. ASSUME NEW j \in Job, ClientReturns(j) PROVE TypeOK'
  BY <1>12 DEF ClientReturns, TypeOK
<1>13. ASSUME NEW w \in Worker, NEW j \in Job, Begin(w, j) PROVE TypeOK'
  <2>1. row' \in [Job -> RowState] /\ notes' \subseteq Job
    BY <1>13, WriteType DEF Begin, RowState
  <2>2. work' \in [Worker -> Task \cup {Idle}]
    BY <1>13 DEF Begin, TypeOK, Task
  <2>3. QED
    BY <1>13, <2>1, <2>2, TakeRequestType DEF Begin, TypeOK
<1>14. ASSUME NEW j \in Job, Refuse(j) PROVE TypeOK'
  BY <1>14, TakeRequestType DEF Refuse, TypeOK
<1>15. ASSUME NEW j \in Job, LoseRequest(j) PROVE TypeOK'
  <2>1. row' \in [Job -> RowState] /\ notes' \subseteq Job
    BY <1>15, ResetRowType DEF LoseRequest, TypeOK
  <2>2. faults' \in Nat
    BY <1>15, DisturbType DEF LoseRequest
  <2>3. sent' \in [Job -> Nat] /\ orphan' \in [Job -> Nat]
    BY <1>15 DEF LoseRequest, TypeOK
  <2>4. QED
    BY <1>15, <2>1, <2>2, <2>3 DEF LoseRequest, TypeOK
<1>16. ASSUME NEW w \in Worker, Snapshot(w) PROVE TypeOK'
  <2>1. work[w] \in Task
    BY <1>16, WorkedOnIsJob DEF Snapshot
  <2>2. work' \in [Worker -> Task \cup {Idle}]
    BY <1>16, <2>1 DEF Snapshot, TypeOK, Task
  <2>3. QED
    BY <1>16, <2>2 DEF Snapshot, TypeOK
<1>17. ASSUME NEW w \in Worker, Finish(w) PROVE TypeOK'
  <2> DEFINE j == work[w].job
  <2>1. j \in Job
    BY <1>17, WorkedOnIsJob DEF Finish, FinishDone, RetryPostpone, FinishFailed, Abandon
  <2>2. CASE Abandon(w)
    BY <2>2 DEF Abandon, TypeOK
  <2>3. ASSUME FinishDone(w) \/ RetryPostpone(w) \/ FinishFailed(w) PROVE TypeOK'
    <3>1. row' \in [Job -> RowState] /\ notes' \subseteq Job
      BY <2>1, <2>3, WriteType DEF FinishDone, RetryPostpone, FinishFailed, RowState
    <3>2. work' \in [Worker -> Task \cup {Idle}]
      BY <2>1, <2>3, OutdatedType DEF FinishDone, RetryPostpone, FinishFailed
    <3>3. faults' \in Nat /\ commits' \in [Job -> Nat]
      BY <2>1, <2>3, DisturbType DEF FinishDone, RetryPostpone, FinishFailed, TypeOK
    <3>4. QED
      BY <2>3, <3>1, <3>2, <3>3 DEF FinishDone, RetryPostpone, FinishFailed, TypeOK
  <2>4. QED
    BY <1>17, <2>2, <2>3 DEF Finish
<1>18. ASSUME NEW w \in Worker, WorkerDies(w) PROVE TypeOK'
  BY <1>18, DisturbType DEF WorkerDies, TypeOK
<1>19. CASE UNCHANGED vars
  BY <1>19 DEF vars, TypeOK
<1>20. QED
  BY <1>1, <1>2, <1>3, <1>4, <1>5, <1>6, <1>7, <1>8, <1>9, <1>10, <1>11, <1>12,
     <1>13, <1>14, <1>15, <1>16, <1>17, <1>18, <1>19 DEF Next

LEMMA InitType == Init => TypeOK
  BY DEF Init, TypeOK, RowState

(* Every variable keeps its type through every action.                     *)
THEOREM TypesKept == Spec => []TypeOK
  BY InitType, NextType, PTL DEF Spec
-----------------------------------------------------------------------------
LEMMA ViewFinite ==
  ASSUME TypeOK
  PROVE  /\ IsFiniteSet(active) /\ Cardinality(active) \in Nat
         /\ IsFiniteSet(ActiveRows) /\ Cardinality(ActiveRows) \in Nat
<1>1. active \in SUBSET Job /\ ActiveRows \in SUBSET Job /\ IsFiniteSet(Job)
  BY RunnerAssumption DEF TypeOK, ActiveRows
<1>2. QED
  BY <1>1, FS_Subset, FS_CardinalityType

(* Fewer rows enqueued or started, and a view with fewer jobs that run,    *)
(* stay within the capacity.                                               *)
LEMMA FewerWithinCapacity ==
  ASSUME TypeOK, TypeOK', WithinCapacity,
         ActiveRows' \subseteq ActiveRows, active' \subseteq active
  PROVE  WithinCapacity'
<1>1. /\ Cardinality(ActiveRows') <= Cardinality(ActiveRows)
      /\ Cardinality(active') <= Cardinality(active)
  BY ViewFinite, FS_Subset
<1>2. /\ Cardinality(ActiveRows') \in Nat
      /\ Cardinality(active') \in Nat
  <2>1. IsFiniteSet(ActiveRows') /\ IsFiniteSet(active')
    BY ViewFinite, FS_Subset
  <2>2. QED
    BY <2>1, FS_CardinalityType
<1>3. QED
  BY <1>1, <1>2, ViewFinite, RunnerAssumption DEF WithinCapacity

(* A step that leaves rows, notifications and view alone.                  *)
LEMMA NoRowChange ==
  ASSUME RunnerInv, TypeOK', UNCHANGED <<row, notes, phase, view>>
  PROVE  RunnerInv'
  BY DEF RunnerInv, WithinCapacity, ActiveRowsOccupy, NothingMissed,
         ViewAgrees, ActiveRows, ActiveRow, view

(* A step that takes a job out of the enqueued and started ones, or leaves *)
(* it outside, and notifies the runner.                                    *)
LEMMA WriteInactive ==
  ASSUME RunnerInv, TypeOK', NEW j \in Job,
         NEW s \in RowState \ {"enqueued", "started"}, Write(j, s),
         UNCHANGED <<phase, view>>
  PROVE  RunnerInv'
<1>1. \A k \in Job : row'[k] = IF k = j THEN s ELSE row[k]
  BY DEF Write, RunnerInv, TypeOK
<1>2. ActiveRows' \subseteq ActiveRows
  BY <1>1 DEF ActiveRows, ActiveRow, RowState
<1>3. WithinCapacity'
  BY <1>2, FewerWithinCapacity DEF RunnerInv, view
<1>4. ActiveRowsOccupy'
  BY <1>2 DEF RunnerInv, ActiveRowsOccupy, view
<1>5. NothingMissed'
  <2> SUFFICES ASSUME phase' = "ready", NEW k \in Job, k \notin notes'
               PROVE  ViewAgrees(k)'
    BY DEF NothingMissed
  <2>1. phase = "ready" /\ notes' = notes \cup {j}
    BY DEF Write, Notify
  <2>2. k # j /\ k \notin notes
    BY <2>1
  <2>3. ViewAgrees(k) /\ row'[k] = row[k]
    BY <1>1, <2>1, <2>2 DEF RunnerInv, NothingMissed
  <2>4. QED
    BY <2>3 DEF ViewAgrees, ActiveRow, view
<1>6. QED
  BY <1>3, <1>4, <1>5 DEF RunnerInv, view

LEMMA ResetKeepsInv ==
  ASSUME RunnerInv, TypeOK', NEW j \in Job, ResetRow(j), UNCHANGED <<phase, view>>
  PROVE  RunnerInv'
<1>1. CASE row[j] = "enqueued"
  BY <1>1, WriteInactive DEF ResetRow, RowState
<1>2. CASE row[j] # "enqueued"
  BY <1>2, NoRowChange DEF ResetRow
<1>3. QED
  BY <1>1, <1>2

(* unlink is silent for a done row: the manager thinks of a done row what  *)
(* it thinks of one that is not there.                                     *)
LEMMA DeleteKeepsInv ==
  ASSUME RunnerInv, TypeOK', NEW j \in Job, Delete(j)
  PROVE  RunnerInv'
<1>1. CASE row[j] = "done"
  <2>1. \A k \in Job : row'[k] = IF k = j THEN "absent" ELSE row[k]
    BY DEF Delete, RunnerInv, TypeOK
  <2>2. UNCHANGED <<notes, phase, waiting, active>>
    BY <1>1 DEF Delete, view
  <2>3. ActiveRows' = ActiveRows
    BY <1>1, <2>1 DEF ActiveRows, ActiveRow
  <2>4. \A k \in Job : ViewAgrees(k) => ViewAgrees(k)'
    BY <1>1, <2>1, <2>2 DEF ViewAgrees, ActiveRow
  <2>5. QED
    BY <2>2, <2>3, <2>4
       DEF RunnerInv, WithinCapacity, ActiveRowsOccupy, NothingMissed
<1>2. CASE row[j] # "done"
  BY <1>2, WriteInactive DEF Delete, Write, RowState
<1>3. QED
  BY <1>1, <1>2

(* Between LISTEN and the select every write is notified, and the select   *)
(* sees the others: the view starts right.                                 *)
LEMMA SelectJobsKeepsInv ==
  ASSUME RunnerInv, TypeOK', SelectJobs
  PROVE  RunnerInv'
<1>1. ActiveRows' = ActiveRows /\ active' = ActiveRows
  BY DEF SelectJobs, ActiveRows, ActiveRow
<1>2. WithinCapacity'
  BY <1>1 DEF RunnerInv, WithinCapacity
<1>3. \A j \in Job : ViewAgrees(j)'
  BY DEF SelectJobs, ViewAgrees, ActiveRows, ActiveRow
<1>4. waiting' \cap active' = {}
  BY DEF SelectJobs, ActiveRows, ActiveRow
<1>5. QED
  BY <1>1, <1>2, <1>3, <1>4 DEF RunnerInv, ActiveRowsOccupy, NothingMissed

(* The notification of a job that was enqueued or started since changes    *)
(* nothing: its job occupies its place already.                            *)
LEMMA ProcessNotificationKeepsInv ==
  ASSUME RunnerInv, TypeOK', NEW j \in Job, ProcessNotification(j)
  PROVE  RunnerInv'
<1>1. /\ UNCHANGED <<row, phase>> /\ phase = "ready"
      /\ notes' = notes \ {j}
  BY DEF ProcessNotification
<1>2. row[j] \in RowState /\ ActiveRows' = ActiveRows
  BY <1>1 DEF RunnerInv, TypeOK, ActiveRows, ActiveRow
<1>3. CASE ActiveRow(j)
  <2>1. j \in active /\ j \notin waiting
    BY <1>1, <1>3 DEF RunnerInv, ActiveRowsOccupy, ActiveRows
  <2>2. UNCHANGED <<waiting, active>>
    BY <1>3, <2>1 DEF ProcessNotification, ActiveRow, ViewRunning, view
  <2>3. \A k \in Job : k \notin notes' => ViewAgrees(k)'
    BY <1>1, <1>3, <2>1, <2>2
       DEF ViewAgrees, ActiveRow, RunnerInv, NothingMissed
  <2>4. QED
    BY <1>1, <1>2, <2>2, <2>3
       DEF RunnerInv, WithinCapacity, ActiveRowsOccupy, NothingMissed
<1>4. CASE ~ActiveRow(j)
  <2>1. /\ active' = active \ {j}
        /\ waiting' = IF row[j] = "pending" THEN waiting \cup {j}
                                            ELSE waiting \ {j}
    BY <1>4 DEF ProcessNotification
  <2>2. WithinCapacity'
    BY <1>2, <2>1, FewerWithinCapacity DEF RunnerInv
  <2>3. ActiveRowsOccupy'
    BY <1>1, <1>2, <1>4, <2>1 DEF RunnerInv, ActiveRowsOccupy, ActiveRows
  <2>4. waiting' \cap active' = {}
    BY <2>1 DEF RunnerInv
  <2>5. \A k \in Job : k \notin notes' => ViewAgrees(k)'
    <3> SUFFICES ASSUME NEW k \in Job, k \notin notes' PROVE ViewAgrees(k)'
      OBVIOUS
    <3>1. CASE k = j
      BY <1>1, <1>4, <2>1, <3>1 DEF ViewAgrees, ActiveRow
    <3>2. CASE k # j
      <4>1. ViewAgrees(k)
        BY <1>1, <3>2 DEF RunnerInv, NothingMissed
      <4>2. (k \in waiting' <=> k \in waiting) /\ (k \in active' <=> k \in active)
        BY <2>1, <3>2
      <4>3. QED
        BY <1>1, <4>1, <4>2 DEF ViewAgrees, ActiveRow
    <3>3. QED
      BY <3>1, <3>2
  <2>6. QED
    BY <2>2, <2>3, <2>4, <2>5 DEF RunnerInv, NothingMissed
<1>5. QED
  BY <1>3, <1>4

(* The room the manager sees is room there is: the rows that are enqueued  *)
(* or started after it are among its running jobs.                         *)
LEMMA DispatchKeepsInv ==
  ASSUME RunnerInv, TypeOK', NEW j \in Job, Dispatch(j)
  PROVE  RunnerInv'
<1>1. /\ phase = "ready" /\ phase' = phase
      /\ j \in waiting /\ j \notin active
      /\ waiting' = waiting \ {j} /\ active' = active \cup {j}
  BY DEF Dispatch, RunnerInv
<1>2. ActiveRows \subseteq active
  BY <1>1 DEF RunnerInv, ActiveRowsOccupy
<1>3. ActiveRows' \subseteq active'
  <2>1. CASE row[j] = "absent"
    BY <1>1, <1>2, <2>1 DEF Dispatch, ActiveRows, ActiveRow
  <2>2. CASE row[j] # "absent"
    <3>1. \A k \in Job : k # j => row'[k] = row[k]
      BY <2>2 DEF Dispatch, Write, RunnerInv, TypeOK
    <3>2. QED
      BY <1>1, <1>2, <3>1 DEF ActiveRows, ActiveRow
  <2>3. QED
    BY <2>1, <2>2
<1>4. WithinCapacity'
  <2>1. /\ IsFiniteSet(active') /\ Cardinality(active') = Cardinality(active) + 1
    BY <1>1, ViewFinite, FS_AddElement DEF RunnerInv
  <2>2. Cardinality(active') <= Capacity
    BY <2>1, ViewFinite, RunnerAssumption DEF Dispatch, HasSlot, RunnerInv
  <2>3. /\ IsFiniteSet(ActiveRows')
        /\ Cardinality(ActiveRows') <= Cardinality(active')
    BY <1>3, <2>1, FS_Subset
  <2>4. Cardinality(ActiveRows') \in Nat /\ Cardinality(active') \in Nat
    BY <2>1, <2>3, FS_CardinalityType
  <2>5. QED
    BY <2>2, <2>3, <2>4, RunnerAssumption DEF WithinCapacity
<1>5. \A k \in Job : k \notin notes' => ViewAgrees(k)'
  <2> SUFFICES ASSUME NEW k \in Job, k \notin notes' PROVE ViewAgrees(k)'
    OBVIOUS
  <2>1. CASE row[j] = "absent"
    <3>1. row' = row /\ notes' = notes
      BY <2>1 DEF Dispatch
    <3>2. ViewAgrees(k)
      BY <1>1, <3>1 DEF RunnerInv, NothingMissed
    <3>3. k # j
      BY <1>1, <2>1, <3>2 DEF ViewAgrees
    <3>4. QED
      BY <1>1, <3>1, <3>2, <3>3 DEF ViewAgrees, ActiveRow
  <2>2. CASE row[j] # "absent"
    <3>1. notes' = notes \cup {j} /\ \A i \in Job : i # j => row'[i] = row[i]
      BY <1>1, <2>2 DEF Dispatch, Write, Notify, RunnerInv, TypeOK
    <3>2. k # j /\ ViewAgrees(k)
      BY <1>1, <3>1 DEF RunnerInv, NothingMissed
    <3>3. QED
      BY <1>1, <3>1, <3>2 DEF ViewAgrees, ActiveRow
  <2>3. QED
    BY <2>1, <2>2
<1>6. waiting' \cap active' = {}
  BY <1>1 DEF RunnerInv
<1>7. QED
  BY <1>1, <1>3, <1>4, <1>5, <1>6 DEF RunnerInv, ActiveRowsOccupy, NothingMissed

(* Only an enqueued row is started.                                        *)
LEMMA BeginKeepsInv ==
  ASSUME RunnerInv, TypeOK', NEW w \in Worker, NEW j \in Job, Begin(w, j)
  PROVE  RunnerInv'
<1>1. /\ row[j] = "enqueued"
      /\ UNCHANGED <<phase, waiting, active>>
      /\ \A k \in Job : row'[k] = IF k = j THEN "started" ELSE row[k]
  BY DEF Begin, Write, view, RunnerInv, TypeOK
<1>2. ActiveRows' = ActiveRows
  BY <1>1 DEF ActiveRows, ActiveRow
<1>3. \A k \in Job : ViewAgrees(k) => ViewAgrees(k)'
  BY <1>1 DEF ViewAgrees, ActiveRow
<1>4. phase = "ready" => notes \subseteq notes'
  BY DEF Begin, Write, Notify
<1>5. QED
  BY <1>1, <1>2, <1>3, <1>4
     DEF RunnerInv, WithinCapacity, ActiveRowsOccupy, NothingMissed
LEMMA NextKeepsInv == RunnerInv /\ [Next]_vars => RunnerInv'
<1> SUFFICES ASSUME RunnerInv, [Next]_vars PROVE RunnerInv'
  OBVIOUS
<1> USE NextType DEF gets
<1>0. TypeOK /\ TypeOK'
  BY DEF RunnerInv
<1>1. ASSUME NEW j \in Job,
             \/ Create(j) \/ Requeue(j) \/ SetDone(j) \/ RequeueStuck(j)
      PROVE  RunnerInv'
  BY <1>0, <1>1, WriteInactive
     DEF Create, Requeue, SetDone, RequeueStuck, RowState
<1>2. ASSUME NEW j \in Job, Delete(j) PROVE RunnerInv'
  BY <1>0, <1>2, DeleteKeepsInv
<1>3. ASSUME Listen PROVE RunnerInv'
  <2>1. UNCHANGED <<row, waiting, active>> /\ phase' = "listening"
    BY <1>3 DEF Listen, view
  <2>2. QED
    BY <1>0, <2>1
       DEF RunnerInv, WithinCapacity, ActiveRows, ActiveRow, ActiveRowsOccupy, NothingMissed
<1>4. ASSUME SelectJobs PROVE RunnerInv'
  BY <1>0, <1>4, SelectJobsKeepsInv
<1>5. ASSUME NEW j \in Job, ProcessNotification(j) PROVE RunnerInv'
  BY <1>0, <1>5, ProcessNotificationKeepsInv
<1>6. ASSUME NEW j \in Job, Dispatch(j) PROVE RunnerInv'
  BY <1>0, <1>6, DispatchKeepsInv
<1>7. ASSUME RunnerFails PROVE RunnerInv'
  <2>1. /\ phase' = "down" /\ row' = row
        /\ waiting' = {} /\ active' = {}
    BY <1>7 DEF RunnerFails
  <2>2. ActiveRows' = ActiveRows
    BY <2>1 DEF ActiveRows, ActiveRow
  <2>3. WithinCapacity'
    BY <1>0, <2>1, <2>2, FewerWithinCapacity DEF RunnerInv
  <2>4. QED
    BY <1>0, <2>1, <2>3 DEF RunnerInv, ActiveRowsOccupy, NothingMissed
<1>8. ASSUME NEW j \in Job, ClientReset(j) PROVE RunnerInv'
  BY <1>0, <1>8, ResetKeepsInv DEF ClientReset
<1>9. ASSUME NEW j \in Job, ClientReturns(j) \/ Refuse(j) PROVE RunnerInv'
  BY <1>0, <1>9, NoRowChange DEF ClientReturns, Refuse
<1>10. ASSUME NEW j \in Job, LoseRequest(j) PROVE RunnerInv'
  BY <1>0, <1>10, ResetKeepsInv, NoRowChange DEF LoseRequest
<1>11. ASSUME NEW w \in Worker, NEW j \in Job, Begin(w, j) PROVE RunnerInv'
  BY <1>0, <1>11, BeginKeepsInv
<1>12. ASSUME NEW w \in Worker, Snapshot(w) \/ WorkerDies(w) PROVE RunnerInv'
  BY <1>0, <1>12, NoRowChange DEF Snapshot, WorkerDies
<1>13. ASSUME NEW w \in Worker, Finish(w) PROVE RunnerInv'
  <2>1. CASE Abandon(w)
    BY <1>0, <2>1, NoRowChange DEF Abandon
  <2>2. ASSUME FinishDone(w) \/ RetryPostpone(w) \/ FinishFailed(w) PROVE RunnerInv'
    <3>1. work[w].job \in Job
      BY <1>0, <2>2, WorkedOnIsJob DEF FinishDone, RetryPostpone, FinishFailed
    <3>2. QED
      BY <1>0, <2>2, <3>1, WriteInactive
         DEF FinishDone, RetryPostpone, FinishFailed, RowState
  <2>3. QED
    BY <1>13, <2>1, <2>2 DEF Finish
<1>14. CASE UNCHANGED vars
  BY <1>0, <1>14, NoRowChange DEF vars, view
<1>15. QED
  BY <1>1, <1>2, <1>3, <1>4, <1>5, <1>6, <1>7, <1>8, <1>9, <1>10, <1>11, <1>12,
     <1>13, <1>14 DEF Next

LEMMA InitInv == Init => RunnerInv
<1> SUFFICES ASSUME Init PROVE RunnerInv
  OBVIOUS
<1>1. ActiveRows = {} /\ active = {} /\ waiting = {} /\ phase = "down"
  BY DEF Init, ActiveRows, ActiveRow
<1>2. Cardinality({}) = 0
  BY FS_EmptySet
<1>3. QED
  BY <1>1, <1>2, InitType, RunnerAssumption
     DEF RunnerInv, WithinCapacity, ActiveRowsOccupy, NothingMissed

(* The three invariants below, and what makes them inductive.              *)
THEOREM RunnerInvariant == Spec => []RunnerInv
  BY InitInv, NextKeepsInv, PTL DEF Spec

(* Never more rows enqueued or started than the root channel has room for: *)
(* neither late answers, requeues of jobs that run, lost requests nor      *)
(* restarts of the runner overfill it.                                     *)
THEOREM CapacityKept == Spec => []WithinCapacity
<1>1. RunnerInv => WithinCapacity
  BY DEF RunnerInv
<1>2. QED
  BY <1>1, RunnerInvariant, PTL

(* The runner's manager counts every row that is enqueued or started.      *)
THEOREM ActiveRowsAlwaysOccupy == Spec => []ActiveRowsOccupy
<1>1. RunnerInv => ActiveRowsOccupy
  BY DEF RunnerInv
<1>2. QED
  BY <1>1, RunnerInvariant, PTL

(* A row the manager sees wrongly has a notification on its way.           *)
THEOREM NothingEverMissed == Spec => []NothingMissed
<1>1. RunnerInv => NothingMissed
  BY DEF RunnerInv
<1>2. QED
  BY <1>1, RunnerInvariant, PTL
-----------------------------------------------------------------------------
LEMMA ExecutingFinite ==
  ASSUME NEW S \in SUBSET Worker
  PROVE  IsFiniteSet(S) /\ Cardinality(S) \in Nat
  BY RunnerAssumption, FS_Subset, FS_CardinalityType

LEMMA OutdatedKeepsJobs ==
  ASSUME TypeOK, NEW j \in Job, work' = Outdated(j)
  PROVE  \A k \in Job : Executing(k)' \subseteq Executing(k)
<1>1. \A v \in Worker : work'[v].job = work[v].job
  BY DEF TypeOK, Outdated, Task, Idle
<1>2. QED
  BY <1>1 DEF Executing

(* A step by which nobody begins or commits an execution, and one is owed  *)
(* that was not before only if a requeue paid for it.                      *)
LEMMA QuietKeepsExecution ==
  ASSUME TypeOK, TypeOK', ExecutionInv,
         \A k \in Job : Executing(k)' \subseteq Executing(k),
         commits' = commits,
         \A k \in Job : \/ requeues'[k] = requeues[k] /\ (ToBegin(k)' => ToBegin(k))
                        \/ requeues'[k] = requeues[k] + 1,
         \A k \in Job : row'[k] # "absent" => k \in born',
         born \subseteq born',
         phase' # "ready" => waiting' = {}
  PROVE  ExecutionInv'
<1>0. \A k \in Job : Executing(k)' # {} => k \in born'
  BY DEF ExecutionInv
<1> SUFFICES ASSUME NEW k \in Job
             PROVE  commits'[k] + Cardinality(Executing(k)') + Owed(k)'
                      <= 1 + requeues'[k]
  BY <1>0 DEF ExecutionInv, ExecutionsBought
<1>1. Executing(k) \in SUBSET Worker /\ Executing(k)' \in SUBSET Worker
  BY DEF Executing
<1>2. Cardinality(Executing(k)') <= Cardinality(Executing(k))
  BY <1>1, ExecutingFinite, FS_Subset
<1>3. Cardinality(Executing(k)) \in Nat /\ Cardinality(Executing(k)') \in Nat
  BY <1>1, ExecutingFinite
<1>4. commits[k] \in Nat /\ requeues[k] \in Nat /\ commits'[k] = commits[k]
  BY DEF TypeOK
<1>5. commits[k] + Cardinality(Executing(k)) + Owed(k) <= 1 + requeues[k]
  BY DEF ExecutionInv, ExecutionsBought
<1>6. \/ requeues'[k] = requeues[k] /\ Owed(k)' <= Owed(k)
      \/ requeues'[k] = requeues[k] + 1 /\ Owed(k)' <= Owed(k) + 1
  BY DEF Owed
<1>7. Owed(k) \in {0, 1} /\ Owed(k)' \in {0, 1}
  BY DEF Owed
<1>8. QED
  BY <1>2, <1>3, <1>4, <1>5, <1>6, <1>7

(* A step that ends an execution of j pays for a commit of it, or for one  *)
(* to begin.                                                               *)
LEMMA FinishKeepsExecution ==
  ASSUME TypeOK, TypeOK', ExecutionInv, NEW w \in Worker,
         FinishDone(w) \/ RetryPostpone(w) \/ FinishFailed(w)
  PROVE  ExecutionInv'
<1> DEFINE j == work[w].job
<1>1. j \in Job /\ work[w] \in Task /\ w \in Executing(j)
  BY WorkedOnIsJob DEF FinishDone, RetryPostpone, FinishFailed, Executing
<1>2. /\ \A k \in Job : k # j => row'[k] = row[k]
      /\ work' = Release(w, j)
      /\ UNCHANGED <<born, phase, waiting, requeues>>
  BY <1>1 DEF FinishDone, RetryPostpone, FinishFailed, Write, TypeOK, view
<1>3. \A v \in Worker :
        work'[v].job = IF v = w THEN NoJob ELSE work[v].job
  BY <1>2 DEF Release, Outdated, TypeOK, Task, Idle
<1>4. \A k \in Job : Executing(k)' = Executing(k) \ {w}
  BY <1>3, RunnerAssumption DEF Executing
<1>5. j \in born
  BY <1>1 DEF ExecutionInv
<1>6. \A k \in Job : row'[k] # "absent" \/ Executing(k)' # {} => k \in born'
  BY <1>2, <1>4, <1>5 DEF ExecutionInv
<1>7. ASSUME NEW k \in Job
      PROVE  commits'[k] + Cardinality(Executing(k)') + Owed(k)' <= 1 + requeues'[k]
  <2>1. Executing(k) \in SUBSET Worker /\ Executing(k)' \in SUBSET Worker
    BY DEF Executing
  <2>2. IsFiniteSet(Executing(k)) /\ Cardinality(Executing(k)) \in Nat
        /\ Cardinality(Executing(k)') \in Nat
    BY <2>1, ExecutingFinite
  <2>3. commits[k] + Cardinality(Executing(k)) + Owed(k) <= 1 + requeues[k]
    BY <1>7 DEF ExecutionInv, ExecutionsBought
  <2>4. commits[k] \in Nat /\ requeues[k] \in Nat /\ requeues'[k] = requeues[k]
    BY <1>2, <1>7 DEF TypeOK
  <2>5. Owed(k) \in {0, 1} /\ Owed(k)' \in {0, 1}
    BY DEF Owed
  <2>6. CASE k # j
    <3>1. Executing(k)' = Executing(k)
      BY <1>1, <1>4, <2>6 DEF Executing
    <3>2. commits'[k] = commits[k]
      BY <1>1, <2>6 DEF FinishDone, RetryPostpone, FinishFailed, TypeOK
    <3>3. Owed(k)' = Owed(k)
      BY <1>2, <2>6 DEF Owed, ToBegin
    <3>4. QED
      BY <2>3, <2>4, <3>1, <3>2, <3>3
  <2>7. CASE k = j
    <3>1. Cardinality(Executing(k)') = Cardinality(Executing(k)) - 1
      BY <1>1, <1>4, <2>2, <2>7, FS_RemoveElement
    <3>2. CASE FinishDone(w)
      <4>1. commits'[k] = commits[k] + 1 /\ row'[k] = "done"
        BY <1>1, <2>7, <3>2 DEF FinishDone, Write, TypeOK
      <4>2. Owed(k)' <= Owed(k)
        BY <1>2, <4>1 DEF Owed, ToBegin
      <4>3. QED
        BY <2>2, <2>3, <2>4, <2>5, <3>1, <4>1, <4>2
    <3>3. CASE RetryPostpone(w) \/ FinishFailed(w)
      <4>1. commits'[k] = commits[k]
        BY <3>3 DEF RetryPostpone, FinishFailed
      <4>2. QED
        BY <2>2, <2>3, <2>4, <2>5, <3>1, <4>1
    <3>4. QED
      BY <3>2, <3>3
  <2>8. QED
    BY <2>6, <2>7
<1>8. QED
  BY <1>2, <1>6, <1>7 DEF ExecutionInv, ExecutionsBought

(* Only an enqueued row is begun.  The runner, whose view it occupies,     *)
(* does not take it for waiting, so the execution owed becomes this one.   *)
LEMMA BeginKeepsExecution ==
  ASSUME RunnerInv, TypeOK', ExecutionInv, NEW w \in Worker, NEW j \in Job,
         Begin(w, j)
  PROVE  ExecutionInv'
<1>1. /\ work[w] = Idle /\ row[j] = "enqueued"
      /\ UNCHANGED <<born, phase, waiting, active, requeues, commits>>
      /\ \A k \in Job : row'[k] = IF k = j THEN "started" ELSE row[k]
      /\ \A v \in Worker : work'[v] = IF v = w THEN [job |-> j, pc |-> "started"]
                                              ELSE work[v]
  BY DEF Begin, Write, view, RunnerInv, TypeOK, Busy
<1>2. j \in born \ waiting
  <2>1. CASE phase = "ready"
    BY <1>1, <2>1 DEF ExecutionInv, RunnerInv, ActiveRowsOccupy, ActiveRows, ActiveRow
  <2>2. CASE phase # "ready"
    BY <1>1, <2>2 DEF ExecutionInv
  <2>3. QED
    BY <2>1, <2>2
<1>3. work[w].job = NoJob
  BY <1>1 DEF Idle
<1>4. \A k \in Job :
        Executing(k)' = IF k = j THEN Executing(k) \cup {w} ELSE Executing(k)
  BY <1>1, <1>3, RunnerAssumption DEF Executing
<1>5. ASSUME NEW k \in Job
      PROVE  commits'[k] + Cardinality(Executing(k)') + Owed(k)' <= 1 + requeues'[k]
  <2>1. Executing(k) \in SUBSET Worker
    BY DEF Executing
  <2>2. IsFiniteSet(Executing(k)) /\ Cardinality(Executing(k)) \in Nat
    BY <2>1, ExecutingFinite
  <2>3. commits[k] + Cardinality(Executing(k)) + Owed(k) <= 1 + requeues[k]
    BY <1>5 DEF ExecutionInv, ExecutionsBought
  <2>4. commits[k] \in Nat /\ requeues[k] \in Nat
    BY <1>5 DEF RunnerInv, TypeOK
  <2>5. CASE k # j
    BY <1>1, <1>4, <2>3, <2>5 DEF Owed, ToBegin
  <2>6. CASE k = j
    <3>1. Cardinality(Executing(k)') = Cardinality(Executing(k)) + 1
      <4>1. w \notin Executing(k)
        BY <1>3, RunnerAssumption DEF Executing
      <4>2. QED
        BY <1>4, <2>2, <2>6, <4>1, FS_AddElement
    <3>2. Owed(k) = 1 /\ Owed(k)' = 0
      BY <1>1, <1>2, <2>6 DEF Owed, ToBegin
    <3>3. QED
      BY <1>1, <2>2, <2>3, <2>4, <3>1, <3>2
  <2>7. QED
    BY <2>5, <2>6
<1>6. \A k \in Job : row'[k] # "absent" \/ Executing(k)' # {} => k \in born'
  BY <1>1, <1>2, <1>4 DEF ExecutionInv
<1>7. QED
  BY <1>1, <1>5, <1>6 DEF ExecutionInv, ExecutionsBought

LEMMA NextKeepsExecution ==
  RunnerInv /\ ExecutionInv /\ [Next]_vars => ExecutionInv'
<1> SUFFICES ASSUME RunnerInv, ExecutionInv, [Next]_vars PROVE ExecutionInv'
  OBVIOUS
<1> USE DEF gets, view
<1>0. TypeOK /\ TypeOK'
  BY NextType DEF RunnerInv
<1>a. \A k \in Job : row[k] # "absent" => k \in born
  BY DEF ExecutionInv
<1>b. phase # "ready" => waiting = {}
  BY DEF ExecutionInv
<1>c. work' = work => \A k \in Job : Executing(k)' \subseteq Executing(k)
  BY DEF Executing
<1>1. ASSUME NEW j \in Job, Create(j) PROVE ExecutionInv'
  <2>1. \A k \in Job : row'[k] = IF k = j THEN "pending" ELSE row[k]
    BY <1>0, <1>1 DEF Create, Write, TypeOK
  <2>2. QED
    BY <1>0, <1>1, <1>a, <1>b, <1>c, <2>1, QuietKeepsExecution DEF Create, ToBegin
<1>2. ASSUME NEW j \in Job, Requeue(j) PROVE ExecutionInv'
  <2>1. \A k \in Job : row'[k] = IF k = j THEN "pending" ELSE row[k]
    BY <1>0, <1>2 DEF Requeue, Write, TypeOK
  <2>2. row[j] # "absent" /\ UNCHANGED <<born, phase, waiting, commits>>
    BY <1>2 DEF Requeue
  <2>3. \A k \in Job :
          requeues'[k] = IF k = j /\ row[j] # "failed" THEN requeues[k] + 1
                                                        ELSE requeues[k]
    BY <1>0, <1>2 DEF Requeue, TypeOK
  <2>4. \A k \in Job : Executing(k)' \subseteq Executing(k)
    BY <1>0, <1>2, OutdatedKeepsJobs DEF Requeue
  <2>5. QED
    BY <1>0, <1>a, <1>b, <2>1, <2>2, <2>3, <2>4, QuietKeepsExecution DEF ToBegin
<1>3. ASSUME NEW j \in Job, SetDone(j) PROVE ExecutionInv'
  <2>1. \A k \in Job : row'[k] = IF k = j THEN "done" ELSE row[k]
    BY <1>0, <1>3 DEF SetDone, Write, TypeOK
  <2>2. \A k \in Job : Executing(k)' \subseteq Executing(k)
    BY <1>0, <1>3, OutdatedKeepsJobs DEF SetDone
  <2>3. row[j] # "absent" /\ UNCHANGED <<born, phase, waiting, commits, requeues>>
    BY <1>3 DEF SetDone
  <2>4. QED
    BY <1>0, <1>a, <1>b, <2>1, <2>2, <2>3, QuietKeepsExecution DEF ToBegin
<1>4. ASSUME NEW j \in Job, Delete(j) PROVE ExecutionInv'
  <2>1. \A k \in Job : row'[k] = IF k = j THEN "absent" ELSE row[k]
    BY <1>0, <1>4 DEF Delete, TypeOK
  <2>2. \A k \in Job : Executing(k)' \subseteq Executing(k)
    BY <1>0, <1>4, OutdatedKeepsJobs DEF Delete
  <2>3. UNCHANGED <<born, phase, waiting, commits, requeues>>
    BY <1>4 DEF Delete
  <2>4. QED
    BY <1>0, <1>a, <1>b, <2>1, <2>2, <2>3, QuietKeepsExecution DEF ToBegin
<1>5. ASSUME NEW j \in Job, ResetRow(j),
             UNCHANGED <<born, phase, waiting, work, commits, requeues>>
      PROVE  ExecutionInv'
  <2>1. \A k \in Job : \/ row'[k] = row[k]
                       \/ row[k] = "enqueued" /\ row'[k] = "pending"
    BY <1>0, <1>5 DEF ResetRow, Write, TypeOK
  <2>2. QED
    BY <1>0, <1>5, <1>a, <1>b, <1>c, <2>1, QuietKeepsExecution DEF ToBegin
<1>6. ASSUME NEW j \in Job,
             RequeueStuck(j) \/ ClientReset(j)
               \/ (LoseRequest(j) /\ UNCHANGED <<row, notes>>)
               \/ (LoseRequest(j) /\ ResetRow(j))
      PROVE  ExecutionInv'
  <2>1. CASE LoseRequest(j) /\ UNCHANGED <<row, notes>>
    BY <1>0, <1>a, <1>b, <1>c, <2>1, QuietKeepsExecution DEF LoseRequest, ToBegin
  <2>2. CASE RequeueStuck(j) \/ ClientReset(j) \/ (LoseRequest(j) /\ ResetRow(j))
    BY <1>5, <2>2 DEF RequeueStuck, ResetRow, ClientReset, LoseRequest
  <2>3. QED
    BY <1>6, <2>1, <2>2
<1>7. ASSUME Listen \/ SelectJobs \/ RunnerFails PROVE ExecutionInv'
  <2>1. /\ UNCHANGED <<row, born, work, commits, requeues>>
        /\ \A k \in waiting' : k \in waiting \/ row[k] = "pending"
        /\ phase' # "ready" => waiting' = {}
    BY <1>7, <1>b DEF Listen, SelectJobs, RunnerFails
  <2>2. QED
    BY <1>0, <1>a, <1>c, <2>1, QuietKeepsExecution DEF ToBegin
<1>8. ASSUME NEW j \in Job, ProcessNotification(j) PROVE ExecutionInv'
  <2>1. \A k \in waiting' : k \in waiting \/ row[k] = "pending"
    BY <1>8 DEF ProcessNotification, ViewRunning
  <2>2. /\ UNCHANGED <<row, born, work, commits, requeues>>
        /\ phase' = "ready"
    BY <1>8 DEF ProcessNotification
  <2>3. QED
    BY <1>0, <1>a, <1>c, <2>1, <2>2, QuietKeepsExecution DEF ToBegin
<1>9. ASSUME NEW j \in Job, Dispatch(j) PROVE ExecutionInv'
  <2>1. /\ \A k \in Job : k # j => row'[k] = row[k]
        /\ row[j] = "absent" => row'[j] = "absent"
    BY <1>0, <1>9 DEF Dispatch, Write, TypeOK
  <2>2. \A k \in Job : Executing(k)' \subseteq Executing(k)
    BY <1>0, <1>9, <1>c, OutdatedKeepsJobs DEF Dispatch
  <2>3. /\ UNCHANGED <<born, commits, requeues>>
        /\ j \in waiting /\ waiting' = waiting \ {j} /\ phase' = "ready"
    BY <1>9 DEF Dispatch
  <2>4. QED
    BY <1>0, <1>a, <2>1, <2>2, <2>3, QuietKeepsExecution DEF ToBegin
<1>10. ASSUME NEW j \in Job, ClientReturns(j) \/ Refuse(j) PROVE ExecutionInv'
  BY <1>0, <1>10, <1>a, <1>b, <1>c, QuietKeepsExecution
     DEF ClientReturns, Refuse, ToBegin
<1>11. ASSUME NEW w \in Worker, NEW j \in Job, Begin(w, j) PROVE ExecutionInv'
  BY <1>0, <1>11, BeginKeepsExecution
<1>12. ASSUME NEW w \in Worker, Snapshot(w) \/ WorkerDies(w) \/ Abandon(w)
       PROVE  ExecutionInv'
  <2>1. \A v \in Worker : work'[v].job \in {work[v].job, NoJob}
    BY <1>0, <1>12 DEF Snapshot, WorkerDies, Abandon, TypeOK, Task, Idle
  <2>2. \A k \in Job : Executing(k)' \subseteq Executing(k)
    BY <2>1, RunnerAssumption DEF Executing
  <2>3. UNCHANGED <<row, born, phase, waiting, commits, requeues>>
    BY <1>12 DEF Snapshot, WorkerDies, Abandon
  <2>4. QED
    BY <1>0, <1>a, <1>b, <2>2, <2>3, QuietKeepsExecution DEF ToBegin
<1>13. ASSUME NEW w \in Worker, Finish(w) PROVE ExecutionInv'
  BY <1>0, <1>12, <1>13, FinishKeepsExecution DEF Finish
<1>14. CASE UNCHANGED vars
  BY <1>0, <1>14, <1>a, <1>b, <1>c, QuietKeepsExecution DEF vars, ToBegin
<1>15. ASSUME NEW j \in Job, LoseRequest(j) PROVE ExecutionInv'
  BY <1>6, <1>15 DEF LoseRequest
<1>16. QED
  BY <1>1, <1>2, <1>3, <1>4, <1>6, <1>7, <1>8, <1>9, <1>10, <1>11, <1>12,
     <1>13, <1>14, <1>15 DEF Next

LEMMA InitExecution == Init => ExecutionInv
<1> SUFFICES ASSUME Init PROVE ExecutionInv
  OBVIOUS
<1>1. \A j \in Job : Executing(j) = {}
  BY RunnerAssumption DEF Init, Executing, Idle
<1>2. QED
  BY <1>1, FS_EmptySet DEF Init, ExecutionInv, ExecutionsBought, Owed

(* What was executed, is executed and is still to be executed of a job was *)
(* paid for by its creation or by a requeue, with any number of workers,   *)
(* late and lost requests, resets, and deaths of the processes.            *)
THEOREM ExecutionInvariant == Spec => []ExecutionInv
<1>1. RunnerInv /\ ExecutionInv /\ [Next]_vars => ExecutionInv'
  BY NextKeepsExecution
<1>2. QED
  BY <1>1, InitExecution, RunnerInvariant, PTL DEF Spec

(* A job that nobody requeues, unless it failed, is executed by one worker *)
(* at a time and takes effect once.                                        *)
THEOREM NeverExecutedTwice == Spec => []SingleExecution
<1>1. TypeOK /\ ExecutionInv => SingleExecution
  <2> SUFFICES ASSUME TypeOK, ExecutionInv, NEW j \in Job, requeues[j] = 0
               PROVE  Cardinality(Executing(j)) + commits[j] <= 1
    BY DEF SingleExecution
  <2>1. commits[j] + Cardinality(Executing(j)) + Owed(j) <= 1
    BY DEF ExecutionInv, ExecutionsBought
  <2>2. Cardinality(Executing(j)) \in Nat /\ commits[j] \in Nat
    BY ExecutingFinite DEF Executing, TypeOK
  <2>3. Owed(j) \in {0, 1}
    BY DEF Owed
  <2>4. QED
    BY <2>1, <2>2, <2>3
<1>2. QED
  BY <1>1, TypesKept, ExecutionInvariant, PTL
=============================================================================
