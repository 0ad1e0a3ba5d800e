------------------------------- MODULE JobPool -------------------------------
(***************************************************************************)
(* What the runner (queue_job/jobrunner/runner.py) relies on from the      *)
(* channel manager: every job it was told about waits, runs, or neither;   *)
(* a job is handed out only while the root channel has a free slot.        *)
(***************************************************************************)
EXTENDS Integers, FiniteSets

CONSTANTS Job,
          PoolCapacity   (* capacity of the root channel, 0 for unlimited  *)

VARIABLES waiting,   (* told to be pending, not handed out                 *)
          active     (* handed out, or told to be enqueued or started      *)

poolVars == <<waiting, active>>

PoolInit == waiting = {} /\ active = {}

(* The runner learns that j is done, failed, deleted, or moved.            *)
Drop(j) == waiting' = waiting \ {j} /\ active' = active \ {j}

(* The runner learns that j is pending.                                    *)
Enter(j) == waiting' = waiting \cup {j} /\ active' = active \ {j}

(* The runner learns that j is enqueued or started.                        *)
Occupy(j) == waiting' = waiting \ {j} /\ active' = active \cup {j}

HasSlot == PoolCapacity = 0 \/ Cardinality(active) < PoolCapacity

(* The channel manager yields j.                                           *)
HandOut(j) ==
  /\ j \in waiting
  /\ HasSlot
  /\ Occupy(j)

(* close_databases: all jobs are forgotten.                                *)
Forget == waiting' = {} /\ active' = {}

PoolNext ==
  \/ \E j \in Job : Drop(j) \/ Enter(j) \/ Occupy(j) \/ HandOut(j)
  \/ Forget

PoolSpec == PoolInit /\ [][PoolNext]_poolVars
=============================================================================
