------------------------------ MODULE Channels ------------------------------
(***************************************************************************)
(* ChannelManager, Channel and ChannelQueue of                             *)
(* queue_job/jobrunner/channels.py: a tree of channels through which a     *)
(* pending job flows down to the root, at most `capacity` jobs past each   *)
(* channel.  The runner's thread alternates between telling the manager    *)
(* what it reads from the database (Notify, RemoveJob) and one pass of     *)
(* get_jobs_to_run, here one step per channel visited or job popped,       *)
(* children before their parent; it then asks when to wake up.             *)
(*                                                                         *)
(* A ChannelQueue is the set of its jobs (PriorityQueue.tla): those with   *)
(* an eta make up _eta_queue, the others _queue.                           *)
(***************************************************************************)
EXTENDS Integers, FiniteSets, FiniteSetsExt

CONSTANTS Channel, Root,
          Parent,      (* of every channel but the root                    *)
          Above,       (* a channel and its ancestors, from its full name  *)
          Capacity,    (* 0 stands for None too: unlimited                 *)
          Sequential,  (* the channels configured `sequential`             *)
          Throttle,    (* seconds between two jobs, 0 for none             *)
          Job,         (* uuids, ordered as (date_created, seq) orders them*)
          Prio, Eta,   (* the priorities and etas a row may have           *)
          NoEta,       (* 0, the epoch a job cannot be planned for         *)
          Name,        (* the channel names a row may have                 *)
          MaxTime      (* bound on the clock                               *)

ASSUME TreeAssumption ==
  /\ IsFiniteSet(Channel)
  /\ Root \in Channel
  /\ Parent \in [Channel \ {Root} -> Channel]
  /\ Above \in [Channel -> SUBSET Channel]
  /\ Above[Root] = {Root}
  /\ \A c \in Channel \ {Root} :
       /\ Above[c] = {c} \cup Above[Parent[c]]
       /\ c \notin Above[Parent[c]]
  /\ \A c \in Channel : Root \in Above[c]
  /\ \A c \in Channel : \A d \in Above[c] : Above[d] \subseteq Above[c]

ASSUME ConfigAssumption ==
  /\ Capacity \in [Channel -> Nat]
  /\ Throttle \in [Channel -> Nat]
  /\ Sequential \subseteq Channel
  /\ \A c \in Sequential : Capacity[c] = 1     (* Channel.configure        *)

ASSUME JobAssumption ==
  /\ Job \subseteq Nat
  /\ IsFiniteSet(Job)
  /\ Prio \subseteq Nat
  /\ NoEta = 0
  /\ Eta \subseteq Nat \ {NoEta}
  /\ MaxTime \in Nat

VARIABLES info,        (* the ChannelJob: its channel, priority and eta    *)
          queue, running, failed,      (* of each channel                  *)
          pauseUntil,  (* of each channel, 0 when not paused               *)
          now,         (* _odoo_now() when the next pass starts            *)
          passing,     (* a pass of get_jobs_to_run is going on            *)
          todo,        (* the channels this pass has still to leave        *)
          alarm,       (* get_wakeup_time() as of the last wait            *)
          calm,        (* no notification since the last wait              *)
          rowEta,      (* history: the eta in the row last read for a job  *)
          lastYield    (* history: when each channel last yielded a job    *)

treeVars == <<queue, running, failed>>
vars == <<info, queue, running, failed, pauseUntil, now, passing, todo,
          alarm, calm, rowEta, lastYield>>

JobInfo == [chan : Channel, prio : Prio, eta : Eta \cup {NoEta}]

TypeOK ==
  /\ info \in [Job -> JobInfo]
  /\ queue \in [Channel -> SUBSET Job]
  /\ running \in [Channel -> SUBSET Job]
  /\ failed \in [Channel -> SUBSET Job]
  /\ pauseUntil \in [Channel -> Nat]
  /\ now \in Nat
  /\ passing \in BOOLEAN
  /\ todo \subseteq Channel
  /\ alarm \in Nat
  /\ calm \in BOOLEAN
  /\ rowEta \in [Job -> Eta \cup {NoEta}]
  /\ lastYield \in [Channel -> Nat]

Init ==
  /\ \E p \in Prio :
       info = [j \in Job |-> [chan |-> Root, prio |-> p, eta |-> NoEta]]
  /\ queue = [c \in Channel |-> {}]
  /\ running = [c \in Channel |-> {}]
  /\ failed = [c \in Channel |-> {}]
  /\ pauseUntil = [c \in Channel |-> 0]
  /\ now = 1
  /\ passing = FALSE
  /\ todo = {}
  /\ alarm = 0
  /\ calm = FALSE
  /\ rowEta = [j \in Job |-> NoEta]
  /\ lastYield = [c \in Channel |-> 0]
-----------------------------------------------------------------------------
(* The runner tells the manager what it read from the database.            *)

With(f, j, D) == [c \in Channel |-> IF c \in D THEN f[c] \cup {j} ELSE f[c]]

Without(f, j, D) == [c \in Channel |-> IF c \in D THEN f[c] \ {j} ELSE f[c]]

(* Channel.remove, called on the channels of D.                            *)
Remove(j, q, r, f, D) ==
  /\ queue' = Without(q, j, D)
  /\ running' = Without(r, j, D)
  /\ failed' = Without(f, j, D)

SetDone(j, c, q, r, f) == Remove(j, q, r, f, Above[c])

(* Mutant of SetPending: the job stays in the channels downstream.         *)
SetPendingStays(j, c, q, r, f) ==
  IF j \in q[c]
  THEN queue' = q /\ running' = r /\ failed' = f
  ELSE /\ queue' = With(q, j, {c})
       /\ running' = Without(r, j, {c})
       /\ failed' = Without(f, j, {c})

(* set_pending: nothing to do when the job waits in its own channel;       *)
(* otherwise it enters there and leaves the channels downstream.           *)
SetPending(j, c, q, r, f) ==
  IF j \in q[c]
  THEN queue' = q /\ running' = r /\ failed' = f
  ELSE /\ queue' = With(Without(q, j, Above[c]), j, {c})
       /\ running' = Without(r, j, Above[c])
       /\ failed' = Without(f, j, Above[c])

(* set_running goes down until it meets a channel the job runs in already. *)
ReachedBySetRunning(j, c, r) ==
  {d \in Above[c] : \A e \in Above[c] : d \in Above[e] => j \notin r[e]}

SetRunning(j, c, q, r, f) ==
  LET D == ReachedBySetRunning(j, c, r)
  IN  /\ queue' = Without(q, j, D)
      /\ running' = With(r, j, D)
      /\ failed' = Without(f, j, D)

(* Mutant of SetFailed: the parents keep the job.                          *)
SetFailedHere(j, c, q, r, f) ==
  IF j \in f[c]
  THEN queue' = q /\ running' = r /\ failed' = f
  ELSE /\ queue' = Without(q, j, {c})
       /\ running' = Without(r, j, {c})
       /\ failed' = With(f, j, {c})

(* set_failed: the job leaves every channel and is kept as failed in its   *)
(* own.                                                                    *)
SetFailed(j, c, q, r, f) ==
  IF j \in f[c]
  THEN queue' = q /\ running' = r /\ failed' = f
  ELSE /\ queue' = Without(q, j, Above[c])
       /\ running' = Without(r, j, Above[c])
       /\ failed' = With(Without(f, j, Above[c]), j, {c})

(* get_channel_by_name, and the root channel when it is not found.         *)
ChannelOf(name) == IF name \in Channel THEN name ELSE Root

(* notify: a job whose scheduling properties changed is taken out of its   *)
(* old channels and becomes a new ChannelJob, then its state is applied.   *)
Notify(j, name, p, e, state) ==
  LET c   == ChannelOf(name)
      new == [chan |-> c, prio |-> p, eta |-> e]
      old == IF info[j] = new THEN {} ELSE Above[info[j].chan]
      q   == Without(queue, j, old)
      r   == Without(running, j, old)
      f   == Without(failed, j, old)
  IN  /\ ~passing
      /\ info' = [info EXCEPT ![j] = new]
      /\ \/ state = "done" /\ SetDone(j, c, q, r, f)
         \/ state = "pending" /\ SetPending(j, c, q, r, f)
         \/ state \in {"enqueued", "started"} /\ SetRunning(j, c, q, r, f)
         \/ state = "failed" /\ SetFailed(j, c, q, r, f)
      /\ calm' = FALSE
      /\ rowEta' = [rowEta EXCEPT ![j] = e]
      /\ UNCHANGED <<pauseUntil, now, passing, todo, alarm, lastYield>>

(* remove_job: the row does not exist any more.                            *)
RemoveJob(j) ==
  /\ ~passing
  /\ Remove(j, queue, running, failed, Above[info[j].chan])
  /\ calm' = FALSE
  /\ UNCHANGED <<info, pauseUntil, now, passing, todo, alarm, rowEta, lastYield>>

(* remove_db for every database: each job leaves its channel and those     *)
(* downstream of it.  The pauses stay.                                     *)
Forgotten(f) == [c \in Channel |-> {j \in f[c] : c \notin Above[info[j].chan]}]

RemoveAll ==
  /\ queue' = Forgotten(queue)
  /\ running' = Forgotten(running)
  /\ failed' = Forgotten(failed)
  /\ calm' = FALSE

(* An error between two passes: close_databases.                           *)
CloseDatabases ==
  /\ ~passing
  /\ RemoveAll
  /\ UNCHANGED <<info, pauseUntil, now, passing, todo, alarm, rowEta, lastYield>>
-----------------------------------------------------------------------------
(* A pass of get_jobs_to_run.                                              *)

(* Mutant of HasCapacity: one job too many.                                *)
HasCapacityOffByOne(c) ==
  /\ ~(c \in Sequential /\ failed[c] # {})
  /\ Capacity[c] = 0 \/ Cardinality(running[c]) <= Capacity[c]

(* has_capacity                                                            *)
HasCapacity(c) ==
  /\ ~(c \in Sequential /\ failed[c] # {})
  /\ Capacity[c] = 0 \/ Cardinality(running[c]) < Capacity[c]

(* sorting_key_ignoring_eta                                                *)
Before(j, k) ==
  \/ info[j].prio < info[k].prio
  \/ info[j].prio = info[k].prio /\ j < k

EtaBefore(j, k) ==
  \/ info[j].eta < info[k].eta
  \/ info[j].eta = info[k].eta /\ Before(j, k)

(* Mutant of Late: the job is released a second early.                     *)
LateByOne(c) == {j \in queue[c] : info[j].eta > now + 1}

(* ChannelQueue.pop first moves the jobs whose eta is past to _queue.      *)
Late(c) == {j \in queue[c] : info[j].eta > now}

Ready(c) == queue[c] \ Late(c)

EtaCleared(c) ==
  [j \in Job |-> IF j \in Ready(c) THEN [info[j] EXCEPT !.eta = NoEta] ELSE info[j]]

FirstReady(c, j) == j \in Ready(c) /\ \A k \in Ready(c) \ {j} : Before(j, k)

FirstLate(c, j) == j \in Late(c) /\ \A k \in Late(c) \ {j} : EtaBefore(j, k)

(* Mutant of WaitsForEta: the keys are compared with their etas.           *)
WaitsForEtaByKey(c, j) ==
  c \in Sequential /\ \E k \in Late(c) : FirstLate(c, k) /\ EtaBefore(k, j)

(* A sequential queue waits for its next job with an eta when that job has *)
(* the higher priority.                                                    *)
WaitsForEta(c, j) ==
  c \in Sequential /\ \E k \in Late(c) : FirstLate(c, k) /\ Before(k, j)

Pops(c, j) == FirstReady(c, j) /\ ~WaitsForEta(c, j)

Children(c) == {d \in Channel \ {Root} : Parent[d] = c}

(* The generator of c is running: those of its children are exhausted.     *)
Visiting(c) == passing /\ c \in todo /\ Children(c) \cap todo = {}

(* Mutant of Paused: the pause ends a second early.                        *)
PausedShorter(c) == Throttle[c] > 0 /\ now + 1 < pauseUntil[c]

Paused(c) == Throttle[c] > 0 /\ now < pauseUntil[c]

Unpaused(c) == [pauseUntil EXCEPT ![c] = IF Throttle[c] > 0 THEN 0 ELSE @]

Leave(c) == todo' = todo \ {c}

StartPass ==
  /\ ~passing
  /\ passing' = TRUE
  /\ todo' = Channel
  /\ UNCHANGED <<info, queue, running, failed, pauseUntil, now, alarm, calm,
                 rowEta, lastYield>>

(* Still paused by the throttle: nothing is yielded.                       *)
SkipPaused(c) ==
  /\ Visiting(c)
  /\ Paused(c)
  /\ Leave(c)
  /\ UNCHANGED <<info, queue, running, failed, pauseUntil, now, passing, alarm,
                 calm, rowEta, lastYield>>

(* No capacity: the queue is not looked at, only the pause is lifted.      *)
SkipFull(c) ==
  /\ Visiting(c)
  /\ ~Paused(c)
  /\ ~HasCapacity(c)
  /\ pauseUntil' = Unpaused(c)
  /\ Leave(c)
  /\ UNCHANGED <<info, queue, running, failed, now, passing, alarm, calm,
                 rowEta, lastYield>>

(* pop returns None.                                                       *)
Exhaust(c) ==
  /\ Visiting(c)
  /\ ~Paused(c)
  /\ HasCapacity(c)
  /\ \A j \in queue[c] : ~Pops(c, j)
  /\ info' = EtaCleared(c)
  /\ pauseUntil' = Unpaused(c)
  /\ Leave(c)
  /\ UNCHANGED <<queue, running, failed, now, passing, alarm, calm, rowEta,
                 lastYield>>

(* pop returns j: it runs in c and enters the queue of the parent, or is   *)
(* handed to the runner by the root.  With a throttle, c yields no more.   *)
Yield(c, j) ==
  /\ Visiting(c)
  /\ ~Paused(c)
  /\ HasCapacity(c)
  /\ Pops(c, j)
  /\ info' = EtaCleared(c)
  /\ queue' = IF c = Root THEN Without(queue, j, {c})
              ELSE With(Without(queue, j, {c}), j, {Parent[c]})
  /\ running' = With(running, j, {c})
  /\ pauseUntil' = IF Throttle[c] > 0
                   THEN [pauseUntil EXCEPT ![c] = now + Throttle[c]]
                   ELSE pauseUntil
  /\ IF Throttle[c] > 0 THEN Leave(c) ELSE UNCHANGED todo
  /\ lastYield' = [lastYield EXCEPT ![c] = now]
  /\ UNCHANGED <<failed, now, passing, alarm, calm, rowEta>>

(* The root yields j, set_job_enqueued raises: the generator is dropped    *)
(* before it sets its pause and the databases are closed.                  *)
YieldRaises(j) ==
  /\ Visiting(Root)
  /\ ~Paused(Root)
  /\ HasCapacity(Root)
  /\ Pops(Root, j)
  /\ RemoveAll
  /\ info' = EtaCleared(Root)
  /\ pauseUntil' = Unpaused(Root)
  /\ passing' = FALSE
  /\ todo' = {}
  /\ UNCHANGED <<now, alarm, rowEta, lastYield>>
-----------------------------------------------------------------------------
(* Mutant of Consulted: a full channel asks to be woken up.                *)
ConsultedWhenFull(c) == \A d \in Above[c] \ {c} : pauseUntil[d] = 0

(* Mutant of Consulted: the children are forgotten.                        *)
ConsultedRootOnly(c) == c = Root /\ HasCapacity(c)

(* wait_notification asks for the wakeup time.  A full channel hides the   *)
(* subtree above it, a paused one is worth the end of its pause.           *)
Consulted(c) ==
  /\ HasCapacity(c)
  /\ \A d \in Above[c] \ {c} : HasCapacity(d) /\ pauseUntil[d] = 0

Wakeups ==
  {pauseUntil[c] : c \in {d \in Channel : Consulted(d) /\ pauseUntil[d] # 0}}
    \cup
  UNION {{info[j].eta : j \in {k \in queue[c] : info[k].eta # NoEta}} :
           c \in {d \in Channel : Consulted(d) /\ pauseUntil[d] = 0}}

WakeupTime == IF Wakeups = {} THEN 0 ELSE Min(Wakeups)

EndPass ==
  /\ passing
  /\ todo = {}
  /\ passing' = FALSE
  /\ alarm' = WakeupTime
  /\ calm' = TRUE
  /\ UNCHANGED <<info, queue, running, failed, pauseUntil, now, todo, rowEta,
                 lastYield>>

Tick ==
  /\ ~passing
  /\ now < MaxTime
  /\ now' = now + 1
  /\ UNCHANGED <<info, queue, running, failed, pauseUntil, passing, todo, alarm,
                 calm, rowEta, lastYield>>

(* A started row is told as an enqueued one is.                            *)
Told(j) ==
  \E name \in Name, p \in Prio, e \in Eta \cup {NoEta},
     state \in {"pending", "enqueued", "done", "failed"} :
    Notify(j, name, p, e, state)

Next ==
  \/ \E j \in Job : Told(j) \/ RemoveJob(j) \/ YieldRaises(j)
  \/ CloseDatabases
  \/ StartPass
  \/ \E c \in Channel : SkipPaused(c) \/ SkipFull(c) \/ Exhaust(c)
  \/ \E c \in Channel, j \in Job : Yield(c, j)
  \/ EndPass
  \/ Tick

Spec == Init /\ [][Next]_vars
-----------------------------------------------------------------------------
(* A job is somewhere on the way from its channel to the root: waiting in  *)
(* one channel and running in all those before it, or running in them all, *)
(* or failed in its own channel, or nowhere.  set_pending, set_running,    *)
(* set_failed, remove and the pass each change several channels at once.   *)
InPipeline(j) ==
  LET home == info[j].chan
  IN  /\ \A c \in Channel \ Above[home] :
           j \notin queue[c] /\ j \notin running[c] /\ j \notin failed[c]
      /\ \A c \in Above[home] :
           /\ ~(j \in queue[c] /\ j \in running[c])
           /\ c # home => j \notin failed[c]
           /\ c # Root =>
                (j \in running[c] <=> j \in queue[Parent[c]] \cup running[Parent[c]])
      /\ j \in failed[home] => j \notin queue[home] \cup running[home]

PipelineConsistent == TypeOK /\ \A j \in Job : InPipeline(j)

(* A pass starts no job in a channel beyond its capacity, also when        *)
(* notifications filled it beyond that.                                    *)
NeverOverfilled ==
  [][\A c \in Channel : passing /\ ~(running[c]' \subseteq running[c]) =>
       Capacity[c] = 0 \/ Cardinality(running[c]') <= Capacity[c]]_vars

(* "It will not be executed before this date/time": a job leaves no        *)
(* channel before the eta of the row last read for it.                     *)
EtaRespected ==
  [][\A c \in Channel : passing =>
       \A j \in running[c]' \ running[c] : rowEta[j] <= now]_vars

(* Two jobs of a throttled channel start at least `throttle` seconds       *)
(* apart, also across an error recovery.                                   *)
ThrottleSpacing ==
  [][\A c \in Channel : passing /\ ~(running[c]' \subseteq running[c]) =>
       lastYield[c] = 0 \/ now - lastYield[c] >= Throttle[c]]_vars

(* Without a notification, a pass hands out a job only at or after the     *)
(* wakeup time: a runner that sleeps until then sleeps through no job.     *)
NoMissedWakeup ==
  [][passing /\ calm /\ ~(running[Root]' \subseteq running[Root]) =>
       alarm # 0 /\ alarm <= now]_vars

(* Right after a pass the wakeup time lies ahead: the runner does not spin *)
(* on a timeout that is already over.                                      *)
NoBusyWakeup ==
  [][passing /\ ~passing' /\ calm' => alarm' = 0 \/ alarm' > now]_vars

(* A sequential channel starts its jobs in order of priority and creation, *)
(* one at a time, and none while one of them has failed: before all jobs   *)
(* the eta of which is past, and not before the next one to come if that   *)
(* goes first.                                                             *)
SequentialOrder ==
  [][\A c \in Sequential : passing =>
       \A j \in running[c]' \ running[c] :
         /\ failed[c] = {} /\ running[c] = {}
         /\ \A k \in queue[c] :
              info[k].eta <= now \/ FirstLate(c, k) => ~Before(k, j)]_vars

Pool == INSTANCE JobPool
          WITH PoolCapacity <- Capacity[Root],
               waiting <- UNION {queue[c] : c \in Channel},
               active <- running[Root]

(* The runner sees a pool of jobs with `capacity` of the root as bound.    *)
ImplementsJobPool == Pool!PoolSpec
=============================================================================
