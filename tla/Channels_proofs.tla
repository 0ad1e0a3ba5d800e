--------------------------- MODULE Channels_proofs ---------------------------
(***************************************************************************)
(* For every tree of channels, every configuration and any jobs: a job is  *)
(* in one place on its way from its channel to the root, so that the       *)
(* manager implements JobPool; and what a pass of get_jobs_to_run starts,  *)
(* it starts within the capacities, not before an eta or the end of a      *)
(* pause, and in order in sequential channels.                             *)
(***************************************************************************)
EXTENDS Channels, FiniteSetTheorems, TLAPS

(* The channels a job passes are in line between its own and the root.     *)
LEMMA TreeFacts ==
  /\ Root \in Channel
  /\ \A c \in Channel : Root \in Above[c] /\ c \in Above[c] /\ Above[c] \subseteq Channel
  /\ \A c \in Channel \ {Root} :
       /\ Parent[c] \in Channel /\ Parent[c] \in Above[c] /\ Parent[c] # c
       /\ Above[c] = {c} \cup Above[Parent[c]]
       /\ c \notin Above[Parent[c]]
  /\ \A c \in Channel : \A d \in Above[c] : Above[d] \subseteq Above[c]
<1>1. \A c \in Channel : c \in Above[c]
  BY TreeAssumption
<1>2. QED
  BY <1>1, TreeAssumption

LEMMA AboveAntisymmetric ==
  ASSUME NEW c \in Channel, NEW d \in Channel, c \in Above[d], d \in Above[c]
  PROVE  c = d
<1> SUFFICES ASSUME c # d PROVE FALSE
  OBVIOUS
<1>1. CASE c = Root
  BY <1>1, TreeAssumption
<1>2. CASE c # Root
  <2>1. d \in Above[Parent[c]]
    BY <1>2, TreeFacts
  <2>2. Parent[c] \in Channel /\ Above[d] \subseteq Above[Parent[c]]
    BY <1>2, <2>1, TreeFacts
  <2>3. QED
    BY <1>2, <2>2, TreeFacts
<1>3. QED
  BY <1>1, <1>2

(* If there were a channel without this, there would be a shortest way.    *)
LEMMA AboveLinear ==
  ASSUME NEW c \in Channel, NEW d \in Above[c], NEW e \in Above[c]
  PROVE  d \in Above[e] \/ e \in Above[d]
<1> DEFINE Linear(h) == \A x, y \in Above[h] : x \in Above[y] \/ y \in Above[x]
           R == StrictSubsetOrdering(Channel)
           T == {Above[h] : h \in {g \in Channel : ~Linear(g)}}
<1>1. T \subseteq SUBSET Channel
  BY TreeFacts
<1>2. IsWellFoundedOn(R, SUBSET Channel)
  <2>1. IsWellFoundedOn(R, FiniteSubsetsOf(Channel))
    BY FS_StrictSubsetOrderingWellFounded
  <2>2. IsFiniteSet(Channel)
    BY TreeAssumption
  <2>3. FiniteSubsetsOf(Channel) = SUBSET Channel
    BY <2>2, FS_FiniteSubsetsOfFinite
  <2> HIDE DEF R
  <2>4. QED
    BY <2>1, <2>3
<1>3. ASSUME NEW h \in Channel \ {Root} PROVE <<Above[Parent[h]], Above[h]>> \in R
  <2>1. /\ Above[Parent[h]] \subseteq Above[h] /\ Above[Parent[h]] # Above[h]
        /\ Above[h] \subseteq Channel
    BY TreeFacts
  <2>2. QED
    BY <2>1 DEF StrictSubsetOrdering
<1>4. ASSUME T # {} PROVE FALSE
  <2>1. PICK A \in T : \A B \in T : ~(<<B, A>> \in R)
    <3> HIDE DEF R, T
    <3>1. QED
      BY <1>1, <1>2, <1>4, WFMin, Zenon
  <2>2. PICK h \in Channel : A = Above[h] /\ ~Linear(h)
    OBVIOUS
  <2>3. h # Root
    BY <2>2, TreeAssumption
  <2>4. Above[Parent[h]] \notin T
    BY <1>3, <2>1, <2>2, <2>3
  <2>5. Linear(Parent[h])
    BY <2>3, <2>4, TreeFacts
  <2>6. Linear(h)
    BY <2>3, <2>5, TreeFacts
  <2>7. QED
    BY <2>2, <2>6
<1>5. Linear(c)
  BY <1>4
<1>6. QED
  BY <1>5

(* Between a channel and its parent there is none.                         *)
LEMMA NothingBetween ==
  ASSUME NEW h \in Channel, NEW c \in Above[h] \ {Root}, NEW e \in Above[h],
         Parent[c] \in Above[e], e # Parent[c]
  PROVE  c \in Above[e]
<1>1. e \in Channel /\ c \in Channel /\ Parent[c] \in Channel
  BY TreeFacts
<1>2. CASE e \in Above[c]
  <2>1. e = c \/ e \in Above[Parent[c]]
    BY <1>1, <1>2, TreeFacts
  <2>2. e = c
    BY <1>1, <2>1, AboveAntisymmetric
  <2>3. QED
    BY <1>1, <2>2, TreeFacts
<1>3. QED
  BY <1>2, AboveLinear
-----------------------------------------------------------------------------
(* InPipeline(j) says where a job is relative to the next channel.  This   *)
(* says it for any two channels of its way, which a step can preserve      *)
(* without following the chain: where the job waits or runs, it runs in    *)
(* all the channels before.                                                *)
OnPath(j, h, q, r, f) ==
  /\ \A c \in Channel \ Above[h] : j \notin q[c] /\ j \notin r[c] /\ j \notin f[c]
  /\ \A c \in Above[h] : ~(j \in q[c] /\ j \in r[c]) /\ (c # h => j \notin f[c])
  /\ \A c, e \in Above[h] :
       c \in Above[e] /\ c # e /\ (j \in q[c] \/ j \in r[c]) => j \in r[e]
  /\ \A c \in Above[h] \ {Root} :
       j \in r[c] => j \in q[Parent[c]] \/ j \in r[Parent[c]]
  /\ j \in f[h] => j \notin q[h] /\ j \notin r[h]

Nowhere(j, q, r, f) ==
  \A c \in Channel : j \notin q[c] /\ j \notin r[c] /\ j \notin f[c]

PathInv == TypeOK /\ \A j \in Job : OnPath(j, info[j].chan, queue, running, failed)

(* A step is not about job k.                                              *)
Unmoved(k, q, r, f) ==
  \A c \in Channel :
    (k \in queue'[c] <=> k \in q[c]) /\ (k \in running'[c] <=> k \in r[c])
      /\ (k \in failed'[c] <=> k \in f[c])

Membership == [Channel -> SUBSET Job]

LEMMA PathIsPipeline ==
  ASSUME TypeOK, NEW j \in Job, OnPath(j, info[j].chan, queue, running, failed)
  PROVE  InPipeline(j)
<1> DEFINE h == info[j].chan
<1>1. h \in Channel
  BY DEF TypeOK, JobInfo
<1>2. \A c \in Above[h] \ {Root} :
        /\ Parent[c] \in Above[h] /\ Parent[c] # c /\ Parent[c] \in Above[c]
  BY <1>1, TreeFacts
<1>3. QED
  BY <1>1, <1>2 DEF OnPath, InPipeline

LEMMA NowhereOnPath ==
  ASSUME NEW j, NEW h \in Channel, NEW q, NEW r, NEW f, Nowhere(j, q, r, f)
  PROVE  OnPath(j, h, q, r, f)
<1>1. Above[h] \subseteq Channel /\ h \in Channel
  BY TreeFacts
<1>2. QED
  BY <1>1 DEF OnPath, Nowhere

LEMMA UnmovedOnPath ==
  ASSUME NEW k, NEW h \in Channel, NEW q, NEW r, NEW f,
         OnPath(k, h, q, r, f), Unmoved(k, q, r, f)
  PROVE  OnPath(k, h, queue', running', failed')
<1>1. Above[h] \subseteq Channel /\ h \in Channel
  BY TreeFacts
<1>2. \A c \in Above[h] \ {Root} : Parent[c] \in Channel
  BY <1>1, TreeFacts
<1>3. QED
  BY <1>1, <1>2 DEF OnPath, Unmoved

LEMMA WithMembers ==
  ASSUME NEW f \in Membership, NEW j \in Job, NEW D
  PROVE  /\ With(f, j, D) \in Membership
         /\ Without(f, j, D) \in Membership
         /\ \A c \in Channel : \A k :
              /\ k \in With(f, j, D)[c] <=> k \in f[c] \/ (c \in D /\ k = j)
              /\ k \in Without(f, j, D)[c] <=> k \in f[c] /\ ~(c \in D /\ k = j)
  BY DEF With, Without, Membership

(* Out of all the channels of its way, a job is nowhere.                   *)
LEMMA RemoveLeavesNothing ==
  ASSUME NEW j \in Job, NEW h \in Channel,
         NEW q \in Membership, NEW r \in Membership, NEW f \in Membership,
         OnPath(j, h, q, r, f)
  PROVE  LET D == Above[h]
         IN  Nowhere(j, Without(q, j, D), Without(r, j, D), Without(f, j, D))
  BY WithMembers DEF OnPath, Nowhere

LEMMA SetDoneStep ==
  ASSUME NEW j \in Job, NEW c \in Channel,
         NEW q \in Membership, NEW r \in Membership, NEW f \in Membership,
         OnPath(j, c, q, r, f), SetDone(j, c, q, r, f)
  PROVE  /\ queue' \in Membership /\ running' \in Membership /\ failed' \in Membership
         /\ OnPath(j, c, queue', running', failed')
         /\ \A k \in Job \ {j} : Unmoved(k, q, r, f)
<1>1. /\ queue' = Without(q, j, Above[c])
      /\ running' = Without(r, j, Above[c])
      /\ failed' = Without(f, j, Above[c])
  BY DEF SetDone, Remove
<1>2. OnPath(j, c, queue', running', failed')
  BY <1>1, RemoveLeavesNothing, NowhereOnPath
<1>3. QED
  BY <1>1, <1>2, WithMembers DEF Unmoved

LEMMA SetPendingStep ==
  ASSUME NEW j \in Job, NEW c \in Channel,
         NEW q \in Membership, NEW r \in Membership, NEW f \in Membership,
         OnPath(j, c, q, r, f), SetPending(j, c, q, r, f)
  PROVE  /\ queue' \in Membership /\ running' \in Membership /\ failed' \in Membership
         /\ OnPath(j, c, queue', running', failed')
         /\ \A k \in Job \ {j} : Unmoved(k, q, r, f)
<1>1. CASE j \in q[c]
  BY <1>1 DEF SetPending, Unmoved
<1>2. CASE j \notin q[c]
  <2> DEFINE D == Above[c]
  <2>1. /\ queue' = With(Without(q, j, D), j, {c})
        /\ running' = Without(r, j, D)
        /\ failed' = Without(f, j, D)
    BY <1>2 DEF SetPending
  <2>2. queue' \in Membership /\ running' \in Membership /\ failed' \in Membership
    BY <2>1, WithMembers
  <2>3. /\ \A d \in Channel : j \in queue'[d] <=> d = c
        /\ \A d \in Channel : j \notin running'[d] /\ j \notin failed'[d]
    BY <2>1, WithMembers, TreeFacts DEF OnPath
  <2>4. \A e \in Above[c] : c \in Above[e] => c = e
    BY AboveAntisymmetric, TreeFacts
  <2>5. OnPath(j, c, queue', running', failed')
    BY <2>3, <2>4, TreeFacts DEF OnPath
  <2>6. \A k \in Job \ {j} : Unmoved(k, q, r, f)
    BY <2>1, WithMembers DEF Unmoved
  <2>7. QED
    BY <2>2, <2>5, <2>6
<1>3. QED
  BY <1>1, <1>2

(* set_running either finds the job running in its own channel, or nowhere *)
(* on its way.                                                             *)
LEMMA SetRunningReaches ==
  ASSUME NEW j \in Job, NEW c \in Channel,
         NEW q, NEW r, NEW f, OnPath(j, c, q, r, f)
  PROVE  /\ j \in r[c] => ReachedBySetRunning(j, c, r) = {}
         /\ j \notin r[c] => /\ ReachedBySetRunning(j, c, r) = Above[c]
                             /\ \A d \in Above[c] : j \notin r[d]
<1>1. c \in Above[c]
  BY TreeFacts
<1>2. ASSUME j \notin r[c], NEW d \in Above[c] PROVE j \notin r[d]
  BY <1>1, <1>2 DEF OnPath
<1>3. QED
  BY <1>1, <1>2 DEF ReachedBySetRunning

LEMMA SetRunningStep ==
  ASSUME NEW j \in Job, NEW c \in Channel,
         NEW q \in Membership, NEW r \in Membership, NEW f \in Membership,
         OnPath(j, c, q, r, f), SetRunning(j, c, q, r, f)
  PROVE  /\ queue' \in Membership /\ running' \in Membership /\ failed' \in Membership
         /\ OnPath(j, c, queue', running', failed')
         /\ \A k \in Job \ {j} : Unmoved(k, q, r, f)
<1> DEFINE D == ReachedBySetRunning(j, c, r)
<1>1. /\ queue' = Without(q, j, D)
      /\ running' = With(r, j, D)
      /\ failed' = Without(f, j, D)
  BY DEF SetRunning
<1>2. queue' \in Membership /\ running' \in Membership /\ failed' \in Membership
  BY <1>1, WithMembers
<1>3. \A k \in Job \ {j} : Unmoved(k, q, r, f)
  BY <1>1, WithMembers DEF Unmoved
<1>4. CASE j \in r[c]
  <2>1. D = {}
    BY <1>4, SetRunningReaches
  <2>2. Unmoved(j, q, r, f)
    BY <1>1, <2>1, WithMembers DEF Unmoved
  <2>3. QED
    BY <1>2, <1>3, <2>2, UnmovedOnPath
<1>5. CASE j \notin r[c]
  <2>1. D = Above[c]
    BY <1>5, SetRunningReaches
  <2>2. /\ \A d \in Channel : j \in running'[d] <=> d \in Above[c]
        /\ \A d \in Channel : j \notin queue'[d] /\ j \notin failed'[d]
    BY <1>1, <2>1, WithMembers DEF OnPath
  <2>3. OnPath(j, c, queue', running', failed')
    BY <2>2, TreeFacts DEF OnPath
  <2>4. QED
    BY <1>2, <1>3, <2>3
<1>6. QED
  BY <1>4, <1>5

LEMMA SetFailedStep ==
  ASSUME NEW j \in Job, NEW c \in Channel,
         NEW q \in Membership, NEW r \in Membership, NEW f \in Membership,
         OnPath(j, c, q, r, f), SetFailed(j, c, q, r, f)
  PROVE  /\ queue' \in Membership /\ running' \in Membership /\ failed' \in Membership
         /\ OnPath(j, c, queue', running', failed')
         /\ \A k \in Job \ {j} : Unmoved(k, q, r, f)
<1>1. CASE j \in f[c]
  BY <1>1 DEF SetFailed, Unmoved
<1>2. CASE j \notin f[c]
  <2> DEFINE D == Above[c]
  <2>1. /\ queue' = Without(q, j, D)
        /\ running' = Without(r, j, D)
        /\ failed' = With(Without(f, j, D), j, {c})
    BY <1>2 DEF SetFailed
  <2>2. queue' \in Membership /\ running' \in Membership /\ failed' \in Membership
    BY <2>1, WithMembers
  <2>3. /\ \A d \in Channel : j \in failed'[d] <=> d = c
        /\ \A d \in Channel : j \notin running'[d] /\ j \notin queue'[d]
    BY <2>1, WithMembers, TreeFacts DEF OnPath
  <2>4. OnPath(j, c, queue', running', failed')
    BY <2>3, TreeFacts DEF OnPath
  <2>5. \A k \in Job \ {j} : Unmoved(k, q, r, f)
    BY <2>1, WithMembers DEF Unmoved
  <2>6. QED
    BY <2>2, <2>4, <2>5
<1>3. QED
  BY <1>1, <1>2
-----------------------------------------------------------------------------
(* What notify() hands to set_done and the others: the job where it was,   *)
(* or nowhere if its properties changed.                                   *)
LEMMA NotifyFindsOnPath ==
  ASSUME PathInv, NEW j \in Job, NEW new \in JobInfo
  PROVE  LET old == IF info[j] = new THEN {} ELSE Above[info[j].chan]
             q   == Without(queue, j, old)
             r   == Without(running, j, old)
             f   == Without(failed, j, old)
         IN  /\ q \in Membership /\ r \in Membership /\ f \in Membership
             /\ OnPath(j, new.chan, q, r, f)
             /\ info[j] # new => Nowhere(j, q, r, f)
             /\ \A k \in Job \ {j} : OnPath(k, info[k].chan, q, r, f)
<1> DEFINE old == IF info[j] = new THEN {} ELSE Above[info[j].chan]
           q   == Without(queue, j, old)
           r   == Without(running, j, old)
           f   == Without(failed, j, old)
<1>1. queue \in Membership /\ running \in Membership /\ failed \in Membership
  BY DEF PathInv, TypeOK, Membership
<1>2. \A k \in Job : info[k].chan \in Channel /\ OnPath(k, info[k].chan, queue, running, failed)
  BY DEF PathInv, TypeOK, JobInfo
<1>3. q \in Membership /\ r \in Membership /\ f \in Membership
  BY <1>1, WithMembers
<1>4. info[j] # new => Nowhere(j, q, r, f)
  BY <1>1, <1>2, RemoveLeavesNothing
<1>5. new.chan \in Channel
  BY DEF JobInfo
<1>6. OnPath(j, new.chan, q, r, f)
  <2>1. CASE info[j] = new
    <3>1. \A c \in Channel :
            /\ j \in q[c] <=> j \in queue[c]
            /\ j \in r[c] <=> j \in running[c]
            /\ j \in f[c] <=> j \in failed[c]
      BY <1>1, <2>1, WithMembers
    <3>2. OnPath(j, new.chan, queue, running, failed)
      BY <1>2, <2>1
    <3>3. QED
      BY <1>5, <3>1, <3>2, TreeFacts DEF OnPath
  <2>2. CASE info[j] # new
    BY <1>4, <1>5, <2>2, NowhereOnPath
  <2>3. QED
    BY <2>1, <2>2
<1>7. ASSUME NEW k \in Job \ {j} PROVE OnPath(k, info[k].chan, q, r, f)
  <2>1. \A c \in Channel :
          /\ k \in q[c] <=> k \in queue[c]
          /\ k \in r[c] <=> k \in running[c]
          /\ k \in f[c] <=> k \in failed[c]
    BY <1>1, WithMembers
  <2>2. QED
    BY <1>2, <2>1, TreeFacts DEF OnPath
<1>8. QED
  BY <1>3, <1>4, <1>6, <1>7

(* The job takes its new place, and no other moves.                        *)
LEMMA NotifyStep ==
  ASSUME PathInv, NEW j \in Job, NEW name, NEW p \in Prio,
         NEW e \in Eta \cup {NoEta}, NEW state, Notify(j, name, p, e, state)
  PROVE  PathInv'
<1> DEFINE c   == ChannelOf(name)
           new == [chan |-> c, prio |-> p, eta |-> e]
           old == IF info[j] = new THEN {} ELSE Above[info[j].chan]
           q   == Without(queue, j, old)
           r   == Without(running, j, old)
           f   == Without(failed, j, old)
<1>1. c \in Channel /\ new \in JobInfo /\ new.chan = c
  BY TreeFacts DEF ChannelOf, JobInfo
<1>2. /\ q \in Membership /\ r \in Membership /\ f \in Membership
      /\ OnPath(j, c, q, r, f)
      /\ \A k \in Job \ {j} : OnPath(k, info[k].chan, q, r, f)
  BY <1>1, NotifyFindsOnPath
<1>3. \/ SetDone(j, c, q, r, f)
      \/ SetPending(j, c, q, r, f)
      \/ SetRunning(j, c, q, r, f)
      \/ SetFailed(j, c, q, r, f)
  BY DEF Notify
<1>4. /\ queue' \in Membership /\ running' \in Membership /\ failed' \in Membership
      /\ OnPath(j, c, queue', running', failed')
      /\ \A k \in Job \ {j} : Unmoved(k, q, r, f)
  <2> HIDE DEF c, q, r, f
  <2>1. CASE SetDone(j, c, q, r, f)
    BY <1>1, <1>2, <2>1, SetDoneStep
  <2>2. CASE SetPending(j, c, q, r, f)
    BY <1>1, <1>2, <2>2, SetPendingStep
  <2>3. CASE SetRunning(j, c, q, r, f)
    BY <1>1, <1>2, <2>3, SetRunningStep
  <2>4. CASE SetFailed(j, c, q, r, f)
    BY <1>1, <1>2, <2>4, SetFailedStep
  <2>5. QED
    BY <1>3, <2>1, <2>2, <2>3, <2>4
<1>5. info' = [info EXCEPT ![j] = new] /\ rowEta' = [rowEta EXCEPT ![j] = e]
  BY DEF Notify
<1>6. \A k \in Job : info'[k] = IF k = j THEN new ELSE info[k]
  BY <1>5 DEF PathInv, TypeOK
<1>7. \A k \in Job : OnPath(k, info'[k].chan, queue', running', failed')
  <2> SUFFICES ASSUME NEW k \in Job
               PROVE  OnPath(k, info'[k].chan, queue', running', failed')
    OBVIOUS
  <2>1. CASE k = j
    BY <1>1, <1>4, <1>6, <2>1
  <2>2. CASE k # j
    <3>1. info'[k] = info[k] /\ info[k].chan \in Channel
      BY <1>6, <2>2 DEF PathInv, TypeOK, JobInfo
    <3>2. OnPath(k, info[k].chan, q, r, f) /\ Unmoved(k, q, r, f)
      BY <1>2, <1>4, <2>2
    <3> HIDE DEF q, r, f
    <3>3. QED
      BY <3>1, <3>2, UnmovedOnPath
  <2>3. QED
    BY <2>1, <2>2
<1>8. TypeOK'
  <2>1. info' \in [Job -> JobInfo] /\ rowEta' \in [Job -> Eta \cup {NoEta}]
    BY <1>1, <1>5 DEF PathInv, TypeOK
  <2>2. UNCHANGED <<pauseUntil, now, passing, todo, alarm, lastYield>> /\ calm' = FALSE
    BY DEF Notify
  <2>3. QED
    BY <1>4, <2>1, <2>2 DEF PathInv, TypeOK, Membership
<1>9. QED
  BY <1>7, <1>8 DEF PathInv

LEMMA RemoveJobStep ==
  ASSUME PathInv, NEW j \in Job, RemoveJob(j)
  PROVE  PathInv'
<1> DEFINE c == info[j].chan
<1>1. queue \in Membership /\ running \in Membership /\ failed \in Membership
  BY DEF PathInv, TypeOK, Membership
<1>2. c \in Channel /\ OnPath(j, c, queue, running, failed)
  BY DEF PathInv, TypeOK, JobInfo
<1>3. SetDone(j, c, queue, running, failed)
  BY DEF RemoveJob, SetDone
<1>4. /\ queue' \in Membership /\ running' \in Membership /\ failed' \in Membership
      /\ OnPath(j, c, queue', running', failed')
      /\ \A k \in Job \ {j} : Unmoved(k, queue, running, failed)
  BY <1>1, <1>2, <1>3, SetDoneStep
<1>5. UNCHANGED <<info, pauseUntil, now, passing, todo, alarm, rowEta, lastYield>>
      /\ calm' = FALSE
  BY DEF RemoveJob
<1>6. \A k \in Job : OnPath(k, info[k].chan, queue', running', failed')
  <2> SUFFICES ASSUME NEW k \in Job \ {j}
               PROVE  OnPath(k, info[k].chan, queue', running', failed')
    BY <1>4
  <2>1. info[k].chan \in Channel /\ OnPath(k, info[k].chan, queue, running, failed)
    BY DEF PathInv, TypeOK, JobInfo
  <2>2. QED
    BY <1>4, <2>1, UnmovedOnPath
<1>7. QED
  BY <1>4, <1>5, <1>6 DEF PathInv, TypeOK, Membership

(* Each channel forgets the jobs whose way it is on: all it has.           *)
LEMMA RemoveAllEmpties ==
  ASSUME PathInv, RemoveAll
  PROVE  /\ queue' = [c \in Channel |-> {}]
         /\ running' = [c \in Channel |-> {}]
         /\ failed' = [c \in Channel |-> {}]
<1>1. \A j \in Job : OnPath(j, info[j].chan, queue, running, failed)
  BY DEF PathInv
<1>2. \A c \in Channel : \A j \in Job :
        c \notin Above[info[j].chan] => j \notin queue[c] /\ j \notin running[c] /\ j \notin failed[c]
  BY <1>1 DEF OnPath
<1>3. \A c \in Channel :
        queue[c] \subseteq Job /\ running[c] \subseteq Job /\ failed[c] \subseteq Job
  BY DEF PathInv, TypeOK
<1>4. \A c \in Channel :
        /\ {j \in queue[c] : c \notin Above[info[j].chan]} = {}
        /\ {j \in running[c] : c \notin Above[info[j].chan]} = {}
        /\ {j \in failed[c] : c \notin Above[info[j].chan]} = {}
  BY <1>2, <1>3
<1>5. QED
  BY <1>4 DEF RemoveAll, Forgotten
LEMMA EtaClearedKeepsChannels ==
  ASSUME TypeOK, NEW c \in Channel
  PROVE  /\ EtaCleared(c) \in [Job -> JobInfo]
         /\ \A j \in Job : EtaCleared(c)[j].chan = info[j].chan
<1> SUFFICES ASSUME NEW j \in Job
             PROVE  /\ EtaCleared(c)[j] \in JobInfo
                    /\ EtaCleared(c)[j].chan = info[j].chan
  BY DEF EtaCleared
<1>1. info[j] \in JobInfo
  BY DEF TypeOK
<1>2. EtaCleared(c)[j] = [info[j] EXCEPT !.eta = NoEta] \/ EtaCleared(c)[j] = info[j]
  BY DEF EtaCleared
<1>3. QED
  BY <1>1, <1>2 DEF JobInfo

LEMMA UnpausedType ==
  ASSUME TypeOK, NEW c \in Channel
  PROVE  Unpaused(c) \in [Channel -> Nat]
  BY DEF TypeOK, Unpaused

(* No job moves in a step that leaves the three sets and channels alone.   *)
LEMMA StillOnPath ==
  ASSUME PathInv, UNCHANGED treeVars, \A j \in Job : info'[j].chan = info[j].chan
  PROVE  \A j \in Job : OnPath(j, info'[j].chan, queue', running', failed')
  BY DEF PathInv, treeVars

LEMMA EmptiedStep ==
  ASSUME PathInv, RemoveAll, \A j \in Job : info'[j].chan = info[j].chan
  PROVE  /\ queue' \in [Channel -> SUBSET Job]
         /\ running' \in [Channel -> SUBSET Job]
         /\ failed' \in [Channel -> SUBSET Job]
         /\ \A j \in Job : OnPath(j, info'[j].chan, queue', running', failed')
<1>1. \A j \in Job : Nowhere(j, queue', running', failed')
  BY RemoveAllEmpties DEF Nowhere
<1>2. \A j \in Job : info'[j].chan \in Channel
  BY DEF PathInv, TypeOK, JobInfo
<1>3. QED
  BY <1>1, <1>2, NowhereOnPath, RemoveAllEmpties

(* Where a job waits, it passed all the channels before, and it is nowhere *)
(* after.                                                                  *)
LEMMA WaitingPlace ==
  ASSUME PathInv, NEW c \in Channel, NEW j \in queue[c]
  PROVE  /\ j \in Job /\ info[j].chan \in Channel /\ c \in Above[info[j].chan]
         /\ \A e \in Above[info[j].chan] :
              /\ c \in Above[e] /\ e # c => j \in running[e] /\ j \notin queue[e]
              /\ e \in Above[c] /\ e # c => j \notin running[e] /\ j \notin queue[e]
<1> DEFINE h == info[j].chan
<1>1. j \in Job
  BY DEF PathInv, TypeOK
<1>2. h \in Channel /\ OnPath(j, h, queue, running, failed)
  BY <1>1 DEF PathInv, TypeOK, JobInfo
<1>3. c \in Above[h]
  BY <1>2 DEF OnPath
<1>4. ASSUME NEW e \in Above[h], c \in Above[e], e # c
      PROVE  j \in running[e] /\ j \notin queue[e]
  BY <1>2, <1>3, <1>4 DEF OnPath
<1>5. ASSUME NEW e \in Above[h], e \in Above[c], e # c
      PROVE  j \notin running[e] /\ j \notin queue[e]
  <2>1. j \notin running[c]
    BY <1>2, <1>3 DEF OnPath
  <2>2. QED
    BY <1>2, <1>3, <1>5, <2>1 DEF OnPath
<1>6. QED
  BY <1>1, <1>2, <1>3, <1>4, <1>5

LEMMA YieldMoves ==
  ASSUME PathInv, NEW c \in Channel, NEW j \in Job, Yield(c, j)
  PROVE  /\ j \in queue[c]
         /\ queue' \in Membership /\ running' \in Membership /\ failed' = failed
         /\ \A d \in Channel : \A k :
              /\ k \in running'[d] <=> k \in running[d] \/ (k = j /\ d = c)
              /\ k \in queue'[d] <=> \/ k \in queue[d] /\ ~(k = j /\ d = c)
                                     \/ k = j /\ c # Root /\ d = Parent[c]
<1>1. j \in queue[c]
  BY DEF Yield, Pops, FirstReady, Ready
<1>2. /\ queue' = IF c = Root THEN Without(queue, j, {c})
                  ELSE With(Without(queue, j, {c}), j, {Parent[c]})
      /\ running' = With(running, j, {c})
      /\ failed' = failed
  BY DEF Yield
<1>3. queue \in Membership /\ running \in Membership
  BY DEF PathInv, TypeOK, Membership
<1>4. Without(queue, j, {c}) \in Membership
  BY <1>3, WithMembers
<1>5. queue' \in Membership /\ running' \in Membership
  BY <1>2, <1>3, <1>4, WithMembers
<1>6. \A d \in Channel : \A k : k \in running'[d] <=> k \in running[d] \/ (k = j /\ d = c)
  BY <1>2, <1>3, WithMembers
<1>7. c # Root => c # Parent[c]
  BY TreeFacts
<1>8. \A d \in Channel : \A k :
        k \in queue'[d] <=> \/ k \in queue[d] /\ ~(k = j /\ d = c)
                            \/ k = j /\ c # Root /\ d = Parent[c]
  BY <1>2, <1>3, <1>4, <1>7, WithMembers
<1>9. QED
  BY <1>1, <1>2, <1>5, <1>6, <1>8

(* A job that a channel yields goes on to the next one, or out of the root.*)
LEMMA YieldOnPath ==
  ASSUME PathInv, NEW c \in Channel, NEW j \in Job, Yield(c, j)
  PROVE  OnPath(j, info[j].chan, queue', running', failed')
<1> DEFINE h == info[j].chan
<1>1. j \in queue[c]
  BY YieldMoves
<1>2. h \in Channel /\ c \in Above[h] /\ OnPath(j, h, queue, running, failed)
  BY <1>1, WaitingPlace DEF PathInv
<1>3. \A d \in Channel : j \in running'[d] <=> j \in running[d] \/ d = c
  BY YieldMoves
<1>4. \A d \in Channel : j \in queue'[d] <=> \/ j \in queue[d] /\ d # c
                                             \/ c # Root /\ d = Parent[c]
  BY YieldMoves
<1>5. failed' = failed
  BY YieldMoves
<1>6. Above[h] \subseteq Channel /\ h \in Above[h]
  BY <1>2, TreeFacts
<1>7. /\ c # Root => /\ Parent[c] \in Above[h] /\ Parent[c] \in Above[c] /\ Parent[c] # c
                     /\ j \notin running[Parent[c]] /\ j \notin queue[Parent[c]]
      /\ \A d \in Above[h] : d # c => j \notin queue[d]
      /\ j \notin running[c]
  <2>1. c # Root => Parent[c] \in Above[h] /\ Parent[c] \in Above[c] /\ Parent[c] # c
    BY <1>2, <1>6, TreeFacts
  <2>2. \A d \in Above[h] : c \in Above[d] \/ d \in Above[c]
    BY <1>2, AboveLinear
  <2>3. QED
    BY <1>1, <1>2, <2>1, <2>2, WaitingPlace DEF OnPath
<1>8. \A d \in Channel \ Above[h] : j \notin queue'[d] /\ j \notin running'[d] /\ j \notin failed'[d]
  BY <1>2, <1>3, <1>4, <1>5, <1>7 DEF OnPath
<1>9. \A d \in Above[h] : ~(j \in queue'[d] /\ j \in running'[d]) /\ (d # h => j \notin failed'[d])
  BY <1>2, <1>3, <1>4, <1>5, <1>6, <1>7 DEF OnPath
<1>10. ASSUME NEW d \in Above[h], NEW e \in Above[h], d \in Above[e], d # e,
              j \in queue'[d] \/ j \in running'[d]
       PROVE  j \in running'[e]
  <2>1. CASE d = c
    BY <1>1, <1>2, <1>3, <1>6, <1>10, <2>1 DEF OnPath
  <2>2. CASE c # Root /\ d = Parent[c]
    <3>1. c \in Above[e]
      BY <1>2, <1>10, <2>2, NothingBetween
    <3>2. QED
      BY <1>1, <1>2, <1>3, <1>6, <3>1 DEF OnPath
  <2>3. CASE d # c /\ ~(c # Root /\ d = Parent[c])
    BY <1>2, <1>3, <1>4, <1>6, <1>10, <2>3 DEF OnPath
  <2>4. QED
    BY <2>1, <2>2, <2>3
<1>11. ASSUME NEW d \in Above[h] \ {Root}, j \in running'[d]
       PROVE  j \in queue'[Parent[d]] \/ j \in running'[Parent[d]]
  <2>1. Parent[d] \in Above[h] /\ Parent[d] \in Channel /\ d \in Channel
    BY <1>2, <1>6, TreeFacts
  <2>2. CASE d = c
    BY <1>4, <2>1, <2>2
  <2>3. CASE d # c
    BY <1>2, <1>3, <1>4, <1>11, <2>1, <2>3 DEF OnPath
  <2>4. QED
    BY <2>2, <2>3
<1>12. j \in failed'[h] => j \notin queue'[h] /\ j \notin running'[h]
  <2> SUFFICES ASSUME j \in failed[h] PROVE j \notin queue'[h] /\ j \notin running'[h]
    BY <1>5
  <2>1. h # c
    BY <1>1, <1>2 DEF OnPath
  <2>2. c # Root => h # Parent[c]
    BY <1>2, TreeFacts
  <2>3. QED
    BY <1>2, <1>3, <1>4, <2>1, <2>2 DEF OnPath
<1>13. QED
  BY <1>8, <1>9, <1>10, <1>11, <1>12 DEF OnPath

LEMMA YieldStep ==
  ASSUME PathInv, NEW c \in Channel, NEW j \in Job, Yield(c, j)
  PROVE  PathInv'
<1>1. /\ info' \in [Job -> JobInfo]
      /\ \A k \in Job : info'[k].chan = info[k].chan
  BY EtaClearedKeepsChannels DEF Yield, PathInv
<1>2. /\ queue' \in Membership /\ running' \in Membership /\ failed' = failed
      /\ \A k \in Job \ {j} : Unmoved(k, queue, running, failed)
  BY YieldMoves DEF Unmoved
<1>3. ASSUME NEW k \in Job PROVE OnPath(k, info'[k].chan, queue', running', failed')
  <2>1. info[k].chan \in Channel /\ OnPath(k, info[k].chan, queue, running, failed)
    BY DEF PathInv, TypeOK, JobInfo
  <2>2. CASE k = j
    BY <1>1, <2>2, YieldOnPath
  <2>3. CASE k # j
    BY <1>1, <1>2, <2>1, <2>3, UnmovedOnPath
  <2>4. QED
    BY <2>2, <2>3
<1>4. TypeOK'
  <2>1. pauseUntil' \in [Channel -> Nat] /\ lastYield' \in [Channel -> Nat]
    <3>1. now \in Nat /\ Throttle[c] \in Nat
      BY ConfigAssumption DEF PathInv, TypeOK
    <3>2. now + Throttle[c] \in Nat
      BY <3>1
    <3>3. pauseUntil' = [pauseUntil EXCEPT ![c] = now + Throttle[c]] \/ pauseUntil' = pauseUntil
      BY DEF Yield
    <3>4. lastYield' = [lastYield EXCEPT ![c] = now]
      BY DEF Yield
    <3>5. QED
      BY <3>1, <3>2, <3>3, <3>4 DEF PathInv, TypeOK
  <2>2. todo' \subseteq Channel
    BY DEF Yield, Leave, PathInv, TypeOK
  <2>3. UNCHANGED <<now, passing, alarm, calm, rowEta>>
    BY DEF Yield
  <2>4. QED
    BY <1>1, <1>2, <2>1, <2>2, <2>3 DEF PathInv, TypeOK, Membership
<1>5. QED
  BY <1>3, <1>4 DEF PathInv
(* The least-number principle, which no prover here can take from the      *)
(* library's theorem about a predicate.                                    *)
LEMMA LeastExists ==
  ASSUME NEW S \in SUBSET Nat, S # {}
  PROVE  \E x \in S : \A y \in S : x <= y
<1> DEFINE R == OpToRel(<, Nat)
<1>1. \A x, y \in Nat : y < x => <<y, x>> \in R
  BY DEF OpToRel
<1> HIDE DEF R
<1>2. IsWellFoundedOn(R, Nat)
  BY NatLessThanWellFounded DEF R
<1>3. PICK x \in S : \A y \in S : ~(<<y, x>> \in R)
  BY <1>2, WFMin, Zenon
<1>4. ASSUME NEW y \in S PROVE x <= y
  <2>1. y \in Nat /\ x \in Nat /\ ~(<<y, x>> \in R)
    BY <1>3
  <2>2. ~(y < x)
    BY <1>1, <2>1, Zenon
  <2>3. QED
    BY <2>1, <2>2
<1>5. QED
  BY <1>4

LEMMA MinIsLeast ==
  ASSUME NEW S \in SUBSET Nat, S # {}
  PROVE  Min(S) \in S /\ \A y \in S : Min(S) <= y
BY LeastExists DEF Min

LEMMA WakeupsMembers ==
  ASSUME NEW t
  PROVE  t \in Wakeups <=>
           \E c \in Channel :
             /\ Consulted(c)
             /\ \/ pauseUntil[c] # 0 /\ t = pauseUntil[c]
                \/ /\ pauseUntil[c] = 0
                   /\ \E j \in queue[c] : info[j].eta # NoEta /\ t = info[j].eta
BY DEF Wakeups

LEMMA WakeupsAreDates ==
  ASSUME TypeOK
  PROVE  Wakeups \subseteq Nat \ {0}
<1> SUFFICES ASSUME NEW t \in Wakeups PROVE t \in Nat \ {0}
  OBVIOUS
<1>1. PICK c \in Channel :
        \/ pauseUntil[c] # 0 /\ t = pauseUntil[c]
        \/ \E j \in queue[c] : info[j].eta # NoEta /\ t = info[j].eta
  BY WakeupsMembers
<1>2. CASE pauseUntil[c] # 0 /\ t = pauseUntil[c]
  BY <1>2 DEF TypeOK
<1>3. ASSUME NEW j \in queue[c], info[j].eta # NoEta, t = info[j].eta
      PROVE  t \in Nat \ {0}
  BY <1>3, JobAssumption DEF TypeOK, JobInfo
<1>4. QED
  BY <1>1, <1>2, <1>3

LEMMA WakeupIsNat ==
  ASSUME TypeOK
  PROVE  WakeupTime \in Nat
BY WakeupsAreDates, MinIsLeast DEF WakeupTime

LEMMA NextPath == PathInv /\ [Next]_vars => PathInv'
<1> SUFFICES ASSUME PathInv, [Next]_vars PROVE PathInv'
  OBVIOUS
<1>1. ASSUME NEW j \in Job, Told(j) PROVE PathInv'
  BY <1>1, NotifyStep DEF Told
<1>2. ASSUME NEW j \in Job, YieldRaises(j) PROVE PathInv'
  <2>1. /\ info' \in [Job -> JobInfo]
        /\ \A k \in Job : info'[k].chan = info[k].chan
    BY <1>2, EtaClearedKeepsChannels, TreeFacts DEF YieldRaises, PathInv
  <2>2. pauseUntil' \in [Channel -> Nat]
    BY <1>2, UnpausedType, TreeFacts DEF YieldRaises, PathInv
  <2>3. RemoveAll
    BY <1>2 DEF YieldRaises
  <2>4. UNCHANGED <<now, alarm, rowEta, lastYield>> /\ passing' = FALSE /\ todo' = {}
    BY <1>2 DEF YieldRaises
  <2>5. calm' = FALSE
    BY <2>3 DEF RemoveAll
  <2>6. QED
    BY <2>1, <2>2, <2>3, <2>4, <2>5, EmptiedStep DEF PathInv, TypeOK
<1>3. ASSUME CloseDatabases PROVE PathInv'
  <2>1. RemoveAll /\ calm' = FALSE
    BY <1>3 DEF CloseDatabases, RemoveAll
  <2>2. UNCHANGED <<info, pauseUntil, now, passing, todo, alarm, rowEta, lastYield>>
    BY <1>3 DEF CloseDatabases
  <2>3. QED
    BY <2>1, <2>2, EmptiedStep DEF PathInv, TypeOK
<1>4. ASSUME StartPass \/ EndPass \/ Tick PROVE PathInv'
  <2>1. UNCHANGED treeVars /\ info' = info
    BY <1>4 DEF StartPass, EndPass, Tick, treeVars
  <2>2. TypeOK'
    <3>1. CASE StartPass
      BY <3>1 DEF StartPass, PathInv, TypeOK
    <3>2. CASE EndPass
      <4>1. alarm' \in Nat
        BY <3>2, WakeupIsNat DEF EndPass, PathInv
      <4>2. QED
        BY <3>2, <4>1 DEF EndPass, PathInv, TypeOK
    <3>3. CASE Tick
      BY <3>3 DEF Tick, PathInv, TypeOK
    <3>4. QED
      BY <1>4, <3>1, <3>2, <3>3
  <2>3. QED
    BY <2>1, <2>2, StillOnPath DEF PathInv
<1>5. ASSUME NEW c \in Channel, SkipPaused(c) \/ SkipFull(c) PROVE PathInv'
  <2>1. UNCHANGED treeVars /\ info' = info
    BY <1>5 DEF SkipPaused, SkipFull, treeVars
  <2>2. pauseUntil' \in [Channel -> Nat]
    BY <1>5, UnpausedType DEF SkipPaused, SkipFull, PathInv, TypeOK
  <2>3. todo' \subseteq Channel
    BY <1>5 DEF SkipPaused, SkipFull, Leave, PathInv, TypeOK
  <2>4. UNCHANGED <<now, passing, alarm, calm, rowEta, lastYield>>
    BY <1>5 DEF SkipPaused, SkipFull
  <2>5. QED
    BY <2>1, <2>2, <2>3, <2>4, StillOnPath DEF PathInv, TypeOK, treeVars
<1>6. ASSUME NEW c \in Channel, Exhaust(c) PROVE PathInv'
  <2>1. UNCHANGED treeVars
    BY <1>6 DEF Exhaust, treeVars
  <2>2. /\ info' \in [Job -> JobInfo]
        /\ \A k \in Job : info'[k].chan = info[k].chan
    BY <1>6, EtaClearedKeepsChannels DEF Exhaust, PathInv
  <2>3. pauseUntil' \in [Channel -> Nat]
    BY <1>6, UnpausedType DEF Exhaust, PathInv
  <2>4. todo' \subseteq Channel
    BY <1>6 DEF Exhaust, Leave, PathInv, TypeOK
  <2>5. UNCHANGED <<now, passing, alarm, calm, rowEta, lastYield>>
    BY <1>6 DEF Exhaust
  <2>6. QED
    BY <2>1, <2>2, <2>3, <2>4, <2>5, StillOnPath DEF PathInv, TypeOK, treeVars
<1>7. CASE UNCHANGED vars
  <2>1. UNCHANGED treeVars /\ info' = info
    BY <1>7 DEF vars, treeVars
  <2>2. QED
    BY <1>7, <2>1, StillOnPath DEF PathInv, TypeOK, vars
<1>8. QED
  BY <1>1, <1>2, <1>3, <1>4, <1>5, <1>6, <1>7, RemoveJobStep, YieldStep DEF Next

LEMMA InitPath == Init => PathInv
<1> SUFFICES ASSUME Init PROVE PathInv
  OBVIOUS
<1>1. TypeOK
  <2>1. PICK p \in Prio : info = [j \in Job |-> [chan |-> Root, prio |-> p, eta |-> NoEta]]
    BY DEF Init
  <2>2. info \in [Job -> JobInfo]
    BY <2>1, TreeFacts DEF JobInfo
  <2>3. QED
    BY <2>2 DEF Init, TypeOK
<1>2. \A j \in Job : Nowhere(j, queue, running, failed) /\ info[j].chan \in Channel
  BY TreeFacts DEF Init, Nowhere
<1>3. QED
  BY <1>1, <1>2, NowhereOnPath DEF PathInv

(* The inductive invariant, of any tree.                                   *)
THEOREM PathInvariant == Spec => []PathInv
  BY InitPath, NextPath, PTL DEF Spec

(* A job is in one place of the pipeline, whatever notifications, passes   *)
(* and errors came before.                                                 *)
THEOREM PipelineAlwaysConsistent == Spec => []PipelineConsistent
<1>1. PathInv => PipelineConsistent
  BY PathIsPipeline DEF PathInv, PipelineConsistent
<1>2. QED
  BY <1>1, PathInvariant, PTL
-----------------------------------------------------------------------------
(* What the runner sees of the tree: the jobs that wait anywhere and those *)
(* that run in the root channel.                                           *)
Waits == UNION {queue[c] : c \in Channel}

LEMMA WaitsMembers ==
  /\ \A k : k \in Waits <=> \E c \in Channel : k \in queue[c]
  /\ \A k : k \in Waits' <=> \E c \in Channel : k \in queue'[c]
BY DEF Waits

(* Once removed from its old channels, a job with new properties is in no  *)
(* channel, and the four methods put it in one place of the pool.          *)
LEMMA PoolAfterChange ==
  ASSUME PathInv, NEW j \in Job, NEW c \in Channel,
         NEW q \in Membership, NEW r \in Membership, NEW f \in Membership,
         OnPath(j, c, q, r, f),
         queue' \in Membership, running' \in Membership,
         \A k \in Job \ {j} :
           /\ \A d \in Channel : k \in q[d] <=> k \in queue[d]
           /\ k \in r[Root] <=> k \in running[Root]
           /\ Unmoved(k, q, r, f)
  PROVE  /\ Waits' \ {j} = Waits \ {j}
         /\ running'[Root] \ {j} = running[Root] \ {j}
<1>1. Root \in Channel
  BY TreeFacts
<1>2. /\ \A d \in Channel : queue[d] \subseteq Job /\ queue'[d] \subseteq Job
      /\ running[Root] \subseteq Job /\ running'[Root] \subseteq Job
  BY <1>1 DEF PathInv, TypeOK, Membership
<1>3. \A k \in Job \ {j} : /\ k \in Waits' <=> k \in Waits
                           /\ k \in running'[Root] <=> k \in running[Root]
  BY <1>1, WaitsMembers DEF Unmoved
<1>4. Waits \subseteq Job /\ Waits' \subseteq Job
  BY <1>2, WaitsMembers
<1>5. QED
  BY <1>2, <1>3, <1>4

LEMMA SetDonePool ==
  ASSUME NEW j \in Job, NEW c \in Channel,
         NEW q \in Membership, NEW r \in Membership, NEW f \in Membership,
         OnPath(j, c, q, r, f), SetDone(j, c, q, r, f)
  PROVE  j \notin Waits' /\ j \notin running'[Root]
<1>1. /\ queue' = Without(q, j, Above[c])
      /\ running' = Without(r, j, Above[c])
  BY DEF SetDone, Remove
<1>2. QED
  BY <1>1, WithMembers, WaitsMembers, TreeFacts DEF OnPath

LEMMA SetPendingPool ==
  ASSUME NEW j \in Job, NEW c \in Channel,
         NEW q \in Membership, NEW r \in Membership, NEW f \in Membership,
         OnPath(j, c, q, r, f), SetPending(j, c, q, r, f)
  PROVE  \/ queue' = q /\ running' = r
         \/ j \in Waits' /\ j \notin running'[Root]
<1> SUFFICES ASSUME j \notin q[c] PROVE j \in Waits' /\ j \notin running'[Root]
  BY DEF SetPending
<1>1. /\ queue' = With(Without(q, j, Above[c]), j, {c})
      /\ running' = Without(r, j, Above[c])
  BY DEF SetPending
<1>2. j \in queue'[c]
  BY <1>1, WithMembers
<1>3. j \notin running'[Root]
  BY <1>1, WithMembers, TreeFacts
<1>4. QED
  BY <1>2, <1>3, WaitsMembers

LEMMA SetRunningPool ==
  ASSUME NEW j \in Job, NEW c \in Channel,
         NEW q \in Membership, NEW r \in Membership, NEW f \in Membership,
         OnPath(j, c, q, r, f), SetRunning(j, c, q, r, f)
  PROVE  \/ queue' = q /\ running' = r
         \/ j \notin Waits' /\ j \in running'[Root]
<1> DEFINE D == ReachedBySetRunning(j, c, r)
<1>1. queue' = Without(q, j, D) /\ running' = With(r, j, D)
  BY DEF SetRunning
<1>2. CASE D = {}
  <2>1. queue' = q /\ running' = r
    BY <1>1, <1>2 DEF With, Without, Membership
  <2>2. QED
    BY <2>1
<1>3. CASE D = Above[c]
  BY <1>1, <1>3, WithMembers, WaitsMembers, TreeFacts DEF OnPath
<1>4. QED
  BY <1>2, <1>3, SetRunningReaches

LEMMA SetFailedPool ==
  ASSUME NEW j \in Job, NEW c \in Channel,
         NEW q \in Membership, NEW r \in Membership, NEW f \in Membership,
         OnPath(j, c, q, r, f), SetFailed(j, c, q, r, f)
  PROVE  \/ queue' = q /\ running' = r
         \/ j \notin Waits' /\ j \notin running'[Root]
<1> SUFFICES ASSUME j \notin f[c] PROVE j \notin Waits' /\ j \notin running'[Root]
  BY DEF SetFailed
<1>1. queue' = Without(q, j, Above[c]) /\ running' = Without(r, j, Above[c])
  BY DEF SetFailed
<1>2. QED
  BY <1>1, WithMembers, WaitsMembers, TreeFacts DEF OnPath

(* A notification is one the pool knows, or tells it nothing new.          *)
LEMMA NotifyRefines ==
  ASSUME PathInv, NEW j \in Job, NEW name, NEW p \in Prio,
         NEW e \in Eta \cup {NoEta}, NEW state, Notify(j, name, p, e, state)
  PROVE  \/ Pool!Drop(j) \/ Pool!Enter(j) \/ Pool!Occupy(j)
         \/ UNCHANGED <<Waits, running[Root]>>
<1> DEFINE c   == ChannelOf(name)
           new == [chan |-> c, prio |-> p, eta |-> e]
           old == IF info[j] = new THEN {} ELSE Above[info[j].chan]
           q   == Without(queue, j, old)
           r   == Without(running, j, old)
           f   == Without(failed, j, old)
<1>1. c \in Channel /\ new \in JobInfo /\ new.chan = c
  BY TreeFacts DEF ChannelOf, JobInfo
<1>2. /\ q \in Membership /\ r \in Membership /\ f \in Membership
      /\ OnPath(j, c, q, r, f)
      /\ info[j] # new => Nowhere(j, q, r, f)
  BY <1>1, NotifyFindsOnPath
<1>3. \/ SetDone(j, c, q, r, f)
      \/ SetPending(j, c, q, r, f)
      \/ SetRunning(j, c, q, r, f)
      \/ SetFailed(j, c, q, r, f)
  BY DEF Notify
<1>4. queue \in Membership /\ running \in Membership
  BY DEF PathInv, TypeOK, Membership
<1>5. /\ \A k \in Job \ {j} : \A d \in Channel : k \in q[d] <=> k \in queue[d]
      /\ \A k \in Job \ {j} : k \in r[Root] <=> k \in running[Root]
  BY <1>4, WithMembers, TreeFacts
<1>6. /\ queue' \in Membership /\ running' \in Membership
      /\ \A k \in Job \ {j} : Unmoved(k, q, r, f)
  <2> HIDE DEF c, q, r, f
  <2>1. CASE SetDone(j, c, q, r, f)
    BY <1>1, <1>2, <2>1, SetDoneStep
  <2>2. CASE SetPending(j, c, q, r, f)
    BY <1>1, <1>2, <2>2, SetPendingStep
  <2>3. CASE SetRunning(j, c, q, r, f)
    BY <1>1, <1>2, <2>3, SetRunningStep
  <2>4. CASE SetFailed(j, c, q, r, f)
    BY <1>1, <1>2, <2>4, SetFailedStep
  <2>5. QED
    BY <1>3, <2>1, <2>2, <2>3, <2>4
<1>7. /\ Waits' \ {j} = Waits \ {j}
      /\ running'[Root] \ {j} = running[Root] \ {j}
  <2> HIDE DEF c, q, r, f
  <2>1. QED
    BY <1>1, <1>2, <1>5, <1>6, PoolAfterChange
<1>8. ASSUME queue' = q, running' = r
      PROVE  Pool!Drop(j) \/ UNCHANGED <<Waits, running[Root]>>
  <2>1. CASE info[j] = new
    <3>1. q = queue /\ r = running
      BY <1>4, <2>1 DEF Without, Membership
    <3>2. QED
      BY <1>8, <3>1 DEF Waits
  <2>2. CASE info[j] # new
    <3>1. j \notin Waits' /\ j \notin running'[Root]
      BY <1>2, <1>8, <2>2, WaitsMembers, TreeFacts DEF Nowhere
    <3>2. QED
      BY <1>7, <3>1 DEF Pool!Drop, Waits
  <2>3. QED
    BY <2>1, <2>2
<1>9. ASSUME j \notin Waits', j \notin running'[Root] PROVE Pool!Drop(j)
  BY <1>7, <1>9 DEF Pool!Drop, Waits
<1>10. ASSUME j \in Waits', j \notin running'[Root] PROVE Pool!Enter(j)
  BY <1>7, <1>10 DEF Pool!Enter, Waits
<1>11. ASSUME j \notin Waits', j \in running'[Root] PROVE Pool!Occupy(j)
  BY <1>7, <1>11 DEF Pool!Occupy, Waits
<1> HIDE DEF c, q, r, f
<1>12. CASE SetDone(j, c, q, r, f)
  BY <1>1, <1>2, <1>9, <1>12, SetDonePool
<1>13. CASE SetPending(j, c, q, r, f)
  BY <1>1, <1>2, <1>8, <1>10, <1>13, SetPendingPool
<1>14. CASE SetRunning(j, c, q, r, f)
  BY <1>1, <1>2, <1>8, <1>11, <1>14, SetRunningPool
<1>15. CASE SetFailed(j, c, q, r, f)
  BY <1>1, <1>2, <1>8, <1>9, <1>15, SetFailedPool
<1>16. QED
  BY <1>3, <1>12, <1>13, <1>14, <1>15
-----------------------------------------------------------------------------
LEMMA RemoveJobRefines ==
  ASSUME PathInv, NEW j \in Job, RemoveJob(j)
  PROVE  Pool!Drop(j)
<1> DEFINE c == info[j].chan
<1>1. queue \in Membership /\ running \in Membership /\ failed \in Membership
  BY DEF PathInv, TypeOK, Membership
<1>2. c \in Channel /\ OnPath(j, c, queue, running, failed)
  BY DEF PathInv, TypeOK, JobInfo
<1>3. SetDone(j, c, queue, running, failed)
  BY DEF RemoveJob, SetDone
<1>4. /\ queue' \in Membership /\ running' \in Membership
      /\ \A k \in Job \ {j} : Unmoved(k, queue, running, failed)
  BY <1>1, <1>2, <1>3, SetDoneStep
<1>5. /\ Waits' \ {j} = Waits \ {j}
      /\ running'[Root] \ {j} = running[Root] \ {j}
  BY <1>1, <1>2, <1>4, PoolAfterChange
<1>6. j \notin Waits' /\ j \notin running'[Root]
  BY <1>1, <1>2, <1>3, SetDonePool
<1>7. QED
  BY <1>5, <1>6 DEF Pool!Drop, Waits

LEMMA SameCardinality == \A S : Pool!Cardinality(S) = Cardinality(S)
  BY DEF Cardinality, Pool!Cardinality

(* The root hands out a job that was waiting, within its capacity; any     *)
(* other channel only passes its job on, which the pool does not see.      *)
LEMMA YieldRefines ==
  ASSUME PathInv, NEW c \in Channel, NEW j \in Job, Yield(c, j)
  PROVE  Pool!HandOut(j) \/ UNCHANGED <<Waits, running[Root]>>
<1>1. /\ j \in queue[c]
      /\ \A d \in Channel : \A k :
              /\ k \in running'[d] <=> k \in running[d] \/ (k = j /\ d = c)
              /\ k \in queue'[d] <=> \/ k \in queue[d] /\ ~(k = j /\ d = c)
                                     \/ k = j /\ c # Root /\ d = Parent[c]
  BY YieldMoves
<1>2. CASE c # Root
  <2>1. running'[Root] = running[Root]
    <3>1. running' = With(running, j, {c})
      BY <1>1 DEF Yield
    <3>2. QED
      BY <1>2, <3>1, TreeFacts DEF With
  <2>2. Parent[c] \in Channel /\ Parent[c] # c
    BY <1>2, TreeFacts
  <2>3. Waits' = Waits
    BY <1>1, <1>2, <2>2, WaitsMembers
  <2>4. QED
    BY <2>1, <2>3 DEF Waits
<1>3. CASE c = Root
  <2>1. running'[Root] = running[Root] \cup {j}
    BY <1>1, <1>3
  <2>2. ASSUME NEW d \in Channel PROVE j \notin queue'[d]
    <3>1. /\ info[j].chan \in Channel /\ OnPath(j, info[j].chan, queue, running, failed)
          /\ \A e \in Above[info[j].chan] : c \in Above[e] /\ e # c => j \notin queue[e]
      BY <1>1, WaitingPlace DEF PathInv
    <3>2. CASE d \in Above[info[j].chan]
      BY <1>1, <1>3, <3>1, <3>2, TreeFacts
    <3>3. CASE d \notin Above[info[j].chan]
      BY <1>1, <1>3, <3>1, <3>3 DEF OnPath
    <3>4. QED
      BY <3>2, <3>3
  <2>3. \A k : k \in Waits' <=> k \in Waits /\ k # j
    BY <1>1, <1>3, <2>2, WaitsMembers
  <2>4. Waits' = Waits \ {j} /\ j \in Waits
    BY <1>1, <2>3, WaitsMembers
  <2>5. Pool!HasSlot
    <3>1. HasCapacity(Root)
      BY <1>3 DEF Yield
    <3>2. QED
      BY <3>1, SameCardinality DEF HasCapacity, Pool!HasSlot
  <2>6. QED
    BY <2>1, <2>4, <2>5 DEF Pool!HandOut, Pool!Occupy, Waits
<1>4. QED
  BY <1>2, <1>3

LEMMA RemoveAllRefines ==
  ASSUME PathInv, RemoveAll
  PROVE  Pool!Forget
<1>1. \A c \in Channel : queue'[c] = {} /\ running'[c] = {}
  BY RemoveAllEmpties
<1>2. Waits' = {} /\ running'[Root] = {}
  BY <1>1, WaitsMembers, TreeFacts
<1>3. QED
  BY <1>2 DEF Pool!Forget, Waits

LEMMA NextRefines == PathInv /\ [Next]_vars => [Pool!PoolNext]_(Pool!poolVars)
<1> SUFFICES ASSUME PathInv, [Next]_vars PROVE [Pool!PoolNext]_(Pool!poolVars)
  OBVIOUS
<1>1. ASSUME UNCHANGED <<Waits, running[Root]>> PROVE [Pool!PoolNext]_(Pool!poolVars)
  BY <1>1 DEF Pool!poolVars, Waits
<1>2. ASSUME NEW j \in Job, Told(j) PROVE [Pool!PoolNext]_(Pool!poolVars)
  <2>1. PICK name \in Name, p \in Prio, e \in Eta \cup {NoEta},
             state \in {"pending", "enqueued", "done", "failed"} :
          Notify(j, name, p, e, state)
    BY <1>2 DEF Told
  <2>2. Pool!Drop(j) \/ Pool!Enter(j) \/ Pool!Occupy(j) \/ UNCHANGED <<Waits, running[Root]>>
    BY <2>1, NotifyRefines
  <2>3. QED
    BY <1>1, <2>2 DEF Pool!PoolNext
<1>3. ASSUME NEW j \in Job, RemoveJob(j) PROVE [Pool!PoolNext]_(Pool!poolVars)
  BY <1>3, RemoveJobRefines DEF Pool!PoolNext
<1>4. ASSUME NEW j \in Job, YieldRaises(j) PROVE [Pool!PoolNext]_(Pool!poolVars)
  BY <1>4, RemoveAllRefines DEF YieldRaises, Pool!PoolNext
<1>5. ASSUME CloseDatabases PROVE [Pool!PoolNext]_(Pool!poolVars)
  BY <1>5, RemoveAllRefines DEF CloseDatabases, Pool!PoolNext
<1>6. ASSUME UNCHANGED treeVars PROVE [Pool!PoolNext]_(Pool!poolVars)
  BY <1>1, <1>6 DEF treeVars, Waits
<1>7. ASSUME StartPass \/ EndPass \/ Tick PROVE UNCHANGED treeVars
  BY <1>7 DEF StartPass, EndPass, Tick, treeVars
<1>8. ASSUME NEW c \in Channel, SkipPaused(c) \/ SkipFull(c) \/ Exhaust(c)
      PROVE  UNCHANGED treeVars
  BY <1>8 DEF SkipPaused, SkipFull, Exhaust, treeVars
<1>9. ASSUME NEW c \in Channel, NEW j \in Job, Yield(c, j)
      PROVE  [Pool!PoolNext]_(Pool!poolVars)
  BY <1>1, <1>9, YieldRefines DEF Pool!PoolNext
<1>10. CASE UNCHANGED vars
  BY <1>6, <1>10 DEF vars, treeVars
<1>11. QED
  BY <1>2, <1>3, <1>4, <1>5, <1>6, <1>7, <1>8, <1>9, <1>10 DEF Next

LEMMA InitRefines == Init => Pool!PoolInit
BY TreeFacts DEF Init, Pool!PoolInit

(* The tree of channels is a pool of jobs bounded by the capacity of the   *)
(* root, whatever its shape.                                               *)
THEOREM PoolRefinement == Spec => ImplementsJobPool
  BY InitRefines, NextRefines, PathInvariant, PTL
     DEF Spec, ImplementsJobPool, Pool!PoolSpec
-----------------------------------------------------------------------------
(* What a pass may start.                                                  *)

(* During a pass, only what a channel yields begins to run there.          *)
LEMMA OnlyYieldStarts ==
  ASSUME PathInv, [Next]_vars, passing, NEW c \in Channel,
         NEW j, j \in running'[c], j \notin running[c]
  PROVE  j \in Job /\ Yield(c, j)
<1>1. ~CloseDatabases /\ ~StartPass /\ ~Tick /\ ~(\E k \in Job : Told(k) \/ RemoveJob(k))
  BY DEF CloseDatabases, StartPass, Tick, Told, Notify, RemoveJob
<1>2. ASSUME NEW k \in Job, YieldRaises(k) PROVE FALSE
  BY <1>2, RemoveAllEmpties DEF YieldRaises
<1>3. running' # running
  OBVIOUS
<1>4. \A d \in Channel : ~SkipPaused(d) /\ ~SkipFull(d) /\ ~Exhaust(d)
  BY <1>3 DEF SkipPaused, SkipFull, Exhaust
<1>5. ~EndPass /\ ~(UNCHANGED vars)
  BY <1>3 DEF EndPass, vars
<1>6. PICK d \in Channel, k \in Job : Yield(d, k)
  BY <1>1, <1>2, <1>4, <1>5 DEF Next
<1>7. d = c /\ k = j
  BY <1>6, YieldMoves
<1>8. QED
  BY <1>6, <1>7

LEMMA RunningFinite ==
  ASSUME TypeOK, NEW c \in Channel
  PROVE  IsFiniteSet(running[c]) /\ Cardinality(running[c]) \in Nat
<1>1. running[c] \subseteq Job
  BY DEF TypeOK
<1>2. IsFiniteSet(running[c])
  BY <1>1, JobAssumption, FS_Subset
<1>3. QED
  BY <1>2, FS_CardinalityType

LEMMA NextNotOverfilled ==
  ASSUME PathInv, [Next]_vars, NEW c \in Channel, passing, ~(running'[c] \subseteq running[c])
  PROVE  Capacity[c] = 0 \/ Cardinality(running'[c]) <= Capacity[c]
<1>1. PICK j : j \in running'[c] /\ j \notin running[c]
  OBVIOUS
<1>2. j \in Job /\ Yield(c, j)
  BY <1>1, OnlyYieldStarts
<1>3. running'[c] = running[c] \cup {j}
  BY <1>2 DEF Yield, With
<1>4. HasCapacity(c)
  BY <1>2 DEF Yield
<1>5. IsFiniteSet(running[c]) /\ Cardinality(running[c]) \in Nat
  BY RunningFinite DEF PathInv
<1>6. Cardinality(running'[c]) = Cardinality(running[c]) + 1
  BY <1>1, <1>3, <1>5, FS_AddElement
<1>7. Capacity[c] \in Nat
  BY ConfigAssumption
<1>8. QED
  BY <1>4, <1>5, <1>6, <1>7 DEF HasCapacity

(* No pass fills a channel beyond its capacity, in any tree, however far   *)
(* the jobs that were told to run fill it.                                 *)
THEOREM NeverEverOverfilled == Spec => NeverOverfilled
<1>1. PathInv /\ [Next]_vars =>
        \A c \in Channel : passing /\ ~(running[c]' \subseteq running[c]) =>
          Capacity[c] = 0 \/ Cardinality(running[c]') <= Capacity[c]
  BY NextNotOverfilled
<1>2. QED
  BY <1>1, PathInvariant, PTL DEF Spec, NeverOverfilled

LEMMA EtasAreNat ==
  /\ Eta \cup {NoEta} \subseteq Nat
  /\ TypeOK => \A j \in Job : info[j].eta \in Nat /\ rowEta[j] \in Nat
<1>1. Eta \cup {NoEta} \subseteq Nat
  <2>1. NoEta \in Nat /\ \A e \in Eta : e \in Nat
    BY JobAssumption
  <2>2. QED
    BY <2>1
<1>2. ASSUME TypeOK, NEW j \in Job PROVE info[j].eta \in Nat /\ rowEta[j] \in Nat
  <2>1. info[j] \in JobInfo /\ rowEta[j] \in Eta \cup {NoEta}
    BY <1>2 DEF TypeOK
  <2>2. info[j].eta \in Eta \cup {NoEta}
    BY <2>1 DEF JobInfo
  <2>3. QED
    BY <1>1, <2>1, <2>2
<1>3. QED
  BY <1>1, <1>2

LEMMA NextSequential ==
  ASSUME PathInv, [Next]_vars, NEW c \in Sequential, passing,
         NEW j \in running'[c] \ running[c]
  PROVE  /\ failed[c] = {} /\ running[c] = {}
         /\ \A k \in queue[c] :
              info[k].eta <= now \/ FirstLate(c, k) => ~Before(k, j)
<1>1. c \in Channel /\ Capacity[c] = 1
  BY ConfigAssumption
<1>2. j \in Job /\ Yield(c, j)
  BY <1>1, OnlyYieldStarts
<1>3. failed[c] = {} /\ Cardinality(running[c]) < 1
  BY <1>1, <1>2 DEF Yield, HasCapacity
<1>4. running[c] = {}
  BY <1>1, <1>3, RunningFinite, FS_EmptySet DEF PathInv
<1>5. ASSUME NEW k \in queue[c], info[k].eta <= now PROVE ~Before(k, j)
  <2>1. k \in Job /\ now \in Nat /\ info[k] \in JobInfo /\ info[j] \in JobInfo
    BY <1>1, <1>2 DEF PathInv, TypeOK
  <2>2. k \in Ready(c)
    <3>1. info[k].eta \in Nat
      BY <2>1, EtasAreNat DEF PathInv
    <3>2. QED
      BY <1>5, <2>1, <3>1 DEF Ready, Late
  <2>3. k = j \/ Before(j, k)
    BY <1>2, <2>2 DEF Yield, Pops, FirstReady
  <2>4. k \in Nat /\ j \in Nat /\ info[k].prio \in Nat /\ info[j].prio \in Nat
    BY <1>2, <2>1, JobAssumption DEF JobInfo
  <2>5. QED
    BY <2>3, <2>4 DEF Before
<1>6. ASSUME NEW k \in queue[c], FirstLate(c, k) PROVE ~Before(k, j)
  BY <1>2, <1>6 DEF Yield, Pops, WaitsForEta, FirstLate
<1>7. QED
  BY <1>3, <1>4, <1>5, <1>6

(* Sequential channels: one job at a time, in order, none after a failure. *)
THEOREM AlwaysSequential == Spec => SequentialOrder
<1>1. PathInv /\ [Next]_vars =>
        \A c \in Sequential : passing =>
          \A j \in running[c]' \ running[c] :
            /\ failed[c] = {} /\ running[c] = {}
            /\ \A k \in queue[c] :
                 info[k].eta <= now \/ FirstLate(c, k) => ~Before(k, j)
  BY NextSequential
<1>2. QED
  BY <1>1, PathInvariant, PTL DEF Spec, SequentialOrder
-----------------------------------------------------------------------------
(* A ChannelJob has lost the eta of its row only after that time; a pause  *)
(* stands as long as the throttle asks for it.                             *)
EtaKnown == \A j \in Job : info[j].eta = rowEta[j] \/ rowEta[j] <= now

PauseLasts ==
  \A c \in Channel :
    /\ lastYield[c] <= now
    /\ \/ lastYield[c] = 0
       \/ pauseUntil[c] = lastYield[c] + Throttle[c]
       \/ lastYield[c] + Throttle[c] <= now
    /\ Throttle[c] = 0 => pauseUntil[c] = 0

TimeInv == PathInv /\ EtaKnown /\ PauseLasts

LEMMA EtaClearedKnown ==
  ASSUME TypeOK, EtaKnown, NEW c \in Channel, info' = EtaCleared(c),
         UNCHANGED <<rowEta, now>>
  PROVE  EtaKnown'
<1> SUFFICES ASSUME NEW j \in Job PROVE info'[j].eta = rowEta[j] \/ rowEta[j] <= now
  BY DEF EtaKnown
<1>1. info[j].eta = rowEta[j] \/ rowEta[j] <= now
  BY DEF EtaKnown
<1>2. CASE j \in Ready(c)
  <2>1. ~(info[j].eta > now)
    BY <1>2 DEF Ready, Late
  <2>2. now \in Nat /\ info[j].eta \in Nat /\ rowEta[j] \in Nat
    BY EtasAreNat DEF TypeOK
  <2>3. QED
    BY <1>1, <2>1, <2>2
<1>3. CASE j \notin Ready(c)
  BY <1>1, <1>3 DEF EtaCleared
<1>4. QED
  BY <1>2, <1>3

LEMMA UnpausedLasts ==
  ASSUME TypeOK, PauseLasts, NEW c \in Channel, ~Paused(c),
         pauseUntil' = Unpaused(c), UNCHANGED <<lastYield, now>>
  PROVE  PauseLasts'
<1> SUFFICES ASSUME NEW d \in Channel
             PROVE  /\ lastYield[d] <= now
                    /\ \/ lastYield[d] = 0
                       \/ pauseUntil'[d] = lastYield[d] + Throttle[d]
                       \/ lastYield[d] + Throttle[d] <= now
                    /\ Throttle[d] = 0 => pauseUntil'[d] = 0
  BY DEF PauseLasts
<1>1. /\ now \in Nat /\ lastYield[d] \in Nat /\ pauseUntil[d] \in Nat /\ Throttle[d] \in Nat
  BY ConfigAssumption DEF TypeOK
<1>2. /\ lastYield[d] <= now
      /\ \/ lastYield[d] = 0
         \/ pauseUntil[d] = lastYield[d] + Throttle[d]
         \/ lastYield[d] + Throttle[d] <= now
      /\ Throttle[d] = 0 => pauseUntil[d] = 0
  BY DEF PauseLasts
<1>3. CASE d = c /\ Throttle[c] > 0
  <2>1. pauseUntil'[d] = 0
    BY <1>3 DEF Unpaused, TypeOK
  <2>2. ~(now < pauseUntil[d])
    BY <1>3 DEF Paused
  <2>3. QED
    BY <1>1, <1>2, <1>3, <2>1, <2>2
<1>4. CASE ~(d = c /\ Throttle[c] > 0)
  <2>1. pauseUntil'[d] = pauseUntil[d]
    BY <1>4 DEF Unpaused, TypeOK
  <2>2. QED
    BY <1>2, <2>1
<1>5. QED
  BY <1>3, <1>4
LEMMA YieldLasts ==
  ASSUME TypeOK, PauseLasts, NEW c \in Channel, NEW j \in Job, Yield(c, j)
  PROVE  PauseLasts'
<1> SUFFICES ASSUME NEW d \in Channel
             PROVE  /\ lastYield'[d] <= now
                    /\ \/ lastYield'[d] = 0
                       \/ pauseUntil'[d] = lastYield'[d] + Throttle[d]
                       \/ lastYield'[d] + Throttle[d] <= now
                    /\ Throttle[d] = 0 => pauseUntil'[d] = 0
  BY DEF PauseLasts, Yield
<1>1. /\ now \in Nat /\ lastYield[d] \in Nat /\ pauseUntil[d] \in Nat /\ Throttle[d] \in Nat
  BY ConfigAssumption DEF TypeOK
<1>2. /\ lastYield[d] <= now
      /\ \/ lastYield[d] = 0
         \/ pauseUntil[d] = lastYield[d] + Throttle[d]
         \/ lastYield[d] + Throttle[d] <= now
      /\ Throttle[d] = 0 => pauseUntil[d] = 0
  BY DEF PauseLasts
<1>3. /\ lastYield' = [lastYield EXCEPT ![c] = now]
      /\ pauseUntil' = IF Throttle[c] > 0
                       THEN [pauseUntil EXCEPT ![c] = now + Throttle[c]]
                       ELSE pauseUntil
  BY DEF Yield
<1>4. CASE d = c /\ Throttle[c] > 0
  <2>1. lastYield'[d] = now /\ pauseUntil'[d] = now + Throttle[d]
    BY <1>3, <1>4 DEF TypeOK
  <2>2. QED
    BY <1>1, <1>4, <2>1
<1>5. CASE d = c /\ ~(Throttle[c] > 0)
  <2>1. lastYield'[d] = now /\ pauseUntil'[d] = pauseUntil[d] /\ Throttle[d] = 0
    BY <1>1, <1>3, <1>5 DEF TypeOK
  <2>2. QED
    BY <1>1, <1>2, <2>1
<1>6. CASE d # c
  <2>1. lastYield'[d] = lastYield[d] /\ pauseUntil'[d] = pauseUntil[d]
    BY <1>3, <1>6 DEF TypeOK
  <2>2. QED
    BY <1>2, <2>1
<1>7. QED
  BY <1>4, <1>5, <1>6

LEMMA TickLasts ==
  ASSUME TypeOK, EtaKnown, PauseLasts, Tick
  PROVE  EtaKnown' /\ PauseLasts'
<1>1. /\ now' = now + 1 /\ now \in Nat
      /\ UNCHANGED <<info, rowEta, pauseUntil, lastYield>>
  BY DEF Tick, TypeOK
<1>2. \A j \in Job : rowEta[j] \in Nat
  BY EtasAreNat
<1>3. \A c \in Channel : lastYield[c] \in Nat /\ Throttle[c] \in Nat
  BY ConfigAssumption DEF TypeOK
<1>4. EtaKnown'
  BY <1>1, <1>2 DEF EtaKnown
<1>5. PauseLasts'
  BY <1>1, <1>3 DEF PauseLasts
<1>6. QED
  BY <1>4, <1>5

LEMMA NextTime == TimeInv /\ [Next]_vars => TimeInv'
<1> SUFFICES ASSUME TimeInv, [Next]_vars PROVE EtaKnown' /\ PauseLasts'
  BY NextPath DEF TimeInv
<1> USE DEF TimeInv
<1>0. TypeOK
  BY DEF PathInv
<1>1. ASSUME NEW j \in Job, Told(j) PROVE EtaKnown' /\ PauseLasts'
  <2>1. PICK name \in Name, p \in Prio, e \in Eta \cup {NoEta},
             state \in {"pending", "enqueued", "done", "failed"} :
          Notify(j, name, p, e, state)
    BY <1>1 DEF Told
  <2>2. /\ info' = [info EXCEPT ![j] = [chan |-> ChannelOf(name), prio |-> p, eta |-> e]]
        /\ rowEta' = [rowEta EXCEPT ![j] = e]
        /\ UNCHANGED <<pauseUntil, now, lastYield>>
    BY <2>1 DEF Notify
  <2>3. EtaKnown'
    BY <1>0, <2>2 DEF EtaKnown, TypeOK
  <2>4. PauseLasts'
    BY <2>2 DEF PauseLasts
  <2>5. QED
    BY <2>3, <2>4
<1>2. ASSUME UNCHANGED <<info, rowEta, pauseUntil, now, lastYield>>
      PROVE  EtaKnown' /\ PauseLasts'
  BY <1>2 DEF EtaKnown, PauseLasts
<1>3. ASSUME NEW j \in Job, RemoveJob(j) PROVE EtaKnown' /\ PauseLasts'
  BY <1>2, <1>3 DEF RemoveJob
<1>4. ASSUME NEW j \in Job, YieldRaises(j) PROVE EtaKnown' /\ PauseLasts'
  BY <1>0, <1>4, EtaClearedKnown, UnpausedLasts, TreeFacts DEF YieldRaises
<1>5. ASSUME CloseDatabases \/ StartPass \/ EndPass PROVE EtaKnown' /\ PauseLasts'
  BY <1>2, <1>5 DEF CloseDatabases, StartPass, EndPass
<1>6. ASSUME NEW c \in Channel, SkipPaused(c) PROVE EtaKnown' /\ PauseLasts'
  BY <1>2, <1>6 DEF SkipPaused
<1>7. ASSUME NEW c \in Channel, SkipFull(c) PROVE EtaKnown' /\ PauseLasts'
  <2>1. EtaKnown'
    BY <1>7 DEF SkipFull, EtaKnown
  <2>2. QED
    BY <1>0, <1>7, <2>1, UnpausedLasts DEF SkipFull
<1>8. ASSUME NEW c \in Channel, Exhaust(c) PROVE EtaKnown' /\ PauseLasts'
  BY <1>0, <1>8, EtaClearedKnown, UnpausedLasts DEF Exhaust
<1>9. ASSUME NEW c \in Channel, NEW j \in Job, Yield(c, j) PROVE EtaKnown' /\ PauseLasts'
  <2>1. EtaKnown'
    BY <1>0, <1>9, EtaClearedKnown DEF Yield
  <2>2. QED
    BY <1>0, <1>9, <2>1, YieldLasts
<1>10. CASE UNCHANGED vars
  BY <1>2, <1>10 DEF vars
<1>11. QED
  BY <1>0, <1>1, <1>3, <1>4, <1>5, <1>6, <1>7, <1>8, <1>9, <1>10, TickLasts DEF Next

LEMMA InitTime == Init => TimeInv
<1> SUFFICES ASSUME Init PROVE TimeInv
  OBVIOUS
<1>1. PathInv
  BY InitPath
<1>2. EtaKnown
  BY DEF Init, EtaKnown
<1>3. PauseLasts
  BY DEF Init, PauseLasts
<1>4. QED
  BY <1>1, <1>2, <1>3 DEF TimeInv

THEOREM TimeInvariant == Spec => []TimeInv
  BY InitTime, NextTime, PTL DEF Spec

(* No job begins to run in a channel before the eta of its row.            *)
THEOREM EtaAlwaysRespected == Spec => EtaRespected
<1>1. TimeInv /\ [Next]_vars =>
        \A c \in Channel : passing =>
          \A j \in running[c]' \ running[c] : rowEta[j] <= now
  <2> SUFFICES ASSUME TimeInv, [Next]_vars, NEW c \in Channel, passing,
                      NEW j \in running'[c] \ running[c]
               PROVE  rowEta[j] <= now
    OBVIOUS
  <2>1. j \in Job /\ Yield(c, j)
    BY OnlyYieldStarts DEF TimeInv
  <2>2. info[j].eta = rowEta[j] \/ rowEta[j] <= now
    BY <2>1 DEF TimeInv, EtaKnown
  <2>3. ~(info[j].eta > now)
    BY <2>1 DEF Yield, Pops, FirstReady, Ready, Late
  <2>4. now \in Nat /\ rowEta[j] \in Nat
    BY <2>1, EtasAreNat DEF TimeInv, PathInv, TypeOK
  <2>5. QED
    BY <2>2, <2>3, <2>4
<1>2. QED
  BY <1>1, TimeInvariant, PTL DEF Spec, EtaRespected

(* Two jobs of a channel start at least its throttle apart, whatever       *)
(* errors close the databases in between.                                  *)
THEOREM ThrottleAlwaysKept == Spec => ThrottleSpacing
<1>1. TimeInv /\ [Next]_vars =>
        \A c \in Channel : passing /\ ~(running[c]' \subseteq running[c]) =>
          lastYield[c] = 0 \/ now - lastYield[c] >= Throttle[c]
  <2> SUFFICES ASSUME TimeInv, [Next]_vars, NEW c \in Channel, passing,
                      NEW j, j \in running'[c], j \notin running[c]
               PROVE  lastYield[c] = 0 \/ now - lastYield[c] >= Throttle[c]
    OBVIOUS
  <2>1. Yield(c, j)
    BY OnlyYieldStarts DEF TimeInv
  <2>2. ~(Throttle[c] > 0 /\ now < pauseUntil[c])
    BY <2>1 DEF Yield, Paused
  <2>3. /\ lastYield[c] <= now
        /\ \/ lastYield[c] = 0
           \/ pauseUntil[c] = lastYield[c] + Throttle[c]
           \/ lastYield[c] + Throttle[c] <= now
    BY DEF TimeInv, PauseLasts
  <2>4. now \in Nat /\ lastYield[c] \in Nat /\ pauseUntil[c] \in Nat /\ Throttle[c] \in Nat
    BY ConfigAssumption DEF TimeInv, PathInv, TypeOK
  <2>5. QED
    BY <2>2, <2>3, <2>4
<1>2. QED
  BY <1>1, TimeInvariant, PTL DEF Spec, ThrottleSpacing
-----------------------------------------------------------------------------
(* When to wake up.  A channel a pass has left is not looked at again: its *)
(* children are done, its pause lies ahead, and its queue has nothing to   *)
(* give, now or at an eta that is already over.                            *)
Drained(c) ==
  /\ pauseUntil[c] = 0 \/ pauseUntil[c] > now
  /\ \/ ~HasCapacity(c)
     \/ pauseUntil[c] # 0
     \/ \A j \in queue[c] :
          ~Pops(c, j) /\ (info[j].eta = NoEta \/ info[j].eta > now)

DoneInv ==
  passing => \A c \in Channel \ todo : Children(c) \cap todo = {} /\ Drained(c)

(* A job that leaves c would get to the root at once.                      *)
OpenBelow(c) == \A d \in Above[c] \ {c} : HasCapacity(d) /\ pauseUntil[d] = 0

Far(t) == alarm # 0 /\ alarm <= t

(* Nothing leaves c before the alarm.                                      *)
Settled(c) ==
  \/ ~HasCapacity(c)
  \/ pauseUntil[c] # 0 /\ Far(pauseUntil[c])
  \/ /\ pauseUntil[c] = 0
     /\ \A j \in queue[c] : ~Pops(c, j) /\ (info[j].eta = NoEta \/ Far(info[j].eta))

Asleep == calm /\ (alarm = 0 \/ now < alarm)

(* Until the alarm, the last channel on the way to the root that could     *)
(* give a job has none to give.                                            *)
SleepInv == Asleep => \A c \in Channel : OpenBelow(c) => Settled(c)

WakeInv == TimeInv /\ DoneInv /\ SleepInv

(* What a queue gives depends on its jobs, their priorities and the etas   *)
(* that lie ahead.                                                         *)
LEMMA PopsFrame ==
  ASSUME NEW d \in Channel, NEW j \in queue[d], queue'[d] = queue[d], Late(d)' = Late(d),
         \A k \in queue[d] : info'[k].prio = info[k].prio,
         \A k \in Late(d) : info'[k].eta = info[k].eta
  PROVE  Pops(d, j)' <=> Pops(d, j)
<1>1. Ready(d)' = Ready(d)
  BY DEF Ready
<1>2. Late(d) \subseteq queue[d] /\ Ready(d) \subseteq queue[d]
  BY DEF Late, Ready
<1>3. \A x, y \in queue[d] : Before(x, y)' <=> Before(x, y)
  BY DEF Before
<1>4. \A x, y \in Late(d) : EtaBefore(x, y)' <=> EtaBefore(x, y)
  BY <1>2, <1>3 DEF EtaBefore
<1>5. FirstReady(d, j)' <=> FirstReady(d, j)
  BY <1>1, <1>2, <1>3 DEF FirstReady
<1>6. \A k \in Late(d) : FirstLate(d, k)' <=> FirstLate(d, k)
  BY <1>4 DEF FirstLate
<1>7. WaitsForEta(d, j)' <=> WaitsForEta(d, j)
  BY <1>2, <1>3, <1>6 DEF WaitsForEta
<1>8. QED
  BY <1>5, <1>7 DEF Pops

LEMMA SameQueueFrame ==
  ASSUME NEW d \in Channel, queue'[d] = queue[d], now' = now,
         \A k \in queue[d] : info'[k] = info[k]
  PROVE  \A j \in queue[d] : Pops(d, j)' <=> Pops(d, j)
<1>1. Late(d)' = Late(d)
  BY DEF Late
<1>2. Late(d) \subseteq queue[d]
  BY DEF Late
<1>3. QED
  BY <1>1, <1>2, PopsFrame

LEMMA OneQueue ==
  ASSUME PathInv, NEW c \in Channel, NEW d \in Channel, c # d, NEW k \in queue[c]
  PROVE  k \notin queue[d]
<1>1. /\ k \in Job /\ info[k].chan \in Channel /\ c \in Above[info[k].chan]
      /\ \A e \in Above[info[k].chan] :
           /\ c \in Above[e] /\ e # c => k \notin queue[e]
           /\ e \in Above[c] /\ e # c => k \notin queue[e]
  BY WaitingPlace
<1>2. CASE d \in Above[info[k].chan]
  BY <1>1, <1>2, AboveLinear
<1>3. CASE d \notin Above[info[k].chan]
  BY <1>1, <1>3 DEF PathInv, OnPath
<1>4. QED
  BY <1>2, <1>3

(* A visit to c clears etas of its own jobs that are over, and no others.  *)
LEMMA EtaClearedFrame ==
  ASSUME PathInv, NEW c \in Channel, info' = EtaCleared(c), now' = now
  PROVE  /\ \A d \in Channel \ {c} : \A k \in queue[d] : info'[k] = info[k]
         /\ \A k \in queue[c] :
              /\ info'[k].prio = info[k].prio
              /\ info[k].eta > now => info'[k] = info[k]
              /\ ~(info[k].eta > now) => info'[k].eta = NoEta
         /\ queue'[c] = queue[c] => Late(c)' = Late(c)
         /\ queue'[c] = queue[c] => \A j \in queue[c] : Pops(c, j)' <=> Pops(c, j)
<1>0. \A d \in Channel : queue[d] \subseteq Job
  BY DEF PathInv, TypeOK
<1>1. \A d \in Channel \ {c} : \A k \in queue[d] : info'[k] = info[k]
  <2> SUFFICES ASSUME NEW d \in Channel \ {c}, NEW k \in queue[d]
               PROVE  info'[k] = info[k]
    OBVIOUS
  <2>1. k \notin Ready(c)
    BY OneQueue DEF Ready
  <2>2. QED
    BY <1>0, <2>1 DEF EtaCleared
<1>2. ASSUME NEW k \in queue[c]
      PROVE  /\ info'[k].prio = info[k].prio
             /\ info[k].eta > now => info'[k] = info[k]
             /\ ~(info[k].eta > now) => info'[k].eta = NoEta
  <2>1. k \in Job /\ info[k] \in JobInfo
    BY <1>0 DEF PathInv, TypeOK
  <2>2. info'[k] = IF info[k].eta > now THEN info[k] ELSE [info[k] EXCEPT !.eta = NoEta]
    BY <2>1 DEF EtaCleared, Ready, Late
  <2>3. QED
    BY <2>1, <2>2 DEF JobInfo
<1>3. ASSUME queue'[c] = queue[c] PROVE Late(c)' = Late(c)
  <2>1. now \in Nat
    BY DEF PathInv, TypeOK
  <2>2. ~(NoEta > now)
    BY <2>1, JobAssumption
  <2>3. QED
    BY <1>2, <1>3, <2>2 DEF Late
<1>4. ASSUME queue'[c] = queue[c], NEW j \in queue[c] PROVE Pops(c, j)' <=> Pops(c, j)
  BY <1>2, <1>3, <1>4, PopsFrame DEF Late
<1>5. QED
  BY <1>1, <1>2, <1>3, <1>4

(* A channel a step does not touch stays drained, or settled.              *)
Untouched(d) ==
  /\ queue'[d] = queue[d] /\ running'[d] = running[d] /\ failed'[d] = failed[d]
  /\ pauseUntil'[d] = pauseUntil[d] /\ now' = now
  /\ \A k \in queue[d] : info'[k] = info[k]

LEMMA UntouchedFrame ==
  ASSUME NEW d \in Channel, Untouched(d)
  PROVE  /\ HasCapacity(d)' <=> HasCapacity(d)
         /\ Drained(d)' <=> Drained(d)
         /\ alarm' = alarm => (Settled(d)' <=> Settled(d))
<1>1. HasCapacity(d)' <=> HasCapacity(d)
  BY DEF HasCapacity, Untouched
<1>2. \A j \in queue[d] : Pops(d, j)' <=> Pops(d, j)
  BY SameQueueFrame DEF Untouched
<1>3. Drained(d)' <=> Drained(d)
  BY <1>1, <1>2 DEF Drained, Untouched
<1>4. ASSUME alarm' = alarm PROVE Settled(d)' <=> Settled(d)
  BY <1>1, <1>2, <1>4 DEF Settled, Untouched, Far
<1>5. QED
  BY <1>1, <1>3, <1>4

(* What a visit leaves alone.                                              *)
LEMMA ElsewhereUntouched ==
  ASSUME TimeInv, NEW c \in Channel, NEW d \in Channel \ {c},
         \/ SkipPaused(c) \/ SkipFull(c) \/ Exhaust(c)
         \/ \E j \in Job : Yield(c, j) /\ (c = Root \/ d # Parent[c])
  PROVE  Untouched(d)
<1>1. PathInv /\ TypeOK
  BY DEF TimeInv, PathInv
<1>2. now' = now /\ failed' = failed
  BY DEF SkipPaused, SkipFull, Exhaust, Yield
<1>3. queue'[d] = queue[d] /\ running'[d] = running[d]
  <2>1. ASSUME NEW j \in Job, Yield(c, j), c = Root \/ d # Parent[c]
        PROVE  queue'[d] = queue[d] /\ running'[d] = running[d]
    BY <2>1 DEF Yield, With, Without
  <2>2. QED
    BY <2>1 DEF SkipPaused, SkipFull, Exhaust
<1>4. pauseUntil'[d] = pauseUntil[d]
  BY <1>1 DEF SkipPaused, SkipFull, Exhaust, Yield, Unpaused, TypeOK
<1>5. \A k \in queue[d] : info'[k] = info[k]
  <2>1. info' = info \/ info' = EtaCleared(c)
    BY DEF SkipPaused, SkipFull, Exhaust, Yield
  <2>2. QED
    BY <1>1, <1>2, <2>1, EtaClearedFrame
<1>6. QED
  BY <1>2, <1>3, <1>4, <1>5 DEF Untouched

(* A channel visited and not paused has a pause to lift or none.           *)
LEMMA UnpausedIsZero ==
  ASSUME TimeInv, NEW c \in Channel
  PROVE  Unpaused(c)[c] = 0
<1>1. Throttle[c] \in Nat /\ pauseUntil \in [Channel -> Nat]
  BY ConfigAssumption DEF TimeInv, PathInv, TypeOK
<1>2. Throttle[c] = 0 => pauseUntil[c] = 0
  BY DEF TimeInv, PauseLasts
<1>3. QED
  BY <1>1, <1>2 DEF Unpaused

LEMMA SkippedIsDrained ==
  ASSUME TimeInv, NEW c \in Channel, SkipPaused(c) \/ SkipFull(c) \/ Exhaust(c)
  PROVE  Drained(c)'
<1>1. PathInv /\ TypeOK /\ now \in Nat /\ pauseUntil[c] \in Nat
  BY DEF TimeInv, PathInv, TypeOK
<1>2. CASE SkipPaused(c)
  <2>1. now < pauseUntil[c] /\ pauseUntil' = pauseUntil /\ now' = now
    BY <1>2 DEF SkipPaused, Paused
  <2>2. pauseUntil'[c] > now' /\ pauseUntil'[c] # 0
    BY <1>1, <2>1
  <2>3. QED
    BY <2>2 DEF Drained
<1>3. CASE SkipFull(c)
  <2>1. pauseUntil'[c] = 0
    BY <1>3, UnpausedIsZero DEF SkipFull
  <2>2. ~HasCapacity(c)'
    BY <1>3 DEF SkipFull, HasCapacity
  <2>3. QED
    BY <2>1, <2>2 DEF Drained
<1>4. CASE Exhaust(c)
  <2>1. pauseUntil'[c] = 0
    BY <1>4, UnpausedIsZero DEF Exhaust
  <2>2. info' = EtaCleared(c) /\ now' = now /\ queue' = queue
    BY <1>4 DEF Exhaust
  <2>3. \A j \in queue[c] : ~Pops(c, j)'
    BY <1>1, <1>4, <2>2, EtaClearedFrame DEF Exhaust
  <2>4. \A j \in queue[c] : info'[j].eta = NoEta \/ info'[j].eta > now
    BY <1>1, <2>2, EtaClearedFrame
  <2>5. QED
    BY <2>1, <2>2, <2>3, <2>4 DEF Drained
<1>5. QED
  BY <1>2, <1>3, <1>4

LEMMA NextDone == TimeInv /\ DoneInv /\ [Next]_vars => DoneInv'
<1> SUFFICES ASSUME TimeInv, DoneInv, [Next]_vars, passing',
                    NEW d \in Channel, d \notin todo'
             PROVE  Children(d) \cap todo' = {} /\ Drained(d)'
  BY DEF DoneInv, Children
<1>0. \A k \in Job : ~Told(k) /\ ~RemoveJob(k) /\ ~YieldRaises(k)
  <2> TAKE k \in Job
  <2>1. ~Told(k)
    <3> SUFFICES ASSUME NEW name, NEW p, NEW e, NEW state, Notify(k, name, p, e, state)
                 PROVE  FALSE
      BY DEF Told
    <3> QED
      BY DEF Notify
  <2>2. ~RemoveJob(k)
    BY DEF RemoveJob
  <2>3. ~YieldRaises(k)
    BY DEF YieldRaises
  <2>4. QED
    BY <2>1, <2>2, <2>3
<1>1. ~CloseDatabases /\ ~Tick /\ ~EndPass
  BY DEF CloseDatabases, Tick, EndPass
<1>2. ~StartPass
  BY DEF StartPass
<1>3. CASE UNCHANGED vars
  <2>1. Untouched(d) /\ passing /\ d \notin todo /\ todo' = todo
    BY <1>3 DEF vars, Untouched
  <2>2. QED
    BY <2>1, UntouchedFrame DEF DoneInv
<1>4. ASSUME NEW c \in Channel, SkipPaused(c) \/ SkipFull(c) \/ Exhaust(c)
      PROVE  Children(d) \cap todo' = {} /\ Drained(d)'
  <2>1. Visiting(c) /\ todo' = todo \ {c}
    BY <1>4 DEF SkipPaused, SkipFull, Exhaust, Leave
  <2>2. CASE d = c
    BY <1>4, <2>1, <2>2, SkippedIsDrained DEF Visiting
  <2>3. CASE d # c
    <3>1. Untouched(d)
      BY <1>4, <2>3, ElsewhereUntouched
    <3>2. passing /\ d \notin todo
      BY <2>1, <2>3 DEF Visiting
    <3>3. QED
      BY <2>1, <3>1, <3>2, UntouchedFrame DEF DoneInv
  <2>4. QED
    BY <2>2, <2>3
<1>5. ASSUME NEW c \in Channel, NEW j \in Job, Yield(c, j)
      PROVE  Children(d) \cap todo' = {} /\ Drained(d)'
  <2>1. Visiting(c) /\ todo' = IF Throttle[c] > 0 THEN todo \ {c} ELSE todo
    BY <1>5 DEF Yield, Leave
  <2>2. CASE d = c
    <3>1. Throttle[c] > 0
      BY <2>1, <2>2 DEF Visiting
    <3>2. pauseUntil'[c] = now + Throttle[c] /\ now' = now
      BY <1>5, <3>1 DEF Yield, TimeInv, PathInv, TypeOK
    <3>3. now \in Nat /\ Throttle[c] \in Nat
      BY ConfigAssumption DEF TimeInv, PathInv, TypeOK
    <3>4. pauseUntil'[c] > now' /\ pauseUntil'[c] # 0
      BY <3>1, <3>2, <3>3
    <3>5. Drained(c)'
      BY <3>4 DEF Drained
    <3>6. QED
      BY <2>1, <2>2, <3>5 DEF Visiting
  <2>3. CASE d # c
    <3>1. passing /\ d \notin todo /\ c \in todo
      BY <2>1, <2>3 DEF Visiting
    <3>2. Children(d) \cap todo = {} /\ Drained(d)
      BY <3>1 DEF DoneInv
    <3>3. c = Root \/ d # Parent[c]
      BY <3>1, <3>2 DEF Children
    <3>4. Untouched(d)
      BY <1>5, <2>3, <3>3, ElsewhereUntouched
    <3>5. QED
      BY <2>1, <3>2, <3>4, UntouchedFrame
  <2>4. QED
    BY <2>2, <2>3
<1>6. QED
  BY <1>0, <1>1, <1>2, <1>3, <1>4, <1>5 DEF Next

(* A visit changes the capacity and the pause of the visited channel only: *)
(* the channels that do not lead through it are as open as before, and     *)
(* when it was blocked below, those that lead through it still are.        *)
SameDoor(e) == (HasCapacity(e)' <=> HasCapacity(e)) /\ pauseUntil'[e] = pauseUntil[e]

LEMMA VisitKeepsDoors ==
  ASSUME TimeInv, NEW c \in Channel, NEW e \in Channel \ {c},
         SkipFull(c) \/ Exhaust(c) \/ \E j \in Job : Yield(c, j)
  PROVE  SameDoor(e)
<1>1. failed' = failed /\ running'[e] = running[e]
  BY DEF SkipFull, Exhaust, Yield, With
<1>2. pauseUntil'[e] = pauseUntil[e]
  BY DEF SkipFull, Exhaust, Yield, Unpaused, TimeInv, PathInv, TypeOK
<1>3. QED
  BY <1>1, <1>2 DEF SameDoor, HasCapacity

LEMMA OpenElsewhere ==
  ASSUME NEW c \in Channel, NEW d \in Channel, c \notin Above[d] \ {d},
         \A e \in Channel \ {c} : SameDoor(e)
  PROVE  OpenBelow(d)' <=> OpenBelow(d)
<1>1. \A e \in Above[d] \ {d} : e \in Channel \ {c}
  BY TreeFacts
<1>2. \A e \in Above[d] \ {d} : SameDoor(e)
  BY <1>1
<1>3. QED
  BY <1>2 DEF OpenBelow, SameDoor

LEMMA StaysBlocked ==
  ASSUME NEW c \in Channel, NEW d \in Channel, c \in Above[d], ~OpenBelow(c),
         \A e \in Channel \ {c} : SameDoor(e)
  PROVE  ~OpenBelow(d)'
<1>1. PICK e \in Above[c] \ {c} : ~HasCapacity(e) \/ pauseUntil[e] # 0
  BY DEF OpenBelow
<1>2. e \in Channel \ {c} /\ e \in Above[d]
  BY <1>1, TreeFacts
<1>3. e # d
  BY <1>1, <1>2, AboveAntisymmetric
<1>4. ~HasCapacity(e)' \/ pauseUntil'[e] # 0
  BY <1>1, <1>2 DEF SameDoor
<1>5. QED
  BY <1>2, <1>3, <1>4 DEF OpenBelow

(* While the runner sleeps, a channel visited without a pause in force has *)
(* none at all.                                                            *)
LEMMA NoPauseLeft ==
  ASSUME TimeInv, Asleep, NEW c \in Channel, ~Paused(c), HasCapacity(c), Settled(c)
  PROVE  /\ pauseUntil[c] = 0
         /\ \A j \in queue[c] : ~Pops(c, j) /\ (info[j].eta = NoEta \/ Far(info[j].eta))
<1>1. /\ now \in Nat /\ alarm \in Nat /\ pauseUntil[c] \in Nat /\ Throttle[c] \in Nat
  BY ConfigAssumption DEF TimeInv, PathInv, TypeOK
<1>2. Throttle[c] = 0 => pauseUntil[c] = 0
  BY DEF TimeInv, PauseLasts
<1>3. pauseUntil[c] = 0
  BY <1>1, <1>2 DEF Asleep, Settled, Far, Paused
<1>4. QED
  BY <1>3 DEF Settled

LEMMA EndPassSleeps ==
  ASSUME TimeInv, DoneInv, EndPass
  PROVE  SleepInv'
<1>1. /\ passing /\ todo = {} /\ alarm' = WakeupTime
      /\ UNCHANGED <<info, queue, running, failed, pauseUntil, now>>
  BY DEF EndPass
<1> SUFFICES ASSUME NEW c \in Channel, OpenBelow(c)' PROVE Settled(c)'
  BY DEF SleepInv
<1>2. OpenBelow(c) /\ (HasCapacity(c)' <=> HasCapacity(c))
  BY <1>1 DEF OpenBelow, HasCapacity
<1>3. Drained(c)
  BY <1>1 DEF DoneInv
<1>4. ASSUME NEW t \in Wakeups PROVE alarm' # 0 /\ alarm' <= t
  <2>1. Wakeups \in SUBSET Nat /\ 0 \notin Wakeups
    BY WakeupsAreDates DEF TimeInv, PathInv
  <2>2. WakeupTime = Min(Wakeups)
    BY <1>4 DEF WakeupTime
  <2>3. Min(Wakeups) \in Wakeups /\ Min(Wakeups) <= t
    BY <1>4, <2>1, MinIsLeast
  <2>4. QED
    BY <1>1, <2>1, <2>2, <2>3
<1>5. CASE ~HasCapacity(c)
  BY <1>2, <1>5 DEF Settled
<1>6. CASE HasCapacity(c) /\ pauseUntil[c] # 0
  <2>1. Consulted(c)
    BY <1>2, <1>6 DEF Consulted, OpenBelow
  <2>2. pauseUntil[c] \in Wakeups
    BY <1>6, <2>1, WakeupsMembers
  <2>3. QED
    BY <1>1, <1>4, <1>6, <2>2 DEF Settled, Far
<1>7. CASE HasCapacity(c) /\ pauseUntil[c] = 0
  <2>1. Consulted(c)
    BY <1>2, <1>7 DEF Consulted, OpenBelow
  <2>2. \A j \in queue[c] : info[j].eta # NoEta => info[j].eta \in Wakeups
    BY <1>7, <2>1, WakeupsMembers
  <2>3. \A j \in queue[c] : Pops(c, j)' <=> Pops(c, j)
    BY <1>1, SameQueueFrame
  <2>4. \A j \in queue[c] : ~Pops(c, j)
    BY <1>3, <1>7 DEF Drained
  <2>5. \A j \in queue[c] :
          info[j].eta = NoEta \/ (alarm' # 0 /\ alarm' <= info[j].eta)
    BY <1>1, <1>4, <2>2 DEF Far
  <2>6. QED
    BY <1>1, <1>7, <2>3, <2>4, <2>5 DEF Settled, Far
<1>8. QED
  BY <1>5, <1>6, <1>7

LEMMA TickSleeps ==
  ASSUME TimeInv, SleepInv, Tick
  PROVE  SleepInv'
<1>1. /\ now' = now + 1 /\ now \in Nat /\ alarm \in Nat
      /\ UNCHANGED <<info, queue, running, failed, pauseUntil, alarm, calm>>
  BY DEF Tick, TimeInv, PathInv, TypeOK
<1> SUFFICES ASSUME Asleep', NEW c \in Channel, OpenBelow(c)' PROVE Settled(c)'
  BY DEF SleepInv
<1>2. Asleep /\ (alarm # 0 => now + 1 < alarm)
  BY <1>1 DEF Asleep
<1>3. OpenBelow(c) /\ (HasCapacity(c)' <=> HasCapacity(c))
  BY <1>1 DEF OpenBelow, HasCapacity
<1>4. Settled(c)
  BY <1>2, <1>3 DEF SleepInv
<1>5. CASE ~HasCapacity(c)
  BY <1>3, <1>5 DEF Settled
<1>6. CASE pauseUntil[c] # 0 /\ Far(pauseUntil[c])
  BY <1>1, <1>6 DEF Settled, Far
<1>7. CASE /\ pauseUntil[c] = 0
           /\ \A j \in queue[c] : ~Pops(c, j) /\ (info[j].eta = NoEta \/ Far(info[j].eta))
  <2>1. \A j \in queue[c] : info[j].eta > now + 1 <=> info[j].eta > now
    <3> TAKE j \in queue[c]
    <3>1. info[j].eta \in Nat
      BY EtasAreNat DEF TimeInv, PathInv, TypeOK
    <3>2. info[j].eta = 0 \/ (alarm # 0 /\ alarm <= info[j].eta)
      BY <1>7, JobAssumption DEF Far
    <3>3. QED
      BY <1>1, <1>2, <3>1, <3>2
  <2>2. Late(c)' = Late(c) /\ Late(c) \subseteq queue[c]
    BY <1>1, <2>1 DEF Late
  <2>3. \A j \in queue[c] : Pops(c, j)' <=> Pops(c, j)
    BY <1>1, <2>2, PopsFrame
  <2>4. QED
    BY <1>1, <1>7, <2>3 DEF Settled, Far
<1>8. QED
  BY <1>4, <1>5, <1>6, <1>7 DEF Settled

LEMMA SkipFullSleeps ==
  ASSUME TimeInv, SleepInv, NEW c \in Channel, SkipFull(c)
  PROVE  SleepInv'
<1>1. /\ ~HasCapacity(c) /\ (HasCapacity(c)' <=> HasCapacity(c))
      /\ UNCHANGED <<now, alarm, calm>>
  BY DEF SkipFull, HasCapacity
<1> SUFFICES ASSUME Asleep', NEW d \in Channel, OpenBelow(d)' PROVE Settled(d)'
  BY DEF SleepInv
<1>2. CASE d = c
  BY <1>1, <1>2 DEF Settled
<1>3. CASE d # c
  <2>1. c \notin Above[d]
    BY <1>1, <1>3 DEF OpenBelow
  <2>2. OpenBelow(d)
    BY <2>1, VisitKeepsDoors, OpenElsewhere
  <2>3. Settled(d)
    BY <1>1, <2>2 DEF SleepInv, Asleep
  <2>4. Untouched(d)
    BY <1>3, ElsewhereUntouched
  <2>5. QED
    BY <1>1, <2>3, <2>4, UntouchedFrame
<1>4. QED
  BY <1>2, <1>3

LEMMA ExhaustSleeps ==
  ASSUME TimeInv, SleepInv, NEW c \in Channel, Exhaust(c)
  PROVE  SleepInv'
<1>1. /\ HasCapacity(c) /\ (HasCapacity(c)' <=> HasCapacity(c)) /\ ~Paused(c)
      /\ info' = EtaCleared(c) /\ queue' = queue /\ UNCHANGED <<now, alarm, calm>>
  BY DEF Exhaust, HasCapacity
<1> SUFFICES ASSUME Asleep', NEW d \in Channel, OpenBelow(d)' PROVE Settled(d)'
  BY DEF SleepInv
<1>2. Asleep
  BY <1>1 DEF Asleep
<1>3. \A e \in Channel \ {c} : SameDoor(e) /\ Untouched(e)
  BY VisitKeepsDoors, ElsewhereUntouched
<1>4. ASSUME OpenBelow(d), d # c PROVE Settled(d)'
  BY <1>1, <1>2, <1>3, <1>4, UntouchedFrame DEF SleepInv
<1>5. CASE ~OpenBelow(c)
  <2>1. c \notin Above[d]
    BY <1>3, <1>5, StaysBlocked
  <2>2. d # c
    BY <2>1, TreeFacts
  <2>3. QED
    BY <1>3, <1>4, <2>1, <2>2, OpenElsewhere
<1>6. CASE OpenBelow(c)
  <2>1. Settled(c)
    BY <1>2, <1>6 DEF SleepInv
  <2>2. /\ pauseUntil[c] = 0
        /\ \A j \in queue[c] : ~Pops(c, j) /\ (info[j].eta = NoEta \/ Far(info[j].eta))
    BY <1>1, <1>2, <2>1, NoPauseLeft
  <2>3. pauseUntil'[c] = 0
    BY UnpausedIsZero DEF Exhaust
  <2>4. SameDoor(c)
    BY <1>1, <2>2, <2>3 DEF SameDoor
  <2>5. OpenBelow(d)
    BY <1>3, <2>4, TreeFacts DEF OpenBelow, SameDoor
  <2>6. CASE d = c
    <3>1. PathInv
      BY DEF TimeInv
    <3>2. \A j \in queue[c] : ~Pops(c, j)'
      BY <1>1, <2>2, <3>1, EtaClearedFrame
    <3>3. \A j \in queue[c] : info'[j].eta = NoEta \/ Far(info'[j].eta)
      BY <1>1, <2>2, <3>1, EtaClearedFrame
    <3>4. QED
      BY <1>1, <2>3, <2>6, <3>2, <3>3 DEF Settled, Far
  <2>7. QED
    BY <1>4, <2>5, <2>6
<1>7. QED
  BY <1>5, <1>6

LEMMA YieldSleeps ==
  ASSUME TimeInv, SleepInv, NEW c \in Channel, NEW j \in Job, Yield(c, j)
  PROVE  SleepInv'
<1>1. /\ HasCapacity(c) /\ ~Paused(c) /\ Pops(c, j) /\ UNCHANGED <<now, alarm, calm>>
  BY DEF Yield
<1> SUFFICES ASSUME Asleep', NEW d \in Channel, OpenBelow(d)' PROVE Settled(d)'
  BY DEF SleepInv
<1>2. Asleep
  BY <1>1 DEF Asleep
<1>3. \A e \in Channel \ {c} : SameDoor(e)
  BY VisitKeepsDoors
<1>4. ~OpenBelow(c)
  <2> SUFFICES ASSUME OpenBelow(c) PROVE FALSE
    OBVIOUS
  <2>1. Settled(c)
    BY <1>2 DEF SleepInv
  <2>2. j \in queue[c]
    BY YieldMoves DEF TimeInv
  <2>3. QED
    BY <1>1, <1>2, <2>1, <2>2, NoPauseLeft
<1>5. c \notin Above[d]
  BY <1>3, <1>4, StaysBlocked
<1>6. d # c /\ OpenBelow(d)
  BY <1>3, <1>5, OpenElsewhere, TreeFacts
<1>7. Settled(d)
  BY <1>2, <1>6 DEF SleepInv
<1>8. CASE c # Root /\ d = Parent[c]
  <2>1. ~HasCapacity(d) \/ pauseUntil[d] # 0
    BY <1>4, <1>6, <1>8, TreeFacts DEF OpenBelow
  <2>2. ~HasCapacity(d) \/ (pauseUntil[d] # 0 /\ Far(pauseUntil[d]))
    BY <1>7, <2>1 DEF Settled
  <2>3. QED
    BY <1>1, <1>3, <1>6, <2>2 DEF Settled, SameDoor, Far
<1>9. CASE c = Root \/ d # Parent[c]
  <2>1. Untouched(d)
    BY <1>6, <1>9, ElsewhereUntouched
  <2>2. QED
    BY <1>1, <1>7, <2>1, UntouchedFrame
<1>10. QED
  BY <1>8, <1>9

LEMMA NextSleep == TimeInv /\ DoneInv /\ SleepInv /\ [Next]_vars => SleepInv'
<1> SUFFICES ASSUME TimeInv, DoneInv, SleepInv, [Next]_vars PROVE SleepInv'
  OBVIOUS
<1>1. ASSUME calm' = FALSE PROVE SleepInv'
  BY <1>1 DEF SleepInv, Asleep
<1>2. ASSUME UNCHANGED <<info, queue, running, failed, pauseUntil, now, alarm, calm>>
      PROVE  SleepInv'
  <2> SUFFICES ASSUME Asleep', NEW d \in Channel, OpenBelow(d)' PROVE Settled(d)'
    BY DEF SleepInv
  <2>1. Untouched(d)
    BY <1>2 DEF Untouched
  <2>2. Asleep /\ OpenBelow(d)
    BY <1>2 DEF Asleep, OpenBelow, HasCapacity
  <2>3. QED
    BY <1>2, <2>1, <2>2, UntouchedFrame DEF SleepInv
<1>3. ASSUME NEW j \in Job, Told(j) PROVE SleepInv'
  <2>1. PICK name \in Name, p \in Prio, e \in Eta \cup {NoEta},
             state \in {"pending", "enqueued", "done", "failed"} :
          Notify(j, name, p, e, state)
    BY <1>3 DEF Told
  <2>2. calm' = FALSE
    BY <2>1 DEF Notify
  <2>3. QED
    BY <1>1, <2>2
<1>4. ASSUME NEW j \in Job, RemoveJob(j) PROVE SleepInv'
  BY <1>1, <1>4 DEF RemoveJob
<1>5. ASSUME NEW j \in Job, YieldRaises(j) PROVE SleepInv'
  BY <1>1, <1>5 DEF YieldRaises, RemoveAll
<1>6. CASE CloseDatabases
  BY <1>1, <1>6 DEF CloseDatabases, RemoveAll
<1>7. CASE StartPass
  BY <1>2, <1>7 DEF StartPass
<1>8. ASSUME NEW c \in Channel, SkipPaused(c) PROVE SleepInv'
  BY <1>2, <1>8 DEF SkipPaused
<1>9. CASE UNCHANGED vars
  BY <1>2, <1>9 DEF vars
<1>10. QED
  BY <1>3, <1>4, <1>5, <1>6, <1>7, <1>8, <1>9, SkipFullSleeps, ExhaustSleeps, YieldSleeps,
     EndPassSleeps, TickSleeps DEF Next

LEMMA InitWake == Init => WakeInv
<1> SUFFICES ASSUME Init PROVE WakeInv
  OBVIOUS
<1>1. DoneInv /\ SleepInv
  BY DEF Init, DoneInv, SleepInv, Asleep
<1>2. QED
  BY <1>1, InitTime DEF WakeInv

(* The invariant behind the two promises of the wakeup time.               *)
THEOREM WakeInvariant == Spec => []WakeInv
<1>1. WakeInv /\ [Next]_vars => WakeInv'
  BY NextTime, NextDone, NextSleep DEF WakeInv
<1>2. QED
  BY <1>1, InitWake, PTL DEF Spec

(* A runner that sleeps until the wakeup time misses no job, in any tree   *)
(* of channels and for any capacities, throttles and etas.                 *)
THEOREM NoWakeupEverMissed == Spec => NoMissedWakeup
<1>1. WakeInv /\ [Next]_vars =>
        (passing /\ calm /\ ~(running[Root]' \subseteq running[Root]) =>
           alarm # 0 /\ alarm <= now)
  <2> SUFFICES ASSUME WakeInv, [Next]_vars, passing, calm,
                      NEW j, j \in running'[Root], j \notin running[Root]
               PROVE  alarm # 0 /\ alarm <= now
    OBVIOUS
  <2>1. TimeInv /\ SleepInv /\ PathInv
    BY DEF WakeInv, TimeInv
  <2>2. Root \in Channel
    BY TreeFacts
  <2>3. j \in Job /\ Yield(Root, j) /\ j \in queue[Root]
    BY <2>1, <2>2, OnlyYieldStarts, YieldMoves
  <2>4. OpenBelow(Root)
    BY TreeAssumption DEF OpenBelow
  <2>5. ASSUME Asleep PROVE FALSE
    <3>1. Settled(Root)
      BY <2>1, <2>2, <2>4, <2>5 DEF SleepInv
    <3>2. \A k \in queue[Root] : ~Pops(Root, k)
      BY <2>1, <2>2, <2>3, <2>5, <3>1, NoPauseLeft DEF Yield
    <3>3. QED
      BY <2>3, <3>2 DEF Yield
  <2>6. now \in Nat /\ alarm \in Nat
    BY <2>1 DEF PathInv, TypeOK
  <2>7. QED
    BY <2>5, <2>6 DEF Asleep
<1>2. QED
  BY <1>1, WakeInvariant, PTL DEF Spec, NoMissedWakeup

(* The wakeup time a pass ends with is never over already.                 *)
THEOREM NeverBusyWakeup == Spec => NoBusyWakeup
<1>1. WakeInv /\ [Next]_vars =>
        (passing /\ ~passing' /\ calm' => alarm' = 0 \/ alarm' > now)
  <2> SUFFICES ASSUME WakeInv, [Next]_vars, passing, ~passing', calm'
               PROVE  alarm' = 0 \/ alarm' > now
    OBVIOUS
  <2>1. \A j \in Job : ~YieldRaises(j) /\ ~Told(j) /\ ~RemoveJob(j)
    <3> TAKE j \in Job
    <3>1. ~YieldRaises(j)
      BY DEF YieldRaises, RemoveAll
    <3>2. ~Told(j)
      <4> SUFFICES ASSUME NEW name, NEW p, NEW e, NEW state, Notify(j, name, p, e, state)
                   PROVE  FALSE
        BY DEF Told
      <4> QED
        BY DEF Notify
    <3>3. ~RemoveJob(j)
      BY DEF RemoveJob
    <3>4. QED
      BY <3>1, <3>2, <3>3
  <2>2. ~CloseDatabases /\ ~StartPass /\ ~Tick /\ ~(UNCHANGED vars)
    BY DEF CloseDatabases, StartPass, Tick, vars
  <2>3. \A c \in Channel : ~SkipPaused(c) /\ ~SkipFull(c) /\ ~Exhaust(c)
    BY DEF SkipPaused, SkipFull, Exhaust
  <2>4. \A c \in Channel, j \in Job : ~Yield(c, j)
    BY DEF Yield
  <2>5. EndPass
    BY <2>1, <2>2, <2>3, <2>4 DEF Next
  <2>6. \A c \in Channel : Drained(c)
    BY <2>5 DEF EndPass, WakeInv, DoneInv
  <2>7. alarm' = WakeupTime
    BY <2>5 DEF EndPass
  <2>8. CASE Wakeups = {}
    BY <2>7, <2>8 DEF WakeupTime
  <2>9. CASE Wakeups # {}
    <3>1. Wakeups \in SUBSET Nat
      BY WakeupsAreDates DEF WakeInv, TimeInv, PathInv
    <3>2. alarm' \in Wakeups
      BY <2>7, <2>9, <3>1, MinIsLeast DEF WakeupTime
    <3>3. PICK c \in Channel :
            /\ Consulted(c)
            /\ \/ pauseUntil[c] # 0 /\ alarm' = pauseUntil[c]
               \/ /\ pauseUntil[c] = 0
                  /\ \E k \in queue[c] : info[k].eta # NoEta /\ alarm' = info[k].eta
      BY <3>2, WakeupsMembers
    <3>4. Drained(c) /\ HasCapacity(c)
      BY <2>6, <3>3 DEF Consulted
    <3>5. QED
      BY <3>3, <3>4 DEF Drained
  <2>10. QED
    BY <2>8, <2>9
<1>2. QED
  BY <1>1, WakeInvariant, PTL DEF Spec, NoBusyWakeup
=============================================================================
