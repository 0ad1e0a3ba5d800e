--------------------------- MODULE QueueJob_proofs ---------------------------
(***************************************************************************)
(* Proofs about three parts of the job system that stand each for itself:  *)
(* the heap of PriorityQueue, the identity keys of IdentityKey and the     *)
(* attempts of JobRecord.  No state is shared: a theorem about one of them *)
(* starts from its own specification.                                      *)
(***************************************************************************)
EXTENDS JobRecord, IdentityKey, PriorityQueue, FiniteSetTheorems, TLAPS
-----------------------------------------------------------------------------
(* PriorityQueue, for every set of objects: the heap holds each known      *)
(* object once, and the queue implements RemovableQueue.                   *)

(* Throwing away objects the heap holds keeps heap and known in step.      *)
LEMMA DiscardKeepsHeapIsKnown ==
  ASSUME HeapIsKnown, NEW S, S \subseteq known, Discard(S),
         call' \in Call, result' \in Item \cup {None}
  PROVE  HeapIsKnown'
  BY DEF HeapIsKnown, QueueTypeOK, Discard, HeapWithout

(* What is in the heap is what is known: the two loops discard only known  *)
(* objects.                                                                *)
LEMMA InHeapIsKnown ==
  ASSUME HeapIsKnown
  PROVE  \A o \in Item : InHeap(o) <=> o \in known
<1> SUFFICES ASSUME NEW o \in Item PROVE InHeap(o) <=> o \in known
  OBVIOUS
<1>1. heap[o] = IF o \in known THEN 1 ELSE 0
  BY DEF HeapIsKnown
<1>2. QED
  BY <1>1 DEF InHeap

LEMMA NextKeepsHeapIsKnown ==
  HeapIsKnown /\ [QueueNext]_queueVars => HeapIsKnown'
<1> SUFFICES ASSUME HeapIsKnown, [QueueNext]_queueVars PROVE HeapIsKnown'
  OBVIOUS
<1>1. ASSUME NEW o \in Item, Add(o) PROVE HeapIsKnown'
  BY <1>1 DEF HeapIsKnown, QueueTypeOK, Add, Call
<1>2. ASSUME NEW o \in Item, Remove(o) PROVE HeapIsKnown'
  BY <1>2 DEF HeapIsKnown, QueueTypeOK, Remove, Call
<1>3. ASSUME Exhaust, call' \in Call PROVE HeapIsKnown'
  BY <1>3, DiscardKeepsHeapIsKnown, InHeapIsKnown DEF Exhaust
<1>4. ASSUME Peek PROVE HeapIsKnown'
  <2>. call' \in Call
    BY <1>4 DEF Peek, Call
  <2>1. CASE Exhaust
    BY <1>3, <2>1
  <2>2. ASSUME NEW o \in Item, Discard(Before(o)), result' = o
        PROVE  HeapIsKnown'
    BY <2>2, DiscardKeepsHeapIsKnown, InHeapIsKnown DEF Before
  <2>3. QED
    BY <1>4, <2>1, <2>2 DEF Peek
<1>5. ASSUME Pop PROVE HeapIsKnown'
  <2>. call' \in Call
    BY <1>5 DEF Pop, Call
  <2>1. CASE Exhaust
    BY <1>3, <2>1
  <2>2. ASSUME NEW o \in Item, InHeap(o), Discard(Before(o) \cup {o}),
               result' = o
        PROVE  HeapIsKnown'
    BY <2>2, DiscardKeepsHeapIsKnown, InHeapIsKnown DEF Before
  <2>3. QED
    BY <1>5, <2>1, <2>2 DEF Pop
<1>6. CASE UNCHANGED queueVars
  BY <1>6 DEF HeapIsKnown, QueueTypeOK, Call, queueVars
<1>7. QED
  BY <1>1, <1>2, <1>4, <1>5, <1>6 DEF QueueNext

LEMMA InitHeapIsKnown == QueueInit => HeapIsKnown
  BY DEF QueueInit, HeapIsKnown, QueueTypeOK, Call

(* _heap, _known and _removed stay in step through every call.             *)
THEOREM HeapAlwaysKnown == QueueSpec => []HeapIsKnown
  BY InitHeapIsKnown, NextKeepsHeapIsKnown, PTL DEF QueueSpec
-----------------------------------------------------------------------------
(* The first object of the heap that was not removed is the least one the  *)
(* queue contains, and what lies before it is not contained.               *)
LEMMA FirstOfHeapIsFirst ==
  ASSUME HeapIsKnown, NEW o \in Item,
         InHeap(o), o \notin removed, OnlyRemovedBefore(o)
  PROVE  /\ Abs!IsFirst(o, Live)
         /\ Before(o) \subseteq removed
         /\ o \notin Before(o)
<1>1. \A x \in Live : InHeap(x) /\ x \notin removed
  BY InHeapIsKnown DEF Live, Contains
<1>2. o \in Live
  BY InHeapIsKnown DEF Live, Contains
<1>3. \A x \in Live : o <= x
  <2> SUFFICES ASSUME NEW x \in Live PROVE o <= x
    OBVIOUS
  <2>1. x \in Item /\ ~(x < o)
    BY <1>1 DEF OnlyRemovedBefore, Live
  <2>2. QED
    BY <2>1, QueueAssumption
<1>4. Before(o) \subseteq removed
  BY DEF Before, OnlyRemovedBefore
<1>5. o \notin Before(o)
  BY QueueAssumption DEF Before
<1>6. QED
  BY <1>2, <1>3, <1>4, <1>5 DEF Abs!IsFirst

(* Every call of the code is the same call of the abstract queue.          *)
LEMMA NextRefines ==
  HeapIsKnown /\ [QueueNext]_queueVars => [Abs!ANext]_(Abs!avars)
<1> SUFFICES ASSUME HeapIsKnown, [QueueNext]_queueVars PROVE [Abs!ANext]_(Abs!avars)
  OBVIOUS
<1>1. ASSUME NEW o \in Item, Add(o) PROVE Abs!ANext
  <2>1. Live' = Live \cup {o}
    BY <1>1 DEF Add, Live, Contains
  <2>2. Abs!AAdd(o)
    BY <1>1, <2>1 DEF Add, Abs!AAdd
  <2>3. QED
    BY <2>2 DEF Abs!ANext
<1>2. ASSUME NEW o \in Item, Remove(o) PROVE Abs!ANext
  <2>1. Live' = Live \ {o}
    BY <1>2 DEF Remove, Live, Contains
  <2>2. Abs!ARemove(o)
    BY <1>2, <2>1 DEF Remove, Abs!ARemove
  <2>3. QED
    BY <2>2 DEF Abs!ANext
<1>3. ASSUME Exhaust PROVE Live = {} /\ Live' = {} /\ result' = None
  BY <1>3, InHeapIsKnown DEF Exhaust, Exhausted, Discard, Live, Contains
<1>4. ASSUME Peek PROVE Abs!APeek
  <2>. call' = <<"peek", None>>
    BY <1>4 DEF Peek
  <2>1. CASE Exhaust
    BY <1>3, <2>1 DEF Abs!APeek
  <2>2. ASSUME NEW o \in Item, InHeap(o), o \notin removed,
               OnlyRemovedBefore(o), Discard(Before(o)), result' = o
        PROVE  Abs!APeek
    <3>1. Abs!IsFirst(o, Live) /\ Before(o) \subseteq removed
      BY <2>2, FirstOfHeapIsFirst
    <3>2. Live' = Live
      BY <2>2, <3>1 DEF Discard, Live, Contains
    <3>3. QED
      BY <2>2, <3>1, <3>2 DEF Abs!APeek, Abs!IsFirst
  <2>3. QED
    BY <1>4, <2>1, <2>2 DEF Peek
<1>5. ASSUME Pop PROVE Abs!APop
  <2>. call' = <<"pop", None>>
    BY <1>5 DEF Pop
  <2>1. CASE Exhaust
    BY <1>3, <2>1 DEF Abs!APop
  <2>2. ASSUME NEW o \in Item, InHeap(o), o \notin removed,
               OnlyRemovedBefore(o), Discard(Before(o) \cup {o}), result' = o
        PROVE  Abs!APop
    <3>1. Abs!IsFirst(o, Live) /\ Before(o) \subseteq removed
      BY <2>2, FirstOfHeapIsFirst
    <3>2. Live' = Live \ {o}
      BY <2>2, <3>1 DEF Discard, Live, Contains
    <3>3. QED
      BY <2>2, <3>1, <3>2 DEF Abs!APop, Abs!IsFirst
  <2>3. QED
    BY <1>5, <2>1, <2>2 DEF Pop
<1>6. CASE UNCHANGED queueVars
  <2>1. UNCHANGED <<Live, call, result>>
    BY <1>6 DEF queueVars, Live, Contains
  <2>2. QED
    BY <2>1 DEF Abs!avars
<1>7. QED
  BY <1>1, <1>2, <1>4, <1>5, <1>6 DEF QueueNext, Abs!ANext

LEMMA InitRefines == QueueInit => Abs!AInit
  BY DEF QueueInit, Abs!AInit, Live, Contains

(* The lazily cleaned heap is a set popped at its least element.           *)
THEOREM QueueRefinement == QueueSpec => ImplementsRemovableQueue
  BY InitRefines, NextRefines, HeapAlwaysKnown, PTL
     DEF QueueSpec, ImplementsRemovableQueue, Abs!ASpec
-----------------------------------------------------------------------------
(* IdentityKey, for any jobs and callers: two jobs wait with one identity  *)
(* key only if their creators' snapshots missed each other, or the one     *)
(* that was seen was put back.                                             *)

(* A job that no longer waits, or did not at some time.                    *)
Left(i) == Gone(i) \/ i \in back

(* The life of a job outside the transactions of the callers.              *)
Lives(j) ==
  Proceed(j) \/ SetOver(j) \/ Notified(j) \/ SetJobEnqueued(j) \/ PutBack(j)

(* What a transaction has stored is nobody else's: no row and no other     *)
(* transaction has its uuid.                                               *)
NewIsOwn ==
  \A t \in Caller :
    tx[t].new # NoJob =>
      /\ state[tx[t].new] = "absent"
      /\ \A u \in Caller \ {t} : tx[u].new # tx[t].new

(* A job that did not wait in a snapshot has left since or was put back.   *)
SnapshotsTrue ==
  \A t \in Caller, i \in Job : tx[t].rows[i] \in {"started", "over"} => Left(i)

(* So has a job that a creator could see: it had left already.             *)
VisibleLeft == \A i, j \in Job : i \in visible[j] => Left(i)

KeyInv == KeyTypeOK /\ NewIsOwn /\ SnapshotsTrue /\ VisibleLeft

LEMMA NextType == KeyTypeOK /\ [KeyNext]_keyVars => KeyTypeOK'
<1> SUFFICES ASSUME KeyTypeOK, [KeyNext]_keyVars PROVE KeyTypeOK'
  OBVIOUS
<1> USE DEF KeyTypeOK, State
<1>1. ASSUME NEW t \in Caller, Begin(t) PROVE KeyTypeOK'
  <2>1. Snapshot \in [Job -> State]
    BY DEF Snapshot
  <2>2. QED
    BY <1>1, <2>1 DEF Begin
<1>2. ASSUME NEW t \in Caller, EnqueueOnce(t) PROVE KeyTypeOK'
  <2>1. PICK j \in Job :
          /\ tx' = [tx EXCEPT ![t] = Stored(t, j)]
          /\ visible' = [visible EXCEPT ![j] = {i \in Job : tx[t].rows[i] # "absent"}]
    BY <1>2 DEF EnqueueOnce
  <2>2. state' = state /\ view' = view /\ back' = back
    BY <1>2 DEF EnqueueOnce
  <2>3. visible' \in [Job -> SUBSET Job]
    BY <2>1
  <2>4. QED
    BY <2>1, <2>2, <2>3 DEF Stored
<1>3. ASSUME NEW t \in Caller, Commit(t) PROVE KeyTypeOK'
  BY <1>3 DEF Commit, Closed
<1>4. ASSUME NEW t \in Caller, Rollback(t) PROVE KeyTypeOK'
  BY <1>4 DEF Rollback, Closed
<1>5. ASSUME NEW j \in Job, Proceed(j) \/ SetOver(j) \/ Notified(j) PROVE KeyTypeOK'
  BY <1>5 DEF Proceed, SetOver, Notified
<1>6. ASSUME NEW j \in Job, SetJobEnqueued(j) \/ PutBack(j) PROVE KeyTypeOK'
  <2>1. back' \subseteq Job
    BY <1>6 DEF SetJobEnqueued, PutBack, PutBackIfGone
  <2>2. QED
    BY <1>6, <2>1 DEF SetJobEnqueued, PutBack
<1>7. CASE UNCHANGED keyVars
  BY <1>7 DEF keyVars
<1>8. QED
  BY <1>1, <1>2, <1>3, <1>4, <1>5, <1>6, <1>7 DEF KeyNext

(* No step takes a job back to waiting without a trace, once it has left.  *)
LEMMA LeftStays ==
  ASSUME KeyTypeOK, NewIsOwn, [KeyNext]_keyVars, NEW i \in Job, Left(i)
  PROVE  Left(i)'
<1> USE DEF Left, Gone
<1>1. ASSUME NEW t \in Caller, Begin(t) \/ EnqueueOnce(t) \/ Rollback(t)
      PROVE  Left(i)'
  BY <1>1 DEF Begin, EnqueueOnce, Rollback
<1>2. ASSUME NEW t \in Caller, Commit(t) PROVE Left(i)'
  BY <1>2, KeyAssumption DEF Commit, NewIsOwn
<1>3. ASSUME NEW j \in Job, Proceed(j) \/ SetOver(j) \/ Notified(j) PROVE Left(i)'
  BY <1>3 DEF Proceed, SetOver, Notified, KeyTypeOK
<1>4. ASSUME NEW j \in Job, SetJobEnqueued(j) \/ PutBack(j) PROVE Left(i)'
  BY <1>4 DEF SetJobEnqueued, PutBack, PutBackIfGone, KeyTypeOK
<1>5. CASE UNCHANGED keyVars
  BY <1>5 DEF keyVars
<1>6. QED
  BY <1>1, <1>2, <1>3, <1>4, <1>5 DEF KeyNext

LEMMA NewStaysOwn ==
  ASSUME KeyTypeOK, NewIsOwn, [KeyNext]_keyVars
  PROVE  NewIsOwn'
<1> USE KeyAssumption DEF NewIsOwn, KeyTypeOK
<1>1. ASSUME NEW t \in Caller, Begin(t) PROVE NewIsOwn'
  BY <1>1 DEF Begin
<1>2. ASSUME NEW t \in Caller, EnqueueOnce(t) PROVE NewIsOwn'
  <2>1. PICK j \in Job :
          /\ Fresh(j)
          /\ tx' = [tx EXCEPT ![t] = Stored(t, j)]
    BY <1>2 DEF EnqueueOnce
  <2>2. state' = state
    BY <1>2 DEF EnqueueOnce
  <2>3. /\ tx'[t].new = j
        /\ \A u \in Caller \ {t} : tx'[u].new = tx[u].new
    BY <2>1 DEF Stored
  <2>4. QED
    BY <2>1, <2>2, <2>3 DEF Fresh
<1>3. ASSUME NEW t \in Caller, Commit(t) PROVE NewIsOwn'
  BY <1>3 DEF Commit, Closed
<1>4. ASSUME NEW t \in Caller, Rollback(t) PROVE NewIsOwn'
  BY <1>4 DEF Rollback, Closed
<1>5. ASSUME NEW j \in Job, Lives(j) PROVE NewIsOwn'
  <2>1. tx' = tx
    BY <1>5 DEF Lives, Proceed, SetOver, Notified, SetJobEnqueued, PutBack
  <2>2. \A i \in Job : state[i] = "absent" => state'[i] = "absent"
    BY <1>5 DEF Lives, Proceed, SetOver, Notified, SetJobEnqueued, PutBack
  <2>3. QED
    BY <2>1, <2>2
<1>6. CASE UNCHANGED keyVars
  BY <1>6 DEF keyVars
<1>7. QED
  BY <1>1, <1>2, <1>3, <1>4, <1>5, <1>6 DEF KeyNext, Lives

LEMMA SnapshotsStayTrue ==
  ASSUME KeyInv, [KeyNext]_keyVars
  PROVE  SnapshotsTrue'
<1> SUFFICES ASSUME NEW t \in Caller, NEW i \in Job,
                    tx'[t].rows[i] \in {"started", "over"}
             PROVE  Left(i)'
  BY DEF SnapshotsTrue, Left, Gone
<1> USE DEF KeyInv
<1>1. SUFFICES Left(i)
  BY LeftStays
<1>2. ASSUME tx[t].rows[i] \in {"started", "over"} PROVE Left(i)
  BY <1>2 DEF SnapshotsTrue
<1> USE DEF KeyTypeOK
<1>3. ASSUME NEW u \in Caller, Begin(u) PROVE Left(i)
  BY <1>2, <1>3 DEF Begin, Snapshot, Left, Gone, State
<1>4. ASSUME NEW u \in Caller, EnqueueOnce(u) PROVE Left(i)
  <2>1. PICK j \in Job : tx' = [tx EXCEPT ![u] = Stored(u, j)]
    BY <1>4 DEF EnqueueOnce
  <2>2. tx[t].rows[i] = tx'[t].rows[i]
    BY <2>1 DEF Stored
  <2>3. QED
    BY <1>2, <2>2
<1>5. ASSUME NEW u \in Caller, Commit(u) \/ Rollback(u) PROVE Left(i)
  <2>1. tx'[t] = IF t = u THEN Closed ELSE tx[t]
    BY <1>5 DEF Commit, Rollback
  <2>2. Closed.rows[i] = "absent"
    BY DEF Closed
  <2>3. QED
    BY <1>2, <2>1, <2>2
<1>6. ASSUME NEW j \in Job, Lives(j) PROVE Left(i)
  BY <1>2, <1>6 DEF Lives, Proceed, SetOver, Notified, SetJobEnqueued, PutBack
<1>7. CASE UNCHANGED keyVars
  BY <1>2, <1>7 DEF keyVars
<1>8. QED
  BY <1>3, <1>4, <1>5, <1>6, <1>7 DEF KeyNext, Lives

(* A creator sees rows that have left, for it found none that wait.        *)
LEMMA VisibleStaysLeft ==
  ASSUME KeyInv, [KeyNext]_keyVars
  PROVE  VisibleLeft'
<1> SUFFICES ASSUME NEW i \in Job, NEW j \in Job, i \in visible'[j]
             PROVE  Left(i)'
  BY DEF VisibleLeft, Left, Gone
<1> USE DEF KeyInv
<1>1. SUFFICES Left(i)
  BY LeftStays
<1>2. ASSUME i \in visible[j] PROVE Left(i)
  BY <1>2 DEF VisibleLeft
<1> USE DEF KeyTypeOK
<1>3. ASSUME NEW t \in Caller, EnqueueOnce(t) PROVE Left(i)
  <2>1. PICK k \in Job :
          visible' = [visible EXCEPT ![k] = {h \in Job : tx[t].rows[h] # "absent"}]
    BY <1>3 DEF EnqueueOnce
  <2>2. SameKey(t) = {}
    BY <1>3 DEF EnqueueOnce
  <2>3. CASE k = j
    <3>1. tx[t].rows[i] # "absent"
      BY <2>1, <2>3
    <3>2. tx[t].rows[i] \in {"started", "over"}
      BY <2>2, <3>1 DEF SameKey, State
    <3>3. QED
      BY <3>2 DEF SnapshotsTrue
  <2>4. CASE k # j
    BY <1>2, <2>1, <2>4
  <2>5. QED
    BY <2>3, <2>4
<1>4. ASSUME NEW t \in Caller, Begin(t) \/ Commit(t) \/ Rollback(t)
      PROVE  Left(i)
  BY <1>2, <1>4 DEF Begin, Commit, Rollback
<1>5. ASSUME NEW k \in Job, Lives(k) PROVE Left(i)
  BY <1>2, <1>5 DEF Lives, Proceed, SetOver, Notified, SetJobEnqueued, PutBack
<1>6. CASE UNCHANGED keyVars
  BY <1>2, <1>6 DEF keyVars
<1>7. QED
  BY <1>3, <1>4, <1>5, <1>6 DEF KeyNext, Lives

(* The inductive invariant: uuids are not shared, and whatever a snapshot  *)
(* or a creator took for gone has left the waiting states.                 *)
THEOREM KeyInvariant == KeySpec => []KeyInv
<1>1. KeyInit => KeyInv
  BY DEF KeyInit, KeyInv, KeyTypeOK, State, Closed, NewIsOwn, SnapshotsTrue, VisibleLeft, Left, Gone
<1>2. KeyInv /\ [KeyNext]_keyVars => KeyInv'
  BY NextType, NewStaysOwn, SnapshotsStayTrue, VisibleStaysLeft DEF KeyInv
<1>3. QED
  BY <1>1, <1>2, PTL DEF KeySpec

(* identity_key: a second job waits beside the first only when neither     *)
(* transaction saw the other's, or when the one seen had started, ended or *)
(* was set done, and was put back: by a requeue, a retry, or the runner    *)
(* with an outdated view.                                                  *)
THEOREM DuplicatesAlwaysExplained == KeySpec => []DuplicatesExplained
<1>1. KeyInv => DuplicatesExplained
  BY DEF KeyInv, DuplicatesExplained, VisibleLeft, Left, Gone, Waiting
<1>2. QED
  BY <1>1, KeyInvariant, PTL
-----------------------------------------------------------------------------
(* JobRecord, for any retry limit, any retry pattern and any number of     *)
(* attempts: the fields of a row agree with each other, the retry limit    *)
(* holds, and no attempt comes before its time.                            *)

(* A finite set of sets has smallest members: what stands here for an      *)
(* induction over finite sets.                                             *)
LEMMA SmallestSubset ==
  ASSUME NEW D, IsFiniteSet(D), NEW T \in SUBSET (SUBSET D), T # {}
  PROVE  \E A \in T : \A B \in T : ~(B \subseteq A /\ B # A)
<1> DEFINE R == StrictSubsetOrdering(D)
<1>1. IsWellFoundedOn(R, SUBSET D)
  <2>1. IsWellFoundedOn(R, FiniteSubsetsOf(D))
    BY FS_StrictSubsetOrderingWellFounded
  <2>2. FiniteSubsetsOf(D) = SUBSET D
    BY FS_FiniteSubsetsOfFinite
  <2> HIDE DEF R
  <2>3. QED
    BY <2>1, <2>2
<1>2. \A A, B \in SUBSET D : B \subseteq A /\ B # A => <<B, A>> \in R
  BY DEF StrictSubsetOrdering
<1> HIDE DEF R
<1>3. PICK A \in T : \A B \in T : ~(<<B, A>> \in R)
  BY <1>1, WFMin, Zenon
<1>4. QED
  BY <1>2, <1>3

LEMMA MaxIsGreatest ==
  ASSUME NEW S, IsFiniteSet(S), \A x \in S : x \in Nat, S # {}
  PROVE  Max(S) \in S /\ \A y \in S : y <= Max(S)
<1> DEFINE T == {A \in SUBSET S : A # {} /\ ~\E x \in A : \A y \in A : x >= y}
<1>1. T = {}
  <2> SUFFICES ASSUME T # {} PROVE FALSE
    OBVIOUS
  <2>1. PICK A \in T : \A B \in T : ~(B \subseteq A /\ B # A)
    <3>1. T \in SUBSET (SUBSET S)
      OBVIOUS
    <3> HIDE DEF T
    <3>2. QED
      BY <3>1, SmallestSubset
  <2>2. PICK z \in A : TRUE
    OBVIOUS
  <2>3. CASE A \ {z} = {}
    <3>1. z \in Nat /\ \A y \in A : y = z
      BY <2>2, <2>3
    <3>2. QED
      BY <2>2, <3>1
  <2>4. CASE A \ {z} # {}
    <3>1. A \ {z} \notin T
      BY <2>1, <2>2
    <3>2. PICK x \in A \ {z} : \A y \in A \ {z} : x >= y
      BY <2>4, <3>1
    <3>3. x \in Nat /\ z \in Nat /\ A \subseteq Nat
      BY <2>2
    <3>4. CASE x >= z
      BY <3>2, <3>4
    <3>5. CASE z >= x
      <4>1. \A y \in A : z >= y
        BY <3>2, <3>3, <3>5
      <4>2. QED
        BY <2>2, <4>1
    <3>6. QED
      BY <3>3, <3>4, <3>5
  <2>5. QED
    BY <2>3, <2>4
<1>2. S \notin T
  BY <1>1
<1>3. \E x \in S : \A y \in S : x >= y
  BY <1>2
<1>4. QED
  BY <1>3 DEF Max
-----------------------------------------------------------------------------
(* What the loop of _get_retry_seconds computes.                           *)
Reached(s, retry) == {n \in s : n <= retry}

LastReached(retry) ==
  [s \in SUBSET DOMAIN RetryPattern |->
     IF Reached(s, retry) = {} THEN {RetryInterval}
     ELSE RetryPattern[Max(Reached(s, retry))]]

Loop(g, retry) ==
  [s \in SUBSET DOMAIN RetryPattern |->
     IF s = {} THEN {RetryInterval}
     ELSE IF retry >= Max(s) THEN RetryPattern[Max(s)] ELSE g[s \ {Max(s)}]]

LEMMA LastReachedLoops ==
  ASSUME NEW retry \in Nat
  PROVE  LastReached(retry) = Loop(LastReached(retry), retry)
<1> SUFFICES ASSUME NEW s \in SUBSET DOMAIN RetryPattern
             PROVE  LastReached(retry)[s] = Loop(LastReached(retry), retry)[s]
  BY DEF LastReached, Loop
<1>1. CASE s = {}
  BY <1>1 DEF LastReached, Loop, Reached
<1>2. CASE s # {}
  <2>1. s \in SUBSET Nat /\ IsFiniteSet(s)
    BY RecordAssumption, FS_Subset
  <2>2. Max(s) \in s /\ \A y \in s : y <= Max(s)
    BY <1>2, <2>1, MaxIsGreatest
  <2>3. CASE retry >= Max(s)
    <3>1. Reached(s, retry) = s
      BY <2>1, <2>2, <2>3 DEF Reached
    <3>2. QED
      BY <1>2, <2>3, <3>1 DEF LastReached, Loop
  <2>4. CASE ~(retry >= Max(s))
    <3>1. Reached(s \ {Max(s)}, retry) = Reached(s, retry)
      BY <2>1, <2>2, <2>4 DEF Reached
    <3>2. s \ {Max(s)} \in SUBSET DOMAIN RetryPattern
      OBVIOUS
    <3>3. QED
      BY <1>2, <2>4, <3>1, <3>2 DEF LastReached, Loop
  <2>5. QED
    BY <2>3, <2>4
<1>3. QED
  BY <1>1, <1>2

LEMMA LoopIsUnique ==
  ASSUME NEW retry \in Nat, NEW g, g = Loop(g, retry)
  PROVE  g = LastReached(retry)
<1> DEFINE D == DOMAIN RetryPattern
           w == LastReached(retry)
           T == {s \in SUBSET D : g[s] # w[s]}
<1>1. w = Loop(w, retry)
  BY LastReachedLoops
<1>2. T = {}
  <2> SUFFICES ASSUME T # {} PROVE FALSE
    OBVIOUS
  <2>1. PICK A \in T : \A B \in T : ~(B \subseteq A /\ B # A)
    <3>1. T \in SUBSET (SUBSET D) /\ IsFiniteSet(D)
      BY RecordAssumption
    <3> HIDE DEF T, D
    <3>2. QED
      BY <3>1, SmallestSubset
  <2>2. A \in SUBSET D /\ g[A] # w[A]
    OBVIOUS
  <2>3. A # {}
    <3>1. Loop(g, retry)[{}] = Loop(w, retry)[{}]
      BY DEF Loop
    <3>2. QED
      BY <1>1, <2>2, <3>1
  <2>4. Max(A) \in A
    <3>1. A \in SUBSET Nat /\ IsFiniteSet(A)
      BY <2>2, RecordAssumption, FS_Subset
    <3>2. QED
      BY <2>3, <3>1, MaxIsGreatest
  <2>5. A \ {Max(A)} \notin T
    BY <2>1, <2>4
  <2>6. g[A \ {Max(A)}] = w[A \ {Max(A)}]
    BY <2>2, <2>5
  <2>7. Loop(g, retry)[A] = Loop(w, retry)[A]
    BY <2>2, <2>6 DEF Loop
  <2>8. QED
    BY <1>1, <2>2, <2>7
<1>3. \A s \in SUBSET D : g[s] = w[s]
  BY <1>2
<1>4. g = [s \in SUBSET D |-> g[s]] /\ w = [s \in SUBSET D |-> w[s]]
  BY DEF Loop, LastReached
<1>5. QED
  BY <1>3, <1>4

(* The loop ends with the entry of the highest count that is reached, for  *)
(* every pattern and every number of tries.                                *)
THEOREM RetrySecondsAreLastReached ==
  ASSUME NEW retry \in Nat
  PROVE  RetrySeconds(0, retry) = LastReached(retry)[DOMAIN RetryPattern]
<1> DEFINE g == CHOOSE f : f = Loop(f, retry)
<1>1. g = Loop(g, retry)
  BY LastReachedLoops, Zenon
<1>2. g = LastReached(retry)
  <2> HIDE DEF g
  <2>1. QED
    BY <1>1, LoopIsUnique
<1>3. RetrySeconds(0, retry) = g[DOMAIN RetryPattern]
  BY DEF RetrySeconds, MapThenFoldSet, Loop
<1>4. QED
  BY <1>2, <1>3

LEMMA MinIsLeast ==
  ASSUME NEW S \in SUBSET Nat, S # {}
  PROVE  Min(S) \in S /\ \A y \in S : Min(S) <= y
<1> DEFINE R == OpToRel(<, Nat)
<1>1. \A x, y \in Nat : y < x => <<y, x>> \in R
  BY DEF OpToRel
<1> HIDE DEF R
<1>2. IsWellFoundedOn(R, Nat)
  BY NatLessThanWellFounded DEF R
<1>3. PICK x \in S : \A y \in S : ~(<<y, x>> \in R)
  BY <1>2, WFMin, Zenon
<1>4. ASSUME NEW y \in S PROVE x <= y
  <2>1. y \in Nat /\ x \in Nat /\ ~(<<y, x>> \in R)
    BY <1>3
  <2>2. ~(y < x)
    BY <1>1, <2>1, Zenon
  <2>3. QED
    BY <2>1, <2>2
<1>5. QED
  BY <1>4 DEF Min

(* The wait that is chosen is never shorter than the one that is due.      *)
LEMMA WaitsLongEnough ==
  ASSUME NEW seconds \in Nat, NEW retry \in Nat, NEW w \in RetrySeconds(seconds, retry)
  PROVE  w \in Nat /\ LeastWait(seconds, retry) \in Nat /\ LeastWait(seconds, retry) <= w
<1> DEFINE D == DOMAIN RetryPattern
           hit == Reached(D, retry)
<1>1. CASE seconds # 0
  <2>1. w = seconds /\ LeastWait(seconds, retry) = seconds
    BY <1>1 DEF RetrySeconds, LeastWait
  <2>2. QED
    BY <2>1
<1>2. CASE seconds = 0
  <2>1. w \in LastReached(retry)[D]
    BY <1>2, RetrySecondsAreLastReached
  <2>2. w \in (IF hit = {} THEN {RetryInterval} ELSE RetryPattern[Max(hit)])
    BY <2>1 DEF LastReached
  <2>3. LeastWait(seconds, retry)
          = IF hit = {} THEN RetryInterval ELSE Min(RetryPattern[Max(hit)])
    BY <1>2 DEF LeastWait, Reached
  <2>4. CASE hit = {}
    <3>1. RetryInterval \in Nat
      BY RecordAssumption
    <3>2. QED
      BY <2>2, <2>3, <2>4, <3>1
  <2>5. CASE hit # {}
    <3>1. hit \subseteq D /\ IsFiniteSet(hit) /\ \A n \in hit : n \in Nat
      BY RecordAssumption, FS_Subset DEF Reached
    <3>2. Max(hit) \in D
      BY <2>5, <3>1, MaxIsGreatest
    <3>3. RetryPattern[Max(hit)] \in SUBSET Nat
      BY <3>2, RecordAssumption
    <3>4. w \in RetryPattern[Max(hit)]
      BY <2>2, <2>5
    <3>5. /\ Min(RetryPattern[Max(hit)]) \in RetryPattern[Max(hit)]
          /\ Min(RetryPattern[Max(hit)]) <= w
      BY <3>3, <3>4, MinIsLeast
    <3>6. QED
      BY <2>3, <2>5, <3>3, <3>4, <3>5
  <2>6. QED
    BY <2>4, <2>5
<1>3. QED
  BY <1>1, <1>2
-----------------------------------------------------------------------------
(* What the methods of Job do to the fields.                               *)
LEMMA PendingFields ==
  ASSUME NEW r \in Fields, NEW b \in BOOLEAN
  PROVE  LET x == SetPending(r, b)
         IN  /\ x \in Fields /\ x.state = "pending" /\ x.enqueued = 0 /\ x.started = 0
             /\ x.retry = (IF b THEN 0 ELSE r.retry) /\ x.eta = r.eta
BY DEF SetPending, Fields

LEMMA TriedFields ==
  ASSUME NEW r \in Fields
  PROVE  LET x == Tried(r)
         IN  x \in Fields /\ x.state = r.state /\ x.retry = r.retry + 1 /\ x.eta = r.eta
BY DEF Tried, Fields

LEMMA StartedFields ==
  ASSUME NEW r \in Fields, now \in Nat
  PROVE  LET x == SetStarted(r)
         IN  x \in Fields /\ x.state = "started" /\ x.retry = r.retry /\ x.eta = r.eta
BY DEF SetStarted, Fields

LEMMA DoneFields ==
  ASSUME NEW r \in Fields, now \in Nat
  PROVE  LET x == SetDone(r)
         IN  /\ x \in Fields /\ x.state = "done" /\ x.done = now /\ x.eta = r.eta
             /\ x.retry = r.retry
BY DEF SetDone, Fields

LEMMA FailedFields ==
  ASSUME NEW r \in Fields
  PROVE  LET x == SetFailed(r)
         IN  x \in Fields /\ x.state = "failed" /\ x.eta = r.eta
BY DEF SetFailed, Fields

LEMMA PostponedFields ==
  ASSUME NEW r \in Fields, NEW w \in Nat, now \in Nat
  PROVE  LET x == Postpone(r, w)
         IN  x \in Fields /\ x.retry = r.retry /\ x.eta = now + w
BY DEF Postpone, Fields

LEMMA NewFields ==
  ASSUME NEW e \in Nat
  PROVE  /\ New(e) \in Fields /\ New(e).state = "pending" /\ New(e).enqueued = 0
         /\ New(e).started = 0 /\ New(e).retry = 0 /\ New(e).eta = e
         /\ Absent \in Fields /\ Absent.state = "absent"
BY DEF New, Absent, Fields
-----------------------------------------------------------------------------
(* The Job object of a worker is the row as long as nobody else wrote it;  *)
(* and nobody but a user or the autovacuum writes a started row.           *)
RecordInv ==
  /\ RecordConsistent
  /\ now # 0
  /\ pc = "performing" => row.state = "started"

(* Every retryable error since the last reset is counted in the counter    *)
(* that the next attempt will see: that of the row before it starts, that  *)
(* of the Job object while it runs.                                        *)
LimitInv ==
  /\ row.state \in {"pending", "enqueued"} =>
       raised <= row.retry /\ (MaxRetries # 0 => raised < MaxRetries)
  /\ Running =>
       /\ row.state \in {"started", "done", "absent"}
       /\ raised <= mem.retry /\ (MaxRetries # 0 => raised < MaxRetries)

(* No write shortens a wait: the eta survives in the row and in the Job    *)
(* object until the next postponement.                                     *)
ScheduleInv ==
  /\ row.state # "absent" => due <= row.eta
  /\ Running => due <= mem.eta

(* A job the runner takes for pending is not executed, and its row may     *)
(* only have been set done since, or be gone: no error is forgotten by it. *)
SeenInv ==
  seen =>
    /\ ~Running
    /\ row.state \in {"pending", "done", "absent"}
    /\ row.state = "done" =>
         raised <= row.retry /\ (MaxRetries # 0 => raised < MaxRetries)

AttemptInv == RecordInv /\ LimitInv /\ ScheduleInv /\ SeenInv

LEMMA InitAttempt == Init => AttemptInv
<1> SUFFICES ASSUME Init PROVE AttemptInv
  OBVIOUS
<1>1. PICK e \in {0, 2} : row = New(e) /\ due = e
  BY DEF Init
<1>2. e \in Nat
  OBVIOUS
<1>0. seen \in BOOLEAN
  BY DEF Init
<1>3. RecordInv
  <2>1. {now, attempts, raised, due, enqueuedLast} \subseteq Nat /\ now # 0 /\ pc = "idle"
    BY <1>1, <1>2 DEF Init
  <2>2. mem = row /\ row \in Fields /\ row.state = "pending" /\ row.enqueued = 0 /\ row.started = 0
    BY <1>1, <1>2, NewFields DEF Init
  <2>3. QED
    BY <1>0, <2>1, <2>2 DEF RecordInv, RecordConsistent, TypeOK
<1>4. LimitInv
  BY <1>1, <1>2, NewFields, RecordAssumption DEF Init, LimitInv, Running
<1>5. ScheduleInv
  BY <1>1, <1>2, NewFields DEF Init, ScheduleInv, Running
<1>6. SeenInv
  BY DEF Init, SeenInv
<1>7. QED
  BY <1>3, <1>4, <1>5, <1>6 DEF AttemptInv

LEMMA PostponeStep ==
  ASSUME NEW r \in Fields, NEW seconds \in Nat, now \in Nat, RetryPostpone(r, seconds)
  PROVE  /\ row' \in Fields /\ mem' = row' /\ pc' = "idle"
         /\ row'.state = "pending" /\ row'.enqueued = 0 /\ row'.started = 0
         /\ row'.retry = r.retry /\ due' \in Nat /\ due' <= row'.eta
<1>1. PICK w \in RetrySeconds(seconds, r.retry) :
        Store(SetPending(Postpone(r, w), FALSE))
  BY DEF RetryPostpone
<1>2. r.retry \in Nat
  BY DEF Fields
<1>3. /\ w \in Nat /\ LeastWait(seconds, r.retry) \in Nat
      /\ LeastWait(seconds, r.retry) <= w
  BY <1>2, WaitsLongEnough
<1>4. /\ Postpone(r, w) \in Fields /\ Postpone(r, w).retry = r.retry
      /\ Postpone(r, w).eta = now + w
  BY <1>3, PostponedFields
<1>5. row' = SetPending(Postpone(r, w), FALSE) /\ mem' = row' /\ pc' = "idle"
  BY <1>1 DEF Store
<1>6. /\ row' \in Fields /\ row'.state = "pending" /\ row'.enqueued = 0
      /\ row'.started = 0 /\ row'.retry = r.retry /\ row'.eta = now + w
  BY <1>4, <1>5, PendingFields
<1>7. due' = now + LeastWait(seconds, r.retry)
  BY DEF RetryPostpone
<1>8. due' \in Nat /\ due' <= now + w
  BY <1>3, <1>7
<1>9. QED
  BY <1>5, <1>6, <1>8

LEMMA RunnerAttempt ==
  ASSUME AttemptInv, RunnerReads \/ Enqueue \/ GetFails \/ Start
  PROVE  AttemptInv'
<1> USE DEF AttemptInv
<1>0. /\ row \in Fields /\ mem \in Fields /\ {now, attempts, raised, due, enqueuedLast} \subseteq Nat
      /\ pc \in {"idle", "performing", "stale"} /\ now # 0 /\ seen \in BOOLEAN
  BY DEF RecordInv, RecordConsistent, TypeOK
<1>1. CASE Enqueue
  <2>1. /\ seen /\ row.state # "absent"
        /\ row' = [row EXCEPT !.state = "enqueued", !.enqueued = now]
        /\ enqueuedLast' = now /\ seen' = FALSE
        /\ UNCHANGED <<mem, pc, now, attempts, raised, due>>
    BY <1>1 DEF Enqueue, HandsOut
  <2>2. /\ row' \in Fields /\ row'.state = "enqueued" /\ row'.enqueued = now
        /\ row'.retry = row.retry /\ row'.eta = row.eta
    BY <1>0, <2>1 DEF Fields
  <2>3. ~Running /\ row.state \in {"pending", "done"}
    BY <2>1 DEF SeenInv
  <2>4. RecordInv'
    BY <1>0, <2>1, <2>2, <2>3 DEF RecordInv, RecordConsistent, TypeOK, Running
  <2>5. LimitInv' /\ ScheduleInv' /\ SeenInv'
    BY <2>1, <2>2, <2>3 DEF LimitInv, ScheduleInv, SeenInv, Running
  <2>6. QED
    BY <2>4, <2>5
<1>2. CASE GetFails
  <2>1. /\ row.state = "enqueued"
        /\ row' = [row EXCEPT !.state = "pending", !.enqueued = 0, !.started = 0]
        /\ UNCHANGED <<mem, pc, now, attempts, raised, due, enqueuedLast, seen>>
    BY <1>2 DEF GetFails
  <2>2. /\ row' \in Fields /\ row'.state = "pending" /\ row'.enqueued = 0
        /\ row'.started = 0 /\ row'.retry = row.retry /\ row'.eta = row.eta
    BY <1>0, <2>1 DEF Fields
  <2>3. ~Running
    BY <2>1 DEF LimitInv
  <2>4. RecordInv'
    BY <1>0, <2>1, <2>2, <2>3 DEF RecordInv, RecordConsistent, TypeOK, Running
  <2>5. LimitInv' /\ ScheduleInv' /\ SeenInv'
    BY <2>1, <2>2, <2>3 DEF LimitInv, ScheduleInv, SeenInv, Running
  <2>6. QED
    BY <2>4, <2>5
<1>3. CASE Start
  <2>1. /\ row.state = "enqueued" /\ row' = SetStarted(row) /\ mem' = row'
        /\ pc' = "performing" /\ attempts' = attempts + 1
        /\ UNCHANGED <<now, raised, due, enqueuedLast, seen>>
    BY <1>3 DEF Start
  <2>2. /\ row' \in Fields /\ row'.state = "started"
        /\ row'.retry = row.retry /\ row'.eta = row.eta
    BY <1>0, <2>1, StartedFields
  <2>3. RecordInv'
    BY <1>0, <2>1, <2>2 DEF RecordInv, RecordConsistent, TypeOK
  <2>4. LimitInv' /\ ScheduleInv' /\ SeenInv'
    BY <2>1, <2>2 DEF LimitInv, ScheduleInv, SeenInv, Running
  <2>5. QED
    BY <2>3, <2>4
<1>4. CASE RunnerReads
  <2>1. UNCHANGED <<row, mem, pc, now, attempts, raised, due, enqueuedLast>>
    BY <1>4 DEF RunnerReads
  <2>2. seen' = (row.state = "pending")
    BY <1>4, Zenon DEF RunnerReads
  <2>7. seen' \in BOOLEAN /\ (seen' => row.state = "pending")
    BY <2>2, Zenon
  <2>3. RecordInv'
    BY <1>0, <2>1, <2>7 DEF RecordInv, RecordConsistent, TypeOK
  <2>4. LimitInv' /\ ScheduleInv'
    BY <2>1 DEF LimitInv, ScheduleInv, Running
  <2>5. SeenInv'
    BY <2>1, <2>7 DEF LimitInv, SeenInv, Running
  <2>6. QED
    BY <2>3, <2>4, <2>5
<1>5. QED
  BY <1>1, <1>2, <1>3, <1>4

(* The attempt ends; the only error that is counted leaves the row pending *)
(* with the counter one higher, below the limit.                           *)
LEMMA WorkerAttempt ==
  ASSUME AttemptInv,
         Succeeds \/ RaisesIgnored \/ RaisesRetryable \/ Fails \/ Conflicts \/ Vanishes
  PROVE  AttemptInv'
<1> USE DEF AttemptInv
<1>0. /\ row \in Fields /\ mem \in Fields /\ {now, attempts, raised, due, enqueuedLast} \subseteq Nat
      /\ pc \in {"idle", "performing", "stale"} /\ now # 0 /\ seen \in BOOLEAN
  BY DEF RecordInv, RecordConsistent, TypeOK
<1>1. Running
  BY DEF Succeeds, RaisesIgnored, RaisesRetryable, Fails, Conflicts, Vanishes, Running
<1>2. /\ raised <= mem.retry /\ (MaxRetries # 0 => raised < MaxRetries)
      /\ due <= mem.eta /\ row.state \in {"started", "done", "absent"}
  BY <1>1 DEF LimitInv, ScheduleInv
<1>3. /\ Tried(mem) \in Fields /\ Tried(mem).retry = mem.retry + 1
      /\ Tried(mem).eta = mem.eta
  BY <1>0, TriedFields
<1>4. mem.retry \in Nat /\ mem.eta \in Nat /\ MaxRetries \in Nat
  BY <1>0, RecordAssumption DEF Fields
<1>5. CASE Succeeds
  <2>1. /\ row' = SetDone(Tried(mem)) /\ mem' = row' /\ pc' = "idle"
        /\ UNCHANGED <<now, attempts, raised, due, enqueuedLast, seen>>
    BY <1>5 DEF Succeeds, Store
  <2>2. row' \in Fields /\ row'.state = "done" /\ row'.done = now /\ row'.eta = mem.eta
    BY <1>0, <1>3, <2>1, DoneFields
  <2>3. RecordInv'
    BY <1>0, <2>1, <2>2 DEF RecordInv, RecordConsistent, TypeOK
  <2>4. LimitInv' /\ ScheduleInv' /\ SeenInv'
    BY <1>1, <1>2, <2>1, <2>2 DEF LimitInv, ScheduleInv, SeenInv, Running
  <2>5. QED
    BY <2>3, <2>4
<1>6. ASSUME NEW r \in Fields, NEW seconds \in Nat, RetryPostpone(r, seconds),
             raised' \in Nat, raised' <= r.retry, MaxRetries # 0 => raised' < MaxRetries,
             UNCHANGED <<now, attempts, enqueuedLast, seen>>
      PROVE  AttemptInv'
  <2>1. /\ row' \in Fields /\ mem' = row' /\ pc' = "idle"
        /\ row'.state = "pending" /\ row'.enqueued = 0 /\ row'.started = 0
        /\ row'.retry = r.retry /\ due' \in Nat /\ due' <= row'.eta
    BY <1>0, <1>6, PostponeStep
  <2>2. RecordInv'
    BY <1>0, <1>6, <2>1 DEF RecordInv, RecordConsistent, TypeOK
  <2>3. LimitInv' /\ ScheduleInv' /\ SeenInv'
    BY <1>1, <1>6, <2>1 DEF LimitInv, ScheduleInv, SeenInv, Running
  <2>4. QED
    BY <2>2, <2>3
<1>7. CASE RaisesIgnored
  <2>1. PICK seconds \in ErrorSeconds : RetryPostpone(mem, seconds)
    BY <1>7 DEF RaisesIgnored
  <2>2. seconds \in Nat /\ UNCHANGED <<now, attempts, raised, enqueuedLast, seen>>
    BY <1>7, RecordAssumption DEF RaisesIgnored
  <2>3. QED
    BY <1>0, <1>2, <1>6, <2>1, <2>2
<1>8. CASE RaisesRetryable
  <2>1. PICK seconds \in ErrorSeconds : RetryPostpone(Tried(mem), seconds)
    BY <1>8 DEF RaisesRetryable
  <2>2. /\ seconds \in Nat /\ raised' = raised + 1
        /\ UNCHANGED <<now, attempts, enqueuedLast, seen>>
    BY <1>8, RecordAssumption DEF RaisesRetryable
  <2>3. MaxRetries # 0 => mem.retry + 1 < MaxRetries
    BY <1>4, <1>8 DEF RaisesRetryable, ReachesMaxRetries
  <2>4. raised \in Nat
    BY <1>0
  <2>5. /\ raised' \in Nat /\ raised' <= Tried(mem).retry
        /\ MaxRetries # 0 => raised' < MaxRetries
    BY <1>2, <1>3, <1>4, <2>2, <2>3, <2>4
  <2>6. QED
    BY <1>3, <1>6, <2>1, <2>2, <2>5
<1>9. CASE Fails
  <2>1. /\ row' = SetFailed(Tried(mem)) /\ mem' = row' /\ pc' = "idle"
        /\ raised' = raised \/ raised' = raised + 1
        /\ UNCHANGED <<now, attempts, due, enqueuedLast, seen>>
    BY <1>9 DEF Fails, Store
  <2>2. row' \in Fields /\ row'.state = "failed" /\ row'.eta = mem.eta
    BY <1>0, <1>3, <2>1, FailedFields
  <2>3. RecordInv'
    BY <1>0, <2>1, <2>2 DEF RecordInv, RecordConsistent, TypeOK
  <2>4. LimitInv' /\ ScheduleInv' /\ SeenInv'
    BY <1>1, <1>2, <2>1, <2>2 DEF LimitInv, ScheduleInv, SeenInv, Running
  <2>5. QED
    BY <2>3, <2>4
<1>10. CASE Conflicts
  <2>1. RetryPostpone(Tried(mem), PgRetry) /\ UNCHANGED <<now, attempts, raised, enqueuedLast, seen>>
    BY <1>10 DEF Conflicts
  <2>2. PgRetry \in Nat
    BY RecordAssumption
  <2>3. raised \in Nat
    BY <1>0
  <2>4. raised' \in Nat /\ raised' <= Tried(mem).retry /\ (MaxRetries # 0 => raised' < MaxRetries)
    BY <1>2, <1>3, <1>4, <2>1, <2>3
  <2>5. QED
    BY <1>3, <1>6, <2>1, <2>2, <2>4
<1>11. CASE Vanishes
  <2>1. pc' = "idle" /\ UNCHANGED <<row, mem, now, attempts, raised, due, enqueuedLast, seen>>
    BY <1>11 DEF Vanishes
  <2>2. RecordInv'
    BY <1>0, <2>1 DEF RecordInv, RecordConsistent, TypeOK
  <2>3. LimitInv' /\ ScheduleInv' /\ SeenInv'
    BY <1>1, <2>1 DEF LimitInv, ScheduleInv, SeenInv, Running
  <2>4. QED
    BY <2>2, <2>3
<1>12. QED
  BY <1>5, <1>7, <1>8, <1>9, <1>10, <1>11

LEMMA OthersAttempt ==
  ASSUME AttemptInv, Requeue \/ ButtonDone \/ RequeueStuck \/ Autovacuum \/ Tick
  PROVE  AttemptInv'
<1> USE DEF AttemptInv
<1>0. /\ row \in Fields /\ mem \in Fields /\ {now, attempts, raised, due, enqueuedLast} \subseteq Nat
      /\ pc \in {"idle", "performing", "stale"} /\ now # 0 /\ seen \in BOOLEAN
  BY DEF RecordInv, RecordConsistent, TypeOK
<1>1. CASE Requeue \/ RequeueStuck
  <2>0. row' = SetPending(row, TRUE)
    BY <1>1 DEF Requeue, RequeueStuck
  <2>1. /\ row.state # "absent" /\ raised' = 0
        /\ UNCHANGED <<mem, pc, now, attempts, due, enqueuedLast, seen>>
    BY <1>1 DEF Requeue, RequeueStuck
  <2>2. ~Running
    BY <1>1 DEF Requeue, RequeueStuck, LimitInv
  <2>3. /\ row' \in Fields /\ row'.state = "pending" /\ row'.enqueued = 0
        /\ row'.started = 0 /\ row'.retry = 0 /\ row'.eta = row.eta
    BY <1>0, <2>0, PendingFields
  <2>4. RecordInv'
    BY <1>0, <2>1, <2>2, <2>3 DEF RecordInv, RecordConsistent, TypeOK, Running
  <2>5. MaxRetries \in Nat
    BY RecordAssumption
  <2>6. LimitInv' /\ ScheduleInv' /\ SeenInv'
    BY <2>1, <2>2, <2>3, <2>5 DEF LimitInv, ScheduleInv, SeenInv, Running
  <2>7. QED
    BY <2>4, <2>6
<1>2. CASE ButtonDone
  <2>1. /\ row.state # "absent" /\ row' = SetDone(row)
        /\ pc' = IF Running THEN "stale" ELSE pc
        /\ UNCHANGED <<mem, now, attempts, raised, due, enqueuedLast, seen>>
    BY <1>2 DEF ButtonDone, Outdate
  <2>2. /\ row' \in Fields /\ row'.state = "done" /\ row'.done = now /\ row'.eta = row.eta
        /\ row'.retry = row.retry
    BY <1>0, <2>1, DoneFields
  <2>3. pc' \in {"idle", "stale"} /\ (Running' => Running)
    BY <1>0, <2>1 DEF Running
  <2>4. RecordInv'
    BY <1>0, <2>1, <2>2, <2>3 DEF RecordInv, RecordConsistent, TypeOK
  <2>5. LimitInv' /\ ScheduleInv' /\ SeenInv'
    BY <2>1, <2>2, <2>3 DEF LimitInv, ScheduleInv, SeenInv
  <2>6. QED
    BY <2>4, <2>5
<1>3. CASE Autovacuum
  <2>1. /\ row' = Absent /\ pc' = IF Running THEN "stale" ELSE pc
        /\ UNCHANGED <<mem, now, attempts, raised, due, enqueuedLast, seen>>
    BY <1>3 DEF Autovacuum, Outdate
  <2>2. row' \in Fields /\ row'.state = "absent"
    BY <2>1, NewFields
  <2>3. pc' \in {"idle", "stale"} /\ (Running' => Running)
    BY <1>0, <2>1 DEF Running
  <2>4. RecordInv'
    BY <1>0, <2>1, <2>2, <2>3 DEF RecordInv, RecordConsistent, TypeOK
  <2>5. LimitInv' /\ ScheduleInv' /\ SeenInv'
    BY <2>1, <2>2, <2>3 DEF LimitInv, ScheduleInv, SeenInv
  <2>6. QED
    BY <2>4, <2>5
<1>4. CASE Tick
  <2>1. now' = now + 1 /\ UNCHANGED <<row, mem, pc, attempts, raised, due, enqueuedLast, seen>>
    BY <1>4 DEF Tick
  <2>2. now' \in Nat /\ now' # 0
    BY <1>0, <2>1
  <2>3. RecordInv'
    BY <1>0, <2>1, <2>2 DEF RecordInv, RecordConsistent, TypeOK
  <2>4. LimitInv' /\ ScheduleInv' /\ SeenInv'
    BY <2>1 DEF LimitInv, ScheduleInv, SeenInv, Running
  <2>5. QED
    BY <2>3, <2>4
<1>5. QED
  BY <1>1, <1>2, <1>3, <1>4

LEMMA NextAttempt == AttemptInv /\ [Next]_vars => AttemptInv'
<1>1. AttemptInv /\ UNCHANGED vars => AttemptInv'
  <2> SUFFICES ASSUME AttemptInv, UNCHANGED vars PROVE AttemptInv'
    OBVIOUS
  <2>1. UNCHANGED <<row, mem, pc, now, attempts, raised, due, enqueuedLast, seen>>
    BY DEF vars
  <2>2. RecordInv'
    BY <2>1 DEF AttemptInv, RecordInv, RecordConsistent, TypeOK
  <2>3. LimitInv' /\ ScheduleInv' /\ SeenInv'
    BY <2>1 DEF AttemptInv, LimitInv, ScheduleInv, SeenInv, Running
  <2>4. QED
    BY <2>2, <2>3 DEF AttemptInv
<1>2. QED
  BY <1>1, RunnerAttempt, WorkerAttempt, OthersAttempt DEF Next

(* The inductive invariant of a job's attempts.                            *)
THEOREM AttemptInvariant == Spec => []AttemptInv
  BY InitAttempt, NextAttempt, PTL DEF Spec

(* The fields the crons and the workers rely on agree with each other.     *)
THEOREM RecordAlwaysConsistent == Spec => []RecordConsistent
<1>1. AttemptInv => RecordConsistent
  BY DEF AttemptInv, RecordInv
<1>2. QED
  BY <1>1, AttemptInvariant, PTL

(* max_retries limits the retryable errors, whatever limit it is.          *)
THEOREM LimitAlwaysEnforced == Spec => []LimitEnforced
<1>1. AttemptInv => LimitEnforced
  BY DEF AttemptInv, LimitInv, LimitEnforced
<1>2. QED
  BY <1>1, AttemptInvariant, PTL

(* No attempt begins before the retry pattern, the error or the caller     *)
(* allows it, for every pattern.                                           *)
THEOREM ScheduleAlwaysKept == Spec => ScheduleKept
<1>1. AttemptInv /\ [Next]_vars =>
        (row.state # "enqueued" /\ row'.state = "enqueued" => due <= now)
  <2> SUFFICES ASSUME AttemptInv, [Next]_vars, row.state # "enqueued", row'.state = "enqueued"
               PROVE  due <= now
    OBVIOUS
  <2>1. TypeOK
    BY DEF AttemptInv, RecordInv, RecordConsistent
  <2>2. /\ now \in Nat /\ row \in Fields /\ mem \in Fields /\ row.eta \in Nat /\ due \in Nat
        /\ Tried(mem) \in Fields
    BY <2>1, TriedFields DEF TypeOK, Fields
  <2>3. ASSUME NEW r \in Fields, NEW seconds \in Nat, RetryPostpone(r, seconds) PROVE FALSE
    BY <2>2, <2>3, PostponeStep
  <2>4. ~RaisesIgnored /\ ~RaisesRetryable /\ ~Conflicts
    BY <2>2, <2>3, RecordAssumption DEF RaisesIgnored, RaisesRetryable, Conflicts
  <2>5. ~Succeeds /\ ~Fails
    BY <2>2, DoneFields, FailedFields DEF Succeeds, Fails, Store
  <2>6. /\ ~GetFails /\ ~Start /\ ~RequeueStuck /\ ~Tick /\ ~RunnerReads /\ ~Vanishes
        /\ ~(UNCHANGED vars)
    <3>1. ~GetFails /\ ~RequeueStuck /\ ~Tick /\ ~RunnerReads /\ ~Vanishes /\ ~(UNCHANGED vars)
      BY <2>2, PendingFields DEF GetFails, RequeueStuck, Tick, RunnerReads, Vanishes, vars
    <3>2. ~Start
      BY DEF Start
    <3>3. QED
      BY <3>1, <3>2
  <2>7. ~Requeue /\ ~ButtonDone /\ ~Autovacuum
    <3>1. ~Requeue
      BY <2>2, PendingFields DEF Requeue
    <3>2. ~ButtonDone
      BY <2>2, DoneFields DEF ButtonDone
    <3>3. ~Autovacuum
      BY <2>2, NewFields DEF Autovacuum
    <3>4. QED
      BY <3>1, <3>2, <3>3
  <2>8. Enqueue
    BY <2>4, <2>5, <2>6, <2>7 DEF Next
  <2>9. row.state # "absent" /\ row.eta <= now
    BY <2>8 DEF Enqueue, HandsOut
  <2>10. due <= row.eta
    BY <2>9 DEF AttemptInv, ScheduleInv
  <2>11. QED
    BY <2>2, <2>9, <2>10
<1>2. QED
  BY <1>1, AttemptInvariant, PTL DEF Spec, ScheduleKept
=============================================================================
