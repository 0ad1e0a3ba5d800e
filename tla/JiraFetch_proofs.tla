-------------------------- MODULE JiraFetch_proofs --------------------------
(***************************************************************************)
(* For any work logs, issues and projects: no change and no deletion on    *)
(* the server is forgotten, and a work log has one time log, but for the   *)
(* causes that the histories of JiraFetch name.                            *)
(***************************************************************************)
EXTENDS JiraFetch, FiniteSetTheorems, SequenceTheorems, TLAPS

Windowed == {"update_projects", "delete_work_logs", "load_work_logs"}

(* Nothing is later than now, and no window ends after latest_unix.        *)
ClockRight ==
  /\ 1 <= latest /\ latest <= now
  /\ \A w \in WorkLog : at[w] <= now /\ gone[w] <= now
  /\ \A n \in DOMAIN jobs :
       jobs[n].kind \in Windowed => 1 <= jobs[n].since /\ jobs[n].since < latest

(* What starts at one time is the work of one cron.                        *)
OneCron ==
  \A m, n \in DOMAIN jobs :
    /\ jobs[m].kind = "update_projects" /\ jobs[n].kind = "load_work_logs"
    /\ jobs[m].since = jobs[n].since
    => jobs[m].projects = jobs[n].projects

(* The time log of w has its last change.                                  *)
Loaded(w) == \E k \in DOMAIN local[w] : local[w][k] = at[w]

AllArrive ==
  \A w \in WorkLog \ (missed \cup skipped \cup dropped) :
    OnServer(w) => Loaded(w) \/ ToBeLoaded(w)

FetchInv ==
  /\ TypeOK /\ ClockRight /\ OneCron
  /\ AllArrive /\ DeletionsArrive /\ OneTimeLog

-----------------------------------------------------------------------------
(* The queue: what a step keeps, and what is new in it.                    *)
Alike(j, k) == j.kind = k.kind /\ j.since = k.since /\ j.projects = k.projects

Kept(G) == \A m \in DOMAIN jobs \ G : \E k \in DOMAIN jobs' : Alike(jobs'[k], jobs[m])

NoneNew == \A k \in DOMAIN jobs' : \E m \in DOMAIN jobs : Alike(jobs'[k], jobs[m])

LEMMA OverIs ==
  ASSUME jobs \in Seq(Job), NEW n \in DOMAIN jobs, Over(n)
  PROVE  jobs' \in Seq(Job) /\ Kept({n}) /\ NoneNew
<1> DEFINE len == Len(jobs)
           head == SubSeq(jobs, 1, n - 1)
           tail == SubSeq(jobs, n + 1, len)
<1>1. len \in Nat /\ DOMAIN jobs = 1..len /\ n \in 1..len
  OBVIOUS
<1>2. head \in Seq(Job) /\ Len(head) = n - 1 /\ \A k \in 1..(n - 1) : head[k] = jobs[k]
  BY <1>1
<1>3. tail \in Seq(Job) /\ Len(tail) = len - n /\ \A k \in 1..(len - n) : tail[k] = jobs[n + k]
  BY <1>1, SMTT(30)
<1>4. jobs' = head \o tail
  BY DEF Over, RemoveAt
<1> HIDE DEF head, tail, len
<1>5. jobs' \in Seq(Job) /\ Len(jobs') = len - 1
  <2>1. jobs' \in Seq(Job)
    BY <1>2, <1>3, <1>4, ConcatProperties
  <2>2. Len(jobs') = Len(head) + Len(tail)
    BY <1>2, <1>3, <1>4, ConcatProperties
  <2>3. QED
    BY <1>1, <1>2, <1>3, <2>1, <2>2
<1>6. \A k \in 1..(len - 1) : jobs'[k] = IF k < n THEN jobs[k] ELSE jobs[k + 1]
  <2>1. ASSUME NEW k \in 1..(len - 1) PROVE jobs'[k] = IF k < n THEN jobs[k] ELSE jobs[k + 1]
    <3>1. CASE k < n
      BY <1>1, <1>2, <1>3, <1>4, <2>1, <3>1
    <3>2. CASE ~(k < n)
      <4>1. k - (n - 1) \in 1..(len - n) /\ n + (k - (n - 1)) = k + 1
        BY <1>1, <2>1, <3>2
      <4>2. jobs'[k] = tail[k - (n - 1)]
        BY <1>1, <1>2, <1>3, <1>4, <2>1, <3>2
      <4>3. QED
        BY <1>3, <3>2, <4>1, <4>2
    <3>3. QED
      BY <3>1, <3>2
  <2>2. QED
    BY <2>1
<1>7. DOMAIN jobs' = 1..(len - 1)
  BY <1>1, <1>5
<1>8. Kept({n})
  <2>1. ASSUME NEW m \in DOMAIN jobs \ {n} PROVE \E k \in DOMAIN jobs' : jobs'[k] = jobs[m]
    <3>1. CASE m < n
      BY <1>1, <1>6, <1>7, <2>1, <3>1
    <3>2. CASE m > n
      <4>1. m - 1 \in 1..(len - 1) /\ ~(m - 1 < n) /\ (m - 1) + 1 = m
        BY <1>1, <2>1, <3>2
      <4>2. QED
        BY <1>6, <1>7, <4>1
    <3>3. QED
      BY <1>1, <2>1, <3>1, <3>2
  <2>2. QED
    BY <2>1 DEF Kept, Alike
<1>9. NoneNew
  <2>1. ASSUME NEW k \in DOMAIN jobs' PROVE \E m \in DOMAIN jobs : jobs'[k] = jobs[m]
    <3>1. k \in DOMAIN jobs /\ k + 1 \in DOMAIN jobs
      BY <1>1, <1>7, <2>1
    <3>2. QED
      BY <1>6, <1>7, <2>1, <3>1
  <2>2. QED
    BY <2>1 DEF NoneNew, Alike
<1>10. QED
  BY <1>5, <1>8, <1>9

LEMMA StateOnly ==
  ASSUME jobs \in Seq(Job), NEW n \in DOMAIN jobs,
         NEW s \in {"pending", "postponed", "failed"},
         jobs' = [jobs EXCEPT ![n].state = s]
  PROVE  jobs' \in Seq(Job) /\ Kept({}) /\ NoneNew
<1>1. jobs' = [jobs EXCEPT ![n] = [jobs[n] EXCEPT !.state = s]]
  OBVIOUS
<1>2. jobs[n] \in Job
  OBVIOUS
<1>3. [jobs[n] EXCEPT !.state = s] \in Job /\ Alike([jobs[n] EXCEPT !.state = s], jobs[n])
  BY <1>2 DEF Job, Alike
<1>4. jobs' \in Seq(Job) /\ DOMAIN jobs' = DOMAIN jobs
  BY <1>1, <1>3
<1>5. \A m \in DOMAIN jobs : Alike(jobs'[m], jobs[m])
  BY <1>1, <1>3 DEF Alike
<1>6. QED
  BY <1>4, <1>5 DEF Kept, NoneNew

LEMMA SameJobs ==
  ASSUME jobs' = jobs
  PROVE  Kept({}) /\ NoneNew
BY DEF Kept, NoneNew, Alike

(* The job that _update_project or load_missing is, and the windows.       *)
IsNew(j, N) ==
  \/ j.kind = "_update_project" /\ j.since = 0
  \/ j.kind = "load_missing" /\ j.projects = N

IsWindow(j, K, t) == j.kind \in Windowed /\ j.since = t /\ j.projects = K

LEMMA SetToSeqIs ==
  ASSUME NEW S, IsFiniteSet(S)
  PROVE  /\ Cardinality(S) \in Nat
         /\ SetToSeq(S) \in [1..Cardinality(S) -> S]
         /\ \A x \in S : \E n \in 1..Cardinality(S) : SetToSeq(S)[n] = x
<1> DEFINE N == 1..Cardinality(S)
<1>1. Cardinality(S) \in Nat /\ ExistsBijection(N, S)
  BY FS_CardinalityType
<1>2. \E f \in [N -> S] : IsInjective(f)
  BY <1>1 DEF ExistsBijection, Bijection, Injection
<1>3. SetToSeq(S) \in [N -> S] /\ IsInjective(SetToSeq(S))
  BY <1>2 DEF SetToSeq
<1>4. SetToSeq(S) \in Surjection(N, S)
  <2>1. SetToSeq(S) \in Injection(N, S)
    BY <1>3 DEF Injection
  <2>2. IsFiniteSet(N) /\ Cardinality(N) = Cardinality(S)
    BY <1>1, FS_Interval
  <2>3. QED
    BY <2>1, <2>2, FS_Injection
<1>5. QED
  BY <1>1, <1>3, <1>4 DEF IsInjective, Surjection

LEMMA JobsForNewIs ==
  ASSUME NEW N \in SUBSET Project
  PROVE  /\ JobsForNew(N) \in Seq(Job)
         /\ \A n \in DOMAIN JobsForNew(N) : IsNew(JobsForNew(N)[n], N)
         /\ N # {} => \E n \in DOMAIN JobsForNew(N) :
              JobsForNew(N)[n].kind = "load_missing" /\ JobsForNew(N)[n].projects = N
         /\ \A p \in N : \E n \in DOMAIN JobsForNew(N) :
              /\ JobsForNew(N)[n].kind = "_update_project" /\ JobsForNew(N)[n].since = 0
              /\ p \in JobsForNew(N)[n].projects
<1> DEFINE c == Cardinality(N)
           f == SetToSeq(N)
           first == [n \in 1..c |-> NewJob("_update_project", 0, {f[n]})]
           last == IF N = {} THEN <<>> ELSE <<NewJob("load_missing", 0, N)>>
<1>1. c \in Nat /\ f \in [1..c -> N] /\ \A p \in N : \E n \in 1..c : f[n] = p
  <2>1. IsFiniteSet(N)
    BY FetchAssumption, FS_Subset
  <2>2. QED
    BY <2>1, SetToSeqIs
<1>2. JobsForNew(N) = first \o last
  BY DEF JobsForNew
<1> HIDE DEF c, f
<1>3. first \in Seq(Job) /\ Len(first) = c
  <2>1. \A n \in 1..c : NewJob("_update_project", 0, {f[n]}) \in Job
    BY <1>1 DEF NewJob, Job
  <2>2. first \in [1..c -> Job]
    BY <2>1
  <2>3. QED
    BY <1>1, <2>2
<1>4. \A n \in 1..c : /\ first[n].kind = "_update_project" /\ first[n].since = 0
                      /\ first[n].projects = {f[n]}
  BY DEF NewJob
<1>5. last \in Seq(Job) /\ Len(last) = IF N = {} THEN 0 ELSE 1
  <2>1. NewJob("load_missing", 0, N) \in Job
    BY DEF NewJob, Job
  <2>2. QED
    BY <2>1
<1>6. N # {} => last[1].kind = "load_missing" /\ last[1].projects = N
  BY DEF NewJob
<1> HIDE DEF first, last
<1>7. /\ JobsForNew(N) \in Seq(Job)
      /\ Len(JobsForNew(N)) = c + Len(last)
      /\ \A n \in 1..(c + Len(last)) :
           JobsForNew(N)[n] = IF n <= c THEN first[n] ELSE last[n - c]
  <2>1. first \o last \in Seq(Job)
    BY <1>3, <1>5, ConcatProperties
  <2>2. Len(first \o last) = Len(first) + Len(last)
    BY <1>3, <1>5, ConcatProperties
  <2>3. \A n \in 1..(Len(first) + Len(last)) :
          (first \o last)[n] = IF n <= Len(first) THEN first[n] ELSE last[n - Len(first)]
    BY <1>3, <1>5, ConcatProperties
  <2>4. QED
    BY <1>2, <1>3, <2>1, <2>2, <2>3
<1>8. DOMAIN JobsForNew(N) = 1..(c + Len(last))
  BY <1>7
<1>9. ASSUME NEW n \in 1..(c + Len(last)) PROVE IsNew(JobsForNew(N)[n], N)
  <2>1. CASE n <= c
    BY <1>1, <1>4, <1>7, <1>9, <2>1 DEF IsNew
  <2>2. CASE ~(n <= c)
    <3>1. N # {} /\ n - c = 1
      BY <1>1, <1>5, <1>9, <2>2
    <3>2. QED
      BY <1>6, <1>7, <1>9, <2>2, <3>1 DEF IsNew
  <2>3. QED
    BY <2>1, <2>2
<1>10. ASSUME N # {}
       PROVE  /\ c + 1 \in 1..(c + Len(last))
              /\ JobsForNew(N)[c + 1].kind = "load_missing"
              /\ JobsForNew(N)[c + 1].projects = N
  <2>1. c + 1 \in 1..(c + Len(last)) /\ ~(c + 1 <= c) /\ (c + 1) - c = 1
    BY <1>1, <1>5, <1>10
  <2>2. JobsForNew(N)[c + 1] = last[1]
    BY <1>7, <2>1
  <2>3. QED
    BY <1>6, <1>10, <2>1, <2>2
<1>11. ASSUME NEW p \in N
       PROVE  \E n \in 1..(c + Len(last)) :
                /\ JobsForNew(N)[n].kind = "_update_project" /\ JobsForNew(N)[n].since = 0
                /\ p \in JobsForNew(N)[n].projects
  <2>1. PICK n \in 1..c : f[n] = p
    BY <1>1
  <2>2. n \in 1..(c + Len(last)) /\ n <= c
    BY <1>1, <1>5
  <2>3. JobsForNew(N)[n] = first[n]
    BY <1>7, <2>2
  <2>4. QED
    BY <1>4, <2>1, <2>2, <2>3
<1>12. QED
  BY <1>7, <1>8, <1>9, <1>10, <1>11

LEMMA JobsForKnownIs ==
  ASSUME NEW K \in SUBSET Project, NEW t \in Nat
  PROVE  /\ JobsForKnown(K, t) \in Seq(Job)
         /\ \A n \in DOMAIN JobsForKnown(K, t) : IsWindow(JobsForKnown(K, t)[n], K, t)
         /\ K # {} => \A kind \in Windowed : \E n \in DOMAIN JobsForKnown(K, t) :
              JobsForKnown(K, t)[n].kind = kind
<1> DEFINE a == NewJob("update_projects", t, K)
           b == NewJob("delete_work_logs", t, K)
           c == NewJob("load_work_logs", t, K)
<1>1. a \in Job /\ b \in Job /\ c \in Job
  BY DEF NewJob, Job
<1>2. IsWindow(a, K, t) /\ IsWindow(b, K, t) /\ IsWindow(c, K, t)
  BY DEF NewJob, IsWindow, Windowed
<1>3. a.kind = "update_projects" /\ b.kind = "delete_work_logs" /\ c.kind = "load_work_logs"
  BY DEF NewJob
<1>4. JobsForKnown(K, t) = IF K = {} THEN <<>> ELSE <<a, b, c>>
  BY DEF JobsForKnown
<1> HIDE DEF a, b, c
<1>5. CASE K = {}
  BY <1>4, <1>5
<1>6. CASE K # {}
  <2>1. JobsForKnown(K, t) = <<a, b, c>>
    BY <1>4, <1>6
  <2>2. QED
    BY <1>1, <1>2, <1>3, <2>1 DEF Windowed
<1>7. QED
  BY <1>5, <1>6

(* What the cron adds for the projects that are new (N) and known (K).     *)
Enqueued(N, K, t) ==
  /\ jobs' \in Seq(Job)
  /\ \A m \in DOMAIN jobs : m \in DOMAIN jobs' /\ jobs'[m] = jobs[m]
  /\ \A k \in DOMAIN jobs' :
       k \in DOMAIN jobs \/ IsNew(jobs'[k], N) \/ IsWindow(jobs'[k], K, t)
  /\ N # {} => \E k \in DOMAIN jobs' :
       jobs'[k].kind = "load_missing" /\ jobs'[k].projects = N
  /\ \A p \in N : \E k \in DOMAIN jobs' :
       /\ jobs'[k].kind = "_update_project" /\ jobs'[k].since = 0
       /\ p \in jobs'[k].projects
  /\ K # {} => \A kind \in Windowed : \E k \in DOMAIN jobs' :
       /\ k \notin DOMAIN jobs
       /\ jobs'[k].kind = kind /\ jobs'[k].since = t /\ jobs'[k].projects = K

LEMMA EnqueuedIs ==
  ASSUME jobs \in Seq(Job), NEW N \in SUBSET Project, NEW K \in SUBSET Project, NEW t \in Nat,
         jobs' = jobs \o JobsForNew(N) \o JobsForKnown(K, t)
  PROVE  Enqueued(N, K, t)
<1> DEFINE A == JobsForNew(N)
           B == JobsForKnown(K, t)
<1>1. A \in Seq(Job) /\ B \in Seq(Job)
  BY JobsForNewIs, JobsForKnownIs
<1>2. jobs' = (jobs \o A) \o B
  OBVIOUS
<1>3. \A n \in DOMAIN A : IsNew(A[n], N)
  BY JobsForNewIs
<1>4. N # {} => \E n \in DOMAIN A : A[n].kind = "load_missing" /\ A[n].projects = N
  BY JobsForNewIs
<1>5. \A p \in N : \E n \in DOMAIN A :
        A[n].kind = "_update_project" /\ A[n].since = 0 /\ p \in A[n].projects
  BY JobsForNewIs
<1>6. \A n \in DOMAIN B : IsWindow(B[n], K, t)
  BY JobsForKnownIs
<1>7. K # {} => \A kind \in Windowed : \E n \in DOMAIN B : B[n].kind = kind
  BY JobsForKnownIs
<1> HIDE DEF A, B
<1> DEFINE l == Len(jobs)
           la == Len(A)
           lb == Len(B)
<1>8. /\ l \in Nat /\ la \in Nat /\ lb \in Nat
      /\ DOMAIN jobs = 1..l /\ DOMAIN A = 1..la /\ DOMAIN B = 1..lb
  BY <1>1
<1>9. /\ jobs \o A \in Seq(Job) /\ Len(jobs \o A) = l + la
      /\ \A k \in 1..(l + la) : (jobs \o A)[k] = IF k <= l THEN jobs[k] ELSE A[k - l]
  BY <1>1, ConcatProperties
<1>10. /\ jobs' \in Seq(Job) /\ Len(jobs') = (l + la) + lb
       /\ \A k \in 1..((l + la) + lb) :
            jobs'[k] = IF k <= l + la THEN (jobs \o A)[k] ELSE B[k - (l + la)]
  BY <1>1, <1>2, <1>9, ConcatProperties
<1> HIDE DEF l, la, lb
<1>11. DOMAIN jobs' = 1..((l + la) + lb)
  BY <1>8, <1>10
<1>12. ASSUME NEW m \in 1..l PROVE m \in DOMAIN jobs' /\ jobs'[m] = jobs[m]
  <2>1. m \in 1..(l + la) /\ m \in 1..((l + la) + lb) /\ m <= l /\ m <= l + la
    BY <1>8, <1>12
  <2>2. QED
    BY <1>9, <1>10, <1>11, <2>1
<1>13. ASSUME NEW n \in 1..la PROVE l + n \in DOMAIN jobs' /\ jobs'[l + n] = A[n]
  <2>1. /\ l + n \in 1..(l + la) /\ l + n \in 1..((l + la) + lb) /\ ~(l + n <= l)
        /\ l + n <= l + la /\ (l + n) - l = n
    BY <1>8, <1>13
  <2>2. QED
    BY <1>9, <1>10, <1>11, <2>1
<1>14. ASSUME NEW n \in 1..lb
       PROVE  /\ (l + la) + n \in DOMAIN jobs' /\ (l + la) + n \notin DOMAIN jobs
              /\ jobs'[(l + la) + n] = B[n]
  <2>1. /\ (l + la) + n \in 1..((l + la) + lb) /\ (l + la) + n \notin 1..l
        /\ ~((l + la) + n <= l + la) /\ ((l + la) + n) - (l + la) = n
    BY <1>8, <1>14
  <2>2. QED
    BY <1>8, <1>10, <1>11, <2>1
<1>15. ASSUME NEW k \in DOMAIN jobs'
       PROVE  k \in DOMAIN jobs \/ IsNew(jobs'[k], N) \/ IsWindow(jobs'[k], K, t)
  <2>1. CASE k \in 1..l
    BY <1>8, <2>1
  <2>2. CASE k > l /\ k <= l + la
    <3>1. k - l \in 1..la /\ l + (k - l) = k
      BY <1>8, <1>11, <1>15, <2>2
    <3>2. jobs'[k] = A[k - l]
      BY <1>13, <3>1
    <3>3. QED
      BY <1>3, <1>8, <3>1, <3>2
  <2>3. CASE k > l + la
    <3>1. k - (l + la) \in 1..lb /\ (l + la) + (k - (l + la)) = k
      BY <1>8, <1>11, <1>15, <2>3
    <3>2. jobs'[k] = B[k - (l + la)]
      BY <1>14, <3>1
    <3>3. QED
      BY <1>6, <1>8, <3>1, <3>2
  <2>4. QED
    BY <1>8, <1>11, <1>15, <2>1, <2>2, <2>3
<1>16. N # {} => \E k \in DOMAIN jobs' :
         jobs'[k].kind = "load_missing" /\ jobs'[k].projects = N
  BY <1>4, <1>8, <1>13
<1>17. \A p \in N : \E k \in DOMAIN jobs' :
         /\ jobs'[k].kind = "_update_project" /\ jobs'[k].since = 0
         /\ p \in jobs'[k].projects
  BY <1>5, <1>8, <1>13
<1>18. ASSUME K # {}, NEW kind \in Windowed
       PROVE  \E k \in DOMAIN jobs' :
                /\ k \notin DOMAIN jobs
                /\ jobs'[k].kind = kind /\ jobs'[k].since = t /\ jobs'[k].projects = K
  <2>1. PICK n \in 1..lb : B[n].kind = kind
    BY <1>7, <1>8, <1>18
  <2>2. B[n].since = t /\ B[n].projects = K
    BY <1>6, <1>8 DEF IsWindow
  <2>3. QED
    BY <1>14, <2>1, <2>2
<1>19. QED
  BY <1>8, <1>10, <1>12, <1>15, <1>16, <1>17, <1>18 DEF Enqueued

-----------------------------------------------------------------------------
(* mapping_worklog leaves each of the work logs W with its last change.    *)
LEMMA MappedIs ==
  ASSUME TypeOK, NEW W \in SUBSET WorkLog, NEW Known \in SUBSET Here, Mapped(W, Known)
  PROVE  /\ local' \in [WorkLog -> Seq(Nat)]
         /\ \A w \in WorkLog \ W : local'[w] = local[w]
         /\ \A w \in W : \E k \in DOMAIN local'[w] : local'[w][k] = at[w]
         /\ \A w \in W : Len(local'[w]) = IF w \in Known THEN Len(local[w]) ELSE Len(local[w]) + 1
<1>1. PICK pick \in [W -> 1..MaxCopies] :
        /\ \A w \in W : w \in Known => pick[w] \in DOMAIN local[w]
        /\ local' = [w \in WorkLog |->
                      IF w \notin W THEN local[w]
                      ELSE IF w \in Known THEN [local[w] EXCEPT ![pick[w]] = at[w]]
                      ELSE Append(local[w], at[w])]
  BY DEF Mapped
<1>2. local \in [WorkLog -> Seq(Nat)] /\ at \in [WorkLog -> Nat]
  BY DEF TypeOK
<1>3. ASSUME NEW w \in W, w \in Known
      PROVE  /\ local'[w] \in Seq(Nat) /\ Len(local'[w]) = Len(local[w])
             /\ \E k \in DOMAIN local'[w] : local'[w][k] = at[w]
  <2>1. local'[w] = [local[w] EXCEPT ![pick[w]] = at[w]] /\ pick[w] \in DOMAIN local[w]
    BY <1>1, <1>3
  <2>2. local[w] \in Seq(Nat) /\ at[w] \in Nat
    BY <1>2
  <2>3. QED
    BY <2>1, <2>2
<1>4. ASSUME NEW w \in W, w \notin Known
      PROVE  /\ local'[w] \in Seq(Nat) /\ Len(local'[w]) = Len(local[w]) + 1
             /\ \E k \in DOMAIN local'[w] : local'[w][k] = at[w]
  <2>1. local'[w] = Append(local[w], at[w])
    BY <1>1, <1>4
  <2>2. local[w] \in Seq(Nat) /\ at[w] \in Nat
    BY <1>2
  <2>3. local'[w] \in Seq(Nat) /\ Len(local'[w]) = Len(local[w]) + 1
    BY <2>1, <2>2
  <2>4. Len(local[w]) + 1 \in DOMAIN local'[w] /\ local'[w][Len(local[w]) + 1] = at[w]
    BY <2>1, <2>2
  <2>5. QED
    BY <2>3, <2>4
<1>5. \A w \in WorkLog \ W : local'[w] = local[w]
  BY <1>1
<1>6. local' \in [WorkLog -> Seq(Nat)]
  <2>1. \A w \in WorkLog : local'[w] \in Seq(Nat)
    BY <1>2, <1>3, <1>4, <1>5
  <2>2. QED
    BY <1>1, <2>1
<1>7. QED
  BY <1>3, <1>4, <1>5, <1>6

LEMMA StampedIs ==
  ASSUME TypeOK, NEW I, Stamped(I)
  PROVE  /\ stamp' \in [Issue -> Nat]
         /\ \A i \in Issue : stamp'[i] = IF i \in I THEN now ELSE stamp[i]
BY DEF TypeOK, Stamped

(* What each kind of step leaves alone.                                    *)
LEMMA OneCronStays ==
  ASSUME OneCron, NoneNew
  PROVE  OneCron'
<1> SUFFICES ASSUME NEW m \in DOMAIN jobs', NEW n \in DOMAIN jobs',
                    jobs'[m].kind = "update_projects", jobs'[n].kind = "load_work_logs",
                    jobs'[m].since = jobs'[n].since
             PROVE  jobs'[m].projects = jobs'[n].projects
  BY DEF OneCron
<1>1. PICK k \in DOMAIN jobs : Alike(jobs'[m], jobs[k])
  BY DEF NoneNew
<1>2. PICK l \in DOMAIN jobs : Alike(jobs'[n], jobs[l])
  BY DEF NoneNew
<1>3. QED
  BY <1>1, <1>2 DEF OneCron, Alike

LEMMA JobIs ==
  ASSUME TypeOK, NEW n \in DOMAIN jobs
  PROVE  jobs[n] \in Job /\ jobs[n].since \in Nat /\ jobs[n].projects \subseteq Project
<1>1. jobs[n] \in Job
  BY DEF TypeOK
<1>2. QED
  BY <1>1 DEF Job

LEMMA WindowsStay ==
  ASSUME TypeOK, ClockRight, NoneNew, latest' \in Nat, latest' >= latest
  PROVE  \A n \in DOMAIN jobs' :
           jobs'[n].kind \in Windowed => 1 <= jobs'[n].since /\ jobs'[n].since < latest'
<1> SUFFICES ASSUME NEW n \in DOMAIN jobs', jobs'[n].kind \in Windowed
             PROVE  1 <= jobs'[n].since /\ jobs'[n].since < latest'
  OBVIOUS
<1>1. PICK m \in DOMAIN jobs : Alike(jobs'[n], jobs[m])
  BY DEF NoneNew
<1>2. jobs[m].since \in Nat /\ latest \in Nat
  BY JobIs DEF TypeOK
<1>3. 1 <= jobs[m].since /\ jobs[m].since < latest
  BY <1>1 DEF ClockRight, Alike
<1>4. QED
  BY <1>1, <1>2, <1>3 DEF Alike

(* The job n is one that brings the change of w.                           *)
BroughtBy(n, w) ==
  LET i == IssueOf[w]
      j == jobs[n]
  IN  \/ /\ j.kind = "load_missing" /\ ProjectOf[i] \in j.projects
         /\ \/ stamp[i] # 0
            \/ Unfinished("_update_project", 0, {ProjectOf[i]})
      \/ /\ j.kind = "load_work_logs" /\ j.since <= at[w]
         /\ \/ stamp[i] >= j.since
            \/ Unfinished("update_projects", j.since, {ProjectOf[i]})

(* The job m updates the issue of w.                                       *)
Updates(m, w) ==
  /\ jobs[m].kind \in {"_update_project", "update_projects"}
  /\ jobs[m].since <= at[w] /\ ProjectOf[IssueOf[w]] \in jobs[m].projects

LEMMA ToBeLoadedIs ==
  ASSUME NEW w
  PROVE  ToBeLoaded(w) <=> \/ latest <= at[w]
                           \/ ProjectOf[IssueOf[w]] \notin fetched
                           \/ \E n \in DOMAIN jobs : BroughtBy(n, w)
BY DEF ToBeLoaded, BroughtBy

LEMMA BroughtStays ==
  ASSUME TypeOK, ClockRight, NEW w \in WorkLog, NEW n \in DOMAIN jobs, BroughtBy(n, w),
         NEW G, Kept(G), n \notin G, at'[w] = at[w],
         stamp'[IssueOf[w]] \in {now, stamp[IssueOf[w]]},
         \A m \in G : Updates(m, w) => stamp'[IssueOf[w]] = now
  PROVE  \E m \in DOMAIN jobs' : BroughtBy(m, w)'
<1> DEFINE i == IssueOf[w]
           p == ProjectOf[i]
<1>1. i \in Issue /\ IssueOf' = IssueOf /\ ProjectOf' = ProjectOf
  BY FetchAssumption
<1>2. PICK m \in DOMAIN jobs' : Alike(jobs'[m], jobs[n])
  BY DEF Kept
<1>3. CASE /\ jobs[n].kind = "load_missing" /\ p \in jobs[n].projects
           /\ stamp[i] # 0 \/ Unfinished("_update_project", 0, {p})
  <2>1. now \in Nat /\ stamp[i] \in Nat /\ at[w] \in Nat /\ now # 0
    BY <1>1 DEF TypeOK, ClockRight
  <2>2. CASE stamp[i] # 0
    BY <1>2, <1>3, <2>1, <2>2 DEF BroughtBy, Alike
  <2>3. ASSUME NEW k \in DOMAIN jobs, jobs[k].kind = "_update_project", jobs[k].since = 0,
               p \in jobs[k].projects
        PROVE  stamp'[i] # 0 \/ Unfinished("_update_project", 0, {p})'
    <3>1. CASE k \in G
      BY <2>1, <2>3, <3>1 DEF Updates
    <3>2. CASE k \notin G
      <4>1. PICK l \in DOMAIN jobs' : Alike(jobs'[l], jobs[k])
        BY <3>2 DEF Kept
      <4>2. QED
        BY <2>3, <4>1 DEF Unfinished, Alike
    <3>3. QED
      BY <3>1, <3>2
  <2>4. CASE Unfinished("_update_project", 0, {p})
    <3>1. PICK k \in DOMAIN jobs :
            jobs[k].kind = "_update_project" /\ jobs[k].since = 0 /\ p \in jobs[k].projects
      BY <2>4 DEF Unfinished
    <3>2. stamp'[i] # 0 \/ Unfinished("_update_project", 0, {p})'
      BY <2>3, <3>1
    <3>3. QED
      BY <1>2, <1>3, <3>2 DEF BroughtBy, Alike
  <2>5. QED
    BY <1>3, <2>2, <2>4
<1>4. CASE /\ jobs[n].kind = "load_work_logs" /\ jobs[n].since <= at[w]
           /\ \/ stamp[i] >= jobs[n].since
              \/ Unfinished("update_projects", jobs[n].since, {p})
  <2>7. PICK t : t = jobs[n].since
    OBVIOUS
  <2>1. t \in Nat /\ now \in Nat /\ stamp[i] \in Nat /\ latest \in Nat
    BY <1>1, <2>7, JobIs DEF TypeOK
  <2>2. t < latest /\ latest <= now
    BY <1>4, <2>7 DEF ClockRight, Windowed
  <2>3. CASE stamp[i] >= t
    <3>1. stamp'[i] >= t
      BY <2>1, <2>2, <2>3
    <3>2. QED
      BY <1>2, <1>4, <2>7, <3>1 DEF BroughtBy, Alike
  <2>4. ASSUME NEW k \in DOMAIN jobs, jobs[k].kind = "update_projects", jobs[k].since = t,
               p \in jobs[k].projects
        PROVE  stamp'[i] >= t \/ Unfinished("update_projects", t, {p})'
    <3>1. CASE k \in G
      BY <1>4, <2>7, <2>1, <2>2, <2>4, <3>1 DEF Updates
    <3>2. CASE k \notin G
      <4>1. PICK l \in DOMAIN jobs' : Alike(jobs'[l], jobs[k])
        BY <3>2 DEF Kept
      <4>2. QED
        BY <2>4, <4>1 DEF Unfinished, Alike
    <3>3. QED
      BY <3>1, <3>2
  <2>5. CASE Unfinished("update_projects", t, {p})
    <3>1. PICK k \in DOMAIN jobs :
            jobs[k].kind = "update_projects" /\ jobs[k].since = t /\ p \in jobs[k].projects
      BY <2>5 DEF Unfinished
    <3>2. stamp'[i] >= t \/ Unfinished("update_projects", t, {p})'
      BY <2>4, <3>1
    <3>3. QED
      BY <1>2, <1>4, <2>7, <3>2 DEF BroughtBy, Alike
  <2>6. QED
    BY <1>4, <2>7, <2>3, <2>5
<1>5. QED
  BY <1>3, <1>4 DEF BroughtBy

LEMMA ArriveStays ==
  ASSUME FetchInv, NEW w \in WorkLog \ (missed \cup skipped \cup dropped), OnServer(w),
         NEW G, Kept(G), latest' = latest, fetched' \subseteq fetched, at'[w] = at[w],
         stamp'[IssueOf[w]] \in {now, stamp[IssueOf[w]]},
         \A m \in G : Updates(m, w) => stamp'[IssueOf[w]] = now,
         Loaded(w) => Loaded(w)'
  PROVE  Loaded(w)' \/ ToBeLoaded(w)' \/ \E n \in G \cap DOMAIN jobs : BroughtBy(n, w)
<1>1. Loaded(w) \/ ToBeLoaded(w)
  BY DEF FetchInv, AllArrive
<1>2. CASE latest <= at[w] \/ ProjectOf[IssueOf[w]] \notin fetched
  <2>1. ToBeLoaded(w)'
    BY <1>2 DEF ToBeLoaded
  <2>2. QED
    BY <2>1
<1>3. ASSUME NEW n \in DOMAIN jobs, n \notin G, BroughtBy(n, w)
      PROVE  ToBeLoaded(w)'
  <2>1. \E m \in DOMAIN jobs' : BroughtBy(m, w)'
    BY <1>3, BroughtStays DEF FetchInv
  <2>2. QED
    BY <2>1 DEF ToBeLoaded, BroughtBy
<1>4. QED
  BY <1>1, <1>2, <1>3, ToBeLoadedIs

LEMMA DeletionsStay ==
  ASSUME DeletionsArrive, NEW G, Kept(G), \A n \in G : jobs[n].kind # "delete_work_logs",
         latest' = latest, gone' = gone, skipped \cup dropped \subseteq skipped' \cup dropped',
         \A w \in WorkLog : gone[w] # 0 /\ w \in Here' => w \in Here
  PROVE  DeletionsArrive'
<1> SUFFICES ASSUME NEW w \in WorkLog \ (skipped' \cup dropped'), gone[w] # 0, w \in Here'
             PROVE  \/ latest <= gone[w]
                    \/ \E n \in DOMAIN jobs' :
                         jobs'[n].kind = "delete_work_logs" /\ jobs'[n].since <= gone[w]
  BY DEF DeletionsArrive
<1>1. \/ latest <= gone[w]
      \/ \E n \in DOMAIN jobs : jobs[n].kind = "delete_work_logs" /\ jobs[n].since <= gone[w]
  BY DEF DeletionsArrive
<1>2. ASSUME NEW n \in DOMAIN jobs, jobs[n].kind = "delete_work_logs", jobs[n].since <= gone[w]
      PROVE  \E k \in DOMAIN jobs' :
               jobs'[k].kind = "delete_work_logs" /\ jobs'[k].since <= gone[w]
  <2>1. PICK k \in DOMAIN jobs' : Alike(jobs'[k], jobs[n])
    BY <1>2 DEF Kept
  <2>2. QED
    BY <1>2, <2>1 DEF Alike
<1>3. QED
  BY <1>1, <1>2

(* A step of the queue that moves neither the clock nor the server, and    *)
(* touches no time log.                                                    *)
LEMMA IdleKeeps ==
  ASSUME FetchInv, TypeOK', NEW G, Kept(G), NoneNew,
         \A n \in G : n \in DOMAIN jobs /\ jobs[n].kind \in {"_update_project", "update_projects"},
         now' >= now, latest' = latest,
         UNCHANGED <<server, local, missed, skipped, reloads>>, dropped \subseteq dropped',
         fetched' \subseteq fetched,
         \A i \in Issue : stamp'[i] \in {now, stamp[i]},
         \A w \in WorkLog \ dropped', m \in G :
           OnServer(w) /\ Updates(m, w) => stamp'[IssueOf[w]] = now
  PROVE  FetchInv'
<1> USE DEF server
<1>1. TypeOK /\ now \in Nat /\ now' \in Nat /\ latest \in Nat /\ latest' \in Nat /\ 1 <= now
  BY DEF FetchInv, TypeOK, ClockRight
<1>2. ClockRight'
  <2>1. at \in [WorkLog -> Nat] /\ gone \in [WorkLog -> Nat]
    BY <1>1 DEF TypeOK
  <2>2. \A n \in DOMAIN jobs' :
          jobs'[n].kind \in Windowed => 1 <= jobs'[n].since /\ jobs'[n].since < latest'
    BY <1>1, WindowsStay DEF FetchInv
  <2>3. QED
    BY <1>1, <2>1, <2>2 DEF FetchInv, ClockRight
<1>3. OneCron'
  BY OneCronStays DEF FetchInv
<1>5. AllArrive'
  <2> SUFFICES ASSUME NEW w \in WorkLog \ (missed \cup skipped \cup dropped'), OnServer(w)
               PROVE  Loaded(w)' \/ ToBeLoaded(w)'
    BY DEF AllArrive, OnServer
  <2>1. Loaded(w) => Loaded(w)'
    BY DEF Loaded
  <2>2. IssueOf[w] \in Issue
    BY FetchAssumption
  <2>3. Loaded(w)' \/ ToBeLoaded(w)' \/ \E n \in G \cap DOMAIN jobs : BroughtBy(n, w)
    BY <2>1, <2>2, ArriveStays
  <2>4. QED
    BY <2>3 DEF BroughtBy
<1>6. DeletionsArrive'
  <2>1. \A w \in WorkLog : gone[w] # 0 /\ w \in Here' => w \in Here
    BY DEF Here
  <2>2. QED
    BY <2>1, DeletionsStay DEF FetchInv
<1>7. OneTimeLog'
  BY DEF FetchInv, OneTimeLog
<1>8. QED
  BY <1>2, <1>3, <1>5, <1>6, <1>7 DEF FetchInv

LEMMA KindsApart ==
  ASSUME FetchInv, NEW n, NEW kind, Runs(n, kind)
  PROVE  jobs[n].kind = kind
BY DEF Runs

LEMMA UpdateIssuesKeeps ==
  ASSUME FetchInv, NEW n \in DOMAIN jobs, UpdateIssues(n)
  PROVE  FetchInv'
<1>1. TypeOK /\ jobs \in Seq(Job)
  BY DEF FetchInv, TypeOK
<1>2. jobs[n].kind \in {"_update_project", "update_projects"}
  BY DEF UpdateIssues, Runs
<1>3. jobs' \in Seq(Job) /\ Kept({n}) /\ NoneNew
  BY <1>1, OverIs DEF UpdateIssues
<1> DEFINE I == {i \in Issue : /\ ProjectOf[i] \in jobs[n].projects
                               /\ UpdatedSince(i, jobs[n].since)}
           T == jobs[n].since
<1>4. PICK part \in SUBSET I :
        /\ Handled(I, part) /\ Stamped(part)
        /\ dropped' = dropped \cup
             {w \in WorkLog : OnServer(w) /\ at[w] >= T /\ IssueOf[w] \in I \ part}
  BY DEF UpdateIssues
<1>5. UNCHANGED <<now, server, local, fetched, latest, missed, skipped, reloads>>
  BY DEF UpdateIssues
<1>6. /\ stamp' \in [Issue -> Nat]
      /\ \A i \in Issue : stamp'[i] = IF i \in part THEN now ELSE stamp[i]
  BY <1>1, <1>4, StampedIs
<1>7. faults' \in Nat
  BY <1>1, <1>4 DEF Handled, GivesUp, TypeOK
<1>8. TypeOK'
  BY <1>1, <1>3, <1>4, <1>5, <1>6, <1>7 DEF TypeOK, server
<1>9. ASSUME NEW w \in WorkLog \ dropped', NEW m \in {n}, OnServer(w), Updates(m, w)
      PROVE  stamp'[IssueOf[w]] = now
  <2>1. IssueOf[w] \in Issue
    BY FetchAssumption
  <2>2. T \in Nat /\ at[w] \in Nat /\ T <= at[w] /\ ProjectOf[IssueOf[w]] \in jobs[n].projects
    BY <1>1, <1>9, JobIs DEF TypeOK, Updates
  <2>3. UpdatedSince(IssueOf[w], T) /\ at[w] >= T
    BY <1>9, <2>2 DEF UpdatedSince
  <2>4. IssueOf[w] \in I
    BY <2>1, <2>2, <2>3
  <2> HIDE DEF I, T
  <2>5. IssueOf[w] \in part
    BY <1>4, <1>9, <2>3, <2>4
  <2>6. QED
    BY <1>6, <2>1, <2>5
<1>10. dropped \subseteq dropped' /\ now' >= now /\ \A i \in Issue : stamp'[i] \in {now, stamp[i]}
  BY <1>1, <1>4, <1>5, <1>6 DEF TypeOK
<1> HIDE DEF I, T
<1>11. QED
  BY <1>2, <1>3, <1>5, <1>8, <1>9, <1>10, IdleKeeps

LEMMA StateKeeps ==
  ASSUME FetchInv, NEW n \in DOMAIN jobs, FindNothing(n) \/ Disrupt(n) \/ RequeueFailed(n)
  PROVE  FetchInv'
<1>1. TypeOK /\ jobs \in Seq(Job) /\ now \in Nat /\ faults \in Nat
  BY DEF FetchInv, TypeOK
<1>2. PICK s \in {"pending", "postponed", "failed"} : jobs' = [jobs EXCEPT ![n].state = s]
  BY DEF FindNothing, Disrupt, RequeueFailed
<1>3. jobs' \in Seq(Job) /\ Kept({}) /\ NoneNew
  BY <1>1, <1>2, StateOnly
<1>4. UNCHANGED <<now, server, stamp, local, fetched, latest, hist>>
  BY DEF FindNothing, Disrupt, RequeueFailed
<1>5. faults' \in Nat
  BY <1>1 DEF FindNothing, Disrupt, RequeueFailed
<1>6. TypeOK'
  BY <1>1, <1>3, <1>4, <1>5 DEF TypeOK, server, hist
<1>7. QED
  BY <1>1, <1>3, <1>4, <1>6, IdleKeeps DEF hist

LEMMA ResetKeeps ==
  ASSUME FetchInv, NEW p \in Project, Reset(p)
  PROVE  FetchInv'
<1>1. TypeOK /\ now \in Nat
  BY DEF FetchInv, TypeOK
<1>2. TypeOK'
  BY <1>1 DEF TypeOK, Reset, server, hist
<1>3. Kept({}) /\ NoneNew
  BY SameJobs DEF Reset
<1>4. now' = now /\ latest' = latest /\ fetched' \subseteq fetched /\ stamp' = stamp
      /\ UNCHANGED <<server, local, hist>>
  BY DEF Reset
<1>5. QED
  BY <1>1, <1>2, <1>3, <1>4, IdleKeeps DEF hist

LEMMA TickKeeps ==
  ASSUME FetchInv, Tick
  PROVE  FetchInv'
<1>1. TypeOK /\ now \in Nat
  BY DEF FetchInv, TypeOK
<1>2. TypeOK'
  BY <1>1 DEF TypeOK, Tick, server, hist
<1>3. Kept({}) /\ NoneNew
  BY SameJobs DEF Tick
<1>4. now' >= now /\ latest' = latest /\ fetched' = fetched /\ stamp' = stamp
      /\ UNCHANGED <<server, local, hist>>
  BY <1>1 DEF Tick
<1>5. QED
  BY <1>1, <1>2, <1>3, <1>4, IdleKeeps DEF hist

(* What does not depend on the server or on the time logs.                 *)
LEMMA QueueKeeps ==
  ASSUME FetchInv, NEW G, Kept(G), NoneNew, now' = now, latest' \in Nat, latest' >= latest,
         latest' <= now,
         \A w \in WorkLog : at'[w] <= now /\ gone'[w] <= now
  PROVE  ClockRight' /\ OneCron'
<1>1. TypeOK /\ now \in Nat /\ latest \in Nat /\ 1 <= latest /\ latest <= now
  BY DEF FetchInv, TypeOK, ClockRight
<1>2. \A n \in DOMAIN jobs' :
        jobs'[n].kind \in Windowed => 1 <= jobs'[n].since /\ jobs'[n].since < latest'
  BY <1>1, WindowsStay DEF FetchInv
<1>3. ClockRight'
  BY <1>1, <1>2 DEF ClockRight
<1>4. OneCron'
  BY OneCronStays DEF FetchInv
<1>5. QED
  BY <1>3, <1>4

LEMMA ChangeKeeps ==
  ASSUME FetchInv, NEW w \in WorkLog, Change(w)
  PROVE  FetchInv'
<1>1. TypeOK /\ now \in Nat /\ latest \in Nat /\ latest <= now /\ at \in [WorkLog -> Nat]
      /\ \A v \in WorkLog : at[v] <= now /\ gone[v] <= now
  BY DEF FetchInv, TypeOK, ClockRight
<1>2. at' = [at EXCEPT ![w] = now] /\ missed' = missed \ {w} /\ skipped' = skipped \ {w}
      /\ dropped' = dropped \ {w}
      /\ gone[w] = 0
      /\ UNCHANGED <<now, gone, stamp, local, fetched, latest, jobs, faults, reloads>>
  BY DEF Change
<1>3. at' \in [WorkLog -> Nat] /\ at'[w] = now /\ \A v \in WorkLog \ {w} : at'[v] = at[v]
  BY <1>1, <1>2
<1>4. TypeOK'
  BY <1>1, <1>2, <1>3 DEF TypeOK
<1>5. Kept({}) /\ NoneNew
  BY <1>2, SameJobs
<1>6. \A v \in WorkLog : at'[v] <= now /\ gone'[v] <= now
  BY <1>1, <1>2, <1>3
<1>7. latest' \in Nat /\ latest' >= latest /\ latest' <= now
  BY <1>1, <1>2
<1>8. \A i \in Issue : stamp'[i] \in {now, stamp[i]}
  BY <1>2
<1>9. ClockRight' /\ OneCron'
  BY <1>2, <1>5, <1>6, <1>7, <1>8, QueueKeeps
<1>10. AllArrive'
  <2> SUFFICES ASSUME NEW v \in WorkLog \ (missed' \cup skipped' \cup dropped'), OnServer(v)'
               PROVE  Loaded(v)' \/ ToBeLoaded(v)'
    BY DEF AllArrive
  <2>1. CASE v = w
    BY <1>1, <1>2, <1>3, <2>1 DEF ToBeLoaded
  <2>2. CASE v # w
    <3>1. v \in WorkLog \ (missed \cup skipped \cup dropped) /\ at'[v] = at[v] /\ OnServer(v)
      BY <1>2, <1>3, <2>2 DEF OnServer
    <3>2. Loaded(v) => Loaded(v)'
      BY <1>2, <3>1 DEF Loaded
    <3>3. stamp'[IssueOf[v]] \in {now, stamp[IssueOf[v]]}
      BY <1>2
    <3>4. Loaded(v)' \/ ToBeLoaded(v)' \/ \E n \in {} \cap DOMAIN jobs : BroughtBy(n, v)
      BY <1>2, <1>5, <3>1, <3>2, <3>3, ArriveStays
    <3>5. QED
      BY <3>4
  <2>3. QED
    BY <2>1, <2>2
<1>11. DeletionsArrive'
  <2>1. DeletionsArrive
    BY DEF FetchInv
  <2>2. QED
    BY <1>2, <2>1 DEF DeletionsArrive, Here
<1>12. OneTimeLog'
  BY <1>2 DEF FetchInv, OneTimeLog
<1>13. QED
  BY <1>4, <1>9, <1>10, <1>11, <1>12 DEF FetchInv

LEMMA DeleteOnServerKeeps ==
  ASSUME FetchInv, NEW w \in WorkLog, DeleteOnServer(w)
  PROVE  FetchInv'
<1>1. TypeOK /\ now \in Nat /\ latest \in Nat /\ latest <= now /\ gone \in [WorkLog -> Nat]
      /\ 1 <= now /\ \A v \in WorkLog : at[v] <= now /\ gone[v] <= now
  BY DEF FetchInv, TypeOK, ClockRight
<1>2. gone' = [gone EXCEPT ![w] = now] /\ missed' = missed \ {w} /\ skipped' = skipped \ {w}
      /\ dropped' = dropped \ {w}
      /\ UNCHANGED <<now, at, stamp, local, fetched, latest, jobs, faults, reloads>>
  BY DEF DeleteOnServer
<1>3. gone' \in [WorkLog -> Nat] /\ gone'[w] = now /\ \A v \in WorkLog \ {w} : gone'[v] = gone[v]
  BY <1>1, <1>2
<1>4. TypeOK'
  BY <1>1, <1>2, <1>3 DEF TypeOK
<1>5. Kept({}) /\ NoneNew
  BY <1>2, SameJobs
<1>6. \A v \in WorkLog : at'[v] <= now /\ gone'[v] <= now
  BY <1>1, <1>2, <1>3
<1>7. latest' \in Nat /\ latest' >= latest /\ latest' <= now
  BY <1>1, <1>2
<1>8. \A i \in Issue : stamp'[i] \in {now, stamp[i]}
  BY <1>2
<1>9. ClockRight' /\ OneCron'
  BY <1>2, <1>5, <1>6, <1>7, <1>8, QueueKeeps
<1>10. AllArrive'
  <2> SUFFICES ASSUME NEW v \in WorkLog \ (missed' \cup skipped' \cup dropped'), OnServer(v)'
               PROVE  Loaded(v)' \/ ToBeLoaded(v)'
    BY DEF AllArrive
  <2>1. v # w
    BY <1>1, <1>3 DEF OnServer
  <2>2. v \in WorkLog \ (missed \cup skipped \cup dropped) /\ at'[v] = at[v] /\ OnServer(v)
    BY <1>2, <1>3, <2>1 DEF OnServer
  <2>3. Loaded(v) => Loaded(v)'
    BY <1>2, <2>2 DEF Loaded
  <2>4. stamp'[IssueOf[v]] \in {now, stamp[IssueOf[v]]}
    BY <1>2
  <2>5. Loaded(v)' \/ ToBeLoaded(v)' \/ \E n \in {} \cap DOMAIN jobs : BroughtBy(n, v)
    BY <1>2, <1>5, <2>2, <2>3, <2>4, ArriveStays
  <2>6. QED
    BY <2>5
<1>11. DeletionsArrive'
  <2> SUFFICES ASSUME NEW v \in WorkLog \ (skipped' \cup dropped'), gone'[v] # 0, v \in Here'
               PROVE  \/ latest' <= gone'[v]
                      \/ \E n \in DOMAIN jobs' :
                           jobs'[n].kind = "delete_work_logs" /\ jobs'[n].since <= gone'[v]
    BY DEF DeletionsArrive
  <2>1. CASE v = w
    BY <1>1, <1>2, <1>3, <2>1
  <2>2. CASE v # w
    BY <1>2, <1>3, <2>2 DEF FetchInv, DeletionsArrive, Here
  <2>3. QED
    BY <2>1, <2>2
<1>12. OneTimeLog'
  BY <1>2 DEF FetchInv, OneTimeLog
<1>13. QED
  BY <1>4, <1>9, <1>10, <1>11, <1>12 DEF FetchInv

LEMMA FetchKeeps ==
  ASSUME FetchInv, NEW i \in Issue, Fetch(i)
  PROVE  FetchInv'
<1> DEFINE W == {w \in WorkLog : IssueOf[w] = i /\ OnServer(w)}
<1>1. TypeOK /\ now \in Nat /\ latest \in Nat /\ latest <= now
      /\ \A v \in WorkLog : at[v] <= now /\ gone[v] <= now
  BY DEF FetchInv, TypeOK, ClockRight
<1>2. UNCHANGED <<now, server, fetched, latest, jobs, faults, hist>> /\ Mapped(W, Here)
      /\ Stamped({i})
  BY DEF Fetch
<1> HIDE DEF W
<1>3. W \in SUBSET WorkLog /\ \A w \in W : OnServer(w)
  BY DEF W
<1>4. /\ local' \in [WorkLog -> Seq(Nat)]
      /\ \A w \in WorkLog \ W : local'[w] = local[w]
      /\ \A w \in W : \E k \in DOMAIN local'[w] : local'[w][k] = at[w]
      /\ \A w \in W : Len(local'[w]) = IF w \in Here THEN Len(local[w]) ELSE Len(local[w]) + 1
  BY <1>1, <1>2, <1>3, MappedIs
<1>5. stamp' \in [Issue -> Nat] /\ \A j \in Issue : stamp'[j] \in {now, stamp[j]}
  BY <1>1, <1>2, StampedIs
<1>6. TypeOK'
  BY <1>1, <1>2, <1>4, <1>5 DEF TypeOK, server, hist
<1>7. Kept({}) /\ NoneNew
  BY <1>2, SameJobs
<1>8. \A v \in WorkLog : at'[v] <= now /\ gone'[v] <= now
  BY <1>1, <1>2 DEF server
<1>9. latest' \in Nat /\ latest' >= latest /\ latest' <= now
  BY <1>1, <1>2
<1>10. ClockRight' /\ OneCron'
  BY <1>2, <1>5, <1>7, <1>8, <1>9, QueueKeeps
<1>11. AllArrive'
  <2> SUFFICES ASSUME NEW v \in WorkLog \ (missed \cup skipped \cup dropped), OnServer(v)
               PROVE  Loaded(v)' \/ ToBeLoaded(v)'
    BY <1>2 DEF AllArrive, OnServer, server, hist
  <2>1. Loaded(v) => Loaded(v)'
    <3>1. CASE v \in W
      BY <1>2, <1>4, <3>1 DEF Loaded, server
    <3>2. CASE v \notin W
      BY <1>2, <1>4, <3>2 DEF Loaded, server
    <3>3. QED
      BY <3>1, <3>2
  <2>2. IssueOf[v] \in Issue
    BY FetchAssumption
  <2>3. Loaded(v)' \/ ToBeLoaded(v)' \/ \E n \in {} \cap DOMAIN jobs : BroughtBy(n, v)
    BY <1>2, <1>5, <1>7, <2>1, <2>2, ArriveStays DEF server
  <2>4. QED
    BY <2>3
<1>12. DeletionsArrive'
  <2>1. \A w \in WorkLog : gone[w] # 0 /\ w \in Here' => w \in Here
    BY <1>3, <1>4 DEF Here, OnServer
  <2>2. QED
    BY <1>2, <1>7, <2>1, DeletionsStay DEF FetchInv, server, hist
<1>13. OneTimeLog'
  <2> SUFFICES ASSUME NEW w \in WorkLog
               PROVE  Len(local'[w]) <= 1 + reloads[ProjectOf[IssueOf[w]]]
    BY <1>2 DEF OneTimeLog, hist
  <2>1. /\ Len(local[w]) <= 1 + reloads[ProjectOf[IssueOf[w]]]
        /\ reloads[ProjectOf[IssueOf[w]]] \in Nat /\ local[w] \in Seq(Nat)
    BY <1>1, FetchAssumption DEF FetchInv, OneTimeLog, TypeOK
  <2>2. CASE w \notin W
    BY <1>4, <2>1, <2>2
  <2>3. CASE w \in W /\ w \in Here
    BY <1>4, <2>1, <2>3
  <2>4. CASE w \in W /\ w \notin Here
    <3>1. local[w] = <<>>
      BY <2>4 DEF Here
    <3>2. Len(local[w]) = 0
      BY <3>1
    <3>4. Len(local'[w]) = Len(local[w]) + 1
      BY <1>4, <2>4
    <3>3. QED
      BY <2>1, <3>2, <3>4
  <2>5. QED
    BY <2>2, <2>3, <2>4
<1>14. QED
  BY <1>6, <1>10, <1>11, <1>12, <1>13 DEF FetchInv

LEMMA DeleteWorkLogsKeeps ==
  ASSUME FetchInv, NEW n \in DOMAIN jobs, DeleteWorkLogs(n)
  PROVE  FetchInv'
<1> DEFINE D == DeletedSince(jobs[n].since)
<1>1. TypeOK /\ jobs \in Seq(Job) /\ now \in Nat /\ latest \in Nat /\ latest <= now
      /\ \A v \in WorkLog : at[v] <= now /\ gone[v] <= now
  BY DEF FetchInv, TypeOK, ClockRight
<1>2. /\ UNCHANGED <<now, server, stamp, fetched, latest, missed, skipped, reloads>> /\ Over(n)
      /\ jobs[n].kind = "delete_work_logs"
  BY DEF DeleteWorkLogs, Runs
<1>12. PICK part \in SUBSET D :
         /\ Handled(D, part)
         /\ local' = [w \in WorkLog |-> IF w \in part THEN <<>> ELSE local[w]]
         /\ dropped' = dropped \cup (D \ part)
  BY DEF DeleteWorkLogs
<1>3. \A w \in WorkLog : w \in D <=> gone[w] # 0 /\ gone[w] >= jobs[n].since
  BY DEF DeletedSince
<1>13. D \subseteq WorkLog /\ faults' \in Nat
  BY <1>1, <1>12 DEF DeletedSince, Handled, GivesUp, TypeOK
<1> HIDE DEF D
<1>4. jobs' \in Seq(Job) /\ Kept({n}) /\ NoneNew
  BY <1>1, <1>2, OverIs
<1>5. /\ local' \in [WorkLog -> Seq(Nat)]
      /\ \A w \in WorkLog : local'[w] = IF w \in part THEN <<>> ELSE local[w]
  BY <1>1, <1>12 DEF TypeOK
<1>6. TypeOK'
  BY <1>1, <1>2, <1>4, <1>5, <1>12, <1>13 DEF TypeOK, server
<1>7. ClockRight' /\ OneCron'
  <2>1. latest' \in Nat /\ latest' >= latest /\ latest' <= now
    BY <1>1, <1>2
  <2>2. \A v \in WorkLog : at'[v] <= now /\ gone'[v] <= now
    BY <1>1, <1>2 DEF server
  <2>3. QED
    BY <1>2, <1>4, <2>1, <2>2, QueueKeeps
<1>8. AllArrive'
  <2> SUFFICES ASSUME NEW v \in WorkLog \ (missed \cup skipped \cup dropped'), OnServer(v)
               PROVE  Loaded(v)' \/ ToBeLoaded(v)'
    BY <1>2 DEF AllArrive, OnServer, server
  <2>1. Loaded(v) => Loaded(v)'
    BY <1>2, <1>3, <1>5, <1>12 DEF Loaded, OnServer, server
  <2>2. Loaded(v)' \/ ToBeLoaded(v)' \/ \E m \in {n} \cap DOMAIN jobs : BroughtBy(m, v)
    BY <1>2, <1>4, <1>12, <2>1, ArriveStays DEF server, Updates
  <2>3. QED
    BY <1>2, <2>2 DEF BroughtBy
<1>9. DeletionsArrive'
  <2> SUFFICES ASSUME NEW w \in WorkLog \ (skipped \cup dropped'), gone[w] # 0, w \in Here'
               PROVE  \/ latest <= gone[w]
                      \/ \E m \in DOMAIN jobs' :
                           jobs'[m].kind = "delete_work_logs" /\ jobs'[m].since <= gone[w]
    BY <1>2 DEF DeletionsArrive, server
  <2>1. w \notin D /\ w \in Here /\ w \notin dropped
    BY <1>5, <1>12 DEF Here
  <2>2. ~(jobs[n].since <= gone[w])
    BY <1>1, <1>3, <2>1, JobIs DEF TypeOK
  <2>3. \/ latest <= gone[w]
        \/ \E m \in DOMAIN jobs : jobs[m].kind = "delete_work_logs" /\ jobs[m].since <= gone[w]
    BY <2>1 DEF FetchInv, DeletionsArrive
  <2>4. ASSUME NEW m \in DOMAIN jobs, jobs[m].kind = "delete_work_logs", jobs[m].since <= gone[w]
        PROVE  \E k \in DOMAIN jobs' :
                 jobs'[k].kind = "delete_work_logs" /\ jobs'[k].since <= gone[w]
    <3>1. PICK k \in DOMAIN jobs' : Alike(jobs'[k], jobs[m])
      BY <1>4, <2>2, <2>4 DEF Kept
    <3>2. QED
      BY <2>4, <3>1 DEF Alike
  <2>5. QED
    BY <2>3, <2>4
<1>10. OneTimeLog'
  <2> SUFFICES ASSUME NEW w \in WorkLog
               PROVE  Len(local'[w]) <= 1 + reloads[ProjectOf[IssueOf[w]]]
    BY <1>2 DEF OneTimeLog
  <2>1. /\ Len(local[w]) <= 1 + reloads[ProjectOf[IssueOf[w]]]
        /\ reloads[ProjectOf[IssueOf[w]]] \in Nat
    BY <1>1, FetchAssumption DEF FetchInv, OneTimeLog, TypeOK
  <2>2. CASE w \in part
    <3>1. Len(local'[w]) = 0
      BY <1>5, <2>2
    <3>2. QED
      BY <2>1, <3>1
  <2>3. CASE w \notin part
    BY <1>5, <2>1, <2>3
  <2>4. QED
    BY <2>2, <2>3
<1>11. QED
  BY <1>6, <1>7, <1>8, <1>9, <1>10 DEF FetchInv

(* A job that loads work logs W of the server.                             *)
LEMMA LoadKeeps ==
  ASSUME FetchInv, NEW n \in DOMAIN jobs, Over(n),
         NEW W \in SUBSET WorkLog, NEW Known \in SUBSET Here, Mapped(W, Known),
         \A w \in W : OnServer(w),
         jobs[n].kind \in {"load_missing", "load_work_logs"},
         UNCHANGED <<now, server, stamp, fetched, latest, skipped>>, faults' \in Nat,
         dropped \subseteq dropped', dropped' \subseteq WorkLog,
         missed \subseteq missed', missed' \subseteq WorkLog,
         reloads' \in [Project -> Nat],
         \A p \in Project : reloads'[p] >= reloads[p],
         \A w \in W \ Known : w \in Here =>
           reloads'[ProjectOf[IssueOf[w]]] = reloads[ProjectOf[IssueOf[w]]] + 1,
         \A w \in WorkLog : OnServer(w) /\ BroughtBy(n, w) =>
           w \in W \cup missed' \cup dropped' \/ ToBeLoaded(w)'
  PROVE  FetchInv'
<1>1. TypeOK /\ jobs \in Seq(Job) /\ now \in Nat /\ latest \in Nat /\ latest <= now
      /\ \A v \in WorkLog : at[v] <= now /\ gone[v] <= now
  BY DEF FetchInv, TypeOK, ClockRight
<1>2. jobs' \in Seq(Job) /\ Kept({n}) /\ NoneNew
  BY <1>1, OverIs
<1>3. /\ local' \in [WorkLog -> Seq(Nat)]
      /\ \A w \in WorkLog \ W : local'[w] = local[w]
      /\ \A w \in W : \E k \in DOMAIN local'[w] : local'[w][k] = at[w]
      /\ \A w \in W : Len(local'[w]) = IF w \in Known THEN Len(local[w]) ELSE Len(local[w]) + 1
  BY <1>1, MappedIs
<1>4. TypeOK'
  BY <1>1, <1>2, <1>3 DEF TypeOK, server
<1>5. ClockRight' /\ OneCron'
  <2>1. latest' \in Nat /\ latest' >= latest /\ latest' <= now
    BY <1>1
  <2>2. \A v \in WorkLog : at'[v] <= now /\ gone'[v] <= now
    BY <1>1 DEF server
  <2>3. QED
    BY <1>2, <2>1, <2>2, QueueKeeps
<1>6. AllArrive'
  <2> SUFFICES ASSUME NEW v \in WorkLog \ (missed' \cup skipped \cup dropped'), OnServer(v)
               PROVE  Loaded(v)' \/ ToBeLoaded(v)'
    BY DEF AllArrive, OnServer, server
  <2>1. CASE v \in W
    BY <1>3, <2>1 DEF Loaded, server
  <2>2. CASE v \notin W
    <3>1. Loaded(v) => Loaded(v)'
      BY <1>3, <2>2 DEF Loaded, server
    <3>2. Loaded(v)' \/ ToBeLoaded(v)' \/ \E m \in {n} \cap DOMAIN jobs : BroughtBy(m, v)
      BY <1>2, <3>1, ArriveStays DEF server, Updates
    <3>3. QED
      BY <2>2, <3>2
  <2>3. QED
    BY <2>1, <2>2
<1>7. DeletionsArrive'
  <2>1. \A w \in WorkLog : gone[w] # 0 /\ w \in Here' => w \in Here
    BY <1>3 DEF Here, OnServer
  <2>2. QED
    BY <1>2, <2>1, DeletionsStay DEF FetchInv, server
<1>8. OneTimeLog'
  <2> SUFFICES ASSUME NEW w \in WorkLog
               PROVE  Len(local'[w]) <= 1 + reloads'[ProjectOf[IssueOf[w]]]
    BY DEF OneTimeLog
  <2> DEFINE r == reloads[ProjectOf[IssueOf[w]]]
             s == reloads'[ProjectOf[IssueOf[w]]]
  <2>1. /\ Len(local[w]) <= 1 + r /\ r \in Nat /\ s \in Nat /\ s >= r /\ Len(local[w]) \in Nat
    BY <1>1, FetchAssumption DEF FetchInv, OneTimeLog, TypeOK
  <2>2. w \in W \ Known /\ w \in Here => s = r + 1
    OBVIOUS
  <2>3. w \notin Here => Len(local[w]) = 0
    BY DEF Here
  <2> HIDE DEF r, s
  <2>4. ASSUME w \notin W \/ w \in Known PROVE Len(local'[w]) <= 1 + s
    BY <1>3, <2>1, <2>4
  <2>5. ASSUME w \in W \ Known PROVE Len(local'[w]) <= 1 + s
    BY <1>3, <2>1, <2>2, <2>3, <2>5
  <2>6. QED
    BY <2>4, <2>5 DEF s
<1>9. QED
  BY <1>4, <1>5, <1>6, <1>7, <1>8 DEF FetchInv

LEMMA LoadWorkLogsKeeps ==
  ASSUME FetchInv, NEW n \in DOMAIN jobs, LoadWorkLogs(n)
  PROVE  FetchInv'
<1>0. PICK t : t = jobs[n].since
  OBVIOUS
<1> DEFINE U == {w \in WorkLog : OnServer(w) /\ at[w] >= t}
           W == {w \in U : stamp[IssueOf[w]] # 0 /\ stamp[IssueOf[w]] >= t}
<1>1. /\ Over(n) /\ jobs[n].kind = "load_work_logs"
      /\ UNCHANGED <<now, server, stamp, fetched, latest, skipped, reloads>>
      /\ missed' = IF Unfinished("update_projects", t, jobs[n].projects)
                   THEN missed \cup (U \ W) ELSE missed
  BY <1>0 DEF LoadWorkLogs, Runs
<1>9. PICK part \in SUBSET W :
        /\ Handled(W, part) /\ Mapped(part, KnownSince(t))
        /\ dropped' = dropped \cup (W \ part)
  BY <1>0 DEF LoadWorkLogs
<1>2. TypeOK /\ t \in Nat /\ 1 <= t
  BY <1>0, <1>1, JobIs DEF FetchInv, ClockRight, Windowed
<1>3. /\ KnownSince(t) \in SUBSET Here
      /\ part \in SUBSET WorkLog /\ \A w \in part : OnServer(w)
  BY DEF KnownSince
<1>10. /\ faults' \in Nat
       /\ dropped \subseteq dropped' /\ dropped' \subseteq WorkLog /\ W \subseteq part \cup dropped'
  BY <1>2, <1>9 DEF TypeOK, Handled, GivesUp
<1>4. missed \subseteq missed' /\ missed' \subseteq WorkLog
  BY <1>1, <1>2 DEF TypeOK
<1>5. reloads' \in [Project -> Nat] /\ \A p \in Project : reloads'[p] >= reloads[p]
  BY <1>1, <1>2 DEF TypeOK
<1>6. \A w \in part \ KnownSince(t) : w \in Here =>
        reloads'[ProjectOf[IssueOf[w]]] = reloads[ProjectOf[IssueOf[w]]] + 1
  BY DEF KnownSince
<1>7. ASSUME NEW w \in WorkLog, OnServer(w), BroughtBy(n, w)
      PROVE  w \in part \cup missed' \cup dropped' \/ ToBeLoaded(w)'
  <2> DEFINE i == IssueOf[w]
             p == ProjectOf[i]
  <2>1. i \in Issue /\ p \in Project /\ stamp[i] \in Nat /\ at[w] \in Nat
    BY <1>2, FetchAssumption DEF TypeOK
  <2>2. t <= at[w] /\ (stamp[i] >= t \/ Unfinished("update_projects", t, {p}))
    BY <1>0, <1>1, <1>7 DEF BroughtBy
  <2>3. w \in U
    BY <1>2, <1>7, <2>1, <2>2
  <2>4. CASE stamp[i] >= t
    BY <1>2, <1>10, <2>1, <2>3, <2>4
  <2>5. CASE Unfinished("update_projects", t, {p})
    <3>1. PICK m \in DOMAIN jobs :
            jobs[m].kind = "update_projects" /\ jobs[m].since = t /\ p \in jobs[m].projects
      BY <2>5 DEF Unfinished
    <3>2. jobs[m].projects = jobs[n].projects
      BY <1>0, <1>1, <3>1 DEF FetchInv, OneCron
    <3>3. Unfinished("update_projects", t, jobs[n].projects)
      BY <3>1, <3>2 DEF Unfinished
    <3>4. QED
      BY <1>1, <1>10, <2>3, <3>3
  <2>6. QED
    BY <2>2, <2>4, <2>5
<1> HIDE DEF U, W
<1>8. QED
  BY <1>1, <1>3, <1>4, <1>5, <1>6, <1>7, <1>9, <1>10, LoadKeeps

LEMMA LoadMissingKeeps ==
  ASSUME FetchInv, NEW n \in DOMAIN jobs, LoadMissing(n)
  PROVE  FetchInv'
<1> DEFINE P == jobs[n].projects
           U == {w \in WorkLog : OnServer(w) /\ ProjectOf[IssueOf[w]] \in P}
           W == {w \in U : stamp[IssueOf[w]] # 0}
<1>1. /\ Over(n) /\ jobs[n].kind = "load_missing"
      /\ UNCHANGED <<now, server, stamp, fetched, latest, skipped>>
      /\ missed' = IF Unfinished("_update_project", 0, P)
                   THEN missed \cup (U \ W) ELSE missed
  BY DEF LoadMissing, Runs
<1>9. PICK part \in SUBSET W :
        /\ Handled(W, part) /\ Mapped(part, {})
        /\ dropped' = dropped \cup (W \ part)
        /\ reloads' = [p \in Project |->
                        IF \E w \in part \cap Here : ProjectOf[IssueOf[w]] = p
                        THEN reloads[p] + 1 ELSE reloads[p]]
  BY DEF LoadMissing
<1>2. TypeOK
  BY DEF FetchInv
<1>3. {} \in SUBSET Here /\ part \in SUBSET WorkLog /\ \A w \in part : OnServer(w)
  OBVIOUS
<1>10. /\ faults' \in Nat
       /\ dropped \subseteq dropped' /\ dropped' \subseteq WorkLog /\ W \subseteq part \cup dropped'
  BY <1>2, <1>9 DEF TypeOK, Handled, GivesUp
<1>4. missed \subseteq missed' /\ missed' \subseteq WorkLog
  BY <1>1, <1>2 DEF TypeOK
<1>7. ASSUME NEW w \in WorkLog, OnServer(w), BroughtBy(n, w)
      PROVE  w \in part \cup missed' \cup dropped' \/ ToBeLoaded(w)'
  <2> DEFINE i == IssueOf[w]
             p == ProjectOf[i]
  <2>1. i \in Issue /\ p \in Project
    BY FetchAssumption
  <2>2. p \in P
    BY <1>1, <1>7 DEF BroughtBy
  <2>3. w \in U
    BY <1>7, <2>2
  <2>4. Unfinished("_update_project", 0, {p}) \/ stamp[i] # 0
    BY <1>1, <1>7 DEF BroughtBy
  <2>5. CASE stamp[i] # 0
    BY <1>10, <2>3, <2>5
  <2>6. CASE Unfinished("_update_project", 0, {p})
    <3>1. Unfinished("_update_project", 0, P)
      BY <2>2, <2>6 DEF Unfinished
    <3>2. QED
      BY <1>1, <1>10, <2>3, <3>1
  <2>7. QED
    BY <2>4, <2>5, <2>6
<1> HIDE DEF P, U, W
<1>5. reloads' \in [Project -> Nat] /\ \A p \in Project : reloads'[p] >= reloads[p]
  <2>1. \A p \in Project : reloads[p] \in Nat /\ reloads'[p] \in {reloads[p], reloads[p] + 1}
    BY <1>2, <1>9 DEF TypeOK
  <2>2. QED
    BY <1>9, <2>1
<1>6. \A w \in part \ {} : w \in Here =>
        reloads'[ProjectOf[IssueOf[w]]] = reloads[ProjectOf[IssueOf[w]]] + 1
  BY <1>3, <1>9, FetchAssumption
<1>8. QED
  BY <1>1, <1>3, <1>4, <1>5, <1>6, <1>7, <1>9, <1>10, LoadKeeps

LEMMA SetTokenKeeps ==
  ASSUME FetchInv, SetToken
  PROVE  FetchInv'
<1>1. TypeOK /\ now \in Nat /\ latest \in Nat /\ latest <= now /\ faults \in Nat
      /\ at \in [WorkLog -> Nat] /\ gone \in [WorkLog -> Nat]
      /\ \A v \in WorkLog : at[v] <= now /\ gone[v] <= now
  BY DEF FetchInv, TypeOK, ClockRight
<1>2. /\ UNCHANGED <<now, server, stamp, local, fetched, jobs, missed, dropped, reloads>>
      /\ faults' = faults + 1 /\ latest' = now
      /\ skipped' = skipped \cup Passed(at) \cup Passed(gone)
  BY DEF SetToken
<1>3. Passed(at) \subseteq WorkLog /\ Passed(gone) \subseteq WorkLog
  BY DEF Passed
<1>4. TypeOK'
  BY <1>1, <1>2, <1>3 DEF TypeOK, server
<1>5. Kept({}) /\ NoneNew
  BY <1>2, SameJobs
<1>6. ClockRight' /\ OneCron'
  <2>1. latest' \in Nat /\ latest' >= latest /\ latest' <= now
    BY <1>1, <1>2
  <2>2. \A v \in WorkLog : at'[v] <= now /\ gone'[v] <= now
    BY <1>1, <1>2 DEF server
  <2>3. QED
    BY <1>2, <1>5, <2>1, <2>2, QueueKeeps
<1>7. AllArrive'
  <2> SUFFICES ASSUME NEW v \in WorkLog \ (missed \cup skipped' \cup dropped), OnServer(v)
               PROVE  Loaded(v)' \/ ToBeLoaded(v)'
    BY <1>2 DEF AllArrive, OnServer, server
  <2>1. Loaded(v) \/ ToBeLoaded(v)
    BY <1>2 DEF FetchInv, AllArrive
  <2>2. CASE Loaded(v)
    BY <1>2, <2>2 DEF Loaded, server
  <2>3. CASE latest <= at[v]
    <3>1. ~(at[v] \in latest..(now - 1))
      BY <1>2 DEF Passed
    <3>2. now <= at[v]
      BY <1>1, <2>3, <3>1
    <3>3. QED
      BY <1>2, <3>2 DEF ToBeLoaded, server
  <2>4. CASE ProjectOf[IssueOf[v]] \notin fetched
    BY <1>2, <2>4 DEF ToBeLoaded
  <2>5. ASSUME NEW n \in DOMAIN jobs, BroughtBy(n, v)
        PROVE  ToBeLoaded(v)'
    BY <1>2, <2>5 DEF ToBeLoaded, BroughtBy, Unfinished, server
  <2>6. QED
    BY <2>1, <2>2, <2>3, <2>4, <2>5, ToBeLoadedIs
<1>8. DeletionsArrive'
  <2> SUFFICES ASSUME NEW v \in WorkLog \ (skipped' \cup dropped), gone[v] # 0, v \in Here
               PROVE  \/ latest' <= gone[v]
                      \/ \E n \in DOMAIN jobs :
                           jobs[n].kind = "delete_work_logs" /\ jobs[n].since <= gone[v]
    BY <1>2 DEF DeletionsArrive, Here, server
  <2>1. \/ latest <= gone[v]
        \/ \E n \in DOMAIN jobs :
             jobs[n].kind = "delete_work_logs" /\ jobs[n].since <= gone[v]
    BY <1>2 DEF FetchInv, DeletionsArrive
  <2>2. ~(gone[v] \in latest..(now - 1))
    BY <1>2 DEF Passed
  <2>3. CASE latest <= gone[v]
    BY <1>1, <1>2, <2>2, <2>3
  <2>4. QED
    BY <2>1, <2>3
<1>9. OneTimeLog'
  BY <1>2 DEF FetchInv, OneTimeLog
<1>10. QED
  BY <1>4, <1>6, <1>7, <1>8, <1>9 DEF FetchInv

LEMMA CronKeeps ==
  ASSUME FetchInv, NEW chosen \in SUBSET Project, Cron(chosen)
  PROVE  FetchInv'
<1>1. TypeOK /\ jobs \in Seq(Job) /\ now \in Nat /\ latest \in Nat /\ 1 <= latest /\ faults \in Nat
      /\ at \in [WorkLog -> Nat] /\ gone \in [WorkLog -> Nat]
      /\ \A v \in WorkLog : at[v] <= now /\ gone[v] <= now
  BY DEF FetchInv, TypeOK, ClockRight
<1>2. PICK served \in SUBSET chosen :
        LET known == served \cap fetched
        IN  /\ faults' = faults + (IF served = Project THEN 0 ELSE 1)
            /\ jobs' = jobs \o JobsForNew(served \ fetched) \o JobsForKnown(known, latest)
            /\ skipped' = skipped \cup Unserved(chosen, served)
                                 \cup IF known = {} THEN Passed(gone) ELSE {}
  BY DEF Cron
<1> DEFINE N == served \ fetched
           K == served \cap fetched
<1>3. /\ latest < now /\ fetched' = fetched \cup chosen /\ latest' = now
      /\ UNCHANGED <<now, server, stamp, local, missed, dropped, reloads>>
  BY DEF Cron
<1>4. PICK t : t = latest
  OBVIOUS
<1>5. Enqueued(N, K, t)
  BY <1>1, <1>2, <1>4, EnqueuedIs
<1>6. faults' \in Nat /\ Unserved(chosen, served) \subseteq WorkLog /\ Passed(gone) \subseteq WorkLog
  BY <1>1, <1>2 DEF Unserved, Passed
<1>7. skipped' \subseteq WorkLog
  BY <1>1, <1>2, <1>6 DEF TypeOK
<1>8. skipped \cup Unserved(chosen, served) \subseteq skipped' /\ (K = {} => Passed(gone) \subseteq skipped')
  BY <1>2
<1> HIDE DEF N, K
<1>9. TypeOK'
  BY <1>1, <1>3, <1>5, <1>6, <1>7 DEF TypeOK, Enqueued, server
<1>10. /\ jobs' \in Seq(Job)
       /\ \A m \in DOMAIN jobs : m \in DOMAIN jobs' /\ jobs'[m] = jobs[m]
       /\ \A k \in DOMAIN jobs' :
            k \in DOMAIN jobs \/ IsNew(jobs'[k], N) \/ IsWindow(jobs'[k], K, t)
  BY <1>5 DEF Enqueued
<1>11. \A m \in DOMAIN jobs : jobs[m].since \in Nat
                              /\ (jobs[m].kind \in Windowed => 1 <= jobs[m].since /\ jobs[m].since < latest)
  BY JobIs, <1>1 DEF FetchInv, ClockRight
<1>12. \A k \in DOMAIN jobs' : jobs'[k].kind \in Windowed =>
         \/ k \in DOMAIN jobs /\ jobs'[k] = jobs[k] /\ 1 <= jobs[k].since /\ jobs[k].since < latest
         \/ jobs'[k].since = latest /\ jobs'[k].projects = K
  BY <1>4, <1>10, <1>11, SMTT(30) DEF IsNew, IsWindow, Windowed
<1>13. ClockRight'
  <2>1. \A k \in DOMAIN jobs' : jobs'[k].kind \in Windowed =>
          1 <= jobs'[k].since /\ jobs'[k].since < now
    BY <1>1, <1>3, <1>11, <1>12
  <2>2. QED
    BY <1>1, <1>3, <2>1 DEF ClockRight, server
<1>14. OneCron'
  <2> SUFFICES ASSUME NEW m \in DOMAIN jobs', NEW n \in DOMAIN jobs',
                      jobs'[m].kind = "update_projects", jobs'[n].kind = "load_work_logs",
                      jobs'[m].since = jobs'[n].since
               PROVE  jobs'[m].projects = jobs'[n].projects
    BY DEF OneCron
  <2>1. jobs'[m].kind \in Windowed /\ jobs'[n].kind \in Windowed
    BY DEF Windowed
  <2>2. CASE m \in DOMAIN jobs /\ n \in DOMAIN jobs
    BY <1>10, <2>2 DEF FetchInv, OneCron
  <2>3. CASE jobs'[m].since = latest
    <3>1. ASSUME NEW k \in DOMAIN jobs', jobs'[k].kind \in Windowed,
                 jobs'[k].since = latest
          PROVE  jobs'[k].projects = K
      <4>1. CASE k \in DOMAIN jobs /\ jobs'[k] = jobs[k] /\ jobs[k].since < latest
        <5>1. jobs[k].since = latest
          BY <3>1, <4>1
        <5>2. QED
          BY <1>1, <4>1, <5>1
      <4>2. QED
        BY <1>12, <3>1, <4>1
    <3>2. jobs'[m].projects = K
      BY <2>1, <2>3, <3>1
    <3>3. jobs'[n].projects = K
      BY <2>1, <2>3, <3>1
    <3>4. QED
      BY <3>2, <3>3
  <2>4. QED
    BY <1>12, <2>1, <2>2, <2>3
<1>17. AllArrive'
  <2> SUFFICES ASSUME NEW v \in WorkLog \ (missed \cup skipped' \cup dropped), OnServer(v)
               PROVE  Loaded(v)' \/ ToBeLoaded(v)'
    BY <1>3 DEF AllArrive, OnServer, server
  <2> DEFINE i == IssueOf[v]
             p == ProjectOf[i]
  <2>1. Loaded(v) \/ ToBeLoaded(v)
    BY <1>8 DEF FetchInv, AllArrive
  <2>2. i \in Issue /\ p \in Project /\ at[v] \in Nat /\ at[v] # 0 /\ at[v] <= now
        /\ IssueOf' = IssueOf /\ ProjectOf' = ProjectOf /\ at' = at /\ stamp' = stamp
    BY <1>1, <1>3, FetchAssumption DEF OnServer, server
  <2>3. v \notin Unserved(chosen, served)
    BY <1>8
  <2>4. CASE Loaded(v)
    BY <1>3, <2>4 DEF Loaded, server
  <2>5. CASE at[v] = now
    BY <1>3, <2>2, <2>5 DEF ToBeLoaded
  <2>6. CASE p \in N
    <3>1. PICK k \in DOMAIN jobs' : jobs'[k].kind = "load_missing" /\ jobs'[k].projects = N
      BY <1>5, <2>6 DEF Enqueued
    <3>2. PICK l \in DOMAIN jobs' :
            jobs'[l].kind = "_update_project" /\ jobs'[l].since = 0 /\ p \in jobs'[l].projects
      BY <1>5, <2>6 DEF Enqueued
    <3>3. Unfinished("_update_project", 0, {p})'
      BY <2>2, <3>2 DEF Unfinished
    <3>4. QED
      BY <2>2, <2>6, <3>1, <3>3 DEF ToBeLoaded
  <2>7. CASE at[v] < now /\ p \in fetched /\ latest <= at[v]
    <3>1. p \in served
      BY <1>1, <2>2, <2>3, <2>7 DEF Unserved
    <3>2. p \in K
      BY <2>7, <3>1 DEF K
    <3>3. PICK k \in DOMAIN jobs' :
            jobs'[k].kind = "load_work_logs" /\ jobs'[k].since = t /\ jobs'[k].projects = K
      BY <1>5, <3>2 DEF Enqueued, Windowed
    <3>4. PICK l \in DOMAIN jobs' :
            jobs'[l].kind = "update_projects" /\ jobs'[l].since = t /\ jobs'[l].projects = K
      BY <1>5, <3>2 DEF Enqueued, Windowed
    <3>5. Unfinished("update_projects", jobs[k].since, {p})'
      BY <2>2, <3>2, <3>3, <3>4 DEF Unfinished
    <3>6. QED
      BY <1>4, <2>2, <2>7, <3>3, <3>5 DEF ToBeLoaded
  <2>8. CASE at[v] < now /\ p \notin fetched /\ p \notin N
    <3>1. p \notin served
      BY <2>8 DEF N
    <3>2. p \notin chosen
      BY <1>1, <2>2, <2>3, <2>8, <3>1 DEF Unserved
    <3>3. QED
      BY <1>3, <2>2, <2>8, <3>2 DEF ToBeLoaded
  <2>9. ASSUME NEW n \in DOMAIN jobs, BroughtBy(n, v)
        PROVE  ToBeLoaded(v)'
    <3>1. n \in DOMAIN jobs' /\ jobs'[n] = jobs[n]
      BY <1>10
    <3>2. \A kind \in {"_update_project", "update_projects"}, s \in {0, jobs[n].since} :
            Unfinished(kind, s, {p}) => Unfinished(kind, s, {p})'
      BY <1>10, <2>2, <3>1 DEF Unfinished
    <3>3. QED
      BY <2>2, <2>9, <3>1, <3>2 DEF ToBeLoaded, BroughtBy
  <2>10. latest <= at[v] \/ p \notin fetched \/ Loaded(v) \/ \E n \in DOMAIN jobs : BroughtBy(n, v)
    BY <2>1, ToBeLoadedIs
  <2>11. at[v] < now \/ at[v] = now
    BY <1>1, <2>2
  <2>12. QED
    BY <2>4, <2>5, <2>6, <2>7, <2>8, <2>9, <2>10, <2>11
<1>18. DeletionsArrive'
  <2> SUFFICES ASSUME NEW v \in WorkLog \ (skipped' \cup dropped), gone[v] # 0, v \in Here
               PROVE  \/ now <= gone[v]
                      \/ \E n \in DOMAIN jobs' :
                           jobs'[n].kind = "delete_work_logs" /\ jobs'[n].since <= gone[v]
    BY <1>3 DEF DeletionsArrive, Here, server
  <2>1. \/ latest <= gone[v]
        \/ \E n \in DOMAIN jobs :
             jobs[n].kind = "delete_work_logs" /\ jobs[n].since <= gone[v]
    BY <1>8 DEF FetchInv, DeletionsArrive
  <2>2. ASSUME latest <= gone[v], ~(now <= gone[v])
        PROVE  \E n \in DOMAIN jobs' :
                 jobs'[n].kind = "delete_work_logs" /\ jobs'[n].since <= gone[v]
    <3>1. gone[v] \in latest..(now - 1)
      BY <1>1, <2>2
    <3>2. K # {}
      BY <1>8, <3>1 DEF Passed
    <3>3. PICK k \in DOMAIN jobs' :
            jobs'[k].kind = "delete_work_logs" /\ jobs'[k].since = t
      BY <1>5, <3>2 DEF Enqueued, Windowed
    <3>4. QED
      BY <1>4, <2>2, <3>3
  <2>3. QED
    BY <1>10, <2>1, <2>2
<1>19. OneTimeLog'
  BY <1>3 DEF FetchInv, OneTimeLog
<1>20. QED
  BY <1>9, <1>13, <1>14, <1>17, <1>18, <1>19 DEF FetchInv

LEMMA FetchStart == Init => FetchInv
<1> SUFFICES ASSUME Init PROVE FetchInv
  OBVIOUS
<1>1. jobs = <<>> /\ DOMAIN jobs = {}
  BY DEF Init
<1>2. TypeOK
  BY <1>1 DEF Init, TypeOK
<1>3. ClockRight /\ OneCron
  BY <1>1 DEF Init, ClockRight, OneCron
<1>4. AllArrive /\ DeletionsArrive
  BY DEF Init, AllArrive, DeletionsArrive, OnServer
<1>5. OneTimeLog
  <2>1. \A w \in WorkLog : Len(local[w]) = 0 /\ reloads[ProjectOf[IssueOf[w]]] = 0
    BY FetchAssumption DEF Init
  <2>2. QED
    BY <2>1 DEF OneTimeLog
<1>6. QED
  BY <1>2, <1>3, <1>4, <1>5 DEF FetchInv

(* The inductive invariant: the queue still has what the cron asked for,   *)
(* window by window, in an order in which each job finds what it needs.    *)
THEOREM FetchInvariant == Spec => []FetchInv
<1>1. FetchInv /\ [Next]_vars => FetchInv'
  <2> SUFFICES ASSUME FetchInv, [Next]_vars PROVE FetchInv'
    OBVIOUS
  <2>1. ASSUME NEW w \in WorkLog, Change(w) \/ DeleteOnServer(w) PROVE FetchInv'
    BY <2>1, ChangeKeeps, DeleteOnServerKeeps
  <2>2. ASSUME NEW P \in (SUBSET Project) \ {{}}, Cron(P) PROVE FetchInv'
    BY <2>2, CronKeeps
  <2>3. ASSUME NEW n \in DOMAIN jobs,
               \/ UpdateIssues(n) \/ LoadWorkLogs(n) \/ LoadMissing(n)
               \/ FindNothing(n) \/ DeleteWorkLogs(n) \/ Disrupt(n) \/ RequeueFailed(n)
        PROVE  FetchInv'
    BY <2>3, UpdateIssuesKeeps, LoadWorkLogsKeeps, LoadMissingKeeps, StateKeeps,
       DeleteWorkLogsKeeps
  <2>4. ASSUME NEW i \in Issue, Fetch(i) PROVE FetchInv'
    BY <2>4, FetchKeeps
  <2>5. ASSUME NEW p \in Project, Reset(p) PROVE FetchInv'
    BY <2>5, ResetKeeps
  <2>6. CASE SetToken
    BY <2>6, SetTokenKeeps
  <2>7. CASE Tick
    BY <2>7, TickKeeps
  <2>8. CASE UNCHANGED vars
    <3>1. TypeOK /\ now \in Nat
      BY DEF FetchInv, TypeOK
    <3>2. TypeOK'
      BY <2>8, <3>1 DEF TypeOK, vars
    <3>3. Kept({}) /\ NoneNew
      BY <2>8, SameJobs DEF vars
    <3>4. now' >= now /\ latest' = latest /\ fetched' = fetched /\ stamp' = stamp
          /\ UNCHANGED <<server, local, hist>>
      BY <2>8, <3>1 DEF vars, server, hist
    <3>5. QED
      BY <3>1, <3>2, <3>3, <3>4, IdleKeeps DEF hist
  <2>9. QED
    BY <2>1, <2>2, <2>3, <2>4, <2>5, <2>6, <2>7, <2>8 DEF Next
<1>2. QED
  BY <1>1, FetchStart, PTL DEF Spec

(* A change on the server is here, or will be fetched by a job or by the   *)
(* next cron, although latest_unix moves on before the jobs have run.      *)
THEOREM ChangesAlwaysArrive == Spec => []ChangesArrive
<1>1. FetchInv => ChangesArrive
  BY DEF FetchInv, AllArrive, Loaded, ChangesArrive
<1>2. QED
  BY <1>1, FetchInvariant, PTL

(* A deletion as well, for no job brings a deleted work log back.          *)
THEOREM DeletionsAlwaysArrive == Spec => []DeletionsArrive
<1>1. FetchInv => DeletionsArrive
  BY DEF FetchInv
<1>2. QED
  BY <1>1, FetchInvariant, PTL

(* A second time log of a work log comes from load_missing_work_logs only. *)
THEOREM AlwaysOneTimeLog == Spec => []OneTimeLog
<1>1. FetchInv => OneTimeLog
  BY DEF FetchInv
<1>2. QED
  BY <1>1, FetchInvariant, PTL
=============================================================================
