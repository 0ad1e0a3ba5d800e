-------------------------- MODULE LogExport_proofs --------------------------
(***************************************************************************)
(* Proofs about the time logs that are sent to Jira beside the import that *)
(* brings work logs back: for any issues, texts and depth of nesting, what *)
(* is amiss between the two sides has a cause that the histories name.     *)
(*                                                                         *)
(* In this order: the inductive invariant; the places of what is posted;   *)
(* what the two requests of an export leave of a transaction; what is      *)
(* right of a transaction as far as it has got, through the requests and   *)
(* the writes of each handler; the ends of transactions; imports.          *)
(***************************************************************************)
EXTENDS LogExport, FiniteSetTheorems, SequenceTheorems, TLAPS

Entry == Log \cup {None, Gone}
Server == Seq(WorkLog \cup {Gone})

IsRow(l) == l \notin {None, Gone}

(* What a log says of the work log it is tied to.                          *)
Tied(l, J) ==
  l.id # 0 =>
    /\ l.id \in DOMAIN J
    /\ l.state = "done"
    /\ J[l.id] # Gone /\ ~l.adrift => J[l.id].issue = l.issue

(* A work log says what was last sent to it, or others have changed it.    *)
SentTrue(l, J) ==
  l.id # 0 /\ J[l.id] # Gone /\ l.id \notin raced =>
    J[l.id].foreign \/ J[l.id].text = l.sent

(* What a log that is marked says was sent, or was captured, or is what an *)
(* import makes of what the server has.                                    *)
Marks(l) ==
  l.id # 0 /\ l.mark = "exported" /\ ~l.late /\ ~l.behind =>
    \/ l.text \in {l.sent, l.captured}
    \/ l.captured = l.sent /\ l.text = Rounded[l.sent]

MarkTrue(l, J) == SentTrue(l, J) /\ Marks(l)

Holds(l, s) == IsRow(l) /\ l.id = s

(* A work log that no failure left behind is held by the log it was posted *)
(* for, until that is deleted.                                             *)
Origins ==
  \A s \in DOMAIN jira :
    jira[s] = Gone \/ s \in stray \cup Pending
      \/ logs[jira[s].origin] = Gone \/ Holds(logs[jira[s].origin], s)

OpenRow(k) ==
  /\ open.logs[k] # None
  /\ IsRow(open.logs[k]) => Tied(open.logs[k], jira)
  /\ k \notin open.touched =>
       /\ logs[k] # Gone
       /\ IsRow(open.logs[k]) =>
            /\ MarkTrue(open.logs[k], jira)
            /\ \/ open.logs[k].id = 0
               \/ open.logs[k].id \in open.posted
               \/ Holds(logs[k], open.logs[k].id)
       /\ IsRow(logs[k]) /\ logs[k].id # 0 =>
            \/ Holds(open.logs[k], logs[k].id)
            \/ jira[logs[k].id] = Gone
            \/ open.logs[k] = Gone /\ logs[k].id \in open.kept

(* A transaction that goes on: what it wrote is as what is committed, and  *)
(* about rows nobody else touched.                                         *)
OpenUser ==
  open # None /\ open.kind = "user" =>
    /\ open.posted \cup open.kept \subseteq DOMAIN jira
    /\ \A k \in open.wrote : OpenRow(k)
    /\ \A k, m \in open.wrote, s \in open.posted :
         Holds(open.logs[k], s) /\ Holds(open.logs[m], s) => k = m
    /\ \A s \in open.posted :
         \/ jira[s] = Gone \/ s \in stray
         \/ jira[s].origin \in open.wrote /\ Holds(open.logs[jira[s].origin], s)
    /\ \A k \in Row, s \in open.posted : Holds(logs[k], s) => s \in raced

(* An import that goes on knows who holds what was there when it began.    *)
OpenImported ==
  open # None /\ open.kind = "import" =>
    /\ open.posted \subseteq DOMAIN jira /\ open.wrote = {}
    /\ \A k \in Row \ open.touched : logs[k] = open.logs[k]
    /\ \A k \in Row, s \in open.posted : Holds(logs[k], s) => Holds(open.logs[k], s)

RowsRight ==
  \A k \in Row : IsRow(logs[k]) => Tied(logs[k], jira) /\ MarkTrue(logs[k], jira)

(* Two logs hold a work log only if the import raced with what posted it.  *)
Single ==
  \A k, m \in Row, s \in DOMAIN jira :
    Holds(logs[k], s) /\ Holds(logs[m], s) => k = m \/ s \in raced

Known ==
  \A s \in DOMAIN jira :
    jira[s] = Gone \/ jira[s].new \/ s \in kept \/ \E k \in Row : Holds(logs[k], s)

(* The safety properties are not inductive: what is committed later was    *)
(* decided before, so that OpenUser and OpenImported have to say of the    *)
(* open transaction what the others say of the rows.                       *)
ExportInv ==
  TypeOK /\ RowsRight /\ Single /\ Known /\ Origins /\ OpenUser /\ OpenImported
-----------------------------------------------------------------------------
(* What is assumed of the constants.                                        *)
LEMMA Constants ==
  /\ MaxLogs \in Nat /\ Nesting \in Nat \ {0} /\ MaxPosts \in Nat /\ MaxSteps \in Nat
  /\ Row = 1..MaxLogs /\ \A k \in Row : k \in Nat
  /\ None \notin Log /\ None \notin Transient /\ Gone \notin Log /\ Gone \notin WorkLog /\ None # Gone
BY ExportAssumption, RowAssumption DEF Row

LEMMA FiniteRows ==
  ASSUME NEW P \in SUBSET Row
  PROVE  IsFiniteSet(P) /\ Cardinality(P) \in Nat
<1>1. IsFiniteSet(1..MaxLogs)
  BY Constants, FS_Interval
<1>2. IsFiniteSet(P)
  BY <1>1, Constants, FS_Subset
<1>3. QED
  BY <1>2, FS_CardinalityType

(* The places of the logs that are posted are 0, 1 and so on, each once.   *)
LEMMA Places ==
  ASSUME NEW P \in SUBSET Row, NEW place,
         place = [k \in P |-> Cardinality({m \in P : m < k})]
  PROVE  /\ place \in [P -> 0..(Cardinality(P) - 1)]
         /\ \A k, m \in P : place[k] = place[m] => k = m
         /\ \A p \in 0..(Cardinality(P) - 1) : \E k \in P : place[k] = p
<1> DEFINE Before(k) == {m \in P : m < k}
           c == Cardinality(P)
<1>1. IsFiniteSet(P) /\ c \in Nat /\ \A k \in P : k \in Nat
  BY FiniteRows, Constants
<1>2. ASSUME NEW k \in P
      PROVE  /\ IsFiniteSet(Before(k)) /\ Cardinality(Before(k)) \in Nat
             /\ k \notin Before(k) /\ Cardinality(Before(k)) + 1 <= c
  <2>1. Before(k) \in SUBSET Row /\ k \notin Before(k) /\ Before(k) \cup {k} \in SUBSET P
    BY <1>1
  <2> HIDE DEF Before
  <2>2. IsFiniteSet(Before(k)) /\ Cardinality(Before(k)) \in Nat
    BY <2>1, FiniteRows
  <2>3. Cardinality(Before(k) \cup {k}) = Cardinality(Before(k)) + 1
    BY <2>1, <2>2, FS_AddElement
  <2>4. Cardinality(Before(k) \cup {k}) <= c
    BY <1>1, <2>1, FS_Subset
  <2>5. QED
    BY <2>1, <2>2, <2>3, <2>4
<1>3. ASSUME NEW k \in P, NEW m \in P, k < m
      PROVE  Cardinality(Before(k)) < Cardinality(Before(m))
  <2>1. Before(k) \cup {k} \in SUBSET Before(m)
    BY <1>1, <1>3
  <2> HIDE DEF Before
  <2>2. Cardinality(Before(k) \cup {k}) = Cardinality(Before(k)) + 1
    BY <1>2, FS_AddElement
  <2>3. Cardinality(Before(k) \cup {k}) <= Cardinality(Before(m))
    BY <1>2, <2>1, FS_Subset
  <2>4. QED
    BY <1>2, <2>2, <2>3
<1>4. \A k \in P : place[k] = Cardinality(Before(k))
  OBVIOUS
<1>5. place \in [P -> 0..(c - 1)]
  <2>1. \A k \in P : Cardinality(Before(k)) \in 0..(c - 1)
    <3> SUFFICES ASSUME NEW k \in P PROVE Cardinality(Before(k)) \in 0..(c - 1)
      OBVIOUS
    <3> HIDE DEF Before, c
    <3>1. c \in Nat /\ Cardinality(Before(k)) \in Nat /\ Cardinality(Before(k)) + 1 <= c
      BY <1>1, <1>2
    <3>2. QED
      BY <3>1
  <2>2. QED
    BY <2>1
<1>6. \A k, m \in P : place[k] = place[m] => k = m
  <2> HIDE DEF Before
  <2>1. \A k, m \in P : k < m => place[k] < place[m]
    BY <1>3, <1>4
  <2>2. \A k \in P : place[k] \in Nat
    BY <1>2, <1>4
  <2>3. QED
    BY <1>1, <2>1, <2>2
<1> HIDE DEF Before
<1>7. IsFiniteSet(0..(c - 1)) /\ Cardinality(0..(c - 1)) = c
  BY <1>1, FS_Interval
<1>8. place \in Injection(P, 0..(c - 1))
  BY <1>5, <1>6 DEF Injection, IsInjective
<1>9. place \in Surjection(P, 0..(c - 1))
  BY <1>7, <1>8, FS_Injection
<1>10. QED
  BY <1>5, <1>6, <1>9 DEF Surjection

(* The i-th of n * c postings belongs to one of c logs.                     *)
LEMMA Quotient ==
  ASSUME NEW n \in Nat \ {0}, NEW c \in Nat, NEW i \in 1..(n * c)
  PROVE  (i - 1) \div n \in 0..(c - 1)
<1> DEFINE q == (i - 1) \div n
           r == (i - 1) % n
<1>1. i \in Nat /\ i >= 1 /\ i <= n * c
  BY n * c \in Nat
<1>2. q \in Nat /\ r \in Nat /\ i - 1 = n * q + r
  BY <1>1
<1> HIDE DEF q, r
<1>3. ~(q >= c)
  <2> SUFFICES ASSUME q >= c PROVE FALSE
    OBVIOUS
  <2>1. n * q >= n * c
    BY <1>2
  <2>2. n * q \in Nat /\ n * c \in Nat
    BY <1>2
  <2>3. QED
    BY <1>1, <1>2, <2>1, <2>2
<1>4. QED
  BY <1>2, <1>3 DEF q

LEMMA QuotientOfMultiple ==
  ASSUME NEW n \in Nat \ {0}, NEW p \in Nat
  PROVE  (n * p) \div n = p
<1> DEFINE q == (n * p) \div n
           r == (n * p) % n
<1>1. n * p \in Nat
  OBVIOUS
<1>2. q \in Nat /\ r \in 0..(n - 1) /\ n * p = n * q + r
  BY <1>1
<1> HIDE DEF q, r
<1>3. n * (p - q) = r /\ p - q \in Int
  BY <1>2
<1>4. CASE p - q >= 1
  <2>1. n * (p - q) >= n * 1
    BY <1>3, <1>4
  <2>2. QED
    BY <1>2, <1>3, <2>1
<1>5. CASE p - q <= -1
  <2>1. n * (p - q) <= n * (-1)
    BY <1>3, <1>5
  <2>2. QED
    BY <1>2, <1>3, <2>1
<1>6. QED
  BY <1>2, <1>3, <1>4, <1>5 DEF q
-----------------------------------------------------------------------------
(* What a transaction sees and does, typed.                                 *)
Txn == [logs : [Row -> Entry], jira : Server, stray : SUBSET Nat, kept : SUBSET Nat,
        ok : BOOLEAN, bad : Nat]

(* A transaction has these fields and no others.                           *)
Whole(x) ==
  x = [logs |-> x.logs, jira |-> x.jira, stray |-> x.stray, kept |-> x.kept,
       ok |-> x.ok, bad |-> x.bad]

LEMMA TxnIs ==
  ASSUME NEW x, Whole(x), x.logs \in [Row -> Entry], x.jira \in Server, x.stray \in SUBSET Nat,
         x.kept \in SUBSET Nat, x.ok \in BOOLEAN, x.bad \in Nat
  PROVE  x \in Txn
BY DEF Txn, Whole

LEMMA TxnWhole == \A x \in Txn : Whole(x)
BY DEF Txn, Whole

LEMMA TxnFields ==
  ASSUME NEW x \in Txn
  PROVE  /\ x = [logs |-> x.logs, jira |-> x.jira, stray |-> x.stray, kept |-> x.kept,
                 ok |-> x.ok, bad |-> x.bad]
         /\ x.logs \in [Row -> Entry] /\ x.jira \in Server /\ x.stray \in SUBSET Nat
         /\ x.kept \in SUBSET Nat /\ x.ok \in BOOLEAN /\ x.bad \in Nat
BY DEF Txn

(* Added, field by field.                                                   *)
AddedParts(x, y, K, P, n) ==
  /\ y.logs = [k \in Row |->
          IF k \in P
          THEN Linked(x.logs[k], Len(x.jira) + n * Place(P, k) + 1, P = K \/ n > 1)
          ELSE x.logs[k]]
  /\ y.jira = x.jira \o [i \in 1..(n * Cardinality(P)) |->
              Posting(x.logs, CHOOSE k \in P : Place(P, k) = (i - 1) \div n)]
  /\ y.stray = x.stray \cup
          {s \in (Len(x.jira) + 1)..(Len(x.jira) +
              Len([i \in 1..(n * Cardinality(P)) |->
              Posting(x.logs, CHOOSE k \in P : Place(P, k) = (i - 1) \div n)])) :
             \A k \in P : s # Len(x.jira) + n * Place(P, k) + 1}
  /\ y.kept = x.kept /\ y.ok = (P = K) /\ y.bad = x.bad + IF P = K THEN 0 ELSE 1
  /\ y = [logs |-> y.logs, jira |-> y.jira, stray |-> y.stray, kept |-> y.kept,
          ok |-> y.ok, bad |-> y.bad]

LEMMA AddedFields ==
  ASSUME NEW x \in Txn, NEW K \in SUBSET Row, NEW P \in SUBSET K, NEW n \in Nat \ {0},
         NEW y, y = Added(x, K, P, n)
  PROVE  AddedParts(x, y, K, P, n)
<1>1. x = [logs |-> x.logs, jira |-> x.jira, stray |-> x.stray, kept |-> x.kept,
           ok |-> x.ok, bad |-> x.bad]
  BY TxnFields
<1>2. QED
  BY <1>1 DEF Added, AddedParts

(* Updated, field by field.                                                 *)
UpdatedParts(x, y, K, O) ==
  /\ y.logs = [k \in Row |-> IF k \in K THEN Marked(x.logs[k], k \notin O) ELSE x.logs[k]]
  /\ y.jira = [s \in DOMAIN x.jira |->
        IF \E k \in O : x.logs[k].id = s
        THEN Told(x.jira[s], x.logs[CHOOSE k \in O : x.logs[k].id = s].text) ELSE x.jira[s]]
  /\ y.stray = x.stray /\ y.kept = x.kept /\ y.ok = x.ok
  /\ y.bad = x.bad + Cardinality({k \in K \ O : Reachable(x, k)})
  /\ y = [logs |-> y.logs, jira |-> y.jira, stray |-> y.stray, kept |-> y.kept,
          ok |-> y.ok, bad |-> y.bad]

LEMMA UpdatedFields ==
  ASSUME NEW x \in Txn, NEW K \in SUBSET Row, NEW O \in SUBSET K,
         NEW y, y = Updated(x, K, O)
  PROVE  UpdatedParts(x, y, K, O)
<1>1. x = [logs |-> x.logs, jira |-> x.jira, stray |-> x.stray, kept |-> x.kept,
           ok |-> x.ok, bad |-> x.bad]
  BY TxnFields
<1>2. QED
  BY <1>1 DEF Updated, UpdatedParts

(* Whatever is not named stays as it is.                                   *)
SameLog(l, m) == m.state = l.state /\ m.issue = l.issue /\ m.text = l.text
                   /\ m.captured = l.captured /\ m.adrift = l.adrift

(* The writes of a log, field by field.                                     *)
LEMMA LinkedIs ==
  ASSUME NEW l \in Log, NEW s \in Nat, NEW marked \in BOOLEAN, NEW m, m = Linked(l, s, marked)
  PROVE  /\ m \in Log /\ SameLog(l, m) /\ m.id = s /\ m.sent = l.text
BY DEF Log, Mark, Linked, SameLog

LEMMA MarkedIs ==
  ASSUME NEW l \in Log, NEW late \in BOOLEAN, NEW m, m = Marked(l, late)
  PROVE  /\ m \in Log /\ SameLog(l, m) /\ m.late = late /\ m.id = l.id
         /\ m.sent = IF late THEN l.sent ELSE l.text
BY DEF Log, Mark, Marked, SameLog

LEMMA ToldIs ==
  ASSUME NEW w \in WorkLog, NEW t \in Text, NEW v, v = Told(w, t)
  PROVE  /\ v \in WorkLog /\ v.new /\ v.issue = w.issue /\ v.origin = w.origin
         /\ v.foreign = w.foreign /\ v.text = t
BY DEF WorkLog, Told

LEMMA PostingIs ==
  ASSUME NEW L, NEW k \in Row, L[k] \in Log, NEW w, w = Posting(L, k)
  PROVE  /\ w \in WorkLog /\ w.new /\ w.issue = L[k].issue /\ w.origin = k /\ w.text = L[k].text
BY DEF WorkLog, Posting, Log

(* What add_time_logs leaves: each new work log was posted for a log, that *)
(* holds it or forgot it.                                                  *)
AddedIs(x, y, K) ==
  \E P \in SUBSET K :
    /\ y \in Txn
    /\ y.ok = (P = K) /\ y.kept = x.kept
    /\ Len(x.jira) <= Len(y.jira)
    /\ \A s \in 1..Len(x.jira) : y.jira[s] = x.jira[s]
    /\ x.stray \subseteq y.stray /\ y.stray \ x.stray \subseteq (Len(x.jira) + 1)..Len(y.jira)
    /\ \A s \in (Len(x.jira) + 1)..Len(y.jira) :
         \E k \in P : /\ y.jira[s] = Posting(x.logs, k)
                      /\ s \in y.stray \/ y.logs[k].id = s
    /\ \A k \in Row \ P : y.logs[k] = x.logs[k]
    /\ \A k \in P :
         /\ y.logs[k] \in Log /\ SameLog(x.logs[k], y.logs[k])
         /\ y.logs[k].id \in (Len(x.jira) + 1)..Len(y.jira)
         /\ y.logs[k].sent = x.logs[k].text
         /\ y.jira[y.logs[k].id] = Posting(x.logs, k)
    /\ \A k, m \in P : y.logs[k].id = y.logs[m].id => k = m

LEMMA AddedHolds ==
  ASSUME NEW x \in Txn, NEW K \in SUBSET Row, NEW P \in SUBSET K, NEW n \in Nat \ {0},
         \A k \in K : x.logs[k] \in Log,
         NEW y, y = Added(x, K, P, n)
  PROVE  AddedIs(x, y, K)
<1>0. AddedParts(x, y, K, P, n)
  BY AddedFields
<1> DEFINE c == Cardinality(P)
           a == Len(x.jira)
           place == [k \in P |-> Cardinality({m \in P : m < k})]
           first == [k \in P |-> a + n * place[k] + 1]
           of(i) == CHOOSE k \in P : Place(P, k) = (i - 1) \div n
           post == [i \in 1..(n * c) |-> Posting(x.logs, of(i))]
<1>1. /\ y.logs = [k \in Row |->
              IF k \in P
              THEN Linked(x.logs[k], a + n * Place(P, k) + 1, P = K \/ n > 1)
              ELSE x.logs[k]]
      /\ y.jira = x.jira \o post
      /\ y.stray = x.stray \cup {s \in (a + 1)..(a + Len(post)) :
                                 \A k \in P : s # a + n * Place(P, k) + 1}
      /\ y.kept = x.kept /\ y.ok = (P = K) /\ y.bad = x.bad + IF P = K THEN 0 ELSE 1
      /\ y = [logs |-> y.logs, jira |-> y.jira, stray |-> y.stray, kept |-> y.kept,
              ok |-> y.ok, bad |-> y.bad]
  BY <1>0 DEF AddedParts
<1>2. /\ x.logs \in [Row -> Entry] /\ x.jira \in Server /\ x.stray \in SUBSET Nat
      /\ x.kept \in SUBSET Nat /\ x.ok \in BOOLEAN /\ x.bad \in Nat
  BY TxnFields
<1>3. c \in Nat /\ a \in Nat /\ P \in SUBSET Row
  <2>1. P \in SUBSET Row
    OBVIOUS
  <2>2. QED
    BY <1>2, <2>1, FiniteRows DEF Server
<1>4. /\ place \in [P -> 0..(c - 1)]
      /\ \A k, m \in P : place[k] = place[m] => k = m
      /\ \A p \in 0..(c - 1) : \E k \in P : place[k] = p
  <2>1. \A f : f = [k \in P |-> Cardinality({m \in P : m < k})] =>
          /\ f \in [P -> 0..(Cardinality(P) - 1)]
          /\ \A k, m \in P : f[k] = f[m] => k = m
          /\ \A p \in 0..(Cardinality(P) - 1) : \E k \in P : f[k] = p
    BY <1>3, Places
  <2>2. QED
    BY <2>1
<1>5. \A k \in P : Place(P, k) = place[k] /\ first[k] = a + n * place[k] + 1
  BY DEF Place
<1>6. \A i \in 1..(n * c) : (i - 1) \div n \in 0..(c - 1)
  BY <1>3, Quotient
<1>7. ASSUME NEW i \in 1..(n * c)
      PROVE  of(i) \in P /\ place[of(i)] = (i - 1) \div n
  <2> DEFINE p == (i - 1) \div n
  <2>1. PICK k \in P : place[k] = p
    BY <1>4, <1>6
  <2> HIDE DEF p, place
  <2>2. \E m \in P : Place(P, m) = p
    BY <1>5, <2>1
  <2>3. of(i) \in P /\ Place(P, of(i)) = p
    BY <2>2 DEF p
  <2>4. QED
    BY <1>5, <2>3 DEF p
<1>8. n * c \in Nat /\ Len(post) = n * c /\ DOMAIN post = 1..(n * c)
  BY <1>3
<1>9. \A i \in 1..(n * c) : Posting(x.logs, of(i)) \in WorkLog
  <2> SUFFICES ASSUME NEW i \in 1..(n * c) PROVE Posting(x.logs, of(i)) \in WorkLog
    OBVIOUS
  <2> HIDE DEF of
  <2>1. of(i) \in Row /\ x.logs[of(i)] \in Log
    BY <1>7
  <2>2. QED
    BY <2>1, PostingIs
<1>10. post \in Server
  <2> HIDE DEF of
  <2>1. QED
    BY <1>8, <1>9 DEF Server
<1> DEFINE W == WorkLog \cup {Gone}
<1>11. y.jira \in Server /\ Len(y.jira) = a + n * c
  <2>1. x.jira \in Seq(W) /\ post \in Seq(W)
    BY <1>2, <1>10 DEF Server
  <2> HIDE DEF post, W
  <2>2. x.jira \o post \in Seq(W) /\ Len(x.jira \o post) = Len(x.jira) + Len(post)
    BY <2>1, ConcatProperties
  <2>3. QED
    BY <1>1, <1>8, <2>2 DEF Server, W
<1>12. /\ \A s \in 1..a : y.jira[s] = x.jira[s]
       /\ \A s \in (a + 1)..(a + n * c) : y.jira[s] = Posting(x.logs, of(s - a))
  <2>1. x.jira \in Seq(W) /\ post \in Seq(W)
    BY <1>2, <1>10 DEF Server
  <2>2. \A i \in 1..(n * c) : post[i] = Posting(x.logs, of(i))
    OBVIOUS
  <2> HIDE DEF post, W, of
  <2>3. \A s \in 1..(Len(x.jira) + Len(post)) :
          (x.jira \o post)[s] = IF s <= Len(x.jira) THEN x.jira[s] ELSE post[s - Len(x.jira)]
    BY <2>1, ConcatProperties
  <2>4. \A s \in 1..a : y.jira[s] = x.jira[s]
    BY <1>1, <1>3, <1>8, <2>3
  <2>5. ASSUME NEW s \in (a + 1)..(a + n * c) PROVE y.jira[s] = Posting(x.logs, of(s - a))
    <3>1. s - a \in 1..(n * c) /\ s \in 1..(Len(x.jira) + Len(post)) /\ ~(s <= a)
      BY <1>3, <1>8
    <3>2. QED
      BY <1>1, <2>2, <2>3, <3>1
  <2>6. QED
    BY <2>4, <2>5
<1>13. ASSUME NEW k \in P
       PROVE  /\ first[k] \in (a + 1)..(a + n * c) /\ first[k] \in Nat
              /\ first[k] - a \in 1..(n * c) /\ (first[k] - a - 1) \div n = place[k]
  <2> HIDE DEF place
  <2>1. place[k] \in Nat /\ place[k] <= c - 1
    BY <1>3, <1>4
  <2>2. n * place[k] \in Nat /\ n * (c - 1) = n * c - n /\ n * place[k] <= n * (c - 1)
    BY <1>3, <2>1
  <2>3. (n * place[k]) \div n = place[k]
    BY <2>1, QuotientOfMultiple
  <2>4. first[k] = a + n * place[k] + 1
    OBVIOUS
  <2> HIDE DEF first
  <2>5. first[k] - a - 1 = n * place[k]
    BY <1>3, <2>2, <2>4
  <2>6. first[k] \in (a + 1)..(a + n * c) /\ first[k] \in Nat /\ first[k] - a \in 1..(n * c)
    <3> DEFINE p == n * place[k]
               q == n * c
    <3>1. p \in Nat /\ q \in Nat /\ p <= q - n /\ a \in Nat /\ first[k] = a + p + 1
      BY <1>3, <1>8, <2>2, <2>4
    <3> HIDE DEF p, q
    <3>2. first[k] \in (a + 1)..(a + q) /\ first[k] \in Nat /\ first[k] - a \in 1..q
      BY <3>1
    <3>3. QED
      BY <3>2 DEF q
  <2>7. QED
    BY <2>3, <2>5, <2>6
<1>14. \A k \in P : of(first[k] - a) = k
  <2> SUFFICES ASSUME NEW k \in P PROVE of(first[k] - a) = k
    OBVIOUS
  <2>1. /\ of(first[k] - a) \in P
        /\ place[of(first[k] - a)] = (first[k] - a - 1) \div n
    <3> HIDE DEF of, first, place
    <3>1. QED
      BY <1>7, <1>13
  <2> HIDE DEF of, first, place
  <2>2. QED
    BY <1>4, <1>13, <2>1
<1>15. \A k, m \in P : first[k] = first[m] => k = m
  <2> HIDE DEF of, first, place
  <2>1. QED
    BY <1>14
<1>16. ASSUME NEW k \in P
       PROVE  /\ y.logs[k] \in Log /\ SameLog(x.logs[k], y.logs[k])
             /\ y.logs[k].id = first[k] /\ y.logs[k].sent = x.logs[k].text
  <2>1. y.logs[k] = Linked(x.logs[k], first[k], P = K \/ n > 1) /\ x.logs[k] \in Log
    BY <1>1, <1>3, <1>5
  <2>2. first[k] \in Nat /\ (P = K \/ n > 1) \in BOOLEAN
    BY <1>13
  <2> DEFINE marked == P = K \/ n > 1
             id == first[k]
  <2> HIDE DEF first, marked, id
  <2>3. y.logs[k] = Linked(x.logs[k], id, marked) /\ id \in Nat /\ marked \in BOOLEAN
          /\ x.logs[k] \in Log
    BY <2>1, <2>2 DEF marked, id
  <2>4. /\ y.logs[k] \in Log /\ SameLog(x.logs[k], y.logs[k]) /\ y.logs[k].id = id
        /\ y.logs[k].sent = x.logs[k].text
    BY <2>3, LinkedIs
  <2>5. QED
    BY <2>4 DEF id
<1>17. \A k \in Row \ P : y.logs[k] = x.logs[k]
  BY <1>1
<1>18. y.logs \in [Row -> Entry]
  <2>1. \A k \in Row : y.logs[k] \in Entry
    BY <1>2, <1>16, <1>17 DEF Entry
  <2>2. DOMAIN y.logs = Row /\ y.logs = [k \in Row |-> y.logs[k]]
    BY <1>1
  <2>3. QED
    BY <2>1, <2>2
<1>19. /\ y.stray \in SUBSET Nat /\ x.stray \subseteq y.stray
       /\ y.stray \ x.stray \subseteq (a + 1)..(a + n * c)
       /\ \A s \in (a + 1)..(a + n * c) : s \in y.stray \/ \E k \in P : s = first[k]
  <2> HIDE DEF first, place, post
  <2>1. y.stray = x.stray \cup {s \in (a + 1)..(a + n * c) : \A k \in P : s # first[k]}
    <3>1. \A k \in P : a + n * Place(P, k) + 1 = first[k]
      BY <1>5
    <3>2. y.stray = x.stray \cup {s \in (a + 1)..(a + n * c) :
                                  \A k \in P : s # a + n * Place(P, k) + 1}
      BY <1>1, <1>8
    <3>3. QED
      BY <3>1, <3>2
  <2>2. (a + 1)..(a + n * c) \subseteq Nat
    BY <1>3
  <2>3. QED
    BY <1>2, <2>1, <2>2
<1>20. y \in Txn
  <2> HIDE DEF first, place, post
  <2>1. y.bad \in Nat /\ y.ok \in BOOLEAN
    BY <1>1, <1>2
  <2>2. QED
    BY <1>1, <1>2, <1>11, <1>18, <1>19, <2>1 DEF Txn
<1>21. ASSUME NEW s \in (a + 1)..(a + n * c)
       PROVE  \E k \in P : /\ y.jira[s] = Posting(x.logs, k)
                           /\ s \in y.stray \/ y.logs[k].id = s
  <2> HIDE DEF first, place, post, of
  <2>1. CASE s \in y.stray
    <3>1. s - a \in 1..(n * c)
      BY <1>3, <1>8
    <3>2. of(s - a) \in P
      BY <1>7, <3>1
    <3>3. QED
      BY <1>12, <2>1, <3>2
  <2>2. CASE s \notin y.stray
    <3>1. PICK k \in P : s = first[k]
      BY <1>19, <2>2
    <3>2. QED
      BY <1>12, <1>14, <1>16, <3>1
  <2>3. QED
    BY <2>1, <2>2
<1>22. \A k \in P : /\ y.logs[k].id \in (a + 1)..(a + n * c)
                    /\ y.jira[y.logs[k].id] = Posting(x.logs, k)
  <2> SUFFICES ASSUME NEW k \in P
               PROVE  /\ y.logs[k].id \in (a + 1)..(a + n * c)
                      /\ y.jira[y.logs[k].id] = Posting(x.logs, k)
    OBVIOUS
  <2> HIDE DEF first, place, post, of
  <2>1. y.logs[k].id = first[k] /\ first[k] \in (a + 1)..(a + n * c)
    BY <1>13, <1>16
  <2>2. of(first[k] - a) = k
    BY <1>14
  <2>3. y.jira[first[k]] = Posting(x.logs, of(first[k] - a))
    BY <1>12, <2>1
  <2>4. QED
    BY <2>1, <2>2, <2>3
<1>23. \A k, m \in P : y.logs[k].id = y.logs[m].id => k = m
  <2> HIDE DEF first, place, post, of
  <2>1. QED
    BY <1>15, <1>16
<1>24. Len(x.jira) <= Len(y.jira) /\ a + n * c = Len(y.jira)
  BY <1>3, <1>8, <1>11
<1> HIDE DEF first, place, post, of
<1>25. QED
  BY <1>1, <1>12, <1>16, <1>17, <1>19, <1>20, <1>21, <1>22, <1>23, <1>24 DEF AddedIs
-----------------------------------------------------------------------------
(* An entry of the server is kept, deleted, or has changed.                *)
Renewed(w, v) ==
  /\ w # Gone /\ v # Gone /\ v.new /\ v.issue = w.issue /\ v.origin = w.origin
  /\ w.foreign => v.foreign

ServerStep(w, v) == v = w \/ v = Gone \/ Renewed(w, v)

(* No other log of O is tied to the same work log.                         *)
Alone(x, O, k) == \A m \in O : x.logs[m].id = x.logs[k].id => m = k

(* What update_time_logs leaves: those in O are up to date, and the others *)
(* are late.                                                               *)
UpdatedIs(x, y, K) ==
  \E O \in SUBSET K :
    /\ y \in Txn /\ y.ok = x.ok /\ y.kept = x.kept /\ y.stray = x.stray
    /\ Len(y.jira) = Len(x.jira)
    /\ \A s \in 1..Len(x.jira) :
         \/ y.jira[s] = x.jira[s]
         \/ Renewed(x.jira[s], y.jira[s]) /\ \E k \in O : x.logs[k].id = s
    /\ \A k \in O : Alone(x, O, k) => y.jira[x.logs[k].id].text = x.logs[k].text
    /\ \A k \in Row \ K : y.logs[k] = x.logs[k]
    /\ \A k \in K :
         /\ y.logs[k] \in Log /\ SameLog(x.logs[k], y.logs[k])
         /\ y.logs[k].id = x.logs[k].id /\ y.logs[k].late = (k \notin O)
         /\ y.logs[k].sent = IF k \in O THEN x.logs[k].text ELSE x.logs[k].sent

LEMMA UpdatedHolds ==
  ASSUME NEW x \in Txn, NEW K \in SUBSET Row, NEW O \in SUBSET K,
         \A k \in K : x.logs[k] \in Log /\ x.logs[k].id \in 1..Len(x.jira),
         \A k \in O : Reachable(x, k),
         NEW y, y = Updated(x, K, O)
  PROVE  UpdatedIs(x, y, K)
<1>0. UpdatedParts(x, y, K, O)
  BY UpdatedFields
<1> DEFINE text(s) == x.logs[CHOOSE k \in O : x.logs[k].id = s].text
<1>1. /\ y.logs = [k \in Row |-> IF k \in K THEN Marked(x.logs[k], k \notin O) ELSE x.logs[k]]
      /\ y.jira = [s \in DOMAIN x.jira |->
               IF \E k \in O : x.logs[k].id = s THEN Told(x.jira[s], text(s)) ELSE x.jira[s]]
      /\ y.stray = x.stray /\ y.kept = x.kept /\ y.ok = x.ok
      /\ y.bad = x.bad + Cardinality({k \in K \ O : Reachable(x, k)})
      /\ y = [logs |-> y.logs, jira |-> y.jira, stray |-> y.stray, kept |-> y.kept,
              ok |-> y.ok, bad |-> y.bad]
  BY <1>0 DEF UpdatedParts
<1>2. /\ x.logs \in [Row -> Entry] /\ x.jira \in Server /\ x.stray \in SUBSET Nat
      /\ x.kept \in SUBSET Nat /\ x.ok \in BOOLEAN /\ x.bad \in Nat
  BY TxnFields
<1>3. /\ DOMAIN x.jira = 1..Len(x.jira) /\ Len(x.jira) \in Nat
      /\ \A s \in 1..Len(x.jira) : x.jira[s] \in WorkLog \cup {Gone}
  BY <1>2 DEF Server
<1>4. \A k \in O : /\ x.logs[k].id \in 1..Len(x.jira)
                   /\ x.jira[x.logs[k].id] # Gone /\ x.jira[x.logs[k].id] \in WorkLog
  BY <1>3 DEF Reachable
<1>5. ASSUME NEW s \in 1..Len(x.jira), \E k \in O : x.logs[k].id = s
      PROVE  /\ y.jira[s] \in WorkLog /\ y.jira[s] # Gone
             /\ Renewed(x.jira[s], y.jira[s]) /\ y.jira[s].text = text(s)
  <2>1. text(s) \in Text
    <3>1. PICK k \in O : x.logs[k].id = s
      BY <1>5
    <3>2. \A m \in O : x.logs[m].text \in Text
      BY DEF Log
    <3>3. QED
      BY <3>1, <3>2
  <2>2. y.jira[s] = Told(x.jira[s], text(s)) /\ x.jira[s] \in WorkLog
    BY <1>1, <1>3, <1>4, <1>5
  <2> HIDE DEF text
  <2>3. y.jira[s] \in WorkLog /\ y.jira[s].new /\ y.jira[s].issue = x.jira[s].issue
          /\ y.jira[s].origin = x.jira[s].origin /\ y.jira[s].foreign = x.jira[s].foreign
          /\ y.jira[s].text = text(s)
    BY <2>1, <2>2, ToldIs
  <2>4. QED
    BY <2>2, <2>3, Constants DEF Renewed
<1>6. \A s \in 1..Len(x.jira) : (~\E k \in O : x.logs[k].id = s) => y.jira[s] = x.jira[s]
  BY <1>1, <1>3
<1>7. y.jira \in Server /\ Len(y.jira) = Len(x.jira)
  <2>1. \A s \in 1..Len(x.jira) : y.jira[s] \in WorkLog \cup {Gone}
    BY <1>3, <1>5, <1>6
  <2>2. DOMAIN y.jira = 1..Len(x.jira) /\ y.jira = [s \in 1..Len(x.jira) |-> y.jira[s]]
    BY <1>1, <1>3
  <2>3. y.jira \in [1..Len(x.jira) -> WorkLog \cup {Gone}]
    BY <2>1, <2>2
  <2>4. QED
    BY <1>3, <2>2, <2>3 DEF Server
<1>8. ASSUME NEW k \in K
      PROVE  /\ y.logs[k] \in Log /\ SameLog(x.logs[k], y.logs[k])
             /\ y.logs[k].id = x.logs[k].id /\ y.logs[k].late = (k \notin O)
             /\ y.logs[k].sent = IF k \in O THEN x.logs[k].text ELSE x.logs[k].sent
  <2> DEFINE late == k \notin O
  <2>1. y.logs[k] = Marked(x.logs[k], late) /\ x.logs[k] \in Log
    BY <1>1
  <2>2. late \in BOOLEAN
    OBVIOUS
  <2> HIDE DEF late
  <2>3. y.logs[k] \in Log /\ SameLog(x.logs[k], y.logs[k])
          /\ y.logs[k].id = x.logs[k].id /\ y.logs[k].late = late
          /\ y.logs[k].sent = IF late THEN x.logs[k].sent ELSE x.logs[k].text
    BY <2>1, <2>2, MarkedIs
  <2>4. QED
    BY <2>3 DEF late
<1>9. \A k \in Row \ K : y.logs[k] = x.logs[k]
  BY <1>1
<1>10. y \in Txn
  <2>1. Cardinality({k \in K \ O : Reachable(x, k)}) \in Nat
    BY FiniteRows
  <2>2. y.bad \in Nat
    BY <1>1, <1>2, <2>1
  <2>3. y.logs \in [Row -> Entry]
    <3>1. \A k \in Row : y.logs[k] \in Entry
      BY <1>2, <1>8, <1>9 DEF Entry
    <3>2. DOMAIN y.logs = Row /\ y.logs = [k \in Row |-> y.logs[k]]
      BY <1>1
    <3>3. QED
      BY <3>1, <3>2
  <2>4. QED
    BY <1>1, <1>2, <1>7, <2>2, <2>3 DEF Txn
<1>11. ASSUME NEW k \in O, Alone(x, O, k) PROVE y.jira[x.logs[k].id].text = x.logs[k].text
  <2>1. (CHOOSE m \in O : x.logs[m].id = x.logs[k].id) = k
    BY <1>11 DEF Alone
  <2>2. text(x.logs[k].id) = x.logs[k].text
    BY <2>1
  <2>3. x.logs[k].id \in 1..Len(x.jira)
    BY <1>4
  <2> HIDE DEF text
  <2>4. QED
    BY <1>5, <2>2, <2>3
<1>12. \A s \in 1..Len(x.jira) :
         \/ y.jira[s] = x.jira[s]
         \/ Renewed(x.jira[s], y.jira[s]) /\ \E k \in O : x.logs[k].id = s
  BY <1>5, <1>6
<1> HIDE DEF text
<1>13. QED
  BY <1>1, <1>7, <1>8, <1>9, <1>10, <1>11, <1>12 DEF UpdatedIs
-----------------------------------------------------------------------------
(* What a transaction may have done to row k.                              *)
RowMoved(x, k) ==
  /\ x.logs[k] = None => logs[k] = None
  /\ logs[k] = Gone => x.logs[k] = Gone
  /\ logs[k] = None /\ x.logs[k] # None => k \in Unused
  /\ IsRow(logs[k]) /\ logs[k].id # 0 =>
       \/ Holds(x.logs[k], logs[k].id)
       \/ x.jira[logs[k].id] = Gone
       \/ x.logs[k] = Gone /\ logs[k].id \in x.kept
  /\ IsRow(x.logs[k]) /\ x.logs[k].id # 0 =>
       x.logs[k].id \in Posted(x) \/ Holds(logs[k], x.logs[k].id)

(* What is required of each row of a transaction.                           *)
RowRight(x, k) == IsRow(x.logs[k]) => Tied(x.logs[k], x.jira)

MarkRight(x, k) == IsRow(x.logs[k]) => MarkTrue(x.logs[k], x.jira)

(* A transaction as far as it has got.                                     *)
Sound(x) ==
  /\ x \in Txn
  /\ Len(jira) <= Len(x.jira)
  /\ \A s \in DOMAIN jira : ServerStep(jira[s], x.jira[s])
  /\ \A s \in Posted(x) : x.jira[s] # Gone /\ x.jira[s].new
  /\ x.stray \subseteq Posted(x) /\ x.kept \subseteq DOMAIN jira
  /\ \A k \in Row : RowMoved(x, k) /\ RowRight(x, k) /\ MarkRight(x, k)
  /\ \A k, m \in Row, s \in Posted(x) : Holds(x.logs[k], s) /\ Holds(x.logs[m], s) => k = m
  /\ \A s \in Posted(x) \ x.stray : Holds(x.logs[x.jira[s].origin], s)

(* The rows are there as before and say the same.                          *)
SameRows(x, y) ==
  \A k \in Row :
    /\ IsRow(y.logs[k]) <=> IsRow(x.logs[k])
    /\ ~IsRow(x.logs[k]) => y.logs[k] = x.logs[k]
    /\ IsRow(x.logs[k]) => /\ SameLog(x.logs[k], y.logs[k])
                           /\ x.logs[k].id # 0 => y.logs[k].id = x.logs[k].id

LEMMA SoundFields ==
  ASSUME TypeOK, NEW x, Sound(x)
  PROVE  /\ x.logs \in [Row -> Entry] /\ x.jira \in Server /\ x.stray \in SUBSET Nat
         /\ x.kept \in SUBSET Nat /\ x.ok \in BOOLEAN /\ x.bad \in Nat
         /\ Len(jira) \in Nat /\ DOMAIN jira = 1..Len(jira)
         /\ Len(x.jira) \in Nat /\ DOMAIN x.jira = 1..Len(x.jira) /\ Len(jira) <= Len(x.jira)
         /\ Posted(x) = (Len(jira) + 1)..Len(x.jira)
         /\ \A k \in Row : IsRow(x.logs[k]) <=> x.logs[k] \in Log
         /\ \A s \in 1..Len(x.jira) : x.jira[s] = Gone \/ x.jira[s] \in WorkLog
<1>1. x \in Txn /\ Len(jira) <= Len(x.jira)
  BY DEF Sound
<1>2. x.logs \in [Row -> Entry] /\ x.jira \in Server /\ x.stray \in SUBSET Nat
      /\ x.kept \in SUBSET Nat /\ x.ok \in BOOLEAN /\ x.bad \in Nat
  BY <1>1, TxnFields
<1>3. \A k \in Row : IsRow(x.logs[k]) <=> x.logs[k] \in Log
  BY <1>2, Constants DEF IsRow, Entry
<1>4. jira \in Server
  BY DEF TypeOK, Server
<1>5. QED
  BY <1>1, <1>2, <1>3, <1>4 DEF Server, Posted

(* What this log says was sent, or could not be.                           *)
Current(x, k) ==
  x.logs[k].id = 0 \/ x.logs[k].late \/ x.logs[k].sent = x.logs[k].text

(* Two logs of a transaction hold a work log only if it was raced.          *)
LEMMA OneHolder ==
  ASSUME TypeOK, Single, NEW x, Sound(x), NEW k \in Row, NEW m \in Row, NEW s, s # 0,
         Holds(x.logs[k], s), Holds(x.logs[m], s)
  PROVE  k = m \/ s \in raced
<1>1. RowMoved(x, k) /\ RowMoved(x, m) /\ Tied(x.logs[k], x.jira)
  BY DEF Sound, RowRight, Holds
<1>2. CASE s \in Posted(x)
  BY <1>2 DEF Sound
<1>3. CASE s \notin Posted(x)
  <2>1. Holds(logs[k], s) /\ Holds(logs[m], s)
    BY <1>1, <1>3 DEF RowMoved, Holds
  <2>2. s \in DOMAIN jira
    BY <2>1 DEF TypeOK, Rows, Holds, IsRow
  <2>3. QED
    BY <2>1, <2>2 DEF Single
<1>4. QED
  BY <1>2, <1>3

(* Updates keep a transaction sound.                                        *)
LEMMA UpdateSound ==
  ASSUME TypeOK, Single, NEW x, Sound(x), NEW K \in SUBSET Row, NEW y, UpdatedIs(x, y, K),
         \A k \in K : x.logs[k] \in Log /\ x.logs[k].id \in 1..Len(x.jira)
  PROVE  /\ Sound(y) /\ SameRows(x, y) /\ y.ok = x.ok
         /\ \A k \in K : Current(y, k)
         /\ \A k \in Row : IsRow(x.logs[k]) /\ Current(x, k) => Current(y, k)
<1>1. PICK O \in SUBSET K :
    /\ y \in Txn /\ y.ok = x.ok /\ y.kept = x.kept /\ y.stray = x.stray
    /\ Len(y.jira) = Len(x.jira)
    /\ \A s \in 1..Len(x.jira) :
         \/ y.jira[s] = x.jira[s]
         \/ Renewed(x.jira[s], y.jira[s]) /\ \E k \in O : x.logs[k].id = s
    /\ \A k \in O : Alone(x, O, k) => y.jira[x.logs[k].id].text = x.logs[k].text
    /\ \A k \in Row \ K : y.logs[k] = x.logs[k]
    /\ \A k \in K :
         /\ y.logs[k] \in Log /\ SameLog(x.logs[k], y.logs[k])
         /\ y.logs[k].id = x.logs[k].id /\ y.logs[k].late = (k \notin O)
         /\ y.logs[k].sent = IF k \in O THEN x.logs[k].text ELSE x.logs[k].sent
  BY DEF UpdatedIs
<1>2. /\ Len(jira) \in Nat /\ DOMAIN jira = 1..Len(jira)
      /\ Len(x.jira) \in Nat /\ DOMAIN x.jira = 1..Len(x.jira) /\ Len(jira) <= Len(x.jira)
      /\ Posted(x) = (Len(jira) + 1)..Len(x.jira)
      /\ \A k \in Row : IsRow(x.logs[k]) <=> x.logs[k] \in Log
  BY SoundFields
<1>3. Posted(y) = Posted(x) /\ Posted(x) \subseteq 1..Len(x.jira) /\ DOMAIN y.jira = 1..Len(x.jira)
  <2>1. y.jira \in Server
    BY <1>1, TxnFields
  <2>2. QED
    BY <1>1, <1>2, <2>1 DEF Posted, Server
<1>4. \A k \in Row : /\ IsRow(y.logs[k]) <=> IsRow(x.logs[k])
                     /\ ~IsRow(x.logs[k]) => y.logs[k] = x.logs[k]
                     /\ IsRow(x.logs[k]) => SameLog(x.logs[k], y.logs[k]) /\ y.logs[k].id = x.logs[k].id
  <2>1. \A k \in K : IsRow(x.logs[k]) /\ IsRow(y.logs[k])
    BY <1>1, Constants DEF IsRow
  <2>2. QED
    BY <1>1, <2>1 DEF SameLog
<1>5. SameRows(x, y)
  BY <1>4 DEF SameRows
<1>6. \A k \in Row : \A s : Holds(y.logs[k], s) <=> Holds(x.logs[k], s)
  BY <1>4 DEF Holds
<1>7. \A s \in 1..Len(x.jira) : /\ y.jira[s] = Gone <=> x.jira[s] = Gone
                                /\ y.jira[s] = x.jira[s] \/ Renewed(x.jira[s], y.jira[s])
  BY <1>1 DEF Renewed
<1>8. \A s \in DOMAIN jira : ServerStep(jira[s], y.jira[s])
  <2> SUFFICES ASSUME NEW s \in DOMAIN jira PROVE ServerStep(jira[s], y.jira[s])
    OBVIOUS
  <2>1. s \in 1..Len(x.jira) /\ ServerStep(jira[s], x.jira[s])
    BY <1>2 DEF Sound
  <2>2. QED
    BY <1>7, <2>1 DEF ServerStep, Renewed
<1>9. \A s \in Posted(y) : y.jira[s] # Gone /\ y.jira[s].new
  BY <1>3, <1>7 DEF Sound, Renewed
<1>10. \A k \in Row : RowMoved(y, k)
  <2> SUFFICES ASSUME NEW k \in Row PROVE RowMoved(y, k)
    OBVIOUS
  <2>1. RowMoved(x, k)
    BY DEF Sound
  <2>2. IsRow(logs[k]) /\ logs[k].id # 0 => logs[k].id \in 1..Len(x.jira)
    BY <1>2 DEF TypeOK, IsRow, Rows
  <2>3. x.logs[k] = None <=> y.logs[k] = None
    BY <1>4 DEF IsRow
  <2>4. x.logs[k] = Gone <=> y.logs[k] = Gone
    BY <1>4 DEF IsRow
  <2>5. QED
    BY <1>1, <1>3, <1>4, <1>6, <1>7, <2>1, <2>2, <2>3, <2>4 DEF RowMoved
<1>11. \A k \in Row : RowRight(y, k)
  <2> SUFFICES ASSUME NEW k \in Row, IsRow(y.logs[k]) PROVE Tied(y.logs[k], y.jira)
    BY DEF RowRight
  <2>1. Tied(x.logs[k], x.jira) /\ IsRow(x.logs[k])
    BY <1>4 DEF Sound, RowRight
  <2>2. SameLog(x.logs[k], y.logs[k]) /\ y.logs[k].id = x.logs[k].id
    BY <1>4, <2>1
  <2>3. QED
    BY <1>2, <1>3, <1>7, <2>1, <2>2 DEF Tied, SameLog, Renewed
<1>12. \A k \in Row : MarkRight(y, k)
  <2> SUFFICES ASSUME NEW k \in Row, IsRow(y.logs[k]) PROVE MarkTrue(y.logs[k], y.jira)
    BY DEF MarkRight
  <2> DEFINE s == x.logs[k].id
  <2>1. /\ MarkTrue(x.logs[k], x.jira) /\ Tied(x.logs[k], x.jira) /\ IsRow(x.logs[k])
        /\ y.logs[k].id = s
    BY <1>4 DEF Sound, MarkRight, RowRight
  <2>2. \A m \in O : s # 0 /\ x.logs[m].id = s => m = k \/ s \in raced
    <3> SUFFICES ASSUME NEW m \in O, s # 0, x.logs[m].id = s PROVE m = k \/ s \in raced
      OBVIOUS
    <3>1. m \in Row /\ IsRow(x.logs[m])
      BY <1>2
    <3>2. Holds(x.logs[m], s) /\ Holds(x.logs[k], s)
      BY <2>1, <3>1 DEF Holds
    <3> HIDE DEF s
    <3>3. QED
      BY <3>1, <3>2, OneHolder
  <2>3. CASE k \in O
    <3>1. s # 0 /\ s \notin raced => Alone(x, O, k)
      BY <2>2 DEF Alone
    <3>2. y.logs[k].sent = x.logs[k].text /\ y.logs[k].text = x.logs[k].text
      BY <1>1, <2>3 DEF SameLog
    <3>3. QED
      BY <1>1, <2>1, <2>3, <3>1, <3>2 DEF MarkTrue, SentTrue, Marks
  <2>4. CASE k \notin O
    <3>1. s # 0 /\ s \notin raced => y.jira[s] = x.jira[s]
      BY <1>1, <1>2, <2>1, <2>2, <2>4 DEF Tied
    <3>2. SentTrue(y.logs[k], y.jira)
      BY <1>1, <2>1, <2>4, <3>1 DEF MarkTrue, SentTrue
    <3>3. Marks(y.logs[k])
      BY <1>1, <2>1, <2>4 DEF MarkTrue, Marks
    <3>4. QED
      BY <3>2, <3>3 DEF MarkTrue
  <2>5. QED
    BY <2>3, <2>4
<1>13. \A s \in Posted(y) \ y.stray : Holds(y.logs[y.jira[s].origin], s)
  <2> SUFFICES ASSUME NEW s \in Posted(y) \ y.stray PROVE Holds(y.logs[y.jira[s].origin], s)
    OBVIOUS
  <2>1. s \in Posted(x) \ x.stray /\ s \in 1..Len(x.jira)
    BY <1>1, <1>3
  <2>2. Holds(x.logs[x.jira[s].origin], s) /\ x.jira[s] # Gone
    BY <2>1 DEF Sound
  <2>3. y.jira[s].origin = x.jira[s].origin
    BY <1>7, <2>1 DEF Renewed
  <2>4. x.jira[s].origin \in Row
    <3>1. x.jira[s] \in WorkLog
      BY <2>1, <2>2, SoundFields
    <3>2. QED
      BY <3>1 DEF WorkLog
  <2>5. QED
    BY <1>6, <2>2, <2>3, <2>4
<1>14. \A k, m \in Row, s \in Posted(y) : Holds(y.logs[k], s) /\ Holds(y.logs[m], s) => k = m
  BY <1>3, <1>6 DEF Sound
<1>15. Sound(y)
  BY <1>1, <1>3, <1>8, <1>9, <1>10, <1>11, <1>12, <1>13, <1>14 DEF Sound
<1>16. \A k \in K : Current(y, k)
  BY <1>1 DEF Current, SameLog
<1>17. \A k \in Row \ K : IsRow(x.logs[k]) /\ Current(x, k) => Current(y, k)
  BY <1>1 DEF Current
<1>18. QED
  BY <1>1, <1>5, <1>15, <1>16, <1>17
-----------------------------------------------------------------------------
(* What add_time_logs is asked to post.                                     *)
Addable(x, K) == \A k \in K : x.logs[k] \in Log /\ x.logs[k].id = 0 /\ x.logs[k].state = "done"

(* Additions keep a transaction sound.                                      *)
LEMMA AddSound ==
  ASSUME TypeOK, NEW x, Sound(x), NEW K \in SUBSET Row, NEW y, AddedIs(x, y, K),
         Addable(x, K)
  PROVE  /\ Sound(y) /\ SameRows(x, y)
         /\ \A k \in K : Current(y, k)
         /\ \A k \in Row : IsRow(x.logs[k]) /\ Current(x, k) => Current(y, k)
<1> DEFINE a == Len(x.jira)
<1>1. PICK P \in SUBSET K :
    /\ y \in Txn
    /\ y.ok = (P = K) /\ y.kept = x.kept
    /\ Len(x.jira) <= Len(y.jira)
    /\ \A s \in 1..Len(x.jira) : y.jira[s] = x.jira[s]
    /\ x.stray \subseteq y.stray /\ y.stray \ x.stray \subseteq (Len(x.jira) + 1)..Len(y.jira)
    /\ \A s \in (Len(x.jira) + 1)..Len(y.jira) :
         \E k \in P : /\ y.jira[s] = Posting(x.logs, k)
                      /\ s \in y.stray \/ y.logs[k].id = s
    /\ \A k \in Row \ P : y.logs[k] = x.logs[k]
    /\ \A k \in P :
         /\ y.logs[k] \in Log /\ SameLog(x.logs[k], y.logs[k])
         /\ y.logs[k].id \in (Len(x.jira) + 1)..Len(y.jira)
         /\ y.logs[k].sent = x.logs[k].text
         /\ y.jira[y.logs[k].id] = Posting(x.logs, k)
    /\ \A k, m \in P : y.logs[k].id = y.logs[m].id => k = m
  BY DEF AddedIs
<1>2. /\ Len(jira) \in Nat /\ DOMAIN jira = 1..Len(jira)
      /\ a \in Nat /\ DOMAIN x.jira = 1..a /\ Len(jira) <= a
      /\ Posted(x) = (Len(jira) + 1)..a
      /\ \A k \in Row : IsRow(x.logs[k]) <=> x.logs[k] \in Log
  BY SoundFields
<1>3. Len(y.jira) \in Nat /\ DOMAIN y.jira = 1..Len(y.jira) /\ y.jira \in Server
  <2>1. y.jira \in Server
    BY <1>1, TxnFields
  <2>2. QED
    BY <2>1 DEF Server
<1> DEFINE b == Len(y.jira)
<1> HIDE DEF a, b
<1>4. /\ a \in Nat /\ b \in Nat /\ a <= b /\ Len(jira) <= a
      /\ Posted(y) = (Len(jira) + 1)..b
      /\ \A s \in Posted(y) : s \in Posted(x) \/ s \in (a + 1)..b
      /\ \A s \in (a + 1)..b : s \in Posted(y) /\ s # 0 /\ s \notin 1..a /\ s \in 1..b
      /\ \A s \in 1..a : s \in 1..b /\ s \notin (a + 1)..b
      /\ Posted(x) \subseteq 1..a /\ Posted(x) \subseteq Posted(y)
      /\ DOMAIN jira \subseteq 1..a /\ 0 \notin 1..a
  <2>1. a \in Nat /\ b \in Nat /\ a <= b /\ Len(jira) <= a
    BY <1>1, <1>2, <1>3 DEF a, b
  <2>2. Posted(y) = (Len(jira) + 1)..b
    BY DEF Posted, b
  <2>3. QED
    BY <1>2, <2>1, <2>2
<1>5. /\ \A s \in 1..a : y.jira[s] = x.jira[s]
      /\ \A s \in (a + 1)..b : \E k \in P : /\ y.jira[s] = Posting(x.logs, k)
                                            /\ s \in y.stray \/ y.logs[k].id = s
      /\ y.stray \ x.stray \subseteq (a + 1)..b
      /\ \A k \in P : y.logs[k].id \in (a + 1)..b
  BY <1>1 DEF a, b
<1>6. \A k \in P : /\ k \in Row /\ x.logs[k] \in Log /\ IsRow(x.logs[k]) /\ IsRow(y.logs[k])
                   /\ x.logs[k].id = 0 /\ x.logs[k].state = "done"
  BY <1>1, <1>2, Constants DEF Addable, IsRow
<1>7. \A k \in P : Posting(x.logs, k) \in WorkLog /\ Posting(x.logs, k).new
                   /\ Posting(x.logs, k) # Gone
                   /\ Posting(x.logs, k).issue = x.logs[k].issue /\ Posting(x.logs, k).origin = k
                   /\ Posting(x.logs, k).text = x.logs[k].text
  <2> SUFFICES ASSUME NEW k \in P
               PROVE  /\ Posting(x.logs, k) \in WorkLog /\ Posting(x.logs, k).new
                      /\ Posting(x.logs, k) # Gone
                      /\ Posting(x.logs, k).issue = x.logs[k].issue
                      /\ Posting(x.logs, k).origin = k
                      /\ Posting(x.logs, k).text = x.logs[k].text
    OBVIOUS
  <2>1. \A w : w = Posting(x.logs, k) => /\ w \in WorkLog /\ w.new /\ w.issue = x.logs[k].issue
                                         /\ w.origin = k /\ w.text = x.logs[k].text
    BY <1>6, PostingIs
  <2>2. QED
    BY <2>1, Constants
<1>8. \A s \in (a + 1)..b : y.jira[s] # Gone /\ y.jira[s].new
  BY <1>5, <1>7
<1>9. SameRows(x, y)
  BY <1>1, <1>6 DEF SameRows, SameLog
<1>10. \A s \in DOMAIN jira : ServerStep(jira[s], y.jira[s])
  BY <1>4, <1>5 DEF Sound
<1>11. \A s \in Posted(y) : y.jira[s] # Gone /\ y.jira[s].new
  BY <1>4, <1>5, <1>8 DEF Sound
<1>12. \A k \in Row : RowMoved(y, k)
  <2> SUFFICES ASSUME NEW k \in Row PROVE RowMoved(y, k)
    OBVIOUS
  <2>1. RowMoved(x, k)
    BY DEF Sound
  <2>2. IsRow(logs[k]) /\ logs[k].id # 0 => logs[k].id \in 1..a
    BY <1>2, <1>4 DEF TypeOK, IsRow, Rows
  <2>3. CASE k \in P
    <3>1. IsRow(y.logs[k]) /\ y.logs[k] # None /\ y.logs[k] # Gone /\ y.logs[k].id \in Posted(y)
      BY <1>4, <1>5, <1>6, <2>3 DEF IsRow
    <3>2. x.logs[k] # None /\ x.logs[k] # Gone /\ x.logs[k].id = 0
      BY <1>6, <2>3 DEF IsRow
    <3>3. QED
      BY <1>5, <2>1, <2>2, <3>1, <3>2 DEF RowMoved, Holds
  <2>4. CASE k \notin P
    <3>1. y.logs[k] = x.logs[k]
      BY <1>1, <2>4
    <3>2. QED
      BY <1>1, <1>4, <1>5, <2>1, <2>2, <3>1 DEF RowMoved
  <2>5. QED
    BY <2>3, <2>4
<1>13. \A k \in Row \ P : IsRow(x.logs[k]) /\ x.logs[k].id # 0 => x.logs[k].id \in 1..a
  BY <1>2 DEF Sound, RowRight, Tied
<1>14. \A k \in Row : RowRight(y, k)
  <2> SUFFICES ASSUME NEW k \in Row, IsRow(y.logs[k]) PROVE Tied(y.logs[k], y.jira)
    BY DEF RowRight
  <2>1. DOMAIN y.jira = 1..b
    BY <1>3 DEF b
  <2>2. CASE k \in P
    <3>1. /\ y.logs[k].id \in 1..b /\ y.jira[y.logs[k].id] = Posting(x.logs, k)
          /\ SameLog(x.logs[k], y.logs[k])
      BY <1>1, <1>4, <1>5, <2>2
    <3>2. QED
      BY <1>6, <1>7, <2>1, <2>2, <3>1 DEF Tied, SameLog
  <2>3. CASE k \notin P
    <3>1. y.logs[k] = x.logs[k] /\ Tied(x.logs[k], x.jira)
      BY <1>1, <2>3 DEF Sound, RowRight
    <3>2. QED
      BY <1>2, <1>4, <1>5, <2>1, <3>1 DEF Tied
  <2>4. QED
    BY <2>2, <2>3
<1>15. \A k \in Row : MarkRight(y, k)
  <2> SUFFICES ASSUME NEW k \in Row, IsRow(y.logs[k]) PROVE MarkTrue(y.logs[k], y.jira)
    BY DEF MarkRight
  <2>1. CASE k \in P
    <3>1. /\ y.logs[k].sent = x.logs[k].text /\ y.logs[k].text = x.logs[k].text
          /\ y.jira[y.logs[k].id].text = x.logs[k].text
      BY <1>1, <1>7, <2>1 DEF SameLog
    <3>2. QED
      BY <3>1 DEF MarkTrue, SentTrue, Marks
  <2>2. CASE k \notin P
    <3>1. y.logs[k] = x.logs[k] /\ MarkTrue(x.logs[k], x.jira)
      BY <1>1, <2>2 DEF Sound, MarkRight
    <3>2. QED
      BY <1>5, <1>13, <2>2, <3>1 DEF MarkTrue, SentTrue
  <2>3. QED
    BY <2>1, <2>2
<1>16. \A k, m \in Row, s \in Posted(y) : Holds(y.logs[k], s) /\ Holds(y.logs[m], s) => k = m
  <2> SUFFICES ASSUME NEW k \in Row, NEW m \in Row, NEW s \in Posted(y),
                      Holds(y.logs[k], s), Holds(y.logs[m], s)
               PROVE  k = m
    OBVIOUS
  <2>1. CASE s \in Posted(x)
    <3>1. k \notin P /\ m \notin P
      BY <1>4, <1>5, <2>1 DEF Holds
    <3>2. Holds(x.logs[k], s) /\ Holds(x.logs[m], s)
      BY <1>1, <3>1
    <3>3. QED
      BY <2>1, <3>2 DEF Sound
  <2>2. CASE s \in (a + 1)..b
    <3>1. k \in P /\ m \in P
      BY <1>1, <1>4, <1>13, <2>2 DEF Holds
    <3>2. QED
      BY <1>1, <3>1 DEF Holds
  <2>3. QED
    BY <1>4, <2>1, <2>2
<1>17. \A s \in Posted(y) \ y.stray : Holds(y.logs[y.jira[s].origin], s)
  <2> SUFFICES ASSUME NEW s \in Posted(y), s \notin y.stray PROVE Holds(y.logs[y.jira[s].origin], s)
    OBVIOUS
  <2>1. CASE s \in Posted(x)
    <3>1. s \notin x.stray /\ s \in 1..a /\ s # 0
      BY <1>1, <1>4, <2>1
    <3>2. Holds(x.logs[x.jira[s].origin], s) /\ x.jira[s] # Gone
      BY <2>1, <3>1 DEF Sound
    <3>3. x.jira[s].origin \in Row
      <4>1. x.jira[s] \in WorkLog
        BY <3>1, <3>2, SoundFields DEF a
      <4>2. QED
        BY <4>1 DEF WorkLog
    <3>4. x.jira[s].origin \notin P
      BY <1>6, <3>1, <3>2 DEF Holds
    <3>5. QED
      BY <1>1, <1>5, <3>1, <3>2, <3>3, <3>4
  <2>2. CASE s \in (a + 1)..b
    <3>1. PICK k \in P : y.jira[s] = Posting(x.logs, k) /\ y.logs[k].id = s
      BY <1>5, <2>2
    <3>2. QED
      BY <1>6, <1>7, <3>1 DEF Holds
  <2>3. QED
    BY <1>4, <2>1, <2>2
<1>18. y.stray \subseteq Posted(y) /\ y.kept \subseteq DOMAIN jira
  BY <1>1, <1>4, <1>5 DEF Sound
<1>19. Len(jira) <= Len(y.jira)
  BY <1>4 DEF b
<1>20. Sound(y)
  BY <1>1, <1>10, <1>11, <1>12, <1>14, <1>15, <1>16, <1>17, <1>18, <1>19 DEF Sound
<1>21. \A k \in P : Current(y, k)
  BY <1>1 DEF Current, SameLog
<1>22. ASSUME NEW k \in Row \ P, IsRow(x.logs[k]), Current(x, k) PROVE Current(y, k)
  <2>1. y.logs[k] = x.logs[k]
    BY <1>1, <1>22
  <2>2. QED
    BY <1>22, <2>1 DEF Current
<1>23. \A k \in K : Current(y, k)
  <2> SUFFICES ASSUME NEW k \in K \ P PROVE Current(y, k)
    BY <1>21
  <2>1. k \in Row /\ y.logs[k] = x.logs[k] /\ x.logs[k].id = 0
    BY <1>1 DEF Addable
  <2>2. QED
    BY <2>1 DEF Current
<1>24. QED
  BY <1>9, <1>20, <1>21, <1>22, <1>23
-----------------------------------------------------------------------------
(* A step of a transaction: rows stay, and what was sent remains so.       *)
Continues(x, y) ==
  /\ SameRows(x, y)
  /\ \A k \in Row : IsRow(x.logs[k]) /\ Current(x, k) => Current(y, k)

LEMMA ContinuesItself == \A x : Continues(x, x)
BY DEF Continues, SameRows, SameLog

(* Steps of a transaction follow each other.                                *)
LEMMA ContinuesOn ==
  ASSUME NEW x, NEW y, NEW z, Continues(x, y), Continues(y, z)
  PROVE  Continues(x, z)
BY DEF Continues, SameRows, SameLog

(* add_time_logs keeps a transaction sound, and what it posts is new.       *)
LEMMA AddLogsSound ==
  ASSUME TypeOK, NEW x, Sound(x), NEW K \in SUBSET Row, Addable(x, K),
         NEW y \in AddTimeLogs(x, K)
  PROVE  Sound(y) /\ Continues(x, y) /\ \A k \in K : Current(y, k)
<1>1. CASE K = {}
  <2>1. y = x
    BY <1>1 DEF AddTimeLogs
  <2>2. QED
    BY <1>1, <2>1, ContinuesItself
<1>2. CASE K # {}
  <2>1. PICK P \in SUBSET K, n \in Nested : y = Added(x, K, P, n)
    BY <1>2 DEF AddTimeLogs
  <2>2. n \in Nat \ {0}
    BY Constants DEF Nested
  <2>3. x \in Txn /\ \A k \in K : x.logs[k] \in Log
    BY DEF Sound, Addable
  <2>4. AddedIs(x, y, K)
    BY <2>1, <2>2, <2>3, AddedHolds
  <2>5. QED
    BY <2>4, AddSound DEF Continues
<1>3. QED
  BY <1>1, <1>2

(* update_time_logs keeps a transaction sound, and leaves each log sent or  *)
(* late.                                                                    *)
LEMMA UpdateLogsSound ==
  ASSUME TypeOK, Single, NEW x, Sound(x), NEW K \in SUBSET Row,
         \A k \in K : IsRow(x.logs[k]) /\ x.logs[k].id # 0,
         NEW y \in UpdateTimeLogs(x, K)
  PROVE  Sound(y) /\ Continues(x, y) /\ y.ok = x.ok /\ \A k \in K : Current(y, k)
<1>1. PICK O \in SUBSET {k \in K : Reachable(x, k)} : y = Updated(x, K, O)
  BY DEF UpdateTimeLogs
<1>2. O \in SUBSET K /\ \A k \in O : Reachable(x, k)
  BY <1>1
<1>3. \A k \in K : x.logs[k] \in Log /\ x.logs[k].id \in 1..Len(x.jira)
  <2> SUFFICES ASSUME NEW k \in K PROVE x.logs[k] \in Log /\ x.logs[k].id \in 1..Len(x.jira)
    OBVIOUS
  <2>1. IsRow(x.logs[k]) /\ x.logs[k].id # 0 /\ Tied(x.logs[k], x.jira)
    BY DEF Sound, RowRight
  <2>2. QED
    BY <2>1, SoundFields DEF Tied
<1>4. x \in Txn
  BY DEF Sound
<1>5. UpdatedIs(x, y, K)
  BY <1>1, <1>2, <1>3, <1>4, UpdatedHolds
<1>6. QED
  BY <1>3, <1>5, UpdateSound DEF Continues

(* What export_specific_log finds to add and to update.                     *)
LEMMA ToExport ==
  ASSUME TypeOK, NEW x, Sound(x), NEW K \in SUBSET Row, \A k \in K : IsRow(x.logs[k])
  PROVE  /\ Unexported(x, K) \in SUBSET Row /\ Addable(x, Unexported(x, K))
         /\ OnceExported(x, K) \in SUBSET Row
         /\ \A k \in OnceExported(x, K) : IsRow(x.logs[k]) /\ x.logs[k].id # 0
         /\ \A k \in K : \/ x.logs[k].id = 0 /\ x.logs[k].state # "done"
                         \/ k \in Unexported(x, K) \/ k \in OnceExported(x, K)
<1>1. \A k \in K : IsRow(x.logs[k]) /\ x.logs[k] \in Log /\ Tied(x.logs[k], x.jira)
  BY SoundFields DEF Sound, RowRight
<1>2. QED
  BY <1>1 DEF Unexported, OnceExported, Addable, Tied

(* An export keeps a transaction sound, whether it succeeds or not.         *)
LEMMA ExportSound ==
  ASSUME TypeOK, Single, NEW x, Sound(x), NEW K \in SUBSET Row, \A k \in K : IsRow(x.logs[k]),
         NEW old \in SUBSET OnceExported(x, K), NEW z \in Export(x, K, old)
  PROVE  /\ Sound(z) /\ Continues(x, z)
         /\ \A k \in Unexported(x, K) : Current(z, k)
         /\ z.ok => \A k \in old : Current(z, k)
<1> DEFINE U == Unexported(x, K)
<1>1. PICK y \in AddTimeLogs(x, U) : z \in IF y.ok THEN UpdateTimeLogs(y, old) ELSE {y}
  BY DEF Export
<1>2. /\ U \in SUBSET Row /\ Addable(x, U) /\ old \in SUBSET Row
      /\ \A k \in old : IsRow(x.logs[k]) /\ x.logs[k].id # 0
      /\ \A k \in U : IsRow(x.logs[k])
  BY ToExport DEF Unexported
<1> HIDE DEF U
<1>3. Sound(y) /\ Continues(x, y) /\ \A k \in U : Current(y, k)
  BY <1>1, <1>2, AddLogsSound
<1>4. CASE ~y.ok
  BY <1>1, <1>3, <1>4 DEF U
<1>5. CASE y.ok
  <2>1. \A k \in old : IsRow(y.logs[k]) /\ y.logs[k].id # 0
    BY <1>2, <1>3 DEF Continues, SameRows
  <2>2. z \in UpdateTimeLogs(y, old)
    BY <1>1, <1>5
  <2>3. Sound(z) /\ Continues(y, z) /\ z.ok = y.ok /\ \A k \in old : Current(z, k)
    BY <1>2, <1>3, <2>1, <2>2, UpdateLogsSound
  <2>4. Continues(x, z)
    BY <1>3, <2>3, ContinuesOn
  <2>5. \A k \in U : Current(z, k)
    <3>1. \A k \in U : IsRow(y.logs[k])
      BY <1>2, <1>3 DEF Continues, SameRows
    <3>2. QED
      BY <1>2, <1>3, <2>3, <3>1 DEF Continues
  <2>6. QED
    BY <2>3, <2>4, <2>5 DEF U
<1>6. QED
  BY <1>4, <1>5

(* Everything that was to be exported is current if the export succeeded.   *)
LEMMA SpecificSound ==
  ASSUME TypeOK, Single, NEW x, Sound(x), NEW K \in SUBSET Row, \A k \in K : IsRow(x.logs[k]),
         NEW z \in ExportSpecific(x, K)
  PROVE  Sound(z) /\ Continues(x, z) /\ (z.ok => \A k \in K : Current(z, k))
<1> DEFINE old == OnceExported(x, K)
<1>1. z \in Export(x, K, old) /\ old \in SUBSET OnceExported(x, K)
  BY DEF ExportSpecific
<1> HIDE DEF old
<1>2. /\ Sound(z) /\ Continues(x, z)
      /\ \A k \in Unexported(x, K) : Current(z, k)
      /\ z.ok => \A k \in old : Current(z, k)
  BY <1>1, ExportSound
<1>3. \A k \in K : \/ x.logs[k].id = 0 /\ x.logs[k].state # "done"
                   \/ k \in Unexported(x, K) \/ k \in old
  BY ToExport DEF old
<1>4. ASSUME NEW k \in K, x.logs[k].id = 0 PROVE Current(z, k)
  <2>1. Current(x, k)
    BY <1>4 DEF Current
  <2>2. QED
    BY <1>2, <2>1 DEF Continues
<1>5. QED
  BY <1>2, <1>3, <1>4
-----------------------------------------------------------------------------
(* Rows are written, and each stays tied to what it was.                   *)
LEMMA RowsSound ==
  ASSUME TypeOK, NEW x, Sound(x), NEW y \in Txn,
         y.jira = x.jira, y.stray = x.stray, y.kept = x.kept,
         \A k \in Row : /\ IsRow(y.logs[k]) <=> IsRow(x.logs[k])
                        /\ ~IsRow(x.logs[k]) => y.logs[k] = x.logs[k]
                        /\ IsRow(x.logs[k]) =>
                             /\ y.logs[k].id = x.logs[k].id
                             /\ Tied(y.logs[k], x.jira)
                             /\ MarkTrue(y.logs[k], x.jira)
  PROVE  Sound(y)
<1>1. Posted(y) = Posted(x)
  BY DEF Posted
<1>2. \A k \in Row : \A s : Holds(y.logs[k], s) <=> Holds(x.logs[k], s)
  BY DEF Holds
<1>3. \A k \in Row : RowMoved(y, k)
  <2> SUFFICES ASSUME NEW k \in Row PROVE RowMoved(y, k)
    OBVIOUS
  <2>1. RowMoved(x, k)
    BY DEF Sound
  <2>2. /\ x.logs[k] = None <=> y.logs[k] = None
        /\ x.logs[k] = Gone <=> y.logs[k] = Gone
    BY DEF IsRow
  <2>3. QED
    BY <1>1, <1>2, <2>1, <2>2 DEF RowMoved
<1>4. \A k \in Row : RowRight(y, k)
  BY DEF RowRight
<1>5. \A k \in Row : MarkRight(y, k)
  BY DEF MarkRight
<1>6. \A s \in Posted(y) \ y.stray : Holds(y.logs[y.jira[s].origin], s)
  <2> SUFFICES ASSUME NEW s \in Posted(x) \ x.stray PROVE Holds(y.logs[x.jira[s].origin], s)
    BY <1>1
  <2>1. Holds(x.logs[x.jira[s].origin], s) /\ x.jira[s] # Gone
    BY DEF Sound
  <2>2. x.jira[s].origin \in Row
    <3>1. x.jira[s] \in WorkLog
      BY <2>1, SoundFields
    <3>2. QED
      BY <3>1 DEF WorkLog
  <2>3. QED
    BY <1>2, <2>1, <2>2
<1>7. QED
  BY <1>1, <1>2, <1>3, <1>4, <1>5, <1>6 DEF Sound

(* Small steps of a transaction, field by field.                            *)
PutParts(x, k, l, y) ==
  /\ y.logs = [x.logs EXCEPT ![k] = l] /\ y.jira = x.jira /\ y.stray = x.stray
  /\ y.kept = x.kept /\ y.ok = x.ok /\ y.bad = x.bad /\ Whole(y)

LEMMA PutIs ==
  ASSUME NEW x, Whole(x), NEW k, NEW l
  PROVE  PutParts(x, k, l, Put(x, k, l))
BY DEF Put, Whole, PutParts

SwallowedParts(x, y) ==
  /\ y.logs = x.logs /\ y.jira = x.jira /\ y.stray = x.stray
  /\ y.kept = x.kept /\ y.ok = TRUE /\ y.bad = x.bad /\ Whole(y)

LEMMA SwallowedIs ==
  ASSUME NEW x, Whole(x)
  PROVE  SwallowedParts(x, Swallowed(x))
<1>1. ASSUME NEW y, y = Swallowed(x) PROVE SwallowedParts(x, y)
  BY <1>1 DEF Swallowed, Whole, SwallowedParts
<1>2. QED
  BY <1>1

DeletedParts(x, s, y) ==
  /\ y.logs = x.logs /\ y.jira = [x.jira EXCEPT ![s] = Gone] /\ y.stray = x.stray
  /\ y.kept = x.kept /\ y.ok = x.ok /\ y.bad = x.bad /\ Whole(y)

LEMMA DeletedIs ==
  ASSUME NEW x, Whole(x), NEW s
  PROVE  DeletedParts(x, s, Deleted(x, s))
BY DEF Deleted, Whole, DeletedParts

(* A dropped exception changes nothing of what was done.                    *)
LEMMA SwallowedSound ==
  ASSUME NEW x, Sound(x), NEW y, y = Swallowed(x)
  PROVE  Sound(y) /\ Continues(x, y) /\ y.ok
<1>1. x \in Txn /\ Whole(x)
  BY TxnWhole DEF Sound
<1>2. /\ y.logs = x.logs /\ y.jira = x.jira /\ y.stray = x.stray /\ y.kept = x.kept
      /\ y.ok = TRUE /\ y.bad = x.bad /\ Whole(y)
  BY <1>1, SwallowedIs DEF SwallowedParts
<1>3. y \in Txn
  BY <1>1, <1>2, TxnIs, TxnFields
<1>4. Posted(y) = Posted(x)
  BY <1>2 DEF Posted
<1>5. \A k \in Row : /\ RowMoved(x, k) => RowMoved(y, k)
                     /\ RowRight(x, k) => RowRight(y, k)
                     /\ MarkRight(x, k) => MarkRight(y, k)
  BY <1>2, <1>4 DEF RowMoved, RowRight, MarkRight
<1>6. Sound(y)
  BY <1>2, <1>3, <1>4, <1>5 DEF Sound
<1>7. Continues(x, y)
  BY <1>2, ContinuesItself DEF Continues, SameRows, Current
<1>8. QED
  BY <1>2, <1>6, <1>7

(* One row is written.                                                     *)
LEMMA RowSound ==
  ASSUME TypeOK, NEW x, Sound(x), NEW k \in Row, IsRow(x.logs[k]), NEW l \in Log,
         l.id = x.logs[k].id, Tied(l, x.jira), MarkTrue(l, x.jira),
         NEW y, y.logs = [x.logs EXCEPT ![k] = l], y.jira = x.jira, y.stray = x.stray,
         y.kept = x.kept, y.ok \in BOOLEAN, y.bad = x.bad, Whole(y)
  PROVE  Sound(y)
<1>1. /\ x.logs \in [Row -> Entry] /\ x.jira \in Server /\ x.stray \in SUBSET Nat
      /\ x.kept \in SUBSET Nat /\ x.bad \in Nat
  BY SoundFields
<1>2. y.logs \in [Row -> Entry]
  BY <1>1 DEF Entry
<1>3. y \in Txn
  BY <1>1, <1>2, TxnIs
<1>4. IsRow(l) /\ y.logs[k] = l /\ \A m \in Row \ {k} : y.logs[m] = x.logs[m]
  BY <1>1, Constants DEF IsRow
<1>5. \A m \in Row : IsRow(x.logs[m]) => Tied(x.logs[m], x.jira) /\ MarkTrue(x.logs[m], x.jira)
  BY DEF Sound, RowRight, MarkRight
<1>6. \A m \in Row : /\ IsRow(y.logs[m]) <=> IsRow(x.logs[m])
                     /\ ~IsRow(x.logs[m]) => y.logs[m] = x.logs[m]
                     /\ IsRow(x.logs[m]) =>
                          /\ y.logs[m].id = x.logs[m].id
                          /\ Tied(y.logs[m], x.jira)
                          /\ MarkTrue(y.logs[m], x.jira)
  <2> SUFFICES ASSUME NEW m \in Row
               PROVE  /\ IsRow(y.logs[m]) <=> IsRow(x.logs[m])
                      /\ ~IsRow(x.logs[m]) => y.logs[m] = x.logs[m]
                      /\ IsRow(x.logs[m]) =>
                           /\ y.logs[m].id = x.logs[m].id
                           /\ Tied(y.logs[m], x.jira)
                           /\ MarkTrue(y.logs[m], x.jira)
    OBVIOUS
  <2>1. CASE m = k
    BY <1>4, <2>1
  <2>2. CASE m # k
    BY <1>4, <1>5, <2>2
  <2>3. QED
    BY <2>1, <2>2
<1>7. QED
  BY <1>3, <1>6, RowsSound

(* A log may say something else, and what its mark then says must be so.    *)
LEMMA SaysSound ==
  ASSUME TypeOK, NEW x, Sound(x), NEW k \in Row, IsRow(x.logs[k]), NEW t \in Text, NEW mark \in Mark,
         mark = "exported" =>
           \/ x.logs[k].id = 0 \/ x.logs[k].late \/ x.logs[k].behind
           \/ t \in {x.logs[k].sent, x.logs[k].captured},
         NEW y, y = Says(x, k, t, mark)
  PROVE  Sound(y)
<1> DEFINE l == [x.logs[k] EXCEPT !.text = t, !.mark = mark]
<1>1. x \in Txn /\ x.logs[k] \in Log
  BY SoundFields DEF Sound
<1>2. Whole(x)
  BY <1>1, TxnWhole
<1>3. /\ y.logs = [x.logs EXCEPT ![k] = l]
      /\ y.jira = x.jira /\ y.stray = x.stray /\ y.kept = x.kept /\ y.ok = TRUE /\ y.bad = x.bad
      /\ Whole(y)
  <2> DEFINE z == Put(x, k, l)
  <2>1. y = Swallowed(z)
    BY DEF Says
  <2>2. PutParts(x, k, l, z)
    <3> HIDE DEF l
    <3>1. QED
      BY <1>2, PutIs
  <2> HIDE DEF z, l
  <2>3. SwallowedParts(z, y)
    BY <2>1, <2>2, SwallowedIs DEF PutParts
  <2>4. QED
    BY <2>2, <2>3 DEF PutParts, SwallowedParts
<1>4. /\ l \in Log /\ l.id = x.logs[k].id /\ l.state = x.logs[k].state /\ l.issue = x.logs[k].issue
      /\ l.adrift = x.logs[k].adrift /\ l.late = x.logs[k].late /\ l.captured = x.logs[k].captured
      /\ l.sent = x.logs[k].sent /\ l.behind = x.logs[k].behind
      /\ l.text = t /\ l.mark = mark
  BY <1>1 DEF Log
<1> HIDE DEF l
<1>5. Tied(x.logs[k], x.jira) /\ MarkTrue(x.logs[k], x.jira)
  BY DEF Sound, RowRight, MarkRight
<1>6. Tied(l, x.jira)
  BY <1>4, <1>5 DEF Tied
<1>7. MarkTrue(l, x.jira)
  BY <1>4, <1>5 DEF MarkTrue, SentTrue, Marks
<1>8. QED
  BY <1>3, <1>4, <1>6, <1>7, RowSound

(* What auto export has sent before the write is behind it, or is what it   *)
(* writes.                                                                  *)
LEMMA SaysUnsentSound ==
  ASSUME TypeOK, NEW x, Sound(x), NEW k \in Row, IsRow(x.logs[k]), Current(x, k), NEW t \in Text,
         NEW y, y = SaysUnsent(x, k, t)
  PROVE  Sound(y)
<1> DEFINE late == x.logs[k].text # t
           l == [x.logs[k] EXCEPT !.behind = @ \/ late]
           z == Put(x, k, l)
<1>1. x \in Txn /\ Whole(x) /\ x.logs[k] \in Log /\ x.logs \in [Row -> Entry] /\ x.ok \in BOOLEAN
  BY SoundFields, TxnWhole DEF Sound
<1>2. y = Says(z, k, t, "exported")
  BY DEF SaysUnsent
<1>3. late \in BOOLEAN
  OBVIOUS
<1>4. /\ l \in Log /\ l.id = x.logs[k].id /\ l.state = x.logs[k].state /\ l.issue = x.logs[k].issue
      /\ l.adrift = x.logs[k].adrift /\ l.late = x.logs[k].late /\ l.captured = x.logs[k].captured
      /\ l.sent = x.logs[k].sent /\ l.text = x.logs[k].text /\ l.mark = x.logs[k].mark
      /\ x.logs[k].behind => l.behind
      /\ x.logs[k].text # t => l.behind
  <2> HIDE DEF late
  <2>1. /\ l \in Log /\ l.id = x.logs[k].id /\ l.state = x.logs[k].state
        /\ l.issue = x.logs[k].issue /\ l.text = x.logs[k].text /\ l.mark = x.logs[k].mark
        /\ l.adrift = x.logs[k].adrift /\ l.late = x.logs[k].late
        /\ l.captured = x.logs[k].captured /\ l.sent = x.logs[k].sent
        /\ l.behind = (x.logs[k].behind \/ late)
    BY <1>1, <1>3 DEF Log
  <2> HIDE DEF l
  <2>2. QED
    BY <2>1 DEF late
<1> HIDE DEF l
<1>5. PutParts(x, k, l, z)
  BY <1>1, PutIs
<1> HIDE DEF z
<1>6. Tied(x.logs[k], x.jira) /\ MarkTrue(x.logs[k], x.jira)
  BY DEF Sound, RowRight, MarkRight
<1>7. Tied(l, x.jira) /\ MarkTrue(l, x.jira)
  BY <1>4, <1>6 DEF Tied, MarkTrue, SentTrue, Marks
<1>8. Sound(z)
  BY <1>1, <1>4, <1>5, <1>7, RowSound DEF PutParts
<1>9. z.logs[k] = l /\ IsRow(l)
  BY <1>1, <1>4, <1>5, Constants DEF PutParts, IsRow
<1>10. l.id = 0 \/ l.late \/ l.behind \/ t = l.sent
  BY <1>4 DEF Current
<1>11. QED
  BY <1>2, <1>8, <1>9, <1>10, SaysSound DEF Mark
-----------------------------------------------------------------------------
LEMMA NowIs ==
  /\ Whole(Now) /\ Now.logs = logs /\ Now.jira = jira /\ Now.stray = {} /\ Now.kept = {}
  /\ Now.ok = TRUE /\ Now.bad = 0
BY DEF Now, Whole

(* A transaction begins sound.                                              *)
LEMMA NowFacts ==
  ASSUME ExportInv
  PROVE  /\ Sound(Now) /\ Now.logs = logs /\ Now.jira = jira /\ Now.ok = TRUE
         /\ \A k \in Row : IsRow(logs[k]) => logs[k] \in Log
<1>1. TypeOK /\ logs \in [Row -> Entry] /\ jira \in Server
  BY DEF ExportInv, TypeOK, Entry, Server
<1>2. /\ Now \in Txn /\ Now.logs = logs /\ Now.jira = jira /\ Now.ok = TRUE
      /\ Now.stray = {} /\ Now.kept = {}
  BY <1>1 DEF Now, Txn
<1>3. Len(jira) \in Nat /\ Posted(Now) = {}
  <2>1. Len(jira) \in Nat
    BY <1>1 DEF Server
  <2> HIDE DEF Now
  <2>2. QED
    BY <1>2, <2>1 DEF Posted
<1>4. \A k \in Row : RowMoved(Now, k)
  <2> HIDE DEF Now
  <2>1. QED
    BY <1>2 DEF RowMoved, Holds
<1>5. \A k \in Row : RowRight(Now, k) /\ MarkRight(Now, k)
  BY <1>2 DEF RowRight, MarkRight, ExportInv, RowsRight
<1>6. \A s \in DOMAIN jira : ServerStep(jira[s], jira[s])
  BY DEF ServerStep
<1>7. Sound(Now)
  BY <1>2, <1>3, <1>4, <1>5, <1>6 DEF Sound
<1>8. \A k \in Row : IsRow(logs[k]) => logs[k] \in Log
  BY <1>1 DEF IsRow, Entry
<1>9. QED
  BY <1>2, <1>7, <1>8

(* A row is written that is tied to nothing after, or deleted, and a work  *)
(* log with it.                                                            *)
LEMMA UntiedSound ==
  ASSUME ExportInv, NEW k \in Row, logs[k] # Gone, logs[k] = None => k \in Unused,
         NEW l \in Log \cup {Gone}, IsRow(l) => l.id = 0,
         NEW y \in Txn, y.logs = [logs EXCEPT ![k] = l],
         y.jira = jira \/ \E s \in DOMAIN jira : y.jira = [jira EXCEPT ![s] = Gone],
         y.stray = {}, y.kept \subseteq DOMAIN jira,
         IsRow(logs[k]) /\ logs[k].id # 0 =>
           \/ y.jira[logs[k].id] = Gone
           \/ l = Gone /\ logs[k].id \in y.kept
  PROVE  Sound(y)
<1>1. /\ Len(jira) \in Nat /\ DOMAIN jira = 1..Len(jira) /\ jira \in Server
      /\ logs \in [Row -> Entry]
  BY DEF ExportInv, TypeOK, Server, Entry
<1>2. /\ Len(y.jira) = Len(jira) /\ DOMAIN y.jira = DOMAIN jira
      /\ \A s \in DOMAIN jira : y.jira[s] = jira[s] \/ y.jira[s] = Gone
  <2>1. CASE y.jira = jira
    BY <2>1
  <2>2. ASSUME NEW s \in DOMAIN jira, y.jira = [jira EXCEPT ![s] = Gone]
        PROVE  /\ Len(y.jira) = Len(jira) /\ DOMAIN y.jira = DOMAIN jira
               /\ \A r \in DOMAIN jira : y.jira[r] = jira[r] \/ y.jira[r] = Gone
    <3>1. y.jira \in Server
      BY DEF Txn
    <3>2. DOMAIN y.jira = DOMAIN jira /\ \A r \in DOMAIN jira : y.jira[r] = jira[r] \/ y.jira[r] = Gone
      BY <2>2
    <3>3. Len(y.jira) = Len(jira)
      BY <1>1, <3>1, <3>2 DEF Server
    <3>4. QED
      BY <3>2, <3>3
  <2>3. QED
    BY <2>1, <2>2
<1>3. Posted(y) = {}
  BY <1>1, <1>2 DEF Posted
<1>4. y.logs[k] = l /\ l # None /\ \A m \in Row \ {k} : y.logs[m] = logs[m]
  BY <1>1, Constants
<1>5. \A m \in Row : IsRow(logs[m]) /\ logs[m].id # 0 => logs[m].id \in DOMAIN jira
  BY DEF ExportInv, RowsRight, Tied
<1>6. \A m \in Row : RowMoved(y, m)
  <2> SUFFICES ASSUME NEW m \in Row PROVE RowMoved(y, m)
    OBVIOUS
  <2>1. CASE m = k
    BY <1>4, <2>1 DEF RowMoved, IsRow
  <2>2. CASE m # k
    BY <1>4, <2>2 DEF RowMoved, Holds
  <2>3. QED
    BY <2>1, <2>2
<1>7. \A m \in Row : RowRight(y, m) /\ MarkRight(y, m)
  <2> SUFFICES ASSUME NEW m \in Row, IsRow(y.logs[m])
               PROVE  Tied(y.logs[m], y.jira) /\ MarkTrue(y.logs[m], y.jira)
    BY DEF RowRight, MarkRight
  <2>1. CASE m = k
    BY <1>4, <2>1 DEF Tied, MarkTrue, SentTrue, Marks
  <2>2. CASE m # k
    <3>1. y.logs[m] = logs[m] /\ Tied(logs[m], jira) /\ MarkTrue(logs[m], jira)
      BY <1>4, <2>2 DEF ExportInv, RowsRight
    <3>2. QED
      BY <1>2, <3>1 DEF Tied, MarkTrue, SentTrue
  <2>3. QED
    BY <2>1, <2>2
<1>8. \A s \in DOMAIN jira : ServerStep(jira[s], y.jira[s])
  BY <1>2 DEF ServerStep
<1>9. QED
  BY <1>1, <1>2, <1>3, <1>6, <1>7, <1>8 DEF Sound

LEMMA NewLogIs ==
  ASSUME NEW state \in {"progress", "done"}, NEW i \in Issue, NEW t \in Text,
         NEW l, l = NewLog(state, i, t)
  PROVE  l \in Log /\ l.id = 0 /\ l.state = state /\ IsRow(l)
<1>1. l \in Log /\ l.id = 0 /\ l.state = state
  BY DEF NewLog, Log, Mark
<1>2. QED
  BY <1>1, Constants DEF IsRow

(* There is a least unused row.                                             *)
LEMMA FreeRowIs ==
  ASSUME TypeOK, Unused # {}
  PROVE  FreeRow \in Unused /\ FreeRow \in Row /\ logs[FreeRow] = None
<1>1. Unused \subseteq Row /\ \A k \in Unused : logs[k] = None
  BY DEF Unused
<1>2. \E k \in Unused : \A m \in Unused : k <= m
  <2> DEFINE R == OpToRel(<, Nat)
  <2>1. Unused \subseteq Nat
    BY <1>1, Constants
  <2>2. IsWellFoundedOn(R, Nat)
    BY NatLessThanWellFounded
  <2>3. \A p, q \in Nat : p < q => <<p, q>> \in R
    BY DEF OpToRel
  <2> HIDE DEF R
  <2>4. PICK k \in Unused : \A m \in Unused : ~(<<m, k>> \in R)
    BY <2>1, <2>2, WFMin, Zenon
  <2>5. \A m \in Unused : m \in Nat /\ k \in Nat /\ ~(m < k)
    BY <2>1, <2>3, <2>4
  <2>6. QED
    BY <2>5
<1>3. FreeRow \in Unused
  BY <1>2 DEF FreeRow
<1>4. QED
  BY <1>1, <1>3

(* The handlers of users, one by one: generate_progress_work_log.           *)
LEMMA StartSound ==
  ASSUME ExportInv, Unused # {}, NEW state \in {"progress", "done"}, NEW i \in Issue, NEW t \in Text,
         NEW k, k = FreeRow, NEW x, x = Put(Now, k, NewLog(state, i, t))
  PROVE  /\ Sound(x) /\ k \in Row
         /\ IsRow(x.logs[k]) /\ x.logs[k].id = 0 /\ x.logs[k].state = state
<1> DEFINE l == NewLog(state, i, t)
<1>1. l \in Log /\ l.id = 0 /\ l.state = state /\ IsRow(l)
  BY NewLogIs
<1>2. k \in Unused /\ k \in Row /\ logs[k] = None
  BY FreeRowIs DEF ExportInv
<1>3. logs \in [Row -> Entry] /\ jira \in Server
  BY DEF ExportInv, TypeOK, Server, Entry
<1> HIDE DEF l
<1>4. /\ x.logs = [logs EXCEPT ![k] = l] /\ x.jira = jira /\ x.stray = {} /\ x.kept = {}
      /\ x.ok = TRUE /\ x.bad = 0 /\ Whole(x)
  <2>1. PutParts(Now, k, l, x)
    BY NowIs, PutIs DEF l
  <2>2. QED
    BY <2>1, NowIs DEF PutParts
<1>5. x \in Txn
  <2>1. [logs EXCEPT ![k] = l] \in [Row -> Entry]
    BY <1>1, <1>3 DEF Entry
  <2>2. x.jira \in Server /\ x.stray \in SUBSET Nat /\ x.kept \in SUBSET Nat
    BY <1>3, <1>4
  <2>3. x.logs \in [Row -> Entry]
    BY <1>4, <2>1
  <2>4. x.ok \in BOOLEAN
    BY <1>4
  <2>5. x.bad \in Nat
    BY <1>4
  <2>6. QED
    BY <1>4, <2>2, <2>3, <2>4, <2>5, TxnIs
<1>6. Sound(x)
  BY <1>1, <1>2, <1>4, <1>5, Constants, UntiedSound DEF IsRow
<1>7. QED
  BY <1>1, <1>2, <1>3, <1>4, <1>6

(* unlink.                                                                  *)
LEMMA UnlinkSound ==
  ASSUME ExportInv, NEW k \in Row, IsRow(logs[k]), NEW x \in Unlink(Now, k)
  PROVE  Sound(x)
<1> DEFINE s == logs[k].id
           z == Put(Now, k, Gone)
           n == IF Reachable(Now, k) THEN 1 ELSE 0
           failed == [z EXCEPT !.kept = @ \cup {s}, !.bad = @ + n]
<1>1. logs \in [Row -> Entry] /\ jira \in Server /\ DOMAIN jira \subseteq Nat
  BY DEF ExportInv, TypeOK, Server, Entry
<1>2. s # 0 => s \in DOMAIN jira
  BY DEF ExportInv, RowsRight, Tied
<1>3. s \in Nat /\ logs[k] # Gone /\ logs[k] # None
  BY <1>1 DEF Entry, Log, IsRow
<1>4. /\ z.logs = [logs EXCEPT ![k] = Gone] /\ z.jira = jira /\ z.stray = {} /\ z.kept = {}
      /\ z.ok = TRUE /\ z.bad = 0 /\ Whole(z)
  <2>1. PutParts(Now, k, Gone, z)
    BY NowIs, PutIs
  <2> HIDE DEF z
  <2>2. QED
    BY <2>1, NowIs DEF PutParts
<1>5. n \in Nat
  OBVIOUS
<1>6. \/ s = 0 /\ x = z
      \/ s # 0 /\ x = Deleted(z, s)
      \/ s # 0 /\ x = failed
  <2>1. Now.logs[k].id = s
    BY NowIs
  <2>2. QED
    BY <2>1 DEF Unlink
<1> HIDE DEF n, s, z
<1>7. /\ failed.logs = z.logs /\ failed.jira = z.jira
      /\ failed.stray = z.stray /\ failed.kept = z.kept \cup {s} /\ failed.ok = z.ok
      /\ failed.bad = z.bad + n /\ Whole(failed)
  <2>1. ASSUME NEW y, y = [z EXCEPT !.kept = @ \cup {s}, !.bad = @ + n]
        PROVE  /\ y.logs = z.logs /\ y.jira = z.jira
               /\ y.stray = z.stray /\ y.kept = z.kept \cup {s} /\ y.ok = z.ok
               /\ y.bad = z.bad + n /\ Whole(y)
    BY <1>4, <2>1 DEF Whole
  <2>2. QED
    BY <2>1
<1>8. DeletedParts(z, s, Deleted(z, s))
  BY <1>4, DeletedIs
<1> HIDE DEF failed
<1>9. /\ x.logs = [logs EXCEPT ![k] = Gone] /\ x.stray = {} /\ x.ok = TRUE /\ x.bad \in Nat
      /\ Whole(x)
      /\ \/ s = 0 /\ x.jira = jira /\ x.kept = {}
         \/ s # 0 /\ x.jira = [jira EXCEPT ![s] = Gone] /\ x.kept = {}
         \/ s # 0 /\ x.jira = jira /\ x.kept = {s}
  <2>1. CASE s = 0 /\ x = z
    BY <1>4, <2>1
  <2>2. CASE s # 0 /\ x = Deleted(z, s)
    BY <1>4, <1>8, <2>2 DEF DeletedParts
  <2>3. CASE s # 0 /\ x = failed
    <3>1. z.bad + n \in Nat /\ z.kept \cup {s} = {s}
      BY <1>4, <1>5
    <3>2. QED
      BY <1>4, <1>7, <2>3, <3>1
  <2>4. QED
    BY <1>6, <2>1, <2>2, <2>3
<1>10. x \in Txn
  <2>1. [logs EXCEPT ![k] = Gone] \in [Row -> Entry]
    BY <1>1 DEF Entry
  <2>2. s # 0 => [jira EXCEPT ![s] = Gone] \in Server
    BY <1>1, <1>2 DEF Server
  <2>3. {s} \in SUBSET Nat
    BY <1>3
  <2>4. x.jira \in Server /\ x.kept \in SUBSET Nat /\ x.stray \in SUBSET Nat
    BY <1>1, <1>9, <2>2, <2>3
  <2>5. QED
    BY <1>9, <2>1, <2>4, TxnIs
<1>11. x.stray = {} /\ x.kept \subseteq DOMAIN jira
  BY <1>2, <1>9
<1>12. x.jira = jira \/ \E r \in DOMAIN jira : x.jira = [jira EXCEPT ![r] = Gone]
  BY <1>2, <1>9
<1>13. s # 0 => x.jira[s] = Gone \/ s \in x.kept
  BY <1>1, <1>2, <1>9
<1>14. ~IsRow(Gone)
  BY DEF IsRow
<1>15. QED
  BY <1>3, <1>9, <1>10, <1>11, <1>12, <1>13, <1>14, UntiedSound DEF s
-----------------------------------------------------------------------------
LEMMA RestatedIs ==
  ASSUME NEW l \in Log, NEW t, NEW m, m = Restated(l, t)
  PROVE  /\ m \in Mark
         /\ m = "exported" => t = l.captured
BY DEF Restated, Mark, Log

(* A write that judges the mark anew.                                       *)
LEMMA RestateSound ==
  ASSUME TypeOK, NEW x, Sound(x), NEW k \in Row, IsRow(x.logs[k]), NEW t \in Text,
         NEW y, y = Says(x, k, t, Restated(x.logs[k], t))
  PROVE  Sound(y)
<1> DEFINE m == Restated(x.logs[k], t)
<1>1. x.logs[k] \in Log
  BY SoundFields
<1>2. m \in Mark /\ (m = "exported" => t = x.logs[k].captured)
  BY <1>1, RestatedIs
<1> HIDE DEF m
<1>3. y = Says(x, k, t, m)
  BY DEF m
<1>4. QED
  BY <1>2, <1>3, SaysSound

(* write of what a log says.                                                *)
LEMMA WriteSound ==
  ASSUME TypeOK, Single, NEW x, Sound(x), NEW k \in Row, IsRow(x.logs[k]), NEW t \in Text,
         NEW y \in Write(x, k, t)
  PROVE  Sound(y)
<1>1. CASE ~auto
  BY <1>1, RestateSound DEF Write
<1>2. CASE auto
  <2>1. PICK z \in ExportSpecific(x, {k}) :
          y = IF z.ok THEN SaysUnsent(z, k, t) ELSE Says(z, k, t, Restated(z.logs[k], t))
    BY <1>2 DEF Write
  <2>2. {k} \in SUBSET Row /\ \A m \in {k} : IsRow(x.logs[m])
    OBVIOUS
  <2>3. Sound(z) /\ Continues(x, z) /\ (z.ok => Current(z, k))
    BY <2>1, <2>2, SpecificSound
  <2>4. IsRow(z.logs[k])
    BY <2>3 DEF Continues, SameRows
  <2>5. CASE z.ok
    BY <2>1, <2>3, <2>4, <2>5, SaysUnsentSound
  <2>6. CASE ~z.ok
    BY <2>1, <2>3, <2>4, <2>6, RestateSound
  <2>7. QED
    BY <2>5, <2>6
<1>3. QED
  BY <1>1, <1>2

(* action_manual_work_log.                                                  *)
LEMMA ManualSound ==
  ASSUME ExportInv, Unused # {}, NEW i \in Issue, NEW t \in Text, NEW k, k = FreeRow,
         NEW x \in Manual(Now, k, i, t)
  PROVE  Sound(x)
<1> DEFINE z == Put(Now, k, NewLog("done", i, t))
<1>1. Sound(z) /\ k \in Row /\ IsRow(z.logs[k]) /\ z.logs[k].id = 0 /\ z.logs[k].state = "done"
  <2> DEFINE state == "done"
  <2>1. state \in {"progress", "done"}
    OBVIOUS
  <2>2. z = Put(Now, k, NewLog(state, i, t))
    OBVIOUS
  <2> HIDE DEF state, z
  <2>3. Sound(z) /\ k \in Row /\ IsRow(z.logs[k]) /\ z.logs[k].id = 0 /\ z.logs[k].state = state
    BY <2>1, <2>2, StartSound
  <2>4. QED
    BY <2>3 DEF state
<1>2. IF auto THEN \E y \in AddTimeLogs(z, {k}) : x = Swallowed(y) ELSE x = z
  BY DEF Manual
<1> HIDE DEF z
<1>3. CASE auto
  <2>1. PICK y \in AddTimeLogs(z, {k}) : x = Swallowed(y)
    BY <1>2, <1>3
  <2>2. TypeOK
    BY DEF ExportInv
  <2>3. z.logs[k] \in Log
    BY <1>1, <2>2, SoundFields
  <2>4. {k} \in SUBSET Row /\ Addable(z, {k})
    BY <1>1, <2>3 DEF Addable
  <2>5. Sound(y)
    BY <1>1, <2>1, <2>2, <2>4, AddLogsSound
  <2>6. QED
    BY <2>1, <2>5, SwallowedSound
<1>4. CASE ~auto
  BY <1>1, <1>2, <1>4
<1>5. QED
  BY <1>3, <1>4

(* export_time_log.                                                         *)
LEMMA ExportTimeLogSound ==
  ASSUME TypeOK, Single, NEW x, Sound(x), NEW i, NEW y \in ExportTimeLog(x, i)
  PROVE  Sound(y)
<1> DEFINE K == OfIssue(x.logs, i)
<1>1. PICK old \in SUBSET OnceExported(x, K) : y \in Export(x, K, old)
  BY DEF ExportTimeLog
<1>2. K \in SUBSET Row /\ \A k \in K : IsRow(x.logs[k])
  BY DEF OfIssue, Rows, IsRow
<1> HIDE DEF K
<1>3. QED
  BY <1>1, <1>2, ExportSound

(* action_done_work_log.                                                    *)
LEMMA DoneSound ==
  ASSUME TypeOK, Single, NEW x, Sound(x), NEW k \in Row, IsRow(x.logs[k]), x.logs[k].state = "progress",
         NEW t \in Text, NEW y \in Done(x, k, t)
  PROVE  Sound(y)
<1> DEFINE l == [x.logs[k] EXCEPT !.state = "done"]
           z == Put(x, k, l)
           Ended(v) == IF v.ok THEN SaysUnsent(v, k, t) ELSE Says(v, k, t, "changed")
<1>1. x.logs[k] \in Log /\ x \in Txn /\ Whole(x)
  BY SoundFields, TxnWhole DEF Sound
<1>2. Tied(x.logs[k], x.jira) /\ x.logs[k].id = 0
  BY DEF Sound, RowRight, Tied
<1>3. l \in Log /\ l.id = 0
  BY <1>1, <1>2 DEF Log
<1>4. IF auto
      THEN \E w \in ExportSpecific(z, {k}) :
             \E v \in ExportTimeLog(Ended(w), x.logs[k].issue) : y = Swallowed(v)
      ELSE y = Says(z, k, t, Restated(z.logs[k], t))
  BY DEF Done
<1> HIDE DEF l
<1>5. PutParts(x, k, l, z)
  BY <1>1, PutIs
<1> HIDE DEF z
<1>6. /\ z.logs = [x.logs EXCEPT ![k] = l] /\ z.jira = x.jira /\ z.stray = x.stray
      /\ z.kept = x.kept /\ z.ok = x.ok /\ z.bad = x.bad /\ Whole(z)
  BY <1>5 DEF PutParts
<1>7. Tied(l, x.jira) /\ MarkTrue(l, x.jira)
  BY <1>3 DEF Tied, MarkTrue, SentTrue, Marks
<1>8. Sound(z)
  <2>1. z.ok \in BOOLEAN
    BY <1>1, <1>6, TxnFields
  <2>2. QED
    BY <1>2, <1>3, <1>6, <1>7, <2>1, RowSound
<1>9. z.logs[k] = l /\ IsRow(z.logs[k])
  <2>1. x.logs \in [Row -> Entry]
    BY <1>1, TxnFields
  <2>2. z.logs[k] = l
    BY <1>6, <2>1
  <2>3. QED
    BY <1>3, <2>2, Constants DEF IsRow
<1>10. CASE auto
  <2>1. PICK w \in ExportSpecific(z, {k}) :
          \E v \in ExportTimeLog(Ended(w), x.logs[k].issue) : y = Swallowed(v)
    BY <1>4, <1>10
  <2>2. PICK v \in ExportTimeLog(Ended(w), x.logs[k].issue) : y = Swallowed(v)
    BY <2>1
  <2>3. {k} \in SUBSET Row /\ \A m \in {k} : IsRow(z.logs[m])
    BY <1>9
  <2>4. Sound(w) /\ Continues(z, w) /\ (w.ok => Current(w, k))
    BY <1>8, <2>1, <2>3, SpecificSound
  <2>5. IsRow(w.logs[k])
    BY <1>9, <2>4 DEF Continues, SameRows
  <2>6. Sound(Ended(w))
    <3>1. CASE w.ok
      BY <2>4, <2>5, <3>1, SaysUnsentSound
    <3>2. CASE ~w.ok
      BY <2>4, <2>5, <3>2, SaysSound DEF Mark
    <3>3. QED
      BY <3>1, <3>2
  <2> HIDE DEF Ended
  <2>7. Sound(v)
    BY <2>2, <2>6, ExportTimeLogSound
  <2>8. QED
    BY <2>2, <2>7, SwallowedSound
<1>11. CASE ~auto
  BY <1>4, <1>8, <1>9, <1>11, RestateSound
<1>12. QED
  BY <1>10, <1>11
-----------------------------------------------------------------------------
(* write of issue_id, for a marked log: it is tied to nothing afterwards.   *)
LEMMA MoveMarkedSound ==
  ASSUME ExportInv, NEW k \in Row, IsRow(logs[k]), NEW i \in Issue, NEW x \in MoveMarked(Now, k, i)
  PROVE  Sound(x)
<1> DEFINE s == logs[k].id
<1>1. logs \in [Row -> Entry] /\ jira \in Server /\ DOMAIN jira \subseteq Nat
  BY DEF ExportInv, TypeOK, Server, Entry
<1>2. s # 0 /\ s \in DOMAIN jira /\ logs[k] \in Log /\ logs[k] # None /\ logs[k] # Gone
  <2>1. Reachable(Now, k)
    BY DEF MoveMarked
  <2>2. s # 0
    BY <2>1, NowIs DEF Reachable
  <2>3. QED
    BY <1>1, <2>2 DEF ExportInv, RowsRight, Tied, IsRow, Entry
<1>3. PICK mark \in Mark :
        x = Deleted(Put(Now, k, [NewLog(logs[k].state, i, logs[k].text) EXCEPT !.mark = mark]), s)
  BY NowIs DEF MoveMarked, Mark
<1> DEFINE n == NewLog(logs[k].state, i, logs[k].text)
           l == [n EXCEPT !.mark = mark]
           z == Put(Now, k, l)
<1>4. n \in Log /\ n.id = 0
  <2>1. logs[k].state \in {"progress", "done"} /\ logs[k].text \in Text
    BY <1>2 DEF Log
  <2>2. QED
    BY <2>1, NewLogIs
<1> HIDE DEF n
<1>5. l \in Log /\ l.id = 0
  BY <1>4 DEF Log
<1>6. x = Deleted(z, s)
  BY <1>3 DEF n
<1> HIDE DEF l
<1>7. PutParts(Now, k, l, z)
  BY NowIs, PutIs
<1> HIDE DEF z, s
<1>8. DeletedParts(z, s, x)
  BY <1>6, <1>7, DeletedIs DEF PutParts
<1>9. /\ x.logs = [logs EXCEPT ![k] = l] /\ x.jira = [jira EXCEPT ![s] = Gone] /\ x.stray = {}
      /\ x.kept = {} /\ x.ok = TRUE /\ x.bad = 0 /\ Whole(x)
  BY <1>7, <1>8, NowIs DEF PutParts, DeletedParts
<1>10. x \in Txn
  <2>1. [logs EXCEPT ![k] = l] \in [Row -> Entry]
    BY <1>1, <1>5 DEF Entry
  <2>2. [jira EXCEPT ![s] = Gone] \in Server
    BY <1>1, <1>2 DEF Server
  <2>3. x.logs \in [Row -> Entry] /\ x.jira \in Server
    BY <1>9, <2>1, <2>2
  <2>4. x.ok \in BOOLEAN
    BY <1>9
  <2>5. x.bad \in Nat /\ x.stray \in SUBSET Nat /\ x.kept \in SUBSET Nat
    BY <1>9
  <2>6. QED
    BY <1>9, <2>3, <2>4, <2>5, TxnIs
<1>11. x.jira[s] = Gone
  BY <1>2, <1>9 DEF s
<1>12. QED
  BY <1>2, <1>5, <1>9, <1>10, <1>11, UntiedSound DEF s

(* For one that is not marked: it is adrift if it was tied.                 *)
LEMMA MoveUnmarkedSound ==
  ASSUME TypeOK, Single, NEW x, Sound(x), NEW k \in Row, IsRow(x.logs[k]), NEW i \in Issue,
         NEW y \in MoveUnmarked(x, k, i)
  PROVE  Sound(y)
<1>1. PICK z \in IF auto THEN ExportSpecific(x, {k}) ELSE {x} :
        y = Swallowed(Put(z, k, [z.logs[k] EXCEPT !.issue = i, !.adrift = @ \/ z.logs[k].id # 0,
                                         !.mark = IF auto /\ z.ok THEN "exported" ELSE @]))
  BY DEF MoveUnmarked
<1>2. Sound(z) /\ IsRow(z.logs[k]) /\ (auto /\ z.ok => Current(z, k))
  <2>1. CASE auto
    <3>1. {k} \in SUBSET Row /\ \A m \in {k} : IsRow(x.logs[m])
      OBVIOUS
    <3>2. Sound(z) /\ Continues(x, z) /\ (z.ok => Current(z, k))
      BY <1>1, <2>1, <3>1, SpecificSound
    <3>3. QED
      BY <3>2 DEF Continues, SameRows
  <2>2. CASE ~auto
    BY <1>1, <2>2
  <2>3. QED
    BY <2>1, <2>2
<1> DEFINE tied == z.logs[k].id # 0
           exported == auto /\ z.ok
           l == [z.logs[k] EXCEPT !.issue = i, !.adrift = @ \/ tied,
                                         !.mark = IF exported THEN "exported" ELSE @]
           v == Put(z, k, l)
<1>3. z \in Txn /\ Whole(z) /\ z.logs[k] \in Log
  BY <1>2, SoundFields, TxnWhole DEF Sound
<1>4. y = Swallowed(v)
  BY <1>1
<1>5. Tied(z.logs[k], z.jira) /\ MarkTrue(z.logs[k], z.jira)
  BY <1>2 DEF Sound, RowRight, MarkRight
<1>6. /\ l \in Log /\ l.id = z.logs[k].id /\ l.state = z.logs[k].state
      /\ l.id # 0 => l.adrift
      /\ l.text = z.logs[k].text /\ l.sent = z.logs[k].sent /\ l.captured = z.logs[k].captured
      /\ l.late = z.logs[k].late /\ l.behind = z.logs[k].behind
      /\ ~exported => l.mark = z.logs[k].mark
  <2>1. tied \in BOOLEAN /\ (tied <=> z.logs[k].id # 0)
    OBVIOUS
  <2> HIDE DEF tied, exported
  <2>2. /\ l \in Log /\ l.id = z.logs[k].id /\ l.state = z.logs[k].state
        /\ l.adrift = (z.logs[k].adrift \/ tied)
        /\ l.text = z.logs[k].text /\ l.sent = z.logs[k].sent /\ l.captured = z.logs[k].captured
        /\ l.late = z.logs[k].late /\ l.behind = z.logs[k].behind
        /\ ~exported => l.mark = z.logs[k].mark
    BY <1>3, <2>1 DEF Log, Mark
  <2> HIDE DEF l
  <2>3. QED
    BY <2>1, <2>2
<1> HIDE DEF l
<1>7. PutParts(z, k, l, v)
  BY <1>3, PutIs
<1> HIDE DEF v
<1>8. SwallowedParts(v, y)
  BY <1>4, <1>7, SwallowedIs DEF PutParts
<1>9. /\ y.logs = [z.logs EXCEPT ![k] = l] /\ y.jira = z.jira /\ y.stray = z.stray
      /\ y.kept = z.kept /\ y.ok = TRUE /\ y.bad = z.bad /\ Whole(y)
  BY <1>7, <1>8 DEF PutParts, SwallowedParts
<1>10. Tied(l, z.jira) /\ MarkTrue(l, z.jira)
  <2>1. Tied(l, z.jira) /\ SentTrue(l, z.jira)
    BY <1>5, <1>6 DEF Tied, MarkTrue, SentTrue
  <2>2. Marks(l)
    BY <1>2, <1>5, <1>6 DEF MarkTrue, Marks, Current
  <2>3. QED
    BY <2>1, <2>2 DEF MarkTrue
<1>11. y.ok \in BOOLEAN
  BY <1>9
<1>12. QED
  BY <1>2, <1>6, <1>9, <1>10, <1>11, RowSound

LEMMA MoveSound ==
  ASSUME ExportInv, NEW k \in Row, IsRow(logs[k]), NEW i \in Issue, NEW x \in Move(Now, k, i)
  PROVE  Sound(x)
<1>1. TypeOK /\ Single /\ Sound(Now) /\ IsRow(Now.logs[k])
  BY NowFacts DEF ExportInv
<1>2. CASE x \in MoveMarked(Now, k, i)
  BY <1>2, MoveMarkedSound
<1>3. CASE x \in MoveUnmarked(Now, k, i)
  BY <1>1, <1>3, MoveUnmarkedSound
<1>4. QED
  BY <1>2, <1>3 DEF Move
-----------------------------------------------------------------------------
(* The marks that force_export judges.                                      *)
CaptureOf(y, K, judged) == [k \in K |->
  IF auto /\ y.logs[k].id # 0 THEN "exported"
  ELSE IF y.logs[k].mark = "none" THEN "none"
  ELSE IF y.logs[k].captured = y.logs[k].text THEN "exported" ELSE judged]

CapturedParts(y, K, c, m) ==
  /\ c.logs = [k \in Row |-> IF k \in K THEN Capture(y.logs[k], m[k]) ELSE y.logs[k]]
  /\ c.jira = y.jira /\ c.stray = y.stray /\ c.kept = y.kept /\ c.ok = TRUE /\ c.bad = y.bad
  /\ Whole(c)

LEMMA CapturedIs ==
  ASSUME NEW y, Whole(y), NEW K \in SUBSET Row, NEW judged \in Mark
  PROVE  /\ CapturedParts(y, K, Captured(y, K, judged), CaptureOf(y, K, judged))
         /\ \A k \in K : CaptureOf(y, K, judged)[k] \in Mark
<1>1. ASSUME NEW c, c = Captured(y, K, judged)
      PROVE  CapturedParts(y, K, c, CaptureOf(y, K, judged))
  BY <1>1 DEF Captured, Whole, CapturedParts, CaptureOf
<1>2. \A k \in K : CaptureOf(y, K, judged)[k] \in Mark
  BY DEF CaptureOf, Mark
<1>3. QED
  BY <1>1, <1>2

LEMMA CaptureIs ==
  ASSUME NEW l \in Log, NEW mark \in Mark, NEW m, m = Capture(l, mark)
  PROVE  /\ m \in Log /\ m.state = l.state /\ m.issue = l.issue /\ m.id = l.id
         /\ m.adrift = l.adrift /\ m.sent = l.sent /\ m.captured = m.text
BY DEF Log, Mark, Capture

(* What is captured is what the logs say, so that their marks may say it.   *)
LEMMA CapturedSound ==
  ASSUME TypeOK, NEW y, Sound(y), NEW K \in SUBSET Row,
         \A k \in K : IsRow(y.logs[k]),
         NEW judged \in Mark, NEW c, c = Captured(y, K, judged)
  PROVE  Sound(c) /\ \A k \in K : IsRow(c.logs[k])
<1> DEFINE m == CaptureOf(y, K, judged)
<1>1. y \in Txn /\ Whole(y) /\ y.logs \in [Row -> Entry] /\ \A k \in K : y.logs[k] \in Log
  BY TxnWhole, SoundFields DEF Sound
<1>2. CapturedParts(y, K, c, m) /\ \A k \in K : m[k] \in Mark
  BY <1>1, CapturedIs
<1> HIDE DEF m
<1>3. /\ c.logs = [k \in Row |-> IF k \in K THEN Capture(y.logs[k], m[k]) ELSE y.logs[k]]
      /\ c.jira = y.jira /\ c.stray = y.stray /\ c.kept = y.kept /\ c.ok = TRUE /\ c.bad = y.bad
      /\ Whole(c)
  BY <1>2 DEF CapturedParts
<1>4. \A k \in Row \ K : c.logs[k] = y.logs[k]
  BY <1>3
<1>5. \A k \in K : /\ c.logs[k] \in Log /\ IsRow(c.logs[k])
                   /\ c.logs[k].state = y.logs[k].state
                   /\ c.logs[k].issue = y.logs[k].issue /\ c.logs[k].id = y.logs[k].id
                   /\ c.logs[k].adrift = y.logs[k].adrift /\ c.logs[k].sent = y.logs[k].sent
                   /\ c.logs[k].captured = c.logs[k].text
  <2> SUFFICES ASSUME NEW k \in K
               PROVE  /\ c.logs[k] \in Log /\ IsRow(c.logs[k])
                      /\ c.logs[k].state = y.logs[k].state
                      /\ c.logs[k].issue = y.logs[k].issue /\ c.logs[k].id = y.logs[k].id
                      /\ c.logs[k].adrift = y.logs[k].adrift /\ c.logs[k].sent = y.logs[k].sent
                      /\ c.logs[k].captured = c.logs[k].text
    OBVIOUS
  <2>1. c.logs[k] = Capture(y.logs[k], m[k])
    BY <1>3
  <2>2. /\ c.logs[k] \in Log
        /\ c.logs[k].state = y.logs[k].state
        /\ c.logs[k].issue = y.logs[k].issue /\ c.logs[k].id = y.logs[k].id
        /\ c.logs[k].adrift = y.logs[k].adrift /\ c.logs[k].sent = y.logs[k].sent
        /\ c.logs[k].captured = c.logs[k].text
    BY <1>1, <1>2, <2>1, CaptureIs
  <2>3. QED
    BY <2>2, Constants DEF IsRow
<1>6. c \in Txn
  <2>1. \A k \in Row : c.logs[k] \in Entry
    BY <1>1, <1>4, <1>5 DEF Entry
  <2>2. c.logs = [k \in Row |-> c.logs[k]]
    BY <1>3
  <2>3. c.logs \in [Row -> Entry]
    BY <2>1, <2>2
  <2>4. c.jira \in Server /\ c.stray \in SUBSET Nat /\ c.kept \in SUBSET Nat /\ c.bad \in Nat
    BY <1>1, <1>3, TxnFields
  <2>5. c.ok \in BOOLEAN
    BY <1>3
  <2>6. QED
    BY <1>3, <2>3, <2>4, <2>5, TxnIs
<1>7. \A k \in Row : IsRow(y.logs[k]) => Tied(y.logs[k], y.jira) /\ MarkTrue(y.logs[k], y.jira)
  BY DEF Sound, RowRight, MarkRight
<1>8. \A k \in Row : /\ IsRow(c.logs[k]) <=> IsRow(y.logs[k])
                     /\ ~IsRow(y.logs[k]) => c.logs[k] = y.logs[k]
                     /\ IsRow(y.logs[k]) =>
                          /\ c.logs[k].id = y.logs[k].id
                          /\ Tied(c.logs[k], y.jira)
                          /\ MarkTrue(c.logs[k], y.jira)
  <2> SUFFICES ASSUME NEW k \in Row
               PROVE  /\ IsRow(c.logs[k]) <=> IsRow(y.logs[k])
                      /\ ~IsRow(y.logs[k]) => c.logs[k] = y.logs[k]
                      /\ IsRow(y.logs[k]) =>
                           /\ c.logs[k].id = y.logs[k].id
                           /\ Tied(c.logs[k], y.jira)
                           /\ MarkTrue(c.logs[k], y.jira)
    OBVIOUS
  <2>1. CASE k \in K
    <3>1. Tied(c.logs[k], y.jira)
      BY <1>5, <1>7, <2>1 DEF Tied
    <3>2. MarkTrue(c.logs[k], y.jira)
      BY <1>5, <1>7, <2>1 DEF MarkTrue, SentTrue, Marks
    <3>3. QED
      BY <1>5, <2>1, <3>1, <3>2
  <2>2. CASE k \notin K
    BY <1>4, <1>7, <2>2
  <2>3. QED
    BY <2>1, <2>2
<1>9. Sound(c)
  BY <1>3, <1>6, <1>8, RowsSound
<1>10. QED
  BY <1>5, <1>9

(* With auto export on, the writes of force_export export all.              *)
LEMMA ByWritesSound ==
  ASSUME TypeOK, Single, NEW x, Sound(x), NEW K \in SUBSET Row,
         \A k \in K : IsRow(x.logs[k]),
         NEW y \in ByWrites(x, K)
  PROVE  Sound(y) /\ Continues(x, y)
<1>1. CASE ~auto
  BY <1>1, ContinuesItself DEF ByWrites
<1>2. CASE auto
  <2> DEFINE old == OnceExported(x, K)
             U == Unexported(x, K)
  <2>1. PICK z \in AddTimeLogs(x, U) : y \in UpdateTimeLogs(z, old)
    BY <1>2 DEF ByWrites
  <2>2. /\ U \in SUBSET Row /\ Addable(x, U) /\ old \in SUBSET Row
        /\ \A k \in old : IsRow(x.logs[k]) /\ x.logs[k].id # 0
    BY ToExport
  <2> HIDE DEF U, old
  <2>3. Sound(z) /\ Continues(x, z)
    BY <2>1, <2>2, AddLogsSound
  <2>4. \A k \in old : IsRow(z.logs[k]) /\ z.logs[k].id # 0
    BY <2>2, <2>3 DEF Continues, SameRows
  <2>5. Sound(y) /\ Continues(z, y)
    BY <2>1, <2>2, <2>3, <2>4, UpdateLogsSound
  <2>6. QED
    BY <2>3, <2>5, ContinuesOn
<1>3. QED
  BY <1>1, <1>2

(* force_export.                                                            *)
LEMMA ForceExportSound ==
  ASSUME TypeOK, Single, NEW x, Sound(x), NEW K \in SUBSET Row,
         \A k \in K : IsRow(x.logs[k]),
         NEW w \in ForceExport(x, K)
  PROVE  Sound(w)
<1>1. PICK y \in ByWrites(x, K), judged \in Mark :
        \E z \in ExportSpecific(Captured(y, K, judged), K) : w = Swallowed(z)
  <2>1. {"exported", "changed"} \subseteq Mark
    BY DEF Mark
  <2>2. QED
    BY <2>1 DEF ForceExport
<1> DEFINE c == Captured(y, K, judged)
<1>2. PICK z \in ExportSpecific(c, K) : w = Swallowed(z)
  BY <1>1
<1>3. Sound(y) /\ \A k \in K : IsRow(y.logs[k])
  <2>1. Sound(y) /\ Continues(x, y)
    BY <1>1, ByWritesSound
  <2>2. QED
    BY <2>1 DEF Continues, SameRows
<1>4. Sound(c) /\ \A k \in K : IsRow(c.logs[k])
  BY <1>1, <1>3, CapturedSound
<1> HIDE DEF c
<1>5. Sound(z)
  BY <1>2, <1>4, SpecificSound
<1>6. QED
  BY <1>2, <1>5, SwallowedSound
-----------------------------------------------------------------------------
(* The parts of the invariant, and types.                                   *)
LEMMA Invariants ==
  ASSUME ExportInv
  PROVE  /\ TypeOK /\ RowsRight /\ Single /\ Known /\ Origins /\ OpenUser /\ OpenImported
         /\ auto \in BOOLEAN
         /\ logs \in [Row -> Entry] /\ jira \in Server /\ Len(jira) \in Nat /\ Len(jira) <= MaxPosts
         /\ DOMAIN jira = 1..Len(jira)
         /\ \A s \in DOMAIN jira : jira[s] = Gone \/ (jira[s] \in WorkLog /\ jira[s].origin \in Row)
         /\ open \in Transient \cup {None} /\ steps \in 0..MaxSteps
         /\ stray \subseteq DOMAIN jira /\ raced \subseteq DOMAIN jira /\ kept \subseteq DOMAIN jira
<1>1. TypeOK /\ RowsRight /\ Single /\ Known /\ Origins /\ OpenUser /\ OpenImported
  BY DEF ExportInv
<1>2. logs \in [Row -> Entry] /\ jira \in Server /\ jira \in Seq(WorkLog \cup {Gone})
  BY <1>1 DEF TypeOK, Entry, Server
<1>3. Len(jira) \in Nat /\ DOMAIN jira = 1..Len(jira)
  BY <1>2
<1>4. \A s \in DOMAIN jira : jira[s] = Gone \/ (jira[s] \in WorkLog /\ jira[s].origin \in Row)
  BY <1>2 DEF WorkLog
<1>5. QED
  BY <1>1, <1>2, <1>3, <1>4 DEF TypeOK

(* Types after a step.                                                      *)
LEMMA TypeHolds ==
  ASSUME auto' \in BOOLEAN, logs' \in [Row -> Entry], jira' \in Server, Len(jira') <= MaxPosts,
         open' \in Transient \cup {None}, steps' \in 0..MaxSteps,
         stray' \subseteq DOMAIN jira', raced' \subseteq DOMAIN jira', kept' \subseteq DOMAIN jira',
         \A k \in Row : IsRow(logs'[k]) => Tied(logs'[k], jira')
  PROVE  TypeOK'
<1>1. \A k \in Rows(logs') : logs'[k].id \in {0} \cup DOMAIN jira'
  BY DEF Rows, IsRow, Tied
<1>2. QED
  BY <1>1 DEF TypeOK, Entry, Server, Rows

(* An entry of the server is kept, deleted, or others have changed it.     *)
Overtaken(w, v) == v = w \/ v = Gone \/ (Renewed(w, v) /\ v.foreign)

(* What is right beside the server is right beside it after its step.      *)
LEMMA StepKeeps ==
  ASSUME NEW J, NEW J2, DOMAIN J \subseteq DOMAIN J2, \A s \in DOMAIN J : Overtaken(J[s], J2[s]),
         NEW l
  PROVE  /\ Tied(l, J) => Tied(l, J2)
         /\ Tied(l, J) /\ MarkTrue(l, J) => MarkTrue(l, J2)
BY DEF Tied, MarkTrue, SentTrue, Overtaken, Renewed

(* A transaction that goes on stays right when the rows of others and the  *)
(* server change.                                                          *)
LEMMA OpenKeeps ==
  ASSUME ExportInv,
         jira' \in Server, Len(jira) <= Len(jira'),
         open # None => \A s \in DOMAIN jira : Overtaken(jira[s], jira'[s]),
         raced' = raced, stray \subseteq stray',
         NEW K \in SUBSET Row, Touch(K), \A k \in Row \ K : logs'[k] = logs[k],
         \A k \in Row, s \in DOMAIN jira : Holds(logs'[k], s) => Holds(logs[k], s)
  PROVE  OpenUser' /\ OpenImported' /\ Pending' = Pending /\ open' \in Transient \cup {None}
<1>1. /\ OpenUser /\ OpenImported /\ Len(jira) \in Nat /\ DOMAIN jira = 1..Len(jira)
      /\ open \in Transient \cup {None}
  BY Invariants
<1>2. Len(jira') \in Nat /\ DOMAIN jira' = 1..Len(jira') /\ DOMAIN jira \subseteq DOMAIN jira'
  <2>1. Len(jira') \in Nat /\ DOMAIN jira' = 1..Len(jira')
    BY DEF Server
  <2>2. QED
    BY <1>1, <2>1
<1>3. CASE open = None
  <2>1. open' = None
    BY <1>3 DEF Touch
  <2>2. QED
    BY <1>3, <2>1 DEF OpenUser, OpenImported, Pending
<1>4. CASE open # None
  <2>1. /\ open \in Transient
        /\ open' = [open EXCEPT !.touched = @ \cup K]
    BY <1>1, <1>4 DEF Touch
  <2>2. /\ open'.kind = open.kind /\ open'.wrote = open.wrote /\ open'.logs = open.logs
        /\ open'.kept = open.kept /\ open'.posted = open.posted
        /\ open'.touched = open.touched \cup K /\ open' \in Transient
        /\ open.wrote \subseteq Row
    BY <2>1 DEF Transient
  <2>3. \A l : /\ Tied(l, jira) => Tied(l, jira')
               /\ Tied(l, jira) /\ MarkTrue(l, jira) => MarkTrue(l, jira')
    BY <1>2, <1>4, StepKeeps
  <2>4. \A l : MarkTrue(l, jira)' <=> MarkTrue(l, jira')
    BY DEF MarkTrue, SentTrue
  <2>5. \A s \in DOMAIN jira : jira[s] = Gone => jira'[s] = Gone
    BY <1>4 DEF Overtaken, Renewed
  <2>6. ASSUME open.kind = "user"
        PROVE  OpenUser'
    <3>1. /\ open.posted \cup open.kept \subseteq DOMAIN jira
          /\ \A k \in open.wrote : OpenRow(k)
          /\ \A k, m \in open.wrote, s \in open.posted :
               Holds(open.logs[k], s) /\ Holds(open.logs[m], s) => k = m
          /\ \A s \in open.posted :
               \/ jira[s] = Gone \/ s \in stray
               \/ jira[s].origin \in open.wrote /\ Holds(open.logs[jira[s].origin], s)
          /\ \A k \in Row, s \in open.posted : Holds(logs[k], s) => s \in raced
      BY <1>1, <1>4, <2>6 DEF OpenUser
    <3>2. ASSUME NEW k \in open.wrote PROVE OpenRow(k)'
      <4>1. open'.logs[k] # None /\ (IsRow(open'.logs[k]) => Tied(open'.logs[k], jira'))
        BY <2>2, <2>3, <3>1 DEF OpenRow
      <4>2. ASSUME k \notin open'.touched
            PROVE  /\ logs'[k] # Gone
                   /\ IsRow(open'.logs[k]) =>
                        /\ MarkTrue(open'.logs[k], jira')
                        /\ \/ open'.logs[k].id = 0
                           \/ open'.logs[k].id \in open'.posted
                           \/ Holds(logs'[k], open'.logs[k].id)
                   /\ IsRow(logs'[k]) /\ logs'[k].id # 0 =>
                        \/ Holds(open'.logs[k], logs'[k].id)
                        \/ jira'[logs'[k].id] = Gone
                        \/ open'.logs[k] = Gone /\ logs'[k].id \in open'.kept
        <5>1. k \notin open.touched /\ logs'[k] = logs[k] /\ k \in Row
          BY <2>2, <4>2
        <5>2. IsRow(logs[k]) /\ logs[k].id # 0 => logs[k].id \in DOMAIN jira
          BY <5>1, Invariants DEF RowsRight, Tied
        <5>3. OpenRow(k)
          BY <3>1
        <5>4. IsRow(open.logs[k]) => MarkTrue(open.logs[k], jira')
          BY <2>3, <5>1, <5>3 DEF OpenRow
        <5>5. QED
          BY <2>2, <2>5, <5>1, <5>2, <5>3, <5>4 DEF OpenRow
      <4>3. QED
        BY <4>1, <4>2, <2>4 DEF OpenRow
    <3>3. \A s \in open.posted :
             \/ jira'[s] = Gone \/ s \in stray'
             \/ jira'[s].origin \in open.wrote /\ Holds(open.logs[jira'[s].origin], s)
      BY <1>4, <3>1 DEF Overtaken, Renewed
    <3>4. \A k \in Row, s \in open.posted : Holds(logs'[k], s) => s \in raced'
      BY <3>1
    <3>5. open'.posted \cup open'.kept \subseteq DOMAIN jira'
      BY <1>2, <2>2, <3>1
    <3>6. QED
      BY <2>2, <3>1, <3>2, <3>3, <3>4, <3>5 DEF OpenUser
  <2>7. ASSUME open.kind = "import"
        PROVE  OpenImported'
    <3>1. /\ open.posted \subseteq DOMAIN jira /\ open.wrote = {}
          /\ \A k \in Row \ open.touched : logs[k] = open.logs[k]
          /\ \A k \in Row, s \in open.posted : Holds(logs[k], s) => Holds(open.logs[k], s)
      BY <1>1, <1>4, <2>7 DEF OpenImported
    <3>2. \A k \in Row \ open'.touched : logs'[k] = open'.logs[k]
      BY <2>2, <3>1
    <3>3. \A k \in Row, s \in open'.posted : Holds(logs'[k], s) => Holds(open'.logs[k], s)
      BY <2>2, <3>1
    <3>4. QED
      BY <1>2, <2>2, <3>1, <3>2, <3>3 DEF OpenImported
  <2>8. OpenUser' /\ OpenImported'
    <3>1. open.kind # "user" => OpenUser'
      BY <2>2 DEF OpenUser
    <3>2. open.kind # "import" => OpenImported'
      BY <2>2 DEF OpenImported
    <3>3. QED
      BY <2>6, <2>7, <3>1, <3>2
  <2>9. open' # None
    BY <2>2, Constants
  <2>10. Pending' = Pending
    BY <1>4, <2>2, <2>9 DEF Pending
  <2>11. QED
    BY <2>2, <2>8, <2>10
<1>5. QED
  BY <1>3, <1>4
-----------------------------------------------------------------------------
(* The server has changed, and what was posted there is stray.             *)
LEMMA ServerMoved ==
  ASSUME ExportInv, UNCHANGED <<auto, logs, open, raced, kept>>,
         jira' \in Server, Len(jira) <= Len(jira'), Len(jira') <= MaxPosts,
         steps' \in 0..MaxSteps,
         \A s \in DOMAIN jira : Overtaken(jira[s], jira'[s]),
         \A s \in (Len(jira) + 1)..Len(jira') : jira'[s] # Gone /\ jira'[s].new /\ s \in stray',
         stray \subseteq stray', stray' \subseteq DOMAIN jira'
  PROVE  ExportInv'
<1>1. /\ TypeOK /\ RowsRight /\ Single /\ Known /\ Origins
      /\ auto \in BOOLEAN
      /\ logs \in [Row -> Entry] /\ Len(jira) \in Nat /\ DOMAIN jira = 1..Len(jira)
      /\ \A s \in DOMAIN jira : jira[s] = Gone \/ (jira[s] \in WorkLog /\ jira[s].origin \in Row)
      /\ open \in Transient \cup {None}
      /\ raced \subseteq DOMAIN jira /\ kept \subseteq DOMAIN jira
  BY Invariants
<1>2. Len(jira') \in Nat /\ DOMAIN jira' = 1..Len(jira') /\ DOMAIN jira \subseteq DOMAIN jira'
  <2>1. Len(jira') \in Nat /\ DOMAIN jira' = 1..Len(jira')
    BY DEF Server
  <2>2. QED
    BY <1>1, <2>1
<1>3. \A l : /\ Tied(l, jira) => Tied(l, jira')
             /\ Tied(l, jira) /\ MarkTrue(l, jira) => MarkTrue(l, jira')
  BY <1>2, StepKeeps
<1>4. \A l : MarkTrue(l, jira)' <=> MarkTrue(l, jira')
  BY DEF MarkTrue, SentTrue
<1>5. \A k \in Row : IsRow(logs[k]) => Tied(logs[k], jira') /\ MarkTrue(logs[k], jira')
  BY <1>1, <1>3 DEF RowsRight
<1>6. TypeOK'
  <2>1. logs' = logs /\ auto' = auto /\ open' = open /\ raced' = raced /\ kept' = kept
    OBVIOUS
  <2>2. raced' \subseteq DOMAIN jira' /\ kept' \subseteq DOMAIN jira'
    BY <1>1, <1>2, <2>1
  <2>3. QED
    BY <1>1, <1>5, <2>1, <2>2, TypeHolds
<1>7. RowsRight'
  BY <1>5 DEF RowsRight, MarkTrue, SentTrue
<1>8. \A s \in DOMAIN jira' : s \in DOMAIN jira \/ s \in (Len(jira) + 1)..Len(jira')
  BY <1>1, <1>2
<1>9. \A k \in Row, s \in DOMAIN jira' : Holds(logs[k], s) => s \in DOMAIN jira
  <2> SUFFICES ASSUME NEW k \in Row, NEW s \in DOMAIN jira', Holds(logs[k], s)
               PROVE  s \in DOMAIN jira
    OBVIOUS
  <2>1. s # 0
    BY <1>2
  <2>2. QED
    BY <1>1, <2>1 DEF Holds, RowsRight, Tied
<1>10. Single'
  BY <1>1, <1>9 DEF Single
<1>11. Known'
  <2> SUFFICES ASSUME NEW s \in DOMAIN jira'
               PROVE  jira'[s] = Gone \/ jira'[s].new \/ s \in kept \/ \E k \in Row : Holds(logs[k], s)
    BY DEF Known
  <2>1. CASE s \in DOMAIN jira
    BY <1>1, <2>1 DEF Known, Overtaken, Renewed
  <2>2. QED
    BY <1>8, <2>1
<1>12. OpenUser' /\ OpenImported' /\ Pending' = Pending
  <2>1. Touch({})
    BY <1>1 DEF Touch, Transient
  <2>2. {} \in SUBSET Row /\ \A k \in Row \ {} : logs'[k] = logs[k]
    OBVIOUS
  <2>3. \A k \in Row, s \in DOMAIN jira : Holds(logs'[k], s) => Holds(logs[k], s)
    OBVIOUS
  <2>4. QED
    BY <2>1, <2>2, <2>3, OpenKeeps
<1>13. Origins'
  <2> SUFFICES ASSUME NEW s \in DOMAIN jira'
               PROVE  jira'[s] = Gone \/ s \in stray' \cup Pending
                        \/ logs[jira'[s].origin] = Gone \/ Holds(logs[jira'[s].origin], s)
    BY <1>12 DEF Origins
  <2>1. CASE s \in DOMAIN jira
    BY <1>1, <2>1 DEF Origins, Overtaken, Renewed
  <2>2. QED
    BY <1>8, <2>1
<1>14. QED
  BY <1>6, <1>7, <1>10, <1>11, <1>12, <1>13 DEF ExportInv

(* What the end of a transaction has to know of it.                         *)
LEMMA SoundParts ==
  ASSUME ExportInv, NEW x, Sound(x)
  PROVE  /\ x.logs \in [Row -> Entry] /\ x.jira \in Server /\ x.stray \in SUBSET Nat
         /\ x.kept \subseteq DOMAIN jira /\ x.bad \in Nat
         /\ Len(x.jira) \in Nat /\ DOMAIN x.jira = 1..Len(x.jira) /\ Len(jira) <= Len(x.jira)
         /\ DOMAIN jira \subseteq DOMAIN x.jira
         /\ \A s \in DOMAIN jira : ServerStep(jira[s], x.jira[s])
         /\ \A s \in Posted(x) : x.jira[s] # Gone /\ x.jira[s].new /\ x.jira[s].origin \in Row
         /\ x.stray \subseteq Posted(x)
         /\ Posted(x) = (Len(jira) + 1)..Len(x.jira) /\ Posted(x) \subseteq DOMAIN x.jira
         /\ \A s \in DOMAIN x.jira : s \in DOMAIN jira \/ s \in Posted(x)
         /\ \A s \in DOMAIN jira : s \notin Posted(x)
         /\ \A k \in Row : RowMoved(x, k)
         /\ \A k \in Row : IsRow(x.logs[k]) => Tied(x.logs[k], x.jira) /\ MarkTrue(x.logs[k], x.jira)
         /\ \A k, m \in Row, s \in Posted(x) : Holds(x.logs[k], s) /\ Holds(x.logs[m], s) => k = m
         /\ \A s \in Posted(x) \ x.stray : Holds(x.logs[x.jira[s].origin], s)
<1>1. TypeOK
  BY DEF ExportInv
<1>2. /\ x.logs \in [Row -> Entry] /\ x.jira \in Server /\ x.stray \in SUBSET Nat
      /\ x.bad \in Nat /\ Len(jira) \in Nat /\ DOMAIN jira = 1..Len(jira)
      /\ Len(x.jira) \in Nat /\ DOMAIN x.jira = 1..Len(x.jira) /\ Len(jira) <= Len(x.jira)
      /\ Posted(x) = (Len(jira) + 1)..Len(x.jira)
      /\ \A s \in 1..Len(x.jira) : x.jira[s] = Gone \/ x.jira[s] \in WorkLog
  BY <1>1, SoundFields
<1>3. /\ \A s \in DOMAIN jira : ServerStep(jira[s], x.jira[s])
      /\ \A s \in Posted(x) : x.jira[s] # Gone /\ x.jira[s].new
      /\ x.stray \subseteq Posted(x) /\ x.kept \subseteq DOMAIN jira
      /\ \A k \in Row : RowMoved(x, k) /\ RowRight(x, k) /\ MarkRight(x, k)
      /\ \A k, m \in Row, s \in Posted(x) : Holds(x.logs[k], s) /\ Holds(x.logs[m], s) => k = m
      /\ \A s \in Posted(x) \ x.stray : Holds(x.logs[x.jira[s].origin], s)
  BY DEF Sound
<1>4. /\ DOMAIN jira \subseteq DOMAIN x.jira /\ Posted(x) \subseteq DOMAIN x.jira
      /\ \A s \in DOMAIN x.jira : s \in DOMAIN jira \/ s \in Posted(x)
      /\ \A s \in DOMAIN jira : s \notin Posted(x)
  BY <1>2
<1>5. \A s \in Posted(x) : x.jira[s].origin \in Row
  BY <1>2, <1>3, <1>4 DEF WorkLog
<1>6. \A k \in Row : IsRow(x.logs[k]) => Tied(x.logs[k], x.jira) /\ MarkTrue(x.logs[k], x.jira)
  BY <1>3 DEF RowRight, MarkRight
<1>7. QED
  BY <1>2, <1>3, <1>4, <1>5, <1>6

(* What a transaction did on the server, as others see it: the same, but    *)
(* for those that overlap with it.                                          *)
PublishedParts(x, J) ==
  /\ x.logs \in [Row -> Entry] /\ J \in Server /\ x.kept \subseteq DOMAIN jira /\ x.bad \in Nat
  /\ DOMAIN J = 1..Len(J) /\ Len(J) \in Nat /\ Len(J) = Len(x.jira)
  /\ Len(jira) <= Len(J) /\ DOMAIN jira \subseteq DOMAIN J
  /\ \A s \in DOMAIN jira : ServerStep(jira[s], J[s])
  /\ J = Overlapped(x) => \A s \in DOMAIN jira : Overtaken(jira[s], J[s])
  /\ \A s \in Posted(x) : J[s] # Gone /\ J[s].new /\ J[s].origin \in Row
  /\ x.stray \subseteq Posted(x) /\ Posted(x) \subseteq DOMAIN J
  /\ Posted(x) = (Len(jira) + 1)..Len(J)
  /\ \A s \in DOMAIN J : s \in DOMAIN jira \/ s \in Posted(x)
  /\ \A s \in DOMAIN jira : s \notin Posted(x)
  /\ \A k \in Row : RowMoved(x, k)
  /\ \A s \in DOMAIN J : J[s] = Gone <=> x.jira[s] = Gone
  /\ \A k \in Row : IsRow(x.logs[k]) => Tied(x.logs[k], J) /\ MarkTrue(x.logs[k], J)
  /\ \A k, m \in Row, s \in Posted(x) : Holds(x.logs[k], s) /\ Holds(x.logs[m], s) => k = m
  /\ \A s \in Posted(x) \ x.stray : Holds(x.logs[J[s].origin], s)

LEMMA Published ==
  ASSUME ExportInv, NEW x, Sound(x), NEW J, J \in {x.jira, Overlapped(x)}
  PROVE  PublishedParts(x, J)
<1>1. /\ x.logs \in [Row -> Entry] /\ x.jira \in Server /\ x.kept \subseteq DOMAIN jira
      /\ x.bad \in Nat /\ Len(x.jira) \in Nat /\ DOMAIN x.jira = 1..Len(x.jira)
      /\ Len(jira) <= Len(x.jira) /\ DOMAIN jira \subseteq DOMAIN x.jira
      /\ \A s \in DOMAIN jira : ServerStep(jira[s], x.jira[s])
      /\ \A s \in Posted(x) : x.jira[s] # Gone /\ x.jira[s].new /\ x.jira[s].origin \in Row
      /\ x.stray \subseteq Posted(x)
      /\ Posted(x) = (Len(jira) + 1)..Len(x.jira) /\ Posted(x) \subseteq DOMAIN x.jira
      /\ \A s \in DOMAIN x.jira : s \in DOMAIN jira \/ s \in Posted(x)
      /\ \A s \in DOMAIN jira : s \notin Posted(x)
      /\ \A k \in Row : RowMoved(x, k)
      /\ \A k \in Row : IsRow(x.logs[k]) => Tied(x.logs[k], x.jira) /\ MarkTrue(x.logs[k], x.jira)
      /\ \A k, m \in Row, s \in Posted(x) : Holds(x.logs[k], s) /\ Holds(x.logs[m], s) => k = m
      /\ \A s \in Posted(x) \ x.stray : Holds(x.logs[x.jira[s].origin], s)
  BY SoundParts
<1>2. \A s \in DOMAIN x.jira : x.jira[s] = Gone \/ x.jira[s] \in WorkLog
  BY <1>1 DEF Server
<1>3. CASE J = Overlapped(x)
  <2>1. /\ J = [s \in DOMAIN x.jira |-> J[s]] /\ DOMAIN J = DOMAIN x.jira
        /\ \A s \in DOMAIN x.jira :
             J[s] = IF s \in DOMAIN jira /\ x.jira[s] \notin {jira[s], Gone}
                    THEN [x.jira[s] EXCEPT !.foreign = TRUE] ELSE x.jira[s]
    BY <1>3 DEF Overlapped
  <2>2. \A s \in DOMAIN x.jira :
          \/ J[s] = x.jira[s]
          \/ /\ J[s] \in WorkLog /\ x.jira[s] # Gone /\ J[s].foreign
             /\ J[s].issue = x.jira[s].issue /\ J[s].text = x.jira[s].text
             /\ J[s].new = x.jira[s].new /\ J[s].origin = x.jira[s].origin
    <3> SUFFICES ASSUME NEW s \in DOMAIN x.jira, s \in DOMAIN jira, x.jira[s] \notin {jira[s], Gone}
                 PROVE  /\ J[s] \in WorkLog /\ J[s].foreign
                        /\ J[s].issue = x.jira[s].issue /\ J[s].text = x.jira[s].text
                        /\ J[s].new = x.jira[s].new /\ J[s].origin = x.jira[s].origin
      BY <2>1
    <3>1. x.jira[s] \in WorkLog
      BY <1>2
    <3>2. J[s] = [x.jira[s] EXCEPT !.foreign = TRUE]
      BY <2>1
    <3>3. QED
      BY <3>1, <3>2 DEF WorkLog
  <2>3. \A s \in DOMAIN x.jira : J[s] = Gone <=> x.jira[s] = Gone
    BY <2>2, Constants
  <2>4. \A s \in DOMAIN jira : Overtaken(jira[s], J[s])
    <3> SUFFICES ASSUME NEW s \in DOMAIN jira PROVE Overtaken(jira[s], J[s])
      OBVIOUS
    <3>1. CASE x.jira[s] \in {jira[s], Gone}
      BY <1>1, <2>1, <3>1 DEF Overtaken
    <3>2. CASE x.jira[s] \notin {jira[s], Gone}
      <4>1. Renewed(jira[s], x.jira[s])
        BY <1>1, <3>2 DEF ServerStep
      <4>2. /\ J[s] # Gone /\ J[s].new = x.jira[s].new /\ J[s].issue = x.jira[s].issue
            /\ J[s].origin = x.jira[s].origin /\ J[s].foreign
        <5>1. x.jira[s] \in WorkLog /\ J[s] = [x.jira[s] EXCEPT !.foreign = TRUE]
          BY <1>1, <1>2, <2>1, <3>2
        <5>2. /\ J[s].new = x.jira[s].new /\ J[s].issue = x.jira[s].issue
              /\ J[s].origin = x.jira[s].origin /\ J[s].foreign
          BY <5>1 DEF WorkLog
        <5>3. QED
          BY <1>1, <2>3, <3>2, <5>2
      <4>3. QED
        BY <4>1, <4>2 DEF Overtaken, Renewed
    <3>3. QED
      BY <3>1, <3>2
  <2>5. J \in Server /\ Len(J) = Len(x.jira)
    <3>1. \A s \in 1..Len(x.jira) : J[s] \in WorkLog \cup {Gone}
      BY <1>1, <1>2, <2>2
    <3>2. J \in [1..Len(x.jira) -> WorkLog \cup {Gone}]
      BY <1>1, <2>1, <3>1
    <3>3. QED
      BY <1>1, <2>1, <3>2 DEF Server
  <2>6. \A s \in Posted(x) : J[s] = x.jira[s]
    BY <1>1, <2>1
  <2>7. \A k \in Row : IsRow(x.logs[k]) => Tied(x.logs[k], J) /\ MarkTrue(x.logs[k], J)
    <3> SUFFICES ASSUME NEW k \in Row, IsRow(x.logs[k])
                 PROVE  Tied(x.logs[k], J) /\ MarkTrue(x.logs[k], J)
      OBVIOUS
    <3>1. Tied(x.logs[k], x.jira) /\ MarkTrue(x.logs[k], x.jira)
      BY <1>1
    <3>2. Tied(x.logs[k], J)
      BY <2>1, <2>2, <2>3, <3>1 DEF Tied
    <3>3. SentTrue(x.logs[k], J)
      BY <2>2, <2>3, <3>1 DEF Tied, MarkTrue, SentTrue
    <3>4. QED
      BY <3>1, <3>2, <3>3 DEF MarkTrue
  <2>8. \A s \in DOMAIN jira : ServerStep(jira[s], J[s])
    BY <2>4 DEF Overtaken, ServerStep
  <2>9. DOMAIN J = 1..Len(J)
    BY <1>1, <2>1, <2>5
  <2>10. QED
    BY <1>1, <2>1, <2>3, <2>4, <2>5, <2>6, <2>7, <2>8, <2>9 DEF PublishedParts
<1>4. CASE J # Overlapped(x)
  <2>1. J = x.jira
    BY <1>4
  <2>2. QED
    BY <1>1, <1>4, <2>1 DEF PublishedParts
<1>5. QED
  BY <1>3, <1>4

(* The ends of a transaction: rolled back, while the server keeps what was  *)
(* posted.                                                                  *)
LEMMA RolledBackSound ==
  ASSUME ExportInv, NEW x, Sound(x), Bounded(x), RolledBack(x)
  PROVE  ExportInv'
<1>1. jira' = Overlapped(x) /\ stray' = stray \cup Posted(x) /\ steps' = steps + 1 + x.bad
      /\ UNCHANGED <<auto, logs, open, raced, kept>>
  BY DEF RolledBack
<1>2. stray \subseteq DOMAIN jira /\ steps \in 0..MaxSteps
  BY Invariants
<1>3. /\ jira' \in Server /\ Len(jira) <= Len(jira') /\ x.bad \in Nat
      /\ Len(jira') = Len(x.jira) /\ DOMAIN jira \subseteq DOMAIN jira'
      /\ \A s \in DOMAIN jira : Overtaken(jira[s], jira'[s])
      /\ \A s \in Posted(x) : jira'[s] # Gone /\ jira'[s].new
      /\ Posted(x) = (Len(jira) + 1)..Len(jira') /\ Posted(x) \subseteq DOMAIN jira'
  BY <1>1, Published DEF PublishedParts
<1>4. Len(x.jira) <= MaxPosts /\ steps + 1 + x.bad <= MaxSteps
  BY DEF Bounded
<1>5. steps' \in 0..MaxSteps
  BY <1>1, <1>2, <1>3, <1>4, Constants
<1>6. stray' \subseteq DOMAIN jira'
  BY <1>1, <1>2, <1>3
<1>7. QED
  BY <1>1, <1>3, <1>4, <1>5, <1>6, ServerMoved

(* People change work logs.                                                 *)
LEMMA EditOnServerSound ==
  ASSUME ExportInv, NEW s \in DOMAIN jira, NEW t \in Text, EditOnServer(s, t)
  PROVE  ExportInv'
<1> DEFINE w == [jira[s] EXCEPT !.text = t, !.new = TRUE, !.foreign = TRUE]
<1>1. /\ jira \in Server /\ Len(jira) \in Nat /\ DOMAIN jira = 1..Len(jira) /\ Len(jira) <= MaxPosts
      /\ stray \subseteq DOMAIN jira /\ steps \in 0..MaxSteps
      /\ jira[s] = Gone \/ jira[s] \in WorkLog
  BY Invariants
<1>2. /\ jira[s] \in WorkLog /\ steps < MaxSteps /\ steps' = steps + 1
      /\ jira' = [jira EXCEPT ![s].text = t, ![s].new = TRUE, ![s].foreign = TRUE]
      /\ UNCHANGED <<auto, logs, open, stray, raced, kept>>
  BY <1>1 DEF EditOnServer
<1>3. /\ w \in WorkLog /\ w # Gone /\ w.new /\ w.foreign
      /\ w.issue = jira[s].issue /\ w.origin = jira[s].origin
  <2>1. /\ w \in WorkLog /\ w.new /\ w.foreign
        /\ w.issue = jira[s].issue /\ w.origin = jira[s].origin
    BY <1>2 DEF WorkLog
  <2>2. QED
    BY <2>1, Constants
<1>4. jira' = [jira EXCEPT ![s] = w]
  BY <1>2
<1> HIDE DEF w
<1>5. jira' \in Server /\ Len(jira') = Len(jira) /\ DOMAIN jira' = DOMAIN jira
  BY <1>1, <1>3, <1>4 DEF Server
<1>6. \A r \in DOMAIN jira : Overtaken(jira[r], jira'[r])
  BY <1>1, <1>2, <1>3, <1>4, Constants DEF Overtaken, Renewed
<1>7. steps' \in 0..MaxSteps
  BY <1>1, <1>2, Constants
<1>8. \A r \in (Len(jira) + 1)..Len(jira') : FALSE
  BY <1>1, <1>5
<1>9. QED
  BY <1>1, <1>2, <1>5, <1>6, <1>7, <1>8, ServerMoved

LEMMA DeleteOnServerSound ==
  ASSUME ExportInv, NEW s \in DOMAIN jira, DeleteOnServer(s)
  PROVE  ExportInv'
<1>1. /\ jira \in Server /\ Len(jira) \in Nat /\ DOMAIN jira = 1..Len(jira) /\ Len(jira) <= MaxPosts
      /\ stray \subseteq DOMAIN jira /\ steps \in 0..MaxSteps
  BY Invariants
<1>2. /\ steps < MaxSteps /\ steps' = steps + 1 /\ jira' = [jira EXCEPT ![s] = Gone]
      /\ UNCHANGED <<auto, logs, open, stray, raced, kept>>
  BY DEF DeleteOnServer
<1>3. jira' \in Server /\ Len(jira') = Len(jira) /\ DOMAIN jira' = DOMAIN jira
  BY <1>1, <1>2 DEF Server
<1>4. \A r \in DOMAIN jira : Overtaken(jira[r], jira'[r])
  BY <1>1, <1>2 DEF Overtaken
<1>5. steps' \in 0..MaxSteps
  BY <1>1, <1>2, Constants
<1>6. \A r \in (Len(jira) + 1)..Len(jira') : FALSE
  BY <1>1, <1>3
<1>7. QED
  BY <1>1, <1>2, <1>3, <1>4, <1>5, <1>6, ServerMoved
-----------------------------------------------------------------------------
(* Committed at once.                                                       *)
LEMMA CommittedSound ==
  ASSUME ExportInv, NEW x, Sound(x), Bounded(x), Committed(x)
  PROVE  ExportInv'
<1> DEFINE K == {k \in Row : x.logs[k] # logs[k]}
<1>1. /\ x.logs \in [Row -> Entry] /\ jira' \in Server /\ x.kept \subseteq DOMAIN jira
      /\ x.bad \in Nat /\ DOMAIN jira' = 1..Len(jira') /\ Len(jira') \in Nat
      /\ Len(jira') = Len(x.jira) /\ Len(jira) <= Len(jira') /\ DOMAIN jira \subseteq DOMAIN jira'
      /\ \A s \in DOMAIN jira : ServerStep(jira[s], jira'[s])
      /\ open # None => \A s \in DOMAIN jira : Overtaken(jira[s], jira'[s])
      /\ \A s \in Posted(x) : jira'[s] # Gone /\ jira'[s].new /\ jira'[s].origin \in Row
      /\ x.stray \subseteq Posted(x) /\ Posted(x) \subseteq DOMAIN jira'
      /\ \A s \in DOMAIN jira' : s \in DOMAIN jira \/ s \in Posted(x)
      /\ \A s \in DOMAIN jira : s \notin Posted(x)
      /\ \A k \in Row : RowMoved(x, k)
      /\ \A s \in DOMAIN jira' : jira'[s] = Gone <=> x.jira[s] = Gone
      /\ \A k \in Row : IsRow(x.logs[k]) => Tied(x.logs[k], jira') /\ MarkTrue(x.logs[k], jira')
      /\ \A k, m \in Row, s \in Posted(x) : Holds(x.logs[k], s) /\ Holds(x.logs[m], s) => k = m
      /\ \A s \in Posted(x) \ x.stray : Holds(x.logs[jira'[s].origin], s)
  <2>1. jira' = IF open = None THEN x.jira ELSE Overlapped(x)
    BY DEF Committed
  <2>2. PublishedParts(x, jira')
    BY <2>1, Published
  <2>3. QED
    BY <2>1, <2>2 DEF PublishedParts
<1>2. /\ RowsRight /\ Single /\ Known /\ Origins
      /\ auto \in BOOLEAN /\ DOMAIN jira = 1..Len(jira) /\ Len(jira) \in Nat
      /\ \A s \in DOMAIN jira : jira[s] = Gone \/ (jira[s] \in WorkLog /\ jira[s].origin \in Row)
      /\ steps \in 0..MaxSteps
      /\ stray \subseteq DOMAIN jira /\ raced \subseteq DOMAIN jira /\ kept \subseteq DOMAIN jira
  BY Invariants
<1>3. /\ logs' = x.logs /\ Touch(K)
      /\ stray' = stray \cup x.stray /\ kept' = kept \cup x.kept
      /\ steps' = steps + 1 + x.bad /\ auto' = auto /\ raced' = raced
  BY DEF Committed
<1>4. Len(jira') <= MaxPosts /\ steps + 1 + x.bad <= MaxSteps
  BY <1>1 DEF Bounded
<1>5. steps' \in 0..MaxSteps
  BY <1>1, <1>2, <1>3, <1>4, Constants
<1>6. K \in SUBSET Row /\ \A k \in Row \ K : logs'[k] = logs[k]
  BY <1>3
<1> HIDE DEF K
<1>7. \A k \in Row, s \in DOMAIN jira : Holds(x.logs[k], s) => Holds(logs[k], s)
  <2> SUFFICES ASSUME NEW k \in Row, NEW s \in DOMAIN jira, Holds(x.logs[k], s)
               PROVE  Holds(logs[k], s)
    OBVIOUS
  <2>1. s # 0 /\ s \notin Posted(x)
    BY <1>1, <1>2
  <2>2. QED
    BY <1>1, <2>1 DEF RowMoved, Holds
<1>8. OpenUser' /\ OpenImported' /\ Pending' = Pending /\ open' \in Transient \cup {None}
  BY <1>1, <1>3, <1>6, <1>7, OpenKeeps
<1>9. TypeOK'
  <2>1. /\ stray' \subseteq DOMAIN jira' /\ raced' \subseteq DOMAIN jira'
        /\ kept' \subseteq DOMAIN jira'
    BY <1>1, <1>2, <1>3
  <2>2. QED
    BY <1>1, <1>2, <1>3, <1>4, <1>5, <1>8, <2>1, TypeHolds
<1>10. RowsRight'
  BY <1>1, <1>3 DEF RowsRight, MarkTrue, SentTrue
<1>11. Single'
  <2> SUFFICES ASSUME NEW k \in Row, NEW m \in Row, NEW s \in DOMAIN jira',
                      Holds(x.logs[k], s), Holds(x.logs[m], s)
               PROVE  k = m \/ s \in raced
    BY <1>3 DEF Single
  <2>1. CASE s \in DOMAIN jira
    BY <1>2, <1>7, <2>1 DEF Single
  <2>2. CASE s \in Posted(x)
    BY <1>1, <2>2
  <2>3. QED
    BY <1>1, <2>1, <2>2
<1>12. \A k \in Row, s \in DOMAIN jira :
         Holds(logs[k], s) => \/ Holds(x.logs[k], s) \/ jira'[s] = Gone
                              \/ x.logs[k] = Gone /\ s \in x.kept
  <2> SUFFICES ASSUME NEW k \in Row, NEW s \in DOMAIN jira, Holds(logs[k], s)
               PROVE  \/ Holds(x.logs[k], s) \/ jira'[s] = Gone
                      \/ x.logs[k] = Gone /\ s \in x.kept
    OBVIOUS
  <2>1. s # 0
    BY <1>2
  <2>2. QED
    BY <1>1, <2>1 DEF RowMoved, Holds
<1>13. Known'
  <2> SUFFICES ASSUME NEW s \in DOMAIN jira'
               PROVE  \/ jira'[s] = Gone \/ jira'[s].new \/ s \in kept \cup x.kept
                      \/ \E k \in Row : Holds(x.logs[k], s)
    BY <1>3 DEF Known
  <2>1. CASE s \in DOMAIN jira
    <3>1. jira'[s] = jira[s] \/ jira'[s] = Gone \/ jira'[s].new
      BY <1>1, <2>1 DEF ServerStep, Renewed
    <3>2. jira[s] = Gone \/ jira[s].new \/ s \in kept \/ \E k \in Row : Holds(logs[k], s)
      BY <1>2, <2>1 DEF Known
    <3>3. QED
      BY <1>12, <2>1, <3>1, <3>2
  <2>2. QED
    BY <1>1, <2>1
<1>14. Origins'
  <2> SUFFICES ASSUME NEW s \in DOMAIN jira'
               PROVE  \/ jira'[s] = Gone \/ s \in (stray \cup x.stray) \cup Pending
                      \/ x.logs[jira'[s].origin] = Gone \/ Holds(x.logs[jira'[s].origin], s)
    BY <1>3, <1>8 DEF Origins
  <2>1. CASE s \in DOMAIN jira
    <3>1. jira'[s] = Gone \/ (jira[s] # Gone /\ jira'[s].origin = jira[s].origin)
      BY <1>1, <2>1 DEF ServerStep, Renewed
    <3>2. jira[s] = Gone \/ s \in stray \cup Pending
            \/ logs[jira[s].origin] = Gone \/ Holds(logs[jira[s].origin], s)
      BY <1>2, <2>1 DEF Origins
    <3>3. jira[s] # Gone => jira[s].origin \in Row
      BY <1>2, <2>1
    <3>4. \A k \in Row : logs[k] = Gone => x.logs[k] = Gone
      BY <1>1 DEF RowMoved
    <3>5. QED
      BY <1>12, <2>1, <3>1, <3>2, <3>3, <3>4
  <2>2. CASE s \in Posted(x)
    BY <1>1, <2>2
  <2>3. QED
    BY <1>1, <2>1, <2>2
<1>15. QED
  BY <1>8, <1>9, <1>10, <1>11, <1>13, <1>14 DEF ExportInv

(* Answered but not committed: what it wrote is noted.                      *)
LEMMA OpenedSound ==
  ASSUME ExportInv, NEW x, Sound(x), Bounded(x), Opened(x)
  PROVE  ExportInv'
<1> DEFINE wrote == {k \in Row : x.logs[k] # logs[k]}
           t == [kind |-> "user", wrote |-> wrote, touched |-> {},
                  logs |-> [k \in Row |-> IF k \in wrote THEN x.logs[k] ELSE None],
                  kept |-> x.kept, posted |-> Posted(x)]
<1>1. /\ x.logs \in [Row -> Entry] /\ jira' \in Server /\ x.kept \subseteq DOMAIN jira
      /\ x.bad \in Nat /\ DOMAIN jira' = 1..Len(jira') /\ Len(jira') \in Nat
      /\ Len(jira') = Len(x.jira) /\ Len(jira) <= Len(jira') /\ DOMAIN jira \subseteq DOMAIN jira'
      /\ \A s \in DOMAIN jira : ServerStep(jira[s], jira'[s])
      /\ \A s \in DOMAIN jira : Overtaken(jira[s], jira'[s])
      /\ \A s \in Posted(x) : jira'[s] # Gone /\ jira'[s].new /\ jira'[s].origin \in Row
      /\ x.stray \subseteq Posted(x) /\ Posted(x) \subseteq DOMAIN jira'
      /\ \A s \in DOMAIN jira' : s \in DOMAIN jira \/ s \in Posted(x)
      /\ \A s \in DOMAIN jira : s \notin Posted(x)
      /\ \A k \in Row : RowMoved(x, k)
      /\ \A s \in DOMAIN jira' : jira'[s] = Gone <=> x.jira[s] = Gone
      /\ \A k \in Row : IsRow(x.logs[k]) => Tied(x.logs[k], jira') /\ MarkTrue(x.logs[k], jira')
      /\ \A k, m \in Row, s \in Posted(x) : Holds(x.logs[k], s) /\ Holds(x.logs[m], s) => k = m
      /\ \A s \in Posted(x) \ x.stray : Holds(x.logs[jira'[s].origin], s)
  <2>1. jira' = Overlapped(x)
    BY DEF Opened
  <2>2. PublishedParts(x, jira')
    BY <2>1, Published
  <2>3. QED
    BY <2>1, <2>2 DEF PublishedParts
<1>2. /\ RowsRight /\ Single /\ Known /\ Origins /\ logs \in [Row -> Entry]
      /\ auto \in BOOLEAN /\ DOMAIN jira = 1..Len(jira) /\ Len(jira) \in Nat
      /\ \A s \in DOMAIN jira : jira[s] = Gone \/ (jira[s] \in WorkLog /\ jira[s].origin \in Row)
      /\ steps \in 0..MaxSteps
      /\ stray \subseteq DOMAIN jira /\ raced \subseteq DOMAIN jira /\ kept \subseteq DOMAIN jira
  BY Invariants
<1>3. /\ open = None /\ open' = t
      /\ stray' = stray \cup x.stray /\ steps' = steps + x.bad + 2 /\ steps' <= MaxSteps
      /\ UNCHANGED <<auto, logs, raced, kept>>
  BY DEF Opened
<1>4. Len(jira') <= MaxPosts
  BY <1>1 DEF Bounded
<1>5. steps' \in 0..MaxSteps
  BY <1>1, <1>2, <1>3, Constants
<1>6. /\ t.kind = "user" /\ t.wrote = wrote /\ t.touched = {} /\ t.kept = x.kept
      /\ t.posted = Posted(x) /\ \A k \in wrote : t.logs[k] = x.logs[k]
      /\ t \in Transient
  <2>1. \A k \in Row : (IF k \in wrote THEN x.logs[k] ELSE None) \in Entry
    BY <1>1 DEF Entry
  <2>2. wrote \in SUBSET Row /\ x.kept \in SUBSET Nat /\ Posted(x) \in SUBSET Nat
    BY <1>1, <1>2
  <2>3. [k \in Row |-> IF k \in wrote THEN x.logs[k] ELSE None] \in [Row -> Entry]
    BY <2>1
  <2> HIDE DEF wrote
  <2>4. t \in Transient
    BY <2>2, <2>3 DEF Transient, Entry
  <2>5. \A k \in wrote : t.logs[k] = x.logs[k]
    BY <2>2
  <2>6. QED
    BY <2>4, <2>5
<1>7. t # None
  BY <1>6, Constants
<1>8. \A k \in Row : k \notin wrote => x.logs[k] = logs[k]
  OBVIOUS
<1>9. wrote \subseteq Row /\ \A k \in wrote : x.logs[k] # logs[k]
  OBVIOUS
<1> HIDE DEF wrote, t
<1>10. \A l : /\ Tied(l, jira) => Tied(l, jira')
              /\ Tied(l, jira) /\ MarkTrue(l, jira) => MarkTrue(l, jira')
  BY <1>1, StepKeeps
<1>11. \A k \in Row : IsRow(logs[k]) => Tied(logs[k], jira') /\ MarkTrue(logs[k], jira')
  BY <1>2, <1>10 DEF RowsRight
<1>12. TypeOK'
  <2>1. /\ stray' \subseteq DOMAIN jira' /\ raced' \subseteq DOMAIN jira'
        /\ kept' \subseteq DOMAIN jira'
    BY <1>1, <1>2, <1>3
  <2>2. QED
    BY <1>1, <1>2, <1>3, <1>4, <1>5, <1>6, <1>11, <2>1, TypeHolds
<1>13. RowsRight'
  BY <1>3, <1>11 DEF RowsRight, MarkTrue, SentTrue
<1>14. \A k \in Row, s \in DOMAIN jira' : Holds(logs[k], s) => s \in DOMAIN jira
  <2> SUFFICES ASSUME NEW k \in Row, NEW s \in DOMAIN jira', Holds(logs[k], s)
               PROVE  s \in DOMAIN jira
    OBVIOUS
  <2>1. s # 0
    BY <1>1
  <2>2. QED
    BY <1>2, <2>1 DEF Holds, RowsRight, Tied
<1>15. Single'
  BY <1>2, <1>3, <1>14 DEF Single
<1>16. Known'
  <2> SUFFICES ASSUME NEW s \in DOMAIN jira'
               PROVE  jira'[s] = Gone \/ jira'[s].new \/ s \in kept \/ \E k \in Row : Holds(logs[k], s)
    BY <1>3 DEF Known
  <2>1. CASE s \in DOMAIN jira
    BY <1>1, <1>2, <2>1 DEF Known, ServerStep, Renewed
  <2>2. QED
    BY <1>1, <2>1
<1>17. Origins'
  <2>1. Pending = {} /\ Pending' = Posted(x)
    BY <1>3, <1>6, <1>7 DEF Pending
  <2> SUFFICES ASSUME NEW s \in DOMAIN jira'
               PROVE  jira'[s] = Gone \/ s \in stray' \cup Posted(x)
                        \/ logs[jira'[s].origin] = Gone \/ Holds(logs[jira'[s].origin], s)
    BY <1>3, <2>1 DEF Origins
  <2>2. CASE s \in DOMAIN jira
    BY <1>1, <1>2, <1>3, <2>1, <2>2 DEF Origins, ServerStep, Renewed
  <2>3. QED
    BY <1>1, <2>2
<1>18. OpenImported'
  BY <1>3, <1>6 DEF OpenImported
<1>19. ASSUME NEW k \in wrote
       PROVE  /\ x.logs[k] # None
              /\ IsRow(x.logs[k]) => Tied(x.logs[k], jira')
              /\ logs[k] # Gone
              /\ IsRow(x.logs[k]) =>
                   /\ MarkTrue(x.logs[k], jira')
                   /\ \/ x.logs[k].id = 0
                      \/ x.logs[k].id \in Posted(x)
                      \/ Holds(logs[k], x.logs[k].id)
              /\ IsRow(logs[k]) /\ logs[k].id # 0 =>
                   \/ Holds(x.logs[k], logs[k].id)
                   \/ jira'[logs[k].id] = Gone
                   \/ x.logs[k] = Gone /\ logs[k].id \in x.kept
  <2>1. RowMoved(x, k) /\ x.logs[k] # logs[k] /\ k \in Row
    BY <1>1, <1>9
  <2>2. IsRow(x.logs[k]) => Tied(x.logs[k], jira') /\ MarkTrue(x.logs[k], jira')
    BY <1>1, <2>1
  <2>3. IsRow(logs[k]) /\ logs[k].id # 0 /\ x.jira[logs[k].id] = Gone =>
          jira'[logs[k].id] = Gone
    BY <1>1, <1>2, <2>1 DEF RowsRight, Tied
  <2>4. QED
    BY <2>1, <2>2, <2>3 DEF RowMoved
<1>20. OpenUser'
  <2>1. t.posted \cup t.kept \subseteq DOMAIN jira'
    BY <1>1, <1>6
  <2>2. ASSUME NEW k \in wrote PROVE OpenRow(k)'
    <3>1. k \in Row /\ t.logs[k] = x.logs[k]
      BY <1>6, <1>9
    <3>2. \A l : MarkTrue(l, jira)' <=> MarkTrue(l, jira')
      BY <1>3 DEF MarkTrue, SentTrue
    <3>3. QED
      BY <1>3, <1>6, <1>19, <3>1, <3>2 DEF OpenRow
  <2>3. \A k, m \in wrote, s \in Posted(x) : Holds(t.logs[k], s) /\ Holds(t.logs[m], s) => k = m
    BY <1>1, <1>6, <1>9
  <2>4. \A s \in Posted(x) :
           \/ jira'[s] = Gone \/ s \in stray'
           \/ jira'[s].origin \in wrote /\ Holds(t.logs[jira'[s].origin], s)
    <3> SUFFICES ASSUME NEW s \in Posted(x), s \notin x.stray
                 PROVE  jira'[s].origin \in wrote /\ Holds(t.logs[jira'[s].origin], s)
      BY <1>3
    <3>1. jira'[s].origin \in Row /\ Holds(x.logs[jira'[s].origin], s)
      BY <1>1
    <3>2. ~Holds(logs[jira'[s].origin], s)
      BY <1>1, <1>14, <3>1
    <3>3. QED
      BY <1>6, <1>8, <3>1, <3>2
  <2>5. \A k \in Row, s \in Posted(x) : ~Holds(logs[k], s)
    BY <1>1, <1>14
  <2>6. QED
    BY <1>3, <1>6, <2>1, <2>2, <2>3, <2>4, <2>5 DEF OpenUser
<1>21. QED
  BY <1>12, <1>13, <1>15, <1>16, <1>17, <1>18, <1>20 DEF ExportInv
-----------------------------------------------------------------------------
(* What was open is rolled back: its work logs are stray.                   *)
LEMMA RollbackSound ==
  ASSUME ExportInv, Rollback
  PROVE  ExportInv'
<1>1. /\ RowsRight /\ Single /\ Known /\ Origins /\ OpenUser
      /\ auto \in BOOLEAN /\ logs \in [Row -> Entry] /\ jira \in Server /\ Len(jira) <= MaxPosts
      /\ steps \in 0..MaxSteps
      /\ stray \subseteq DOMAIN jira /\ raced \subseteq DOMAIN jira /\ kept \subseteq DOMAIN jira
  BY Invariants
<1>2. /\ open # None /\ open.kind = "user" /\ stray' = stray \cup open.posted /\ open' = None
      /\ UNCHANGED <<auto, logs, jira, steps, raced, kept>>
  BY DEF Rollback
<1>3. open.posted \subseteq DOMAIN jira
  BY <1>1, <1>2 DEF OpenUser
<1>4. TypeOK'
  <2>1. \A k \in Row : IsRow(logs'[k]) => Tied(logs'[k], jira')
    BY <1>1, <1>2 DEF RowsRight
  <2>2. stray' \subseteq DOMAIN jira'
    BY <1>1, <1>2, <1>3
  <2>3. QED
    BY <1>1, <1>2, <2>1, <2>2, TypeHolds
<1>5. RowsRight' /\ Single' /\ Known'
  BY <1>1, <1>2 DEF RowsRight, MarkTrue, SentTrue, Single, Known
<1>6. Origins'
  <2>1. Pending = open.posted /\ Pending' = {}
    BY <1>2 DEF Pending
  <2>2. QED
    BY <1>1, <1>2, <2>1 DEF Origins
<1>7. OpenUser' /\ OpenImported'
  BY <1>2 DEF OpenUser, OpenImported
<1>8. QED
  BY <1>4, <1>5, <1>6, <1>7 DEF ExportInv

(* What was open is committed, over rows that nobody else has touched.      *)
LEMMA CommitSound ==
  ASSUME ExportInv, Commit
  PROVE  ExportInv'
<1>1. /\ RowsRight /\ Single /\ Known /\ Origins /\ OpenUser
      /\ auto \in BOOLEAN /\ logs \in [Row -> Entry] /\ jira \in Server /\ Len(jira) <= MaxPosts
      /\ DOMAIN jira = 1..Len(jira) /\ Len(jira) \in Nat
      /\ \A s \in DOMAIN jira : jira[s] = Gone \/ (jira[s] \in WorkLog /\ jira[s].origin \in Row)
      /\ steps \in 0..MaxSteps /\ open \in Transient \cup {None}
      /\ stray \subseteq DOMAIN jira /\ raced \subseteq DOMAIN jira /\ kept \subseteq DOMAIN jira
  BY Invariants
<1>2. /\ open # None /\ open.kind = "user"
      /\ logs' = [k \in Row |-> IF k \in open.wrote THEN open.logs[k] ELSE logs[k]]
      /\ kept' = kept \cup open.kept /\ open' = None
      /\ UNCHANGED <<auto, jira, steps, stray, raced>>
  BY DEF Commit
<1>3. /\ open.posted \cup open.kept \subseteq DOMAIN jira
      /\ \A k \in open.wrote : OpenRow(k)
      /\ \A k, m \in open.wrote, s \in open.posted :
           Holds(open.logs[k], s) /\ Holds(open.logs[m], s) => k = m
      /\ \A s \in open.posted :
           \/ jira[s] = Gone \/ s \in stray
           \/ jira[s].origin \in open.wrote /\ Holds(open.logs[jira[s].origin], s)
      /\ \A k \in Row, s \in open.posted : Holds(logs[k], s) => s \in raced
  BY <1>1, <1>2 DEF OpenUser
<1>4. \A k \in open.wrote : k \in Row /\ k \notin open.touched /\ open.logs[k] \in Entry
  BY <1>1, <1>2 DEF Commit, Conflict, Transient, Entry
<1>5. \A k \in Row : IF k \in open.wrote THEN logs'[k] = open.logs[k] ELSE logs'[k] = logs[k]
  BY <1>2
<1>6. logs' \in [Row -> Entry]
  <2>1. \A k \in Row : (IF k \in open.wrote THEN open.logs[k] ELSE logs[k]) \in Entry
    BY <1>1, <1>4
  <2>2. QED
    BY <1>2, <2>1
<1>7. \A k \in Row : IsRow(logs'[k]) => Tied(logs'[k], jira) /\ MarkTrue(logs'[k], jira)
  BY <1>1, <1>3, <1>4, <1>5 DEF OpenRow, RowsRight
<1>8. TypeOK'
  <2>1. kept' \subseteq DOMAIN jira'
    BY <1>1, <1>2, <1>3
  <2>2. QED
    BY <1>1, <1>2, <1>6, <1>7, <2>1, TypeHolds
<1>9. RowsRight'
  BY <1>2, <1>7 DEF RowsRight, MarkTrue, SentTrue
(* Whoever holds a work log afterwards posted it or held it before.        *)
<1>10. \A k \in Row, s \in DOMAIN jira :
         Holds(logs'[k], s) => Holds(logs[k], s) \/ (k \in open.wrote /\ s \in open.posted)
  <2> SUFFICES ASSUME NEW k \in Row, NEW s \in DOMAIN jira, Holds(logs'[k], s), k \in open.wrote
               PROVE  Holds(logs[k], s) \/ s \in open.posted
    BY <1>5
  <2>1. s # 0 /\ Holds(open.logs[k], s)
    BY <1>1, <1>5
  <2>2. QED
    BY <1>3, <1>4, <2>1 DEF OpenRow, Holds
<1>11. \A k \in Row, s \in DOMAIN jira :
         Holds(logs[k], s) => \/ Holds(logs'[k], s) \/ jira[s] = Gone
                              \/ logs'[k] = Gone /\ s \in open.kept
  <2> SUFFICES ASSUME NEW k \in Row, NEW s \in DOMAIN jira, Holds(logs[k], s), k \in open.wrote
               PROVE  \/ Holds(logs'[k], s) \/ jira[s] = Gone
                      \/ logs'[k] = Gone /\ s \in open.kept
    BY <1>5
  <2>1. s # 0 /\ logs'[k] = open.logs[k]
    BY <1>1, <1>5
  <2>2. QED
    BY <1>3, <1>4, <2>1 DEF OpenRow, Holds
<1>12. Single'
  <2> SUFFICES ASSUME NEW k \in Row, NEW m \in Row, NEW s \in DOMAIN jira,
                      Holds(logs'[k], s), Holds(logs'[m], s), s \notin raced
               PROVE  k = m
    BY <1>2 DEF Single
  <2>1. CASE s \in open.posted
    <3>1. ~Holds(logs[k], s) /\ ~Holds(logs[m], s)
      BY <1>3, <2>1
    <3>2. k \in open.wrote /\ m \in open.wrote
      BY <1>10, <3>1
    <3>3. QED
      BY <1>3, <1>5, <2>1, <3>2
  <2>2. CASE s \notin open.posted
    BY <1>1, <1>10, <2>2 DEF Single
  <2>3. QED
    BY <2>1, <2>2
<1>13. Known'
  BY <1>1, <1>2, <1>11 DEF Known
<1>14. Origins'
  <2>1. Pending = open.posted /\ Pending' = {}
    BY <1>2 DEF Pending
  <2> SUFFICES ASSUME NEW s \in DOMAIN jira, jira[s] # Gone, s \notin stray
               PROVE  logs'[jira[s].origin] = Gone \/ Holds(logs'[jira[s].origin], s)
    BY <1>2, <2>1 DEF Origins
  <2>2. CASE s \in open.posted
    BY <1>1, <1>3, <1>5, <2>2
  <2>3. CASE s \notin open.posted
    <3>1. logs[jira[s].origin] = Gone \/ Holds(logs[jira[s].origin], s)
      BY <1>1, <2>1, <2>3 DEF Origins
    <3>2. \A k \in Row : logs[k] = Gone => logs'[k] = Gone
      BY <1>3, <1>4, <1>5 DEF OpenRow
    <3>3. QED
      BY <1>1, <1>11, <3>1, <3>2
  <2>4. QED
    BY <2>2, <2>3
<1>15. OpenUser' /\ OpenImported'
  BY <1>2 DEF OpenUser, OpenImported
<1>16. QED
  BY <1>8, <1>9, <1>12, <1>13, <1>14, <1>15 DEF ExportInv

(* An import begins.                                                        *)
LEMMA OpenImportSound ==
  ASSUME ExportInv, OpenImport
  PROVE  ExportInv'
<1> DEFINE t == [kind |-> "import", wrote |-> {}, touched |-> {}, logs |-> logs,
                 kept |-> {}, posted |-> DOMAIN jira]
<1>1. /\ RowsRight /\ Single /\ Known /\ Origins
      /\ auto \in BOOLEAN /\ logs \in [Row -> Entry] /\ jira \in Server /\ Len(jira) <= MaxPosts
      /\ DOMAIN jira = 1..Len(jira) /\ Len(jira) \in Nat /\ steps \in 0..MaxSteps
      /\ stray \subseteq DOMAIN jira /\ raced \subseteq DOMAIN jira /\ kept \subseteq DOMAIN jira
  BY Invariants
<1>2. /\ open = None /\ open' = t /\ steps < MaxSteps /\ steps' = steps + 1
      /\ UNCHANGED <<auto, logs, jira, stray, raced, kept>>
  BY DEF OpenImport
<1>3. /\ t.kind = "import" /\ t.wrote = {} /\ t.logs = logs /\ t.posted = DOMAIN jira
      /\ t \in Transient
  <2>1. DOMAIN jira \in SUBSET Nat
    BY <1>1
  <2>2. t \in Transient
    BY <1>1, <2>1 DEF Transient, Entry
  <2>3. QED
    BY <2>2
<1> HIDE DEF t
<1>4. TypeOK'
  <2>1. \A k \in Row : IsRow(logs'[k]) => Tied(logs'[k], jira')
    BY <1>1, <1>2 DEF RowsRight
  <2>2. steps' \in 0..MaxSteps
    BY <1>1, <1>2, Constants
  <2>3. QED
    BY <1>1, <1>2, <1>3, <2>1, <2>2, TypeHolds
<1>5. RowsRight' /\ Single' /\ Known'
  BY <1>1, <1>2 DEF RowsRight, MarkTrue, SentTrue, Single, Known
<1>6. Origins'
  <2>1. Pending = {} /\ Pending' = {}
    BY <1>2, <1>3 DEF Pending
  <2>2. QED
    BY <1>1, <1>2, <2>1 DEF Origins
<1>7. OpenUser'
  BY <1>2, <1>3 DEF OpenUser
<1>8. OpenImported'
  BY <1>2, <1>3 DEF OpenImported
<1>9. QED
  BY <1>4, <1>5, <1>6, <1>7, <1>8 DEF ExportInv

(* The logs of a deleted work log are deleted.                              *)
LEMMA ImportDeletionSound ==
  ASSUME ExportInv, NEW s \in DOMAIN jira, ImportDeletion(s)
  PROVE  ExportInv'
<1> DEFINE K == Holders(logs, s)
<1>1. /\ RowsRight /\ Single /\ Known /\ Origins
      /\ auto \in BOOLEAN /\ logs \in [Row -> Entry] /\ jira \in Server /\ Len(jira) <= MaxPosts
      /\ DOMAIN jira = 1..Len(jira) /\ Len(jira) \in Nat
      /\ \A r \in DOMAIN jira : jira[r] = Gone \/ (jira[r] \in WorkLog /\ jira[r].origin \in Row)
      /\ steps \in 0..MaxSteps
      /\ stray \subseteq DOMAIN jira /\ raced \subseteq DOMAIN jira /\ kept \subseteq DOMAIN jira
  BY Invariants
<1>2. /\ jira[s] = Gone /\ logs' = [k \in Row |-> IF k \in K THEN Gone ELSE logs[k]]
      /\ Touch(K) /\ UNCHANGED <<auto, jira, steps, stray, raced, kept>>
  BY DEF ImportDeletion
<1>3. K \in SUBSET Row /\ \A k \in K : Holds(logs[k], s)
  BY DEF Holders, Rows, Holds, IsRow
<1> HIDE DEF K
<1>4. /\ \A k \in K : logs'[k] = Gone /\ ~IsRow(logs'[k])
      /\ \A k \in Row \ K : logs'[k] = logs[k]
  BY <1>2, <1>3 DEF IsRow
<1>5. \A k \in Row, r \in DOMAIN jira : Holds(logs'[k], r) => Holds(logs[k], r)
  BY <1>4 DEF Holds
<1>6. OpenUser' /\ OpenImported' /\ Pending' = Pending /\ open' \in Transient \cup {None}
  <2>1. \A r \in DOMAIN jira : Overtaken(jira[r], jira'[r])
    BY <1>2 DEF Overtaken
  <2>2. jira' \in Server /\ Len(jira) <= Len(jira')
    BY <1>1, <1>2
  <2>3. QED
    BY <1>2, <1>3, <1>4, <1>5, <2>1, <2>2, OpenKeeps
<1>7. logs' \in [Row -> Entry]
  <2>1. \A k \in Row : (IF k \in K THEN Gone ELSE logs[k]) \in Entry
    BY <1>1 DEF Entry
  <2>2. QED
    BY <1>2, <2>1
<1>8. \A k \in Row : IsRow(logs'[k]) => Tied(logs'[k], jira) /\ MarkTrue(logs'[k], jira)
  BY <1>1, <1>4 DEF RowsRight
<1>9. TypeOK'
  BY <1>1, <1>2, <1>6, <1>7, <1>8, TypeHolds
<1>10. RowsRight'
  BY <1>2, <1>8 DEF RowsRight, MarkTrue, SentTrue
<1>11. Single'
  BY <1>1, <1>2, <1>5 DEF Single
<1>12. \A k \in Row, r \in DOMAIN jira : Holds(logs[k], r) /\ jira[r] # Gone => Holds(logs'[k], r)
  <2> SUFFICES ASSUME NEW k \in Row, NEW r \in DOMAIN jira, Holds(logs[k], r), jira[r] # Gone
               PROVE  Holds(logs'[k], r)
    OBVIOUS
  <2>1. r # s
    BY <1>2
  <2>2. k \notin K
    BY <1>3, <2>1 DEF Holds
  <2>3. QED
    BY <1>4, <2>2
<1>13. Known'
  BY <1>1, <1>2, <1>12 DEF Known
<1>14. Origins'
  <2> SUFFICES ASSUME NEW r \in DOMAIN jira, jira[r] # Gone, r \notin stray \cup Pending
               PROVE  logs'[jira[r].origin] = Gone \/ Holds(logs'[jira[r].origin], r)
    BY <1>2, <1>6 DEF Origins
  <2>1. logs[jira[r].origin] = Gone \/ Holds(logs[jira[r].origin], r)
    BY <1>1 DEF Origins
  <2>2. \A k \in Row : logs[k] = Gone => logs'[k] = Gone
    BY <1>4
  <2>3. QED
    BY <1>1, <1>12, <2>1, <2>2
<1>15. QED
  BY <1>6, <1>9, <1>10, <1>11, <1>13, <1>14 DEF ExportInv
-----------------------------------------------------------------------------
(* A work log comes in: to a row that is free, or to one that holds it.    *)
Incoming(s, k) ==
  /\ s \in DOMAIN jira /\ k \in Row /\ jira[s] # Gone
  /\ \E t \in Readings(s) : logs' = [logs EXCEPT ![k] = FromServer(s, t)]
  /\ Read(s)
  /\ raced \subseteq raced' /\ raced' \subseteq raced \cup {s}
  /\ \/ Holds(logs[k], s)
     \/ logs[k] = None /\ \A m \in Row : Holds(logs[m], s) => s \in raced'

IncomingParts(s, k) ==
  /\ jira' \in Server /\ Len(jira') = Len(jira) /\ DOMAIN jira' = DOMAIN jira
  /\ \A r \in DOMAIN jira : r # s => jira'[r] = jira[r]
  /\ jira'[s] \in WorkLog /\ jira'[s] # Gone /\ ~jira'[s].new
  /\ jira'[s].issue = jira[s].issue /\ jira'[s].origin = jira[s].origin
  /\ jira'[s].text = jira[s].text
  /\ logs' \in [Row -> Entry] /\ \A m \in Row : m # k => logs'[m] = logs[m]
  /\ IsRow(logs'[k]) /\ logs'[k].id = s /\ logs'[k].state = "done"
  /\ logs'[k].issue = jira[s].issue /\ logs'[k].sent = jira[s].text
  /\ Marks(logs'[k])
  /\ s # 0

(* Field by field.                                                          *)
LEMMA IncomingIs ==
  ASSUME ExportInv, NEW s, NEW k, Incoming(s, k)
  PROVE  IncomingParts(s, k)
<1> DEFINE w == [jira[s] EXCEPT !.new = FALSE, !.foreign = FALSE]
<1>0. PICK t \in Readings(s) : logs' = [logs EXCEPT ![k] = FromServer(s, t)]
  BY DEF Incoming
<1> DEFINE l == FromServer(s, t)
<1>1. /\ logs \in [Row -> Entry] /\ jira \in Server
      /\ DOMAIN jira = 1..Len(jira) /\ Len(jira) \in Nat
      /\ \A r \in DOMAIN jira : jira[r] = Gone \/ (jira[r] \in WorkLog /\ jira[r].origin \in Row)
  BY Invariants
<1>2. /\ s \in DOMAIN jira /\ k \in Row /\ jira[s] \in WorkLog
      /\ logs' = [logs EXCEPT ![k] = l] /\ jira' = [jira EXCEPT ![s] = w]
  BY <1>0, <1>1 DEF Incoming, Read
<1>3. /\ w \in WorkLog /\ ~w.new /\ w.issue = jira[s].issue /\ w.origin = jira[s].origin
      /\ w.text = jira[s].text
  BY <1>2 DEF WorkLog
<1>4. s \in Nat /\ s # 0
  BY <1>1, <1>2
<1>5. /\ l \in Log /\ l.id = s /\ l.state = "done" /\ l.issue = jira[s].issue
      /\ l.sent = jira[s].text /\ l.captured = jira[s].text /\ l.text = t
      /\ t = jira[s].text \/ t = Rounded[jira[s].text]
  <2>1. jira[s].text \in Text /\ jira[s].issue \in Issue
    BY <1>2 DEF WorkLog
  <2>2. t \in Text /\ (t = jira[s].text \/ t = Rounded[jira[s].text])
    BY <2>1, ExportAssumption DEF Readings
  <2>3. QED
    BY <1>4, <2>1, <2>2 DEF FromServer, Log, Mark
<1>6. IsRow(l) /\ w # Gone /\ Marks(l)
  BY <1>3, <1>5, Constants DEF IsRow, Marks
<1> HIDE DEF w, l
<1>7. jira' \in Server /\ Len(jira') = Len(jira) /\ DOMAIN jira' = DOMAIN jira
  BY <1>1, <1>2, <1>3 DEF Server
<1>8. jira'[s] = w /\ \A r \in DOMAIN jira : r # s => jira'[r] = jira[r]
  BY <1>1, <1>2
<1>9. logs' \in [Row -> Entry] /\ logs'[k] = l /\ \A m \in Row : m # k => logs'[m] = logs[m]
  BY <1>1, <1>2, <1>5 DEF Entry
<1>10. QED
  BY <1>3, <1>4, <1>5, <1>6, <1>7, <1>8, <1>9 DEF IncomingParts

(* A work log that comes in is held by this row, and any other that holds it*)
(* makes it raced.                                                          *)
LEMMA IncomingSound ==
  ASSUME ExportInv, NEW s, NEW k, Incoming(s, k), auto' = auto, steps' = steps, stray' = stray,
         kept' = kept, open' \in Transient \cup {None}, Pending' = Pending
  PROVE  TypeOK' /\ RowsRight' /\ Single' /\ Known' /\ Origins'
<1>1. /\ RowsRight /\ Single /\ Known /\ Origins
      /\ auto \in BOOLEAN /\ Len(jira) <= MaxPosts
      /\ \A r \in DOMAIN jira : jira[r] = Gone \/ (jira[r] \in WorkLog /\ jira[r].origin \in Row)
      /\ steps \in 0..MaxSteps
      /\ stray \subseteq DOMAIN jira /\ raced \subseteq DOMAIN jira /\ kept \subseteq DOMAIN jira
  BY Invariants
<1>2. /\ jira' \in Server /\ Len(jira') = Len(jira) /\ DOMAIN jira' = DOMAIN jira
      /\ \A r \in DOMAIN jira : r # s => jira'[r] = jira[r]
      /\ jira'[s] \in WorkLog /\ jira'[s] # Gone /\ ~jira'[s].new
      /\ jira'[s].issue = jira[s].issue /\ jira'[s].origin = jira[s].origin
      /\ jira'[s].text = jira[s].text
      /\ logs' \in [Row -> Entry] /\ \A m \in Row : m # k => logs'[m] = logs[m]
      /\ IsRow(logs'[k]) /\ logs'[k].id = s /\ logs'[k].state = "done"
      /\ logs'[k].issue = jira[s].issue /\ logs'[k].sent = jira[s].text
      /\ Marks(logs'[k]) /\ s # 0
  BY IncomingIs DEF IncomingParts
<1>3. /\ s \in DOMAIN jira /\ k \in Row /\ jira[s] # Gone
      /\ raced \subseteq raced' /\ raced' \subseteq raced \cup {s}
      /\ Holds(logs[k], s) \/ (logs[k] = None /\ \A m \in Row : Holds(logs[m], s) => s \in raced')
  BY DEF Incoming
(* Any other row that holds the work log makes it raced.                   *)
<1>4. \A m \in Row : m # k /\ Holds(logs[m], s) => s \in raced'
  BY <1>1, <1>3 DEF Single
<1>5. ASSUME NEW m \in Row, IsRow(logs'[m])
      PROVE  Tied(logs'[m], jira') /\ MarkTrue(logs[m], jira)' /\ (m = k => logs'[m].id = s)
  <2>1. CASE m = k
    BY <1>2, <1>3, <2>1 DEF Tied, MarkTrue, SentTrue
  <2>2. CASE m # k
    <3>1. logs'[m] = logs[m] /\ Tied(logs[m], jira) /\ MarkTrue(logs[m], jira)
      BY <1>1, <1>2, <1>5, <2>2 DEF RowsRight
    <3>2. CASE logs[m].id = s
      BY <1>2, <1>3, <1>4, <1>5, <2>2, <3>1, <3>2 DEF Tied, MarkTrue, SentTrue, Holds
    <3>3. CASE logs[m].id # s
      BY <1>2, <1>3, <2>2, <3>1, <3>3 DEF Tied, MarkTrue, SentTrue
    <3>4. QED
      BY <3>2, <3>3
  <2>3. QED
    BY <2>1, <2>2
<1>6. RowsRight'
  BY <1>5 DEF RowsRight
<1>7. TypeOK'
  <2>1. raced' \subseteq DOMAIN jira'
    BY <1>1, <1>2, <1>3
  <2>2. QED
    BY <1>1, <1>2, <1>5, <2>1, TypeHolds
<1>8. \A m \in Row, r \in DOMAIN jira : Holds(logs'[m], r) => IF m = k THEN r = s ELSE Holds(logs[m], r)
  BY <1>2 DEF Holds
<1>9. \A m \in Row, r \in DOMAIN jira : Holds(logs[m], r) => Holds(logs'[m], r)
  <2> SUFFICES ASSUME NEW m \in Row, NEW r \in DOMAIN jira, Holds(logs[m], r)
               PROVE  Holds(logs'[m], r)
    OBVIOUS
  <2>1. CASE m = k
    <3>1. logs[k] # None
      BY <2>1 DEF Holds, IsRow
    <3>2. r = s
      BY <1>3, <2>1, <3>1 DEF Holds
    <3>3. QED
      BY <1>2, <2>1, <3>2 DEF Holds
  <2>2. CASE m # k
    BY <1>2, <2>2
  <2>3. QED
    BY <2>1, <2>2
<1>10. Single'
  <2> SUFFICES ASSUME NEW p \in Row, NEW q \in Row, NEW r \in DOMAIN jira,
                      Holds(logs'[p], r), Holds(logs'[q], r), p # q
               PROVE  r \in raced'
    BY <1>2 DEF Single
  <2>1. CASE p # k /\ q # k
    BY <1>1, <1>3, <1>8, <2>1 DEF Single
  <2>2. CASE p = k
    BY <1>4, <1>8, <2>2
  <2>3. CASE q = k
    BY <1>4, <1>8, <2>3
  <2>4. QED
    BY <2>1, <2>2, <2>3
<1>11. Known'
  <2> SUFFICES ASSUME NEW r \in DOMAIN jira
               PROVE  \/ jira'[r] = Gone \/ jira'[r].new \/ r \in kept
                      \/ \E m \in Row : Holds(logs'[m], r)
    BY <1>2 DEF Known
  <2>1. CASE r = s
    BY <1>2, <1>3, <2>1 DEF Holds
  <2>2. CASE r # s
    BY <1>1, <1>2, <1>9, <2>2 DEF Known
  <2>3. QED
    BY <2>1, <2>2
<1>12. Origins'
  <2> SUFFICES ASSUME NEW r \in DOMAIN jira, jira'[r] # Gone, r \notin stray \cup Pending
               PROVE  logs'[jira'[r].origin] = Gone \/ Holds(logs'[jira'[r].origin], r)
    BY <1>2 DEF Origins
  <2>1. jira[r] # Gone /\ jira'[r].origin = jira[r].origin
    BY <1>2, <1>3
  <2>2. logs[jira[r].origin] = Gone \/ Holds(logs[jira[r].origin], r)
    BY <1>1, <2>1 DEF Origins
  <2>3. logs[k] # Gone
    BY <1>3, Constants DEF Holds, IsRow
  <2>4. jira[r].origin \in Row
    BY <1>1, <2>1
  <2>5. QED
    BY <1>2, <1>9, <2>1, <2>2, <2>3, <2>4
<1>13. QED
  BY <1>6, <1>7, <1>10, <1>11, <1>12

(* An import at once, beside an open transaction of a user.                 *)
LEMMA ImportSound ==
  ASSUME ExportInv, NEW s \in DOMAIN jira, Import(s)
  PROVE  ExportInv'
<1>1. PICK k \in Row : Imported(logs, s, k) /\ Touch({k})
  BY DEF Import
<1>2. /\ open # None => open.kind = "user"
      /\ raced' = raced \cup IF open # None /\ s \in open.posted THEN {s} ELSE {}
      /\ UNCHANGED <<auto, steps, stray, kept>>
  BY DEF Import
<1>3. /\ jira[s] # Gone /\ Read(s)
      /\ \E t \in Readings(s) : logs' = [logs EXCEPT ![k] = FromServer(s, t)]
      /\ \/ Holders(logs, s) = {} /\ Unused # {} /\ k = FreeRow
         \/ k \in Holders(logs, s)
  BY <1>1 DEF Imported
<1>4. \A m \in Row : m \in Holders(logs, s) <=> Holds(logs[m], s)
  BY DEF Holders, Rows, Holds, IsRow
<1>5. Incoming(s, k)
  <2>1. Holds(logs[k], s) \/ (logs[k] = None /\ \A m \in Row : ~Holds(logs[m], s))
    BY <1>3, <1>4, FreeRowIs, Invariants
  <2>2. QED
    BY <1>2, <1>3, <2>1 DEF Incoming
<1>6. /\ jira' \in Server /\ Len(jira') = Len(jira) /\ DOMAIN jira' = DOMAIN jira
      /\ \A r \in DOMAIN jira : r # s => jira'[r] = jira[r]
      /\ jira'[s] # Gone /\ jira'[s].issue = jira[s].issue /\ jira'[s].origin = jira[s].origin
      /\ \A m \in Row : m # k => logs'[m] = logs[m]
      /\ IsRow(logs'[k]) /\ logs'[k].id = s
      /\ s # 0
  BY <1>5, IncomingIs DEF IncomingParts
<1>7. OpenUser /\ Single /\ open \in Transient \cup {None}
  BY Invariants
<1>8. OpenUser' /\ OpenImported' /\ Pending' = Pending /\ open' \in Transient \cup {None}
  <2>1. CASE open = None
    <3>1. open' = None
      BY <1>1, <2>1 DEF Touch
    <3>2. QED
      BY <2>1, <3>1 DEF OpenUser, OpenImported, Pending
  <2>2. CASE open # None
    <3>1. /\ open \in Transient /\ open.kind = "user"
          /\ open' = [open EXCEPT !.touched = @ \cup {k}]
      BY <1>1, <1>2, <1>7, <2>2 DEF Touch
    <3>2. /\ open'.kind = "user" /\ open'.wrote = open.wrote /\ open'.logs = open.logs
          /\ open'.kept = open.kept /\ open'.posted = open.posted
          /\ open'.touched = open.touched \cup {k} /\ open' \in Transient
          /\ open.wrote \subseteq Row
      BY <3>1 DEF Transient
    <3>3. open' # None
      BY <3>2, Constants
    <3>4. /\ open.posted \cup open.kept \subseteq DOMAIN jira
          /\ \A p \in open.wrote : OpenRow(p)
          /\ \A p, q \in open.wrote, r \in open.posted :
               Holds(open.logs[p], r) /\ Holds(open.logs[q], r) => p = q
          /\ \A r \in open.posted :
               \/ jira[r] = Gone \/ r \in stray
               \/ jira[r].origin \in open.wrote /\ Holds(open.logs[jira[r].origin], r)
          /\ \A p \in Row, r \in open.posted : Holds(logs[p], r) => r \in raced
      BY <1>7, <2>2, <3>1 DEF OpenUser
    <3>5. raced \subseteq raced' /\ (s \in open.posted => s \in raced')
      BY <1>2, <2>2
    <3>6. ASSUME NEW p \in open.wrote PROVE OpenRow(p)'
      <4>1. OpenRow(p) /\ p \in Row
        BY <3>2, <3>4
      <4>2. open.logs[p] # None /\ (IsRow(open.logs[p]) => Tied(open.logs[p], jira'))
        <5>1. \A l : Tied(l, jira) => Tied(l, jira')
          BY <1>3, <1>6 DEF Tied
        <5>2. QED
          BY <4>1, <5>1 DEF OpenRow
      <4>3. ASSUME p \notin open.touched \cup {k}
            PROVE  /\ logs'[p] # Gone
                   /\ IsRow(open.logs[p]) =>
                        /\ MarkTrue(open.logs[p], jira)'
                        /\ \/ open.logs[p].id = 0
                           \/ open.logs[p].id \in open.posted
                           \/ Holds(logs'[p], open.logs[p].id)
                   /\ IsRow(logs'[p]) /\ logs'[p].id # 0 =>
                        \/ Holds(open.logs[p], logs'[p].id)
                        \/ jira'[logs'[p].id] = Gone
                        \/ open.logs[p] = Gone /\ logs'[p].id \in open.kept
        <5>1. p # k /\ logs'[p] = logs[p] /\ p \notin open.touched
          BY <1>6, <4>1, <4>3
        <5>2. /\ logs[p] # Gone
              /\ IsRow(open.logs[p]) =>
                   /\ MarkTrue(open.logs[p], jira)
                   /\ \/ open.logs[p].id = 0
                      \/ open.logs[p].id \in open.posted
                      \/ Holds(logs[p], open.logs[p].id)
              /\ IsRow(logs[p]) /\ logs[p].id # 0 =>
                   \/ Holds(open.logs[p], logs[p].id)
                   \/ jira[logs[p].id] = Gone
                   \/ open.logs[p] = Gone /\ logs[p].id \in open.kept
          BY <4>1, <5>1 DEF OpenRow
        <5>3. ASSUME IsRow(open.logs[p]) PROVE MarkTrue(open.logs[p], jira)'
          <6>1. Tied(open.logs[p], jira)
            BY <4>1, <5>3 DEF OpenRow
          <6>2. CASE open.logs[p].id = s
            <7>1. CASE s \in open.posted
              BY <3>2, <3>5, <5>2, <5>3, <6>2, <7>1 DEF MarkTrue, SentTrue
            <7>2. CASE Holds(logs[p], s)
              <8>1. s \in raced
                BY <1>3, <1>4, <1>7, <4>1, <5>1, <7>2 DEF Single
              <8>2. QED
                BY <3>2, <3>5, <5>2, <5>3, <6>2, <8>1 DEF MarkTrue, SentTrue
            <7>3. QED
              BY <1>6, <5>2, <5>3, <6>2, <7>1, <7>2
          <6>3. CASE open.logs[p].id # s
            BY <1>6, <3>2, <3>5, <5>2, <5>3, <6>1, <6>3 DEF MarkTrue, SentTrue, Tied
          <6>4. QED
            BY <6>2, <6>3
        <5>4. IsRow(logs[p]) /\ logs[p].id # 0 /\ jira[logs[p].id] = Gone =>
                jira'[logs[p].id] = Gone
          <6>1. IsRow(logs[p]) /\ logs[p].id # 0 => logs[p].id \in DOMAIN jira
            BY <4>1, Invariants DEF RowsRight, Tied
          <6>2. s \in DOMAIN jira /\ 0 \notin DOMAIN jira /\ DOMAIN jira' = DOMAIN jira
            BY <1>6, Invariants
          <6>3. QED
            BY <1>3, <1>6, <6>1, <6>2
        <5>5. QED
          BY <5>1, <5>2, <5>3, <5>4
      <4>4. QED
        BY <3>2, <4>2, <4>3 DEF OpenRow
    <3>7. \A r \in open.posted :
             \/ jira'[r] = Gone \/ r \in stray'
             \/ jira'[r].origin \in open.wrote /\ Holds(open.logs[jira'[r].origin], r)
      BY <1>2, <1>3, <1>6, <3>4
    <3>8. \A p \in Row, r \in open.posted : Holds(logs'[p], r) => r \in raced'
      BY <1>6, <3>4, <3>5 DEF Holds
    <3>9. OpenUser'
      BY <1>6, <3>2, <3>4, <3>6, <3>7, <3>8 DEF OpenUser
    <3>10. OpenImported'
      BY <3>2 DEF OpenImported
    <3>11. Pending' = Pending
      BY <2>2, <3>1, <3>2, <3>3 DEF Pending
    <3>12. QED
      BY <3>2, <3>9, <3>10, <3>11
  <2>3. QED
    BY <2>1, <2>2
<1>9. TypeOK' /\ RowsRight' /\ Single' /\ Known' /\ Origins'
  BY <1>2, <1>5, <1>8, IncomingSound
<1>10. QED
  BY <1>8, <1>9 DEF ExportInv

(* An import with the rows it began with.                                   *)
LEMMA FinishImportSound ==
  ASSUME ExportInv, NEW s \in DOMAIN jira, FinishImport(s)
  PROVE  ExportInv'
<1>1. PICK k \in Row \ open.touched : Imported(open.logs, s, k)
  BY DEF FinishImport
<1>2. /\ open # None /\ open.kind = "import"
      /\ raced' = raced \cup IF s \notin open.posted THEN {s} ELSE {}
      /\ open' = None /\ UNCHANGED <<auto, steps, stray, kept>>
  BY DEF FinishImport
<1>3. /\ jira[s] # Gone /\ Read(s)
      /\ \E t \in Readings(s) : logs' = [logs EXCEPT ![k] = FromServer(s, t)]
      /\ \/ Holders(open.logs, s) = {} /\ Unused # {} /\ k = FreeRow
         \/ k \in Holders(open.logs, s)
  BY <1>1 DEF Imported
<1>4. /\ \A m \in Row \ open.touched : logs[m] = open.logs[m]
      /\ \A m \in Row, r \in open.posted : Holds(logs[m], r) => Holds(open.logs[m], r)
  BY <1>2, Invariants DEF OpenImported
<1>5. \A m \in Row : m \in Holders(open.logs, s) <=> Holds(open.logs[m], s)
  BY DEF Holders, Rows, Holds, IsRow
<1>6. Incoming(s, k)
  <2>1. CASE k \in Holders(open.logs, s)
    BY <1>1, <1>2, <1>3, <1>4, <1>5, <2>1 DEF Incoming
  <2>2. CASE Holders(open.logs, s) = {} /\ Unused # {} /\ k = FreeRow
    <3>1. logs[k] = None
      BY <2>2, FreeRowIs, Invariants
    <3>2. \A m \in Row : Holds(logs[m], s) => s \in raced'
      BY <1>2, <1>4, <1>5, <2>2
    <3>3. QED
      BY <1>1, <1>2, <1>3, <3>1, <3>2 DEF Incoming
  <2>3. QED
    BY <1>3, <2>1, <2>2
<1>7. OpenUser' /\ OpenImported' /\ Pending' = Pending /\ open' \in Transient \cup {None}
  BY <1>2 DEF OpenUser, OpenImported, Pending
<1>8. TypeOK' /\ RowsRight' /\ Single' /\ Known' /\ Origins'
  BY <1>2, <1>6, <1>7, IncomingSound
<1>9. QED
  BY <1>7, <1>8 DEF ExportInv
-----------------------------------------------------------------------------
(* A step of users ends in one of three ways.                               *)
LEMMA TransactionSound ==
  ASSUME ExportInv, NEW X, \A x \in X : Sound(x), Transaction(X)
  PROVE  ExportInv'
<1>1. PICK x \in X : Bounded(x) /\ IF x.ok THEN Committed(x) \/ Opened(x) ELSE RolledBack(x)
  BY DEF Transaction
<1>2. Sound(x)
  OBVIOUS
<1>3. QED
  BY <1>1, <1>2, CommittedSound, OpenedSound, RolledBackSound

(* The invariant is inductive.                                              *)
LEMMA InitSound == Init => ExportInv
<1> SUFFICES ASSUME Init PROVE ExportInv
  OBVIOUS
<1>1. /\ auto \in BOOLEAN /\ logs = [k \in Row |-> None] /\ jira = <<>> /\ open = None
      /\ steps = 0 /\ stray = {} /\ raced = {} /\ kept = {}
  BY DEF Init
<1>2. /\ \A k \in Row : logs[k] = None /\ ~IsRow(logs[k])
      /\ Rows(logs) = {} /\ DOMAIN jira = {} /\ Len(jira) = 0
      /\ jira \in Seq(WorkLog \cup {Gone}) /\ logs \in [Row -> Log \cup {None, Gone}]
      /\ stray \cup raced \cup kept \subseteq DOMAIN jira
  BY <1>1 DEF IsRow, Rows
<1>3. TypeOK
  BY <1>1, <1>2, Constants DEF TypeOK
<1>4. RowsRight /\ Single /\ Known /\ Origins
  BY <1>2 DEF RowsRight, Single, Known, Origins
<1>5. OpenUser /\ OpenImported
  BY <1>1 DEF OpenUser, OpenImported
<1>6. QED
  BY <1>3, <1>4, <1>5 DEF ExportInv

LEMMA UserSound ==
  ASSUME ExportInv, NEW k \in Rows(logs)
  PROVE  /\ k \in Row /\ IsRow(logs[k])
         /\ Sound(Now) /\ TypeOK /\ Single /\ Now.logs = logs
BY NowFacts, Invariants DEF Rows, IsRow

LEMMA NextSound == ExportInv /\ [Next]_vars => ExportInv'
<1> SUFFICES ASSUME ExportInv, [Next]_vars PROVE ExportInv'
  OBVIOUS
<1>1. ASSUME NEW i \in Issue, NEW t \in Text, Start(i, t) PROVE ExportInv'
  <2> DEFINE x == Put(Now, FreeRow, NewLog("progress", i, t))
  <2>1. Unused # {} /\ Transaction({x})
    BY <1>1 DEF Start
  <2>2. Sound(x)
    <3>1. ASSUME NEW k, k = FreeRow, NEW state, state = "progress"
          PROVE  Sound(Put(Now, k, NewLog(state, i, t)))
      BY <2>1, <3>1, StartSound
    <3>2. QED
      BY <3>1
  <2> HIDE DEF x
  <2>3. QED
    BY <2>1, <2>2, TransactionSound
<1>2. ASSUME NEW i \in Issue, NEW t \in Text, EnterManually(i, t) PROVE ExportInv'
  <2>1. Unused # {} /\ Transaction(Manual(Now, FreeRow, i, t))
    BY <1>2 DEF EnterManually
  <2>2. \A x \in Manual(Now, FreeRow, i, t) : Sound(x)
    BY <2>1, ManualSound
  <2>3. QED
    BY <2>1, <2>2, TransactionSound
<1>3. ASSUME NEW k \in Rows(logs), NEW t \in Text, End(k, t) PROVE ExportInv'
  <2>1. logs[k].state = "progress" /\ Transaction(Done(Now, k, t))
    BY <1>3 DEF End
  <2>2. \A x \in Done(Now, k, t) : Sound(x)
    BY <2>1, UserSound, DoneSound
  <2>3. QED
    BY <2>1, <2>2, TransactionSound
<1>4. ASSUME NEW k \in Rows(logs), NEW t \in Text, Edit(k, t) PROVE ExportInv'
  <2>1. Transaction(Write(Now, k, t))
    BY <1>4 DEF Edit
  <2>2. \A x \in Write(Now, k, t) : Sound(x)
    BY UserSound, WriteSound
  <2>3. QED
    BY <2>1, <2>2, TransactionSound
<1>5. ASSUME NEW k \in Rows(logs), NEW i \in Issue, MoveTo(k, i) PROVE ExportInv'
  <2>1. Transaction(Move(Now, k, i))
    BY <1>5 DEF MoveTo
  <2>2. \A x \in Move(Now, k, i) : Sound(x)
    BY UserSound, MoveSound
  <2>3. QED
    BY <2>1, <2>2, TransactionSound
<1>6. ASSUME NEW k \in Rows(logs), Delete(k) PROVE ExportInv'
  <2>1. Transaction(Unlink(Now, k))
    BY <1>6 DEF Delete
  <2>2. \A x \in Unlink(Now, k) : Sound(x)
    BY UserSound, UnlinkSound
  <2>3. QED
    BY <2>1, <2>2, TransactionSound
<1>7. ASSUME NEW i \in Issue, NEW K \in SUBSET OfIssue(logs, i), ForceLogs(K) PROVE ExportInv'
  <2>1. Transaction(ForceExport(Now, K))
    BY <1>7 DEF ForceLogs
  <2>2. K \in SUBSET Row /\ \A k \in K : IsRow(logs[k])
    BY DEF OfIssue, Rows, IsRow
  <2>3. Sound(Now) /\ TypeOK /\ Single /\ Now.logs = logs
    BY NowFacts, Invariants
  <2>4. \A x \in ForceExport(Now, K) : Sound(x)
    BY <2>1, <2>2, <2>3, ForceExportSound
  <2>5. QED
    BY <2>1, <2>4, TransactionSound
<1>8. ASSUME NEW i \in Issue, ExportIssue(i) PROVE ExportInv'
  <2>1. Transaction(ExportTimeLog(Now, i))
    BY <1>8 DEF ExportIssue
  <2>2. \A x \in ExportTimeLog(Now, i) : Sound(x)
    BY NowFacts, Invariants, ExportTimeLogSound
  <2>3. QED
    BY <2>1, <2>2, TransactionSound
<1>9. ASSUME UNCHANGED vars PROVE ExportInv'
  <2>1. UNCHANGED <<auto, logs, jira, open, steps, stray, raced, kept>>
    BY <1>9 DEF vars
  <2>2. \A s \in DOMAIN jira : Overtaken(jira[s], jira'[s])
    BY <2>1 DEF Overtaken
  <2>3. \A s \in (Len(jira) + 1)..Len(jira') : FALSE
    BY <2>1, Invariants
  <2>4. /\ jira' \in Server /\ Len(jira) <= Len(jira') /\ Len(jira') <= MaxPosts
        /\ steps' \in 0..MaxSteps /\ stray \subseteq stray' /\ stray' \subseteq DOMAIN jira'
    BY <2>1, Invariants
  <2>5. UNCHANGED <<auto, logs, open, raced, kept>>
    BY <2>1
  <2>6. QED
    BY <2>2, <2>3, <2>4, <2>5, ServerMoved
<1>10. CASE Commit
  BY <1>10, CommitSound
<1>11. CASE Rollback
  BY <1>11, RollbackSound
<1>12. CASE OpenImport
  BY <1>12, OpenImportSound
<1>13. ASSUME NEW s \in DOMAIN jira, NEW t \in Text, EditOnServer(s, t) PROVE ExportInv'
  BY <1>13, EditOnServerSound
<1>14. ASSUME NEW s \in DOMAIN jira,
              DeleteOnServer(s) \/ Import(s) \/ FinishImport(s) \/ ImportDeletion(s)
       PROVE  ExportInv'
  BY <1>14, DeleteOnServerSound, ImportSound, FinishImportSound, ImportDeletionSound
<1>15. QED
  BY <1>1, <1>2, <1>3, <1>4, <1>5, <1>6, <1>7, <1>8, <1>9, <1>10, <1>11, <1>12, <1>13, <1>14
     DEF Next

(* The inductive invariant.  Rows are tied to work logs that exist, these   *)
(* say what was last sent to them, marks are true of that, no two rows hold *)
(* the same work log, and what is open will be right about the rows that    *)
(* nobody else has touched (write and unlink of WtTimeLog, the exports and  *)
(* imports of WtMigration).                                                 *)
THEOREM ExportInvariant == Spec => []ExportInv
BY InitSound, NextSound, PTL DEF Spec

(* Nothing the server has is unknown here: each work log is held by a log,  *)
(* or new and to be imported, or unlink failed to delete it.                *)
THEOREM AlwaysAccounted == Spec => []Accounted
<1>1. ASSUME ExportInv PROVE Accounted
  <2>1. TypeOK /\ Known
    BY <1>1, Invariants
  <2>2. \A s : (\E k \in Row : Holds(logs[k], s)) => Holders(logs, s) # {}
    BY DEF Holders, Rows, Holds, IsRow
  <2>3. QED
    BY <2>1, <2>2 DEF Accounted, Known
<1>2. QED
  BY <1>1, ExportInvariant, PTL

(* A log is on the server once: further work logs posted for it come from a *)
(* transaction that was rolled back or is not committed yet, or from exports*)
(* nested in the assignment of id_on_wt.                                    *)
THEOREM AlwaysCountedOnce == Spec => []CountedOnce
<1>1. ASSUME ExportInv PROVE CountedOnce
  BY <1>1, Invariants DEF CountedOnce, Origins, Rows, Holds
<1>2. QED
  BY <1>1, ExportInvariant, PTL

(* A work log is held by one log, unless an import did not see that it was  *)
(* posted for one.                                                          *)
THEOREM AlwaysHeldOnce == Spec => []HeldOnce
<1>1. ASSUME ExportInv PROVE HeldOnce
  <2> SUFFICES ASSUME NEW s \in DOMAIN jira, s \notin raced
               PROVE  ~(Cardinality(Holders(logs, s)) > 1)
    BY DEF HeldOnce
  <2> DEFINE H == Holders(logs, s)
  <2>1. H \in SUBSET Row /\ \A k \in H : Holds(logs[k], s)
    BY DEF Holders, Rows, Holds, IsRow
  <2>2. \A k, m \in H : k = m
    BY <1>1, <2>1, Invariants DEF Single
  <2> HIDE DEF H
  <2>3. CASE H = {}
    BY <2>3, FS_EmptySet DEF H
  <2>4. ASSUME NEW k \in H PROVE ~(Cardinality(H) > 1)
    <3>1. H = {k}
      BY <2>2
    <3>2. Cardinality(H) = 1
      BY <3>1, FS_Singleton
    <3>3. QED
      BY <3>2
  <2>5. QED
    BY <2>3, <2>4 DEF H
<1>2. QED
  BY <1>1, ExportInvariant, PTL

(* A log and its work log belong to the same issue, unless write moved the  *)
(* log without a mark.                                                      *)
THEOREM AlwaysSameIssue == Spec => []SameIssue
<1>1. ASSUME ExportInv PROVE SameIssue
  BY <1>1, Invariants DEF SameIssue, RowsRight, Tied, Rows, IsRow
<1>2. QED
  BY <1>1, ExportInvariant, PTL

(* A log marked as exported says what its work log says, unless that was    *)
(* changed there since, an import has rounded it, or it was captured and not*)
(* sent; but for failed exports, those of a text before a write, and races. *)
THEOREM MarksAlwaysTruthful == Spec => []MarkTruthful
<1>1. ASSUME ExportInv PROVE MarkTruthful
  <2> SUFFICES ASSUME NEW k \in Rows(logs), logs[k].id # 0, logs[k].mark = "exported",
                      ~logs[k].late, ~logs[k].behind, jira[logs[k].id] # Gone,
                      logs[k].id \notin raced
               PROVE  \/ jira[logs[k].id].text = logs[k].text
                      \/ jira[logs[k].id].foreign /\ jira[logs[k].id].text # logs[k].sent
                      \/ /\ logs[k].captured = jira[logs[k].id].text
                         /\ logs[k].text = Rounded[jira[logs[k].id].text]
                      \/ logs[k].captured # logs[k].sent /\ logs[k].captured = logs[k].text
    BY DEF MarkTruthful
  <2>1. MarkTrue(logs[k], jira)
    BY <1>1, Invariants DEF RowsRight, Rows, IsRow
  <2>2. jira[logs[k].id].foreign \/ jira[logs[k].id].text = logs[k].sent
    BY <2>1 DEF MarkTrue, SentTrue
  <2>3. \/ logs[k].text \in {logs[k].sent, logs[k].captured}
        \/ logs[k].captured = logs[k].sent /\ logs[k].text = Rounded[logs[k].sent]
    BY <2>1 DEF MarkTrue, Marks
  <2>4. CASE jira[logs[k].id].text = logs[k].sent
    BY <2>3, <2>4
  <2>5. CASE jira[logs[k].id].text # logs[k].sent
    BY <2>2, <2>5
  <2>6. QED
    BY <2>4, <2>5
<1>2. QED
  BY <1>1, ExportInvariant, PTL
=============================================================================
