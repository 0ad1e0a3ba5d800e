-------------------------- MODULE IssueSync_proofs --------------------------
(***************************************************************************)
(* Proofs about the issues that are imported from Jira and exported to it: *)
(* for any issues, pages, sprints, sources and transactions, and whatever  *)
(* users change on the server, second copies, issues in another sprint and *)
(* exports nobody knows of have the causes that the histories name.        *)
(*                                                                         *)
(* What a transaction has done so far is described by operators over the   *)
(* transaction x, a table i, a server s and the next row n, so that the    *)
(* lemmas about requests need no state: first the inductive invariant,     *)
(* then the operators of the model, imports, exports, what a transaction   *)
(* keeps while others commit, and the steps.                               *)
(***************************************************************************)
EXTENDS IssueSync, FiniteSetTheorems, SequenceTheorems, TLAPS

(* Rows in the hands of a transaction, and of the table.                   *)
Partial == UNION {[D -> Issue] : D \in SUBSET Row}

ImportTx ==
  [at : {"paging"}, new : Partial, writes : Partial,
   outdated : SUBSET Row, raced : SUBSET Name, posted : {{}},
   kind : {"project", "all", "mine", "one"}, asc : BOOLEAN,
   target : Key \cup {0}, start : Nat, total : Nat,
   known : UNION {[K -> Row] : K \in SUBSET Key},
   sprints : SUBSET Sprint, met : SUBSET Row, base : Seq(ServerIssue),
   shifted : BOOLEAN, moved : BOOLEAN,
   hidden : SUBSET Key, listed : SUBSET Key, split : SUBSET Key]

ExportTx ==
  [at : {"ready", "exporting", "linking", "failed"},
   new : Partial, writes : Partial,
   outdated : SUBSET Row, raced : SUBSET Name, posted : SUBSET Key,
   batch : SUBSET Row]

StateType ==
  /\ server \in Seq(ServerIssue) /\ Len(server) <= MaxKeys
  /\ nextRow \in Nat /\ 1 <= nextRow /\ nextRow <= MaxRows + 1
  /\ issues \in Partial /\ DOMAIN issues \subseteq 1..(nextRow - 1)
  /\ sprints \subseteq Sprint
  /\ \A J \in jobs : J \subseteq DOMAIN issues
  /\ opened \in 0..MaxOpened /\ changes \in 0..MaxChanges
  /\ excused \in [Name -> Nat] /\ lost \in [Row -> Nat]
  /\ tx \in [Transactions -> {Idle} \cup ImportTx \cup ExportTx]

(* A row, in a table of rows D and beside a server s: the sprint it is in  *)
(* is explained, and what it refers to exists.                             *)
RowOK(row, D, s) ==
  /\ row.key \in {0} \cup DOMAIN s
  /\ row.epic \in {0} \cup D
  /\ row.last # 0 /\ ~row.wavered =>
       \/ row.sprintKey = row.last
       \/ row.sprintKey = 0 /\ row.sprint = row.last

TableOK(i, s) ==
  \A r \in DOMAIN i :
    /\ RowOK(i[r], DOMAIN i, s)
    /\ i[r].key # 0 /\ i[r].src # None => s[i[r].key].origin = r

(* What was exported came from a row that was there.                       *)
ServerOK(s, n) ==
  \A k \in DOMAIN s :
    /\ s[k].parent \in {0} \cup DOMAIN s
    /\ s[k].origin # 0 => s[k].origin < n

(* What a transaction has done so far: i is the table, s the server, n the *)
(* next row.                                                               *)
RowsOf(x, i) == DOMAIN i \cup DOMAIN x.new

TxOK(x, i, s, n) ==
  /\ DOMAIN x.new \subseteq 1..(n - 1)
  /\ DOMAIN x.new \cap DOMAIN i = {}
  /\ DOMAIN x.writes \subseteq DOMAIN i
  /\ \A r \in DOMAIN x.new : RowOK(x.new[r], RowsOf(x, i), s)
  /\ \A r \in DOMAIN x.writes :
       RowOK(x.writes[r], RowsOf(x, i), s) /\ x.writes[r].src = i[r].src
  /\ \A k \in DOMAIN s : s[k].origin \in DOMAIN x.new => k \in x.posted

PlaceIn(x, s, k) ==
  Cardinality({j \in Matches(x, s) : IF x.asc THEN j < k ELSE j > k})

(* The rows an import has created and written.                             *)
Held(x, r) == IF r \in DOMAIN x.new THEN x.new[r] ELSE x.writes[r]

KeyOf(f, r, k) == r \in DOMAIN f /\ f[r].key = k

ImportOK(x, i, s) ==
  /\ DOMAIN x.base \subseteq DOMAIN s
  /\ x.kind = "one" => x.target \in DOMAIN x.base
  /\ PageSize <= x.total
  /\ \A r \in DOMAIN x.new :
       /\ x.new[r].src = None /\ x.new[r].key # 0
       /\ x.new[r].key \in x.listed \cup DOMAIN x.known
  /\ \A r \in DOMAIN x.writes : x.writes[r].key = i[r].key /\ i[r].key # 0
  /\ \A k \in DOMAIN x.known :
       KeyOf(x.new, x.known[k], k) \/ KeyOf(i, x.known[k], k)
  /\ x.met \subseteq DOMAIN x.new \cup DOMAIN x.writes
  /\ \A k \in Key \ (x.raced \cup x.hidden) :
       \A r \in DOMAIN i : i[r].key = k => k \in DOMAIN x.known
  /\ \A r \in DOMAIN x.new, q \in DOMAIN i :
       x.new[r].key = i[q].key => x.new[r].key \in x.raced \cup x.hidden
  /\ ~x.shifted =>
       \A q, r \in DOMAIN x.new :
         x.new[q].key = x.new[r].key => q = r \/ x.new[q].key \in x.split
  /\ ~x.shifted =>
       \A k \in x.listed : k \in Matches(x, x.base) /\ PlaceIn(x, x.base, k) < x.start

(* Nothing is copied twice; what was posted is in the row it came from.    *)
ExportOK(x, i, s) ==
  /\ x.batch \subseteq RowsOf(x, i)
  /\ DOMAIN x.new \subseteq x.batch /\ DOMAIN x.writes \subseteq x.batch
  /\ \A r \in x.batch \cap DOMAIN i : i[r].key # 0 => r \in x.outdated
  /\ x.posted \subseteq DOMAIN s
  /\ \A k \in x.posted :
       /\ KeyOf(x.new, s[k].origin, k) \/ KeyOf(x.writes, s[k].origin, k)
       /\ ~KeyOf(i, s[k].origin, k)
       /\ k \in x.raced \/ \A r \in DOMAIN i : i[r].key # k
  /\ \A r \in DOMAIN x.new :
       x.new[r].key # 0 => x.new[r].key \in x.posted /\ s[x.new[r].key].origin = r
  /\ \A r \in DOMAIN x.writes :
       x.writes[r].key \in x.posted /\ s[x.writes[r].key].origin = r
  /\ x.at = "exporting" => x.posted = {}
  /\ \A r \in DOMAIN x.new :
       x.new[r].src # None =>
         \/ x.new[r].src \in x.raced
         \/ /\ \A q \in DOMAIN x.new : x.new[q].src = x.new[r].src => q = r
            /\ \A q \in DOMAIN i : i[q].src # x.new[r].src

(* An import of a server that has not changed.                             *)
Mirrors(x, i, row, there) ==
  /\ there.assignee \in {"none", row.assignee}
  /\ there.parent # 0 =>
       KeyOf(x.new, row.epic, there.parent) \/ KeyOf(i, row.epic, there.parent)
  /\ there.sprint \in {0, row.sprint, row.sprintKey}

QuietOK(x, i) ==
  /\ ~x.shifted
  /\ \A k \in Matches(x, x.base) : PlaceIn(x, x.base, k) < x.start => k \in x.listed
  /\ x.start = 0 \/ Cardinality(Matches(x, x.base)) <= x.total
  /\ \A k \in x.listed :
       \E r \in DOMAIN x.new \cup DOMAIN x.writes :
         Held(x, r).key = k /\ Mirrors(x, i, Held(x, r), x.base[k])

Sound(x, i, s, n) ==
  /\ TxOK(x, i, s, n)
  /\ Importing(x) => ImportOK(x, i, s) /\ (~x.moved => QuietOK(x, i))
  /\ ~Importing(x) => ExportOK(x, i, s)

SyncTx ==
  \A t \in Transactions : tx[t] # Idle => Sound(tx[t], issues, server, nextRow)

Apart ==
  \A t, u \in Transactions : t # u /\ tx[t] # Idle /\ tx[u] # Idle =>
    /\ DOMAIN tx[t].new \cap DOMAIN tx[u].new = {}
    /\ tx[t].posted \cap tx[u].posted = {}

CopiesCounted == \A n \in Name : Cardinality(Copies(issues, n)) <= 1 + excused[n]

KeyAt(i, r) == IF r \in DOMAIN i THEN i[r].key ELSE 0

(* The issues that were posted for a row and are in none of the hands P.   *)
Astray(r, i, s, P) ==
  {k \in DOMAIN s : s[k].origin = r /\ k \notin {KeyAt(i, r)} \cup P}

LostCounted ==
  \A r \in Row : lost[r] = Cardinality(Astray(r, issues, server, InFlight))

SyncInv ==
  /\ StateType
  /\ TableOK(issues, server) /\ ServerOK(server, nextRow)
  /\ SyncTx /\ Apart /\ CopiesCounted /\ LostCounted
-----------------------------------------------------------------------------
(* The operators of the model.                                             *)

LEMMA Bounds ==
  /\ PageSize \in Nat /\ 1 <= PageSize
  /\ MaxKeys \in Nat /\ 1 <= MaxKeys /\ MaxRows \in Nat /\ 1 <= MaxRows
  /\ MaxOpened \in Nat /\ MaxChanges \in Nat
BY SyncAssumption

LEMMA NamesApart ==
  /\ 0 \notin Key /\ 0 \notin Row /\ 0 \notin Source /\ 0 # None /\ 0 \notin Sprint
  /\ None \notin Key /\ None \notin Source /\ Source \cap Key = {}
  /\ Key \subseteq Nat /\ Row \subseteq Nat
BY SyncAssumption DEF Key, Row

LEMMA OverIs ==
  ASSUME NEW f, NEW g
  PROVE  /\ DOMAIN Over(f, g) = DOMAIN f \cup DOMAIN g
         /\ \A a \in DOMAIN f : Over(f, g)[a] = f[a]
         /\ \A a \in DOMAIN g : a \notin DOMAIN f => Over(f, g)[a] = g[a]
BY DEF Over

LEMMA OverAs ==
  ASSUME NEW f, NEW g, NEW y, y = [a \in DOMAIN y |-> y[a]],
         DOMAIN y = DOMAIN f \cup DOMAIN g,
         \A a \in DOMAIN f : y[a] = f[a],
         \A a \in DOMAIN g : a \notin DOMAIN f => y[a] = g[a]
  PROVE  Over(f, g) = y
BY DEF Over

LEMMA PartialIs ==
  ASSUME NEW f
  PROVE  f \in Partial <=> /\ f = [r \in DOMAIN f |-> f[r]]
                           /\ DOMAIN f \subseteq Row
                           /\ \A r \in DOMAIN f : f[r] \in Issue
BY DEF Partial

LEMMA PartialEmpty == <<>> \in Partial /\ DOMAIN <<>> = {}
<1>1. DOMAIN <<>> = {} /\ <<>> = [r \in {} |-> r]
  OBVIOUS
<1>2. [r \in {} |-> r] \in [{} -> Issue]
  OBVIOUS
<1>3. QED
  BY <1>1, <1>2 DEF Partial

LEMMA OverPartial ==
  ASSUME NEW f \in Partial, NEW g \in Partial
  PROVE  Over(f, g) \in Partial
<1>1. DOMAIN f \subseteq Row /\ DOMAIN g \subseteq Row
  BY PartialIs
<1>2. \A r \in DOMAIN f : f[r] \in Issue
  BY PartialIs
<1>3. \A r \in DOMAIN g : g[r] \in Issue
  BY PartialIs
<1>4. Over(f, g) = [r \in DOMAIN Over(f, g) |-> Over(f, g)[r]]
  BY DEF Over
<1>5. /\ DOMAIN Over(f, g) = DOMAIN f \cup DOMAIN g
      /\ \A a \in DOMAIN f : Over(f, g)[a] = f[a]
      /\ \A a \in DOMAIN g : a \notin DOMAIN f => Over(f, g)[a] = g[a]
  BY OverIs
<1>6. DOMAIN Over(f, g) \subseteq Row
  BY <1>1, <1>5
<1>7. \A r \in DOMAIN Over(f, g) : Over(f, g)[r] \in Issue
  <2> SUFFICES ASSUME NEW r \in DOMAIN Over(f, g) PROVE Over(f, g)[r] \in Issue
    OBVIOUS
  <2>1. CASE r \in DOMAIN f
    BY <1>2, <1>5, <2>1
  <2>2. CASE r \notin DOMAIN f
    BY <1>3, <1>5, <2>2
  <2>3. QED
    BY <2>1, <2>2
<1>8. QED
  BY <1>4, <1>6, <1>7, PartialIs

(* A set of keys is finite, and so are those before one of them.           *)
LEMMA KeysFinite ==
  ASSUME NEW K \in SUBSET Key
  PROVE  IsFiniteSet(K) /\ Cardinality(K) \in Nat
<1>1. IsFiniteSet(Key)
  BY Bounds, FS_Interval DEF Key
<1>2. IsFiniteSet(K)
  BY <1>1, FS_Subset
<1>3. QED
  BY <1>2, FS_CardinalityType

LEMMA RowsFinite ==
  ASSUME NEW R \in SUBSET Row
  PROVE  IsFiniteSet(R) /\ Cardinality(R) \in Nat
<1>1. IsFiniteSet(Row)
  BY Bounds, FS_Interval DEF Row
<1>2. IsFiniteSet(R)
  BY <1>1, FS_Subset
<1>3. QED
  BY <1>2, FS_CardinalityType

(* Numbered counts the members of a finite set of numbers, in their order, *)
(* and reaches every number up to its size.                                *)
LEMMA NumberedIs ==
  ASSUME NEW K \in SUBSET Nat, IsFiniteSet(K), NEW n \in Nat
  PROVE  /\ Cardinality(K) \in Nat
         /\ Numbered(K, n) \in [K -> n..(n + Cardinality(K) - 1)]
         /\ \A j, k \in K : Numbered(K, n)[j] = Numbered(K, n)[k] => j = k
         /\ \A m \in n..(n + Cardinality(K) - 1) : \E k \in K : Numbered(K, n)[k] = m
<1> DEFINE B(k) == {j \in K : j < k}
           c == Cardinality(K)
           T == n..(n + c - 1)
           f == Numbered(K, n)
<1>1. c \in Nat
  BY FS_CardinalityType
<1>2. ASSUME NEW k \in K
      PROVE  IsFiniteSet(B(k)) /\ Cardinality(B(k)) \in Nat /\ Cardinality(B(k)) < c
  <2>1. IsFiniteSet(B(k)) /\ Cardinality(B(k)) <= c /\ (c = Cardinality(B(k)) => K = B(k))
    BY FS_Subset
  <2>2. k \notin B(k)
    OBVIOUS
  <2>3. Cardinality(B(k)) \in Nat
    BY <2>1, FS_CardinalityType
  <2>4. QED
    BY <1>1, <2>1, <2>2, <2>3
<1>3. ASSUME NEW j \in K, NEW k \in K, j < k
      PROVE  Cardinality(B(j)) < Cardinality(B(k))
  <2> j \in Nat /\ k \in Nat
    OBVIOUS
  <2>1. B(j) \subseteq B(k) /\ j \in B(k) /\ j \notin B(j)
    <3>1. ASSUME NEW i \in K, i < j PROVE i < k
      <4>1. i \in Nat
        OBVIOUS
      <4>2. QED
        BY <1>3, <3>1, <4>1
    <3>2. j \in B(k) /\ j \notin B(j)
      BY <1>3
    <3>3. QED
      BY <3>1, <3>2
  <2>2. Cardinality(B(j)) <= Cardinality(B(k))
        /\ (Cardinality(B(k)) = Cardinality(B(j)) => B(k) = B(j))
    BY <1>2, <2>1, FS_Subset
  <2>3. Cardinality(B(j)) \in Nat /\ Cardinality(B(k)) \in Nat
    BY <1>2
  <2>4. QED
    BY <2>1, <2>2, <2>3
<1>4. \A k \in K : f[k] = n + Cardinality(B(k))
  BY DEF Numbered
<1>5. f \in [K -> T]
  <2>1. \A k \in K : n + Cardinality(B(k)) \in T
    BY <1>1, <1>2
  <2> HIDE DEF B, T
  <2>2. f = [k \in K |-> f[k]]
    BY DEF Numbered
  <2> HIDE DEF f
  <2>3. QED
    BY <1>4, <2>1, <2>2
<1>6. \A j, k \in K : f[j] = f[k] => j = k
  <2> SUFFICES ASSUME NEW j \in K, NEW k \in K, f[j] = f[k] PROVE j = k
    OBVIOUS
  <2>1. Cardinality(B(j)) \in Nat /\ Cardinality(B(k)) \in Nat
    BY <1>2
  <2>2. Cardinality(B(j)) = Cardinality(B(k))
    BY <1>4, <2>1
  <2> HIDE DEF B, f
  <2>3. QED
    BY <1>3, <2>1, <2>2
<1>7. f \in Surjection(K, T)
  <2>1. IsFiniteSet(T) /\ Cardinality(T) = c
    <3>1. n + c - 1 \in Int /\ (n + c - 1) - n + 1 = c /\ (n > n + c - 1 => c = 0)
      BY <1>1
    <3>2. QED
      BY <1>1, <3>1, FS_Interval
  <2> HIDE DEF T, f
  <2>2. f \in Injection(K, T)
    BY <1>5, <1>6 DEF Injection, IsInjective
  <2>3. QED
    BY <2>1, <2>2, FS_Injection
<1>8. \A m \in T : \E k \in K : f[k] = m
  BY <1>7 DEF Surjection
<1>9. QED
  BY <1>1, <1>5, <1>6, <1>8

-----------------------------------------------------------------------------
(* Transactions as records.                                                *)

LEMMA ImportIs ==
  ASSUME NEW x \in ImportTx
  PROVE  /\ Importing(x) /\ x # Idle /\ x.at = "paging"
         /\ x.new \in Partial /\ x.writes \in Partial
         /\ x.outdated \subseteq Row /\ x.raced \subseteq Name /\ x.posted = {}
         /\ x.kind \in {"project", "all", "mine", "one"} /\ x.asc \in BOOLEAN
         /\ x.target \in Key \cup {0} /\ x.start \in Nat /\ x.total \in Nat
         /\ x.sprints \subseteq Sprint /\ x.met \subseteq Row
         /\ x.base \in Seq(ServerIssue) /\ x.shifted \in BOOLEAN /\ x.moved \in BOOLEAN
         /\ x.hidden \subseteq Key /\ x.listed \subseteq Key /\ x.split \subseteq Key
BY DEF ImportTx, Importing, Idle

LEMMA ExportIs ==
  ASSUME NEW x \in ExportTx
  PROVE  /\ ~Importing(x) /\ x # Idle
         /\ x.at \in {"ready", "exporting", "linking", "failed"}
         /\ x.new \in Partial /\ x.writes \in Partial
         /\ x.outdated \subseteq Row /\ x.raced \subseteq Name
         /\ x.posted \subseteq Key /\ x.batch \subseteq Row
<1>1. x # Idle
  BY DEF ExportTx, Idle
<1>2. ~Importing(x)
  BY DEF ExportTx, Importing
<1>3. QED
  BY <1>1, <1>2 DEF ExportTx

LEMMA KnownIs ==
  ASSUME NEW x \in ImportTx
  PROVE  /\ x.known = [k \in DOMAIN x.known |-> x.known[k]]
         /\ DOMAIN x.known \subseteq Key
         /\ \A k \in DOMAIN x.known : x.known[k] \in Row
<1>1. x.known \in UNION {[K -> Row] : K \in SUBSET Key}
  BY DEF ImportTx
<1>2. PICK K \in SUBSET Key : x.known \in [K -> Row]
  BY <1>1
<1>3. QED
  BY <1>2

(* A transaction others told of the rows they wrote and the names they     *)
(* used, and is otherwise the same.                                        *)
Heard(x, W, N) == [x EXCEPT !.outdated = @ \cup W, !.raced = @ \cup N]

SameImport(x, y, W, N) ==
  /\ y.outdated = x.outdated \cup W /\ y.raced = x.raced \cup N
  /\ y.new = x.new /\ y.writes = x.writes /\ y.kind = x.kind /\ y.asc = x.asc
  /\ y.target = x.target /\ y.start = x.start /\ y.total = x.total
  /\ y.known = x.known /\ y.met = x.met /\ y.base = x.base
  /\ y.shifted = x.shifted /\ y.moved = x.moved /\ y.hidden = x.hidden
  /\ y.listed = x.listed /\ y.split = x.split /\ y.posted = x.posted

LEMMA HeardImport ==
  ASSUME NEW x \in ImportTx, NEW W \in SUBSET Row, NEW N \in SUBSET Name
  PROVE  Heard(x, W, N) \in ImportTx /\ SameImport(x, Heard(x, W, N), W, N)
<1> DEFINE y == Heard(x, W, N)
<1>1. y \in ImportTx
  BY DEF ImportTx, Heard
<1>2. SameImport(x, y, W, N)
  BY <1>1 DEF ImportTx, Heard, SameImport
<1>3. QED
  BY <1>1, <1>2

SameExport(x, y, W, N) ==
  /\ y.outdated = x.outdated \cup W /\ y.raced = x.raced \cup N
  /\ y.at = x.at /\ y.new = x.new /\ y.writes = x.writes
  /\ y.posted = x.posted /\ y.batch = x.batch

LEMMA HeardExport ==
  ASSUME NEW x \in ExportTx, NEW W \in SUBSET Row, NEW N \in SUBSET Name
  PROVE  Heard(x, W, N) \in ExportTx /\ SameExport(x, Heard(x, W, N), W, N)
<1> DEFINE y == Heard(x, W, N)
<1>1. y \in ExportTx
  BY DEF ExportTx, Heard
<1>2. SameExport(x, y, W, N)
  BY <1>1 DEF ExportTx, Heard, SameExport
<1>3. QED
  BY <1>1, <1>2

LEMMA HeardNothing ==
  ASSUME NEW x, x \in ImportTx \/ x \in ExportTx
  PROVE  Heard(x, {}, {}) = x
<1>1. CASE x \in ImportTx
  BY <1>1 DEF ImportTx, Heard
<1>2. CASE x \in ExportTx
  BY <1>2 DEF ExportTx, Heard
<1>3. QED
  BY <1>1, <1>2

LEMMA NamesAre ==
  ASSUME NEW row \in Issue
  PROVE  /\ row.key \in Key \cup {0} /\ row.src \in Source \cup {None}
         /\ Names(row) \subseteq Name
         /\ \A k \in Key : k \in Names(row) <=> row.key = k
         /\ \A a \in Source : a \in Names(row) <=> row.src = a
<1>1. row.key \in Key \cup {0} /\ row.src \in Source \cup {None}
  BY DEF Issue
<1>2. QED
  BY <1>1, NamesApart DEF Names, Name

-----------------------------------------------------------------------------
(* What a transaction keeps while others commit: they write the rows W and *)
(* use the names N, and the server goes on.                                *)
Extends(i, j, W, N) ==
  /\ DOMAIN i \subseteq DOMAIN j
  /\ \A r \in DOMAIN i :
       /\ j[r].src = i[r].src
       /\ i[r].key # 0 \/ r \notin W => j[r].key = i[r].key
  /\ \A r \in DOMAIN j : \A n \in Names(j[r]) :
       n \in N \/ \E q \in DOMAIN i : n \in Names(i[q])

Continues(s, z) ==
  DOMAIN s \subseteq DOMAIN z /\ \A k \in DOMAIN s : z[k].origin = s[k].origin

LEMMA RowStays ==
  ASSUME NEW row, NEW D, NEW E, NEW s, NEW z, RowOK(row, D, s),
         D \subseteq E, DOMAIN s \subseteq DOMAIN z
  PROVE  RowOK(row, E, z)
BY DEF RowOK

LEMMA OthersTx ==
  ASSUME NEW x, NEW y, NEW i, NEW j, NEW s, NEW z, NEW n \in Nat, NEW m \in Nat,
         NEW W, NEW N, y.new = x.new, y.writes = x.writes, y.posted = x.posted,
         TxOK(x, i, s, n), Extends(i, j, W, N), Continues(s, z), n <= m,
         DOMAIN x.new \cap DOMAIN j = {},
         \A k \in DOMAIN z : z[k].origin \in DOMAIN x.new => k \in x.posted
  PROVE  TxOK(y, j, z, m)
<1>1. RowsOf(x, i) \subseteq RowsOf(y, j)
  BY DEF RowsOf, Extends
<1>2. DOMAIN y.new \subseteq 1..(m - 1)
  BY DEF TxOK
<1>3. DOMAIN y.writes \subseteq DOMAIN j
  BY DEF TxOK, Extends
<1>4. \A r \in DOMAIN y.new : RowOK(y.new[r], RowsOf(y, j), z)
  <2> SUFFICES ASSUME NEW r \in DOMAIN x.new PROVE RowOK(x.new[r], RowsOf(y, j), z)
    OBVIOUS
  <2>1. RowOK(x.new[r], RowsOf(x, i), s) /\ DOMAIN s \subseteq DOMAIN z
    BY DEF TxOK, Continues
  <2>2. QED
    BY <1>1, <2>1, RowStays
<1>5. ASSUME NEW r \in DOMAIN y.writes
      PROVE  RowOK(y.writes[r], RowsOf(y, j), z) /\ y.writes[r].src = j[r].src
  <2>1. /\ RowOK(x.writes[r], RowsOf(x, i), s) /\ DOMAIN s \subseteq DOMAIN z
        /\ x.writes[r].src = i[r].src /\ r \in DOMAIN i
    BY DEF TxOK, Continues
  <2>2. j[r].src = i[r].src
    BY <2>1 DEF Extends
  <2>3. RowOK(x.writes[r], RowsOf(y, j), z)
    BY <1>1, <2>1, RowStays
  <2>4. QED
    BY <2>1, <2>2, <2>3
<1>6. QED
  BY <1>2, <1>3, <1>4, <1>5 DEF TxOK

LEMMA KeyStays ==
  ASSUME NEW i, NEW j, NEW W, NEW N, Extends(i, j, W, N), NEW r, NEW k, k # 0,
         KeyOf(i, r, k)
  PROVE  KeyOf(j, r, k)
BY DEF KeyOf, Extends

LEMMA OthersImport ==
  ASSUME NEW x \in ImportTx, NEW W \in SUBSET Row, NEW N \in SUBSET Name,
         NEW i \in Partial, NEW j \in Partial, NEW s, NEW z, NEW n,
         TxOK(x, i, s, n), ImportOK(x, i, s), Extends(i, j, W, N), Continues(s, z)
  PROVE  ImportOK(Heard(x, W, N), j, z)
<1> DEFINE y == Heard(x, W, N)
<1>a. SameImport(x, y, W, N)
  BY HeardImport
<1> HIDE DEF y
<1> /\ y.new = x.new /\ y.writes = x.writes /\ y.kind = x.kind /\ y.asc = x.asc
    /\ y.target = x.target /\ y.start = x.start /\ y.total = x.total
    /\ y.known = x.known /\ y.met = x.met /\ y.base = x.base
    /\ y.shifted = x.shifted /\ y.hidden = x.hidden
    /\ y.listed = x.listed /\ y.split = x.split /\ y.raced = x.raced \cup N
  BY <1>a DEF SameImport
<1>1. \A r \in DOMAIN j : j[r] \in Issue
  BY PartialIs
<1>2. \A r \in DOMAIN i : i[r] \in Issue
  BY PartialIs
<1>3. DOMAIN y.base \subseteq DOMAIN z /\ (y.kind = "one" => y.target \in DOMAIN y.base)
      /\ PageSize <= y.total
  BY DEF ImportOK, Continues
<1>4. \A r \in DOMAIN y.writes : y.writes[r].key = j[r].key /\ j[r].key # 0
  <2> SUFFICES ASSUME NEW r \in DOMAIN x.writes
               PROVE  x.writes[r].key = j[r].key /\ j[r].key # 0
    OBVIOUS
  <2>1. r \in DOMAIN i /\ x.writes[r].key = i[r].key /\ i[r].key # 0
    BY DEF TxOK, ImportOK
  <2>2. QED
    BY <2>1 DEF Extends
<1>5. ASSUME NEW k \in DOMAIN y.known
      PROVE  KeyOf(y.new, y.known[k], k) \/ KeyOf(j, y.known[k], k)
  <2>1. KeyOf(x.new, x.known[k], k) \/ KeyOf(i, x.known[k], k)
    BY DEF ImportOK
  <2>2. k # 0
    BY KnownIs, NamesApart
  <2>3. QED
    BY <2>1, <2>2, KeyStays
<1>6. ASSUME NEW k \in Key, k \notin x.raced \cup N, NEW r \in DOMAIN j, j[r].key = k
      PROVE  \E q \in DOMAIN i : i[q].key = k
  <2>1. k \in Names(j[r])
    BY <1>1, <1>6, NamesAre
  <2>2. PICK q \in DOMAIN i : k \in Names(i[q])
    BY <1>6, <2>1 DEF Extends
  <2>3. QED
    BY <1>2, <2>2, NamesAre
<1>7. ASSUME NEW k \in Key \ (y.raced \cup y.hidden), NEW r \in DOMAIN j, j[r].key = k
      PROVE  k \in DOMAIN y.known
  <2>1. PICK q \in DOMAIN i : i[q].key = k
    BY <1>6, <1>7
  <2>2. QED
    BY <1>7, <2>1 DEF ImportOK
<1>8. ASSUME NEW r \in DOMAIN y.new, NEW q \in DOMAIN j, y.new[r].key = j[q].key
      PROVE  y.new[r].key \in y.raced \cup y.hidden
  <2>1. x.new[r].key # 0
    BY DEF ImportOK
  <2>2. x.new[r].key \in Key
    <3>1. x.new[r] \in Issue
      BY ImportIs, PartialIs
    <3>2. QED
      BY <2>1, <3>1, NamesAre
  <2>3. CASE x.new[r].key \in x.raced \cup N
    BY <2>3
  <2>4. CASE x.new[r].key \notin x.raced \cup N
    <3>1. PICK p \in DOMAIN i : i[p].key = x.new[r].key
      BY <1>6, <1>8, <2>2, <2>4
    <3>2. QED
      BY <3>1 DEF ImportOK
  <2>5. QED
    BY <2>3, <2>4
<1>9. ~y.shifted =>
        \A k \in y.listed : k \in Matches(y, y.base) /\ PlaceIn(y, y.base, k) < y.start
  BY DEF ImportOK, Matches, PlaceIn
<1>10. ImportOK(y, j, z)
  BY <1>3, <1>4, <1>5, <1>7, <1>8, <1>9 DEF ImportOK
<1>11. QED
  BY <1>10 DEF y

LEMMA OthersQuiet ==
  ASSUME NEW x \in ImportTx, NEW W \in SUBSET Row, NEW N \in SUBSET Name,
         NEW i, NEW j, QuietOK(x, i), Extends(i, j, W, N)
  PROVE  QuietOK(Heard(x, W, N), j)
<1> DEFINE y == Heard(x, W, N)
<1>a. SameImport(x, y, W, N)
  BY HeardImport
<1> HIDE DEF y
<1> /\ y.new = x.new /\ y.writes = x.writes /\ y.kind = x.kind /\ y.asc = x.asc
    /\ y.target = x.target /\ y.start = x.start /\ y.total = x.total
    /\ y.base = x.base /\ y.shifted = x.shifted /\ y.listed = x.listed
  BY <1>a DEF SameImport
<1>1. Matches(y, y.base) = Matches(x, x.base)
  BY DEF Matches
<1>2. \A k : PlaceIn(y, y.base, k) = PlaceIn(x, x.base, k)
  BY <1>1 DEF PlaceIn
<1>3. ASSUME NEW row, NEW there, Mirrors(x, i, row, there)
      PROVE  Mirrors(y, j, row, there)
  BY <1>3, KeyStays DEF Mirrors
<1>4. ASSUME NEW k \in y.listed
      PROVE  \E r \in DOMAIN y.new \cup DOMAIN y.writes :
               Held(y, r).key = k /\ Mirrors(y, j, Held(y, r), y.base[k])
  BY <1>3 DEF QuietOK, Held
<1>5. QuietOK(y, j)
  BY <1>1, <1>2, <1>4 DEF QuietOK
<1>6. QED
  BY <1>5 DEF y

LEMMA OthersExport ==
  ASSUME NEW x \in ExportTx, NEW W \in SUBSET Row, NEW N \in SUBSET Name,
         NEW i \in Partial, NEW j \in Partial, NEW s, NEW z, NEW n,
         TxOK(x, i, s, n), ExportOK(x, i, s), Extends(i, j, W, N), Continues(s, z),
         DOMAIN x.new \cap DOMAIN j = {},
         \A k \in x.posted : ~KeyOf(j, s[k].origin, k)
  PROVE  ExportOK(Heard(x, W, N), j, z)
<1> DEFINE y == Heard(x, W, N)
<1>a. SameExport(x, y, W, N)
  BY HeardExport
<1> HIDE DEF y
<1> /\ y.new = x.new /\ y.writes = x.writes /\ y.posted = x.posted
    /\ y.batch = x.batch /\ y.at = x.at
    /\ y.outdated = x.outdated \cup W /\ y.raced = x.raced \cup N
  BY <1>a DEF SameExport
<1>1. \A r \in DOMAIN j : j[r] \in Issue
  BY PartialIs
<1>2. \A r \in DOMAIN i : i[r] \in Issue
  BY PartialIs
<1>3. x.posted \subseteq DOMAIN s /\ \A k \in x.posted : z[k].origin = s[k].origin
  BY DEF ExportOK, Continues
<1>4. y.batch \subseteq RowsOf(y, j)
  BY DEF ExportOK, RowsOf, Extends
<1>5. ASSUME NEW r \in y.batch \cap DOMAIN j, j[r].key # 0
      PROVE  r \in y.outdated
  <2>1. r \in DOMAIN i
    BY <1>5 DEF ExportOK, RowsOf
  <2>2. CASE i[r].key # 0
    BY <1>5, <2>1, <2>2 DEF ExportOK
  <2>3. CASE i[r].key = 0
    BY <1>5, <2>1, <2>3 DEF Extends
  <2>4. QED
    BY <2>2, <2>3
<1>6. y.posted \subseteq DOMAIN z
  BY <1>3 DEF Continues
<1>7. ASSUME NEW k \in y.posted
      PROVE  /\ \/ KeyOf(y.new, z[k].origin, k)
                \/ KeyOf(y.writes, z[k].origin, k)
             /\ ~KeyOf(j, z[k].origin, k)
             /\ k \in y.raced \/ \A r \in DOMAIN j : j[r].key # k
  <2>1. KeyOf(x.new, s[k].origin, k) \/ KeyOf(x.writes, s[k].origin, k)
    BY DEF ExportOK
  <2>2. ASSUME k \notin y.raced, NEW r \in DOMAIN j, j[r].key = k
        PROVE  FALSE
    <3>1. k \in Key
      BY ExportIs
    <3>2. k \in Names(j[r])
      BY <1>1, <2>2, <3>1, NamesAre
    <3>3. PICK q \in DOMAIN i : k \in Names(i[q])
      BY <2>2, <3>2 DEF Extends
    <3>4. i[q].key = k
      BY <1>2, <3>1, <3>3, NamesAre
    <3>5. QED
      BY <2>2, <3>4 DEF ExportOK
  <2>3. QED
    BY <1>3, <2>1, <2>2
<1>8. \A r \in DOMAIN y.new :
        y.new[r].key # 0 => y.new[r].key \in y.posted /\ z[y.new[r].key].origin = r
  BY <1>3 DEF ExportOK
<1>9. \A r \in DOMAIN y.writes :
        y.writes[r].key \in y.posted /\ z[y.writes[r].key].origin = r
  BY <1>3 DEF ExportOK
<1>10. ASSUME NEW r \in DOMAIN y.new, y.new[r].src # None, y.new[r].src \notin y.raced
       PROVE  /\ \A q \in DOMAIN y.new : y.new[q].src = y.new[r].src => q = r
              /\ \A q \in DOMAIN j : j[q].src # y.new[r].src
  <2>1. /\ \A q \in DOMAIN x.new : x.new[q].src = x.new[r].src => q = r
        /\ \A q \in DOMAIN i : i[q].src # x.new[r].src
    BY <1>10 DEF ExportOK
  <2>2. ASSUME NEW q \in DOMAIN j, j[q].src = x.new[r].src
        PROVE  FALSE
    <3>1. x.new[r] \in Issue
      BY ExportIs, PartialIs
    <3>2. x.new[r].src \in Source
      BY <1>10, <3>1, NamesAre
    <3>3. x.new[r].src \in Names(j[q])
      BY <1>1, <2>2, <3>2, NamesAre
    <3>4. PICK p \in DOMAIN i : x.new[r].src \in Names(i[p])
      BY <1>10, <3>3 DEF Extends
    <3>5. QED
      BY <1>2, <2>1, <3>2, <3>4, NamesAre
  <2>3. QED
    BY <2>1, <2>2
<1>11. DOMAIN y.new \subseteq y.batch /\ DOMAIN y.writes \subseteq y.batch
       /\ (y.at = "exporting" => y.posted = {})
  BY DEF ExportOK
<1>12. ExportOK(y, j, z)
  BY <1>4, <1>5, <1>6, <1>7, <1>8, <1>9, <1>10, <1>11 DEF ExportOK
<1>13. QED
  BY <1>12 DEF y

-----------------------------------------------------------------------------
(* A page of an import: the operators of Page, for any state.              *)
ViewOf(x, i) == Over(x.new, Over(x.writes, i))

SizeOf(x) == IF x.total - x.start < PageSize THEN x.total - x.start ELSE PageSize

ShownOf(x, s) ==
  {k \in Matches(x, s) : PlaceIn(x, s, k) \in x.start..(x.start + SizeOf(x) - 1)}

EpicsOf(x, s) == {s[k].parent : k \in ShownOf(x, s)} \ ({0} \cup DOMAIN x.known)

KnownOf(x, s, n) == Over(Numbered(EpicsOf(x, s), n), x.known)

FreshOf(x, s, n) ==
  Numbered(ShownOf(x, s) \ DOMAIN KnownOf(x, s, n), n + Cardinality(EpicsOf(x, s)))

RowsAt(x, s, n) == Over(FreshOf(x, s, n), KnownOf(x, s, n))

BeforeOf(x, i, s, n) ==
  [r \in {RowsAt(x, s, n)[k] : k \in ShownOf(x, s) \cup EpicsOf(x, s)} |->
    IF r < n THEN ViewOf(x, i)[r]
    ELSE [Blank EXCEPT !.key = CHOOSE k \in DOMAIN RowsAt(x, s, n) :
                                 RowsAt(x, s, n)[k] = r]]

AfterOf(x, i, s, n) ==
  [r \in DOMAIN BeforeOf(x, i, s, n) |->
    LET k == BeforeOf(x, i, s, n)[r].key IN
    IF k \in ShownOf(x, s)
    THEN Mapped(x, BeforeOf(x, i, s, n)[r], s[k], KnownOf(x, s, n))
    ELSE BeforeOf(x, i, s, n)[r]]

OursOf(x, i, s, n) ==
  {r \in DOMAIN AfterOf(x, i, s, n) : r >= n \/ r \in DOMAIN x.new}

PageOf(x, i, s, n) ==
  [x EXCEPT
    !.new     = Over([r \in OursOf(x, i, s, n) |-> AfterOf(x, i, s, n)[r]], @),
    !.writes  = Over([r \in DOMAIN AfterOf(x, i, s, n) \ OursOf(x, i, s, n) |->
                       AfterOf(x, i, s, n)[r]], @),
    !.met     = @ \cup {RowsAt(x, s, n)[k] : k \in ShownOf(x, s)},
    !.known   = KnownOf(x, s, n),
    !.total   = IF x.kind # "one" /\ Cardinality(Matches(x, s)) > @
                THEN Cardinality(Matches(x, s)) ELSE @,
    !.start   = @ + PageSize,
    !.shifted = @ \/ Matches(x, s) # Matches(x, x.base),
    !.moved   = @ \/ s # x.base,
    !.split   = @ \cup (EpicsOf(x, s) \cap x.listed),
    !.listed  = @ \cup ShownOf(x, s)]

LEMMA PageIs ==
  ASSUME NEW t \in Transactions, Page(t)
  PROVE  LET x == tx[t] IN
         /\ x.at = "paging" /\ x.start < x.total
         /\ nextRow' = nextRow + Cardinality(EpicsOf(x, server))
                       + Cardinality(DOMAIN FreshOf(x, server, nextRow))
         /\ nextRow' <= MaxRows + 1
         /\ tx' = [tx EXCEPT ![t] = PageOf(x, issues, server, nextRow)]
         /\ UNCHANGED <<server, issues, sprints, jobs, opened, changes, excused, lost>>
BY DEF Page, PageOf, OursOf, AfterOf, BeforeOf, RowsAt, FreshOf, KnownOf, EpicsOf,
       ShownOf, SizeOf, ViewOf, View, PlaceIn, Place

LEMMA MatchesAre ==
  ASSUME NEW x \in ImportTx, NEW s \in Seq(ServerIssue), Len(s) <= MaxKeys,
         x.kind = "one" => x.target \in DOMAIN s
  PROVE  /\ DOMAIN s \subseteq Key /\ Matches(x, s) \subseteq DOMAIN s
         /\ IsFiniteSet(Matches(x, s)) /\ Cardinality(Matches(x, s)) \in Nat
         /\ \A k \in Matches(x, s) :
              PlaceIn(x, s, k) \in Nat /\ PlaceIn(x, s, k) < Cardinality(Matches(x, s))
<1>1. DOMAIN s \subseteq Key
  BY Bounds DEF Key
<1>2. Matches(x, s) \subseteq DOMAIN s
  <2>1. x.kind \in {"project", "all", "mine", "one"}
    BY ImportIs
  <2>2. QED
    BY <2>1 DEF Matches
<1>3. IsFiniteSet(Matches(x, s)) /\ Cardinality(Matches(x, s)) \in Nat
  BY <1>1, <1>2, KeysFinite
<1>4. ASSUME NEW k \in Matches(x, s)
      PROVE  PlaceIn(x, s, k) \in Nat /\ PlaceIn(x, s, k) < Cardinality(Matches(x, s))
  <2> DEFINE M == Matches(x, s)
             B == {j \in M : IF x.asc THEN j < k ELSE j > k}
  <2>1. k \in Nat
    BY <1>1, <1>2, NamesApart
  <2>2. B \subseteq M /\ k \in M /\ k \notin B
    BY <2>1
  <2>3. PlaceIn(x, s, k) = Cardinality(B)
    BY DEF PlaceIn
  <2> HIDE DEF B
  <2>4. IsFiniteSet(B) /\ Cardinality(B) <= Cardinality(M)
        /\ (Cardinality(M) = Cardinality(B) => M = B)
    BY <1>3, <2>2, FS_Subset
  <2>5. Cardinality(B) \in Nat
    BY <2>4, FS_CardinalityType
  <2>6. QED
    BY <1>3, <2>2, <2>3, <2>4, <2>5
<1>5. QED
  BY <1>1, <1>2, <1>3, <1>4

(* What mapping_issue leaves of a row.                                     *)
LEMMA MappedIs ==
  ASSUME NEW x \in ImportTx, NEW row \in Issue, NEW there \in ServerIssue, NEW f,
         there.parent # 0 => f[there.parent] \in Row
  PROVE  LET m == Mapped(x, row, there, f) IN
         /\ m \in Issue /\ m.key = row.key /\ m.src = row.src
         /\ there.assignee \in {"none", m.assignee}
         /\ m.epic = IF there.parent = 0 THEN row.epic ELSE f[there.parent]
         /\ there.sprint \in {0, m.sprint, m.sprintKey}
         /\ \A D, s : RowOK(row, D, s) /\ (there.parent # 0 => f[there.parent] \in D)
              => RowOK(m, D, s)
<1> DEFINE m == Mapped(x, row, there, f)
<1>1. there.assignee \in Assignee /\ there.parent \in Key \cup {0} /\ there.sprint \in Sprint \cup {0}
  BY DEF ServerIssue
<1>2. m \in Issue
  <2> DEFINE a == IF there.assignee = "none" THEN row.assignee ELSE there.assignee
             e == IF there.parent = 0 THEN row.epic ELSE f[there.parent]
             p == IF there.sprint \in x.sprints THEN there.sprint ELSE row.sprint
             q == IF there.sprint \in {0} \cup x.sprints THEN row.sprintKey
                  ELSE there.sprint
             l == IF there.sprint = 0 THEN row.last ELSE there.sprint
             w == IF there.sprint = 0 THEN row.wavered
                  ELSE there.sprint \in x.sprints /\ row.sprintKey \notin {0, there.sprint}
  <2>1. m = [row EXCEPT !.assignee = a, !.epic = e, !.sprint = p,
                        !.sprintKey = q, !.last = l, !.wavered = w]
    BY DEF Mapped
  <2>2. row.epic \in Row \cup {0} /\ {row.sprint, row.sprintKey, row.last} \subseteq Sprint \cup {0}
        /\ row.wavered \in BOOLEAN
    BY DEF Issue
  <2>3. e \in Row \cup {0}
    BY <1>1, <2>2
  <2>4. {p, q, l} \subseteq Sprint \cup {0}
    BY <1>1, <2>2
  <2>5. w \in BOOLEAN
    BY <2>2
  <2>7. a \in Assignee
    BY <1>1 DEF Issue
  <2> HIDE DEF m, a, e, p, q, l, w
  <2>6. QED
    BY <1>1, <2>1, <2>3, <2>4, <2>5, <2>7 DEF Issue
<1>3. /\ m.key = row.key /\ m.src = row.src /\ there.assignee \in {"none", m.assignee}
      /\ m.epic = IF there.parent = 0 THEN row.epic ELSE f[there.parent]
      /\ m.sprint = IF there.sprint \in x.sprints THEN there.sprint ELSE row.sprint
      /\ m.sprintKey = IF there.sprint \in {0} \cup x.sprints THEN row.sprintKey
                       ELSE there.sprint
      /\ m.last = IF there.sprint = 0 THEN row.last ELSE there.sprint
      /\ m.wavered = IF there.sprint = 0 THEN row.wavered
                     ELSE there.sprint \in x.sprints
                          /\ row.sprintKey \notin {0, there.sprint}
  BY <1>1 DEF Issue, Mapped
<1>4. there.sprint \in {0, m.sprint, m.sprintKey}
  BY <1>3
<1>5. ASSUME NEW D, NEW s, RowOK(row, D, s),
             there.parent # 0 => f[there.parent] \in D
      PROVE  RowOK(m, D, s)
  <2> HIDE DEF m
  <2>1. m.key \in {0} \cup DOMAIN s /\ m.epic \in {0} \cup D
    BY <1>3, <1>5 DEF RowOK
  <2>2. ASSUME m.last # 0, ~m.wavered
        PROVE  m.sprintKey = m.last \/ (m.sprintKey = 0 /\ m.sprint = m.last)
    <3>1. CASE there.sprint = 0
      <4>1. m.sprint = row.sprint
        BY <1>3, <3>1, ImportIs, NamesApart
      <4>2. QED
        BY <1>3, <1>5, <2>2, <3>1, <4>1 DEF RowOK
    <3>2. CASE there.sprint # 0 /\ there.sprint \in x.sprints
      BY <1>3, <1>5, <2>2, <3>2 DEF RowOK
    <3>3. CASE there.sprint # 0 /\ there.sprint \notin x.sprints
      BY <1>3, <1>5, <2>2, <3>3 DEF RowOK
    <3>4. QED
      BY <3>1, <3>2, <3>3
  <2>3. QED
    BY <2>1, <2>2 DEF RowOK
<1>6. QED
  BY <1>2, <1>3, <1>4, <1>5

(* An import that is as it should be, in a state that is.                  *)
Paging(x, i, s, n) ==
  /\ x \in ImportTx /\ i \in Partial
  /\ s \in Seq(ServerIssue) /\ Len(s) <= MaxKeys
  /\ n \in Nat /\ 1 <= n /\ DOMAIN i \subseteq 1..(n - 1)
  /\ TableOK(i, s) /\ ServerOK(s, n) /\ TxOK(x, i, s, n) /\ ImportOK(x, i, s)

LEMMA KnownRows ==
  ASSUME NEW x, NEW i, NEW s, NEW n, Paging(x, i, s, n)
  PROVE  /\ \A k \in DOMAIN x.known :
              /\ x.known[k] \in 1..(n - 1)
              /\ x.known[k] \in RowsOf(x, i)
              /\ x.known[k] \in DOMAIN x.new => x.new[x.known[k]].key = k
              /\ x.known[k] \in DOMAIN i => i[x.known[k]].key = k
         /\ \A j, k \in DOMAIN x.known : x.known[j] = x.known[k] => j = k
<1>1. ASSUME NEW k \in DOMAIN x.known
      PROVE  /\ x.known[k] \in 1..(n - 1)
             /\ x.known[k] \in RowsOf(x, i)
             /\ x.known[k] \in DOMAIN x.new => x.new[x.known[k]].key = k
             /\ x.known[k] \in DOMAIN i => i[x.known[k]].key = k
  <2>1. KeyOf(x.new, x.known[k], k) \/ KeyOf(i, x.known[k], k)
    BY DEF Paging, ImportOK
  <2>2. DOMAIN x.new \cap DOMAIN i = {} /\ DOMAIN x.new \subseteq 1..(n - 1)
        /\ DOMAIN i \subseteq 1..(n - 1)
    BY DEF Paging, TxOK
  <2>3. QED
    BY <2>1, <2>2 DEF KeyOf, RowsOf
<1>2. ASSUME NEW j \in DOMAIN x.known, NEW k \in DOMAIN x.known, x.known[j] = x.known[k]
      PROVE  j = k
  BY <1>1, <1>2 DEF RowsOf
<1>3. QED
  BY <1>1, <1>2

(* The numbers of the rows of a page.                                      *)
KeysFit(x, s, n) ==
  LET A == ShownOf(x, s)
      E == EpicsOf(x, s)
      f == KnownOf(x, s, n)
      g == FreshOf(x, s, n)
      h == RowsAt(x, s, n)
      c == Cardinality(E)
      d == Cardinality(DOMAIN g)
  IN
  /\ A \subseteq DOMAIN s /\ E \subseteq DOMAIN s /\ DOMAIN s \subseteq Key
  /\ c \in Nat /\ d \in Nat
  /\ DOMAIN f = E \cup DOMAIN x.known /\ E \cap DOMAIN x.known = {}
  /\ \A k \in E : f[k] \in n..(n + c - 1)
  /\ \A k \in DOMAIN x.known : f[k] = x.known[k]
  /\ DOMAIN g = A \ DOMAIN f /\ DOMAIN h = A \cup DOMAIN f
  /\ \A k \in DOMAIN f : h[k] = f[k]
  /\ \A k \in A \ DOMAIN f : h[k] \in (n + c)..(n + c + d - 1)
  /\ \A j, k \in DOMAIN h : h[j] = h[k] => j = k

LEMMA PageKeys ==
  ASSUME NEW x, NEW i, NEW s, NEW n, Paging(x, i, s, n)
  PROVE  KeysFit(x, s, n)
<1> DEFINE A == ShownOf(x, s)
           E == EpicsOf(x, s)
           f == KnownOf(x, s, n)
           g == FreshOf(x, s, n)
           h == RowsAt(x, s, n)
           c == Cardinality(E)
           d == Cardinality(DOMAIN g)
<1>1. A \subseteq DOMAIN s /\ DOMAIN s \subseteq Key
  <2>1. x.kind = "one" => x.target \in DOMAIN s
    BY DEF Paging, ImportOK
  <2>2. Matches(x, s) \subseteq DOMAIN s /\ DOMAIN s \subseteq Key
    BY <2>1, MatchesAre DEF Paging
  <2>3. QED
    BY <2>2 DEF ShownOf
<1>2. E \subseteq DOMAIN s /\ E \cap DOMAIN x.known = {}
  BY <1>1 DEF EpicsOf, Paging, ServerOK
<1> n \in Nat
  BY DEF Paging
<1>3. /\ c \in Nat
      /\ Numbered(E, n) \in [E -> n..(n + c - 1)]
      /\ \A j, k \in E : Numbered(E, n)[j] = Numbered(E, n)[k] => j = k
  <2>1. E \in SUBSET Key /\ E \in SUBSET Nat
    BY <1>1, <1>2, NamesApart
  <2>2. IsFiniteSet(E)
    BY <2>1, KeysFinite
  <2>3. QED
    BY <2>1, <2>2, NumberedIs
<1>4. /\ DOMAIN f = E \cup DOMAIN x.known
      /\ \A k \in E : f[k] = Numbered(E, n)[k]
      /\ \A k \in DOMAIN x.known : f[k] = x.known[k]
  <2>1. f = Over(Numbered(E, n), x.known)
    BY DEF KnownOf
  <2>2. DOMAIN Numbered(E, n) = E
    BY <1>3
  <2> HIDE DEF f, E
  <2>3. /\ DOMAIN Over(Numbered(E, n), x.known) = DOMAIN Numbered(E, n) \cup DOMAIN x.known
        /\ \A k \in DOMAIN Numbered(E, n) :
             Over(Numbered(E, n), x.known)[k] = Numbered(E, n)[k]
        /\ \A k \in DOMAIN x.known :
             k \notin DOMAIN Numbered(E, n) => Over(Numbered(E, n), x.known)[k] = x.known[k]
    BY OverIs
  <2>4. QED
    BY <1>2, <2>1, <2>2, <2>3
<1>5. g = Numbered(A \ DOMAIN f, n + c)
  BY DEF FreshOf
<1>6. A \ DOMAIN f \in SUBSET Key /\ A \ DOMAIN f \in SUBSET Nat
  BY <1>1, NamesApart
<1>7. IsFiniteSet(A \ DOMAIN f)
  BY <1>6, KeysFinite
<1> HIDE DEF A, E, f, g, h, c, d
<1>8. DOMAIN g = A \ DOMAIN f
  BY <1>5 DEF Numbered
<1>9. /\ d \in Nat
      /\ \A k \in A \ DOMAIN f : g[k] \in (n + c)..(n + c + d - 1)
      /\ \A j, k \in A \ DOMAIN f : g[j] = g[k] => j = k
  <2>1. n + c \in Nat
    BY <1>3
  <2> DEFINE G == A \ DOMAIN f
  <2>2. G \in SUBSET Nat /\ IsFiniteSet(G)
    BY <1>6, <1>7
  <2>3. g = Numbered(G, n + c) /\ d = Cardinality(G)
    BY <1>5, <1>8 DEF d
  <2> HIDE DEF G
  <2>4. /\ Cardinality(G) \in Nat
        /\ Numbered(G, n + c) \in [G -> (n + c)..(n + c + Cardinality(G) - 1)]
        /\ \A j, k \in G : Numbered(G, n + c)[j] = Numbered(G, n + c)[k] => j = k
    BY <2>1, <2>2, NumberedIs
  <2>5. /\ d \in Nat
        /\ \A k \in G : g[k] \in (n + c)..(n + c + d - 1)
        /\ \A j, k \in G : g[j] = g[k] => j = k
    BY <2>3, <2>4
  <2>6. QED
    BY <2>5 DEF G
<1>10. /\ DOMAIN h = A \cup DOMAIN f
       /\ \A k \in DOMAIN f : h[k] = f[k]
       /\ \A k \in A \ DOMAIN f : h[k] = g[k]
  <2>1. h = Over(g, f)
    BY DEF h, g, f, RowsAt
  <2>2. /\ DOMAIN Over(g, f) = DOMAIN g \cup DOMAIN f
        /\ \A k \in DOMAIN g : Over(g, f)[k] = g[k]
        /\ \A k \in DOMAIN f : k \notin DOMAIN g => Over(g, f)[k] = f[k]
    BY OverIs
  <2>3. QED
    BY <1>8, <2>1, <2>2
<1>11. /\ \A k \in E : f[k] \in n..(n + c - 1)
       /\ \A k \in A \ DOMAIN f : h[k] \in (n + c)..(n + c + d - 1)
  BY <1>3, <1>4, <1>9, <1>10
<1>12. /\ \A k \in DOMAIN x.known : x.known[k] \in 1..(n - 1)
       /\ \A j, k \in DOMAIN x.known : x.known[j] = x.known[k] => j = k
  BY KnownRows
<1>13. ASSUME NEW j \in DOMAIN f, NEW k \in DOMAIN f, f[j] = f[k]
       PROVE  j = k
  <2>1. CASE j \in E /\ k \in E
    BY <1>3, <1>4, <1>13, <2>1
  <2>2. CASE j \in DOMAIN x.known /\ k \in DOMAIN x.known
    BY <1>4, <1>12, <1>13, <2>2
  <2>3. CASE j \in E /\ k \in DOMAIN x.known
    BY <1>3, <1>4, <1>11, <1>12, <1>13, <2>3
  <2>4. CASE k \in E /\ j \in DOMAIN x.known
    BY <1>3, <1>4, <1>11, <1>12, <1>13, <2>4
  <2>5. QED
    BY <1>4, <2>1, <2>2, <2>3, <2>4
<1>14. \A k \in DOMAIN f : f[k] \in 1..(n + c - 1)
  <2> SUFFICES ASSUME NEW k \in DOMAIN f PROVE f[k] \in 1..(n + c - 1)
    OBVIOUS
  <2>0. 1 <= n
    BY DEF Paging
  <2>1. CASE k \in E
    BY <1>3, <1>11, <2>0, <2>1
  <2>2. CASE k \in DOMAIN x.known
    BY <1>3, <1>4, <1>12, <2>0, <2>2
  <2>3. QED
    BY <1>4, <2>1, <2>2
<1>15. ASSUME NEW j \in DOMAIN h, NEW k \in DOMAIN h, h[j] = h[k]
       PROVE  j = k
  <2>1. CASE j \in DOMAIN f /\ k \in DOMAIN f
    BY <1>10, <1>13, <1>15, <2>1
  <2>2. CASE j \notin DOMAIN f /\ k \notin DOMAIN f
    BY <1>9, <1>10, <1>15, <2>2
  <2>3. CASE j \in DOMAIN f /\ k \notin DOMAIN f
    BY <1>3, <1>10, <1>11, <1>14, <1>15, <2>3
  <2>4. CASE j \notin DOMAIN f /\ k \in DOMAIN f
    BY <1>3, <1>10, <1>11, <1>14, <1>15, <2>4
  <2>5. QED
    BY <2>1, <2>2, <2>3, <2>4
<1>16. QED
  BY <1>1, <1>2, <1>3, <1>4, <1>8, <1>9, <1>10, <1>11, <1>15 DEF A, E, f, g, h, c, d, KeysFit

(* The rows of a page: m is the next row after it.                         *)
Paged(x, i, s, n, m) ==
  /\ Paging(x, i, s, n) /\ m \in Nat /\ m <= MaxRows + 1
  /\ m = n + Cardinality(EpicsOf(x, s)) + Cardinality(DOMAIN FreshOf(x, s, n))

AskedFor(x, s) == ShownOf(x, s) \cup EpicsOf(x, s)

(* Row r as it was before the page: that of issue k, in a table D.         *)
RowFor(row, k, r, x, i, s, n, D) ==
  /\ row \in Issue /\ row.key = k /\ RowOK(row, D, s)
  /\ r >= n \/ r \in DOMAIN x.new => row.src = None
  /\ r < n /\ r \notin DOMAIN x.new =>
       /\ r \in DOMAIN i /\ k \in DOMAIN x.known
       /\ row.src = i[r].src /\ i[r].key = k

LEMMA PlacesOf ==
  ASSUME NEW x, NEW i, NEW s, NEW n, NEW m, Paged(x, i, s, n, m)
  PROVE  LET h == RowsAt(x, s, n) IN
         /\ AskedFor(x, s) \subseteq DOMAIN h /\ AskedFor(x, s) \subseteq DOMAIN s
         /\ DOMAIN s \subseteq Key /\ n <= m /\ n \in Nat /\ 1 <= n
         /\ \A k \in AskedFor(x, s) :
              /\ h[k] \in 1..(m - 1) /\ h[k] \in Row
              /\ h[k] < n => k \in DOMAIN x.known /\ h[k] = x.known[k]
              /\ k \in DOMAIN x.known => h[k] < n /\ h[k] = x.known[k]
         /\ \A j, k \in DOMAIN h : h[j] = h[k] => j = k
<1> DEFINE A == ShownOf(x, s)
           E == EpicsOf(x, s)
           f == KnownOf(x, s, n)
           g == FreshOf(x, s, n)
           h == RowsAt(x, s, n)
           c == Cardinality(E)
           d == Cardinality(DOMAIN g)
<1>0. KeysFit(x, s, n)
  BY PageKeys DEF Paged
<1>1. /\ A \subseteq DOMAIN s /\ E \subseteq DOMAIN s /\ DOMAIN s \subseteq Key
      /\ c \in Nat /\ d \in Nat
      /\ DOMAIN f = E \cup DOMAIN x.known /\ E \cap DOMAIN x.known = {}
      /\ \A k \in E : f[k] \in n..(n + c - 1)
      /\ \A k \in DOMAIN x.known : f[k] = x.known[k]
      /\ DOMAIN g = A \ DOMAIN f /\ DOMAIN h = A \cup DOMAIN f
      /\ \A k \in DOMAIN f : h[k] = f[k]
      /\ \A k \in A \ DOMAIN f : h[k] \in (n + c)..(n + c + d - 1)
      /\ \A j, k \in DOMAIN h : h[j] = h[k] => j = k
  BY <1>0 DEF KeysFit
<1>2. \A k \in DOMAIN x.known : x.known[k] \in 1..(n - 1)
  BY KnownRows DEF Paged
<1>3. n \in Nat /\ 1 <= n /\ m = n + c + d /\ m \in Nat /\ m <= MaxRows + 1
  BY DEF Paged, Paging
<1>4. AskedFor(x, s) = A \cup E
  BY DEF AskedFor
<1> HIDE DEF A, E, f, g, h, c, d
<1>5. ASSUME NEW k \in A \cup E
      PROVE  /\ h[k] \in 1..(m - 1)
             /\ h[k] < n => k \in DOMAIN x.known /\ h[k] = x.known[k]
             /\ k \in DOMAIN x.known => h[k] < n /\ h[k] = x.known[k]
  <2>1. CASE k \in E
    BY <1>1, <1>3, <2>1
  <2>2. CASE k \in DOMAIN x.known
    BY <1>1, <1>2, <1>3, <2>2
  <2>3. CASE k \in A \ DOMAIN f
    BY <1>1, <1>3, <2>3
  <2>4. QED
    BY <1>1, <2>1, <2>2, <2>3
<1>6. \A k \in A \cup E : h[k] \in Row
  BY <1>3, <1>5, Bounds DEF Row
<1>7. AskedFor(x, s) \subseteq DOMAIN h /\ n <= m
  BY <1>1, <1>3, <1>4
<1>8. QED
  BY <1>1, <1>3, <1>4, <1>5, <1>6, <1>7 DEF h

LEMMA BeforeRow ==
  ASSUME NEW x, NEW i, NEW s, NEW n, NEW m, Paged(x, i, s, n, m),
         NEW k \in AskedFor(x, s)
  PROVE  LET r == RowsAt(x, s, n)[k] IN
         /\ r \in DOMAIN BeforeOf(x, i, s, n)
         /\ RowFor(BeforeOf(x, i, s, n)[r], k, r, x, i, s, n, RowsOf(x, i))
<1> DEFINE h == RowsAt(x, s, n)
           r == h[k]
           row == BeforeOf(x, i, s, n)[r]
           D == RowsOf(x, i)
<1>1. /\ AskedFor(x, s) \subseteq DOMAIN h /\ AskedFor(x, s) \subseteq DOMAIN s
      /\ DOMAIN s \subseteq Key /\ n \in Nat
      /\ h[k] \in 1..(m - 1)
      /\ h[k] < n => k \in DOMAIN x.known /\ h[k] = x.known[k]
      /\ \A j \in DOMAIN h : h[j] = h[k] => j = k
  <2>1. /\ AskedFor(x, s) \subseteq DOMAIN h /\ AskedFor(x, s) \subseteq DOMAIN s
        /\ DOMAIN s \subseteq Key /\ n \in Nat
        /\ \A j \in AskedFor(x, s) :
             /\ h[j] \in 1..(m - 1)
             /\ h[j] < n => j \in DOMAIN x.known /\ h[j] = x.known[j]
        /\ \A j, l \in DOMAIN h : h[j] = h[l] => j = l
    BY PlacesOf
  <2> HIDE DEF h
  <2>2. QED
    BY <2>1
<1>2. m \in Nat
  BY DEF Paged
<1>3. r \in DOMAIN BeforeOf(x, i, s, n)
      /\ row = IF r < n THEN ViewOf(x, i)[r]
               ELSE [Blank EXCEPT !.key = CHOOSE j \in DOMAIN h : h[j] = r]
  BY DEF BeforeOf, AskedFor
<1> HIDE DEF row
<1>4. CASE r >= n
  <2>1. (CHOOSE j \in DOMAIN h : h[j] = r) = k
    <3> HIDE DEF h
    <3>1. k \in DOMAIN h /\ \A j \in DOMAIN h : h[j] = r <=> j = k
      BY <1>1
    <3> HIDE DEF r
    <3>2. QED
      BY <3>1
  <2>2. ~(r < n)
    BY <1>1, <1>2, <1>4
  <2>3. row = [Blank EXCEPT !.key = k]
    BY <1>3, <2>1, <2>2
  <2>4. k \in Key /\ k \in DOMAIN s
    BY <1>1
  <2>5. /\ row \in Issue /\ row.key = k /\ row.src = None /\ row.epic = 0
        /\ row.last = 0
    BY <2>3, <2>4 DEF Blank, Issue, Assignee
  <2>6. RowOK(row, D, s)
    BY <2>4, <2>5 DEF RowOK
  <2>7. QED
    BY <1>3, <2>2, <2>5, <2>6 DEF RowFor, row
<1>5. CASE r < n
  <2>1. k \in DOMAIN x.known /\ r = x.known[k]
    BY <1>1, <1>5
  <2>2. /\ r \in D
        /\ r \in DOMAIN x.new => x.new[r].key = k
        /\ r \in DOMAIN i => i[r].key = k
    BY <2>1, KnownRows DEF Paged
  <2>3. row = ViewOf(x, i)[r]
    BY <1>3, <1>5
  <2>4. /\ DOMAIN x.new \cap DOMAIN i = {} /\ DOMAIN x.writes \subseteq DOMAIN i
        /\ \A q \in DOMAIN x.new : RowOK(x.new[q], D, s)
        /\ \A q \in DOMAIN x.writes : RowOK(x.writes[q], D, s) /\ x.writes[q].src = i[q].src
        /\ \A q \in DOMAIN i : RowOK(i[q], DOMAIN i, s)
    BY DEF Paged, Paging, TxOK, TableOK
  <2>5. /\ \A q \in DOMAIN x.new : x.new[q] \in Issue /\ x.new[q].src = None
        /\ \A q \in DOMAIN x.writes : x.writes[q] \in Issue /\ x.writes[q].key = i[q].key
        /\ \A q \in DOMAIN i : i[q] \in Issue
    <3>1. x.new \in Partial /\ x.writes \in Partial /\ i \in Partial
      BY ImportIs DEF Paged, Paging
    <3>2. QED
      BY <3>1, PartialIs DEF Paged, Paging, ImportOK
  <2>6. ViewOf(x, i)[r] = IF r \in DOMAIN x.new THEN x.new[r]
                          ELSE IF r \in DOMAIN x.writes THEN x.writes[r] ELSE i[r]
    <3>1. r \in DOMAIN x.new \cup DOMAIN i
      BY <2>2 DEF RowsOf
    <3> HIDE DEF r
    <3>2. QED
      BY <2>4, <3>1 DEF ViewOf, Over
  <2>11. ~(r >= n)
    BY <1>1, <1>2, <1>5
  <2> HIDE DEF r
  <2>7. CASE r \in DOMAIN x.new
    BY <1>3, <1>5, <2>2, <2>3, <2>4, <2>5, <2>6, <2>7 DEF RowFor, row, r
  <2>8. CASE r \notin DOMAIN x.new /\ r \in DOMAIN x.writes
    <3>1. r \in DOMAIN i /\ row = x.writes[r]
      BY <2>3, <2>4, <2>6, <2>8
    <3>2. RowFor(row, k, r, x, i, s, n, D)
      BY <2>1, <2>2, <2>4, <2>5, <2>8, <2>11, <3>1 DEF RowFor
    <3>3. QED
      BY <1>3, <3>2 DEF row, r
  <2>9. CASE r \notin DOMAIN x.new /\ r \notin DOMAIN x.writes
    <3>1. r \in DOMAIN i /\ row = i[r]
      BY <2>2, <2>3, <2>6, <2>9 DEF RowsOf
    <3>2. RowOK(i[r], D, s)
      <4>1. RowOK(i[r], DOMAIN i, s)
        BY <2>4, <3>1
      <4>2. QED
        BY <4>1, RowStays DEF RowsOf
    <3>3. RowFor(row, k, r, x, i, s, n, D)
      BY <2>1, <2>2, <2>5, <2>9, <2>11, <3>1, <3>2 DEF RowFor
    <3>4. QED
      BY <1>3, <3>3 DEF row, r
  <2>10. QED
    BY <2>7, <2>8, <2>9
<1>6. QED
  BY <1>1, <1>2, <1>4, <1>5

(* The rows an import has, with those of the page.                         *)
RowsWith(x, i, s, n) == RowsOf(x, i) \cup DOMAIN AfterOf(x, i, s, n)

LEMMA AfterRow ==
  ASSUME NEW x, NEW i, NEW s, NEW n, NEW m, Paged(x, i, s, n, m),
         NEW k \in AskedFor(x, s)
  PROVE  LET r == RowsAt(x, s, n)[k]
             row == AfterOf(x, i, s, n)[r]
         IN
         /\ r \in DOMAIN AfterOf(x, i, s, n)
         /\ RowFor(row, k, r, x, i, s, n, RowsWith(x, i, s, n))
         /\ k \in ShownOf(x, s) =>
              /\ s[k].assignee \in {"none", row.assignee}
              /\ s[k].sprint \in {0, row.sprint, row.sprintKey}
              /\ s[k].parent # 0 =>
                   /\ s[k].parent \in DOMAIN KnownOf(x, s, n)
                   /\ row.epic = KnownOf(x, s, n)[s[k].parent]
<1> DEFINE h == RowsAt(x, s, n)
           f == KnownOf(x, s, n)
           r == h[k]
           old == BeforeOf(x, i, s, n)[r]
           row == AfterOf(x, i, s, n)[r]
           D == RowsWith(x, i, s, n)
<1>1. r \in DOMAIN BeforeOf(x, i, s, n) /\ RowFor(old, k, r, x, i, s, n, RowsOf(x, i))
  BY BeforeRow
<1>2. DOMAIN AfterOf(x, i, s, n) = DOMAIN BeforeOf(x, i, s, n)
      /\ row = IF old.key \in ShownOf(x, s) THEN Mapped(x, old, s[old.key], f) ELSE old
  BY <1>1 DEF AfterOf
<1>3. old \in Issue /\ old.key = k /\ RowOK(old, RowsOf(x, i), s)
  BY <1>1 DEF RowFor
<1>4. RowOK(old, D, s)
  BY <1>3, RowStays DEF RowsWith
<1> HIDE DEF old, row
<1>5. CASE k \notin ShownOf(x, s)
  <2>1. row = old
    BY <1>2, <1>3, <1>5
  <2>2. RowFor(row, k, r, x, i, s, n, D)
    BY <1>1, <1>4, <2>1 DEF RowFor
  <2>3. QED
    BY <1>1, <1>2, <1>5, <2>2 DEF row
<1>6. CASE k \in ShownOf(x, s)
  <2> DEFINE there == s[k]
  <2>1. k \in DOMAIN s
    BY PlacesOf
  <2>2. there \in ServerIssue
    BY <2>1 DEF Paged, Paging
  <2>3. there.parent # 0 => /\ there.parent \in DOMAIN f /\ f[there.parent] \in Row
                            /\ f[there.parent] \in D
    <3> SUFFICES ASSUME there.parent # 0
                 PROVE  /\ there.parent \in DOMAIN f /\ f[there.parent] \in Row
                        /\ f[there.parent] \in D
      OBVIOUS
    <3> DEFINE p == s[k].parent
    <3>1. p \in EpicsOf(x, s) \/ p \in DOMAIN x.known
      BY <1>6 DEF EpicsOf
    <3>2. /\ DOMAIN f = EpicsOf(x, s) \cup DOMAIN x.known
          /\ \A j \in DOMAIN x.known : f[j] = x.known[j]
          /\ \A j \in DOMAIN f : h[j] = f[j]
      <4>1. KeysFit(x, s, n)
        BY PageKeys DEF Paged
      <4>2. QED
        BY <4>1 DEF KeysFit
    <3>3. CASE p \in EpicsOf(x, s)
      <4>1. p \in AskedFor(x, s)
        BY <3>3 DEF AskedFor
      <4>2. h[p] \in Row
        BY <4>1, PlacesOf
      <4>3. h[p] \in DOMAIN BeforeOf(x, i, s, n)
        BY <4>1, BeforeRow
      <4>4. QED
        BY <1>2, <3>2, <3>3, <4>2, <4>3 DEF RowsWith
    <3>4. CASE p \in DOMAIN x.known
      <4>1. x.known[p] \in RowsOf(x, i)
        BY <3>4, KnownRows DEF Paged
      <4>2. x.known[p] \in Row
        BY <3>4, KnownIs DEF Paged, Paging
      <4>3. QED
        BY <3>2, <3>4, <4>1, <4>2 DEF RowsWith
    <3>5. QED
      BY <3>1, <3>3, <3>4
  <2>4. x \in ImportTx
    BY DEF Paged, Paging
  <2>5. row = Mapped(x, old, there, f)
    BY <1>2, <1>3, <1>6
  <2> HIDE DEF there, f, D
  <2>6. /\ row \in Issue /\ row.key = old.key /\ row.src = old.src
        /\ there.assignee \in {"none", row.assignee}
        /\ row.epic = IF there.parent = 0 THEN old.epic ELSE f[there.parent]
        /\ there.sprint \in {0, row.sprint, row.sprintKey}
        /\ RowOK(row, D, s)
    BY <1>3, <1>4, <2>2, <2>3, <2>4, <2>5, MappedIs
  <2>7. RowFor(row, k, r, x, i, s, n, D)
    BY <1>1, <1>3, <2>6 DEF RowFor
  <2>8. QED
    BY <1>1, <1>2, <2>3, <2>6, <2>7 DEF row, there, f, D
<1>7. QED
  BY <1>5, <1>6

(* What a page leaves of an import.                                        *)
PageLeaves(x, y, i, s, n) ==
  LET a == AfterOf(x, i, s, n)
      O == OursOf(x, i, s, n)
      c == Cardinality(Matches(x, s))
  IN
  /\ y.new = Over([r \in O |-> a[r]], x.new)
  /\ y.writes = Over([r \in DOMAIN a \ O |-> a[r]], x.writes)
  /\ y.met = x.met \cup {RowsAt(x, s, n)[k] : k \in ShownOf(x, s)}
  /\ y.known = KnownOf(x, s, n)
  /\ y.total = IF x.kind # "one" /\ c > x.total THEN c ELSE x.total
  /\ y.start = x.start + PageSize
  /\ y.shifted = (x.shifted \/ Matches(x, s) # Matches(x, x.base))
  /\ y.moved = (x.moved \/ s # x.base)
  /\ y.split = x.split \cup (EpicsOf(x, s) \cap x.listed)
  /\ y.listed = x.listed \cup ShownOf(x, s)
  /\ y.outdated = x.outdated /\ y.raced = x.raced /\ y.posted = x.posted
  /\ y.kind = x.kind /\ y.asc = x.asc /\ y.target = x.target
  /\ y.sprints = x.sprints /\ y.base = x.base /\ y.hidden = x.hidden

LEMMA RowsOfPage ==
  ASSUME NEW x, NEW i, NEW s, NEW n, NEW m, Paged(x, i, s, n, m),
         NEW r \in DOMAIN AfterOf(x, i, s, n)
  PROVE  \E k \in AskedFor(x, s) : r = RowsAt(x, s, n)[k]
BY DEF AfterOf, BeforeOf, AskedFor

LEMMA PageFields ==
  ASSUME NEW x, NEW i, NEW s, NEW n, NEW m, Paged(x, i, s, n, m)
  PROVE  /\ PageOf(x, i, s, n) \in ImportTx
         /\ PageLeaves(x, PageOf(x, i, s, n), i, s, n)
<1> DEFINE a == AfterOf(x, i, s, n)
           O == OursOf(x, i, s, n)
           A == ShownOf(x, s)
           E == EpicsOf(x, s)
           h == RowsAt(x, s, n)
           f == KnownOf(x, s, n)
           c == Cardinality(Matches(x, s))
           new == Over([r \in O |-> a[r]], x.new)
           writes == Over([r \in DOMAIN a \ O |-> a[r]], x.writes)
           met == x.met \cup {h[k] : k \in A}
           total == IF x.kind # "one" /\ c > x.total THEN c ELSE x.total
           start == x.start + PageSize
           shifted == x.shifted \/ Matches(x, s) # Matches(x, x.base)
           moved == x.moved \/ s # x.base
           split == x.split \cup (E \cap x.listed)
           listed == x.listed \cup A
           y == PageOf(x, i, s, n)
<1>1. x \in ImportTx
  BY DEF Paged, Paging
<1>2. y = [x EXCEPT !.new = new, !.writes = writes, !.met = met, !.known = f,
                    !.total = total, !.start = start, !.shifted = shifted,
                    !.moved = moved, !.split = split, !.listed = listed]
  BY DEF PageOf
<1>3. ASSUME NEW r \in DOMAIN a
      PROVE  r \in Row /\ a[r] \in Issue
  <2>1. PICK k \in AskedFor(x, s) : r = h[k]
    BY <1>3, RowsOfPage
  <2>2. h[k] \in Row
    BY PlacesOf
  <2>3. RowFor(a[h[k]], k, h[k], x, i, s, n, RowsWith(x, i, s, n))
    BY AfterRow
  <2>4. QED
    BY <2>1, <2>2, <2>3 DEF RowFor
<1>4. O \subseteq DOMAIN a
  BY DEF OursOf
<1>5. new \in Partial /\ writes \in Partial
  <2>1. x.new \in Partial /\ x.writes \in Partial
    BY <1>1, ImportIs
  <2> HIDE DEF a, O
  <2>2. /\ O \in SUBSET Row /\ DOMAIN a \ O \in SUBSET Row
        /\ \A r \in O : a[r] \in Issue
        /\ \A r \in DOMAIN a \ O : a[r] \in Issue
    BY <1>3, <1>4
  <2>3. [r \in O |-> a[r]] \in [O -> Issue]
        /\ [r \in DOMAIN a \ O |-> a[r]] \in [DOMAIN a \ O -> Issue]
    BY <2>2
  <2>4. [r \in O |-> a[r]] \in Partial /\ [r \in DOMAIN a \ O |-> a[r]] \in Partial
    BY <2>2, <2>3 DEF Partial
  <2>5. QED
    BY <2>1, <2>4, OverPartial
<1>6. /\ AskedFor(x, s) \subseteq Key /\ A \subseteq AskedFor(x, s)
      /\ E \subseteq AskedFor(x, s)
      /\ \A k \in AskedFor(x, s) : h[k] \in Row
  BY PlacesOf DEF AskedFor
<1>7. met \subseteq Row
  BY <1>1, <1>6, ImportIs
<1>8. f \in UNION {[K -> Row] : K \in SUBSET Key}
  <2>1. KeysFit(x, s, n)
    BY PageKeys DEF Paged
  <2>2. /\ DOMAIN f = E \cup DOMAIN x.known
        /\ \A k \in DOMAIN x.known : f[k] = x.known[k]
        /\ \A k \in DOMAIN f : h[k] = f[k]
    BY <2>1 DEF KeysFit
  <2>3. DOMAIN x.known \subseteq Key /\ \A k \in DOMAIN x.known : x.known[k] \in Row
    BY <1>1, KnownIs
  <2>4. f = [k \in DOMAIN f |-> f[k]]
    BY DEF KnownOf, Over
  <2> HIDE DEF f, h, E
  <2>5. DOMAIN f \in SUBSET Key /\ \A k \in DOMAIN f : f[k] \in Row
    BY <1>6, <2>2, <2>3
  <2>6. f \in [DOMAIN f -> Row]
    BY <2>4, <2>5
  <2>7. QED
    BY <2>5, <2>6
<1>9. total \in Nat /\ start \in Nat
  <2>1. x.kind = "one" => x.target \in DOMAIN s
    BY DEF Paged, Paging, ImportOK
  <2>2. c \in Nat
    BY <1>1, <2>1, MatchesAre DEF Paged, Paging
  <2>3. x.total \in Nat /\ x.start \in Nat
    BY <1>1, ImportIs
  <2>4. QED
    BY <2>2, <2>3, Bounds
<1>10. shifted \in BOOLEAN /\ moved \in BOOLEAN
  OBVIOUS
<1>11. split \subseteq Key /\ listed \subseteq Key
  BY <1>1, <1>6, ImportIs
<1> HIDE DEF a, O, A, E, h, f, c, new, writes, met, total, start, shifted, moved,
             split, listed, y
<1>12. y \in ImportTx
  BY <1>1, <1>2, <1>5, <1>7, <1>8, <1>9, <1>10, <1>11 DEF ImportTx
<1>13. /\ y.new = new /\ y.writes = writes /\ y.met = met /\ y.known = f
       /\ y.total = total /\ y.start = start /\ y.shifted = shifted
       /\ y.moved = moved /\ y.split = split /\ y.listed = listed
       /\ y.outdated = x.outdated /\ y.raced = x.raced /\ y.posted = x.posted
       /\ y.kind = x.kind /\ y.asc = x.asc /\ y.target = x.target
       /\ y.sprints = x.sprints /\ y.base = x.base /\ y.hidden = x.hidden
  BY <1>1, <1>2 DEF ImportTx
<1>14. PageLeaves(x, y, i, s, n)
  BY <1>13 DEF PageLeaves, a, O, A, E, h, f, c, new, writes, met, total, start, shifted,
               moved, split, listed
<1>15. QED
  BY <1>12, <1>14 DEF y

(* Where the rows of an import are after a page.                           *)
Placed(x, y, i, s, n) ==
  LET a == AfterOf(x, i, s, n)
      O == OursOf(x, i, s, n)
  IN
  /\ DOMAIN y.new = O \cup DOMAIN x.new
  /\ DOMAIN y.writes = (DOMAIN a \ O) \cup DOMAIN x.writes
  /\ \A r \in O : y.new[r] = a[r]
  /\ \A r \in DOMAIN a \ O : y.writes[r] = a[r]
  /\ \A r \in DOMAIN x.new : r \notin DOMAIN a => y.new[r] = x.new[r]
  /\ \A r \in DOMAIN x.writes : r \notin DOMAIN a => y.writes[r] = x.writes[r]
  /\ \A r \in DOMAIN x.new \cap DOMAIN a : r \in O
  /\ \A r \in O : r >= n \/ r \in DOMAIN x.new
  /\ \A r \in DOMAIN a \ O : r < n /\ r \notin DOMAIN x.new
  /\ O \subseteq DOMAIN a
  /\ DOMAIN x.writes \cap O = {}
  /\ DOMAIN a \ O \subseteq DOMAIN i

LEMMA PagePlaces ==
  ASSUME NEW x, NEW i, NEW s, NEW n, NEW m, Paged(x, i, s, n, m), NEW y,
         PageLeaves(x, y, i, s, n)
  PROVE  Placed(x, y, i, s, n)
<1> DEFINE a == AfterOf(x, i, s, n)
           O == OursOf(x, i, s, n)
           p == [r \in O |-> a[r]]
           q == [r \in DOMAIN a \ O |-> a[r]]
<1>1. y.new = Over(p, x.new) /\ y.writes = Over(q, x.writes)
  BY DEF PageLeaves
<1>2. O = {r \in DOMAIN a : r >= n \/ r \in DOMAIN x.new}
  BY DEF OursOf
<1>3. DOMAIN x.writes \subseteq DOMAIN i /\ DOMAIN i \subseteq 1..(n - 1) /\ n \in Nat
      /\ DOMAIN x.new \cap DOMAIN i = {}
  BY DEF Paged, Paging, TxOK
<1>4. ASSUME NEW r \in DOMAIN a
      PROVE  /\ r \in Row
             /\ r < n /\ r \notin DOMAIN x.new => r \in DOMAIN i
  <2>1. PICK k \in AskedFor(x, s) : r = RowsAt(x, s, n)[k]
    BY RowsOfPage
  <2> DEFINE v == RowsAt(x, s, n)[k]
  <2>2. v \in Row
    BY PlacesOf
  <2>3. RowFor(a[v], k, v, x, i, s, n, RowsWith(x, i, s, n))
    BY AfterRow
  <2>4. QED
    BY <2>1, <2>2, <2>3 DEF RowFor
<1> HIDE DEF a, O
<1>5. DOMAIN p = O /\ DOMAIN q = DOMAIN a \ O /\ (\A r \in O : p[r] = a[r])
      /\ \A r \in DOMAIN a \ O : q[r] = a[r]
  OBVIOUS
<1> HIDE DEF p, q
<1>6. /\ DOMAIN Over(p, x.new) = DOMAIN p \cup DOMAIN x.new
      /\ \A r \in DOMAIN p : Over(p, x.new)[r] = p[r]
      /\ \A r \in DOMAIN x.new : r \notin DOMAIN p => Over(p, x.new)[r] = x.new[r]
  BY OverIs
<1>7. /\ DOMAIN Over(q, x.writes) = DOMAIN q \cup DOMAIN x.writes
      /\ \A r \in DOMAIN q : Over(q, x.writes)[r] = q[r]
      /\ \A r \in DOMAIN x.writes : r \notin DOMAIN q => Over(q, x.writes)[r] = x.writes[r]
  BY OverIs
<1>8. Row \subseteq Nat
  BY NamesApart
<1>9. DOMAIN y.new = O \cup DOMAIN x.new /\ DOMAIN y.writes = (DOMAIN a \ O) \cup DOMAIN x.writes
  BY <1>1, <1>5, <1>6, <1>7
<1>10. /\ \A r \in O : y.new[r] = a[r]
       /\ \A r \in DOMAIN a \ O : y.writes[r] = a[r]
       /\ \A r \in DOMAIN x.new : r \notin DOMAIN a => y.new[r] = x.new[r]
       /\ \A r \in DOMAIN x.writes : r \notin DOMAIN a => y.writes[r] = x.writes[r]
  BY <1>1, <1>2, <1>5, <1>6, <1>7
<1>11. /\ \A r \in DOMAIN x.new \cap DOMAIN a : r \in O
       /\ \A r \in O : r >= n \/ r \in DOMAIN x.new
       /\ O \subseteq DOMAIN a
  BY <1>2
<1>12. ASSUME NEW r \in DOMAIN a \ O
       PROVE  r < n /\ r \notin DOMAIN x.new
  <2>1. ~(r >= n) /\ r \notin DOMAIN x.new
    BY <1>2
  <2>2. r \in Nat /\ n \in Nat
    BY <1>3, <1>4, <1>8
  <2>3. QED
    BY <2>1, <2>2
<1>13. DOMAIN x.writes \cap O = {}
  <2> SUFFICES ASSUME NEW r \in DOMAIN x.writes, r \in O PROVE FALSE
    OBVIOUS
  <2>1. r \in DOMAIN i /\ r \in 1..(n - 1)
    BY <1>3
  <2>2. QED
    BY <1>3, <1>11, <2>1
<1>14. DOMAIN a \ O \subseteq DOMAIN i
  BY <1>4, <1>12, <1>11
<1>15. QED
  BY <1>9, <1>10, <1>11, <1>12, <1>13, <1>14 DEF Placed, a, O

(* A row of a page: of an issue that was known, or a new one.              *)
OfPage(x, i, s, n, m, r, k) ==
  LET row == AfterOf(x, i, s, n)[r] IN
  /\ k \in AskedFor(x, s) /\ r = RowsAt(x, s, n)[k]
  /\ k \in Key /\ k \in DOMAIN s /\ k # 0
  /\ r \in 1..(m - 1)
  /\ row.key = k /\ RowOK(row, RowsWith(x, i, s, n), s)
  /\ r \in OursOf(x, i, s, n) => row.src = None
  /\ r \notin OursOf(x, i, s, n) => row.src = i[r].src /\ i[r].key = k
  /\ r < n => /\ k \in DOMAIN x.known /\ x.known[k] = r /\ k \in ShownOf(x, s)
              /\ r \in DOMAIN x.new => x.new[r].key = k
              /\ r \in DOMAIN i => i[r].key = k
  /\ r >= n => k \notin DOMAIN x.known /\ r \in OursOf(x, i, s, n)

LEMMA RowOfPage ==
  ASSUME NEW x, NEW i, NEW s, NEW n, NEW m, Paged(x, i, s, n, m),
         NEW r \in DOMAIN AfterOf(x, i, s, n)
  PROVE  \E k : OfPage(x, i, s, n, m, r, k)
<1> DEFINE a == AfterOf(x, i, s, n)
           O == OursOf(x, i, s, n)
           h == RowsAt(x, s, n)
<1>1. PICK k \in AskedFor(x, s) : r = h[k]
  BY RowsOfPage
<1>2. /\ AskedFor(x, s) \subseteq DOMAIN s /\ DOMAIN s \subseteq Key /\ n \in Nat
      /\ \A j \in AskedFor(x, s) :
           /\ h[j] \in 1..(m - 1)
           /\ h[j] < n => j \in DOMAIN x.known /\ h[j] = x.known[j]
           /\ j \in DOMAIN x.known => h[j] < n /\ h[j] = x.known[j]
  BY PlacesOf
<1>3. RowFor(a[h[k]], k, h[k], x, i, s, n, RowsWith(x, i, s, n))
  BY AfterRow
<1>4. O = {q \in DOMAIN a : q >= n \/ q \in DOMAIN x.new}
  BY DEF OursOf
<1>5. KeysFit(x, s, n)
  BY PageKeys DEF Paged
<1>6. EpicsOf(x, s) \cap DOMAIN x.known = {}
  BY <1>5 DEF KeysFit
<1>7. \A j \in DOMAIN x.known :
        /\ x.known[j] \in DOMAIN x.new => x.new[x.known[j]].key = j
        /\ x.known[j] \in DOMAIN i => i[x.known[j]].key = j
  BY KnownRows DEF Paged
<1>8. m \in Nat
  BY DEF Paged
<1> HIDE DEF a, O, h
<1>9. r \in 1..(m - 1) /\ r \in Nat /\ k \in Key /\ k \in DOMAIN s /\ k # 0
  BY <1>1, <1>2, <1>8, NamesApart
<1>10. r < n => /\ k \in DOMAIN x.known /\ x.known[k] = r /\ k \in ShownOf(x, s)
                /\ r \in DOMAIN x.new => x.new[r].key = k
                /\ r \in DOMAIN i => i[r].key = k
  <2> SUFFICES ASSUME r < n
               PROVE  /\ k \in DOMAIN x.known /\ x.known[k] = r /\ k \in ShownOf(x, s)
                      /\ r \in DOMAIN x.new => x.new[r].key = k
                      /\ r \in DOMAIN i => i[r].key = k
    OBVIOUS
  <2>1. k \in DOMAIN x.known /\ x.known[k] = r
    BY <1>1, <1>2
  <2>2. k \in ShownOf(x, s)
    BY <1>6, <2>1 DEF AskedFor
  <2>3. QED
    BY <1>7, <2>1, <2>2
<1>11. r >= n => k \notin DOMAIN x.known /\ r \in O
  <2> SUFFICES ASSUME r >= n PROVE k \notin DOMAIN x.known /\ r \in O
    OBVIOUS
  <2>1. ~(r < n)
    BY <1>2, <1>9
  <2>2. QED
    BY <1>1, <1>2, <1>4, <2>1 DEF a
<1>12. /\ a[r].key = k /\ RowOK(a[r], RowsWith(x, i, s, n), s)
       /\ r \in O => a[r].src = None
  BY <1>1, <1>3, <1>4 DEF RowFor
<1>13. r \notin O => a[r].src = i[r].src /\ i[r].key = k
  <2> SUFFICES ASSUME r \notin O PROVE a[r].src = i[r].src /\ i[r].key = k
    OBVIOUS
  <2>1. ~(r >= n) /\ r \notin DOMAIN x.new
    BY <1>4 DEF a
  <2>2. r < n
    BY <1>2, <1>9, <2>1
  <2>3. QED
    BY <1>1, <1>3, <2>1, <2>2 DEF RowFor
<1>14. OfPage(x, i, s, n, m, r, k)
  <2> DEFINE row == AfterOf(x, i, s, n)[r]
  <2>1. r = RowsAt(x, s, n)[k]
    BY <1>1 DEF h
  <2>2. row.key = k /\ RowOK(row, RowsWith(x, i, s, n), s)
        /\ (r \in OursOf(x, i, s, n) => row.src = None)
    BY <1>12 DEF a, O
  <2>3. r \notin OursOf(x, i, s, n) => row.src = i[r].src /\ i[r].key = k
    BY <1>13 DEF a, O
  <2>4. r >= n => k \notin DOMAIN x.known /\ r \in OursOf(x, i, s, n)
    BY <1>11 DEF O
  <2> HIDE DEF row
  <2>5. QED
    BY <1>9, <1>10, <2>1, <2>2, <2>3, <2>4 DEF OfPage, row
<1>15. QED
  BY <1>14

(* The step of a page, apart from the record it leaves.                    *)
Turned(x, y, i, s, n, m) ==
  /\ Paged(x, i, s, n, m) /\ PageLeaves(x, y, i, s, n) /\ Placed(x, y, i, s, n)

LEMMA NewKeysStay ==
  ASSUME NEW x, NEW y, NEW i, NEW s, NEW n, NEW m, Turned(x, y, i, s, n, m),
         NEW r \in DOMAIN x.new
  PROVE  r \in DOMAIN y.new /\ y.new[r].key = x.new[r].key
<1> DEFINE a == AfterOf(x, i, s, n)
<1>1. r \in DOMAIN y.new
  BY DEF Turned, Placed
<1>2. CASE r \in DOMAIN a
  <2>1. PICK k : OfPage(x, i, s, n, m, r, k)
    BY <1>2, RowOfPage DEF Turned
  <2>2. r < n
    BY DEF Turned, Paged, Paging, TxOK
  <2>3. a[r].key = k /\ x.new[r].key = k
    BY <2>1, <2>2 DEF OfPage
  <2>4. y.new[r] = a[r]
    BY <1>2 DEF Turned, Placed
  <2>5. QED
    BY <1>1, <2>3, <2>4
<1>3. CASE r \notin DOMAIN a
  BY <1>1, <1>3 DEF Turned, Placed
<1>4. QED
  BY <1>2, <1>3

LEMMA PageTx ==
  ASSUME NEW x, NEW y, NEW i, NEW s, NEW n, NEW m, Turned(x, y, i, s, n, m)
  PROVE  TxOK(y, i, s, m)
<1> DEFINE a == AfterOf(x, i, s, n)
           O == OursOf(x, i, s, n)
           D == RowsWith(x, i, s, n)
<1>1. /\ DOMAIN y.new = O \cup DOMAIN x.new
      /\ DOMAIN y.writes = (DOMAIN a \ O) \cup DOMAIN x.writes
      /\ \A r \in O : y.new[r] = a[r]
      /\ \A r \in DOMAIN a \ O : y.writes[r] = a[r]
      /\ \A r \in DOMAIN x.new : r \notin DOMAIN a => y.new[r] = x.new[r]
      /\ \A r \in DOMAIN x.writes : r \notin DOMAIN a => y.writes[r] = x.writes[r]
      /\ \A r \in DOMAIN x.new \cap DOMAIN a : r \in O
      /\ \A r \in O : r >= n \/ r \in DOMAIN x.new
      /\ O \subseteq DOMAIN a /\ DOMAIN x.writes \cap O = {}
      /\ DOMAIN a \ O \subseteq DOMAIN i
      /\ y.posted = x.posted
  BY DEF Turned, Placed, PageLeaves
<1>2. \A r \in DOMAIN a :
        /\ r \in 1..(m - 1) /\ RowOK(a[r], D, s)
        /\ r \notin O => a[r].src = i[r].src
  BY RowOfPage DEF Turned, OfPage
<1>3. n <= m /\ n \in Nat /\ m \in Nat
  BY PlacesOf DEF Turned, Paged
<1>4. /\ DOMAIN x.new \subseteq 1..(n - 1) /\ DOMAIN i \subseteq 1..(n - 1)
      /\ DOMAIN x.new \cap DOMAIN i = {} /\ DOMAIN x.writes \subseteq DOMAIN i
      /\ \A r \in DOMAIN x.new : RowOK(x.new[r], RowsOf(x, i), s)
      /\ \A r \in DOMAIN x.writes :
           RowOK(x.writes[r], RowsOf(x, i), s) /\ x.writes[r].src = i[r].src
      /\ \A k \in DOMAIN s : s[k].origin \in DOMAIN x.new => k \in x.posted
  BY DEF Turned, Paged, Paging, TxOK
<1>5. D = DOMAIN i \cup DOMAIN x.new \cup DOMAIN a
  BY DEF RowsWith, RowsOf
<1>6. \A k \in DOMAIN s : s[k].origin # 0 => s[k].origin < n
  BY DEF Turned, Paged, Paging, ServerOK
<1> HIDE DEF a, O, D
<1>7. D \subseteq RowsOf(y, i)
  BY <1>1, <1>5 DEF RowsOf
<1>8. DOMAIN y.new \subseteq 1..(m - 1)
  BY <1>1, <1>2, <1>3, <1>4
<1>9. DOMAIN y.new \cap DOMAIN i = {}
  <2> SUFFICES ASSUME NEW r \in O, r \in DOMAIN i PROVE FALSE
    BY <1>1, <1>4
  <2>1. r \in 1..(n - 1)
    BY <1>4
  <2>2. QED
    BY <1>1, <1>3, <1>4, <2>1
<1>10. DOMAIN y.writes \subseteq DOMAIN i
  BY <1>1, <1>4
<1>11. ASSUME NEW r \in DOMAIN y.new
       PROVE  RowOK(y.new[r], RowsOf(y, i), s)
  <2>1. CASE r \in O
    <3>1. RowOK(a[r], D, s)
      BY <1>1, <1>2, <2>1
    <3>2. RowOK(a[r], RowsOf(y, i), s)
      BY <1>7, <3>1, RowStays
    <3>3. QED
      BY <1>1, <2>1, <3>2
  <2>2. CASE r \notin O
    <3>1. y.new[r] = x.new[r] /\ RowOK(x.new[r], RowsOf(x, i), s)
      BY <1>1, <1>4, <2>2
    <3>2. RowsOf(x, i) \subseteq RowsOf(y, i)
      BY <1>1 DEF RowsOf
    <3>3. QED
      BY <3>1, <3>2, RowStays
  <2>3. QED
    BY <2>1, <2>2
<1>12. ASSUME NEW r \in DOMAIN y.writes
       PROVE  RowOK(y.writes[r], RowsOf(y, i), s) /\ y.writes[r].src = i[r].src
  <2>1. CASE r \in DOMAIN a \ O
    <3>1. RowOK(a[r], D, s) /\ a[r].src = i[r].src
      BY <1>2, <2>1
    <3>2. RowOK(a[r], RowsOf(y, i), s)
      BY <1>7, <3>1, RowStays
    <3>3. QED
      BY <1>1, <2>1, <3>1, <3>2
  <2>2. CASE r \notin DOMAIN a \ O
    <3>1. y.writes[r] = x.writes[r] /\ RowOK(x.writes[r], RowsOf(x, i), s)
          /\ x.writes[r].src = i[r].src
      BY <1>1, <1>4, <2>2
    <3>2. RowsOf(x, i) \subseteq RowsOf(y, i)
      BY <1>1 DEF RowsOf
    <3>3. RowOK(x.writes[r], RowsOf(y, i), s)
      BY <3>1, <3>2, RowStays
    <3>4. QED
      BY <3>1, <3>3
  <2>3. QED
    BY <2>1, <2>2
<1>13. ASSUME NEW k \in DOMAIN s, s[k].origin \in DOMAIN y.new
       PROVE  k \in y.posted
  <2> DEFINE o == s[k].origin
  <2>1. o \in 1..(m - 1)
    BY <1>8, <1>13
  <2>2. o < n
    BY <1>6, <2>1
  <2>3. o \in DOMAIN x.new
    BY <1>1, <1>3, <1>13, <2>1, <2>2
  <2>4. QED
    BY <1>1, <1>4, <2>3
<1>14. QED
  BY <1>8, <1>9, <1>10, <1>11, <1>12, <1>13 DEF TxOK

(* The size of a listing, which the total of an import catches up with.    *)
LEMMA PageTotal ==
  ASSUME NEW x, NEW y, NEW i, NEW s, NEW n, NEW m, Turned(x, y, i, s, n, m)
  PROVE  /\ Cardinality(Matches(x, s)) \in Nat /\ x.total \in Nat /\ y.total \in Nat
         /\ PageSize <= y.total /\ x.total <= y.total
         /\ Cardinality(Matches(x, s)) <= y.total
         /\ \A k \in Matches(x, s) :
              PlaceIn(x, s, k) \in Nat /\ PlaceIn(x, s, k) < Cardinality(Matches(x, s))
<1> DEFINE c == Cardinality(Matches(x, s))
<1>1. x \in ImportTx /\ s \in Seq(ServerIssue) /\ Len(s) <= MaxKeys
      /\ (x.kind = "one" => x.target \in DOMAIN s) /\ PageSize <= x.total
  BY DEF Turned, Paged, Paging, ImportOK
<1>2. /\ c \in Nat
      /\ \A k \in Matches(x, s) : PlaceIn(x, s, k) \in Nat /\ PlaceIn(x, s, k) < c
  BY <1>1, MatchesAre
<1>3. x.total \in Nat
  BY <1>1, ImportIs
<1>4. y.total = IF x.kind # "one" /\ c > x.total THEN c ELSE x.total
  BY DEF Turned, PageLeaves
<1>5. x.kind = "one" => c = 1
  <2> SUFFICES ASSUME x.kind = "one" PROVE c = 1
    OBVIOUS
  <2>1. Matches(x, s) = {x.target}
    BY DEF Matches
  <2>2. QED
    BY <2>1, FS_Singleton
<1> HIDE DEF c
<1>6. y.total \in Nat /\ PageSize <= y.total /\ x.total <= y.total /\ c <= y.total
  BY <1>1, <1>2, <1>3, <1>4, <1>5, Bounds
<1>7. QED
  BY <1>2, <1>3, <1>6 DEF c

LEMMA PageImport ==
  ASSUME NEW x, NEW y, NEW i, NEW s, NEW n, NEW m, Turned(x, y, i, s, n, m)
  PROVE  ImportOK(y, i, s)
<1> DEFINE a == AfterOf(x, i, s, n)
           O == OursOf(x, i, s, n)
           A == ShownOf(x, s)
           E == EpicsOf(x, s)
           f == KnownOf(x, s, n)
           h == RowsAt(x, s, n)
<1>1. /\ DOMAIN y.new = O \cup DOMAIN x.new
      /\ DOMAIN y.writes = (DOMAIN a \ O) \cup DOMAIN x.writes
      /\ \A r \in O : y.new[r] = a[r]
      /\ \A r \in DOMAIN a \ O : y.writes[r] = a[r]
      /\ \A r \in DOMAIN x.new : r \notin DOMAIN a => y.new[r] = x.new[r]
      /\ \A r \in DOMAIN x.writes : r \notin DOMAIN a => y.writes[r] = x.writes[r]
      /\ \A r \in DOMAIN x.new \cap DOMAIN a : r \in O
      /\ \A r \in O : r >= n \/ r \in DOMAIN x.new
      /\ O \subseteq DOMAIN a /\ DOMAIN x.writes \cap O = {}
      /\ DOMAIN a \ O \subseteq DOMAIN i
  BY DEF Turned, Placed
<1>2. /\ y.met = x.met \cup {h[k] : k \in A} /\ y.known = f
      /\ y.start = x.start + PageSize
      /\ y.shifted = (x.shifted \/ Matches(x, s) # Matches(x, x.base))
      /\ y.split = x.split \cup (E \cap x.listed)
      /\ y.listed = x.listed \cup A
      /\ y.raced = x.raced /\ y.hidden = x.hidden
      /\ y.kind = x.kind /\ y.asc = x.asc /\ y.target = x.target /\ y.base = x.base
  BY DEF Turned, PageLeaves
<1>3. /\ A \subseteq DOMAIN s /\ DOMAIN s \subseteq Key
      /\ DOMAIN f = E \cup DOMAIN x.known /\ E \cap DOMAIN x.known = {}
      /\ \A k \in DOMAIN x.known : f[k] = x.known[k]
      /\ DOMAIN h = A \cup DOMAIN f
      /\ \A k \in DOMAIN f : h[k] = f[k]
      /\ \A j, k \in DOMAIN h : h[j] = h[k] => j = k
  <2>1. KeysFit(x, s, n)
    BY PageKeys DEF Turned, Paged
  <2>2. QED
    BY <2>1 DEF KeysFit
<1>4. \A k \in A \cup E : h[k] \in DOMAIN a /\ a[h[k]].key = k
  <2> SUFFICES ASSUME NEW k \in A \cup E PROVE h[k] \in DOMAIN a /\ a[h[k]].key = k
    OBVIOUS
  <2>1. k \in AskedFor(x, s)
    BY DEF AskedFor
  <2>2. RowFor(a[h[k]], k, h[k], x, i, s, n, RowsWith(x, i, s, n)) /\ h[k] \in DOMAIN a
    BY <2>1, AfterRow DEF Turned
  <2>3. QED
    BY <2>2 DEF RowFor
<1>5. ImportOK(x, i, s) /\ x \in ImportTx
  BY DEF Turned, Paged, Paging
<1>6. /\ n \in Nat /\ m \in Nat /\ n <= m
      /\ DOMAIN x.new \subseteq 1..(n - 1) /\ DOMAIN i \subseteq 1..(n - 1)
      /\ \A k \in A \cup E : k \in DOMAIN x.known => h[k] < n
      /\ \A k \in A \cup E : h[k] < n => k \in DOMAIN x.known
  <2>1. AskedFor(x, s) = A \cup E
    BY DEF AskedFor
  <2>2. PICK d : d = AskedFor(x, s)
    OBVIOUS
  <2>3. /\ n <= m
        /\ \A k \in AskedFor(x, s) :
             /\ h[k] < n => k \in DOMAIN x.known
             /\ k \in DOMAIN x.known => h[k] < n
    BY PlacesOf DEF Turned
  <2>4. QED
    BY <2>1, <2>3 DEF Turned, Paged, Paging, TxOK
<1>7. \A r \in DOMAIN a : \E k : OfPage(x, i, s, n, m, r, k)
  BY RowOfPage DEF Turned
<1>8. \A r \in DOMAIN x.new : r \in DOMAIN y.new /\ y.new[r].key = x.new[r].key
  BY NewKeysStay
<1>9. DOMAIN y.base \subseteq DOMAIN s /\ (y.kind = "one" => y.target \in DOMAIN y.base)
      /\ PageSize <= y.total
  BY <1>2, <1>5, PageTotal DEF ImportOK
<1> DEFINE W == A \cup E
<1>10. ASSUME NEW r \in O
       PROVE  \E k \in W : /\ a[r].key = k /\ a[r].src = None /\ k # 0 /\ k \in Key
                           /\ r = h[k]
                           /\ r < n => k \in DOMAIN x.known
                           /\ r >= n => k \notin DOMAIN x.known
  <2>1. PICK k : OfPage(x, i, s, n, m, r, k)
    BY <1>1, <1>7
  <2>2. /\ k \in W /\ a[r].key = k /\ a[r].src = None /\ k # 0 /\ k \in Key
        /\ r = h[k]
        /\ r < n => k \in DOMAIN x.known
        /\ r >= n => k \notin DOMAIN x.known
    BY <2>1 DEF OfPage, AskedFor
  <2> HIDE DEF W, a, h
  <2>3. QED
    BY <2>2
<1>11. ASSUME NEW r \in DOMAIN a, r \notin O
       PROVE  a[r].key = i[r].key /\ i[r].key # 0
  <2>1. PICK k : OfPage(x, i, s, n, m, r, k)
    BY <1>11, <1>7
  <2>2. QED
    BY <1>11, <2>1 DEF OfPage
<1> HIDE DEF a, O, A, E, f, h
<1>12. ASSUME NEW r \in DOMAIN y.new
       PROVE  /\ y.new[r].src = None /\ y.new[r].key # 0
              /\ y.new[r].key \in y.listed \cup DOMAIN y.known
  <2>1. CASE r \in O
    BY <1>1, <1>2, <1>3, <1>10, <2>1
  <2>2. CASE r \notin O
    <3>1. r \in DOMAIN x.new /\ y.new[r] = x.new[r]
      BY <1>1, <2>2
    <3>2. /\ x.new[r].src = None /\ x.new[r].key # 0
          /\ x.new[r].key \in x.listed \cup DOMAIN x.known
      BY <1>5, <3>1 DEF ImportOK
    <3>3. QED
      BY <1>2, <1>3, <3>1, <3>2
  <2>3. QED
    BY <2>1, <2>2
<1>13. ASSUME NEW r \in DOMAIN y.writes
       PROVE  y.writes[r].key = i[r].key /\ i[r].key # 0
  <2>1. CASE r \in DOMAIN a \ O
    BY <1>1, <1>11, <2>1
  <2>2. CASE r \notin DOMAIN a \ O
    <3>1. r \in DOMAIN x.writes /\ y.writes[r] = x.writes[r]
      BY <1>1, <2>2
    <3>2. QED
      BY <1>5, <3>1 DEF ImportOK
  <2>3. QED
    BY <2>1, <2>2
<1>14. ASSUME NEW k \in DOMAIN y.known
       PROVE  KeyOf(y.new, y.known[k], k) \/ KeyOf(i, y.known[k], k)
  <2>1. CASE k \in DOMAIN x.known
    <3>1. KeyOf(x.new, x.known[k], k) \/ KeyOf(i, x.known[k], k)
      BY <1>5, <2>1 DEF ImportOK
    <3>2. y.known[k] = x.known[k]
      BY <1>2, <1>3, <2>1
    <3>3. QED
      BY <1>8, <3>1, <3>2 DEF KeyOf
  <2>2. CASE k \notin DOMAIN x.known
    <3>1. k \in E /\ y.known[k] = h[k]
      BY <1>2, <1>3, <2>2
    <3>2. h[k] \in DOMAIN a /\ a[h[k]].key = k
      BY <1>4, <3>1
    <3>3. h[k] \in O
      <4>1. CASE h[k] \in O
        BY <4>1
      <4>2. CASE h[k] \notin O
        <5>1. h[k] \in DOMAIN i
          BY <1>1, <3>2, <4>2
        <5>2. h[k] < n
          BY <1>6, <5>1
        <5>3. QED
          BY <1>6, <2>2, <3>1, <5>2
      <4>3. QED
        BY <4>1, <4>2
    <3>4. QED
      BY <1>1, <3>1, <3>2, <3>3 DEF KeyOf
  <2>3. QED
    BY <2>1, <2>2
<1>15. y.met \subseteq DOMAIN y.new \cup DOMAIN y.writes
  <2>1. x.met \subseteq DOMAIN x.new \cup DOMAIN x.writes
    BY <1>5 DEF ImportOK
  <2>2. \A k \in A : h[k] \in DOMAIN a
    BY <1>4
  <2>3. QED
    BY <1>1, <1>2, <2>1, <2>2
<1>16. \A k \in Key \ (y.raced \cup y.hidden) :
         \A r \in DOMAIN i : i[r].key = k => k \in DOMAIN y.known
  <2>1. \A k \in Key \ (x.raced \cup x.hidden) :
          \A r \in DOMAIN i : i[r].key = k => k \in DOMAIN x.known
    BY <1>5 DEF ImportOK
  <2>2. QED
    BY <1>2, <1>3, <2>1
<1>17. ASSUME NEW r \in DOMAIN y.new, NEW q \in DOMAIN i, y.new[r].key = i[q].key
       PROVE  y.new[r].key \in y.raced \cup y.hidden
  <2>1. CASE r \in DOMAIN x.new
    <3>1. x.new[r].key = i[q].key
      BY <1>8, <1>17, <2>1
    <3>2. x.new[r].key \in x.raced \cup x.hidden
      BY <1>5, <2>1, <3>1 DEF ImportOK
    <3>3. QED
      BY <1>2, <1>8, <2>1, <3>2
  <2>2. CASE r \notin DOMAIN x.new
    <3>1. r \in O /\ r >= n
      BY <1>1, <2>2
    <3>2. y.new[r].key \in Key /\ y.new[r].key \notin DOMAIN x.known
      BY <1>1, <1>10, <3>1
    <3>3. CASE y.new[r].key \notin x.raced \cup x.hidden
      BY <1>5, <1>17, <3>2, <3>3 DEF ImportOK
    <3>4. QED
      BY <1>2, <3>3
  <2>3. QED
    BY <2>1, <2>2
(* Without a shift, what the page shows was not listed before.             *)
<1>18. ASSUME ~y.shifted, NEW k \in A
       PROVE  /\ k \in Matches(x, x.base) /\ k \notin x.listed
              /\ PlaceIn(x, x.base, k) < x.start + PageSize
  <2>1. ~x.shifted /\ Matches(x, s) = Matches(x, x.base)
    BY <1>2, <1>18
  <2>2. k \in Matches(x, s) /\ PlaceIn(x, s, k) \in x.start..(x.start + SizeOf(x) - 1)
    BY DEF A, ShownOf
  <2>3. PlaceIn(x, s, k) = PlaceIn(x, x.base, k)
    BY <2>1 DEF PlaceIn
  <2>4. SizeOf(x) \in Int /\ SizeOf(x) <= PageSize /\ x.start \in Nat
    BY <1>5, ImportIs, Bounds DEF SizeOf
  <2>5. PlaceIn(x, x.base, k) >= x.start /\ PlaceIn(x, x.base, k) < x.start + PageSize
        /\ PlaceIn(x, x.base, k) \in Int
    BY <2>2, <2>3, <2>4, Bounds
  <2>6. k \notin x.listed
    <3> SUFFICES ASSUME k \in x.listed PROVE FALSE
      OBVIOUS
    <3>1. PlaceIn(x, x.base, k) < x.start
      BY <1>5, <2>1 DEF ImportOK
    <3>2. QED
      BY <2>4, <2>5, <3>1
  <2>7. QED
    BY <2>1, <2>2, <2>5, <2>6
<1>19. ASSUME ~y.shifted, NEW q \in DOMAIN y.new, NEW r \in DOMAIN x.new,
              q \notin DOMAIN x.new, y.new[q].key = y.new[r].key
       PROVE  y.new[q].key \in y.split
  <2>1. q \in O /\ q >= n
    BY <1>1, <1>19
  <2>2. PICK k \in W : a[q].key = k /\ k \notin DOMAIN x.known
    BY <1>10, <2>1
  <2>3. x.new[r].key = k
    BY <1>1, <1>8, <1>19, <2>1, <2>2
  <2>4. k \in x.listed
    BY <1>5, <2>2, <2>3 DEF ImportOK
  <2>5. k \notin A
    BY <1>18, <1>19, <2>4
  <2>6. k \in E
    BY <2>2, <2>5
  <2>7. QED
    BY <1>1, <1>2, <2>1, <2>2, <2>4, <2>6
<1>20. ASSUME ~y.shifted, NEW q \in DOMAIN y.new, NEW r \in DOMAIN y.new,
              y.new[q].key = y.new[r].key
       PROVE  q = r \/ y.new[q].key \in y.split
  <2>1. CASE q \in DOMAIN x.new /\ r \in DOMAIN x.new
    <3>1. ~x.shifted /\ x.split \subseteq y.split
      BY <1>2, <1>20
    <3>2. x.new[q].key = x.new[r].key
      BY <1>8, <1>20, <2>1
    <3>3. q = r \/ x.new[q].key \in x.split
      BY <1>5, <2>1, <3>1, <3>2 DEF ImportOK
    <3>4. QED
      BY <1>8, <2>1, <3>1, <3>3
  <2>2. CASE q \notin DOMAIN x.new /\ r \in DOMAIN x.new
    BY <1>19, <1>20, <2>2
  <2>3. CASE q \in DOMAIN x.new /\ r \notin DOMAIN x.new
    <3>1. y.new[r].key \in y.split
      BY <1>19, <1>20, <2>3
    <3>2. QED
      BY <1>20, <3>1
  <2>4. CASE q \notin DOMAIN x.new /\ r \notin DOMAIN x.new
    <3>1. q \in O /\ r \in O
      BY <1>1, <2>4
    <3>2. q = h[a[q].key] /\ r = h[a[r].key]
      BY <1>10, <3>1
    <3>3. QED
      BY <1>1, <1>20, <3>1, <3>2
  <2>5. QED
    BY <2>1, <2>2, <2>3, <2>4
<1>21. ASSUME ~y.shifted, NEW k \in y.listed
       PROVE  k \in Matches(y, y.base) /\ PlaceIn(y, y.base, k) < y.start
  <2>1. Matches(y, y.base) = Matches(x, x.base)
    BY <1>2 DEF Matches
  <2>2. PlaceIn(y, y.base, k) = PlaceIn(x, x.base, k)
    BY <1>2, <2>1 DEF PlaceIn
  <2>3. k \in Matches(x, x.base) /\ PlaceIn(x, x.base, k) < x.start + PageSize
    <3>1. CASE k \in A
      BY <1>18, <1>21, <3>1
    <3>2. CASE k \in x.listed
      <4>1. ~x.shifted
        BY <1>2, <1>21
      <4>2. k \in Matches(x, x.base) /\ PlaceIn(x, x.base, k) < x.start
        BY <1>5, <3>2, <4>1 DEF ImportOK
      <4>3. /\ x.base \in Seq(ServerIssue) /\ Len(x.base) <= MaxKeys
            /\ x.kind = "one" => x.target \in DOMAIN x.base
        <5>1. x.base \in Seq(ServerIssue) /\ s \in Seq(ServerIssue) /\ Len(s) <= MaxKeys
              /\ DOMAIN x.base \subseteq DOMAIN s
          BY <1>5, ImportIs DEF Turned, Paged, Paging, ImportOK
        <5>2. Len(x.base) <= MaxKeys
          <6>1. Len(x.base) \in Nat /\ DOMAIN x.base = 1..Len(x.base)
                /\ Len(s) \in Nat /\ DOMAIN s = 1..Len(s)
            BY <5>1
          <6>2. CASE Len(x.base) = 0
            BY <6>2, Bounds
          <6>3. CASE Len(x.base) # 0
            <7>1. Len(x.base) \in DOMAIN s
              BY <5>1, <6>1, <6>3
            <7>2. QED
              BY <5>1, <6>1, <7>1, Bounds
          <6>4. QED
            BY <6>2, <6>3
        <5>3. QED
          BY <1>5, <5>1, <5>2 DEF ImportOK
      <4>4. PlaceIn(x, x.base, k) \in Nat
        BY <1>5, <4>2, <4>3, MatchesAre
      <4>5. x.start \in Nat
        BY <1>5, ImportIs
      <4>6. QED
        BY <4>2, <4>4, <4>5, Bounds
    <3>3. QED
      BY <1>2, <3>1, <3>2
  <2>4. QED
    BY <1>2, <2>1, <2>2, <2>3
<1>22. QED
  BY <1>9, <1>12, <1>13, <1>14, <1>15, <1>16, <1>17, <1>20, <1>21 DEF ImportOK

LEMMA PageQuiet ==
  ASSUME NEW x, NEW y, NEW i, NEW s, NEW n, NEW m, Turned(x, y, i, s, n, m),
         ~y.moved, ~x.moved => QuietOK(x, i)
  PROVE  QuietOK(y, i)
<1> DEFINE a == AfterOf(x, i, s, n)
           A == ShownOf(x, s)
           f == KnownOf(x, s, n)
           M == Matches(x, s)
<1>1. /\ y.known = f /\ y.start = x.start + PageSize
      /\ y.shifted = (x.shifted \/ Matches(x, s) # Matches(x, x.base))
      /\ y.moved = (x.moved \/ s # x.base)
      /\ y.listed = x.listed \cup A
      /\ y.kind = x.kind /\ y.asc = x.asc /\ y.target = x.target /\ y.base = x.base
  BY DEF Turned, PageLeaves
<1>2. x.base = s /\ QuietOK(x, i)
  BY <1>1
<1>3. ~y.shifted
  BY <1>1, <1>2 DEF QuietOK
<1>4. Matches(y, y.base) = M
  BY <1>1, <1>2 DEF Matches
<1>5. \A k : PlaceIn(y, y.base, k) = PlaceIn(x, s, k)
  BY <1>1, <1>2, <1>4 DEF PlaceIn
<1>6. x \in ImportTx /\ x.start \in Nat /\ PageSize <= x.total
  BY ImportIs DEF Turned, Paged, Paging, ImportOK
<1>7. /\ Cardinality(M) \in Nat /\ x.total \in Nat /\ Cardinality(M) <= y.total
      /\ \A k \in M : PlaceIn(x, s, k) \in Nat /\ PlaceIn(x, s, k) < Cardinality(M)
  BY PageTotal
<1>8. ASSUME NEW k \in M, PlaceIn(x, s, k) < x.start + PageSize
      PROVE  k \in y.listed
  <2>1. CASE PlaceIn(x, s, k) < x.start
    BY <1>1, <1>2, <2>1 DEF QuietOK
  <2>2. CASE ~(PlaceIn(x, s, k) < x.start)
    <3> DEFINE p == PlaceIn(x, s, k)
               c == Cardinality(M)
    <3>1. p \in Nat /\ p < c /\ c \in Nat
      BY <1>7
    <3>2. x.start = 0 \/ c <= x.total
      BY <1>2 DEF QuietOK
    <3> HIDE DEF p, c
    <3>3. p < x.start + SizeOf(x)
      BY <1>6, <1>7, <1>8, <2>2, <3>1, <3>2, Bounds DEF SizeOf, p
    <3>4. SizeOf(x) \in Int
      BY <1>6, <1>7, Bounds DEF SizeOf
    <3>5. p \in x.start..(x.start + SizeOf(x) - 1)
      BY <1>6, <2>2, <3>1, <3>3, <3>4 DEF p
    <3>6. QED
      BY <1>1, <3>5 DEF ShownOf, p
  <2>3. QED
    BY <2>1, <2>2
<1>9. ASSUME NEW r, NEW k, KeyOf(x.new, r, k) \/ KeyOf(i, r, k)
      PROVE  KeyOf(y.new, r, k) \/ KeyOf(i, r, k)
  BY <1>9, NewKeysStay DEF KeyOf
<1>10. /\ DOMAIN y.new = OursOf(x, i, s, n) \cup DOMAIN x.new
       /\ DOMAIN y.writes = (DOMAIN a \ OursOf(x, i, s, n)) \cup DOMAIN x.writes
       /\ \A r \in OursOf(x, i, s, n) : y.new[r] = a[r]
       /\ \A r \in DOMAIN a \ OursOf(x, i, s, n) : y.writes[r] = a[r]
       /\ \A r \in DOMAIN x.new : r \notin DOMAIN a => y.new[r] = x.new[r]
       /\ \A r \in DOMAIN x.writes : r \notin DOMAIN a => y.writes[r] = x.writes[r]
       /\ \A r \in DOMAIN a \ OursOf(x, i, s, n) : r \notin DOMAIN x.new
       /\ OursOf(x, i, s, n) \subseteq DOMAIN a
  BY DEF Turned, Placed
<1>11. ASSUME NEW k \in A
       PROVE  \E r \in DOMAIN y.new \cup DOMAIN y.writes :
                Held(y, r).key = k /\ Mirrors(y, i, Held(y, r), s[k])
  <2> DEFINE r == RowsAt(x, s, n)[k]
             row == a[r]
             O == OursOf(x, i, s, n)
             p == s[k].parent
  <2>1. k \in AskedFor(x, s)
    BY DEF AskedFor
  <2>2. /\ r \in DOMAIN a
        /\ RowFor(row, k, r, x, i, s, n, RowsWith(x, i, s, n))
        /\ s[k].assignee \in {"none", row.assignee}
        /\ s[k].sprint \in {0, row.sprint, row.sprintKey}
        /\ p # 0 => p \in DOMAIN f /\ row.epic = f[p]
    BY <2>1, AfterRow DEF Turned
  <2>3. row.key = k
    BY <2>2 DEF RowFor
  <2>4. ImportOK(y, i, s)
    BY PageImport
  <2>5. p # 0 => KeyOf(y.new, row.epic, p) \/ KeyOf(i, row.epic, p)
    BY <1>1, <2>2, <2>4 DEF ImportOK
  <2>6. Mirrors(y, i, row, s[k])
    BY <2>2, <2>5 DEF Mirrors
  <2> HIDE DEF r, a, O
  <2>7. r \in DOMAIN y.new \cup DOMAIN y.writes
    BY <1>10, <2>2
  <2>8. Held(y, r) = row
    <3>1. CASE r \in O
      <4>1. r \in DOMAIN y.new /\ y.new[r] = row
        BY <1>10, <3>1 DEF O
      <4>2. QED
        BY <4>1 DEF Held
    <3>2. CASE r \notin O
      <4>1. r \notin DOMAIN y.new /\ y.writes[r] = row
        BY <1>10, <2>2, <3>2 DEF O
      <4>2. QED
        BY <4>1 DEF Held
    <3>3. QED
      BY <3>1, <3>2
  <2>9. QED
    BY <2>3, <2>6, <2>7, <2>8
<1>12. ASSUME NEW k \in x.listed, k \notin A
       PROVE  \E r \in DOMAIN y.new \cup DOMAIN y.writes :
                Held(y, r).key = k /\ Mirrors(y, i, Held(y, r), s[k])
  <2>1. PICK r \in DOMAIN x.new \cup DOMAIN x.writes :
          Held(x, r).key = k /\ Mirrors(x, i, Held(x, r), x.base[k])
    BY <1>2 DEF QuietOK
  <2>2. /\ r < n
        /\ r \in DOMAIN x.writes => r \in DOMAIN i /\ x.writes[r].key = i[r].key
        /\ r \in DOMAIN x.new => r \notin DOMAIN i
    BY <2>1 DEF Turned, Paged, Paging, TxOK, ImportOK
  <2>3. r \notin DOMAIN a
    <3> SUFFICES ASSUME r \in DOMAIN a PROVE FALSE
      OBVIOUS
    <3>1. PICK j : OfPage(x, i, s, n, m, r, j)
      BY RowOfPage DEF Turned
    <3>2. /\ j \in A
          /\ r \in DOMAIN x.new => x.new[r].key = j
          /\ r \in DOMAIN i => i[r].key = j
      BY <2>2, <3>1 DEF OfPage
    <3>3. Held(x, r).key = j
      BY <2>1, <2>2, <3>2 DEF Held
    <3>4. QED
      BY <1>12, <2>1, <3>2, <3>3
  <2> HIDE DEF a
  <2>4. r \in DOMAIN y.new <=> r \in DOMAIN x.new
    BY <1>10, <2>3
  <2>5. r \in DOMAIN y.new \cup DOMAIN y.writes /\ Held(y, r) = Held(x, r)
    BY <1>10, <2>1, <2>3, <2>4 DEF Held
  <2>6. Mirrors(y, i, Held(x, r), s[k])
    BY <1>2, <1>9, <2>1 DEF Mirrors
  <2>7. QED
    BY <2>1, <2>5, <2>6
<1> HIDE DEF A, M
<1>13. ASSUME NEW k \in y.listed
       PROVE  \E r \in DOMAIN y.new \cup DOMAIN y.writes :
                Held(y, r).key = k /\ Mirrors(y, i, Held(y, r), y.base[k])
  <2>1. y.base[k] = s[k]
    BY <1>1, <1>2
  <2>2. CASE k \in A
    BY <1>11, <2>1, <2>2
  <2>3. CASE k \notin A
    BY <1>1, <1>12, <2>1, <2>3
  <2>4. QED
    BY <2>2, <2>3
<1>14. \A k \in Matches(y, y.base) : PlaceIn(y, y.base, k) < y.start => k \in y.listed
  BY <1>1, <1>4, <1>5, <1>8
<1>15. Cardinality(Matches(y, y.base)) <= y.total
  BY <1>4, <1>7
<1>16. QED
  BY <1>3, <1>13, <1>14, <1>15 DEF QuietOK

-----------------------------------------------------------------------------
(* The steps: what they leave of the transactions beside their own.        *)
AnyTx == ImportTx \cup ExportTx

LEMMA AnyTxIs ==
  ASSUME NEW x \in AnyTx
  PROVE  /\ x # Idle /\ x.new \in Partial /\ x.writes \in Partial
         /\ x.posted \subseteq Key /\ x.raced \subseteq Name /\ x.outdated \subseteq Row
         /\ Importing(x) <=> x \in ImportTx
         /\ ~Importing(x) <=> x \in ExportTx
BY ImportIs, ExportIs DEF AnyTx

StillSound(x, y, j, z, m) ==
  y \in AnyTx /\ Sound(y, j, z, m) /\ y.new = x.new /\ y.posted = x.posted

LEMMA SoundHeard ==
  ASSUME NEW x \in AnyTx, NEW W \in SUBSET Row, NEW N \in SUBSET Name,
         NEW i \in Partial, NEW j \in Partial, NEW s, NEW z,
         NEW n \in Nat, NEW m \in Nat, Sound(x, i, s, n),
         Extends(i, j, W, N), Continues(s, z), n <= m,
         DOMAIN x.new \cap DOMAIN j = {},
         \A k \in DOMAIN z : z[k].origin \in DOMAIN x.new => k \in x.posted,
         \A k \in x.posted : ~KeyOf(j, s[k].origin, k)
  PROVE  StillSound(x, Heard(x, W, N), j, z, m)
<1> DEFINE y == Heard(x, W, N)
<1>1. CASE x \in ImportTx
  <2>1. y \in ImportTx /\ SameImport(x, y, W, N)
    BY <1>1, HeardImport
  <2>2. Importing(x) /\ Importing(y)
    BY <1>1, <2>1, ImportIs
  <2>3. /\ y.new = x.new /\ y.writes = x.writes /\ y.posted = x.posted
        /\ y.moved = x.moved
    BY <2>1 DEF SameImport
  <2>4. TxOK(x, i, s, n) /\ ImportOK(x, i, s) /\ (~x.moved => QuietOK(x, i))
    BY <2>2 DEF Sound
  <2> HIDE DEF y
  <2>5. TxOK(y, j, z, m)
    BY <2>3, <2>4, OthersTx
  <2> USE DEF y
  <2>6. ImportOK(y, j, z)
    BY <1>1, <2>4, OthersImport
  <2>7. ~x.moved => QuietOK(y, j)
    BY <1>1, <2>4, OthersQuiet
  <2> HIDE DEF y
  <2>8. Sound(y, j, z, m)
    BY <2>2, <2>3, <2>5, <2>6, <2>7 DEF Sound
  <2>9. QED
    BY <2>1, <2>3, <2>8 DEF AnyTx, StillSound, y
<1>2. CASE x \in ExportTx
  <2>0. y \in ExportTx /\ SameExport(x, y, W, N)
    BY <1>2, HeardExport
  <2>1. y \in ExportTx /\ y.new = x.new /\ y.writes = x.writes /\ y.posted = x.posted
    BY <2>0 DEF SameExport
  <2>2. ~Importing(x) /\ ~Importing(y)
    BY <1>2, <2>1, ExportIs
  <2>3. TxOK(x, i, s, n) /\ ExportOK(x, i, s)
    BY <2>2 DEF Sound
  <2> HIDE DEF y
  <2>4. TxOK(y, j, z, m)
    BY <2>1, <2>3, OthersTx
  <2> USE DEF y
  <2>5. ExportOK(y, j, z)
    BY <1>2, <2>3, OthersExport
  <2> HIDE DEF y
  <2>6. Sound(y, j, z, m)
    BY <2>2, <2>4, <2>5 DEF Sound
  <2>7. QED
    BY <2>1, <2>6 DEF AnyTx, StillSound, y
<1>3. QED
  BY <1>1, <1>2 DEF AnyTx

LEMMA TheTx ==
  ASSUME SyncInv, NEW t \in Transactions, tx[t] # Idle
  PROVE  /\ tx[t] \in AnyTx /\ Sound(tx[t], issues, server, nextRow)
         /\ TxOK(tx[t], issues, server, nextRow)
         /\ ~Importing(tx[t]) => tx[t] \in ExportTx /\ ExportOK(tx[t], issues, server)
         /\ Importing(tx[t]) => tx[t] \in ImportTx /\ ImportOK(tx[t], issues, server)
                                /\ tx[t].posted = {}
<1>1. tx[t] \in AnyTx
  BY DEF SyncInv, StateType, AnyTx
<1>2. Sound(tx[t], issues, server, nextRow)
  BY DEF SyncInv, SyncTx
<1>3. QED
  BY <1>1, <1>2, AnyTxIs, ImportIs DEF Sound

(* Whatever transactions hold: their rows and what they posted.            *)
Flight(f) == UNION {IF f[t] = Idle THEN {} ELSE f[t].posted : t \in Transactions}

LEMMA FlightIs ==
  ASSUME NEW f
  PROVE  \A k : k \in Flight(f) <=> \E t \in Transactions : f[t] # Idle /\ k \in f[t].posted
BY DEF Flight

LEMMA FlightsAre == InFlight = Flight(tx) /\ InFlight' = Flight(tx')
BY DEF InFlight, Flight

(* The transactions T go on while others write W and use the names N.      *)
Untouched(T, W, N) ==
  /\ \A u \in T :
       tx'[u] = IF tx[u] = Idle THEN Idle ELSE Heard(tx[u], W, N)
  /\ issues' \in Partial /\ nextRow' \in Nat /\ nextRow <= nextRow'
  /\ Extends(issues, issues', W, N) /\ Continues(server, server')
  /\ \A u \in T : tx[u] # Idle =>
       /\ DOMAIN tx[u].new \cap DOMAIN issues' = {}
       /\ \A k \in DOMAIN server' :
            server'[k].origin \in DOMAIN tx[u].new => k \in tx[u].posted
       /\ \A k \in tx[u].posted : ~KeyOf(issues', server[k].origin, k)

GoesOn(u) ==
  /\ tx'[u] = Idle <=> tx[u] = Idle
  /\ tx[u] # Idle => /\ tx'[u] \in AnyTx
                     /\ Sound(tx'[u], issues', server', nextRow')
                     /\ tx'[u].new = tx[u].new /\ tx'[u].posted = tx[u].posted

LEMMA OthersGoOn ==
  ASSUME SyncInv, NEW T \in SUBSET Transactions, NEW W \in SUBSET Row,
         NEW N \in SUBSET Name, Untouched(T, W, N)
  PROVE  \A u \in T : GoesOn(u)
<1> SUFFICES ASSUME NEW u \in T PROVE GoesOn(u)
  OBVIOUS
<1>1. CASE tx[u] = Idle
  BY <1>1 DEF Untouched, GoesOn
<1>2. CASE tx[u] # Idle
  <2>1. tx[u] \in AnyTx /\ Sound(tx[u], issues, server, nextRow)
    BY <1>2, TheTx
  <2>2. nextRow \in Nat /\ issues \in Partial
    BY DEF SyncInv, StateType
  <2>3. tx'[u] = Heard(tx[u], W, N)
    BY <1>2 DEF Untouched
  <2>4. /\ issues' \in Partial /\ nextRow' \in Nat /\ nextRow <= nextRow'
        /\ Extends(issues, issues', W, N) /\ Continues(server, server')
        /\ DOMAIN tx[u].new \cap DOMAIN issues' = {}
        /\ \A k \in DOMAIN server' :
             server'[k].origin \in DOMAIN tx[u].new => k \in tx[u].posted
        /\ \A k \in tx[u].posted : ~KeyOf(issues', server[k].origin, k)
    BY <1>2 DEF Untouched
  <2>a. StillSound(tx[u], Heard(tx[u], W, N), issues', server', nextRow')
    BY <2>1, <2>2, <2>4, SoundHeard
  <2>5. /\ tx'[u] \in AnyTx /\ Sound(tx'[u], issues', server', nextRow')
        /\ tx'[u].new = tx[u].new /\ tx'[u].posted = tx[u].posted
    BY <2>3, <2>a DEF StillSound
  <2>6. tx'[u] # Idle
    BY <2>5, AnyTxIs
  <2>7. QED
    BY <1>2, <2>5, <2>6 DEF GoesOn
<1>3. QED
  BY <1>1, <1>2

(* A step that leaves the table: the others hear nothing.                  *)
LEMMA OthersUnheard ==
  ASSUME SyncInv, NEW T \in SUBSET Transactions,
         \A u \in T : tx'[u] = tx[u],
         issues' = issues, nextRow' \in Nat, nextRow <= nextRow',
         Continues(server, server'),
         \A u \in T : tx[u] # Idle =>
           \A k \in DOMAIN server' :
             server'[k].origin \in DOMAIN tx[u].new => k \in tx[u].posted
  PROVE  \A u \in T : GoesOn(u)
<1>1. Untouched(T, {}, {})
  <2>1. Extends(issues, issues', {}, {})
    BY DEF Extends
  <2>2. ASSUME NEW u \in T
        PROVE  tx'[u] = IF tx[u] = Idle THEN Idle ELSE Heard(tx[u], {}, {})
    <3>1. CASE tx[u] = Idle
      BY <3>1
    <3>2. CASE tx[u] # Idle
      <4>1. tx[u] \in ImportTx \/ tx[u] \in ExportTx
        BY <3>2, TheTx DEF AnyTx
      <4>2. QED
        BY <3>2, <4>1, HeardNothing
    <3>3. QED
      BY <3>1, <3>2
  <2>3. ASSUME NEW u \in T, tx[u] # Idle
        PROVE  /\ DOMAIN tx[u].new \cap DOMAIN issues' = {}
               /\ \A k \in tx[u].posted : ~KeyOf(issues', server[k].origin, k)
    <3>1. DOMAIN tx[u].new \cap DOMAIN issues = {}
      BY <2>3, TheTx DEF TxOK
    <3>2. \A k \in tx[u].posted : ~KeyOf(issues, server[k].origin, k)
      BY <2>3, TheTx DEF ExportOK
    <3>3. QED
      BY <3>1, <3>2
  <2>4. issues' \in Partial
    BY DEF SyncInv, StateType
  <2>5. QED
    BY <2>1, <2>2, <2>3, <2>4 DEF Untouched
<1>2. QED
  BY <1>1, OthersGoOn

(* All transactions, when those beside t go on and that of t is y.         *)
LEMMA TxAfter ==
  ASSUME SyncInv, NEW t \in Transactions,
         \A u \in Transactions \ {t} : GoesOn(u),
         tx' = [u \in Transactions |-> tx'[u]],
         tx'[t] # Idle =>
           /\ tx'[t] \in AnyTx /\ Sound(tx'[t], issues', server', nextRow')
           /\ \A u \in Transactions \ {t} : tx[u] # Idle =>
                /\ DOMAIN tx'[t].new \cap DOMAIN tx[u].new = {}
                /\ tx'[t].posted \cap tx[u].posted = {}
  PROVE  /\ tx' \in [Transactions -> {Idle} \cup ImportTx \cup ExportTx]
         /\ SyncTx' /\ Apart'
<1>1. \A u \in Transactions : tx'[u] # Idle =>
        tx'[u] \in AnyTx /\ Sound(tx'[u], issues', server', nextRow')
  BY DEF GoesOn
<1>2. tx' \in [Transactions -> {Idle} \cup ImportTx \cup ExportTx]
  BY <1>1 DEF AnyTx
<1>3. SyncTx'
  BY <1>1 DEF SyncTx
<1>4. Apart'
  <2> SUFFICES ASSUME NEW u \in Transactions, NEW v \in Transactions, u # v,
                      tx'[u] # Idle, tx'[v] # Idle
               PROVE  /\ DOMAIN tx'[u].new \cap DOMAIN tx'[v].new = {}
                      /\ tx'[u].posted \cap tx'[v].posted = {}
    BY DEF Apart
  <2>1. CASE u # t /\ v # t
    <3>1. /\ tx[u] # Idle /\ tx[v] # Idle
          /\ tx'[u].new = tx[u].new /\ tx'[u].posted = tx[u].posted
          /\ tx'[v].new = tx[v].new /\ tx'[v].posted = tx[v].posted
      BY <2>1 DEF GoesOn
    <3>2. /\ DOMAIN tx[u].new \cap DOMAIN tx[v].new = {}
          /\ tx[u].posted \cap tx[v].posted = {}
      BY <3>1 DEF SyncInv, Apart
    <3>3. QED
      BY <3>1, <3>2
  <2>2. CASE u = t
    <3>1. tx[v] # Idle /\ tx'[v].new = tx[v].new /\ tx'[v].posted = tx[v].posted
      BY <2>2 DEF GoesOn
    <3>2. QED
      BY <2>2, <3>1
  <2>3. CASE v = t
    <3>1. tx[u] # Idle /\ tx'[u].new = tx[u].new /\ tx'[u].posted = tx[u].posted
      BY <2>3 DEF GoesOn
    <3>2. QED
      BY <2>3, <3>1
  <2>4. QED
    BY <2>1, <2>2, <2>3
<1>5. QED
  BY <1>2, <1>3, <1>4

(* What was posted is in the same hands, but for t.                        *)
LEMMA FlightAfter ==
  ASSUME NEW t \in Transactions, \A u \in Transactions \ {t} : GoesOn(u)
  PROVE  \A k : k \in InFlight' <=>
           \/ tx'[t] # Idle /\ k \in tx'[t].posted
           \/ \E u \in Transactions \ {t} : tx[u] # Idle /\ k \in tx[u].posted
<1> SUFFICES ASSUME NEW k
             PROVE  k \in InFlight' <=>
                      \/ tx'[t] # Idle /\ k \in tx'[t].posted
                      \/ \E u \in Transactions \ {t} : tx[u] # Idle /\ k \in tx[u].posted
  OBVIOUS
<1>1. k \in InFlight' <=> \E u \in Transactions : tx'[u] # Idle /\ k \in tx'[u].posted
  BY FlightIs, FlightsAre
<1>2. \A u \in Transactions \ {t} :
        (tx'[u] # Idle /\ k \in tx'[u].posted) <=> (tx[u] # Idle /\ k \in tx[u].posted)
  BY DEF GoesOn
<1>3. QED
  BY <1>1, <1>2

LEMMA FlightBefore ==
  ASSUME NEW t \in Transactions
  PROVE  \A k : k \in InFlight <=>
           \/ tx[t] # Idle /\ k \in tx[t].posted
           \/ \E u \in Transactions \ {t} : tx[u] # Idle /\ k \in tx[u].posted
<1>1. \A k : k \in InFlight <=> \E u \in Transactions : tx[u] # Idle /\ k \in tx[u].posted
  BY FlightIs, FlightsAre
<1>2. QED
  BY <1>1

LEMMA LostStays ==
  ASSUME SyncInv, lost' = lost,
         \A r \in Row : Astray(r, issues', server', InFlight') = Astray(r, issues, server, InFlight)
  PROVE  LostCounted'
<1>1. \A r \in Row : lost'[r] = Cardinality(Astray(r, issues', server', InFlight'))
  BY DEF SyncInv, LostCounted
<1>2. QED
  BY <1>1 DEF LostCounted

LEMMA CopiesStay ==
  ASSUME SyncInv, UNCHANGED <<issues, excused>>
  PROVE  CopiesCounted'
BY DEF SyncInv, CopiesCounted, Copies

-----------------------------------------------------------------------------
(* Steps of one transaction that neither reach the table nor the server:   *)
(* it begins, or imports a page.                                           *)
LEMMA OwnStep ==
  ASSUME SyncInv, NEW t \in Transactions, NEW y \in AnyTx,
         tx' = [tx EXCEPT ![t] = y],
         UNCHANGED <<server, issues, sprints, jobs, changes, excused, lost>>,
         opened' \in 0..MaxOpened,
         nextRow' \in Nat, nextRow <= nextRow', nextRow' <= MaxRows + 1,
         Sound(y, issues, server, nextRow'),
         \A r \in DOMAIN y.new :
           r >= nextRow \/ (tx[t] # Idle /\ r \in DOMAIN tx[t].new),
         \A k : k \in y.posted <=> (tx[t] # Idle /\ k \in tx[t].posted)
  PROVE  SyncInv'
<1> DEFINE T == Transactions \ {t}
<1>1. StateType
  BY DEF SyncInv
<1>2. tx'[t] = y /\ (\A u \in T : tx'[u] = tx[u]) /\ tx' = [u \in Transactions |-> tx'[u]]
  BY <1>1 DEF StateType
<1>3. \A u \in T : GoesOn(u)
  <2>1. Continues(server, server')
    BY DEF Continues
  <2>2. ASSUME NEW u \in T, tx[u] # Idle, NEW k \in DOMAIN server',
               server'[k].origin \in DOMAIN tx[u].new
        PROVE  k \in tx[u].posted
    BY <2>2, TheTx DEF TxOK
  <2> HIDE DEF T
  <2>3. T \in SUBSET Transactions
    BY DEF T
  <2>4. QED
    BY <1>2, <2>1, <2>2, <2>3, OthersUnheard
<1>4. ASSUME NEW u \in T, tx[u] # Idle
      PROVE  /\ DOMAIN y.new \cap DOMAIN tx[u].new = {}
             /\ y.posted \cap tx[u].posted = {}
  <2>1. DOMAIN tx[u].new \subseteq 1..(nextRow - 1) /\ nextRow \in Nat
    BY <1>1, <1>4, TheTx DEF TxOK, StateType
  <2>2. tx[t] # Idle => /\ DOMAIN tx[t].new \cap DOMAIN tx[u].new = {}
                        /\ tx[t].posted \cap tx[u].posted = {}
    BY <1>4 DEF SyncInv, Apart
  <2>3. \A r \in DOMAIN tx[u].new : ~(r >= nextRow)
    BY <2>1
  <2>4. QED
    BY <2>2, <2>3
<1>5. tx' \in [Transactions -> {Idle} \cup ImportTx \cup ExportTx] /\ SyncTx' /\ Apart'
  <2>1. y # Idle
    BY AnyTxIs
  <2>2. /\ tx'[t] \in AnyTx /\ Sound(tx'[t], issues', server', nextRow')
        /\ \A u \in T : tx[u] # Idle =>
             /\ DOMAIN tx'[t].new \cap DOMAIN tx[u].new = {}
             /\ tx'[t].posted \cap tx[u].posted = {}
    BY <1>2, <1>4
  <2>3. QED
    BY <1>2, <1>3, <2>2, TxAfter
<1>6. StateType'
  <2>1. DOMAIN issues \subseteq 1..(nextRow' - 1)
    BY <1>1 DEF StateType
  <2>2. 1 <= nextRow'
    BY <1>1 DEF StateType
  <2>3. QED
    BY <1>1, <1>5, <2>1, <2>2 DEF StateType
<1>7. TableOK(issues, server)' /\ ServerOK(server, nextRow)'
  <2>1. ASSUME NEW k \in DOMAIN server, server[k].origin # 0
        PROVE  server[k].origin < nextRow'
    <3>1. server[k] \in ServerIssue
      BY <1>1 DEF StateType
    <3>2. server[k].origin \in Nat
      BY <3>1, <2>1, NamesApart DEF ServerIssue
    <3>3. server[k].origin < nextRow /\ nextRow \in Nat
      BY <1>1, <2>1 DEF SyncInv, ServerOK, StateType
    <3>4. QED
      BY <3>2, <3>3
  <2>2. QED
    BY <2>1 DEF SyncInv, TableOK, ServerOK
<1>8. CopiesCounted'
  BY CopiesStay
<1>9. LostCounted'
  <2>1. y # Idle
    BY AnyTxIs
  <2>2. \A k : k \in InFlight' <=> k \in InFlight
    BY <1>2, <1>3, <2>1, FlightAfter, FlightBefore
  <2>3. \A r \in Row : Astray(r, issues', server', InFlight') = Astray(r, issues, server, InFlight)
    BY <2>2 DEF Astray
  <2>4. QED
    BY <2>3, LostStays
<1>10. QED
  BY <1>5, <1>6, <1>7, <1>8, <1>9 DEF SyncInv

LEMMA PageKeeps ==
  ASSUME SyncInv, NEW t \in Transactions, Page(t)
  PROVE  SyncInv'
<1> DEFINE x == tx[t]
           y == PageOf(x, issues, server, nextRow)
<1>1. /\ x.at = "paging" /\ x.start < x.total
      /\ nextRow' = nextRow + Cardinality(EpicsOf(x, server))
                    + Cardinality(DOMAIN FreshOf(x, server, nextRow))
      /\ nextRow' <= MaxRows + 1
      /\ tx' = [tx EXCEPT ![t] = y]
      /\ UNCHANGED <<server, issues, sprints, jobs, opened, changes, excused, lost>>
  BY PageIs
<1>2. x # Idle
  BY <1>1 DEF Idle
<1>3. x \in ImportTx /\ Importing(x) /\ ImportOK(x, issues, server)
      /\ TxOK(x, issues, server, nextRow) /\ x.posted = {}
      /\ (~x.moved => QuietOK(x, issues))
  <2>1. x \in AnyTx
    BY <1>2, TheTx
  <2>2. x \notin ExportTx
    BY <1>1, ExportIs
  <2>3. QED
    BY <1>2, <2>1, <2>2, TheTx, AnyTxIs DEF Sound
<1>4. StateType /\ TableOK(issues, server) /\ ServerOK(server, nextRow)
  BY DEF SyncInv
<1> HIDE DEF x
<1>5. Paging(x, issues, server, nextRow)
  BY <1>3, <1>4 DEF Paging, StateType
<1>6. nextRow' \in Nat /\ nextRow <= nextRow'
  <2>1. KeysFit(x, server, nextRow)
    BY <1>5, PageKeys
  <2>2. Cardinality(EpicsOf(x, server)) \in Nat
        /\ Cardinality(DOMAIN FreshOf(x, server, nextRow)) \in Nat
    BY <2>1 DEF KeysFit
  <2>3. QED
    BY <1>1, <1>4, <2>2 DEF StateType
<1>7. Paged(x, issues, server, nextRow, nextRow')
  BY <1>1, <1>5, <1>6 DEF Paged
<1>8. y \in ImportTx /\ PageLeaves(x, y, issues, server, nextRow)
  BY <1>7, PageFields
<1> HIDE DEF y
<1>9. Turned(x, y, issues, server, nextRow, nextRow')
  BY <1>7, <1>8, PagePlaces DEF Turned
<1>10. Sound(y, issues, server, nextRow')
  <2>1. TxOK(y, issues, server, nextRow')
    BY <1>9, PageTx
  <2>2. ImportOK(y, issues, server)
    BY <1>9, PageImport
  <2>3. ~y.moved => QuietOK(y, issues)
    BY <1>3, <1>9, PageQuiet
  <2>4. Importing(y)
    BY <1>8, ImportIs
  <2>5. QED
    BY <2>1, <2>2, <2>3, <2>4 DEF Sound
<1>11. \A r \in DOMAIN y.new : r >= nextRow \/ r \in DOMAIN x.new
  BY <1>9 DEF Turned, Placed
<1>12. y.posted = {} /\ y \in AnyTx /\ opened' \in 0..MaxOpened
  BY <1>1, <1>4, <1>8, ImportIs DEF AnyTx, StateType
<1>13. QED
  BY <1>1, <1>2, <1>3, <1>6, <1>10, <1>11, <1>12, OwnStep DEF x

(* What Open does, for the steps that begin a transaction.                 *)
LEMMA OpenIs ==
  ASSUME SyncInv, NEW t \in Transactions, NEW y, Open(t, y)
  PROVE  tx[t] = Idle /\ tx' = [tx EXCEPT ![t] = y] /\ opened' \in 0..MaxOpened
<1>1. opened \in 0..MaxOpened /\ MaxOpened \in Nat
  BY Bounds DEF SyncInv, StateType
<1>2. QED
  BY <1>1 DEF Open

LEMMA OpenImportKeeps ==
  ASSUME SyncInv, NEW t \in Transactions,
         NEW kind \in {"project", "all", "mine", "one"}, NEW asc \in BOOLEAN,
         NEW typed \in BOOLEAN, NEW target \in {0} \cup DOMAIN server,
         OpenImport(t, kind, asc, target, typed)
  PROVE  SyncInv'
<1>1. StateType
  BY DEF SyncInv
<1>2. PICK known \in Keyed(Found(kind, target, typed)) :
        Open(t, Over(Begun("paging"),
                    [kind |-> kind, asc |-> asc, target |-> target,
                     start |-> 0, total |-> PageSize, known |-> known,
                     sprints |-> sprints, met |-> {},
                     base |-> server, shifted |-> FALSE, moved |-> FALSE,
                     hidden |-> IF kind \in {"mine", "one"}
                                THEN KeysOf(DOMAIN issues) \ ({0} \cup DOMAIN known)
                                ELSE {},
                     listed |-> {}, split |-> {}]))
  BY DEF OpenImport
<1> DEFINE hidden == IF kind \in {"mine", "one"}
                     THEN KeysOf(DOMAIN issues) \ ({0} \cup DOMAIN known)
                                ELSE {}
           y == [at |-> "paging", new |-> <<>>, writes |-> <<>>,
                 outdated |-> {}, raced |-> {}, posted |-> {},
                 kind |-> kind, asc |-> asc, target |-> target,
                 start |-> 0, total |-> PageSize, known |-> known,
                 sprints |-> sprints, met |-> {},
                 base |-> server, shifted |-> FALSE, moved |-> FALSE,
                 hidden |-> hidden, listed |-> {}, split |-> {}]
<1>3. Over(Begun("paging"),
                    [kind |-> kind, asc |-> asc, target |-> target,
                     start |-> 0, total |-> PageSize, known |-> known,
                     sprints |-> sprints, met |-> {},
                     base |-> server, shifted |-> FALSE, moved |-> FALSE,
                     hidden |-> hidden,
                     listed |-> {}, split |-> {}]) = y
  <2> DEFINE b == Begun("paging")
             f == [kind |-> kind, asc |-> asc, target |-> target,
                   start |-> 0, total |-> PageSize, known |-> known,
                   sprints |-> sprints, met |-> {},
                   base |-> server, shifted |-> FALSE, moved |-> FALSE,
                   hidden |-> hidden, listed |-> {}, split |-> {}]
  <2> HIDE DEF hidden
  <2>1. y = [a \in DOMAIN y |-> y[a]] /\ DOMAIN y = DOMAIN b \cup DOMAIN f
    BY DEF Begun
  <2>2. /\ y.at = b.at /\ y.new = b.new /\ y.writes = b.writes
        /\ y.outdated = b.outdated /\ y.raced = b.raced /\ y.posted = b.posted
    BY DEF Begun
  <2>3. /\ y.kind = f.kind /\ y.asc = f.asc /\ y.target = f.target
        /\ y.start = f.start /\ y.total = f.total /\ y.known = f.known
        /\ y.sprints = f.sprints /\ y.met = f.met /\ y.base = f.base
        /\ y.shifted = f.shifted /\ y.moved = f.moved /\ y.hidden = f.hidden
        /\ y.listed = f.listed /\ y.split = f.split
    OBVIOUS
  <2>4. /\ DOMAIN b = {"at", "new", "writes", "outdated", "raced", "posted"}
        /\ DOMAIN f = {"kind", "asc", "target", "start", "total", "known",
                        "sprints", "met", "base", "shifted", "moved", "hidden",
                        "listed", "split"}
    BY DEF Begun
  <2> HIDE DEF y, b, f
  <2>5. (\A a \in DOMAIN b : y[a] = b[a]) /\ \A a \in DOMAIN f : y[a] = f[a]
    BY <2>2, <2>3, <2>4
  <2>6. Over(b, f) = y
    BY <2>1, <2>5, OverAs
  <2>7. QED
    BY <2>6 DEF b, f
<1>4. Open(t, y)
  BY <1>2, <1>3
<1>5. /\ kind = "one" => target \in DOMAIN server
      /\ UNCHANGED <<server, issues, nextRow, sprints, jobs, changes, excused, lost>>
  BY DEF OpenImport
<1>6. /\ server \in Seq(ServerIssue) /\ DOMAIN server \subseteq Key
      /\ issues \in Partial /\ nextRow \in Nat /\ DOMAIN issues \subseteq 1..(nextRow - 1)
      /\ sprints \subseteq Sprint /\ nextRow <= MaxRows + 1
  BY <1>1, Bounds DEF StateType, Key
<1>7. \A r \in DOMAIN issues : r \in Row /\ issues[r] \in Issue
  BY <1>6, PartialIs
<1>8. Found(kind, target, typed) \subseteq {r \in DOMAIN issues : issues[r].key # 0}
      /\ (kind \notin {"mine", "one"} =>
            Found(kind, target, typed) = {r \in DOMAIN issues : issues[r].key # 0})
  BY DEF Found
<1> DEFINE F == Found(kind, target, typed)
<1>9. /\ known \in [KeysOf(F) -> F]
      /\ \A k \in KeysOf(F) : issues[known[k]].key = k
  BY DEF Keyed
<1> HIDE DEF F
<1>10. F \subseteq Row /\ KeysOf(F) \subseteq Key
  <2>1. \A r \in F : r \in Row /\ issues[r].key \in Key
    BY <1>7, <1>8, NamesAre DEF F
  <2>2. QED
    BY <2>1 DEF KeysOf
<1>11. known \in UNION {[K -> Row] : K \in SUBSET Key} /\ DOMAIN known = KeysOf(F)
  <2>1. known \in [KeysOf(F) -> Row]
    BY <1>9, <1>10
  <2>2. QED
    BY <1>10, <2>1
<1>12. hidden \subseteq Key
  <2>1. ASSUME NEW k \in KeysOf(DOMAIN issues), k # 0 PROVE k \in Key
    BY <1>7, <2>1, NamesAre DEF KeysOf
  <2>2. QED
    BY <2>1
<1>13. y \in ImportTx
  <2> HIDE DEF hidden
  <2>1. {} \in SUBSET Name /\ {} \in SUBSET Key /\ {} \in SUBSET Row
    OBVIOUS
  <2>2. target \in Key \cup {0} /\ 0 \in Nat /\ PageSize \in Nat
    BY <1>6, Bounds
  <2>3. QED
    BY <1>6, <1>11, <1>12, <2>1, <2>2, PartialEmpty DEF ImportTx
<1>14. /\ y.new = <<>> /\ y.writes = <<>> /\ y.posted = {} /\ y.kind = kind
       /\ y.target = target /\ y.start = 0 /\ y.total = PageSize /\ y.known = known
       /\ y.met = {} /\ y.base = server /\ y.shifted = FALSE /\ y.moved = FALSE
       /\ y.raced = {} /\ y.hidden = hidden /\ y.listed = {} /\ y.split = {}
  <2> HIDE DEF hidden
  <2>1. QED
    OBVIOUS
<1> HIDE DEF y
<1>15. TxOK(y, issues, server, nextRow)
  BY <1>14, PartialEmpty DEF TxOK
<1>16. ImportOK(y, issues, server)
  <2>1. \A k \in DOMAIN y.known : KeyOf(issues, y.known[k], k)
    BY <1>8, <1>9, <1>11, <1>14 DEF KeyOf, F
  <2>2. ASSUME NEW k \in Key \ (y.raced \cup y.hidden), NEW r \in DOMAIN issues,
               issues[r].key = k
        PROVE  k \in DOMAIN y.known
    <3>1. k # 0
      BY NamesApart
    <3>2. CASE kind \in {"mine", "one"}
      <4>1. k \in KeysOf(DOMAIN issues)
        BY <2>2 DEF KeysOf
      <4>2. QED
        BY <1>14, <3>1, <3>2, <4>1
    <3>3. CASE kind \notin {"mine", "one"}
      <4>1. r \in F
        BY <1>8, <2>2, <3>1, <3>3 DEF F
      <4>2. k \in KeysOf(F)
        BY <2>2, <4>1 DEF KeysOf
      <4>3. QED
        BY <1>11, <1>14, <4>2
    <3>4. QED
      BY <3>2, <3>3
  <2>3. DOMAIN y.new = {} /\ DOMAIN y.writes = {} /\ y.listed = {} /\ y.met = {}
    BY <1>14, PartialEmpty
  <2>4. PageSize <= y.total /\ DOMAIN y.base \subseteq DOMAIN server
        /\ (y.kind = "one" => y.target \in DOMAIN y.base)
    BY <1>5, <1>14, Bounds
  <2>5. QED
    BY <2>1, <2>2, <2>3, <2>4 DEF ImportOK
<1>17. QuietOK(y, issues)
  <2>1. server \in Seq(ServerIssue) /\ Len(server) <= MaxKeys
    BY <1>1 DEF StateType
  <2>2. \A k \in Matches(y, server) : PlaceIn(y, server, k) \in Nat
    BY <1>5, <1>13, <1>14, <2>1, MatchesAre
  <2>3. \A k \in Matches(y, y.base) : ~(PlaceIn(y, y.base, k) < y.start)
    BY <1>14, <2>2
  <2>4. QED
    BY <1>14, <2>3 DEF QuietOK
<1>18. Sound(y, issues, server, nextRow)
  BY <1>13, <1>15, <1>16, <1>17, ImportIs DEF Sound
<1>19. tx[t] = Idle /\ tx' = [tx EXCEPT ![t] = y] /\ opened' \in 0..MaxOpened
  BY <1>4, OpenIs
<1>20. y \in AnyTx /\ DOMAIN y.new = {}
  BY <1>13, <1>14, PartialEmpty DEF AnyTx
<1>21. /\ nextRow' \in Nat /\ nextRow <= nextRow' /\ nextRow' <= MaxRows + 1
       /\ Sound(y, issues, server, nextRow')
       /\ UNCHANGED <<server, issues, sprints, jobs, changes, excused, lost>>
  BY <1>5, <1>6, <1>18
<1>22. \A k : k \in y.posted <=> (tx[t] # Idle /\ k \in tx[t].posted)
  BY <1>14, <1>19
<1>23. \A r \in DOMAIN y.new : r >= nextRow \/ (tx[t] # Idle /\ r \in DOMAIN tx[t].new)
  BY <1>20
<1>24. QED
  BY <1>19, <1>20, <1>21, <1>22, <1>23, OwnStep

LEMMA OpenExportKeeps ==
  ASSUME SyncInv, NEW t \in Transactions, NEW R \in SUBSET DOMAIN issues,
         OpenExport(t, R)
  PROVE  SyncInv'
<1> DEFINE y == [at |-> "exporting", new |-> <<>>, writes |-> <<>>,
                 outdated |-> {}, raced |-> {}, posted |-> {}, batch |-> R]
<1>1. StateType
  BY DEF SyncInv
<1>2. /\ R \subseteq Exportable /\ Open(t, Over([batch |-> R], Begun("exporting")))
      /\ UNCHANGED <<server, issues, nextRow, sprints, jobs, changes, excused, lost>>
  BY DEF OpenExport
<1>3. Over([batch |-> R], Begun("exporting")) = y
  <2> DEFINE f == [batch |-> R]
             b == Begun("exporting")
  <2>0. y = [a \in DOMAIN y |-> y[a]] /\ DOMAIN y = DOMAIN f \cup DOMAIN b
    BY DEF Begun
  <2>1. \A a \in DOMAIN f : y[a] = f[a]
    OBVIOUS
  <2>2. /\ y.at = b.at /\ y.new = b.new /\ y.writes = b.writes
        /\ y.outdated = b.outdated /\ y.raced = b.raced /\ y.posted = b.posted
    BY DEF Begun
  <2>3. DOMAIN b = {"at", "new", "writes", "outdated", "raced", "posted"}
    BY DEF Begun
  <2> HIDE DEF y, b, f
  <2>4. \A a \in DOMAIN b : y[a] = b[a]
    BY <2>2, <2>3
  <2>5. Over(f, b) = y
    BY <2>0, <2>1, <2>4, OverAs
  <2>6. QED
    BY <2>5 DEF b, f
<1>4. tx[t] = Idle /\ tx' = [tx EXCEPT ![t] = y] /\ opened' \in 0..MaxOpened
  BY <1>2, <1>3, OpenIs
<1>5. nextRow \in Nat /\ nextRow <= MaxRows + 1 /\ R \subseteq Row
  BY <1>1, PartialIs DEF StateType
<1>6. y \in ExportTx
  BY <1>5, PartialEmpty DEF ExportTx
<1>7. /\ y.new = <<>> /\ y.writes = <<>> /\ y.posted = {} /\ y.batch = R
      /\ DOMAIN y.new = {} /\ DOMAIN y.writes = {}
  BY PartialEmpty
<1> HIDE DEF y
<1>8. TxOK(y, issues, server, nextRow)
  <2>1. \A k \in DOMAIN server : server[k].origin \notin DOMAIN y.new
    BY <1>7
  <2>2. QED
    BY <1>7, <2>1 DEF TxOK
<1>9. ExportOK(y, issues, server)
  <2>1. \A r \in y.batch : issues[r].key = 0 /\ r \in RowsOf(y, issues)
    BY <1>2, <1>7 DEF Exportable, RowsOf
  <2>2. QED
    BY <1>7, <2>1 DEF ExportOK
<1>10. Sound(y, issues, server, nextRow)
  BY <1>6, <1>8, <1>9, ExportIs DEF Sound
<1>11. y \in AnyTx
  BY <1>6 DEF AnyTx
<1>12. /\ nextRow' \in Nat /\ nextRow <= nextRow' /\ nextRow' <= MaxRows + 1
       /\ Sound(y, issues, server, nextRow')
       /\ UNCHANGED <<server, issues, sprints, jobs, changes, excused, lost>>
  BY <1>2, <1>5, <1>10
<1>13. \A k : k \in y.posted <=> (tx[t] # Idle /\ k \in tx[t].posted)
  BY <1>4, <1>7
<1>14. \A r \in DOMAIN y.new : r >= nextRow \/ (tx[t] # Idle /\ r \in DOMAIN tx[t].new)
  BY <1>7
<1>15. QED
  BY <1>4, <1>11, <1>12, <1>13, <1>14, OwnStep

LEMMA SetToSeqIs ==
  ASSUME NEW S, IsFiniteSet(S)
  PROVE  /\ Cardinality(S) \in Nat
         /\ SetToSeq(S) \in [1..Cardinality(S) -> S]
         /\ \A i, j \in 1..Cardinality(S) : SetToSeq(S)[i] = SetToSeq(S)[j] => i = j
<1> DEFINE N == 1..Cardinality(S)
<1>1. Cardinality(S) \in Nat /\ ExistsBijection(N, S)
  BY FS_CardinalityType
<1>2. \E f \in [N -> S] : IsInjective(f)
  BY <1>1 DEF ExistsBijection, Bijection, Injection
<1>3. SetToSeq(S) \in [N -> S] /\ IsInjective(SetToSeq(S))
  BY <1>2 DEF SetToSeq
<1>4. QED
  BY <1>1, <1>3 DEF IsInjective

LEMMA OpenCloneKeeps ==
  ASSUME SyncInv, NEW t \in Transactions, NEW S \in SUBSET Source,
         NEW autoExport \in BOOLEAN, OpenClone(t, S, autoExport)
  PROVE  SyncInv'
<1> DEFINE C == NotCloned(S)
           c == Cardinality(C)
           order == SetToSeq(C)
           rows == nextRow..(nextRow + c - 1)
           at == IF autoExport THEN "exporting" ELSE "ready"
<1>1. StateType
  BY DEF SyncInv
<1>2. /\ nextRow + c <= MaxRows + 1 /\ nextRow' = nextRow + c
      /\ UNCHANGED <<server, issues, sprints, jobs, changes, excused, lost>>
  BY DEF OpenClone
<1>3. PICK epic \in [rows -> {0} \cup Epics], sprint \in {0} \cup sprints :
        Open(t, Over([batch |-> rows,
                      new |-> [r \in rows |->
                        [Blank EXCEPT !.src = order[r - nextRow + 1],
                                      !.epic = epic[r], !.sprint = sprint]]],
                     Begun(IF autoExport THEN "exporting" ELSE "ready")))
  BY DEF OpenClone
<1> DEFINE new == [r \in rows |-> [Blank EXCEPT !.src = order[r - nextRow + 1],
                                                !.epic = epic[r], !.sprint = sprint]]
           y == [at |-> at, new |-> new, writes |-> <<>>,
                 outdated |-> {}, raced |-> {}, posted |-> {}, batch |-> rows]
<1>4. Over([batch |-> rows, new |-> new], Begun(at)) = y
  <2> DEFINE f == [batch |-> rows, new |-> new]
             b == Begun(at)
  <2> HIDE DEF rows, new, at
  <2>1. y = [a \in DOMAIN y |-> y[a]] /\ DOMAIN y = DOMAIN f \cup DOMAIN b
    BY DEF Begun
  <2>2. /\ y.at = b.at /\ y.writes = b.writes /\ y.outdated = b.outdated
        /\ y.raced = b.raced /\ y.posted = b.posted
        /\ y.batch = f.batch /\ y.new = f.new
    BY DEF Begun
  <2>3. DOMAIN b = {"at", "new", "writes", "outdated", "raced", "posted"}
        /\ DOMAIN f = {"batch", "new"}
    BY DEF Begun
  <2> HIDE DEF y, b, f
  <2>4. (\A a \in DOMAIN f : y[a] = f[a]) /\ \A a \in DOMAIN b : a \notin DOMAIN f => y[a] = b[a]
    BY <2>2, <2>3
  <2>5. Over(f, b) = y
    BY <2>1, <2>4, OverAs
  <2>6. QED
    BY <2>5 DEF b, f
<1>5. tx[t] = Idle /\ tx' = [tx EXCEPT ![t] = y] /\ opened' \in 0..MaxOpened
  <2>1. Open(t, y)
    BY <1>3, <1>4
  <2> HIDE DEF y
  <2>2. QED
    BY <2>1, OpenIs
<1>6. /\ nextRow \in Nat /\ 1 <= nextRow /\ nextRow <= MaxRows + 1
      /\ DOMAIN issues \subseteq 1..(nextRow - 1) /\ issues \in Partial
      /\ sprints \subseteq Sprint
  BY <1>1 DEF StateType
<1>7. C \subseteq Source /\ \A a \in C : \A r \in DOMAIN issues : issues[r].src # a
  BY DEF NotCloned
<1>8. /\ c \in Nat /\ order \in [1..c -> C]
      /\ \A i, j \in 1..c : order[i] = order[j] => i = j
  <2>1. IsFiniteSet(C)
    BY <1>7, SyncAssumption, FS_Subset
  <2> HIDE DEF C
  <2>2. QED
    BY <2>1, SetToSeqIs
<1> HIDE DEF C, c, order
<1>9. \A r \in rows : r \in Row /\ r \in 1..(nextRow' - 1) /\ r >= nextRow
                      /\ r - nextRow + 1 \in 1..c
  BY <1>2, <1>6, <1>8, Bounds DEF Row
<1>10. \A r \in rows : order[r - nextRow + 1] \in C /\ epic[r] \in {0} \cup DOMAIN issues
  <2>1. Epics \subseteq DOMAIN issues
    BY DEF Epics
  <2> HIDE DEF rows
  <2>2. QED
    BY <1>3, <1>8, <1>9, <2>1
<1>11. ASSUME NEW r \in rows
       PROVE  /\ new[r] \in Issue /\ new[r].key = 0 /\ new[r].src = order[r - nextRow + 1]
              /\ new[r].epic = epic[r] /\ new[r].last = 0
  <2>1. new[r] = [Blank EXCEPT !.src = order[r - nextRow + 1],
                               !.epic = epic[r], !.sprint = sprint]
    OBVIOUS
  <2>2. DOMAIN issues \subseteq Row
    BY <1>6, PartialIs
  <2>3. epic[r] \in Row \cup {0} /\ order[r - nextRow + 1] \in Source
        /\ sprint \in Sprint \cup {0}
    BY <1>3, <1>6, <1>7, <1>10, <2>2
  <2> HIDE DEF new
  <2>4. new[r] \in Issue
    BY <2>1, <2>3 DEF Issue, Blank, Assignee
  <2>5. QED
    BY <2>1, <2>4 DEF Blank
<1>12. DOMAIN new = rows /\ new = [r \in rows |-> new[r]]
  OBVIOUS
<1> HIDE DEF new
<1>13. new \in Partial
  <2> HIDE DEF rows
  <2>1. QED
    BY <1>9, <1>11, <1>12, PartialIs
<1>14. y \in ExportTx
  <2>1. rows \subseteq Row /\ at \in {"ready", "exporting", "linking", "failed"}
    BY <1>9
  <2> HIDE DEF rows, at
  <2>2. QED
    BY <1>13, <2>1, PartialEmpty DEF ExportTx
<1>15. /\ y.new = new /\ y.writes = <<>> /\ y.posted = {} /\ y.batch = rows
       /\ DOMAIN y.writes = {}
  <2> HIDE DEF rows, at
  <2>1. QED
    BY PartialEmpty
<1> HIDE DEF y, rows, at
<1>16. TxOK(y, issues, server, nextRow')
  <2>1. DOMAIN y.new \cap DOMAIN issues = {}
    <3> SUFFICES ASSUME NEW r \in rows, r \in DOMAIN issues PROVE FALSE
      BY <1>12, <1>15
    <3>1. r \in 1..(nextRow - 1) /\ r >= nextRow
      BY <1>6, <1>9
    <3>2. QED
      BY <1>6, <3>1
  <2>2. DOMAIN y.new \subseteq 1..(nextRow' - 1)
    BY <1>9, <1>12, <1>15
  <2>3. ASSUME NEW r \in DOMAIN y.new
        PROVE  RowOK(y.new[r], RowsOf(y, issues), server)
    BY <1>10, <1>11, <1>12, <1>15 DEF RowOK, RowsOf
  <2>4. ASSUME NEW k \in DOMAIN server, server[k].origin \in DOMAIN y.new
        PROVE  FALSE
    <3> DEFINE o == server[k].origin
    <3>1. o >= nextRow /\ o \in Nat
      BY <1>9, <1>12, <1>15, <2>4, NamesApart
    <3>2. o # 0
      BY <1>6, <3>1
    <3>3. o < nextRow
      BY <3>2 DEF SyncInv, ServerOK
    <3>4. QED
      BY <1>6, <3>1, <3>3
  <2>5. QED
    BY <1>15, <2>1, <2>2, <2>3, <2>4 DEF TxOK
<1>17. ExportOK(y, issues, server)
  <2>1. \A q, r \in DOMAIN y.new : y.new[q].src = y.new[r].src => q = r
    <3> SUFFICES ASSUME NEW q \in rows, NEW r \in rows, new[q].src = new[r].src
                 PROVE  q = r
      BY <1>12, <1>15
    <3>1. q - nextRow + 1 = r - nextRow + 1
      BY <1>8, <1>9, <1>11
    <3>2. q \in Nat /\ r \in Nat
      BY <1>9, NamesApart
    <3>3. QED
      BY <1>6, <3>1, <3>2
  <2>2. \A r \in DOMAIN y.new : \A q \in DOMAIN issues : issues[q].src # y.new[r].src
    BY <1>7, <1>10, <1>11, <1>12, <1>15
  <2>3. \A r \in DOMAIN y.new : y.new[r].key = 0
    BY <1>11, <1>12, <1>15
  <2>4. y.batch \subseteq RowsOf(y, issues) /\ DOMAIN y.new = y.batch
    BY <1>12, <1>15 DEF RowsOf
  <2>5. \A r \in y.batch : r \notin DOMAIN issues
    BY <1>16, <2>4 DEF TxOK
  <2>6. QED
    BY <1>15, <2>1, <2>2, <2>3, <2>4, <2>5 DEF ExportOK
<1>18. Sound(y, issues, server, nextRow')
  BY <1>14, <1>16, <1>17, ExportIs DEF Sound
<1>19. y \in AnyTx
  BY <1>14 DEF AnyTx
<1>20. nextRow' \in Nat /\ nextRow <= nextRow' /\ nextRow' <= MaxRows + 1
  BY <1>2, <1>6, <1>8
<1>21. \A r \in DOMAIN y.new : r >= nextRow
  BY <1>9, <1>12, <1>15
<1>22. QED
  BY <1>2, <1>5, <1>15, <1>18, <1>19, <1>20, <1>21, OwnStep

-----------------------------------------------------------------------------
(* Steps on the server.                                                    *)
LEMMA ServerNumbers ==
  ASSUME StateType
  PROVE  /\ server \in Seq(ServerIssue) /\ Len(server) \in Nat /\ Len(server) <= MaxKeys
         /\ DOMAIN server = 1..Len(server) /\ DOMAIN server \subseteq Key
         /\ \A k \in DOMAIN server : server[k] \in ServerIssue
         /\ issues \in Partial /\ nextRow \in Nat /\ 1 <= nextRow
         /\ DOMAIN issues \subseteq 1..(nextRow - 1) /\ DOMAIN issues \subseteq Row
         /\ \A r \in DOMAIN issues : issues[r] \in Issue
BY PartialIs, Bounds DEF StateType, Key

LEMMA TableStays ==
  ASSUME SyncInv, UNCHANGED issues, Continues(server, server')
  PROVE  TableOK(issues, server)'
<1>1. TableOK(issues, server)
  BY DEF SyncInv
<1>2. ASSUME NEW r \in DOMAIN issues
      PROVE  /\ RowOK(issues[r], DOMAIN issues, server')
             /\ issues[r].key # 0 /\ issues[r].src # None => server'[issues[r].key].origin = r
  <2>1. /\ RowOK(issues[r], DOMAIN issues, server)
        /\ issues[r].key # 0 /\ issues[r].src # None => server[issues[r].key].origin = r
    BY <1>1 DEF TableOK
  <2>2. RowOK(issues[r], DOMAIN issues, server')
    BY <2>1, RowStays DEF Continues
  <2>3. issues[r].key \in {0} \cup DOMAIN server
    BY <2>1 DEF RowOK
  <2>4. QED
    BY <2>1, <2>2, <2>3 DEF Continues
<1>3. QED
  BY <1>2 DEF TableOK

LEMMA UserStep ==
  ASSUME SyncInv,
         UNCHANGED <<issues, nextRow, jobs, tx, opened, excused, lost>>,
         sprints' \subseteq Sprint, changes' \in 0..MaxChanges,
         server' \in Seq(ServerIssue), Len(server') <= MaxKeys,
         Continues(server, server'), ServerOK(server', nextRow),
         \A k \in DOMAIN server' : k \notin DOMAIN server => server'[k].origin = 0
  PROVE  SyncInv'
<1>1. StateType
  BY DEF SyncInv
<1>2. StateType'
  BY <1>1 DEF StateType
<1>3. TableOK(issues, server)' /\ ServerOK(server, nextRow)'
  BY TableStays
<1>4. SyncTx'
  <2>1. nextRow \in Nat /\ nextRow' = nextRow
    BY <1>1 DEF StateType
  <2>2. ASSUME NEW u \in Transactions, tx[u] # Idle, NEW k \in DOMAIN server',
               server'[k].origin \in DOMAIN tx[u].new
        PROVE  k \in tx[u].posted
    <3>1. DOMAIN tx[u].new \subseteq 1..(nextRow - 1)
          /\ \A j \in DOMAIN server : server[j].origin \in DOMAIN tx[u].new => j \in tx[u].posted
      BY <2>2, TheTx DEF TxOK
    <3>2. server'[k].origin # 0
      BY <2>1, <2>2, <3>1
    <3>3. k \in DOMAIN server /\ server'[k].origin = server[k].origin
      BY <3>2 DEF Continues
    <3>4. QED
      BY <2>2, <3>1, <3>3
  <2>3. \A u \in Transactions : GoesOn(u)
    BY <2>1, <2>2, OthersUnheard
  <2>4. QED
    BY <2>3 DEF SyncTx, GoesOn
<1>5. Apart' /\ CopiesCounted'
  BY CopiesStay DEF SyncInv, Apart
<1>6. LostCounted'
  <2>1. InFlight' = InFlight
    BY DEF InFlight
  <2>2. ASSUME NEW r \in Row
        PROVE  Astray(r, issues', server', InFlight') = Astray(r, issues, server, InFlight)
    <3>1. r # 0
      BY NamesApart
    <3>2. QED
      BY <2>1, <3>1 DEF Astray, Continues
  <2>3. QED
    BY <2>2, LostStays
<1>7. QED
  BY <1>2, <1>3, <1>4, <1>5, <1>6 DEF SyncInv

LEMMA LoadSprintsKeeps ==
  ASSUME SyncInv, LoadSprints
  PROVE  SyncInv'
<1>1. StateType /\ ServerOK(server, nextRow)
  BY DEF SyncInv
<1>2. Continues(server, server') /\ sprints' \subseteq Sprint
  BY DEF LoadSprints, Continues
<1>3. changes' \in 0..MaxChanges
  BY <1>1, Bounds DEF StateType, LoadSprints, Changes
<1>4. /\ UNCHANGED <<server, issues, nextRow, jobs, tx, opened, excused, lost>>
      /\ server' \in Seq(ServerIssue) /\ Len(server') <= MaxKeys
      /\ ServerOK(server', nextRow)
  BY <1>1 DEF StateType, LoadSprints
<1>5. \A k \in DOMAIN server' : k \notin DOMAIN server => server'[k].origin = 0
  BY <1>4
<1>6. QED
  BY <1>2, <1>3, <1>4, <1>5, UserStep

LEMMA CreateOnServerKeeps ==
  ASSUME SyncInv, CreateOnServer
  PROVE  SyncInv'
<1>1. StateType /\ ServerOK(server, nextRow)
  BY DEF SyncInv
<1>2. PICK assignee \in Assignee, parent \in {0} \cup DOMAIN server :
        server' = Append(server, [assignee |-> assignee, parent |-> parent,
                                  sprint |-> 0, origin |-> 0])
  BY DEF CreateOnServer
<1>3. /\ UNCHANGED <<issues, nextRow, sprints, jobs, tx, opened, excused, lost>>
      /\ Len(server) < MaxKeys
  BY DEF CreateOnServer
<1> DEFINE e == [assignee |-> assignee, parent |-> parent, sprint |-> 0, origin |-> 0]
<1>4. e \in ServerIssue /\ e.parent = parent /\ e.origin = 0
  BY <1>1, ServerNumbers DEF ServerIssue
<1> HIDE DEF e
<1>5. server' = Append(server, e)
  BY <1>2 DEF e
<1>6. /\ server' \in Seq(ServerIssue) /\ Len(server') = Len(server) + 1
      /\ DOMAIN server' = 1..(Len(server) + 1)
      /\ \A k \in 1..Len(server) : server'[k] = server[k]
      /\ server'[Len(server) + 1] = e
  BY <1>1, <1>4, <1>5, ServerNumbers
<1>7. Len(server) \in Nat /\ DOMAIN server = 1..Len(server) /\ MaxKeys \in Nat
  BY <1>1, ServerNumbers, Bounds
<1>8. Len(server') <= MaxKeys
  BY <1>3, <1>6, <1>7
<1>9. \A k \in DOMAIN server' : k \in DOMAIN server \/ server'[k] = e
  <2> SUFFICES ASSUME NEW k \in DOMAIN server', k \notin DOMAIN server
               PROVE  server'[k] = e
    OBVIOUS
  <2>1. k = Len(server) + 1
    BY <1>6, <1>7
  <2>2. QED
    BY <1>6, <2>1
<1>10. Continues(server, server')
  BY <1>6, <1>7 DEF Continues
<1>11. ServerOK(server', nextRow)
  <2>1. \A k \in DOMAIN server :
          /\ server[k].parent \in {0} \cup DOMAIN server
          /\ server[k].origin # 0 => server[k].origin < nextRow
    BY <1>1 DEF ServerOK
  <2>2. DOMAIN server \subseteq DOMAIN server'
    BY <1>6, <1>7
  <2>3. \A k \in DOMAIN server : server'[k] = server[k]
    BY <1>6, <1>7
  <2>4. parent \in {0} \cup DOMAIN server'
    BY <1>2, <2>2
  <2>5. ASSUME NEW k \in DOMAIN server'
        PROVE  /\ server'[k].parent \in {0} \cup DOMAIN server'
               /\ server'[k].origin # 0 => server'[k].origin < nextRow
    <3>1. CASE k \in DOMAIN server
      BY <2>1, <2>2, <2>3, <3>1
    <3>2. CASE server'[k] = e
      BY <1>4, <2>4, <3>2
    <3>3. QED
      BY <1>9, <3>1, <3>2
  <2>6. QED
    BY <2>5 DEF ServerOK
<1>12. sprints' \subseteq Sprint /\ changes' \in 0..MaxChanges
  BY <1>1, <1>3, Bounds DEF StateType, CreateOnServer, Changes
<1>13. \A k \in DOMAIN server' : k \notin DOMAIN server => server'[k].origin = 0
  BY <1>4, <1>9
<1>14. QED
  BY <1>3, <1>6, <1>8, <1>10, <1>11, <1>12, <1>13, UserStep

LEMMA ChangeOnServerKeeps ==
  ASSUME SyncInv, ChangeOnServer
  PROVE  SyncInv'
<1>1. StateType /\ ServerOK(server, nextRow)
  BY DEF SyncInv
<1>2. PICK k \in DOMAIN server :
       \/ \E a \in Assignee :
            a # server[k].assignee /\ server' = [server EXCEPT ![k].assignee = a]
       \/ \E s \in Sprint \cup {0} :
            s # server[k].sprint /\ server' = [server EXCEPT ![k].sprint = s]
       \/ \E p \in {0} \cup DOMAIN server :
            /\ p \notin {k, server[k].parent}
            /\ p # 0 => server[p].parent = 0
                        /\ \A j \in DOMAIN server : server[j].parent # k
            /\ server' = [server EXCEPT ![k].parent = p]
  BY DEF ChangeOnServer
<1>3. UNCHANGED <<issues, nextRow, sprints, jobs, tx, opened, excused, lost>>
  BY DEF ChangeOnServer
<1>4. server[k] \in ServerIssue /\ server[k].parent \in {0} \cup DOMAIN server
      /\ DOMAIN server \subseteq Key
  BY <1>1, ServerNumbers DEF ServerOK
<1>5. \E v \in ServerIssue :
        /\ v.origin = server[k].origin /\ v.parent \in {0} \cup DOMAIN server
        /\ server' = [server EXCEPT ![k] = v]
  <2>1. ASSUME NEW a \in Assignee, server' = [server EXCEPT ![k].assignee = a]
        PROVE  \E v \in ServerIssue :
                 /\ v.origin = server[k].origin /\ v.parent \in {0} \cup DOMAIN server
                 /\ server' = [server EXCEPT ![k] = v]
    <3> DEFINE v == [server[k] EXCEPT !.assignee = a]
    <3>1. v \in ServerIssue /\ v.origin = server[k].origin /\ v.parent = server[k].parent
      BY <1>4 DEF ServerIssue
    <3>2. server' = [server EXCEPT ![k] = v]
      BY <2>1
    <3> HIDE DEF v
    <3>3. QED
      BY <1>4, <3>1, <3>2
  <2>2. ASSUME NEW s \in Sprint \cup {0}, server' = [server EXCEPT ![k].sprint = s]
        PROVE  \E v \in ServerIssue :
                 /\ v.origin = server[k].origin /\ v.parent \in {0} \cup DOMAIN server
                 /\ server' = [server EXCEPT ![k] = v]
    <3> DEFINE v == [server[k] EXCEPT !.sprint = s]
    <3>1. v \in ServerIssue /\ v.origin = server[k].origin /\ v.parent = server[k].parent
      BY <1>4 DEF ServerIssue
    <3>2. server' = [server EXCEPT ![k] = v]
      BY <2>2
    <3> HIDE DEF v
    <3>3. QED
      BY <1>4, <3>1, <3>2
  <2>3. ASSUME NEW p \in {0} \cup DOMAIN server, server' = [server EXCEPT ![k].parent = p]
        PROVE  \E v \in ServerIssue :
                 /\ v.origin = server[k].origin /\ v.parent \in {0} \cup DOMAIN server
                 /\ server' = [server EXCEPT ![k] = v]
    <3> DEFINE v == [server[k] EXCEPT !.parent = p]
    <3>1. v \in ServerIssue /\ v.origin = server[k].origin /\ v.parent = p
      BY <1>4 DEF ServerIssue
    <3>2. server' = [server EXCEPT ![k] = v]
      BY <2>3
    <3> HIDE DEF v
    <3>3. QED
      BY <1>4, <3>1, <3>2
  <2>4. QED
    BY <1>2, <2>1, <2>2, <2>3
<1>6. PICK v \in ServerIssue :
        /\ v.origin = server[k].origin /\ v.parent \in {0} \cup DOMAIN server
        /\ server' = [server EXCEPT ![k] = v]
  BY <1>5
<1>7. /\ server' \in Seq(ServerIssue) /\ Len(server') = Len(server)
      /\ DOMAIN server' = DOMAIN server
      /\ \A j \in DOMAIN server : server'[j] = IF j = k THEN v ELSE server[j]
  BY <1>1, <1>6, ServerNumbers
<1>8. Continues(server, server') /\ Len(server') <= MaxKeys
  BY <1>1, <1>6, <1>7 DEF Continues, StateType
<1>9. ServerOK(server', nextRow)
  BY <1>1, <1>6, <1>7 DEF ServerOK
<1>10. sprints' \subseteq Sprint /\ changes' \in 0..MaxChanges
  BY <1>1, <1>3, Bounds DEF StateType, ChangeOnServer, Changes
<1>11. \A j \in DOMAIN server' : j \notin DOMAIN server => server'[j].origin = 0
  BY <1>7
<1>12. QED
  BY <1>3, <1>7, <1>8, <1>9, <1>10, <1>11, UserStep

(* The table as a transaction sees it.                                     *)
LEMMA ViewIs ==
  ASSUME SyncInv, NEW t \in Transactions, tx[t] # Idle
  PROVE  LET x == tx[t] IN
         /\ View(x) \in Partial /\ DOMAIN View(x) = RowsOf(x, issues)
         /\ \A r \in DOMAIN x.new : View(x)[r] = x.new[r] /\ r \notin DOMAIN issues
         /\ \A r \in DOMAIN x.writes : View(x)[r] = x.writes[r] /\ r \in DOMAIN issues
         /\ \A r \in DOMAIN issues : r \notin DOMAIN x.writes => View(x)[r] = issues[r]
         /\ \A r \in DOMAIN issues : View(x)[r].src = issues[r].src
         /\ \A r \in RowsOf(x, issues) :
              View(x)[r] \in Issue /\ RowOK(View(x)[r], RowsOf(x, issues), server)
         /\ RowsOf(x, issues) \subseteq 1..(nextRow - 1)
<1> DEFINE x == tx[t]
           v == View(x)
           D == RowsOf(x, issues)
<1>1. x \in AnyTx /\ TxOK(x, issues, server, nextRow)
  BY TheTx
<1>2. issues \in Partial /\ DOMAIN issues \subseteq 1..(nextRow - 1)
      /\ TableOK(issues, server)
  BY DEF SyncInv, StateType
<1> HIDE DEF x
<1>3. x.new \in Partial /\ x.writes \in Partial
  BY <1>1, AnyTxIs
<1>4. v \in Partial
  BY <1>2, <1>3, OverPartial DEF View
<1> DEFINE w == Over(x.writes, issues)
<1>5. /\ DOMAIN w = DOMAIN x.writes \cup DOMAIN issues
      /\ \A r \in DOMAIN x.writes : w[r] = x.writes[r]
      /\ \A r \in DOMAIN issues : r \notin DOMAIN x.writes => w[r] = issues[r]
  BY OverIs
<1> HIDE DEF w
<1>6. v = Over(x.new, w)
  BY DEF View, w
<1>7. /\ DOMAIN Over(x.new, w) = DOMAIN x.new \cup DOMAIN w
      /\ \A r \in DOMAIN x.new : Over(x.new, w)[r] = x.new[r]
      /\ \A r \in DOMAIN w : r \notin DOMAIN x.new => Over(x.new, w)[r] = w[r]
  BY OverIs
<1> HIDE DEF v
<1>8. DOMAIN x.new \cap DOMAIN issues = {} /\ DOMAIN x.writes \subseteq DOMAIN issues
  BY <1>1 DEF TxOK
<1>9. /\ DOMAIN v = D
      /\ \A r \in DOMAIN x.new : v[r] = x.new[r] /\ r \notin DOMAIN issues
      /\ \A r \in DOMAIN x.writes : v[r] = x.writes[r] /\ r \in DOMAIN issues
      /\ \A r \in DOMAIN issues : r \notin DOMAIN x.writes => v[r] = issues[r]
  BY <1>5, <1>6, <1>7, <1>8 DEF RowsOf
<1>10. \A r \in DOMAIN issues : v[r].src = issues[r].src
  <2> SUFFICES ASSUME NEW r \in DOMAIN issues PROVE v[r].src = issues[r].src
    OBVIOUS
  <2>1. r \in DOMAIN x.writes => x.writes[r].src = issues[r].src
    BY <1>1 DEF TxOK
  <2>2. QED
    BY <1>9, <2>1
<1>11. ASSUME NEW r \in D
       PROVE  v[r] \in Issue /\ RowOK(v[r], D, server)
  <2>1. v[r] \in Issue
    BY <1>4, <1>9, PartialIs
  <2>2. CASE r \in DOMAIN x.new
    BY <1>1, <1>9, <2>1, <2>2 DEF TxOK
  <2>3. CASE r \in DOMAIN x.writes
    BY <1>1, <1>9, <2>1, <2>3 DEF TxOK
  <2>4. CASE r \in DOMAIN issues /\ r \notin DOMAIN x.writes
    <3>1. RowOK(issues[r], DOMAIN issues, server)
      BY <1>2, <2>4 DEF TableOK
    <3>2. RowOK(issues[r], D, server)
      BY <3>1, RowStays DEF RowsOf
    <3>3. QED
      BY <1>9, <2>1, <2>4, <3>2
  <2>5. QED
    BY <1>8, <2>2, <2>3, <2>4 DEF RowsOf
<1>12. D \subseteq 1..(nextRow - 1)
  BY <1>1, <1>2 DEF RowsOf, TxOK
<1>13. QED
  BY <1>4, <1>9, <1>10, <1>11, <1>12 DEF x, v

(* A step of transaction t on the server: what is new there it posted, for *)
(* rows of its own or of the table.                                        *)
LEMMA ServerTxStep ==
  ASSUME SyncInv, NEW t \in Transactions, tx[t] # Idle, NEW y \in AnyTx,
         tx' = [tx EXCEPT ![t] = y],
         UNCHANGED <<issues, nextRow, sprints, jobs, opened, changes, excused, lost>>,
         server' \in Seq(ServerIssue), Len(server') <= MaxKeys,
         Continues(server, server'), ServerOK(server', nextRow),
         Sound(y, issues, server', nextRow),
         DOMAIN y.new = DOMAIN tx[t].new,
         \A k \in DOMAIN server : k \in y.posted <=> k \in tx[t].posted,
         \A k \in DOMAIN server' : k \notin DOMAIN server =>
           k \in y.posted /\ server'[k].origin \in RowsOf(tx[t], issues),
         y.posted \subseteq DOMAIN server'
  PROVE  SyncInv'
<1> DEFINE T == Transactions \ {t}
<1>1. StateType
  BY DEF SyncInv
<1>2. tx'[t] = y /\ (\A u \in T : tx'[u] = tx[u]) /\ tx' = [u \in Transactions |-> tx'[u]]
  BY <1>1 DEF StateType
<1>3. ASSUME NEW u \in T, tx[u] # Idle
      PROVE  /\ DOMAIN tx[t].new \cap DOMAIN tx[u].new = {}
             /\ tx[t].posted \cap tx[u].posted = {}
             /\ DOMAIN tx[u].new \cap DOMAIN issues = {}
             /\ tx[u].posted \subseteq DOMAIN server
             /\ \A k \in DOMAIN server :
                  server[k].origin \in DOMAIN tx[u].new => k \in tx[u].posted
  <2>1. /\ DOMAIN tx[t].new \cap DOMAIN tx[u].new = {}
        /\ tx[t].posted \cap tx[u].posted = {}
    BY <1>3 DEF SyncInv, Apart
  <2>2. TxOK(tx[u], issues, server, nextRow)
    BY <1>3, TheTx
  <2>3. tx[u].posted \subseteq DOMAIN server
    BY <1>3, TheTx DEF ExportOK
  <2>4. QED
    BY <2>1, <2>2, <2>3 DEF TxOK
<1>4. \A u \in T : GoesOn(u)
  <2>1. ASSUME NEW u \in T, tx[u] # Idle, NEW k \in DOMAIN server',
               server'[k].origin \in DOMAIN tx[u].new
        PROVE  k \in tx[u].posted
    <3>1. CASE k \in DOMAIN server
      <4>1. server'[k].origin = server[k].origin
        BY <3>1 DEF Continues
      <4>2. QED
        BY <1>3, <2>1, <3>1, <4>1
    <3>2. CASE k \notin DOMAIN server
      <4>1. server'[k].origin \in DOMAIN issues \cup DOMAIN tx[t].new
        BY <3>2 DEF RowsOf
      <4>2. QED
        BY <1>3, <2>1, <4>1
    <3>3. QED
      BY <3>1, <3>2
  <2>2. nextRow' \in Nat /\ nextRow <= nextRow'
    BY <1>1 DEF StateType
  <2> HIDE DEF T
  <2>3. T \in SUBSET Transactions
    BY DEF T
  <2>4. QED
    BY <1>2, <2>1, <2>2, <2>3, OthersUnheard
<1>5. y # Idle
  BY AnyTxIs
<1>6. tx' \in [Transactions -> {Idle} \cup ImportTx \cup ExportTx] /\ SyncTx' /\ Apart'
  <2>1. /\ tx'[t] \in AnyTx /\ Sound(tx'[t], issues', server', nextRow')
        /\ \A u \in T : tx[u] # Idle =>
             /\ DOMAIN tx'[t].new \cap DOMAIN tx[u].new = {}
             /\ tx'[t].posted \cap tx[u].posted = {}
    BY <1>2, <1>3
  <2>2. QED
    BY <1>2, <1>4, <2>1, TxAfter
<1>7. StateType'
  BY <1>1, <1>6 DEF StateType
<1>8. TableOK(issues, server)' /\ ServerOK(server, nextRow)'
  BY TableStays
<1>9. CopiesCounted'
  BY CopiesStay
<1>10. LostCounted'
  <2>1. \A k \in DOMAIN server : k \in InFlight' <=> k \in InFlight
    BY <1>2, <1>4, <1>5, FlightAfter, FlightBefore
  <2>2. \A k \in DOMAIN server' : k \notin DOMAIN server => k \in InFlight'
    BY <1>2, <1>4, <1>5, FlightAfter
  <2>3. \A r \in Row : Astray(r, issues', server', InFlight') = Astray(r, issues, server, InFlight)
    BY <2>1, <2>2 DEF Astray, Continues
  <2>4. QED
    BY <2>3, LostStays
<1>11. QED
  BY <1>6, <1>7, <1>8, <1>9, <1>10 DEF SyncInv

LEMMA LinkKeeps ==
  ASSUME SyncInv, NEW t \in Transactions, Link(t)
  PROVE  SyncInv'
<1> DEFINE x == tx[t]
           v == View(x)
           y == [x EXCEPT !.at = "ready"]
           rowOf(k) == v[server[k].origin]
<1>1. StateType
  BY DEF SyncInv
<1>2. /\ x.at = "linking"
      /\ tx' = [tx EXCEPT ![t].at = "ready"]
      /\ UNCHANGED <<issues, nextRow, sprints, jobs, opened, changes, excused, lost>>
  BY DEF Link
<1>3. PICK epic \in Lasts({v[r].epic : r \in x.batch}),
           sprint \in Lasts({v[r].sprint : r \in x.batch}) :
        server' = [k \in DOMAIN server |->
         IF k \in x.posted
         THEN [server[k] EXCEPT
                !.parent = IF epic # 0 /\ rowOf(k).epic = epic
                           THEN v[epic].key ELSE @,
                !.sprint = IF rowOf(k).sprint = sprint THEN sprint ELSE @]
         ELSE server[k]]
  BY DEF Link
<1>4. x # Idle
  BY <1>2 DEF Idle
<1>5. x \in ExportTx /\ TxOK(x, issues, server, nextRow) /\ ExportOK(x, issues, server)
  <2>1. x \notin ImportTx
    BY <1>2, ImportIs
  <2>2. QED
    BY <1>4, <2>1, TheTx, AnyTxIs DEF AnyTx
<1>6. tx' = [tx EXCEPT ![t] = y]
  BY <1>2
<1>7. /\ \A r \in RowsOf(x, issues) : v[r] \in Issue /\ RowOK(v[r], RowsOf(x, issues), server)
      /\ x.batch \subseteq RowsOf(x, issues)
  BY <1>4, <1>5, ViewIs DEF ExportOK
<1>8. /\ server \in Seq(ServerIssue) /\ Len(server) <= MaxKeys /\ DOMAIN server \subseteq Key
      /\ \A k \in DOMAIN server : server[k] \in ServerIssue
      /\ Len(server) \in Nat /\ DOMAIN server = 1..Len(server)
  BY <1>1, ServerNumbers
<1> HIDE DEF x, v
<1>9. epic # 0 => v[epic].key \in {0} \cup DOMAIN server
  <2>1. epic \in {0} \cup {v[r].epic : r \in x.batch}
    BY <1>3 DEF Lasts
  <2>2. \A r \in x.batch : v[r].epic \in {0} \cup RowsOf(x, issues)
    BY <1>7 DEF RowOK
  <2>3. epic # 0 => epic \in RowsOf(x, issues)
    BY <2>1, <2>2
  <2>4. QED
    BY <1>7, <2>3 DEF RowOK
<1>10. sprint \in Sprint \cup {0}
  <2>1. sprint \in {0} \cup {v[r].sprint : r \in x.batch}
    BY <1>3 DEF Lasts
  <2>2. \A r \in x.batch : v[r].sprint \in Sprint \cup {0}
    BY <1>7 DEF Issue
  <2>3. QED
    BY <2>1, <2>2
<1>11. ASSUME NEW k \in DOMAIN server
       PROVE  /\ server'[k] \in ServerIssue /\ server'[k].origin = server[k].origin
              /\ server'[k].parent \in {0} \cup DOMAIN server
  <2> DEFINE p == IF epic # 0 /\ rowOf(k).epic = epic THEN v[epic].key
                  ELSE server[k].parent
             q == IF rowOf(k).sprint = sprint THEN sprint ELSE server[k].sprint
  <2>1. server'[k] = IF k \in x.posted
                     THEN [server[k] EXCEPT !.parent = p, !.sprint = q] ELSE server[k]
    BY <1>3
  <2>2. server[k].parent \in {0} \cup DOMAIN server
    BY DEF SyncInv, ServerOK
  <2>3. p \in {0} \cup DOMAIN server
    BY <1>9, <2>2
  <2>4. q \in Sprint \cup {0}
    BY <1>8, <1>10 DEF ServerIssue
  <2> HIDE DEF p, q
  <2>5. p \in Key \cup {0}
    BY <1>8, <2>3
  <2>6. server[k] \in ServerIssue
    BY <1>8
  <2>7. CASE k \in x.posted
    BY <2>1, <2>3, <2>4, <2>5, <2>6, <2>7 DEF ServerIssue
  <2>8. CASE k \notin x.posted
    BY <2>1, <2>2, <2>6, <2>8
  <2>9. QED
    BY <2>7, <2>8
<1>12. DOMAIN server' = DOMAIN server /\ server' = [k \in 1..Len(server) |-> server'[k]]
  BY <1>3, <1>8
<1>13. server' \in Seq(ServerIssue) /\ Len(server') = Len(server)
  <2>1. server' \in [1..Len(server) -> ServerIssue]
    BY <1>8, <1>11, <1>12
  <2>2. QED
    BY <1>8, <2>1
<1>14. Continues(server, server') /\ ServerOK(server', nextRow)
  BY <1>11, <1>12 DEF Continues, ServerOK, SyncInv
<1>15. y \in ExportTx /\ y.new = x.new /\ y.writes = x.writes /\ y.posted = x.posted
       /\ y.batch = x.batch /\ y.raced = x.raced /\ y.outdated = x.outdated
       /\ y.at = "ready"
  BY <1>5 DEF ExportTx
<1> HIDE DEF y
<1>16. TxOK(y, issues, server', nextRow)
  <2>1. RowsOf(y, issues) = RowsOf(x, issues)
    BY <1>15 DEF RowsOf
  <2>2. \A r \in DOMAIN x.new : RowOK(x.new[r], RowsOf(x, issues), server')
    BY <1>5, <1>12 DEF TxOK, RowOK
  <2>3. \A r \in DOMAIN x.writes : RowOK(x.writes[r], RowsOf(x, issues), server')
                                   /\ x.writes[r].src = issues[r].src
    BY <1>5, <1>12 DEF TxOK, RowOK
  <2>4. QED
    BY <1>5, <1>11, <1>12, <1>15, <2>1, <2>2, <2>3 DEF TxOK
<1>17. ExportOK(y, issues, server')
  <2>1. x.posted \subseteq DOMAIN server
    BY <1>5 DEF ExportOK
  <2>2. \A k \in DOMAIN server : server'[k].origin = server[k].origin
    BY <1>11
  <2>3. RowsOf(y, issues) = RowsOf(x, issues)
    BY <1>15 DEF RowsOf
  <2>4. /\ \A r \in DOMAIN y.new :
             y.new[r].key # 0 => y.new[r].key \in y.posted /\ server'[y.new[r].key].origin = r
        /\ \A r \in DOMAIN y.writes :
             y.writes[r].key \in y.posted /\ server'[y.writes[r].key].origin = r
    BY <1>5, <1>15, <2>1, <2>2 DEF ExportOK
  <2>5. \A k \in y.posted :
          /\ KeyOf(y.new, server'[k].origin, k) \/ KeyOf(y.writes, server'[k].origin, k)
          /\ ~KeyOf(issues, server'[k].origin, k)
          /\ k \in y.raced \/ \A r \in DOMAIN issues : issues[r].key # k
    BY <1>5, <1>15, <2>1, <2>2 DEF ExportOK
  <2>6. QED
    BY <1>5, <1>12, <1>15, <2>3, <2>4, <2>5 DEF ExportOK
<1>18. Sound(y, issues, server', nextRow)
  BY <1>15, <1>16, <1>17, ExportIs DEF Sound
<1>19. y \in AnyTx /\ y.posted \subseteq DOMAIN server'
  BY <1>5, <1>12, <1>15 DEF AnyTx, ExportOK
<1>20. Len(server') <= MaxKeys
  BY <1>8, <1>13
<1>21. DOMAIN y.new = DOMAIN x.new /\ \A k \in DOMAIN server : k \in y.posted <=> k \in x.posted
  BY <1>15
<1>22. \A k \in DOMAIN server' : k \notin DOMAIN server =>
         k \in y.posted /\ server'[k].origin \in RowsOf(x, issues)
  BY <1>12
<1>23. QED
  BY <1>2, <1>4, <1>6, <1>13, <1>14, <1>18, <1>19, <1>20, <1>21, <1>22, ServerTxStep DEF x

(* The rows C of POST issue/bulk in the order of the keys they get, and    *)
(* what follows the issues of the server.                                  *)
InOrder(s, C, key, row) ==
  LET L == Len(s)
      c == Cardinality(C)
  IN
  /\ c \in Nat /\ DOMAIN row = 1..c /\ row = [i \in 1..c |-> row[i]]
  /\ \A r \in C : key[r] \in (L + 1)..(L + c)
  /\ \A q, r \in C : key[q] = key[r] => q = r
  /\ \A m \in (L + 1)..(L + c) : \E r \in C : key[r] = m
  /\ \A i \in 1..c : row[i] \in C /\ key[row[i]] = L + i

LEMMA SeqIs ==
  ASSUME NEW S, NEW q \in Seq(S)
  PROVE  Len(q) \in Nat /\ DOMAIN q = 1..Len(q)
OBVIOUS

LEMMA RowsPosted ==
  ASSUME NEW s \in Seq(ServerIssue), NEW C \in SUBSET Row, NEW key,
         key = Numbered(C, Len(s) + 1),
         NEW row, row = [i \in 1..Cardinality(C) |->
                          CHOOSE r \in C : key[r] = Len(s) + i]
  PROVE  InOrder(s, C, key, row)
<1> DEFINE c == Cardinality(C)
           L == Len(s)
<1>1. L \in Nat /\ DOMAIN s = 1..L
  OBVIOUS
<1>2. /\ c \in Nat
      /\ \A r \in C : key[r] \in (L + 1)..(L + c)
      /\ \A q, r \in C : key[q] = key[r] => q = r
      /\ \A m \in (L + 1)..(L + c) : \E r \in C : key[r] = m
  <2>1. C \in SUBSET Nat /\ IsFiniteSet(C) /\ L + 1 \in Nat
    BY <1>1, RowsFinite, NamesApart
  <2> DEFINE m == L + 1
  <2>2. key = Numbered(C, m) /\ m \in Nat
    BY <2>1
  <2> HIDE DEF m
  <2>3. /\ Cardinality(C) \in Nat
        /\ Numbered(C, m) \in [C -> m..(m + Cardinality(C) - 1)]
        /\ \A q, r \in C : Numbered(C, m)[q] = Numbered(C, m)[r] => q = r
        /\ \A l \in m..(m + Cardinality(C) - 1) : \E r \in C : Numbered(C, m)[r] = l
    BY <2>1, <2>2, NumberedIs
  <2>4. m + Cardinality(C) - 1 = L + c
    BY <1>1, <2>3 DEF m
  <2>5. QED
    BY <2>2, <2>3, <2>4 DEF m
<1>3. DOMAIN row = 1..c
  OBVIOUS
<1>4. ASSUME NEW i \in 1..c
      PROVE  row[i] \in C /\ key[row[i]] = L + i
  <2>1. L + i \in (L + 1)..(L + c)
    BY <1>1, <1>2
  <2>2. \E r \in C : key[r] = L + i
    BY <1>2, <2>1
  <2>3. row[i] = CHOOSE r \in C : key[r] = L + i
    OBVIOUS
  <2>4. QED
    BY <2>2, <2>3
<1>5. row = [i \in 1..c |-> row[i]]
  OBVIOUS
<1>6. QED
  BY <1>2, <1>3, <1>4, <1>5 DEF InOrder

(* What POST issue/bulk makes of the rows C: their numbers continue those  *)
(* of the server, each row is the origin of its issue.                     *)
Posted(s, z, C, key, made) ==
  /\ z \in Seq(ServerIssue) /\ Len(z) <= MaxKeys
  /\ DOMAIN s \subseteq DOMAIN z
  /\ \A k \in DOMAIN s : z[k] = s[k]
  /\ \A r \in C : /\ key[r] \in DOMAIN z /\ key[r] \notin DOMAIN s
                  /\ key[r] \in Key
                  /\ z[key[r]] = made[r]
  /\ \A k \in DOMAIN z : k \notin DOMAIN s => \E r \in C : key[r] = k

LEMMA PostIs ==
  ASSUME NEW s \in Seq(ServerIssue), NEW C, NEW key, NEW row, InOrder(s, C, key, row),
         Len(s) + Len(row) <= MaxKeys, NEW made \in [C -> ServerIssue],
         NEW z, z = s \o [i \in DOMAIN row |-> made[row[i]]]
  PROVE  Posted(s, z, C, key, made)
<1> DEFINE c == Cardinality(C)
           L == Len(s)
           tail == [i \in DOMAIN row |-> made[row[i]]]
<1>1. L \in Nat /\ DOMAIN s = 1..L
  BY SeqIs
<1>2. /\ c \in Nat /\ DOMAIN row = 1..c /\ row = [i \in 1..c |-> row[i]]
      /\ \A r \in C : key[r] \in (L + 1)..(L + c)
      /\ \A q, r \in C : key[q] = key[r] => q = r
      /\ \A m \in (L + 1)..(L + c) : \E r \in C : key[r] = m
  BY DEF InOrder
<1>3. \A i \in 1..c : row[i] \in C /\ key[row[i]] = L + i
  BY DEF InOrder
<1> HIDE DEF c
<1>4. row \in [1..c -> C]
  BY <1>2, <1>3
<1>5. row \in Seq(C) /\ Len(row) = c
  BY <1>2, <1>4
<1> HIDE DEF L
<1>6. ASSUME NEW r \in C
      PROVE  \E i \in 1..c : key[r] = L + i /\ row[i] = r
  <2>1. key[r] \in (L + 1)..(L + c)
    BY <1>2
  <2>2. key[r] - L \in 1..c /\ key[r] = L + (key[r] - L)
    BY <1>1, <1>2, <2>1
  <2>3. PICK i \in 1..c : key[r] = L + i
    BY <2>2
  <2>4. row[i] \in C /\ key[row[i]] = key[r]
    BY <1>3, <2>3
  <2>5. row[i] = r
    BY <1>2, <2>4
  <2>6. QED
    BY <2>3, <2>5
<1>7. tail \in Seq(ServerIssue) /\ Len(tail) = c /\ \A i \in 1..c : tail[i] = made[row[i]]
  <2>1. tail \in [1..c -> ServerIssue]
    BY <1>2, <1>3
  <2>2. \A i \in 1..c : tail[i] = made[row[i]]
    BY <1>2
  <2> HIDE DEF tail
  <2>3. c \in Nat
    BY <1>2
  <2>4. tail \in Seq(ServerIssue) /\ Len(tail) = c
    BY <2>1, <2>3
  <2>5. QED
    BY <2>2, <2>4
<1>8. z = s \o tail
  OBVIOUS
<1> HIDE DEF tail
<1>9. z \in Seq(ServerIssue) /\ Len(z) = L + c
  <2>1. s \o tail \in Seq(ServerIssue) /\ Len(s \o tail) = Len(s) + Len(tail)
    BY <1>7, ConcatProperties
  <2>2. QED
    BY <1>7, <1>8, <2>1 DEF L
<1>10. DOMAIN z = 1..(L + c)
  BY <1>9, SeqIs
<1>11. ASSUME NEW j \in 1..(L + c)
       PROVE  z[j] = IF j <= L THEN s[j] ELSE tail[j - L]
  <2>1. \A j_1 \in 1..(Len(s) + Len(tail)) :
          (s \o tail)[j_1] = IF j_1 <= Len(s) THEN s[j_1] ELSE tail[j_1 - Len(s)]
    BY <1>7, ConcatProperties
  <2>2. QED
    BY <1>7, <1>8, <2>1 DEF L
<1>12. \A k \in 1..L : z[k] = s[k] /\ k \in 1..(L + c)
  <2> SUFFICES ASSUME NEW k \in 1..L PROVE z[k] = s[k] /\ k \in 1..(L + c)
    OBVIOUS
  <2>1. k \in 1..(L + c) /\ k <= L
    BY <1>1, <1>2
  <2>2. QED
    BY <1>11, <2>1
<1>13. ASSUME NEW i \in 1..c
       PROVE  L + i \in 1..(L + c) /\ L + i \notin 1..L /\ z[L + i] = tail[i]
  <2>1. i \in Nat /\ 1 <= i /\ i <= c
    BY <1>2
  <2>4. L + i \in 1..(L + c) /\ ~(L + i <= L) /\ (L + i) - L = i /\ L + i \notin 1..L
    BY <1>1, <1>2, <2>1
  <2>2. z[L + i] = tail[(L + i) - L]
    BY <1>11, <2>4
  <2>3. QED
    BY <2>4, <2>2
<1>14. L + c <= MaxKeys
  BY <1>5 DEF L
<1>15. ASSUME NEW r \in C
       PROVE  /\ key[r] \in DOMAIN z /\ key[r] \notin DOMAIN s
              /\ key[r] \in Key /\ z[key[r]] = made[r]
  <2>1. PICK i \in 1..c : key[r] = L + i /\ row[i] = r
    BY <1>6
  <2>2. L + i \in 1..(L + c) /\ L + i \notin 1..L /\ z[L + i] = made[r]
    BY <1>7, <1>13, <2>1
  <2>3. L + i \in Key
    BY <1>1, <1>2, <1>14, <2>2, Bounds DEF Key
  <2>4. QED
    BY <1>1, <1>10, <2>1, <2>2, <2>3
<1>16. ASSUME NEW k \in DOMAIN z, k \notin DOMAIN s
       PROVE  \E r \in C : key[r] = k
  <2>1. k \in 1..(L + c) /\ k \notin 1..L
    BY <1>1, <1>10, <1>16
  <2>2. k \in (L + 1)..(L + c)
    BY <1>1, <1>2, <2>1
  <2>3. QED
    BY <1>2, <2>2
<1>17. DOMAIN s \subseteq DOMAIN z /\ Len(z) <= MaxKeys /\ \A k \in DOMAIN s : z[k] = s[k]
  BY <1>1, <1>9, <1>10, <1>12, <1>14
<1>18. QED
  BY <1>9, <1>15, <1>16, <1>17 DEF Posted

LEMMA PostKeeps ==
  ASSUME SyncInv, NEW t \in Transactions, Post(t)
  PROVE  SyncInv'
<1> DEFINE x == tx[t]
           v == View(x)
<1>1. StateType
  BY DEF SyncInv
<1>2. /\ x.at = "exporting"
      /\ UNCHANGED <<issues, nextRow, sprints, jobs, opened, changes, excused, lost>>
  BY DEF Post
<1>3. x # Idle
  BY <1>2 DEF Idle
<1>4. x \in ExportTx /\ TxOK(x, issues, server, nextRow) /\ ExportOK(x, issues, server)
  <2>1. x \notin ImportTx
    BY <1>2, ImportIs
  <2>2. QED
    BY <1>3, <2>1, TheTx, AnyTxIs DEF AnyTx
<1>5. PICK C \in SUBSET x.batch :
       LET key   == Numbered(C, Len(server) + 1)
           row   == [i \in 1..Cardinality(C) |->
                       CHOOSE r \in C : key[r] = Len(server) + i]
           keyed == [r \in C |-> [v[r] EXCEPT !.key = key[r]]]
           at    == IF C = x.batch THEN "linking" ELSE "failed"
       IN
       /\ Len(server) + Len(row) <= MaxKeys
       /\ server' = server \o [i \in DOMAIN row |->
            [assignee |-> v[row[i]].assignee, parent |-> 0, sprint |-> 0,
             origin |-> row[i]]]
       /\ tx' = [tx EXCEPT ![t] =
            [x EXCEPT !.at = at,
                      !.posted = {key[r] : r \in C},
                      !.new = Over([r \in C \cap DOMAIN @ |-> keyed[r]], @),
                      !.writes = [r \in C \ DOMAIN x.new |-> keyed[r]]]]
  BY DEF Post
<1> DEFINE key   == Numbered(C, Len(server) + 1)
           row   == [i \in 1..Cardinality(C) |->
                       CHOOSE r \in C : key[r] = Len(server) + i]
           keyed == [r \in C |-> [v[r] EXCEPT !.key = key[r]]]
           at    == IF C = x.batch THEN "linking" ELSE "failed"
           made == [r \in C |->
                      [assignee |-> v[r].assignee, parent |-> 0, sprint |-> 0, origin |-> r]]
           new == Over([r \in C \cap DOMAIN x.new |-> keyed[r]], x.new)
           writes == [r \in C \ DOMAIN x.new |-> keyed[r]]
           posted == {key[r] : r \in C}
           y == [x EXCEPT !.at = at, !.posted = posted, !.new = new, !.writes = writes]
<1>6. /\ Len(server) + Len(row) <= MaxKeys
      /\ server' = server \o [i \in DOMAIN row |->
            [assignee |-> v[row[i]].assignee, parent |-> 0, sprint |-> 0, origin |-> row[i]]]
      /\ tx' = [tx EXCEPT ![t] = y]
  BY <1>5
<1>7. /\ \A r \in RowsOf(x, issues) : v[r] \in Issue /\ RowOK(v[r], RowsOf(x, issues), server)
      /\ RowsOf(x, issues) \subseteq 1..(nextRow - 1)
      /\ \A r \in DOMAIN x.new : v[r] = x.new[r]
      /\ \A r \in DOMAIN issues : v[r].src = issues[r].src
      /\ v \in Partial /\ DOMAIN v = RowsOf(x, issues)
  BY <1>3, ViewIs
<1>8. x.batch \subseteq RowsOf(x, issues) /\ x.batch \subseteq Row
  BY <1>4, ExportIs DEF ExportOK
<1>9. C \in SUBSET Row /\ C \subseteq RowsOf(x, issues) /\ C \subseteq x.batch
  BY <1>8
<1>10. made \in [C -> ServerIssue]
       /\ \A r \in C : made[r].origin = r /\ made[r].parent = 0
  <2>1. \A r \in C : v[r].assignee \in Assignee /\ r \in Row
    BY <1>7, <1>9 DEF Issue
  <2> HIDE DEF v
  <2>2. QED
    BY <2>1 DEF ServerIssue
<1> HIDE DEF x, v
<1>11. /\ server' \in Seq(ServerIssue) /\ Len(server') <= MaxKeys
       /\ DOMAIN server \subseteq DOMAIN server'
       /\ \A k \in DOMAIN server : server'[k] = server[k]
       /\ \A r \in C : /\ key[r] \in DOMAIN server' /\ key[r] \notin DOMAIN server
                       /\ key[r] \in Key
                       /\ server'[key[r]] = made[r]
       /\ \A k \in DOMAIN server' : k \notin DOMAIN server =>
            \E r \in C : key[r] = k
  <2>1. InOrder(server, C, key, row)
    <3>1. server \in Seq(ServerIssue)
      BY <1>1 DEF StateType
    <3> HIDE DEF key, row
    <3>2. key = Numbered(C, Len(server) + 1)
          /\ row = [i \in 1..Cardinality(C) |-> CHOOSE r \in C : key[r] = Len(server) + i]
      BY DEF key, row
    <3>3. QED
      BY <1>9, <3>1, <3>2, RowsPosted
  <2> HIDE DEF key, row
  <2>2. \A i \in DOMAIN row : row[i] \in C
    BY <2>1 DEF InOrder
  <2>3. server' = server \o [i \in DOMAIN row |-> made[row[i]]]
    <3>1. [i \in DOMAIN row |->
            [assignee |-> v[row[i]].assignee, parent |-> 0, sprint |-> 0, origin |-> row[i]]]
          = [i \in DOMAIN row |-> made[row[i]]]
      BY <2>2
    <3>2. QED
      BY <1>6, <3>1
  <2> HIDE DEF made
  <2>4. server \in Seq(ServerIssue)
    BY <1>1 DEF StateType
  <2>5. Posted(server, server', C, key, made)
    BY <1>6, <1>10, <2>1, <2>3, <2>4, PostIs
  <2>6. QED
    BY <2>5 DEF Posted
<1> HIDE DEF made
<1> HIDE DEF key, row
<1>12. /\ DOMAIN keyed = C
       /\ \A r \in C : /\ keyed[r] \in Issue /\ keyed[r].key = key[r]
                       /\ keyed[r].src = v[r].src
                       /\ RowOK(keyed[r], RowsOf(x, issues), server')
  <2> SUFFICES ASSUME NEW r \in C
               PROVE  /\ keyed[r] \in Issue /\ keyed[r].key = key[r]
                      /\ keyed[r].src = v[r].src
                      /\ RowOK(keyed[r], RowsOf(x, issues), server')
    OBVIOUS
  <2>1. keyed[r] = [v[r] EXCEPT !.key = key[r]]
    OBVIOUS
  <2>2. v[r] \in Issue /\ RowOK(v[r], RowsOf(x, issues), server)
    BY <1>7, <1>9
  <2> HIDE DEF keyed
  <2>3. /\ keyed[r] \in Issue /\ keyed[r].key = key[r] /\ keyed[r].src = v[r].src
        /\ keyed[r].epic = v[r].epic /\ keyed[r].last = v[r].last
        /\ keyed[r].wavered = v[r].wavered /\ keyed[r].sprint = v[r].sprint
        /\ keyed[r].sprintKey = v[r].sprintKey
    BY <1>11, <2>1, <2>2 DEF Issue
  <2>4. RowOK(keyed[r], RowsOf(x, issues), server')
    BY <1>11, <2>2, <2>3 DEF RowOK
  <2>5. QED
    BY <2>3, <2>4
<1> HIDE DEF keyed
<1> DEFINE p == [r \in C \cap DOMAIN x.new |-> keyed[r]]
<1>13. x.new \in Partial /\ DOMAIN x.new \subseteq Row
       /\ DOMAIN x.new \cap DOMAIN issues = {} /\ DOMAIN x.new \subseteq x.batch
  BY <1>4, ExportIs, PartialIs DEF TxOK, ExportOK
<1>14. /\ DOMAIN new = DOMAIN x.new
       /\ \A r \in C \cap DOMAIN x.new : new[r] = keyed[r]
       /\ \A r \in DOMAIN x.new : r \notin C => new[r] = x.new[r]
       /\ new \in Partial
  <2>1. DOMAIN p = C \cap DOMAIN x.new /\ \A r \in C \cap DOMAIN x.new : p[r] = keyed[r]
    OBVIOUS
  <2>2. p \in Partial
    <3>1. p \in [C \cap DOMAIN x.new -> Issue]
      BY <1>12
    <3>2. C \cap DOMAIN x.new \in SUBSET Row
      BY <1>9
    <3> HIDE DEF p
    <3>3. QED
      BY <3>1, <3>2 DEF Partial
  <2> HIDE DEF p
  <2>3. new = Over(p, x.new)
    BY DEF p
  <2>4. new \in Partial
    BY <1>13, <2>2, <2>3, OverPartial
  <2> HIDE DEF new
  <2>5. /\ DOMAIN Over(p, x.new) = DOMAIN p \cup DOMAIN x.new
        /\ \A r \in DOMAIN p : Over(p, x.new)[r] = p[r]
        /\ \A r \in DOMAIN x.new : r \notin DOMAIN p => Over(p, x.new)[r] = x.new[r]
    BY OverIs
  <2>6. QED
    BY <2>1, <2>3, <2>4, <2>5
<1>15. /\ DOMAIN writes = C \ DOMAIN x.new
       /\ \A r \in C \ DOMAIN x.new : writes[r] = keyed[r]
       /\ writes \in Partial
  <2>1. writes \in [C \ DOMAIN x.new -> Issue]
    BY <1>12
  <2>2. C \ DOMAIN x.new \in SUBSET Row
    BY <1>9
  <2>3. DOMAIN writes = C \ DOMAIN x.new
        /\ \A r \in C \ DOMAIN x.new : writes[r] = keyed[r]
    OBVIOUS
  <2> HIDE DEF writes
  <2>4. QED
    BY <2>1, <2>2, <2>3 DEF Partial
<1>16. posted \subseteq Key /\ \A k \in posted : \E r \in C : k = key[r]
  BY <1>11
<1>17. \A r \in C : key[r] \in posted
  OBVIOUS
<1>18. at \in {"ready", "exporting", "linking", "failed"} /\ at # "exporting"
  OBVIOUS
<1> HIDE DEF new, writes, posted, at
<1>19. y \in ExportTx /\ y.new = new /\ y.writes = writes /\ y.posted = posted
       /\ y.batch = x.batch /\ y.raced = x.raced /\ y.outdated = x.outdated /\ y.at = at
  BY <1>4, <1>14, <1>15, <1>16, <1>18 DEF ExportTx
<1> HIDE DEF y
<1>20. RowsOf(y, issues) = RowsOf(x, issues)
  BY <1>14, <1>19 DEF RowsOf
<1>21. x.posted = {}
  BY <1>2, <1>4 DEF ExportOK
<1>22. \A r \in C : server'[key[r]].origin = r /\ server'[key[r]].parent = 0
  BY <1>10, <1>11
<1>23. Continues(server, server')
  BY <1>11 DEF Continues
<1>24. ServerOK(server', nextRow)
  <2>1. ASSUME NEW k \in DOMAIN server'
        PROVE  /\ server'[k].parent \in {0} \cup DOMAIN server'
               /\ server'[k].origin # 0 => server'[k].origin < nextRow
    <3>1. CASE k \in DOMAIN server
      <4>1. /\ server[k].parent \in {0} \cup DOMAIN server
            /\ server[k].origin # 0 => server[k].origin < nextRow
        BY <3>1 DEF SyncInv, ServerOK
      <4>2. QED
        BY <1>11, <3>1, <4>1
    <3>2. CASE k \notin DOMAIN server
      <4>1. PICK r \in C : key[r] = k
        BY <1>11, <3>2
      <4>2. server'[k].origin = r /\ server'[k].parent = 0
        BY <1>22, <4>1
      <4>3. r < nextRow
        BY <1>1, <1>7, <1>9 DEF StateType
      <4>4. QED
        BY <4>2, <4>3
    <3>3. QED
      BY <3>1, <3>2
  <2>2. QED
    BY <2>1 DEF ServerOK
<1>25. TxOK(y, issues, server', nextRow)
  <2>1. ASSUME NEW r \in DOMAIN new
        PROVE  RowOK(new[r], RowsOf(x, issues), server')
    <3>1. CASE r \in C
      BY <1>12, <1>14, <3>1
    <3>2. CASE r \notin C
      <4>1. RowOK(x.new[r], RowsOf(x, issues), server)
        BY <1>4, <1>14 DEF TxOK
      <4>2. RowOK(x.new[r], RowsOf(x, issues), server')
        BY <1>11, <4>1, RowStays
      <4>3. QED
        BY <1>14, <3>2, <4>2
    <3>3. QED
      BY <3>1, <3>2
  <2>2. ASSUME NEW r \in DOMAIN writes
        PROVE  /\ RowOK(writes[r], RowsOf(x, issues), server')
               /\ writes[r].src = issues[r].src /\ r \in DOMAIN issues
    <3>1. r \in C /\ r \in DOMAIN issues
      BY <1>9, <1>15 DEF RowsOf
    <3>2. QED
      BY <1>7, <1>12, <1>15, <3>1
  <2>3. ASSUME NEW k \in DOMAIN server', server'[k].origin \in DOMAIN new
        PROVE  k \in posted
    <3>1. CASE k \in DOMAIN server
      <4>1. server[k].origin \in DOMAIN x.new
        BY <1>11, <1>14, <2>3, <3>1
      <4>2. QED
        BY <1>4, <1>21, <3>1, <4>1 DEF TxOK
    <3>2. CASE k \notin DOMAIN server
      BY <1>11, <1>17, <3>2
    <3>3. QED
      BY <3>1, <3>2
  <2>4. DOMAIN new \subseteq 1..(nextRow - 1) /\ DOMAIN new \cap DOMAIN issues = {}
    BY <1>4, <1>14 DEF TxOK
  <2>5. QED
    BY <1>19, <1>20, <2>1, <2>2, <2>3, <2>4 DEF TxOK
<1>26. ExportOK(y, issues, server')
  <2>1. \A r \in DOMAIN issues : issues[r].key \in {0} \cup DOMAIN server
    BY DEF SyncInv, TableOK, RowOK
  <2>2. ASSUME NEW k \in posted
        PROVE  /\ k \in DOMAIN server'
               /\ KeyOf(new, server'[k].origin, k) \/ KeyOf(writes, server'[k].origin, k)
               /\ \A r \in DOMAIN issues : issues[r].key # k
               /\ ~KeyOf(issues, server'[k].origin, k)
    <3>1. PICK r \in C : k = key[r]
      BY <1>16
    <3>2. k \in DOMAIN server' /\ k \notin DOMAIN server /\ k # 0
          /\ server'[k].origin = r
      BY <1>11, <1>22, <3>1, NamesApart
    <3>3. \A q \in DOMAIN issues : issues[q].key # k
      BY <2>1, <3>2
    <3>4. CASE r \in DOMAIN x.new
      BY <1>12, <1>14, <3>1, <3>2, <3>3, <3>4 DEF KeyOf
    <3>5. CASE r \notin DOMAIN x.new
      BY <1>12, <1>15, <3>1, <3>2, <3>3, <3>5 DEF KeyOf
    <3>6. QED
      BY <3>4, <3>5
  <2>3. ASSUME NEW r \in DOMAIN new, new[r].key # 0
        PROVE  new[r].key \in posted /\ server'[new[r].key].origin = r
    <3>1. CASE r \in C
      BY <1>12, <1>14, <1>17, <1>22, <3>1
    <3>2. CASE r \notin C
      <4>1. x.new[r].key # 0 /\ r \in DOMAIN x.new
        BY <1>14, <2>3, <3>2
      <4>2. x.new[r].key \in x.posted
        BY <1>4, <4>1 DEF ExportOK
      <4>3. QED
        BY <1>21, <4>2
    <3>3. QED
      BY <3>1, <3>2
  <2>4. ASSUME NEW r \in DOMAIN writes
        PROVE  writes[r].key \in posted /\ server'[writes[r].key].origin = r
    BY <1>12, <1>15, <1>17, <1>22
  <2>5. \A r \in DOMAIN new : new[r].src = x.new[r].src
    BY <1>7, <1>12, <1>14
  <2>6. ASSUME NEW r \in DOMAIN new, new[r].src # None, new[r].src \notin x.raced
        PROVE  /\ \A q \in DOMAIN new : new[q].src = new[r].src => q = r
               /\ \A q \in DOMAIN issues : issues[q].src # new[r].src
    <3>1. r \in DOMAIN x.new /\ x.new[r].src = new[r].src
      BY <1>14, <2>5
    <3>2. /\ \A q \in DOMAIN x.new : x.new[q].src = x.new[r].src => q = r
          /\ \A q \in DOMAIN issues : issues[q].src # x.new[r].src
      BY <1>4, <2>6, <3>1 DEF ExportOK
    <3>3. QED
      BY <1>14, <2>5, <3>1, <3>2
  <2>7. DOMAIN new \subseteq x.batch /\ DOMAIN writes \subseteq x.batch
    BY <1>9, <1>13, <1>14, <1>15
  <2>8. \A r \in x.batch \cap DOMAIN issues : issues[r].key # 0 => r \in x.outdated
    BY <1>4 DEF ExportOK
  <2>9. y.batch \subseteq RowsOf(y, issues) /\ posted \subseteq DOMAIN server'
    BY <1>8, <1>19, <1>20, <2>2
  <2>10. QED
    BY <1>18, <1>19, <2>2, <2>3, <2>4, <2>6, <2>7, <2>8, <2>9 DEF ExportOK
<1>27. Sound(y, issues, server', nextRow) /\ y \in AnyTx
  BY <1>19, <1>25, <1>26, ExportIs DEF Sound, AnyTx
<1>28. DOMAIN y.new = DOMAIN x.new /\ y.posted \subseteq DOMAIN server'
  BY <1>14, <1>19, <1>26 DEF ExportOK
<1>29. \A k \in DOMAIN server : k \in y.posted <=> k \in x.posted
  BY <1>11, <1>16, <1>19, <1>21
<1>30. \A k \in DOMAIN server' : k \notin DOMAIN server =>
         k \in y.posted /\ server'[k].origin \in RowsOf(x, issues)
  BY <1>9, <1>11, <1>17, <1>19, <1>22
<1>31. server' \in Seq(ServerIssue) /\ Len(server') <= MaxKeys /\ tx' = [tx EXCEPT ![t] = y]
  BY <1>6, <1>11
<1>32. QED
  BY <1>2, <1>3, <1>23, <1>24, <1>27, <1>28, <1>29, <1>30, <1>31, ServerTxStep DEF x

-----------------------------------------------------------------------------
(* A transaction that ends leaves what it posted to the issues it came     *)
(* from, or to nobody.                                                     *)
LEMMA PostedIs ==
  ASSUME SyncInv, NEW t \in Transactions, tx[t] # Idle
  PROVE  /\ tx[t].posted \subseteq DOMAIN server /\ tx[t].posted \subseteq Key
         /\ \A k \in tx[t].posted : ~KeyOf(issues, server[k].origin, k)
<1>1. CASE Importing(tx[t])
  <2>1. tx[t].posted = {}
    BY <1>1, TheTx
  <2>2. QED
    BY <2>1
<1>2. CASE ~Importing(tx[t])
  BY <1>2, TheTx, ExportIs DEF ExportOK
<1>3. QED
  BY <1>1, <1>2

LEMMA FlightEnds ==
  ASSUME SyncInv, NEW t \in Transactions, tx[t] # Idle, tx'[t] = Idle,
         \A u \in Transactions \ {t} : GoesOn(u)
  PROVE  /\ \A k : k \in InFlight' <=> k \in InFlight /\ k \notin tx[t].posted
         /\ tx[t].posted \subseteq InFlight
<1>1. \A u \in Transactions \ {t} : tx[u] # Idle => tx[t].posted \cap tx[u].posted = {}
  BY DEF SyncInv, Apart
<1>2. \A k : k \in InFlight' <=>
        \E u \in Transactions \ {t} : tx[u] # Idle /\ k \in tx[u].posted
  BY FlightAfter
<1>3. \A k : k \in InFlight <=>
           \/ k \in tx[t].posted
           \/ \E u \in Transactions \ {t} : tx[u] # Idle /\ k \in tx[u].posted
  BY FlightBefore
<1>4. QED
  BY <1>1, <1>2, <1>3

LEMMA RollbackKeeps ==
  ASSUME SyncInv, NEW t \in Transactions, Rollback(t)
  PROVE  SyncInv'
<1> DEFINE x == tx[t]
           T == Transactions \ {t}
           P(r) == {k \in x.posted : server[k].origin = r}
<1>1. StateType
  BY DEF SyncInv
<1>2. /\ x # Idle /\ tx' = [tx EXCEPT ![t] = Idle]
      /\ lost' = [r \in Row |-> lost[r] + Cardinality(P(r))]
      /\ UNCHANGED <<server, issues, nextRow, sprints, jobs, opened, changes, excused>>
  BY DEF Rollback
<1>3. tx'[t] = Idle /\ (\A u \in T : tx'[u] = tx[u]) /\ tx' = [u \in Transactions |-> tx'[u]]
  BY <1>1, <1>2 DEF StateType
<1>4. \A u \in T : GoesOn(u)
  <2>1. Continues(server, server')
    BY <1>2 DEF Continues
  <2>2. ASSUME NEW u \in T, tx[u] # Idle, NEW k \in DOMAIN server',
               server'[k].origin \in DOMAIN tx[u].new
        PROVE  k \in tx[u].posted
    BY <1>2, <2>2, TheTx DEF TxOK
  <2>3. nextRow' \in Nat /\ nextRow <= nextRow'
    BY <1>1, <1>2 DEF StateType
  <2> HIDE DEF T
  <2>4. T \in SUBSET Transactions
    BY DEF T
  <2>5. QED
    BY <1>2, <1>3, <2>1, <2>2, <2>3, <2>4, OthersUnheard
<1>5. tx' \in [Transactions -> {Idle} \cup ImportTx \cup ExportTx] /\ SyncTx' /\ Apart'
  BY <1>3, <1>4, TxAfter
<1>6. x.posted \subseteq DOMAIN server /\ x.posted \subseteq Key
      /\ \A k \in x.posted : ~KeyOf(issues, server[k].origin, k)
  BY <1>2, PostedIs
<1>7. /\ \A k : k \in InFlight' <=> k \in InFlight /\ k \notin x.posted
      /\ x.posted \subseteq InFlight
  BY <1>2, <1>3, <1>4, FlightEnds
<1> HIDE DEF x
<1>8. \A r : P(r) \in SUBSET Key
  BY <1>6
<1>9. ASSUME NEW r \in Row
      PROVE  lost'[r] \in Nat /\ lost'[r] = Cardinality(Astray(r, issues', server', InFlight'))
  <2> DEFINE A == Astray(r, issues, server, InFlight)
             B == Astray(r, issues', server', InFlight')
  <2>1. B = A \cup P(r)
    <3>1. \A k \in P(r) : k \in DOMAIN server /\ k # KeyAt(issues, r)
      BY <1>6, NamesApart DEF KeyAt, KeyOf
    <3>2. QED
      BY <1>2, <1>7, <3>1 DEF Astray
  <2>2. A \cap P(r) = {}
    BY <1>7 DEF Astray
  <2>3. A \in SUBSET Key
    BY <1>1, ServerNumbers DEF Astray
  <2>4. lost[r] = Cardinality(A) /\ lost'[r] = lost[r] + Cardinality(P(r))
    BY <1>2 DEF SyncInv, LostCounted
  <2>5. P(r) \in SUBSET Key
    BY <1>8
  <2> HIDE DEF A, B, P
  <2>6. /\ IsFiniteSet(A) /\ Cardinality(A) \in Nat
        /\ IsFiniteSet(P(r)) /\ Cardinality(P(r)) \in Nat
    BY <2>3, <2>5, KeysFinite
  <2>7. Cardinality(A \cup P(r)) = Cardinality(A) + Cardinality(P(r))
    <3>1. Cardinality(A \cup P(r)) =
            Cardinality(A) + Cardinality(P(r)) - Cardinality(A \cap P(r))
      BY <2>6, FS_Union
    <3>2. Cardinality(A \cap P(r)) = 0
      BY <2>2, FS_EmptySet
    <3>3. QED
      BY <2>6, <3>1, <3>2
  <2>8. QED
    BY <2>1, <2>4, <2>6, <2>7 DEF B
<1>10. lost' \in [Row -> Nat]
  <2>1. lost' = [r \in Row |-> lost'[r]]
    BY <1>2
  <2>2. QED
    BY <1>9, <2>1
<1>11. LostCounted'
  <2>1. \A r \in Row : lost'[r] = Cardinality(Astray(r, issues', server', InFlight'))
    BY <1>9
  <2>2. QED
    BY <2>1 DEF LostCounted
<1>12. StateType'
  BY <1>1, <1>2, <1>5, <1>10 DEF StateType
<1>13. TableOK(issues, server)' /\ ServerOK(server, nextRow)'
  BY <1>2 DEF SyncInv, TableOK, ServerOK
<1>14. CopiesCounted'
  BY <1>2, CopiesStay
<1>15. QED
  BY <1>5, <1>11, <1>12, <1>13, <1>14 DEF SyncInv

-----------------------------------------------------------------------------
(* A commit.  What it may write: the guard and what SyncInv says of the    *)
(* transaction.                                                            *)
Committing(t) ==
  /\ t \in Transactions /\ tx[t] # Idle
  /\ DOMAIN tx[t].writes \cap tx[t].outdated = {}

(* A row that is written kept its key, or got one that was posted for it.  *)
LEMMA WrittenKey ==
  ASSUME SyncInv, NEW t, Committing(t), NEW r \in DOMAIN tx[t].writes
  PROVE  /\ r \in DOMAIN issues /\ tx[t].writes[r].src = issues[r].src
         /\ Importing(tx[t]) => tx[t].writes[r].key = issues[r].key
         /\ ~Importing(tx[t]) => /\ issues[r].key = 0
                                 /\ tx[t].writes[r].key \in tx[t].posted
                                 /\ server[tx[t].writes[r].key].origin = r
<1>1. t \in Transactions /\ tx[t] # Idle /\ r \notin tx[t].outdated
  BY DEF Committing
<1>2. r \in DOMAIN issues /\ tx[t].writes[r].src = issues[r].src
  BY <1>1, TheTx DEF TxOK
<1>3. Importing(tx[t]) => tx[t].writes[r].key = issues[r].key
  BY <1>1, TheTx DEF ImportOK
<1>4. ASSUME ~Importing(tx[t])
      PROVE  /\ issues[r].key = 0
             /\ tx[t].writes[r].key \in tx[t].posted
             /\ server[tx[t].writes[r].key].origin = r
  <2>1. ExportOK(tx[t], issues, server)
    BY <1>1, <1>4, TheTx
  <2>2. QED
    BY <1>1, <1>2, <2>1 DEF ExportOK
<1>5. QED
  BY <1>2, <1>3, <1>4

LEMMA GainedAre ==
  ASSUME NEW x, NEW n
  PROVE  n \in Gained(x) <=>
           \/ \E r \in DOMAIN x.new : n \in Names(x.new[r])
           \/ \E r \in Rekeyed(x) : n = x.writes[r].key
BY DEF Gained

LEMMA GainedIs ==
  ASSUME SyncInv, NEW t, Committing(t)
  PROVE  DOMAIN tx[t].writes \subseteq Row /\ Gained(tx[t]) \subseteq Name
<1> DEFINE x == tx[t]
<1>1. t \in Transactions /\ x # Idle
  BY DEF Committing
<1>2. x.new \in Partial /\ x.writes \in Partial /\ x.posted \subseteq Key
  BY <1>1, TheTx, AnyTxIs
<1>3. \A r \in DOMAIN x.writes : issues[r].key # x.writes[r].key => x.writes[r].key \in Key
  BY <1>2, WrittenKey
<1> HIDE DEF x
<1>4. \A r \in DOMAIN x.new : Names(x.new[r]) \subseteq Name
  BY <1>2, PartialIs, NamesAre
<1>5. Gained(x) \subseteq Name
  BY <1>3, <1>4, GainedAre DEF Name, Rekeyed
<1>6. QED
  BY <1>2, <1>5, PartialIs DEF x

LEMMA CommitExtends ==
  ASSUME SyncInv, NEW t, Committing(t)
  PROVE  Extends(issues, View(tx[t]), DOMAIN tx[t].writes, Gained(tx[t]))
<1> DEFINE x == tx[t]
           v == View(x)
           W == DOMAIN x.writes
           N == Gained(x)
<1>1. t \in Transactions /\ x # Idle
  BY DEF Committing
<1>2. /\ DOMAIN v = RowsOf(x, issues)
      /\ \A r \in DOMAIN x.new : v[r] = x.new[r] /\ r \notin DOMAIN issues
      /\ \A r \in DOMAIN x.writes : v[r] = x.writes[r] /\ r \in DOMAIN issues
      /\ \A r \in DOMAIN issues : r \notin DOMAIN x.writes => v[r] = issues[r]
      /\ \A r \in DOMAIN issues : v[r].src = issues[r].src
  BY <1>1, ViewIs
<1>3. \A r \in W : issues[r].key = 0 \/ x.writes[r].key = issues[r].key
  BY WrittenKey
<1> HIDE DEF x, v
<1>4. \A r \in DOMAIN issues : issues[r].key # 0 \/ r \notin W => v[r].key = issues[r].key
  BY <1>2, <1>3
<1>5. ASSUME NEW r \in DOMAIN v, NEW n \in Names(v[r]), n \notin N
      PROVE  r \in DOMAIN issues /\ n \in Names(issues[r])
  <2>1. CASE r \in DOMAIN x.new
    BY <1>2, <1>5, <2>1, GainedAre
  <2>2. CASE r \in DOMAIN x.writes
    <3>1. v[r] = x.writes[r] /\ r \in DOMAIN issues
          /\ x.writes[r].src = issues[r].src
      BY <1>2, <2>2
    <3>2. n \in {x.writes[r].key, x.writes[r].src} /\ n # 0 /\ n # None
      BY <1>5, <3>1 DEF Names
    <3>3. CASE issues[r].key = x.writes[r].key
      BY <3>1, <3>2, <3>3 DEF Names
    <3>4. CASE issues[r].key # x.writes[r].key
      <4>1. x.writes[r].key \in N
        BY <2>2, <3>4, GainedAre DEF Rekeyed
      <4>2. n = issues[r].src
        BY <1>5, <3>1, <3>2, <4>1
      <4>3. QED
        BY <3>1, <3>2, <4>2 DEF Names
    <3>5. QED
      BY <3>3, <3>4
  <2>3. CASE r \in DOMAIN issues /\ r \notin DOMAIN x.writes
    BY <1>2, <1>5, <2>3
  <2>4. QED
    BY <1>2, <2>1, <2>2, <2>3 DEF RowsOf
<1>6. Extends(issues, v, W, N)
  <2>1. DOMAIN issues \subseteq DOMAIN v
    BY <1>2 DEF RowsOf
  <2>2. \A r \in DOMAIN v : \A n \in Names(v[r]) :
          n \in N \/ \E q \in DOMAIN issues : n \in Names(issues[q])
    BY <1>5
  <2> HIDE DEF W, N
  <2>3. QED
    BY <1>2, <1>4, <2>1, <2>2 DEF Extends
<1>7. QED
  BY <1>6 DEF x, v

LEMMA CommitTable ==
  ASSUME SyncInv, NEW t, Committing(t)
  PROVE  TableOK(View(tx[t]), server)
<1> DEFINE x == tx[t]
           v == View(x)
<1>1. t \in Transactions /\ x # Idle
  BY DEF Committing
<1>2. /\ DOMAIN v = RowsOf(x, issues)
      /\ \A r \in DOMAIN x.new : v[r] = x.new[r] /\ r \notin DOMAIN issues
      /\ \A r \in DOMAIN x.writes : v[r] = x.writes[r] /\ r \in DOMAIN issues
      /\ \A r \in DOMAIN issues : r \notin DOMAIN x.writes => v[r] = issues[r]
      /\ \A r \in RowsOf(x, issues) : RowOK(v[r], RowsOf(x, issues), server)
  BY <1>1, ViewIs
<1>3. \A r \in DOMAIN issues :
        issues[r].key # 0 /\ issues[r].src # None => server[issues[r].key].origin = r
  BY DEF SyncInv, TableOK
<1>4. ASSUME NEW r \in DOMAIN x.new, x.new[r].key # 0, x.new[r].src # None
      PROVE  server[x.new[r].key].origin = r
  <2>1. ~Importing(x)
    BY <1>1, <1>4, TheTx DEF ImportOK
  <2>2. QED
    BY <1>1, <1>4, <2>1, TheTx DEF ExportOK
<1>5. ASSUME NEW r \in DOMAIN x.writes, x.writes[r].key # 0, x.writes[r].src # None
      PROVE  server[x.writes[r].key].origin = r
  <2>1. CASE Importing(x)
    <3>1. x.writes[r].key = issues[r].key /\ x.writes[r].src = issues[r].src
          /\ r \in DOMAIN issues
      BY <2>1, WrittenKey
    <3>2. QED
      BY <1>3, <1>5, <3>1
  <2>2. CASE ~Importing(x)
    BY <2>2, WrittenKey
  <2>3. QED
    BY <2>1, <2>2
<1> HIDE DEF x, v
<1>6. ASSUME NEW r \in DOMAIN v, v[r].key # 0, v[r].src # None
      PROVE  server[v[r].key].origin = r
  <2>1. CASE r \in DOMAIN x.new
    BY <1>2, <1>4, <1>6, <2>1
  <2>2. CASE r \in DOMAIN x.writes
    BY <1>2, <1>5, <1>6, <2>2
  <2>3. CASE r \in DOMAIN issues /\ r \notin DOMAIN x.writes
    BY <1>2, <1>3, <1>6, <2>3
  <2>4. QED
    BY <1>2, <2>1, <2>2, <2>3 DEF RowsOf
<1>7. \A r \in DOMAIN v : RowOK(v[r], DOMAIN v, server)
  BY <1>2
<1>8. TableOK(v, server)
  BY <1>6, <1>7 DEF TableOK
<1>9. QED
  BY <1>8 DEF x, v

(* Names that have no cause: the commit adds a row for a name only where   *)
(* there was none, and then one.                                           *)
NewOf(x, n) == {r \in DOMAIN x.new : n \in Names(x.new[r])}

GivenTo(x, n) == {r \in Rekeyed(x) : x.writes[r].key = n}

LEMMA FirstCopy ==
  ASSUME SyncInv, NEW t, Committing(t), NEW n \in Name, n \notin Causes(tx[t])
  PROVE  \/ NewOf(tx[t], n) \cup GivenTo(tx[t], n) = {}
         \/ /\ Copies(issues, n) = {}
            /\ \E r : NewOf(tx[t], n) \cup GivenTo(tx[t], n) \subseteq {r}
<1> DEFINE x == tx[t]
           E == NewOf(x, n)
           G == GivenTo(x, n)
<1>1. t \in Transactions /\ x # Idle
  BY DEF Committing
<1>2. x.new \in Partial /\ x.writes \in Partial
  BY <1>1, TheTx, AnyTxIs
<1>3. (\A r \in DOMAIN x.new : x.new[r] \in Issue) /\ (\A r \in DOMAIN issues : issues[r] \in Issue)
      /\ \A r \in DOMAIN x.writes : x.writes[r] \in Issue
  BY <1>2, PartialIs DEF SyncInv, StateType
<1>4. CASE Importing(x)
  <2>1. ImportOK(x, issues, server)
    BY <1>1, <1>4, TheTx
  <2>2. G = {}
    BY <1>4, WrittenKey DEF GivenTo, Rekeyed
  <2>3. n \notin x.raced \cup x.hidden /\ n \notin x.split /\ (x.shifted => n \notin Key)
    BY <1>4 DEF Causes
  <2> HIDE DEF x
  <2>4. ASSUME NEW r \in E PROVE r \in DOMAIN x.new /\ x.new[r].key = n /\ n \in Key
    <3>1. r \in DOMAIN x.new /\ n \in Names(x.new[r])
      BY DEF NewOf
    <3>2. x.new[r].src = None /\ x.new[r] \in Issue
      BY <1>3, <2>1, <3>1 DEF ImportOK
    <3>3. n \in Key
      BY <3>1, <3>2, NamesAre, NamesApart DEF Name
    <3>4. QED
      BY <3>1, <3>2, <3>3, NamesAre
  <2>5. ASSUME NEW r \in E PROVE Copies(issues, n) = {} /\ E \subseteq {r}
    <3>1. r \in DOMAIN x.new /\ x.new[r].key = n /\ n \in Key
      BY <2>4
    <3>2. \A q \in DOMAIN issues : issues[q].key # n
      BY <2>1, <2>3, <3>1 DEF ImportOK
    <3>3. Copies(issues, n) = {}
      BY <1>3, <3>1, <3>2, NamesAre DEF Copies
    <3>4. \A q \in E : q = r
      BY <2>1, <2>3, <2>4, <3>1 DEF ImportOK
    <3>5. QED
      BY <3>3, <3>4
  <2>6. QED
    BY <2>2, <2>5 DEF x
<1>5. CASE ~Importing(x)
  <2>1. ExportOK(x, issues, server)
    BY <1>1, <1>5, TheTx
  <2>2. n \notin x.raced
    BY <1>5 DEF Causes
  <2>3. \A r \in DOMAIN x.writes :
          x.writes[r].key \in x.posted /\ server[x.writes[r].key].origin = r
    BY <1>5, WrittenKey
  <2> HIDE DEF x
  <2>4. CASE n \in Key
    <3>1. ASSUME NEW r \in E \cup G PROVE n \in x.posted /\ server[n].origin = r
      <4>1. CASE r \in E
        <5>1. r \in DOMAIN x.new /\ n \in Names(x.new[r]) /\ x.new[r] \in Issue
          BY <1>3, <4>1 DEF NewOf
        <5>2. x.new[r].key = n /\ n # 0
          BY <2>4, <5>1, NamesAre, NamesApart
        <5>3. QED
          BY <2>1, <5>1, <5>2 DEF ExportOK
      <4>2. CASE r \in G
        BY <2>3, <4>2 DEF GivenTo, Rekeyed
      <4>3. QED
        BY <4>1, <4>2
    <3>2. n \in x.posted => \A q \in DOMAIN issues : issues[q].key # n
      BY <2>1, <2>2 DEF ExportOK
    <3>3. n \in x.posted => Copies(issues, n) = {}
      BY <1>3, <2>4, <3>2, NamesAre DEF Copies
    <3>4. E \cup G \subseteq {server[n].origin}
      BY <3>1
    <3> HIDE DEF E, G
    <3>5. E \cup G = {} \/ (Copies(issues, n) = {} /\ \E r : E \cup G \subseteq {r})
      BY <3>1, <3>3, <3>4
    <3>6. QED
      BY <3>5 DEF x, E, G
  <2>5. CASE n \in Source
    <3>1. G = {}
      <4>1. \A r \in DOMAIN x.writes : x.writes[r].key # n
        BY <1>3, <2>5, NamesAre, NamesApart
      <4>2. QED
        BY <4>1 DEF GivenTo, Rekeyed
    <3>2. ASSUME NEW r \in E PROVE Copies(issues, n) = {} /\ E \subseteq {r}
      <4>1. \A q \in E : q \in DOMAIN x.new /\ x.new[q].src = n
        BY <1>3, <2>5, NamesAre DEF NewOf
      <4>2. r \in DOMAIN x.new /\ x.new[r].src = n /\ n # None
        BY <2>5, <4>1, NamesApart
      <4>3. /\ \A q \in DOMAIN x.new : x.new[q].src = n => q = r
            /\ \A q \in DOMAIN issues : issues[q].src # n
        BY <2>1, <2>2, <4>2 DEF ExportOK
      <4>4. Copies(issues, n) = {}
        BY <1>3, <2>5, <4>3, NamesAre DEF Copies
      <4>5. QED
        BY <4>1, <4>3, <4>4
    <3> HIDE DEF E, G
    <3>3. E \cup G = {} \/ (Copies(issues, n) = {} /\ \E r : E \cup G \subseteq {r})
      BY <3>1, <3>2
    <3>4. QED
      BY <3>3 DEF x, E, G
  <2>6. QED
    BY <2>4, <2>5 DEF Name
<1>6. QED
  BY <1>4, <1>5

LEMMA CopiesAfter ==
  ASSUME SyncInv, NEW t, Committing(t), NEW n \in Name
  PROVE  /\ Copies(View(tx[t]), n) \subseteq
              Copies(issues, n) \cup NewOf(tx[t], n) \cup GivenTo(tx[t], n)
         /\ Copies(View(tx[t]), n) \in SUBSET Row /\ Copies(issues, n) \in SUBSET Row
         /\ NewOf(tx[t], n) \in SUBSET Row /\ GivenTo(tx[t], n) \in SUBSET Row
<1> DEFINE x == tx[t]
           v == View(x)
<1>1. t \in Transactions /\ x # Idle
  BY DEF Committing
<1>2. /\ v \in Partial
      /\ DOMAIN v = RowsOf(x, issues)
      /\ \A r \in DOMAIN x.new : v[r] = x.new[r] /\ r \notin DOMAIN issues
      /\ \A r \in DOMAIN x.writes : v[r] = x.writes[r] /\ r \in DOMAIN issues
      /\ \A r \in DOMAIN issues : r \notin DOMAIN x.writes => v[r] = issues[r]
      /\ \A r \in DOMAIN issues : v[r].src = issues[r].src
  BY <1>1, ViewIs
<1>3. DOMAIN v \subseteq Row /\ DOMAIN issues \subseteq Row
      /\ DOMAIN x.new \subseteq Row /\ DOMAIN x.writes \subseteq Row
  BY <1>1, <1>2, TheTx, AnyTxIs, PartialIs DEF SyncInv, StateType
<1> HIDE DEF x, v
<1>4. ASSUME NEW r \in DOMAIN v, n \in Names(v[r])
      PROVE  r \in Copies(issues, n) \cup NewOf(x, n) \cup GivenTo(x, n)
  <2>1. CASE r \in DOMAIN x.new
    BY <1>2, <1>4, <2>1 DEF NewOf
  <2>2. CASE r \in DOMAIN x.writes
    <3>1. v[r] = x.writes[r] /\ r \in DOMAIN issues /\ x.writes[r].src = issues[r].src
      BY <1>2, <2>2
    <3>2. n \in {x.writes[r].key, issues[r].src} \ {0, None}
      BY <1>4, <3>1 DEF Names
    <3>3. QED
      BY <2>2, <3>1, <3>2 DEF Names, Copies, GivenTo, Rekeyed
  <2>3. CASE r \in DOMAIN issues /\ r \notin DOMAIN x.writes
    BY <1>2, <1>4, <2>3 DEF Copies
  <2>4. QED
    BY <1>2, <2>1, <2>2, <2>3 DEF RowsOf
<1>5. Copies(v, n) \subseteq Copies(issues, n) \cup NewOf(x, n) \cup GivenTo(x, n)
  BY <1>4 DEF Copies
<1>6. /\ Copies(v, n) \subseteq Row /\ Copies(issues, n) \subseteq Row
      /\ NewOf(x, n) \subseteq Row /\ GivenTo(x, n) \subseteq Row
  BY <1>3 DEF Copies, NewOf, GivenTo, Rekeyed
<1>7. QED
  BY <1>5, <1>6 DEF x, v

LEMMA UnionBound ==
  ASSUME NEW B \in SUBSET Row, NEW C \in SUBSET Row
  PROVE  Cardinality(B \cup C) <= Cardinality(B) + Cardinality(C)
<1>1. /\ IsFiniteSet(B) /\ Cardinality(B) \in Nat
      /\ IsFiniteSet(C) /\ Cardinality(C) \in Nat
  BY RowsFinite
<1>2. B \cap C \in SUBSET Row
  OBVIOUS
<1>3. Cardinality(B \cap C) \in Nat
  BY <1>2, RowsFinite
<1>4. Cardinality(B \cup C) = Cardinality(B) + Cardinality(C) - Cardinality(B \cap C)
  BY <1>1, FS_Union
<1>5. QED
  BY <1>1, <1>3, <1>4

LEMMA SubsetBound ==
  ASSUME NEW B \in SUBSET Row, NEW C \in SUBSET Row, B \subseteq C
  PROVE  Cardinality(B) <= Cardinality(C)
BY RowsFinite, FS_Subset

LEMMA CommitCopies ==
  ASSUME SyncInv, NEW t, Committing(t), NEW n \in Name
  PROVE  /\ Gains(tx[t], n) \in Nat
         /\ Cardinality(Copies(View(tx[t]), n)) <=
              1 + excused[n] + IF n \in Causes(tx[t]) THEN Gains(tx[t], n) ELSE 0
<1> DEFINE A == Copies(issues, n)
           B == Copies(View(tx[t]), n)
           E == NewOf(tx[t], n)
           G == GivenTo(tx[t], n)
           g == Gains(tx[t], n)
<1>1. /\ B \subseteq A \cup E \cup G
      /\ B \in SUBSET Row /\ A \in SUBSET Row /\ E \in SUBSET Row /\ G \in SUBSET Row
  BY CopiesAfter
<1>2. g = Cardinality(E) + Cardinality(G)
  BY DEF Gains, NewOf, GivenTo
<1>3. Cardinality(A) <= 1 + excused[n] /\ excused[n] \in Nat
  BY DEF SyncInv, CopiesCounted, StateType
<1>4. n \notin Causes(tx[t]) =>
        \/ E \cup G = {}
        \/ A = {} /\ \E r : E \cup G \subseteq {r}
  BY FirstCopy
<1> HIDE DEF A, B, E, G, g
<1>5. /\ Cardinality(A) \in Nat /\ Cardinality(B) \in Nat
      /\ Cardinality(E) \in Nat /\ Cardinality(G) \in Nat
  BY <1>1, RowsFinite
<1>6. Cardinality(B) <= Cardinality(A) + Cardinality(E) + Cardinality(G)
  <2>1. E \cup G \in SUBSET Row /\ A \cup (E \cup G) \in SUBSET Row
        /\ B \subseteq A \cup (E \cup G)
    BY <1>1
  <2>2. /\ Cardinality(E \cup G) <= Cardinality(E) + Cardinality(G)
        /\ Cardinality(A \cup (E \cup G)) <= Cardinality(A) + Cardinality(E \cup G)
        /\ Cardinality(B) <= Cardinality(A \cup (E \cup G))
    BY <1>1, <2>1, UnionBound, SubsetBound
  <2>3. Cardinality(E \cup G) \in Nat /\ Cardinality(A \cup (E \cup G)) \in Nat
    BY <2>1, RowsFinite
  <2>4. QED
    BY <1>5, <2>2, <2>3
<1>7. ASSUME n \notin Causes(tx[t])
      PROVE  Cardinality(B) <= 1 + excused[n]
  <2>1. CASE E \cup G = {}
    <3>1. B \subseteq A
      BY <1>1, <2>1
    <3>2. Cardinality(B) <= Cardinality(A)
      BY <1>1, <3>1, SubsetBound
    <3>3. QED
      BY <1>3, <1>5, <3>2
  <2>2. ASSUME A = {}, NEW r, E \cup G \subseteq {r}
        PROVE  Cardinality(B) <= 1 + excused[n]
    <3>1. B \subseteq {r}
      BY <1>1, <2>2
    <3>2. IsFiniteSet({r}) /\ Cardinality({r}) = 1
      BY FS_Singleton
    <3>3. Cardinality(B) <= 1
      BY <3>1, <3>2, FS_Subset
    <3>4. QED
      BY <1>3, <1>5, <3>3
  <2>3. QED
    BY <1>4, <1>7, <2>1, <2>2
<1>8. CASE n \in Causes(tx[t])
  BY <1>2, <1>3, <1>5, <1>6, <1>8 DEF B, g
<1>9. CASE n \notin Causes(tx[t])
  BY <1>2, <1>3, <1>5, <1>7, <1>9 DEF B, g
<1>10. QED
  BY <1>8, <1>9

(* What was posted is tied to the row it came from: by the commit itself,  *)
(* or as before.                                                           *)
LEMMA CommitAstray ==
  ASSUME SyncInv, NEW t, Committing(t), NEW r \in Row, NEW P,
         \A k : k \in P <=> k \in InFlight /\ k \notin tx[t].posted,
         tx[t].posted \subseteq InFlight
  PROVE  Astray(r, View(tx[t]), server, P) = Astray(r, issues, server, InFlight)
<1> DEFINE x == tx[t]
           v == View(x)
<1>1. t \in Transactions /\ x # Idle
  BY DEF Committing
<1>2. /\ DOMAIN v = RowsOf(x, issues)
      /\ \A q \in DOMAIN x.new : v[q] = x.new[q] /\ q \notin DOMAIN issues
      /\ \A q \in DOMAIN x.writes : v[q] = x.writes[q] /\ q \in DOMAIN issues
      /\ \A q \in DOMAIN issues : q \notin DOMAIN x.writes => v[q] = issues[q]
  BY <1>1, ViewIs
<1>3. ASSUME NEW k \in DOMAIN server, server[k].origin = r, k \in x.posted
      PROVE  k = KeyAt(v, r) /\ k \in InFlight
  <2>1. ~Importing(x)
    BY <1>1, <1>3, TheTx
  <2>2. KeyOf(x.new, r, k) \/ KeyOf(x.writes, r, k)
    BY <1>1, <1>3, <2>1, TheTx DEF ExportOK
  <2> HIDE DEF x, v
  <2>3. r \in DOMAIN v /\ v[r].key = k
    BY <1>2, <2>2 DEF KeyOf, RowsOf
  <2>4. QED
    BY <1>3, <2>3 DEF KeyAt, x
<1>4. ASSUME NEW k \in DOMAIN server, server[k].origin = r, k \notin x.posted
      PROVE  (k = KeyAt(v, r) <=> k = KeyAt(issues, r)) /\ (k \in P <=> k \in InFlight)
  <2>1. r \notin DOMAIN x.new
    BY <1>1, <1>4, TheTx DEF TxOK
  <2>2. k # 0
    BY ServerNumbers, NamesApart DEF SyncInv
  <2>3. CASE r \in DOMAIN x.writes
    <3>1. r \in DOMAIN v /\ r \in DOMAIN issues /\ v[r] = x.writes[r]
      BY <1>2, <2>3 DEF RowsOf
    <3>2. KeyAt(v, r) = x.writes[r].key /\ KeyAt(issues, r) = issues[r].key
      BY <3>1 DEF KeyAt
    <3>3. CASE Importing(x)
      <4>1. x.writes[r].key = issues[r].key
        BY <2>3, <3>3, WrittenKey
      <4>2. QED
        BY <1>4, <3>2, <4>1
    <3>4. CASE ~Importing(x)
      <4>1. issues[r].key = 0 /\ x.writes[r].key \in x.posted
        BY <2>3, <3>4, WrittenKey
      <4>2. QED
        BY <1>4, <2>2, <3>2, <4>1
    <3>5. QED
      BY <3>3, <3>4
  <2>4. CASE r \notin DOMAIN x.writes
    <3>1. r \in DOMAIN v <=> r \in DOMAIN issues
      BY <1>2, <2>1, <2>4 DEF RowsOf
    <3>2. r \in DOMAIN issues => v[r] = issues[r]
      BY <1>2, <2>4
    <3>3. KeyAt(v, r) = KeyAt(issues, r)
      BY <3>1, <3>2 DEF KeyAt
    <3>4. QED
      BY <1>4, <3>3
  <2>5. QED
    BY <2>3, <2>4
<1> HIDE DEF x, v
<1>5. ASSUME NEW k \in DOMAIN server, server[k].origin = r
      PROVE  k \in {KeyAt(v, r)} \cup P <=> k \in {KeyAt(issues, r)} \cup InFlight
  BY <1>3, <1>4, <1>5
<1>6. Astray(r, v, server, P) = Astray(r, issues, server, InFlight)
  BY <1>5 DEF Astray
<1>7. QED
  BY <1>6 DEF x, v

LEMMA CommitOthers ==
  ASSUME SyncInv, NEW t, Committing(t),
         issues' = View(tx[t]), UNCHANGED <<server, nextRow>>,
         tx' = Told([tx EXCEPT ![t] = Idle], DOMAIN tx[t].writes, Gained(tx[t]))
  PROVE  /\ tx'[t] = Idle /\ tx' = [u \in Transactions |-> tx'[u]]
         /\ \A u \in Transactions \ {t} : GoesOn(u)
<1> DEFINE x == tx[t]
           W == DOMAIN x.writes
           N == Gained(x)
           T == Transactions \ {t}
           f == [tx EXCEPT ![t] = Idle]
<1>1. t \in Transactions /\ x # Idle /\ StateType
  BY DEF Committing, SyncInv
<1>2. f \in [Transactions -> {Idle} \cup ImportTx \cup ExportTx]
      /\ f[t] = Idle /\ \A u \in T : f[u] = tx[u]
  BY <1>1 DEF StateType
<1>3. W \in SUBSET Row /\ N \in SUBSET Name
  BY GainedIs
<1>4. Extends(issues, issues', W, N)
  BY CommitExtends
<1>5. /\ issues' \in Partial /\ DOMAIN issues' = RowsOf(x, issues)
      /\ \A q \in DOMAIN x.new : issues'[q] = x.new[q] /\ q \notin DOMAIN issues
      /\ \A q \in DOMAIN x.writes : issues'[q] = x.writes[q] /\ q \in DOMAIN issues
      /\ \A q \in DOMAIN issues : q \notin DOMAIN x.writes => issues'[q] = issues[q]
  BY <1>1, ViewIs
<1>6. Continues(server, server') /\ nextRow' \in Nat /\ nextRow <= nextRow'
  BY <1>1 DEF Continues, StateType
<1>7. \A k \in DOMAIN server : server[k].origin \in DOMAIN x.new => k \in x.posted
  BY <1>1, TheTx DEF TxOK
<1>8. \A q \in W : \/ x.writes[q].key = issues[q].key /\ q \in DOMAIN issues
                   \/ x.writes[q].key \in x.posted
  BY WrittenKey
<1>9. \A u \in T : tx[u] # Idle => /\ DOMAIN x.new \cap DOMAIN tx[u].new = {}
                                   /\ x.posted \cap tx[u].posted = {}
  BY <1>1 DEF SyncInv, Apart
<1> HIDE DEF x, f
<1>10. tx' = [u \in Transactions |-> IF f[u] = Idle THEN Idle ELSE Heard(f[u], W, N)]
  BY DEF Told, Heard, x, f
<1>11. tx'[t] = Idle /\ tx' = [u \in Transactions |-> tx'[u]]
       /\ \A u \in T : tx'[u] = IF tx[u] = Idle THEN Idle ELSE Heard(tx[u], W, N)
  <2> HIDE DEF W, N
  <2>1. QED
    BY <1>1, <1>2, <1>10
<1> HIDE DEF W, N, T
<1>12. ASSUME NEW u \in T, tx[u] # Idle
       PROVE  /\ DOMAIN tx[u].new \cap DOMAIN issues' = {}
              /\ \A k \in DOMAIN server' :
                   server'[k].origin \in DOMAIN tx[u].new => k \in tx[u].posted
              /\ \A k \in tx[u].posted : ~KeyOf(issues', server[k].origin, k)
  <2>1. u \in Transactions
    BY DEF T
  <2>2. TxOK(tx[u], issues, server, nextRow)
    BY <1>12, <2>1, TheTx
  <2>3. DOMAIN tx[u].new \cap DOMAIN issues' = {}
    BY <1>5, <1>9, <1>12, <2>2 DEF RowsOf, TxOK
  <2>4. \A k \in DOMAIN server' :
          server'[k].origin \in DOMAIN tx[u].new => k \in tx[u].posted
    BY <2>2 DEF TxOK
  <2>5. /\ tx[u].posted \subseteq DOMAIN server /\ tx[u].posted \subseteq Key
        /\ \A k \in tx[u].posted : ~KeyOf(issues, server[k].origin, k)
    BY <1>12, <2>1, PostedIs
  <2>6. ASSUME NEW k \in tx[u].posted, KeyOf(issues', server[k].origin, k)
        PROVE  FALSE
    <3> DEFINE o == server[k].origin
    <3>1. o \in DOMAIN issues' /\ issues'[o].key = k
      BY <2>6 DEF KeyOf
    <3>2. k \notin x.posted /\ k \in DOMAIN server /\ ~KeyOf(issues, o, k)
      BY <1>9, <1>12, <2>5
    <3>3. o \notin DOMAIN x.new
      BY <1>7, <3>2
    <3>4. o \in DOMAIN issues /\ issues[o].key # k
      BY <1>5, <3>1, <3>2, <3>3 DEF RowsOf, KeyOf
    <3>5. o \in W
      BY <1>5, <3>1, <3>4 DEF W
    <3>6. issues'[o] = x.writes[o]
      BY <1>5, <3>5 DEF W
    <3>7. QED
      BY <1>8, <3>1, <3>2, <3>4, <3>5, <3>6
  <2>7. QED
    BY <2>3, <2>4, <2>6
<1>13. Untouched(T, W, N)
  BY <1>4, <1>5, <1>6, <1>11, <1>12 DEF Untouched
<1>14. \A u \in T : GoesOn(u)
  <2>1. T \in SUBSET Transactions
    BY DEF T
  <2>2. QED
    BY <1>3, <1>13, <2>1, OthersGoOn
<1>15. QED
  BY <1>11, <1>14 DEF T

LEMMA CommitKeeps ==
  ASSUME SyncInv, NEW t \in Transactions, Commit(t)
  PROVE  SyncInv'
<1> DEFINE x == tx[t]
<1>1. StateType
  BY DEF SyncInv
<1>2. /\ x.at \in {"ready", "paging"}
      /\ DOMAIN x.writes \cap x.outdated = {}
      /\ issues' = View(x)
      /\ excused' = [n \in Name |->
                      excused[n] + IF n \in Causes(x) THEN Gains(x, n) ELSE 0]
      /\ jobs' = IF Importing(x) /\ x.kind # "project" /\ x.met # {}
                 THEN jobs \cup {x.met} ELSE jobs
      /\ tx' = Told([tx EXCEPT ![t] = Idle], DOMAIN x.writes, Gained(x))
      /\ UNCHANGED <<server, nextRow, sprints, opened, changes, lost>>
  BY DEF Commit
<1>3. x # Idle
  BY <1>2 DEF Idle
<1>4. Committing(t)
  BY <1>2, <1>3 DEF Committing
<1>5. /\ tx'[t] = Idle /\ tx' = [u \in Transactions |-> tx'[u]]
      /\ \A u \in Transactions \ {t} : GoesOn(u)
  BY <1>2, <1>4, CommitOthers
<1>6. tx' \in [Transactions -> {Idle} \cup ImportTx \cup ExportTx] /\ SyncTx' /\ Apart'
  BY <1>5, TxAfter
<1>7. /\ issues' \in Partial /\ DOMAIN issues' = RowsOf(x, issues)
      /\ RowsOf(x, issues) \subseteq 1..(nextRow - 1)
  BY <1>2, <1>3, ViewIs
<1>8. /\ \A k : k \in InFlight' <=> k \in InFlight /\ k \notin x.posted
      /\ x.posted \subseteq InFlight
  BY <1>3, <1>5, FlightEnds
<1>9. TableOK(issues', server)
  BY <1>2, <1>4, CommitTable
<1>10. \A n \in Name :
         /\ Gains(x, n) \in Nat
         /\ Cardinality(Copies(issues', n)) <=
              1 + excused[n] + IF n \in Causes(x) THEN Gains(x, n) ELSE 0
  BY <1>2, <1>4, CommitCopies
<1>11. \A r \in Row : Astray(r, issues', server', InFlight') = Astray(r, issues, server, InFlight)
  BY <1>2, <1>4, <1>8, CommitAstray
<1>12. Importing(x) => x.met \subseteq RowsOf(x, issues)
  <2>1. Importing(x) => ImportOK(x, issues, server) /\ TxOK(x, issues, server, nextRow)
    BY <1>3, TheTx
  <2>2. QED
    BY <2>1 DEF ImportOK, TxOK, RowsOf
<1> HIDE DEF x
<1>13. \A J \in jobs' : J \subseteq DOMAIN issues'
  <2>1. \A J \in jobs : J \subseteq DOMAIN issues'
    BY <1>1, <1>7 DEF StateType, RowsOf
  <2>2. QED
    BY <1>2, <1>7, <1>12, <2>1
<1>14. excused' \in [Name -> Nat]
       /\ \A n \in Name : Cardinality(Copies(issues', n)) <= 1 + excused'[n]
  <2>1. \A n \in Name : excused[n] \in Nat
    BY <1>1 DEF StateType
  <2> DEFINE e(n) == excused[n] + IF n \in Causes(x) THEN Gains(x, n) ELSE 0
  <2>2. \A n \in Name : e(n) \in Nat /\ Cardinality(Copies(issues', n)) <= 1 + e(n)
    <3> SUFFICES ASSUME NEW n \in Name
                 PROVE  e(n) \in Nat /\ Cardinality(Copies(issues', n)) <= 1 + e(n)
      OBVIOUS
    <3>1. IsFiniteSet(Copies(issues', n)) /\ Cardinality(Copies(issues', n)) \in Nat
      <4>1. Copies(issues', n) \in SUBSET Row
        BY <1>7, PartialIs DEF Copies
      <4>2. QED
        BY <4>1, RowsFinite
    <3> DEFINE c == Cardinality(Copies(issues', n))
    <3>2. c <= 1 + excused[n] + IF n \in Causes(x) THEN Gains(x, n) ELSE 0
      BY <1>10
    <3> HIDE DEF c
    <3>3. e(n) \in Nat /\ c <= 1 + e(n)
      BY <1>10, <2>1, <3>2, <3>1 DEF c
    <3>4. QED
      BY <3>3 DEF c
  <2>3. excused' = [n \in Name |-> e(n)]
    BY <1>2
  <2> HIDE DEF e
  <2>4. QED
    BY <2>2, <2>3
<1>15. StateType'
  BY <1>1, <1>2, <1>6, <1>7, <1>13, <1>14 DEF StateType
<1>16. CopiesCounted'
  BY <1>14 DEF CopiesCounted, Copies
<1>17. LostCounted'
  BY <1>2, <1>11, LostStays
<1>18. TableOK(issues, server)' /\ ServerOK(server, nextRow)'
  <2>1. ServerOK(server, nextRow)
    BY DEF SyncInv
  <2>2. QED
    BY <1>2, <1>9, <2>1 DEF TableOK, ServerOK
<1>19. QED
  BY <1>6, <1>15, <1>16, <1>17, <1>18 DEF SyncInv

-----------------------------------------------------------------------------
(* Jobs and the button: issues that wait for a sprint are moved to it.     *)
LEMMA ResolvedIs ==
  ASSUME NEW row \in Issue, NEW D, NEW s, RowOK(row, D, s), row.sprintKey # 0
  PROVE  /\ Resolved(row) \in Issue /\ RowOK(Resolved(row), D, s)
         /\ Resolved(row).key = row.key /\ Resolved(row).src = row.src
<1> DEFINE z == Resolved(row)
<1>1. /\ z \in Issue /\ z.key = row.key /\ z.src = row.src /\ z.epic = row.epic
      /\ z.last = row.last /\ z.wavered = row.wavered
      /\ z.sprint = row.sprintKey /\ z.sprintKey = 0
  BY DEF Resolved, Issue
<1> HIDE DEF z
<1>2. RowOK(z, D, s)
  BY <1>1 DEF RowOK
<1>3. QED
  BY <1>1, <1>2 DEF z

LEMMA UpdateIssues ==
  ASSUME SyncInv, NEW S \in SUBSET Sprint, UpdateIssueForSprints(S),
         UNCHANGED <<server, nextRow, opened, excused, lost>>,
         sprints' \subseteq Sprint, changes' \in 0..MaxChanges, jobs' \subseteq jobs
  PROVE  SyncInv'
<1> DEFINE W == {r \in DOMAIN issues : issues[r].sprintKey \in S}
           f == [r \in W |-> Resolved(issues[r])]
<1>1. StateType /\ TableOK(issues, server)
  BY DEF SyncInv
<1>2. issues' = Over(f, issues) /\ tx' = Told(tx, W, {})
  BY DEF UpdateIssueForSprints
<1>3. /\ issues \in Partial /\ DOMAIN issues \subseteq Row
      /\ \A r \in DOMAIN issues : issues[r] \in Issue
  BY <1>1, ServerNumbers
<1>4. \A r \in W : r \in DOMAIN issues /\ issues[r].sprintKey # 0
  BY NamesApart
<1>5. \A r \in DOMAIN issues : RowOK(issues[r], DOMAIN issues, server)
  BY <1>1 DEF TableOK
<1>6. \A r \in W : /\ f[r] \in Issue /\ RowOK(f[r], DOMAIN issues, server)
                   /\ f[r].key = issues[r].key /\ f[r].src = issues[r].src
  <2> SUFFICES ASSUME NEW r \in W
               PROVE  /\ f[r] \in Issue /\ RowOK(f[r], DOMAIN issues, server)
                      /\ f[r].key = issues[r].key /\ f[r].src = issues[r].src
    OBVIOUS
  <2>1. f[r] = Resolved(issues[r]) /\ r \in DOMAIN issues
    OBVIOUS
  <2> HIDE DEF W, f
  <2>2. QED
    BY <1>3, <1>4, <1>5, <2>1, ResolvedIs
<1>7. DOMAIN f = W /\ f = [r \in W |-> f[r]]
  OBVIOUS
<1>8. W \subseteq DOMAIN issues
  OBVIOUS
<1> HIDE DEF W, f
<1>9. /\ DOMAIN Over(f, issues) = DOMAIN f \cup DOMAIN issues
      /\ \A r \in DOMAIN f : Over(f, issues)[r] = f[r]
      /\ \A r \in DOMAIN issues : r \notin DOMAIN f => Over(f, issues)[r] = issues[r]
  BY OverIs
<1>10. /\ DOMAIN issues' = DOMAIN issues
       /\ \A r \in W : issues'[r] = f[r]
       /\ \A r \in DOMAIN issues : r \notin W => issues'[r] = issues[r]
  BY <1>2, <1>7, <1>8, <1>9
<1>11. \A r \in DOMAIN issues :
         /\ issues'[r] \in Issue /\ RowOK(issues'[r], DOMAIN issues, server)
         /\ issues'[r].key = issues[r].key /\ issues'[r].src = issues[r].src
  BY <1>3, <1>5, <1>6, <1>10
<1>12. issues' \in Partial
  <2>1. f \in Partial
    BY <1>3, <1>6, <1>7, <1>8, PartialIs
  <2>2. QED
    BY <1>2, <1>3, <2>1, OverPartial
<1>13. \A r \in DOMAIN issues : Names(issues'[r]) = Names(issues[r])
  BY <1>11 DEF Names
<1>14. Extends(issues, issues', W, {})
  BY <1>10, <1>11, <1>13 DEF Extends
<1>15. W \in SUBSET Row
  BY <1>3, <1>8
<1>16. tx' = [u \in Transactions |-> IF tx[u] = Idle THEN Idle ELSE Heard(tx[u], W, {})]
  BY <1>2 DEF Told, Heard
<1>17. Untouched(Transactions, W, {})
  <2>1. Continues(server, server') /\ nextRow' \in Nat /\ nextRow <= nextRow'
    BY <1>1 DEF Continues, StateType
  <2>2. ASSUME NEW u \in Transactions, tx[u] # Idle
        PROVE  /\ DOMAIN tx[u].new \cap DOMAIN issues' = {}
               /\ \A k \in DOMAIN server' :
                    server'[k].origin \in DOMAIN tx[u].new => k \in tx[u].posted
               /\ \A k \in tx[u].posted : ~KeyOf(issues', server[k].origin, k)
    <3>1. TxOK(tx[u], issues, server, nextRow)
      BY <2>2, TheTx
    <3>2. \A k \in tx[u].posted : ~KeyOf(issues, server[k].origin, k)
      BY <2>2, PostedIs
    <3>3. \A k \in tx[u].posted : ~KeyOf(issues', server[k].origin, k)
      BY <1>10, <1>11, <3>2 DEF KeyOf
    <3>4. QED
      BY <1>10, <3>1, <3>3 DEF TxOK
  <2>3. \A u \in Transactions :
          tx'[u] = IF tx[u] = Idle THEN Idle ELSE Heard(tx[u], W, {})
    BY <1>16
  <2>4. QED
    BY <1>12, <1>14, <2>1, <2>2, <2>3 DEF Untouched
<1>18. \A u \in Transactions : GoesOn(u)
  <2>1. {} \in SUBSET Name /\ Transactions \in SUBSET Transactions
    OBVIOUS
  <2>2. QED
    BY <1>15, <1>17, <2>1, OthersGoOn
<1>19. SyncTx' /\ tx' \in [Transactions -> {Idle} \cup ImportTx \cup ExportTx]
  <2>1. SyncTx'
    BY <1>18 DEF SyncTx, GoesOn
  <2>2. \A u \in Transactions : tx'[u] \in {Idle} \cup ImportTx \cup ExportTx
    BY <1>18 DEF GoesOn, AnyTx
  <2>3. tx' = [u \in Transactions |-> tx'[u]]
    BY <1>16
  <2>4. QED
    BY <2>1, <2>2, <2>3
<1>20. Apart'
  <2> SUFFICES ASSUME NEW u \in Transactions, NEW v \in Transactions, u # v,
                      tx'[u] # Idle, tx'[v] # Idle
               PROVE  /\ DOMAIN tx'[u].new \cap DOMAIN tx'[v].new = {}
                      /\ tx'[u].posted \cap tx'[v].posted = {}
    BY DEF Apart
  <2>1. /\ tx[u] # Idle /\ tx[v] # Idle
        /\ tx'[u].new = tx[u].new /\ tx'[u].posted = tx[u].posted
        /\ tx'[v].new = tx[v].new /\ tx'[v].posted = tx[v].posted
    BY <1>18 DEF GoesOn
  <2>2. /\ DOMAIN tx[u].new \cap DOMAIN tx[v].new = {}
        /\ tx[u].posted \cap tx[v].posted = {}
    BY <2>1 DEF SyncInv, Apart
  <2>3. QED
    BY <2>1, <2>2
<1>21. StateType'
  BY <1>1, <1>10, <1>12, <1>19 DEF StateType
<1>22. TableOK(issues, server)' /\ ServerOK(server, nextRow)'
  BY <1>1, <1>10, <1>11 DEF SyncInv, TableOK, ServerOK
<1>23. CopiesCounted'
  <2>1. ASSUME NEW n \in Name PROVE Copies(issues', n) = Copies(issues, n)
    BY <1>10, <1>13 DEF Copies
  <2>2. \A n \in Name : Cardinality(Copies(issues', n)) <= 1 + excused'[n]
    BY <2>1 DEF SyncInv, CopiesCounted
  <2>3. QED
    BY <2>2 DEF CopiesCounted, Copies
<1>24. LostCounted'
  <2>1. \A k : k \in InFlight' <=> k \in InFlight
    <3>1. \A k : k \in InFlight' <=> \E u \in Transactions : tx'[u] # Idle /\ k \in tx'[u].posted
      BY FlightIs, FlightsAre
    <3>2. \A k : k \in InFlight <=> \E u \in Transactions : tx[u] # Idle /\ k \in tx[u].posted
      BY FlightIs, FlightsAre
    <3>3. \A u \in Transactions : \A k :
            (tx'[u] # Idle /\ k \in tx'[u].posted) <=> (tx[u] # Idle /\ k \in tx[u].posted)
      BY <1>18 DEF GoesOn
    <3>4. QED
      BY <3>1, <3>2, <3>3
  <2>2. ASSUME NEW r \in Row
        PROVE  Astray(r, issues', server', InFlight') = Astray(r, issues, server, InFlight)
    <3>1. KeyAt(issues', r) = KeyAt(issues, r)
      BY <1>10, <1>11 DEF KeyAt
    <3>2. QED
      BY <2>1, <3>1 DEF Astray
  <2>3. QED
    BY <2>2, LostStays
<1>25. QED
  BY <1>19, <1>20, <1>21, <1>22, <1>23, <1>24 DEF SyncInv

LEMMA KeysAreSprints ==
  ASSUME StateType, NEW J, J \subseteq DOMAIN issues
  PROVE  Keys(J) \subseteq Sprint
<1>1. \A r \in J : issues[r].sprintKey \in Sprint \cup {0}
  BY ServerNumbers DEF Issue
<1>2. QED
  BY <1>1 DEF Keys

LEMMA UpdateBoardKeeps ==
  ASSUME SyncInv, NEW J \in jobs, UpdateBoard(J)
  PROVE  SyncInv'
<1> DEFINE found == sprints \cup Boarded(J) \cup Gap(J)
<1>1. StateType
  BY DEF SyncInv
<1>2. /\ jobs' = jobs \ {J} /\ sprints' = found
      /\ UpdateIssueForSprints(Keys(J) \cap found)
      /\ UNCHANGED <<server, nextRow, opened, changes, excused, lost>>
  BY DEF UpdateBoard
<1>3. Keys(J) \subseteq Sprint
  BY <1>1, KeysAreSprints DEF StateType
<1>4. Boarded(J) \subseteq Sprint /\ Gap(J) \subseteq Sprint
  BY <1>3 DEF Boarded, Gap
<1>5. sprints' \subseteq Sprint /\ changes' \in 0..MaxChanges /\ jobs' \subseteq jobs
  BY <1>1, <1>2, <1>4 DEF StateType
<1> HIDE DEF found
<1>6. Keys(J) \cap found \in SUBSET Sprint
  BY <1>3
<1>7. QED
  BY <1>2, <1>5, <1>6, UpdateIssues

LEMMA UpdateSprintsKeeps ==
  ASSUME SyncInv, UpdateSprints
  PROVE  SyncInv'
<1>1. StateType
  BY DEF SyncInv
<1>2. /\ Changes /\ UpdateIssueForSprints(sprints)
      /\ UNCHANGED <<server, nextRow, sprints, jobs, opened, excused, lost>>
  BY DEF UpdateSprints
<1>3. changes' \in 0..MaxChanges
  BY <1>1, <1>2, Bounds DEF StateType, Changes
<1>4. sprints \in SUBSET Sprint /\ sprints' \subseteq Sprint /\ jobs' \subseteq jobs
  BY <1>1, <1>2 DEF StateType
<1>5. QED
  BY <1>2, <1>3, <1>4, UpdateIssues

-----------------------------------------------------------------------------
(* The invariant.                                                          *)
LEMMA InitKeeps == Init => SyncInv
<1> SUFFICES ASSUME Init PROVE SyncInv
  OBVIOUS
<1> DEFINE n == Len(InitIssues)
<1>1. /\ InitServer \in Seq(ServerIssue) /\ Len(InitServer) <= MaxKeys
      /\ InitIssues \in Seq(Issue) /\ n <= MaxRows /\ InitSprints \subseteq Sprint
  BY SyncAssumption, InitAssumption
<1>2. /\ server = InitServer /\ issues = InitIssues /\ nextRow = n + 1
      /\ sprints = InitSprints /\ jobs = {}
      /\ tx = [t \in Transactions |-> Idle] /\ opened = 0 /\ changes = 0
      /\ excused = [a \in Name |-> 0] /\ lost = [r \in Row |-> 0]
  BY DEF Init
<1>3. n \in Nat /\ DOMAIN InitIssues = 1..n /\ InitIssues \in [1..n -> Issue]
  BY <1>1
<1> HIDE DEF n
<1>4. issues \in Partial /\ DOMAIN issues = 1..n /\ 1..n \subseteq Row
  <2>1. 1..n \in SUBSET Row
    BY <1>1, <1>3, Bounds DEF Row
  <2>2. QED
    BY <1>2, <1>3, <2>1 DEF Partial
<1>5. StateType
  <2>1. nextRow \in Nat /\ 1 <= nextRow /\ nextRow <= MaxRows + 1 /\ nextRow - 1 = n
    BY <1>1, <1>2, <1>3, Bounds
  <2>2. opened \in 0..MaxOpened /\ changes \in 0..MaxChanges
    BY <1>2, Bounds
  <2>3. excused \in [Name -> Nat] /\ lost \in [Row -> Nat]
        /\ tx \in [Transactions -> {Idle} \cup ImportTx \cup ExportTx]
    BY <1>2
  <2>4. QED
    BY <1>1, <1>2, <1>4, <2>1, <2>2, <2>3 DEF StateType
<1>6. \A r \in DOMAIN issues : issues[r] \in Issue
  BY <1>5, ServerNumbers
<1>7. TableOK(issues, server)
  <2> SUFFICES ASSUME NEW r \in DOMAIN issues
               PROVE  /\ RowOK(issues[r], DOMAIN issues, server)
                      /\ issues[r].key # 0 /\ issues[r].src # None =>
                           server[issues[r].key].origin = r
    BY DEF TableOK
  <2>1. /\ issues[r].key \in {0} \cup DOMAIN server
        /\ issues[r].epic \in {0} \cup DOMAIN issues
        /\ issues[r].key # 0 /\ issues[r].src # None => server[issues[r].key].origin = r
        /\ issues[r].last # 0 /\ ~issues[r].wavered =>
             \/ issues[r].sprintKey = issues[r].last
             \/ issues[r].sprintKey = 0 /\ issues[r].sprint = issues[r].last
    BY <1>2, InitAssumption
  <2>2. QED
    BY <2>1 DEF RowOK
<1>8. ASSUME NEW k \in DOMAIN server
      PROVE  /\ server[k].parent \in {0} \cup DOMAIN server
             /\ server[k].origin # 0 => KeyOf(issues, server[k].origin, k)
  BY <1>2, InitAssumption DEF KeyOf
<1>9. ServerOK(server, nextRow)
  <2>1. ASSUME NEW k \in DOMAIN server, server[k].origin # 0
        PROVE  server[k].origin < nextRow
    <3>1. server[k].origin \in 1..n
      BY <1>4, <1>8, <2>1 DEF KeyOf
    <3>2. QED
      BY <1>2, <1>3, <3>1
  <2>2. QED
    BY <1>8, <2>1 DEF ServerOK
<1>10. \A t \in Transactions : tx[t] = Idle
  BY <1>2
<1>11. SyncTx /\ Apart
  BY <1>10 DEF SyncTx, Apart
<1>12. CopiesCounted
  <2> SUFFICES ASSUME NEW a \in Name PROVE Cardinality(Copies(issues, a)) <= 1 + excused[a]
    BY DEF CopiesCounted
  <2>1. excused[a] = 0
    BY <1>2
  <2>2. \A q, r \in DOMAIN issues : q # r => Names(issues[q]) \cap Names(issues[r]) = {}
    BY <1>2, InitAssumption
  <2>3. \A q, r \in Copies(issues, a) : q = r
    BY <2>2 DEF Copies
  <2>4. Cardinality(Copies(issues, a)) <= 1
    <3>1. CASE Copies(issues, a) = {}
      BY <3>1, FS_EmptySet
    <3>2. ASSUME NEW q \in Copies(issues, a)
          PROVE  Cardinality(Copies(issues, a)) <= 1
      <4>1. Copies(issues, a) = {q}
        BY <2>3
      <4>2. Cardinality({q}) = 1
        BY FS_Singleton
      <4>3. QED
        BY <4>1, <4>2
    <3>3. QED
      BY <3>1, <3>2
  <2>5. QED
    BY <2>1, <2>4
<1>13. LostCounted
  <2> SUFFICES ASSUME NEW r \in Row
               PROVE  lost[r] = Cardinality(Astray(r, issues, server, InFlight))
    BY DEF LostCounted
  <2>1. \A k \in DOMAIN server : server[k].origin = r => k = KeyAt(issues, r)
    BY <1>8, NamesApart DEF KeyOf, KeyAt
  <2>2. Astray(r, issues, server, InFlight) = {}
    BY <2>1 DEF Astray
  <2>3. lost[r] = 0
    BY <1>2
  <2>4. QED
    BY <2>2, <2>3, FS_EmptySet
<1>14. QED
  BY <1>5, <1>7, <1>9, <1>11, <1>12, <1>13 DEF SyncInv

LEMMA NextKeeps == SyncInv /\ [Next]_vars => SyncInv'
<1> SUFFICES ASSUME SyncInv, [Next]_vars PROVE SyncInv'
  OBVIOUS
<1>1. CASE UNCHANGED vars
  <2>1. /\ UNCHANGED <<issues, nextRow, jobs, tx, opened, excused, lost>>
        /\ sprints' = sprints /\ changes' = changes /\ server' = server
    BY <1>1 DEF vars
  <2>2. StateType /\ ServerOK(server, nextRow)
    BY DEF SyncInv
  <2>3. /\ sprints' \subseteq Sprint /\ changes' \in 0..MaxChanges
        /\ server' \in Seq(ServerIssue) /\ Len(server') <= MaxKeys
        /\ Continues(server, server') /\ ServerOK(server', nextRow)
        /\ \A k \in DOMAIN server' : k \notin DOMAIN server => server'[k].origin = 0
    BY <2>1, <2>2 DEF StateType, Continues
  <2>4. QED
    BY <2>1, <2>3, UserStep
<1>2. ASSUME NEW t \in Transactions,
             \/ Commit(t) \/ Rollback(t) \/ Page(t)
             \/ Post(t) \/ Link(t)
      PROVE  SyncInv'
  BY <1>2, CommitKeeps, RollbackKeeps, PageKeeps, PostKeeps, LinkKeeps
<1>3. ASSUME NEW t \in Transactions,
             NEW kind \in {"project", "all", "mine", "one"}, NEW asc \in BOOLEAN,
             NEW typed \in BOOLEAN, NEW target \in {0} \cup DOMAIN server,
             OpenImport(t, kind, asc, target, typed)
      PROVE  SyncInv'
  BY <1>3, OpenImportKeeps
<1>4. ASSUME NEW t \in Transactions, NEW S \in SUBSET Source, NEW autoExport \in BOOLEAN,
             OpenClone(t, S, autoExport)
      PROVE  SyncInv'
  BY <1>4, OpenCloneKeeps
<1>5. ASSUME NEW t \in Transactions, NEW R \in SUBSET DOMAIN issues, OpenExport(t, R)
      PROVE  SyncInv'
  BY <1>5, OpenExportKeeps
<1>6. ASSUME NEW J \in jobs, UpdateBoard(J)
      PROVE  SyncInv'
  BY <1>6, UpdateBoardKeeps
<1>7. CASE LoadSprints
  BY <1>7, LoadSprintsKeeps
<1>8. CASE UpdateSprints
  BY <1>8, UpdateSprintsKeeps
<1>9. CASE CreateOnServer
  BY <1>9, CreateOnServerKeeps
<1>10. CASE ChangeOnServer
  BY <1>10, ChangeOnServerKeeps
<1>11. QED
  BY <1>1, <1>2, <1>3, <1>4, <1>5, <1>6, <1>7, <1>8, <1>9, <1>10 DEF Next

(* Whatever transactions are under way, the table, the server and the      *)
(* histories agree.                                                        *)
THEOREM SyncInvariant == Spec => []SyncInv
<1>1. Init => SyncInv
  BY InitKeeps
<1>2. SyncInv /\ [Next]_vars => SyncInv'
  BY NextKeeps
<1>3. QED
  BY <1>1, <1>2, PTL DEF Spec

(* SprintExplained: imports in any order and number, the jobs after them   *)
(* and the buttons of boards leave an issue in the sprint its last import  *)
(* saw, or waiting for it, unless that import found another key waiting.   *)
THEOREM SprintAlwaysExplained == Spec => []SprintExplained
<1>1. SyncInv => SprintExplained
  <2> SUFFICES ASSUME SyncInv, NEW r \in DOMAIN issues,
                      issues[r].last # 0, ~issues[r].wavered
               PROVE  issues[r].last \in {issues[r].sprint, issues[r].sprintKey}
    BY DEF SprintExplained
  <2>1. RowOK(issues[r], DOMAIN issues, server)
    BY DEF SyncInv, TableOK
  <2>2. QED
    BY <2>1 DEF RowOK
<1>2. QED
  BY <1>1, SyncInvariant, PTL

(* ExportsAccounted: whatever requests and transactions fail in between,   *)
(* an issue that was posted for a row is the one the row is tied to, is in *)
(* the hands of a transaction, or was lost with one that was rolled back.  *)
THEOREM ExportsAlwaysAccounted == Spec => []ExportsAccounted
<1>1. SyncInv => ExportsAccounted
  <2> SUFFICES ASSUME SyncInv, NEW r \in Row
               PROVE  LET key == IF r \in DOMAIN issues THEN issues[r].key ELSE 0 IN
                      /\ key # 0 /\ issues[r].src # None => server[key].origin = r
                      /\ lost[r] = Cardinality({k \in DOMAIN server :
                           server[k].origin = r /\ k \notin {key} \cup InFlight})
    BY DEF ExportsAccounted
  <2> DEFINE key == IF r \in DOMAIN issues THEN issues[r].key ELSE 0
  <2>1. key # 0 /\ issues[r].src # None => server[key].origin = r
    BY DEF SyncInv, TableOK
  <2>2. Astray(r, issues, server, InFlight) =
          {k \in DOMAIN server : server[k].origin = r /\ k \notin {key} \cup InFlight}
    BY DEF Astray, KeyAt
  <2>3. lost[r] = Cardinality(Astray(r, issues, server, InFlight))
    BY DEF SyncInv, LostCounted
  <2>4. QED
    BY <2>1, <2>2, <2>3
<1>2. QED
  BY <1>1, SyncInvariant, PTL

(* CopiesExplained: more than one row for an issue of a server only where  *)
(* transactions overlapped, the import hid rows, its listing changed, or   *)
(* an epic came before its child on an earlier page.                       *)
THEOREM CopiesAlwaysExplained == Spec => []CopiesExplained
<1>1. SyncInv => CopiesExplained
  <2> SUFFICES ASSUME SyncInv PROVE CopiesExplained
    OBVIOUS
  <2>1. StateType /\ CopiesCounted
    BY DEF SyncInv
  <2>2. TypeOK
    BY <2>1, ServerNumbers DEF TypeOK, StateType
  <2>3. QED
    BY <2>1, <2>2 DEF CopiesExplained, CopiesCounted
<1>2. QED
  BY <1>1, SyncInvariant, PTL

-----------------------------------------------------------------------------
(* The commit of a quiet import.                                           *)
LEMMA QuietListed ==
  ASSUME SyncInv, NEW t \in Transactions, tx[t] # Idle, Quiet(tx[t]),
         NEW k \in Matches(tx[t], server)
  PROVE  LET x == tx[t] IN
         /\ x \in ImportTx /\ k \in Key /\ Causes(x) = {}
         /\ \E r \in DOMAIN x.new \cup DOMAIN x.writes :
              Held(x, r).key = k /\ Mirrors(x, issues, Held(x, r), server[k])
<1> DEFINE x == tx[t]
           M == Matches(x, server)
<1>1. /\ Importing(x) /\ x.raced = {} /\ x.hidden = {} /\ x.split = {}
      /\ x.start >= x.total /\ ~x.moved /\ x.base = server
  BY DEF Quiet
<1>2. x \in ImportTx /\ ImportOK(x, issues, server) /\ QuietOK(x, issues)
  BY <1>1, TheTx DEF Sound
<1>3. server \in Seq(ServerIssue) /\ Len(server) <= MaxKeys /\ DOMAIN server \subseteq Key
  BY ServerNumbers DEF SyncInv
<1>4. x.kind = "one" => x.target \in DOMAIN server
  BY <1>1, <1>2 DEF ImportOK
<1>5. PageSize <= x.total /\ x.start \in Nat /\ x.total \in Nat
  BY <1>2, ImportIs DEF ImportOK
<1>6. /\ ~x.shifted
      /\ \A j \in M : PlaceIn(x, server, j) < x.start => j \in x.listed
      /\ x.start = 0 \/ Cardinality(M) <= x.total
      /\ \A j \in x.listed :
           \E r \in DOMAIN x.new \cup DOMAIN x.writes :
             Held(x, r).key = j /\ Mirrors(x, issues, Held(x, r), server[j])
  BY <1>1, <1>2 DEF QuietOK
<1>7. /\ k \in M /\ M \subseteq DOMAIN server /\ Cardinality(M) \in Nat
      /\ PlaceIn(x, server, k) \in Nat /\ PlaceIn(x, server, k) < Cardinality(M)
  BY <1>2, <1>3, <1>4, MatchesAre
<1>8. k \in Key
  BY <1>3, <1>7
<1>9. Causes(x) = {}
  BY <1>1, <1>6 DEF Causes
<1>10. x.start # 0
  BY <1>1, <1>5, Bounds
<1> HIDE DEF x, M
<1>11. PlaceIn(x, server, k) < x.start
  <2>1. Cardinality(M) <= x.total /\ x.start >= x.total
    BY <1>1, <1>6, <1>10 DEF x
  <2>2. QED
    BY <1>5, <1>7, <2>1
<1>12. k \in x.listed
  BY <1>6, <1>7, <1>11
<1>13. QED
  BY <1>2, <1>6, <1>8, <1>9, <1>12 DEF x

LEMMA QuietCommit ==
  ASSUME SyncInv, NEW t \in Transactions, Commit(t), Quiet(tx[t]),
         NEW k \in Matches(tx[t], server)
  PROVE  /\ Cardinality(Copies(issues', k)) =
              IF Copies(issues, k) = {} THEN 1 ELSE Cardinality(Copies(issues, k))
         /\ \E r \in Copies(issues', k) :
              LET here == issues'[r] IN
              /\ server[k].assignee \in {"none", here.assignee}
              /\ server[k].parent # 0 =>
                   /\ here.epic # 0
                   /\ issues'[here.epic].key = server[k].parent
              /\ server[k].sprint \in {0, here.sprint, here.sprintKey}
<1> DEFINE x == tx[t]
           v == View(x)
           A == Copies(issues, k)
           B == Copies(issues', k)
           E == NewOf(x, k) \cup GivenTo(x, k)
           s == server[k]
<1>1. issues' = v /\ x # Idle /\ Committing(t)
  BY DEF Commit, Committing, Idle
<1>2. k \in Key /\ k # 0 /\ Causes(x) = {}
  BY <1>1, QuietListed, NamesApart
<1>3. PICK r \in DOMAIN x.new \cup DOMAIN x.writes :
        Held(x, r).key = k /\ Mirrors(x, issues, Held(x, r), s)
  BY <1>1, QuietListed
<1>4. /\ v \in Partial /\ DOMAIN v = RowsOf(x, issues)
      /\ \A q \in DOMAIN x.new : v[q] = x.new[q] /\ q \notin DOMAIN issues
      /\ \A q \in DOMAIN x.writes : v[q] = x.writes[q] /\ q \in DOMAIN issues
      /\ \A q \in RowsOf(x, issues) : v[q] \in Issue
      /\ \A q \in DOMAIN issues : issues[q] \in Issue
      /\ RowsOf(x, issues) \subseteq Row
  <2>1. v \in Partial /\ DOMAIN v = RowsOf(x, issues)
    BY <1>1, ViewIs
  <2>2. RowsOf(x, issues) \subseteq Row
    BY <2>1, PartialIs
  <2>3. QED
    BY <1>1, <2>1, <2>2, ViewIs, ServerNumbers DEF SyncInv
<1>5. Extends(issues, v, DOMAIN x.writes, Gained(x))
  BY <1>1, CommitExtends
<1>6. B \subseteq A \cup E
  BY <1>1, <1>2, CopiesAfter DEF Name
<1>7. E = {} \/ (A = {} /\ \E q : E \subseteq {q})
  BY <1>1, <1>2, FirstCopy DEF Name
<1> HIDE DEF x, v, s, E
<1>8. r \in DOMAIN v /\ v[r] = Held(x, r) /\ v[r] \in Issue /\ v[r].key = k
  BY <1>3, <1>4 DEF Held, RowsOf
<1>9. r \in B
  BY <1>1, <1>2, <1>8, NamesAre DEF Copies
<1>10. Cardinality(B) = IF A = {} THEN 1 ELSE Cardinality(A)
  <2>1. CASE A = {}
    <3>1. PICK q : E \subseteq {q}
      BY <1>6, <1>7, <1>9, <2>1
    <3>2. B = {q}
      BY <1>6, <1>9, <2>1, <3>1
    <3>3. Cardinality({q}) = 1
      BY FS_Singleton
    <3> HIDE DEF B, A
    <3>4. QED
      BY <2>1, <3>2, <3>3
  <2>2. CASE A # {}
    <3>1. B \subseteq A
      BY <1>6, <1>7, <2>2
    <3>2. ASSUME NEW q \in A PROVE q \in B
      <4>1. q \in DOMAIN issues /\ issues[q].key = k
        BY <1>2, <1>4, NamesAre DEF Copies
      <4>2. q \in DOMAIN v /\ v[q].key = k /\ v[q] \in Issue
        BY <1>2, <1>4, <1>5, <4>1 DEF Extends
      <4>3. QED
        BY <1>1, <1>2, <4>2, NamesAre DEF Copies
    <3>3. B = A
      BY <3>1, <3>2
    <3> HIDE DEF B, A
    <3>4. QED
      BY <2>2, <3>3
  <2>3. QED
    BY <2>1, <2>2
<1>11. ASSUME s.parent # 0
       PROVE  v[r].epic # 0 /\ v[v[r].epic].key = s.parent
  <2>1. \/ KeyOf(x.new, v[r].epic, s.parent)
        \/ KeyOf(issues, v[r].epic, s.parent)
    BY <1>3, <1>8, <1>11 DEF Mirrors
  <2>2. KeyOf(v, v[r].epic, s.parent)
    <3>1. CASE KeyOf(x.new, v[r].epic, s.parent)
      BY <1>4, <3>1 DEF KeyOf, RowsOf
    <3>2. CASE KeyOf(issues, v[r].epic, s.parent)
      BY <1>5, <1>11, <3>2, KeyStays
    <3>3. QED
      BY <2>1, <3>1, <3>2
  <2>3. v[r].epic \in Row
    BY <1>4, <2>2 DEF KeyOf
  <2>4. QED
    BY <2>2, <2>3, NamesApart DEF KeyOf
<1>12. s.assignee \in {"none", v[r].assignee} /\ s.sprint \in {0, v[r].sprint, v[r].sprintKey}
  BY <1>3, <1>8 DEF Mirrors
<1> HIDE DEF A, B
<1>13. QED
  BY <1>1, <1>9, <1>10, <1>11, <1>12 DEF A, B, s

(* QuietImportExact: an import during which nothing else happens, to the   *)
(* rows it can see or on the server, leaves what it asked for with one row *)
(* for each issue, and with what the server says of it.                    *)
THEOREM QuietImportsExact == Spec => QuietImportExact
<1>1. ASSUME SyncInv
      PROVE  \A t \in Transactions :
       Commit(t) /\ Quiet(tx[t]) =>
         \A k \in Matches(tx[t], server) :
           /\ Cardinality(Copies(issues', k)) =
                IF Copies(issues, k) = {} THEN 1
                ELSE Cardinality(Copies(issues, k))
           /\ \E r \in Copies(issues', k) :
                LET here == issues'[r] IN
                /\ server[k].assignee \in {"none", here.assignee}
                /\ server[k].parent # 0 =>
                     /\ here.epic # 0
                     /\ issues'[here.epic].key = server[k].parent
                /\ server[k].sprint \in {0, here.sprint, here.sprintKey}
  <2> SUFFICES ASSUME NEW t \in Transactions, Commit(t), Quiet(tx[t]),
                      NEW k \in Matches(tx[t], server)
               PROVE  /\ Cardinality(Copies(issues', k)) =
                           IF Copies(issues, k) = {} THEN 1
                           ELSE Cardinality(Copies(issues, k))
                      /\ \E r \in Copies(issues', k) :
                           LET here == issues'[r] IN
                           /\ server[k].assignee \in {"none", here.assignee}
                           /\ server[k].parent # 0 =>
                                /\ here.epic # 0
                                /\ issues'[here.epic].key = server[k].parent
                           /\ server[k].sprint \in {0, here.sprint, here.sprintKey}
    OBVIOUS
  <2>1. QED
    BY <1>1, QuietCommit
<1>2. QED
  BY <1>1, SyncInvariant, PTL DEF QuietImportExact
=============================================================================
