---------------------------- MODULE WorkLogs_proofs ----------------------------
(***************************************************************************)
(* Proofs about time logs and work logs, and the chain sessions that add   *)
(* to them: for any users, issues, trees, sources and scenes, what is      *)
(* wrong with a time log has a cause that the histories name.              *)
(*                                                                         *)
(* In this order: recursion, sums, rounding and formats; types; the steps  *)
(* of a request on the rows and that work can be ended; one log a cluster; *)
(* the sequence of clusters; the time of a line; the account of what is    *)
(* worked and billed; the bookings of a session.                           *)
(***************************************************************************)
EXTENDS ChainSession, FiniteSetTheorems, SequenceTheorems, TLAPS

(* Induction along a rank, for a set in place of a predicate.              *)
LEMMA RankInduction ==
  ASSUME NEW D, NEW rank \in [D -> Nat], NEW T,
         \A d \in D : (\A e \in D : rank[e] < rank[d] => e \in T) => d \in T
  PROVE  D \subseteq T
<1> DEFINE N == {rank[d] : d \in D \ T}
           R == OpToRel(<, Nat)
<1> SUFFICES ASSUME ~(D \subseteq T) PROVE FALSE
  OBVIOUS
<1>1. N # {} /\ N \subseteq Nat
  OBVIOUS
<1>2. IsWellFoundedOn(R, Nat)
  BY NatLessThanWellFounded
<1>3. \A x, y \in Nat : y < x => <<y, x>> \in R
  BY DEF OpToRel
<1> HIDE DEF R
<1>4. PICK n \in N : \A m \in N : ~(<<m, n>> \in R)
  <2> HIDE DEF N
  <2>1. QED
    BY <1>1, <1>2, WFMin, Zenon
<1>5. PICK d \in D \ T : rank[d] = n
  BY <1>4
<1>6. ASSUME NEW e \in D, rank[e] < rank[d] PROVE e \in T
  <2> SUFFICES ASSUME e \notin T PROVE FALSE
    OBVIOUS
  <2>1. rank[e] \in N /\ rank[e] \in Nat /\ n \in Nat
    OBVIOUS
  <2>2. <<rank[e], n>> \in R
    BY <1>3, <1>5, <1>6, <2>1
  <2>3. QED
    BY <1>4, <2>1, <2>2
<1>7. QED
  BY <1>5, <1>6

(* What F makes of a function at some place depends on that function at    *)
(* places of a lower rank only.                                            *)
Recursive(F, D, V, rank, N) ==
  /\ V # {} /\ N \in Nat /\ rank \in [D -> 0..N]
  /\ F \in [[D -> V] -> [D -> V]]
  /\ \A g, h \in [D -> V] : \A d \in D :
       (\A e \in D : rank[e] < rank[d] => g[e] = h[e]) => F[g][d] = F[h][d]

(* Such a recursive definition has a function that satisfies it.           *)
LEMMA RecursionExists ==
  ASSUME NEW F, NEW D, NEW V, NEW rank, NEW N, Recursive(F, D, V, rank, N)
  PROVE  \E g \in [D -> V] : g = F[g]
<1> USE DEF Recursive
<1> DEFINE Fits(g, n) == \A d \in D : rank[d] < n => g[d] = F[g][d]
           T == {n \in Nat : \E g \in [D -> V] : Fits(g, n)}
<1>1. 0 \in T
  <2> DEFINE v == CHOOSE v \in V : TRUE
  <2>1. [d \in D |-> v] \in [D -> V]
    OBVIOUS
  <2>2. Fits([d \in D |-> v], 0)
    OBVIOUS
  <2>3. QED
    BY <2>1, <2>2
<1>2. ASSUME NEW n \in T PROVE n + 1 \in T
  <2>1. PICK g \in [D -> V] : Fits(g, n)
    OBVIOUS
  <2>2. F[g] \in [D -> V]
    OBVIOUS
  <2>3. ASSUME NEW d \in D, rank[d] < n + 1 PROVE F[g][d] = F[F[g]][d]
    <3>1. \A e \in D : rank[e] < rank[d] => g[e] = F[g][e]
      BY <2>1, <2>3
    <3>2. QED
      BY <2>2, <3>1
  <2>4. Fits(F[g], n + 1)
    BY <2>3
  <2>5. QED
    BY <2>2, <2>4
<1>3. Nat \subseteq T
  <2> DEFINE id == [n \in Nat |-> n]
  <2>1. id \in [Nat -> Nat] /\ \A n \in Nat : id[n] = n
    OBVIOUS
  <2>2. ASSUME NEW n \in Nat, \A m \in Nat : m < n => m \in T PROVE n \in T
    <3>1. CASE n = 0
      BY <1>1, <3>1
    <3>2. CASE n # 0
      <4>1. n - 1 \in Nat /\ n - 1 < n /\ n = (n - 1) + 1
        BY <3>2
      <4>2. n - 1 \in T
        BY <2>2, <4>1
      <4> HIDE DEF T
      <4>3. QED
        BY <1>2, <4>1, <4>2
    <3>3. QED
      BY <3>1, <3>2
  <2> HIDE DEF T, id
  <2>3. QED
    BY <2>1, <2>2, RankInduction
<1>4. PICK g \in [D -> V] : Fits(g, N + 1)
  BY <1>3
<1>5. \A d \in D : g[d] = F[g][d]
  BY <1>4
<1>6. F[g] \in [D -> V]
  OBVIOUS
<1>7. QED
  BY <1>5, <1>6
-----------------------------------------------------------------------------
(* _get_suitable_log ends, with an issue, for every tree.                  *)
LEMMA TargetType == Target \in [Issue -> Issue]
<1> DEFINE Own(i) == Parent[i] = NoIssue \/ i \notin LogsToParent
           F == [g \in [Issue -> Issue] |->
                  [i \in Issue |-> IF Own(i) THEN i ELSE g[Parent[i]]]]
           Rec(g) == [i \in Issue |-> IF Own(i) THEN i ELSE g[Parent[i]]]
           N == Cardinality(Issue)
<1>1. N \in Nat
  BY TreeAssumption, FS_CardinalityType
<1>2. PICK depth \in [Issue -> 0..N] :
        \A i \in Issue : Parent[i] # NoIssue => depth[Parent[i]] < depth[i]
  BY TreeAssumption
<1>3. \A i \in Issue : ~Own(i) => Parent[i] \in Issue
  BY TreeAssumption
<1>4. F \in [[Issue -> Issue] -> [Issue -> Issue]]
  BY <1>3
<1>5. ASSUME NEW g \in [Issue -> Issue], NEW h \in [Issue -> Issue], NEW i \in Issue,
             \A e \in Issue : depth[e] < depth[i] => g[e] = h[e]
      PROVE  F[g][i] = F[h][i]
  <2>1. CASE Own(i)
    BY <2>1
  <2>2. CASE ~Own(i)
    <3>1. Parent[i] \in Issue /\ depth[Parent[i]] < depth[i]
      BY <1>2, <1>3, <2>2
    <3>2. g[Parent[i]] = h[Parent[i]]
      BY <1>5, <3>1
    <3>3. QED
      BY <2>2, <3>2
  <2>3. QED
    BY <2>1, <2>2
<1>6. CASE Issue = {}
  <2>1. Target = [i \in Issue |-> i]
    <3>1. \A g : Rec(g) = [i \in Issue |-> i]
      BY <1>6
    <3>2. Target = CHOOSE g : g = Rec(g)
      BY DEF Target
    <3> HIDE DEF Rec
    <3>3. Target = CHOOSE g : g = [i \in Issue |-> i]
      BY <3>1, <3>2
    <3>4. QED
      BY <3>3
  <2>2. QED
    BY <2>1
<1>7. CASE Issue # {}
  <2>1. PICK i \in Issue : TRUE
    BY <1>7
  <2>2. \E g \in [Issue -> Issue] : g = F[g]
    <3> HIDE DEF F, N
    <3>1. Recursive(F, Issue, Issue, depth, N)
      BY <1>1, <1>4, <1>5, <2>1 DEF Recursive
    <3>2. QED
      BY <3>1, RecursionExists
  <2>3. \E g : g = Rec(g)
    BY <2>2
  <2>4. Target = CHOOSE g : g = Rec(g)
    BY DEF Target
  <2>5. Target = Rec(Target)
    <3> HIDE DEF Rec
    <3>1. QED
      BY <2>3, <2>4
  <2> DEFINE T == {j \in Issue : Target[j] \in Issue}
  <2>6. ASSUME NEW j \in Issue, \A e \in Issue : depth[e] < depth[j] => e \in T
        PROVE  j \in T
    <3>1. CASE Own(j)
      BY <2>5, <3>1
    <3>2. CASE ~Own(j)
      <4>1. Parent[j] \in Issue /\ depth[Parent[j]] < depth[j]
        BY <1>2, <1>3, <3>2
      <4>2. Target[Parent[j]] \in Issue
        BY <2>6, <4>1
      <4>3. QED
        BY <2>5, <3>2, <4>2
    <3>3. QED
      BY <3>1, <3>2
  <2>7. Issue \subseteq T
    <3>1. depth \in [Issue -> Nat]
      BY <1>1, <1>2
    <3> HIDE DEF T
    <3>2. QED
      BY <2>6, <3>1, RankInduction
  <2>8. QED
    BY <2>5, <2>7
<1>8. QED
  BY <1>6, <1>7

LEMMA RoundUpType ==
  ASSUME NEW d \in Nat
  PROVE  RoundUp(d) \in Nat
<1>1. (d % Day) \in Nat
  BY DurationAssumption
<1>2. (d % Day) % Unit \in Nat /\ (d % Day) % Unit < Unit
  BY <1>1, DurationAssumption
<1>3. QED
  BY <1>2, DurationAssumption DEF RoundUp

LEMMA RoundedUpType ==
  ASSUME NEW d \in Nat
  PROVE  RoundedUp(d) \in Nat
<1>1. RoundUp(d) \in Nat
  BY RoundUpType
<1>2. QED
  BY <1>1, RoundUpType DEF RoundedUp

(* Rounding up: the next multiple of the unit.                             *)
LEMMA Division ==
  ASSUME NEW a \in Nat, NEW b \in Nat \ {0}
  PROVE  /\ a \div b \in Nat /\ a % b \in 0..(b - 1)
         /\ a = b * (a \div b) + (a % b)
<1>1. a \div b \in Nat /\ a % b \in Nat /\ a % b < b
  OBVIOUS
<1>2. a = b * (a \div b) + (a % b)
  OBVIOUS
<1>3. QED
  BY <1>1, <1>2

LEMMA Between ==
  ASSUME NEW b \in Nat \ {0}, NEW p \in Int, NEW q \in Int, NEW r \in 0..(b - 1),
         b * p = b * q + r
  PROVE  p = q /\ r = 0
<1>1. b * (p - q) = r
  OBVIOUS
<1>2. CASE p - q >= 1
  <2>1. b * (p - q) >= b * 1
    BY <1>2
  <2>2. QED
    BY <1>1, <2>1
<1>3. CASE p - q <= -1
  <2>1. b * (p - q) <= b * (-1)
    BY <1>3
  <2>2. QED
    BY <1>1, <2>1
<1>4. CASE p - q = 0
  BY <1>1, <1>4
<1>5. QED
  BY <1>2, <1>3, <1>4

LEMMA Multiple ==
  ASSUME NEW b \in Nat \ {0}, NEW p \in Nat
  PROVE  (b * p) % b = 0
<1>1. b * p \in Nat
  OBVIOUS
<1>2. /\ (b * p) \div b \in Nat /\ (b * p) % b \in 0..(b - 1)
      /\ b * p = b * ((b * p) \div b) + ((b * p) % b)
  BY <1>1, Division
<1> DEFINE q == (b * p) \div b
           r == (b * p) % b
<1> HIDE DEF q, r
<1>3. q \in Int /\ r \in 0..(b - 1) /\ b * p = b * q + r
  BY <1>2 DEF q, r
<1>4. r = 0
  BY <1>3, Between
<1>5. QED
  BY <1>4 DEF r

LEMMA RoundUpNear ==
  ASSUME NEW d \in Nat
  PROVE  RoundUp(d) \in d..(d + Unit - 1)
<1> DEFINE r == (d % Day) % Unit
<1>1. d % Day \in Nat /\ Unit \in Nat \ {0}
  BY Division, DurationAssumption
<1>2. r \in 0..(Unit - 1)
  BY <1>1, Division
<1>3. RoundUp(d) = IF r > 0 THEN d + Unit - r ELSE d
  BY DEF RoundUp
<1> HIDE DEF r
<1>4. QED
  BY <1>1, <1>2, <1>3

LEMMA DayParts ==
  ASSUME NEW d \in Nat
  PROVE  /\ {Day \div Unit, d \div Day, d % Day, (d % Day) \div Unit, (d % Day) % Unit} \subseteq Nat
         /\ Day = Unit * (Day \div Unit) + (Day % Unit)
         /\ d = Day * (d \div Day) + (d % Day)
         /\ d % Day = Unit * ((d % Day) \div Unit) + ((d % Day) % Unit)
<1>1. Day \div Unit \in Nat /\ Day = Unit * (Day \div Unit) + (Day % Unit)
  BY Division, DurationAssumption
<1>2. d \div Day \in Nat /\ d % Day \in Nat /\ d = Day * (d \div Day) + (d % Day)
  BY Division, DurationAssumption
<1> DEFINE f == d % Day
<1>3. f \in Nat /\ Unit \in Nat \ {0}
  BY <1>2, DurationAssumption
<1> HIDE DEF f
<1>4. f \div Unit \in Nat /\ f % Unit \in Nat /\ f = Unit * (f \div Unit) + (f % Unit)
  BY <1>3, Division
<1>5. QED
  BY <1>1, <1>2, <1>4 DEF f

(* When the unit divides a day, a time has the remainder of its last day.  *)
LEMMA RestOfDay ==
  ASSUME NEW d \in Nat, Day % Unit = 0, NEW r, r = (d % Day) % Unit
  PROVE  \E p \in Nat : d = Unit * p + r
<1> DEFINE a == Day \div Unit
           e == Day % Unit
           m == d \div Day
           f == d % Day
           q == f \div Unit
           g == f % Unit
<1>1. /\ {a, m, f, q, g} \subseteq Nat
      /\ Day = Unit * a + e /\ d = Day * m + f /\ f = Unit * q + g
  BY DayParts
<1>2. e = 0 /\ r = g
  OBVIOUS
<1>3. Unit \in Nat
  BY DurationAssumption
<1> HIDE DEF a, e, m, f, q, g
<1>4. Day = Unit * a
  BY <1>1, <1>2, <1>3
<1> DEFINE p == a * m + q
<1>5. p \in Nat
  BY <1>1
<1>6. d = Unit * p + r
  <2>1. Day * m = (Unit * a) * m
    BY <1>4
  <2>2. (Unit * a) * m = Unit * (a * m)
    BY <1>1, <1>3
  <2>3. Unit * p = Unit * (a * m) + Unit * q
    BY <1>1, <1>3
  <2>4. Day * m \in Int /\ Unit * q \in Int /\ Unit * (a * m) \in Int
    BY <1>1, <1>3, <1>4
  <2> HIDE DEF p
  <2>5. QED
    BY <1>1, <1>2, <2>1, <2>2, <2>3, <2>4
<1> HIDE DEF p
<1>7. QED
  BY <1>5, <1>6

LEMMA RoundUpWhole ==
  ASSUME NEW d \in Nat, Exact(d)
  PROVE  RoundUp(d) % Unit = 0
<1> DEFINE r == (d % Day) % Unit
<1>1. d % Day \in Nat /\ Unit \in Nat \ {0} /\ Day \in Nat \ {0}
  BY Division, DurationAssumption
<1>2. r \in 0..(Unit - 1)
  BY <1>1, Division
<1>3. \E p \in Nat : d = Unit * p + r
  <2>1. CASE Day % Unit = 0
    <3>1. \A s : s = (d % Day) % Unit => \E p \in Nat : d = Unit * p + s
      BY <2>1, RestOfDay
    <3> HIDE DEF r
    <3>2. QED
      BY <3>1 DEF r
  <2>2. CASE d + Unit <= Day
    <3>1. d < Day
      BY <1>1, <2>2
    <3>2. d % Day = d
      BY <1>1, <3>1
    <3>3. d \div Unit \in Nat /\ d = Unit * (d \div Unit) + (d % Unit)
      BY <1>1, Division
    <3>4. QED
      BY <3>2, <3>3
  <2>3. QED
    BY <2>1, <2>2 DEF Exact
<1>4. PICK p \in Nat : d = Unit * p + r
  BY <1>3
<1>5. RoundUp(d) = IF r > 0 THEN d + Unit - r ELSE d
  BY DEF RoundUp
<1> HIDE DEF r
<1>6. Unit * (p + 1) = Unit * p + Unit /\ Unit * p \in Nat /\ p + 1 \in Nat
  BY <1>1
<1>7. CASE r > 0
  <2>1. RoundUp(d) = Unit * (p + 1)
    BY <1>1, <1>2, <1>4, <1>5, <1>6, <1>7
  <2>2. QED
    BY <1>1, <1>6, <2>1, Multiple
<1>8. CASE ~(r > 0)
  <2>1. RoundUp(d) = Unit * p
    BY <1>1, <1>2, <1>4, <1>5, <1>6, <1>8
  <2>2. QED
    BY <1>1, <2>1, Multiple
<1>9. QED
  BY <1>7, <1>8

(* What is exact is left as it is when it is rounded again.                *)
LEMMA RoundUpOnce ==
  ASSUME NEW d \in Nat, Exact(d)
  PROVE  RoundUp(RoundUp(d)) = RoundUp(d)
<1> DEFINE v == RoundUp(d)
<1>1. v \in Nat /\ v \in d..(d + Unit - 1) /\ v % Unit = 0
  BY RoundUpType, RoundUpNear, RoundUpWhole
<1>2. Unit \in Nat \ {0} /\ Day \in Nat \ {0}
  BY DurationAssumption
<1> HIDE DEF v
<1>3. (v % Day) % Unit = 0
  <2>1. CASE Day % Unit = 0
    <3> DEFINE r == (v % Day) % Unit
               q == v \div Unit
    <3>1. PICK p \in Nat : v = Unit * p + r
      <4>1. r = (v % Day) % Unit
        OBVIOUS
      <4> HIDE DEF r
      <4>2. QED
        BY <1>1, <2>1, <4>1, RestOfDay, Zenon
    <3>2. q \in Nat /\ v = Unit * q + (v % Unit)
      BY <1>1, <1>2, Division
    <3>3. r \in 0..(Unit - 1)
      BY <1>1, <1>2, Division
    <3> HIDE DEF r, q
    <3>4. Unit * q = Unit * p + r
      BY <1>1, <1>2, <3>1, <3>2
    <3>5. r = 0
      BY <1>2, <3>2, <3>3, <3>4, Between
    <3>6. QED
      BY <3>5 DEF r
  <2>2. CASE d + Unit <= Day
    <3>1. v < Day
      BY <1>1, <1>2, <2>2
    <3>2. v % Day = v
      BY <1>1, <1>2, <3>1
    <3>3. QED
      BY <1>1, <3>2
  <2>3. QED
    BY <2>1, <2>2 DEF Exact
<1>4. RoundUp(v) = v
  BY <1>3 DEF RoundUp
<1>5. QED
  BY <1>4 DEF v

LEMMA RoundedUpIs ==
  ASSUME NEW d \in Nat
  PROVE  /\ RoundedUp(d) \in d..(d + Rounds * (Unit - 1))
         /\ Exact(d) => RoundedUp(d) < d + Unit /\ RoundedUp(d) % Unit = 0
<1> DEFINE v == RoundUp(d)
           w == RoundUp(v)
<1>1. v \in Nat /\ v \in d..(d + Unit - 1)
  BY RoundUpType, RoundUpNear
<1> HIDE DEF v
<1>2. w \in Nat /\ w \in v..(v + Unit - 1)
  BY <1>1, RoundUpType, RoundUpNear
<1> HIDE DEF w
<1>3. Unit \in Nat \ {0} /\ Rounds \in 1..2
  BY DurationAssumption
<1>4. RoundedUp(d) = IF Rounds = 1 THEN v ELSE w
  BY DEF RoundedUp, v, w
<1>5. RoundedUp(d) \in d..(d + Rounds * (Unit - 1))
  <2>1. CASE Rounds = 1
    <3>1. Rounds * (Unit - 1) = Unit - 1
      BY <1>3, <2>1
    <3>2. QED
      BY <1>1, <1>3, <1>4, <2>1, <3>1
  <2>2. CASE Rounds = 2
    <3>1. Rounds * (Unit - 1) = (Unit - 1) + (Unit - 1)
      BY <1>3, <2>2
    <3>2. QED
      BY <1>1, <1>2, <1>3, <1>4, <2>2, <3>1
  <2>3. QED
    BY <1>3, <2>1, <2>2
<1>6. ASSUME Exact(d) PROVE RoundedUp(d) < d + Unit /\ RoundedUp(d) % Unit = 0
  <2>1. v % Unit = 0 /\ w = v
    BY <1>6, RoundUpWhole, RoundUpOnce DEF v, w
  <2>2. RoundedUp(d) = v
    BY <1>4, <2>1
  <2>3. QED
    BY <1>1, <1>3, <2>1, <2>2
<1>7. QED
  BY <1>5, <1>6
-----------------------------------------------------------------------------
(* The sums of the code.                                                   *)
Adding(term, S, g) ==
  [s \in SUBSET S |->
    IF s = {} THEN 0
    ELSE g[s \ {CHOOSE x \in s : TRUE}] + term[CHOOSE x \in s : TRUE]]

SumOf(term, S) == (CHOOSE g : g = Adding(term, S, g))[S]

LEMMA SumExists ==
  ASSUME NEW S, IsFiniteSet(S), NEW V, V = Nat \/ V = Int,
         NEW term, \A x \in S : term[x] \in V
  PROVE  \E h : /\ h = Adding(term, S, h) /\ h[S] = SumOf(term, S)
                /\ \A s \in SUBSET S : h[s] \in V
<1> DEFINE D == SUBSET S
           N == Cardinality(S)
           rank == [s \in D |-> Cardinality(s)]
           F == [g \in [D -> V] |-> Adding(term, S, g)]
           x(s) == CHOOSE x \in s : TRUE
<1>1. ASSUME NEW s \in D, s # {}
      PROVE  /\ x(s) \in S /\ s \ {x(s)} \in D
             /\ Cardinality(s \ {x(s)}) < Cardinality(s)
  <2>1. x(s) \in s /\ IsFiniteSet(s)
    BY <1>1, FS_Subset
  <2> HIDE DEF x
  <2>2. Cardinality(s \ {x(s)}) = Cardinality(s) - 1 /\ Cardinality(s) \in Nat
    BY <2>1, FS_RemoveElement, FS_CardinalityType
  <2>3. QED
    BY <2>1, <2>2
<1>2. N \in Nat /\ rank \in [D -> 0..N]
  <2>1. N \in Nat
    BY FS_CardinalityType
  <2>2. ASSUME NEW s \in D PROVE Cardinality(s) \in 0..N
    BY FS_Subset, FS_CardinalityType
  <2>3. QED
    BY <2>1, <2>2
<1>3. ASSUME NEW g, NEW s \in D, s # {}
      PROVE  Adding(term, S, g)[s] = g[s \ {x(s)}] + term[x(s)]
  BY <1>3 DEF Adding
<1>4. ASSUME NEW g PROVE DOMAIN Adding(term, S, g) = D /\ Adding(term, S, g)[{}] = 0
  BY DEF Adding
<1>5. F \in [[D -> V] -> [D -> V]]
  <2> SUFFICES ASSUME NEW g \in [D -> V], NEW s \in D
               PROVE  Adding(term, S, g)[s] \in V
    BY DEF Adding
  <2>1. CASE s = {}
    BY <1>4, <2>1
  <2>2. CASE s # {}
    <3> HIDE DEF x, D
    <3>1. term[x(s)] \in V /\ g[s \ {x(s)}] \in V
      BY <1>1, <2>2
    <3>2. g[s \ {x(s)}] + term[x(s)] \in V
      BY <3>1
    <3>3. Adding(term, S, g)[s] = g[s \ {x(s)}] + term[x(s)]
      BY <1>3, <2>2
    <3>4. QED
      BY <3>2, <3>3
  <2>3. QED
    BY <2>1, <2>2
<1>6. ASSUME NEW g \in [D -> V], NEW h \in [D -> V], NEW s \in D,
             \A e \in D : rank[e] < rank[s] => g[e] = h[e]
      PROVE  F[g][s] = F[h][s]
  <2>1. CASE s = {}
    BY <1>4, <2>1
  <2>2. CASE s # {}
    <3>1. g[s \ {x(s)}] = h[s \ {x(s)}]
      <4>1. s \ {x(s)} \in D /\ rank[s \ {x(s)}] < rank[s]
        BY <1>1, <2>2
      <4> HIDE DEF x, D, rank
      <4>2. QED
        BY <1>6, <4>1
    <3>2. Adding(term, S, g)[s] = Adding(term, S, h)[s]
      <4>1. /\ Adding(term, S, g)[s] = g[s \ {x(s)}] + term[x(s)]
            /\ Adding(term, S, h)[s] = h[s \ {x(s)}] + term[x(s)]
        <5> HIDE DEF x, D
        <5>1. QED
          BY <1>3, <2>2
      <4>2. QED
        BY <3>1, <4>1
    <3>3. QED
      BY <3>2
  <2>3. QED
    BY <2>1, <2>2
<1>7. \E g \in [D -> V] : g = F[g]
  <2>1. 0 \in V
    OBVIOUS
  <2> HIDE DEF D, N, rank, F
  <2>2. Recursive(F, D, V, rank, N)
    BY <1>2, <1>5, <1>6, <2>1 DEF Recursive
  <2>3. QED
    BY <2>2, RecursionExists
<1>8. \E g : g = Adding(term, S, g)
  BY <1>7
<1> DEFINE h == CHOOSE g : g = Adding(term, S, g)
<1>9. h = Adding(term, S, h)
  BY <1>8, Zenon
<1> HIDE DEF h
<1> DEFINE T == {s \in D : h[s] \in V}
<1>10. ASSUME NEW s \in D, \A e \in D : rank[e] < rank[s] => e \in T
       PROVE  s \in T
  <2>1. CASE s = {}
    BY <1>4, <1>9, <2>1
  <2>2. CASE s # {}
    <3>1. s \ {x(s)} \in D /\ rank[s \ {x(s)}] < rank[s] /\ term[x(s)] \in V
      BY <1>1, <2>2
    <3>2. h[s] = h[s \ {x(s)}] + term[x(s)]
      BY <1>3, <1>9, <2>2
    <3> HIDE DEF x, D, rank
    <3>3. h[s \ {x(s)}] \in V
      BY <1>10, <3>1
    <3>4. h[s] \in V
      BY <3>1, <3>2, <3>3
    <3>5. QED
      BY <3>4
  <2>3. QED
    BY <2>1, <2>2
<1>11. D \subseteq T
  <2>1. rank \in [D -> Nat]
    <3> HIDE DEF rank, N, D
    <3>1. QED
      BY <1>2
  <2> HIDE DEF T, rank, D
  <2>2. QED
    BY <1>10, <2>1, RankInduction
<1>12. h[S] = SumOf(term, S)
  BY DEF h, SumOf
<1>13. QED
  BY <1>9, <1>11, <1>12

LEMMA SumType ==
  ASSUME NEW S, IsFiniteSet(S), NEW V, V = Nat \/ V = Int, NEW term \in [S -> V]
  PROVE  SumOf(term, S) \in V
<1>1. \A x \in S : term[x] \in V
  OBVIOUS
<1>2. QED
  BY <1>1, SumExists

LEMMA SumSame ==
  ASSUME NEW S, NEW term, NEW other, \A x \in S : term[x] = other[x]
  PROVE  SumOf(term, S) = SumOf(other, S)
<1>1. ASSUME NEW g PROVE Adding(term, S, g) = Adding(other, S, g)
  <2>1. \A s \in SUBSET S : s # {} => term[CHOOSE x \in s : TRUE] = other[CHOOSE x \in s : TRUE]
    OBVIOUS
  <2>2. QED
    BY <2>1 DEF Adding
<1>2. (CHOOSE g : g = Adding(term, S, g)) = (CHOOSE g : g = Adding(other, S, g))
  BY <1>1
<1>3. QED
  BY <1>2 DEF SumOf

LEMMA SumEmpty == \A term : SumOf(term, {}) = 0
<1> SUFFICES ASSUME NEW term PROVE SumOf(term, {}) = 0
  OBVIOUS
<1>1. ASSUME NEW g PROVE Adding(term, {}, g) = [s \in SUBSET {} |-> 0]
  BY DEF Adding
<1>2. (CHOOSE g : g = Adding(term, {}, g)) = [s \in SUBSET {} |-> 0]
  BY <1>1
<1>3. QED
  BY <1>2 DEF SumOf

(* Any element can be taken first.                                         *)
Sums(term, S, h) ==
  /\ IsFiniteSet(S) /\ \A x \in S : term[x] \in Int
  /\ h = Adding(term, S, h) /\ \A s \in SUBSET S : h[s] \in Int

LEMMA SumAnyFirst ==
  ASSUME NEW S, NEW term, NEW h, Sums(term, S, h), NEW u \in SUBSET S, NEW v \in u
  PROVE  h[u] = h[u \ {v}] + term[v]
<1> USE DEF Sums
<1> DEFINE D == SUBSET S
           rank == [s \in D |-> Cardinality(s)]
           x(s) == CHOOSE x \in s : TRUE
           T == {s \in D : \A y \in s : h[s] = h[s \ {y}] + term[y]}
<1>1. ASSUME NEW s \in D, s # {}
      PROVE  x(s) \in s /\ h[s] = h[s \ {x(s)}] + term[x(s)]
  <2>1. Adding(term, S, h)[s] = h[s \ {x(s)}] + term[x(s)]
    BY <1>1 DEF Adding
  <2>2. QED
    BY <1>1, <2>1
<1>2. ASSUME NEW s \in D, NEW y \in s
      PROVE  s \ {y} \in D /\ rank[s \ {y}] < rank[s]
  <2>1. IsFiniteSet(s)
    BY FS_Subset
  <2>2. Cardinality(s \ {y}) = Cardinality(s) - 1 /\ Cardinality(s) \in Nat
    BY <2>1, FS_RemoveElement, FS_CardinalityType
  <2>3. QED
    BY <2>2
<1>3. rank \in [D -> Nat]
  <2>1. ASSUME NEW s \in D PROVE Cardinality(s) \in Nat
    BY FS_Subset, FS_CardinalityType
  <2>2. QED
    BY <2>1
<1>4. ASSUME NEW s \in D, \A e \in D : rank[e] < rank[s] => e \in T
      PROVE  s \in T
  <2> SUFFICES ASSUME NEW y \in s PROVE h[s] = h[s \ {y}] + term[y]
    OBVIOUS
  <2> DEFINE c == x(s)
  <2>1. c \in s /\ h[s] = h[s \ {c}] + term[c] /\ c \in S /\ y \in S
    BY <1>1
  <2>2. CASE c = y
    BY <2>1, <2>2
  <2>3. CASE c # y
    <3> HIDE DEF c
    <3>1. /\ s \ {c} \in D /\ rank[s \ {c}] < rank[s]
          /\ s \ {y} \in D /\ rank[s \ {y}] < rank[s]
      BY <1>2, <2>1
    <3>2. s \ {c} \in T /\ s \ {y} \in T
      <4> HIDE DEF T, rank
      <4>1. QED
        BY <1>4, <3>1
    <3>3. /\ h[s \ {c}] = h[(s \ {c}) \ {y}] + term[y]
          /\ h[s \ {y}] = h[(s \ {y}) \ {c}] + term[c]
      BY <2>1, <2>3, <3>2
    <3>4. (s \ {c}) \ {y} = (s \ {y}) \ {c} /\ (s \ {c}) \ {y} \in D
      OBVIOUS
    <3>5. h[(s \ {c}) \ {y}] \in Int /\ term[c] \in Int /\ term[y] \in Int
      BY <2>1, <3>4
    <3>6. PICK rest \in Int : rest = h[(s \ {c}) \ {y}]
      BY <3>5
    <3>7. h[s \ {c}] = rest + term[y] /\ h[s \ {y}] = rest + term[c]
      BY <3>3, <3>4, <3>6
    <3>8. h[s] = (rest + term[y]) + term[c]
      BY <2>1, <3>7
    <3>9. QED
      BY <3>5, <3>7, <3>8
  <2>4. QED
    BY <2>2, <2>3
<1>5. D \subseteq T
  <2> HIDE DEF T, rank, D
  <2>1. QED
    BY <1>3, <1>4, RankInduction
<1>6. QED
  BY <1>5

(* Two sums of the same terms agree where both are defined.                *)
LEMMA SumWithin ==
  ASSUME NEW S, IsFiniteSet(S), NEW R \in SUBSET S, NEW term,
         NEW h, h = Adding(term, S, h), NEW k, k = Adding(term, R, k)
  PROVE  h[R] = k[R]
<1> DEFINE D == SUBSET R
           rank == [s \in D |-> Cardinality(s)]
           x(s) == CHOOSE x \in s : TRUE
           T == {s \in D : h[s] = k[s]}
<1>1. ASSUME NEW s \in D, s # {}
      PROVE  /\ h[s] = h[s \ {x(s)}] + term[x(s)]
             /\ k[s] = k[s \ {x(s)}] + term[x(s)]
  <2>1. Adding(term, S, h)[s] = h[s \ {x(s)}] + term[x(s)]
    BY <1>1 DEF Adding
  <2>2. Adding(term, R, k)[s] = k[s \ {x(s)}] + term[x(s)]
    BY <1>1 DEF Adding
  <2>3. QED
    BY <2>1, <2>2
<1>2. ASSUME NEW s \in D, s # {}
      PROVE  s \ {x(s)} \in D /\ rank[s \ {x(s)}] < rank[s]
  <2>1. IsFiniteSet(s) /\ x(s) \in s
    <3>1. s \in SUBSET S
      OBVIOUS
    <3>2. QED
      BY <1>2, <3>1, FS_Subset
  <2> HIDE DEF x
  <2>2. Cardinality(s \ {x(s)}) = Cardinality(s) - 1 /\ Cardinality(s) \in Nat
    BY <2>1, FS_RemoveElement, FS_CardinalityType
  <2>3. QED
    BY <2>1, <2>2
<1>3. rank \in [D -> Nat]
  <2>1. ASSUME NEW s \in D PROVE Cardinality(s) \in Nat
    BY FS_Subset, FS_CardinalityType
  <2>2. QED
    BY <2>1
<1>4. ASSUME NEW s \in D, \A e \in D : rank[e] < rank[s] => e \in T
      PROVE  s \in T
  <2>1. CASE s = {}
    <3>1. Adding(term, S, h)[{}] = 0 /\ Adding(term, R, k)[{}] = 0
      BY DEF Adding
    <3>2. QED
      BY <2>1, <3>1
  <2>2. CASE s # {}
    <3>1. s \ {x(s)} \in T
      <4>1. s \ {x(s)} \in D /\ rank[s \ {x(s)}] < rank[s]
        BY <1>2, <2>2
      <4> HIDE DEF T, rank, x, D
      <4>2. QED
        BY <1>4, <4>1
    <3>2. QED
      BY <1>1, <2>2, <3>1
  <2>3. QED
    BY <2>1, <2>2
<1>5. D \subseteq T
  <2> HIDE DEF T, rank, D
  <2>1. QED
    BY <1>3, <1>4, RankInduction
<1>6. QED
  BY <1>5

(* The sum of the code, one element taken out.                             *)
LEMMA SumAdd ==
  ASSUME NEW S, IsFiniteSet(S), NEW term, \A y \in S : term[y] \in Int, NEW x \in S
  PROVE  /\ SumOf(term, S) = SumOf(term, S \ {x}) + term[x]
         /\ SumOf(term, S \ {x}) \in Int
<1> DEFINE R == S \ {x}
<1>1. R \in SUBSET S /\ IsFiniteSet(R) /\ \A y \in R : term[y] \in Int
  BY FS_Subset
<1>2. PICK h : /\ h = Adding(term, S, h) /\ h[S] = SumOf(term, S)
               /\ \A s \in SUBSET S : h[s] \in Int
  BY SumExists
<1>3. PICK k : /\ k = Adding(term, R, k) /\ k[R] = SumOf(term, R)
               /\ \A s \in SUBSET R : k[s] \in Int
  <2> HIDE DEF R
  <2>1. QED
    BY <1>1, SumExists
<1>4. Sums(term, S, h)
  BY <1>2 DEF Sums
<1>5. h[S] = h[R] + term[x]
  BY <1>4, SumAnyFirst
<1>6. h[R] = k[R]
  <2> HIDE DEF R
  <2>1. QED
    BY <1>1, <1>2, <1>3, SumWithin
<1>7. QED
  BY <1>1, <1>2, <1>3, <1>5, <1>6

LEMMA TotalType ==
  ASSUME NEW W, NEW N, IsFiniteSet(N),
         \A n \in N : W[n].start \in Nat /\ W[n].end \in Nat
  PROVE  Total(W, N) \in Int
<1> DEFINE term == [n \in N |-> Stretch(W[n])]
           Code(g) == [s \in SUBSET N |->
                        IF s = {} THEN 0
                        ELSE g[s \ {CHOOSE x \in s : TRUE}] + Stretch(W[CHOOSE x \in s : TRUE])]
<1>1. Int = Int /\ term \in [N -> Int]
  BY DEF Stretch
<1>2. ASSUME NEW g PROVE Code(g) = Adding(term, N, g)
  BY DEF Adding
<1>3. Total(W, N) = (CHOOSE g : g = Code(g))[N]
  BY DEF Total, FoldSet, MapThenFoldSet
<1> HIDE DEF Code, term
<1>4. (CHOOSE g : g = Code(g)) = (CHOOSE g : g = Adding(term, N, g))
  BY <1>2
<1>5. SumOf(term, N) \in Int
  BY <1>1, SumType
<1>6. QED
  BY <1>3, <1>4, <1>5 DEF SumOf

(* Term by term no more.                                                   *)
LEMMA SumAtMost ==
  ASSUME NEW S, IsFiniteSet(S), NEW low, NEW high,
         \A x \in S : low[x] \in Int /\ high[x] \in Int /\ low[x] <= high[x]
  PROVE  SumOf(low, S) <= SumOf(high, S)
<1> DEFINE D == SUBSET S
           N == Cardinality(S)
           rank == [s \in D |-> Cardinality(s)]
           T == {s \in D : SumOf(low, s) <= SumOf(high, s)}
<1>1. ASSUME NEW s \in D, NEW x \in s
      PROVE  s \ {x} \in D /\ Cardinality(s \ {x}) < Cardinality(s)
  <2>1. IsFiniteSet(s)
    BY FS_Subset
  <2>2. Cardinality(s \ {x}) = Cardinality(s) - 1 /\ Cardinality(s) \in Nat
    BY <2>1, FS_RemoveElement, FS_CardinalityType
  <2>3. QED
    BY <2>2
<1>2. ASSUME NEW s \in D, \A e \in D : rank[e] < rank[s] => e \in T
      PROVE  s \in T
  <2>1. CASE s = {}
    <3>1. SumOf(low, {}) = 0 /\ SumOf(high, {}) = 0
      BY SumEmpty
    <3>2. QED
      BY <2>1, <3>1
  <2>2. CASE s # {}
    <3>1. PICK x \in s : TRUE
      BY <2>2
    <3>2. s \ {x} \in T
      <4>1. s \ {x} \in D /\ rank[s \ {x}] < rank[s]
        BY <1>1
      <4> HIDE DEF D, rank, T
      <4>2. QED
        BY <1>2, <4>1
    <3>3. IsFiniteSet(s) /\ \A y \in s : low[y] \in Int /\ high[y] \in Int /\ low[y] <= high[y]
      BY FS_Subset
    <3>4. /\ SumOf(low, s) = SumOf(low, s \ {x}) + low[x] /\ SumOf(low, s \ {x}) \in Int
          /\ SumOf(high, s) = SumOf(high, s \ {x}) + high[x] /\ SumOf(high, s \ {x}) \in Int
      BY <3>3, SumAdd
    <3>5. QED
      BY <3>2, <3>3, <3>4
  <2>3. QED
    BY <2>1, <2>2
<1>3. D \subseteq T
  <2>1. rank \in [D -> Nat]
    BY FS_Subset, FS_CardinalityType
  <2> HIDE DEF D, T, rank
  <2>2. QED
    BY <1>2, <2>1, RankInduction
<1>4. QED
  BY <1>3

LEMMA SumOne ==
  ASSUME NEW term, NEW x, term[x] \in Int
  PROVE  SumOf(term, {x}) = term[x]
<1>1. IsFiniteSet({x}) /\ \A y \in {x} : term[y] \in Int
  BY FS_Singleton
<1>2. /\ SumOf(term, {x}) = SumOf(term, {x} \ {x}) + term[x]
      /\ SumOf(term, {x} \ {x}) \in Int
  BY <1>1, SumAdd
<1>3. {x} \ {x} = {}
  OBVIOUS
<1>4. SumOf(term, {x} \ {x}) = 0
  BY <1>3, SumEmpty, Zenon
<1>5. QED
  BY <1>2, <1>4

(* What is left for the units after the i-th.                              *)
Rests(time, rest) ==
  LET n == Len(LogUnits)
  IN  /\ rest \in [0..n -> Nat] /\ rest[0] = time
      /\ \A i \in 1..n : rest[i] = rest[i - 1] % LogUnits[i]
      /\ LogFormat(time) = [i \in 1..n |-> rest[i - 1] \div LogUnits[i]]

LEMMA LogFormatIs ==
  ASSUME NEW time \in Nat
  PROVE  \E rest : Rests(time, rest)
<1> DEFINE n == Len(LogUnits)
           D == 0..n
           rank == [i \in D |-> i]
           Rec(g) == [i \in D |-> IF i = 0 THEN time ELSE g[i - 1] % LogUnits[i]]
           F == [g \in [D -> Nat] |-> Rec(g)]
           rest == CHOOSE g : g = Rec(g)
<1>1. n \in Nat /\ DOMAIN LogUnits = 1..n /\ \A i \in 1..n : LogUnits[i] \in Nat \ {0}
  <2>1. LogUnits \in Seq(Nat \ {0})
    BY ChainAssumption
  <2>2. QED
    BY <2>1, LenProperties, ElementOfSeq
<1>2. ASSUME NEW i \in D, i # 0 PROVE i - 1 \in D /\ i \in 1..n /\ i - 1 < i
  BY <1>1, <1>2
<1>3. ASSUME NEW a \in Nat, NEW i \in 1..n PROVE a % LogUnits[i] \in Nat
  <2>1. LogUnits[i] \in Nat \ {0}
    BY <1>1
  <2>2. \A b \in Nat \ {0} : a % b \in Nat
    OBVIOUS
  <2>3. QED
    BY <2>1, <2>2
<1> HIDE DEF n
<1>4. F \in [[D -> Nat] -> [D -> Nat]]
  <2> SUFFICES ASSUME NEW g \in [D -> Nat], NEW i \in D
               PROVE  Rec(g)[i] \in Nat
    OBVIOUS
  <2>1. CASE i # 0
    <3>1. g[i - 1] \in Nat
      BY <1>2, <2>1
    <3>2. g[i - 1] % LogUnits[i] \in Nat
      BY <1>2, <1>3, <2>1, <3>1
    <3>3. QED
      BY <2>1, <3>2
  <2>2. QED
    BY <2>1
<1>5. Recursive(F, D, Nat, rank, n)
  <2>1. ASSUME NEW g \in [D -> Nat], NEW h \in [D -> Nat], NEW i \in D,
               \A e \in D : rank[e] < rank[i] => g[e] = h[e]
        PROVE  F[g][i] = F[h][i]
    <3>1. i # 0 => g[i - 1] = h[i - 1]
      BY <1>2, <2>1
    <3>2. QED
      BY <3>1
  <2>2. rank \in [D -> 0..n]
    BY <1>1
  <2> HIDE DEF F, D, rank
  <2>3. QED
    BY <1>1, <1>4, <2>1, <2>2 DEF Recursive
<1>6. \E g \in [D -> Nat] : g = F[g]
  <2> HIDE DEF F, D, rank
  <2>1. QED
    BY <1>5, RecursionExists
<1>7. \E g : g = Rec(g)
  BY <1>6
<1>8. rest = Rec(rest)
  <2> HIDE DEF Rec
  <2>1. QED
    BY <1>7
<1>9. LogFormat(time) = [i \in 1..n |-> rest[i - 1] \div LogUnits[i]]
  BY <1>1 DEF LogFormat, n
<1> HIDE DEF rest
<1> DEFINE T == {i \in D : rest[i] \in Nat}
<1>10. ASSUME NEW i \in D, \A e \in D : rank[e] < rank[i] => e \in T
       PROVE  i \in T
  <2>1. CASE i = 0
    BY <1>8, <2>1
  <2>2. CASE i # 0
    <3>1. rest[i - 1] \in Nat
      BY <1>2, <1>10, <2>2
    <3>2. rest[i - 1] % LogUnits[i] \in Nat
      BY <1>2, <1>3, <2>2, <3>1
    <3>3. rest[i] = rest[i - 1] % LogUnits[i]
      BY <1>8, <2>2
    <3>4. QED
      BY <3>2, <3>3
  <2>3. QED
    BY <2>1, <2>2
<1>11. D \subseteq T
  <2>1. rank \in [D -> Nat]
    BY <1>1
  <2> HIDE DEF T, rank, D
  <2>2. QED
    BY <1>10, <2>1, RankInduction
<1>12. rest \in [D -> Nat]
  BY <1>8, <1>11
<1>13. rest[0] = time /\ \A i \in 1..n : rest[i] = rest[i - 1] % LogUnits[i]
  <2>1. 0 \in D /\ \A i \in 1..n : i \in D /\ i # 0
    BY <1>1
  <2>2. QED
    BY <1>8, <2>1
<1>14. QED
  BY <1>9, <1>12, <1>13 DEF Rests, n

LEMMA SecondsIs ==
  ASSUME NEW format
  PROVE  Seconds(format) = SumOf([i \in DOMAIN format |-> format[i] * LogUnits[i]], DOMAIN format)
<1> DEFINE N == DOMAIN format
           term == [i \in N |-> format[i] * LogUnits[i]]
           Code(g) == [s \in SUBSET N |->
                        IF s = {} THEN 0
                        ELSE g[s \ {CHOOSE x \in s : TRUE}] +
                               format[CHOOSE x \in s : TRUE] * LogUnits[CHOOSE x \in s : TRUE]]
<1>1. ASSUME NEW g PROVE Code(g) = Adding(term, N, g)
  BY DEF Adding
<1>2. Seconds(format) = (CHOOSE g : g = Code(g))[N]
  BY DEF Seconds, FoldSet, MapThenFoldSet
<1> HIDE DEF Code, term, N
<1>3. (CHOOSE g : g = Code(g)) = (CHOOSE g : g = Adding(term, N, g))
  BY <1>1
<1>4. QED
  BY <1>2, <1>3 DEF SumOf, N, term

(* convert_second_to_log_format and convert_log_format_to_second: any      *)
(* duration that is written in units, the last of which is the second, and *)
(* read back is the same.                                                  *)
THEOREM FormatRoundTrip ==
  ASSUME NEW time \in Nat
  PROVE  Seconds(LogFormat(time)) = time
<1> DEFINE n == Len(LogUnits)
<1>1. PICK rest : Rests(time, rest)
  BY LogFormatIs
<1>2. n \in Nat \ {0} /\ \A i \in 1..n : LogUnits[i] \in Nat \ {0}
  <2>1. LogUnits \in Seq(Nat \ {0}) /\ LogUnits # <<>>
    BY ChainAssumption
  <2>2. QED
    BY <2>1, LenProperties, ElementOfSeq
<1>3. LogUnits[n] = 1
  BY ChainAssumption
<1> DEFINE term == [i \in 1..n |-> LogFormat(time)[i] * LogUnits[i]]
<1> HIDE DEF n
<1>4. /\ rest \in [0..n -> Nat] /\ rest[0] = time
      /\ \A i \in 1..n : rest[i] = rest[i - 1] % LogUnits[i]
      /\ LogFormat(time) = [i \in 1..n |-> rest[i - 1] \div LogUnits[i]]
  BY <1>1 DEF Rests, n
<1>5. ASSUME NEW i \in 1..n PROVE term[i] \in Int /\ term[i] = rest[i - 1] - rest[i]
  <2>1. i - 1 \in 0..n /\ rest[i - 1] \in Nat /\ LogUnits[i] \in Nat \ {0}
    BY <1>2, <1>4
  <2> DEFINE a == rest[i - 1]
             b == LogUnits[i]
  <2>2. term[i] = (a \div b) * b /\ rest[i] = a % b
    BY <1>4
  <2> HIDE DEF a, b
  <2>3. a \in Nat /\ b \in Nat \ {0}
    BY <2>1 DEF a, b
  <2>4. a \div b \in Nat /\ a % b \in 0..(b - 1) /\ a = b * (a \div b) + (a % b)
    BY <2>3, Division
  <2> DEFINE q == a \div b
             m == a % b
  <2>5. q \in Nat /\ m \in 0..(b - 1) /\ a = b * q + m /\ term[i] = q * b /\ rest[i] = m
    BY <2>2, <2>4
  <2> HIDE DEF q, m, term
  <2>6. q * b = b * q /\ q * b \in Int
    BY <2>3, <2>5
  <2>7. term[i] \in Int /\ term[i] = a - rest[i]
    BY <2>3, <2>5, <2>6
  <2>8. QED
    BY <2>7 DEF a
<1>6. Seconds(LogFormat(time)) = SumOf(term, 1..n)
  <2>1. DOMAIN LogFormat(time) = 1..n
    BY <1>4
  <2> DEFINE other == [i \in DOMAIN LogFormat(time) |-> LogFormat(time)[i] * LogUnits[i]]
  <2>2. Seconds(LogFormat(time)) = SumOf(other, DOMAIN LogFormat(time))
    BY SecondsIs
  <2>3. other = term
    BY <2>1
  <2> HIDE DEF other, term
  <2>4. QED
    BY <2>1, <2>2, <2>3
<1> HIDE DEF term
<1> DEFINE D == 0..n
           rank == [j \in D |-> j]
           T == {j \in D : SumOf(term, 1..j) = time - rest[j]}
<1>7. ASSUME NEW j \in D, \A e \in D : e < j => e \in T PROVE j \in T
  <2>1. CASE j = 0
    <3>1. 1..0 = {}
      OBVIOUS
    <3>2. SumOf(term, 1..0) = 0
      BY <3>1, SumEmpty, Zenon
    <3>3. time - rest[0] = 0
      BY <1>4
    <3>4. QED
      BY <2>1, <3>2, <3>3
  <2>2. CASE j # 0
    <3>1. j - 1 \in D /\ j \in 1..n /\ j \in 1..j /\ 1..j \subseteq 1..n
      BY <1>2, <2>2
    <3>2. SumOf(term, 1..(j - 1)) = time - rest[j - 1]
      <4>1. j - 1 \in T
        <5>1. j - 1 < j
          BY <3>1
        <5> HIDE DEF T, D
        <5>2. QED
          BY <1>7, <3>1, <5>1
      <4>2. QED
        BY <4>1
    <3>3. (1..j) \ {j} = 1..(j - 1)
      BY <3>1
    <3>4. IsFiniteSet(1..j) /\ \A y \in 1..j : term[y] \in Int
      <4>1. IsFiniteSet(1..j)
        BY <3>1, FS_Interval
      <4>2. QED
        BY <1>5, <3>1, <4>1
    <3>5. SumOf(term, 1..j) = SumOf(term, (1..j) \ {j}) + term[j]
      BY <3>1, <3>4, SumAdd
    <3>6. SumOf(term, (1..j) \ {j}) = SumOf(term, 1..(j - 1))
      BY <3>3, Zenon
    <3>7. term[j] = rest[j - 1] - rest[j] /\ rest[j - 1] \in Nat /\ rest[j] \in Nat
      BY <1>4, <1>5, <3>1
    <3>8. SumOf(term, 1..j) = time - rest[j]
      BY <3>2, <3>5, <3>6, <3>7
    <3>9. QED
      BY <3>8
  <2>3. QED
    BY <2>1, <2>2
<1>8. D \subseteq T
  <2>1. rank \in [D -> Nat]
    BY <1>2
  <2>2. ASSUME NEW j \in D, \A e \in D : rank[e] < rank[j] => e \in T PROVE j \in T
    <3>1. \A e \in D : e < j => e \in T
      BY <2>2
    <3> HIDE DEF D, T
    <3>2. QED
      BY <1>7, <3>1
  <2> HIDE DEF D, T, rank
  <2>3. QED
    BY <2>1, <2>2, RankInduction
<1>9. SumOf(term, 1..n) = time - rest[n]
  <2>1. n \in D
    BY <1>2
  <2>2. QED
    BY <1>8, <2>1
<1>10. rest[n] = 0
  <2>1. n \in 1..n /\ n - 1 \in 0..n /\ rest[n - 1] \in Nat
    BY <1>2, <1>4
  <2>2. \A a \in Nat : a % 1 = 0
    <3> SUFFICES ASSUME NEW a \in Nat PROVE a % 1 = 0
      OBVIOUS
    <3>1. a % 1 \in 0..(1 - 1)
      BY Division
    <3>2. QED
      BY <3>1
  <2>3. QED
    BY <1>3, <1>4, <2>1, <2>2
<1>11. QED
  BY <1>6, <1>9, <1>10
-----------------------------------------------------------------------------
(* A log or a work log keeps what it is about, and no log of work is       *)
(* opened again.                                                           *)
LogStep(a, b) ==
  /\ b \in Log
  /\ b.user = a.user /\ b.issue = a.issue /\ b.source = a.source
  /\ b.state = "progress" => a.state = "progress"

WorkStep(a, b) ==
  /\ b \in Work
  /\ b.user = a.user /\ b.issue = a.issue /\ b.source = a.source
  /\ b.cluster = a.cluster

LEMMA LogStepSame == \A a \in Log : LogStep(a, a)
BY DEF LogStep

LEMMA WorkStepSame == \A a \in Work : WorkStep(a, a)
BY DEF WorkStep

LEMMA LogStepTwice ==
  ASSUME NEW a, NEW b, NEW c, LogStep(a, b), LogStep(b, c)
  PROVE  LogStep(a, c)
BY DEF LogStep

LEMMA WorkStepTwice ==
  ASSUME NEW a, NEW b, NEW c, WorkStep(a, b), WorkStep(b, c)
  PROVE  WorkStep(a, c)
BY DEF WorkStep

(* What the handlers do to a row.                                          *)
LEMMA DeletedRow ==
  ASSUME NEW a \in Log
  PROVE  LET b == [a EXCEPT !.state = "deleted"]
         IN  LogStep(a, b) /\ b.state = "deleted"
BY DEF LogStep, Log

LEMMA EndedRow ==
  ASSUME NEW a \in Log, NEW d \in Nat
  PROVE  LET b == [a EXCEPT !.state = "done", !.entered = FALSE, !.duration = d]
         IN  LogStep(a, b) /\ b.state = "done"
BY DEF LogStep, Log

LEMMA UpdatedRow ==
  ASSUME NEW a \in Log, NEW d \in Nat
  PROVE  LET b == [a EXCEPT !.duration = d, !.entered = TRUE]
         IN  LogStep(a, b) /\ b.state = a.state
BY DEF LogStep, Log

LEMMA PausedRow ==
  ASSUME NEW a \in Work, now \in Nat
  PROVE  LET b == [a EXCEPT !.state = "done", !.end = now]
         IN  WorkStep(a, b) /\ b.state = "done" /\ b.end = now /\ b.start = a.start
BY DEF WorkStep, Work

LEMMA EndedWorkRow ==
  ASSUME NEW a \in Work
  PROVE  LET b == [a EXCEPT !.state = "done"]
         IN  WorkStep(a, b) /\ b.state = "done" /\ b.end = a.end /\ b.start = a.start
BY DEF WorkStep, Work

LEMMA CancelledRow ==
  ASSUME NEW a \in Work, now \in Nat \ {0}
  PROVE  LET b == [a EXCEPT !.state = "cancel", !.end = IF @ = 0 THEN now ELSE @]
         IN  WorkStep(a, b) /\ b.state = "cancel" /\ b.end # 0
BY DEF WorkStep, Work
-----------------------------------------------------------------------------
(* The tables that a request makes of those it has read.                   *)
LogsStep(L, M) ==
  DOMAIN M = DOMAIN L /\ \A k \in DOMAIN L : LogStep(L[k], M[k])

WorksStep(W, V) ==
  DOMAIN V = DOMAIN W /\ \A n \in DOMAIN W : WorkStep(W[n], V[n])

LEMMA DeletedStep ==
  ASSUME NEW L \in Seq(Log), NEW K
  PROVE  /\ LogsStep(L, Deleted(L, K))
         /\ \A k \in DOMAIN L : k \notin K => Deleted(L, K)[k] = L[k]
         /\ \A k \in DOMAIN L : k \in K => Deleted(L, K)[k].state = "deleted"
<1>1. \A k \in DOMAIN L : L[k] \in Log
  BY ElementOfSeq, LenProperties
<1>2. \A k \in DOMAIN L :
        Deleted(L, K)[k] = IF k \in K THEN [L[k] EXCEPT !.state = "deleted"] ELSE L[k]
  BY DEF Deleted
<1>3. DOMAIN Deleted(L, K) = DOMAIN L
  BY DEF Deleted
<1>4. QED
  BY <1>1, <1>2, <1>3, DeletedRow, LogStepSame DEF LogsStep

LEMMA PausedStep ==
  ASSUME NEW L, NEW W \in Seq(Work), NEW u, NEW i, NEW s, now \in Nat
  PROVE  LET N == Pieces(W, u, i, s, Pivot(L, u, i, s))
         IN  /\ WorksStep(W, Paused(L, W, u, i, s))
             /\ \A n \in DOMAIN W :
                  IF n \in N /\ W[n].state = "progress"
                  THEN /\ Paused(L, W, u, i, s)[n].state = "done"
                       /\ Paused(L, W, u, i, s)[n].end = now
                       /\ Paused(L, W, u, i, s)[n].start = W[n].start
                  ELSE Paused(L, W, u, i, s)[n] = W[n]
<1> DEFINE N == Pieces(W, u, i, s, Pivot(L, u, i, s))
<1>1. \A n \in DOMAIN W : W[n] \in Work
  BY ElementOfSeq, LenProperties
<1>2. \A n \in DOMAIN W :
        Paused(L, W, u, i, s)[n] =
          IF n \in N /\ W[n].state = "progress"
          THEN [W[n] EXCEPT !.state = "done", !.end = now] ELSE W[n]
  BY DEF Paused
<1>3. DOMAIN Paused(L, W, u, i, s) = DOMAIN W
  BY DEF Paused
<1> HIDE DEF N
<1>4. \A n \in DOMAIN W :
        IF n \in N /\ W[n].state = "progress"
        THEN /\ WorkStep(W[n], Paused(L, W, u, i, s)[n])
             /\ Paused(L, W, u, i, s)[n].state = "done"
             /\ Paused(L, W, u, i, s)[n].end = now
             /\ Paused(L, W, u, i, s)[n].start = W[n].start
        ELSE Paused(L, W, u, i, s)[n] = W[n]
  <2> SUFFICES ASSUME NEW n \in DOMAIN W, n \in N, W[n].state = "progress"
               PROVE  /\ WorkStep(W[n], Paused(L, W, u, i, s)[n])
                      /\ Paused(L, W, u, i, s)[n].state = "done"
                      /\ Paused(L, W, u, i, s)[n].end = now
                      /\ Paused(L, W, u, i, s)[n].start = W[n].start
    BY <1>2
  <2> DEFINE b == [W[n] EXCEPT !.state = "done", !.end = now]
  <2>1. WorkStep(W[n], b) /\ b.state = "done" /\ b.end = now /\ b.start = W[n].start
    BY <1>1, PausedRow
  <2>2. Paused(L, W, u, i, s)[n] = b
    BY <1>2
  <2> HIDE DEF b
  <2>3. QED
    BY <2>1, <2>2
<1>5. WorksStep(W, Paused(L, W, u, i, s))
  BY <1>1, <1>3, <1>4, WorkStepSame DEF WorksStep
<1>6. QED
  BY <1>4, <1>5 DEF N

LEMMA CancelledStep ==
  ASSUME NEW W \in Seq(Work), NEW K, now \in Nat \ {0}
  PROVE  /\ WorksStep(W, Cancelled(W, K))
         /\ \A n \in DOMAIN W :
              IF W[n].cluster \in K
              THEN Cancelled(W, K)[n].state = "cancel" /\ Cancelled(W, K)[n].end # 0
              ELSE Cancelled(W, K)[n] = W[n]
<1>1. \A n \in DOMAIN W : W[n] \in Work
  BY ElementOfSeq, LenProperties
<1>2. \A n \in DOMAIN W :
        Cancelled(W, K)[n] =
          IF W[n].cluster \in K
          THEN [W[n] EXCEPT !.state = "cancel", !.end = IF @ = 0 THEN now ELSE @] ELSE W[n]
  BY DEF Cancelled
<1>3. DOMAIN Cancelled(W, K) = DOMAIN W
  BY DEF Cancelled
<1>4. QED
  BY <1>1, <1>2, <1>3, CancelledRow, WorkStepSame DEF WorksStep

LEMMA EndedWorksStep ==
  ASSUME NEW L, NEW W, NEW u, NEW r, NEW s, \A n \in DOMAIN W : W[n] \in Work
  PROVE  LET N == Pieces(W, u, r, s, Pivot(L, u, r, s))
         IN  /\ WorksStep(W, EndedWorks(L, W, u, r, s))
             /\ \A n \in DOMAIN W :
                  IF n \in N
                  THEN /\ EndedWorks(L, W, u, r, s)[n].state = "done"
                       /\ EndedWorks(L, W, u, r, s)[n].end = W[n].end
                       /\ EndedWorks(L, W, u, r, s)[n].start = W[n].start
                  ELSE EndedWorks(L, W, u, r, s)[n] = W[n]
<1> DEFINE N == Pieces(W, u, r, s, Pivot(L, u, r, s))
<1>1. \A n \in DOMAIN W :
        EndedWorks(L, W, u, r, s)[n] =
          IF n \in N THEN [W[n] EXCEPT !.state = "done"] ELSE W[n]
  BY DEF EndedWorks
<1>2. DOMAIN EndedWorks(L, W, u, r, s) = DOMAIN W
  BY DEF EndedWorks
<1> HIDE DEF N
<1>3. QED
  BY <1>1, <1>2, EndedWorkRow, WorkStepSame DEF WorksStep, N

LEMMA EndedLogsStep ==
  ASSUME NEW L \in Seq(Log), NEW W, NEW u, NEW r, NEW s, IsFiniteSet(DOMAIN W),
         \A n \in DOMAIN W : W[n] \in Work
  PROVE  /\ LogsStep(L, EndedLogs(L, W, u, r, s))
         /\ \A k \in DOMAIN L :
              IF k \in Pivot(L, u, r, s)
              THEN EndedLogs(L, W, u, r, s)[k].state = "done"
              ELSE EndedLogs(L, W, u, r, s)[k] = L[k]
<1> DEFINE K == Pivot(L, u, r, s)
           total == Total(W, Pieces(W, u, r, s, K))
           d == RoundedUp(IF total > Floor THEN total ELSE Floor)
<1>1. \A k \in DOMAIN L : L[k] \in Log
  BY ElementOfSeq, LenProperties
<1>2. total \in Int
  <2>1. Pieces(W, u, r, s, K) \subseteq DOMAIN W
    BY DEF Pieces
  <2> HIDE DEF K
  <2>2. IsFiniteSet(Pieces(W, u, r, s, K))
    BY <2>1, FS_Subset
  <2>3. \A n \in Pieces(W, u, r, s, K) : W[n].start \in Nat /\ W[n].end \in Nat
    BY <2>1 DEF Work
  <2>4. QED
    BY <2>2, <2>3, TotalType
<1>3. d \in Nat
  <2> HIDE DEF total
  <2>1. (IF total > Floor THEN total ELSE Floor) \in Nat
    BY <1>2, DurationAssumption
  <2>2. QED
    BY <2>1, RoundedUpType
<1>4. \A k \in DOMAIN L :
        EndedLogs(L, W, u, r, s)[k] =
          IF k \in K
          THEN [L[k] EXCEPT !.state = "done", !.entered = FALSE, !.duration = d]
          ELSE L[k]
  BY DEF EndedLogs
<1>5. DOMAIN EndedLogs(L, W, u, r, s) = DOMAIN L
  BY DEF EndedLogs
<1> HIDE DEF d, K
<1>6. \A k \in DOMAIN L :
        IF k \in K
        THEN /\ LogStep(L[k], EndedLogs(L, W, u, r, s)[k])
             /\ EndedLogs(L, W, u, r, s)[k].state = "done"
        ELSE EndedLogs(L, W, u, r, s)[k] = L[k]
  <2> SUFFICES ASSUME NEW k \in DOMAIN L, k \in K
               PROVE  /\ LogStep(L[k], EndedLogs(L, W, u, r, s)[k])
                      /\ EndedLogs(L, W, u, r, s)[k].state = "done"
    BY <1>4
  <2> DEFINE b == [L[k] EXCEPT !.state = "done", !.entered = FALSE, !.duration = d]
  <2>1. LogStep(L[k], b) /\ b.state = "done"
    BY <1>1, <1>3, EndedRow
  <2>2. EndedLogs(L, W, u, r, s)[k] = b
    BY <1>4
  <2> HIDE DEF b
  <2>3. QED
    BY <2>1, <2>2
<1>7. LogsStep(L, EndedLogs(L, W, u, r, s))
  BY <1>1, <1>5, <1>6, LogStepSame DEF LogsStep
<1>8. QED
  BY <1>6, <1>7 DEF K
-----------------------------------------------------------------------------
(* The rows a start adds.                                                  *)
NewLog(u, i, s) ==
  [user |-> u, issue |-> i, source |-> s, duration |-> 0, state |-> "progress",
   entered |-> FALSE]

NewWork(u, i, s, k) ==
  [user |-> u, issue |-> i, source |-> s, cluster |-> k, state |-> "progress",
   start |-> now, end |-> 0]

AddsNothing(e) == e.newLogs = <<>> /\ e.newWorks = <<>>

AddsWork(e, L, u, i, s) ==
  /\ e.newLogs = <<>> /\ e.logs = L
  /\ \E k \in Open(L, u, i) :
       /\ e.newWorks = <<NewWork(u, i, s, k)>>
       /\ L[k].source # s => k \in e.mixed

AddsLog(e, L, u, i, s) ==
  /\ e.newLogs = <<NewLog(u, i, s)>> /\ e.logs = L /\ Open(L, u, i) = {}
  /\ e.newWorks = <<NewWork(u, i, s, Len(logs) + 1)>>

(* What a request may want to commit.                                      *)
EffectShape(e, L, W, u, i, s) ==
  /\ LogsStep(L, e.logs) /\ WorksStep(W, e.works)
  /\ e.atWork \subseteq atWork \cup {<<u, i, s>>}
  /\ mixed \subseteq e.mixed /\ e.mixed \subseteq mixed \cup DOMAIN L
  /\ AddsNothing(e) \/ AddsWork(e, L, u, i, s) \/ AddsLog(e, L, u, i, s)

LEMMA RowsOfSeq ==
  ASSUME NEW S, NEW q \in Seq(S)
  PROVE  /\ Len(q) \in Nat /\ DOMAIN q = 1..Len(q) /\ IsFiniteSet(DOMAIN q)
         /\ \A n \in DOMAIN q : q[n] \in S
<1>1. Len(q) \in Nat /\ DOMAIN q = 1..Len(q) /\ \A n \in DOMAIN q : q[n] \in S
  BY LenProperties, ElementOfSeq
<1>2. QED
  BY <1>1, FS_Interval

LEMMA StepsSame ==
  ASSUME NEW L \in Seq(Log), NEW W \in Seq(Work)
  PROVE  LogsStep(L, L) /\ WorksStep(W, W)
BY RowsOfSeq, LogStepSame, WorkStepSame DEF LogsStep, WorksStep

LEMMA WorksStepTwice ==
  ASSUME NEW A, NEW B, NEW C, WorksStep(A, B), WorksStep(B, C)
  PROVE  WorksStep(A, C)
<1>1. ASSUME NEW n \in DOMAIN A PROVE WorkStep(A[n], C[n])
  BY WorkStepTwice DEF WorksStep
<1>2. QED
  BY <1>1 DEF WorksStep

LEMMA EffectFields ==
  ASSUME NEW M, NEW V, NEW newLogs, NEW newWorks, NEW at, NEW mix
  PROVE  LET e == Effect(M, V, newLogs, newWorks, at, mix)
         IN  /\ e.logs = M /\ e.works = V /\ e.newLogs = newLogs
             /\ e.newWorks = newWorks /\ e.atWork = at /\ e.mixed = mix
BY DEF Effect

LEMMA StartShape ==
  ASSUME NEW L \in Seq(Log), NEW W \in Seq(Work), NEW u, NEW i, NEW s,
         now \in Nat \ {0}, NEW e \in Start(u, i, s, L, W)
  PROVE  /\ EffectShape(e, L, W, u, i, s) /\ ~AddsNothing(e)
         /\ e.logs = L /\ e.works = Paused(L, W, u, i, s)
         /\ e.atWork = atWork \cup {<<u, i, s>>}
<1> DEFINE W1 == Paused(L, W, u, i, s)
           at == atWork \cup {<<u, i, s>>}
           mix(k) == IF L[k].source = s THEN mixed ELSE mixed \cup {k}
           add == Effect(L, W1, <<NewLog(u, i, s)>>, <<NewWork(u, i, s, Len(logs) + 1)>>, at, mixed)
           join(k) == Effect(L, W1, <<>>, <<NewWork(u, i, s, k)>>, at, mix(k))
<1>1. WorksStep(W, W1) /\ LogsStep(L, L)
  BY PausedStep, StepsSame
<1>2. \/ Open(L, u, i) = {} /\ e = add
      \/ \E k \in Open(L, u, i) : e = join(k)
  BY DEF Start, NewLog, NewWork
<1>3. CASE Open(L, u, i) = {} /\ e = add
  <2>1. /\ e.logs = L /\ e.works = W1 /\ e.newLogs = <<NewLog(u, i, s)>>
        /\ e.newWorks = <<NewWork(u, i, s, Len(logs) + 1)>>
        /\ e.atWork = at /\ e.mixed = mixed
    BY <1>3, EffectFields
  <2>2. AddsLog(e, L, u, i, s)
    BY <1>3, <2>1 DEF AddsLog
  <2>3. QED
    BY <1>1, <2>1, <2>2 DEF EffectShape, AddsNothing
<1>4. CASE \E k \in Open(L, u, i) : e = join(k)
  <2>1. PICK k \in Open(L, u, i) : e = join(k)
    BY <1>4
  <2>2. /\ e.logs = L /\ e.works = W1 /\ e.newLogs = <<>>
        /\ e.newWorks = <<NewWork(u, i, s, k)>>
        /\ e.atWork = at /\ e.mixed = mix(k)
    BY <2>1, EffectFields
  <2>3. k \in DOMAIN L
    BY DEF Open
  <2>4. AddsWork(e, L, u, i, s)
    BY <2>2 DEF AddsWork
  <2>5. QED
    BY <1>1, <2>2, <2>3, <2>4 DEF EffectShape, AddsNothing
<1>5. QED
  BY <1>2, <1>3, <1>4

LEMMA PauseShape ==
  ASSUME NEW L \in Seq(Log), NEW W \in Seq(Work), NEW u, NEW i, NEW s,
         now \in Nat \ {0}, NEW e \in Pause(u, i, s, L, W)
  PROVE  /\ EffectShape(e, L, W, u, i, s) /\ AddsNothing(e)
         /\ e.logs = L /\ e.works = Paused(L, W, u, i, s)
         /\ e.atWork = Stopped(W, Paused(L, W, u, i, s), u, i, s)
<1> DEFINE W1 == Paused(L, W, u, i, s)
<1>1. WorksStep(W, W1) /\ LogsStep(L, L)
  BY PausedStep, StepsSame
<1>2. e = Effect(L, W1, <<>>, <<>>, Stopped(W, W1, u, i, s), mixed)
  BY DEF Pause
<1>3. Stopped(W, W1, u, i, s) \subseteq atWork
  BY DEF Stopped
<1> HIDE DEF W1
<1>4. /\ e.logs = L /\ e.works = W1 /\ e.newLogs = <<>> /\ e.newWorks = <<>>
      /\ e.atWork = Stopped(W, W1, u, i, s) /\ e.mixed = mixed
  BY <1>2, EffectFields
<1>5. QED
  BY <1>1, <1>3, <1>4 DEF EffectShape, AddsNothing, W1

LEMMA DoneShape ==
  ASSUME NEW L \in Seq(Log), NEW W \in Seq(Work), NEW u, NEW i \in Issue, NEW s,
         now \in Nat \ {0}, NEW e \in Done(u, i, s, L, W)
  PROVE  /\ EffectShape(e, L, W, u, i, s) /\ AddsNothing(e)
         /\ e.atWork = Stopped(W, Paused(L, W, u, i, s), u, i, s)
         /\ \/ e.logs = L /\ e.works = Paused(L, W, u, i, s)
            \/ /\ e.logs = EndedLogs(L, Paused(L, W, u, i, s), u, Target[i], s)
               /\ e.works = EndedWorks(L, Paused(L, W, u, i, s), u, Target[i], s)
               /\ Target[i] # i => Pivot(L, u, Target[i], s) \subseteq e.mixed
<1> DEFINE W1 == Paused(L, W, u, i, s)
           r == Target[i]
           at == Stopped(W, W1, u, i, s)
           K == Pivot(L, u, r, s)
           mix == IF r = i THEN mixed ELSE mixed \cup K
           M == EndedLogs(L, W1, u, r, s)
           V == EndedWorks(L, W1, u, r, s)
<1>1. WorksStep(W, W1) /\ LogsStep(L, L)
  BY PausedStep, StepsSame
<1>2. \/ e = Effect(L, W1, <<>>, <<>>, at, mixed)
      \/ e = Effect(M, V, <<>>, <<>>, at, mix)
  BY DEF Done
<1>3. at \subseteq atWork
  BY DEF Stopped
<1>4. CASE e = Effect(L, W1, <<>>, <<>>, at, mixed)
  <2> HIDE DEF W1, at
  <2>1. /\ e.logs = L /\ e.works = W1 /\ e.newLogs = <<>> /\ e.newWorks = <<>>
        /\ e.atWork = at /\ e.mixed = mixed
    BY <1>4, EffectFields
  <2>2. EffectShape(e, L, W, u, i, s) /\ AddsNothing(e) /\ e.logs = L /\ e.works = W1
    BY <1>1, <1>3, <2>1 DEF EffectShape, AddsNothing
  <2>3. QED
    BY <2>1, <2>2 DEF W1, at
<1>5. CASE e = Effect(M, V, <<>>, <<>>, at, mix)
  <2>1. \A n \in DOMAIN W1 : W1[n] \in Work
    BY <1>1 DEF WorksStep, WorkStep
  <2>2. IsFiniteSet(DOMAIN W1)
    BY <1>1, RowsOfSeq DEF WorksStep
  <2>3. LogsStep(L, M)
    <3> HIDE DEF W1
    <3>1. QED
      BY <2>1, <2>2, EndedLogsStep
  <2>4. WorksStep(W1, V)
    <3> HIDE DEF W1
    <3>1. QED
      BY <2>1, EndedWorksStep
  <2>5. WorksStep(W, V)
    <3> HIDE DEF W1, V
    <3>1. QED
      BY <1>1, <2>4, WorksStepTwice
  <2>6. K \subseteq DOMAIN L
    BY DEF Pivot
  <2>7. /\ e.logs = M /\ e.works = V /\ e.newLogs = <<>> /\ e.newWorks = <<>>
        /\ e.atWork = at /\ e.mixed = mix
    <3> HIDE DEF M, V, at, mix
    <3>1. QED
      BY <1>5, EffectFields
  <2>8. mixed \subseteq mix /\ mix \subseteq mixed \cup DOMAIN L /\ (r # i => K \subseteq mix)
    BY <2>6
  <2>9. EffectShape(e, L, W, u, i, s) /\ AddsNothing(e)
    <3> HIDE DEF M, V, at, mix
    <3>1. QED
      BY <1>3, <2>3, <2>5, <2>7, <2>8 DEF EffectShape, AddsNothing
  <2> HIDE DEF mix
  <2>10. QED
    BY <2>7, <2>8, <2>9
<1>6. QED
  BY <1>2, <1>4, <1>5

LEMMA CancelShape ==
  ASSUME NEW L \in Seq(Log), NEW W \in Seq(Work), NEW u, NEW i, NEW s,
         now \in Nat \ {0}, NEW e \in Cancel(u, i, s, L, W)
  PROVE  /\ EffectShape(e, L, W, u, i, s) /\ AddsNothing(e)
         /\ e.logs = Deleted(L, Pivot(L, u, i, s))
         /\ e.works = Cancelled(W, Pivot(L, u, i, s))
         /\ e.atWork = atWork
<1> DEFINE K == Pivot(L, u, i, s)
<1>1. LogsStep(L, Deleted(L, K)) /\ WorksStep(W, Cancelled(W, K))
  BY DeletedStep, CancelledStep
<1>2. e = Effect(Deleted(L, K), Cancelled(W, K), <<>>, <<>>, atWork, mixed)
  BY DEF Cancel
<1> HIDE DEF K
<1>3. /\ e.logs = Deleted(L, K) /\ e.works = Cancelled(W, K)
      /\ e.newLogs = <<>> /\ e.newWorks = <<>>
      /\ e.atWork = atWork /\ e.mixed = mixed
  BY <1>2, EffectFields
<1>4. QED
  BY <1>1, <1>3 DEF EffectShape, AddsNothing, K

LEMMA EffectsShape ==
  ASSUME NEW L \in Seq(Log), NEW W \in Seq(Work), NEW r \in Request,
         now \in Nat \ {0}, NEW e \in Effects(r, L, W)
  PROVE  EffectShape(e, L, W, r.user, r.issue, r.source)
<1>1. r.op \in {"start", "pause", "done", "cancel"} /\ r.issue \in Issue
  BY DEF Request
<1>2. CASE r.op = "start"
  BY <1>2, StartShape DEF Effects
<1>3. CASE r.op = "pause"
  BY <1>3, PauseShape DEF Effects
<1>4. CASE r.op = "done"
  BY <1>1, <1>4, DoneShape DEF Effects
<1>5. CASE r.op = "cancel"
  BY <1>5, CancelShape DEF Effects
<1>6. QED
  BY <1>1, <1>2, <1>3, <1>4, <1>5
-----------------------------------------------------------------------------
(* What a request has read is older than the tables, row for row.          *)
Snapshot(L, W) ==
  /\ L \in Seq(Log) /\ Len(L) <= Len(logs)
  /\ \A k \in DOMAIN L : LogStep(L[k], logs[k])
  /\ W \in Seq(Work) /\ Len(W) <= Len(works)
  /\ \A n \in DOMAIN W : WorkStep(W[n], works[n])

WorkInv ==
  /\ scene \in Scenes
  /\ TypeOK /\ now # 0
  /\ \A n \in DOMAIN works : works[n].cluster \in DOMAIN logs
  /\ slow # <<>> => Snapshot(slow[1].logs, slow[1].works)

(* A step adds rows, and changes them as LogStep and WorkStep say.         *)
Grown ==
  /\ logs' \in Seq(Log) /\ Len(logs) <= Len(logs') /\ Len(logs') <= scene.logs
  /\ \A k \in DOMAIN logs : LogStep(logs[k], logs'[k])
  /\ works' \in Seq(Work) /\ Len(works) <= Len(works') /\ Len(works') <= scene.works
  /\ \A n \in DOMAIN works : WorkStep(works[n], works'[n])
  /\ \A n \in DOMAIN works' : works'[n].cluster \in DOMAIN logs'

LEMMA SceneFacts ==
  ASSUME scene \in Scenes
  PROVE  /\ scene.logs \in Nat /\ scene.works \in Nat /\ scene.logs <= MaxLogs
         /\ scene.time \in Nat /\ scene.slow \in Nat /\ scene.calls \in Nat
         /\ scene.given \subseteq Nat /\ scene.leaders \subseteq User
         /\ \A w \in scene.who : w[1] \in User /\ w[2] \in Issue /\ w[3] \in Source
         /\ \A r \in Requests : /\ r \in Request
                                /\ <<r.user, r.issue, r.source>> \in User \X Issue \X Source
<1>1. scene \in Scene
  BY SceneAssumption
<1>2. scene.who \subseteq User \X Issue \X Source
  BY <1>1 DEF Scene
<1>3. \A w \in scene.who : w[1] \in User /\ w[2] \in Issue /\ w[3] \in Source
  BY <1>2
<1>4. \A r \in Requests : r \in Request
  BY <1>3 DEF Requests, Request
<1>5. \A r \in Request : <<r.user, r.issue, r.source>> \in User \X Issue \X Source
  BY DEF Request
<1>6. QED
  BY <1>1, <1>3, <1>4, <1>5, SceneAssumption DEF Scene

LEMMA NewRow ==
  ASSUME NEW S, NEW q \in Seq(S), NEW x \in S
  PROVE  LET t == q \o <<x>>
         IN  /\ t \in Seq(S) /\ Len(t) = Len(q) + 1 /\ DOMAIN t = 1..(Len(q) + 1)
             /\ \A k \in DOMAIN q : t[k] = q[k]
             /\ t[Len(q) + 1] = x
<1>1. <<x>> \in Seq(S) /\ Len(<<x>>) = 1 /\ <<x>>[1] = x
  OBVIOUS
<1>2. Len(q) \in Nat /\ DOMAIN q = 1..Len(q)
  BY RowsOfSeq
<1> DEFINE t == q \o <<x>>
<1>3. /\ t \in Seq(S) /\ Len(t) = Len(q) + 1
      /\ \A i \in 1 .. Len(q) + 1 : t[i] = IF i <= Len(q) THEN q[i] ELSE <<x>>[i - Len(q)]
  BY <1>1, ConcatProperties
<1>4. DOMAIN t = 1..(Len(q) + 1)
  BY <1>3, RowsOfSeq
<1> HIDE DEF t
<1>5. \A k \in DOMAIN q : t[k] = q[k]
  BY <1>2, <1>3
<1>6. t[Len(q) + 1] = x
  <2>1. Len(q) + 1 \in 1 .. Len(q) + 1 /\ ~(Len(q) + 1 <= Len(q)) /\ (Len(q) + 1) - Len(q) = 1
    BY <1>2
  <2>2. QED
    BY <1>1, <1>3, <2>1
<1>7. QED
  BY <1>3, <1>4, <1>5, <1>6 DEF t

MayWrite(S, current, old, new) ==
  /\ current \in Seq(S) /\ old \in Seq(S) /\ Len(old) <= Len(current)
  /\ DOMAIN new = DOMAIN old /\ \A k \in DOMAIN old : new[k] \in S
  /\ \A k \in Changed(old, new) : current[k] = old[k]

LEMMA WrittenRows ==
  ASSUME NEW S, NEW current, NEW old, NEW new, MayWrite(S, current, old, new)
  PROVE  LET t == Written(current, old, new)
         IN  /\ t \in Seq(S) /\ Len(t) = Len(current) /\ DOMAIN t = DOMAIN current
             /\ \A k \in DOMAIN current :
                  IF k \in DOMAIN old /\ current[k] = old[k]
                  THEN t[k] = new[k] ELSE t[k] = current[k]
<1> USE DEF MayWrite
<1> DEFINE t == Written(current, old, new)
<1>1. /\ Len(current) \in Nat /\ DOMAIN current = 1..Len(current)
      /\ \A k \in DOMAIN current : current[k] \in S
  BY RowsOfSeq
<1>2. /\ DOMAIN t = DOMAIN current
      /\ \A k \in DOMAIN current :
           t[k] = IF k \in Changed(old, new) THEN new[k] ELSE current[k]
  BY DEF Written
<1>3. Changed(old, new) = {k \in DOMAIN old : new[k] # old[k]}
  BY DEF Changed
<1>4. t = [k \in 1..Len(current) |-> t[k]]
  BY <1>1 DEF Written
<1> HIDE DEF t
<1>5. \A k \in DOMAIN current : t[k] \in S
  BY <1>1, <1>2, <1>3
<1>6. t \in [1..Len(current) -> S]
  BY <1>1, <1>4, <1>5
<1>7. t \in Seq(S)
  BY <1>1, <1>6, SeqDef
<1>8. Len(t) = Len(current)
  BY <1>1, <1>2, <1>7, RowsOfSeq
<1>9. \A k \in DOMAIN current :
        IF k \in DOMAIN old /\ current[k] = old[k]
        THEN t[k] = new[k] ELSE t[k] = current[k]
  BY <1>2, <1>3
<1>10. QED
  BY <1>2, <1>7, <1>8, <1>9 DEF t

(* The rows the transaction has read are as it wants them, if nobody wrote *)
(* them; the others are as they were.                                      *)
OldRows(L, W, e) ==
  /\ \A k \in DOMAIN logs :
       IF k \in DOMAIN L /\ logs[k] = L[k]
       THEN logs'[k] = e.logs[k] ELSE logs'[k] = logs[k]
  /\ \A n \in DOMAIN works :
       IF n \in DOMAIN W /\ works[n] = W[n]
       THEN works'[n] = e.works[n] ELSE works'[n] = works[n]

Committed(r, L, W, e) ==
  /\ Grown /\ OldRows(L, W, e)
  /\ EffectShape(e, L, W, r.user, r.issue, r.source)
  /\ mixed' = e.mixed /\ mixed \subseteq mixed'
  /\ mixed' \subseteq 1..MaxLogs /\ atWork' \subseteq User \X Issue \X Source
  /\ ~Refused(L, W, e) /\ atWork' = e.atWork
  /\ \/ AddsNothing(e) /\ Len(logs') = Len(logs) /\ Len(works') = Len(works)
     \/ \E k \in DOMAIN logs' :
          /\ e.newWorks = <<NewWork(r.user, r.issue, r.source, k)>>
          /\ \/ AddsWork(e, L, r.user, r.issue, r.source) /\ Len(logs') = Len(logs)
             \/ /\ AddsLog(e, L, r.user, r.issue, r.source)
                /\ Len(logs') = Len(logs) + 1 /\ k = Len(logs) + 1
                /\ logs'[k] = NewLog(r.user, r.issue, r.source)
          /\ Len(works') = Len(works) + 1
          /\ works'[Len(works) + 1] = NewWork(r.user, r.issue, r.source, k)

LEMMA CommitStep ==
  ASSUME WorkInv, NEW L, NEW W, Snapshot(L, W), NEW r \in Request,
         NEW e \in Effects(r, L, W), Commit(L, W, e)
  PROVE  Committed(r, L, W, e)
<1> DEFINE u == r.user
           i == r.issue
           s == r.source
           M == Written(logs, L, e.logs)
           V == Written(works, W, e.works)
<1>1. /\ logs \in Seq(Log) /\ works \in Seq(Work) /\ now \in Nat \ {0}
      /\ Len(logs) <= scene.logs /\ Len(works) <= scene.works
      /\ scene.logs \in Nat /\ scene.works \in Nat /\ scene.logs <= MaxLogs /\ MaxLogs \in Nat
      /\ atWork \subseteq User \X Issue \X Source /\ mixed \subseteq 1..MaxLogs
      /\ \A n \in DOMAIN works : works[n].cluster \in DOMAIN logs
  BY SceneFacts, SceneAssumption DEF WorkInv, TypeOK
<1>2. /\ L \in Seq(Log) /\ Len(L) <= Len(logs) /\ W \in Seq(Work) /\ Len(W) <= Len(works)
      /\ \A k \in DOMAIN L : LogStep(L[k], logs[k])
      /\ \A n \in DOMAIN W : WorkStep(W[n], works[n])
  BY DEF Snapshot
<1>3. EffectShape(e, L, W, u, i, s)
  BY <1>1, <1>2, EffectsShape
<1>4. u \in User /\ i \in Issue /\ s \in Source
  BY DEF Request
<1>5. /\ LogsStep(L, e.logs) /\ WorksStep(W, e.works)
      /\ e.atWork \subseteq atWork \cup {<<u, i, s>>}
      /\ mixed \subseteq e.mixed /\ e.mixed \subseteq mixed \cup DOMAIN L
      /\ AddsNothing(e) \/ AddsWork(e, L, u, i, s) \/ AddsLog(e, L, u, i, s)
  BY <1>3 DEF EffectShape
<1>6. /\ \A k \in Changed(L, e.logs) : logs[k] = L[k]
      /\ \A n \in Changed(W, e.works) : works[n] = W[n]
      /\ Len(logs) + Len(e.newLogs) <= scene.logs
      /\ Len(works) + Len(e.newWorks) <= scene.works
      /\ logs' = M \o e.newLogs /\ works' = V \o e.newWorks
      /\ atWork' = e.atWork /\ mixed' = e.mixed
  BY DEF Commit, Refused
<1>7. /\ DOMAIN logs = 1..Len(logs) /\ Len(logs) \in Nat /\ \A k \in DOMAIN logs : logs[k] \in Log
      /\ DOMAIN works = 1..Len(works) /\ Len(works) \in Nat /\ \A n \in DOMAIN works : works[n] \in Work
      /\ DOMAIN L = 1..Len(L) /\ Len(L) \in Nat /\ DOMAIN W = 1..Len(W) /\ Len(W) \in Nat
  BY <1>1, <1>2, RowsOfSeq
<1>8. /\ M \in Seq(Log) /\ Len(M) = Len(logs) /\ DOMAIN M = DOMAIN logs
      /\ \A k \in DOMAIN logs :
           IF k \in DOMAIN L /\ logs[k] = L[k] THEN M[k] = e.logs[k] ELSE M[k] = logs[k]
  <2>1. DOMAIN e.logs = DOMAIN L /\ \A k \in DOMAIN L : e.logs[k] \in Log
    BY <1>5 DEF LogsStep, LogStep
  <2> DEFINE t == Written(logs, L, e.logs)
  <2>2. /\ t \in Seq(Log) /\ Len(t) = Len(logs) /\ DOMAIN t = DOMAIN logs
        /\ \A k \in DOMAIN logs :
             IF k \in DOMAIN L /\ logs[k] = L[k] THEN t[k] = e.logs[k] ELSE t[k] = logs[k]
    <3>1. MayWrite(Log, logs, L, e.logs)
      BY <1>1, <1>2, <1>6, <2>1 DEF MayWrite
    <3>2. QED
      BY <3>1, WrittenRows
  <2>3. QED
    BY <2>2
<1>9. /\ V \in Seq(Work) /\ Len(V) = Len(works) /\ DOMAIN V = DOMAIN works
      /\ \A n \in DOMAIN works :
           IF n \in DOMAIN W /\ works[n] = W[n] THEN V[n] = e.works[n] ELSE V[n] = works[n]
  <2>1. DOMAIN e.works = DOMAIN W /\ \A n \in DOMAIN W : e.works[n] \in Work
    BY <1>5 DEF WorksStep, WorkStep
  <2> DEFINE t == Written(works, W, e.works)
  <2>2. /\ t \in Seq(Work) /\ Len(t) = Len(works) /\ DOMAIN t = DOMAIN works
        /\ \A n \in DOMAIN works :
             IF n \in DOMAIN W /\ works[n] = W[n] THEN t[n] = e.works[n] ELSE t[n] = works[n]
    <3>1. MayWrite(Work, works, W, e.works)
      BY <1>1, <1>2, <1>6, <2>1 DEF MayWrite
    <3>2. QED
      BY <3>1, WrittenRows
  <2>3. QED
    BY <2>2
<1> HIDE DEF M, V
<1>10. \A k \in DOMAIN logs : LogStep(logs[k], M[k])
  <2> SUFFICES ASSUME NEW k \in DOMAIN logs PROVE LogStep(logs[k], M[k])
    OBVIOUS
  <2>1. CASE k \in DOMAIN L /\ logs[k] = L[k]
    <3>1. LogStep(L[k], e.logs[k])
      BY <1>5, <2>1 DEF LogsStep
    <3>2. QED
      BY <1>8, <2>1, <3>1
  <2>2. CASE ~(k \in DOMAIN L /\ logs[k] = L[k])
    BY <1>7, <1>8, <2>2, LogStepSame
  <2>3. QED
    BY <2>1, <2>2
<1>11. \A n \in DOMAIN works : WorkStep(works[n], V[n])
  <2> SUFFICES ASSUME NEW n \in DOMAIN works PROVE WorkStep(works[n], V[n])
    OBVIOUS
  <2>1. CASE n \in DOMAIN W /\ works[n] = W[n]
    <3>1. WorkStep(W[n], e.works[n])
      BY <1>5, <2>1 DEF WorksStep
    <3>2. QED
      BY <1>9, <2>1, <3>1
  <2>2. CASE ~(n \in DOMAIN W /\ works[n] = W[n])
    BY <1>7, <1>9, <2>2, WorkStepSame
  <2>3. QED
    BY <2>1, <2>2
<1>12. /\ mixed' = e.mixed /\ mixed \subseteq mixed'
       /\ mixed' \subseteq 1..MaxLogs /\ atWork' \subseteq User \X Issue \X Source
       /\ ~Refused(L, W, e) /\ atWork' = e.atWork
  <2>1. DOMAIN L \subseteq 1..MaxLogs
    BY <1>1, <1>2, <1>7
  <2>2. <<u, i, s>> \in User \X Issue \X Source
    BY <1>4
  <2>3. ~Refused(L, W, e)
    BY DEF Commit
  <2> HIDE DEF u, i, s
  <2>4. QED
    BY <1>1, <1>5, <1>6, <2>1, <2>2, <2>3
<1>13. CASE AddsNothing(e)
  <2>1. logs' = M /\ works' = V
    BY <1>6, <1>8, <1>9, <1>13, ConcatEmptySeq DEF AddsNothing
  <2>2. OldRows(L, W, e)
    BY <1>8, <1>9, <2>1 DEF OldRows
  <2>3. \A n \in DOMAIN works' : works'[n].cluster \in DOMAIN logs'
    BY <1>1, <1>8, <1>9, <1>11, <2>1 DEF WorkStep
  <2>4. Grown
    BY <1>1, <1>7, <1>8, <1>9, <1>10, <1>11, <2>1, <2>3 DEF Grown
  <2>5. QED
    BY <1>3, <1>8, <1>9, <1>12, <1>13, <2>1, <2>2, <2>4 DEF Committed
<1>14. ASSUME NEW k, e.newWorks = <<NewWork(u, i, s, k)>>, k \in DOMAIN logs',
              logs' \in Seq(Log), Len(logs) <= Len(logs'), Len(logs') <= scene.logs,
              \A j \in DOMAIN logs : logs'[j] = M[j]
       PROVE  /\ Grown /\ OldRows(L, W, e)
              /\ Len(works') = Len(works) + 1
              /\ works'[Len(works) + 1] = NewWork(u, i, s, k)
  <2>1. DOMAIN logs' = 1..Len(logs') /\ Len(logs') \in Nat
    BY <1>14, RowsOfSeq
  <2>2. k \in 1..MaxLogs
    BY <1>1, <1>14, <2>1
  <2>3. NewWork(u, i, s, k) \in Work
    BY <1>1, <1>4, <2>2 DEF NewWork, Work
  <2>4. works' = V \o <<NewWork(u, i, s, k)>>
    BY <1>6, <1>14
  <2>5. /\ works' \in Seq(Work) /\ Len(works') = Len(works) + 1
        /\ DOMAIN works' = 1..(Len(works) + 1)
        /\ \A n \in DOMAIN works : works'[n] = V[n]
        /\ works'[Len(works) + 1] = NewWork(u, i, s, k)
    BY <1>9, <2>3, <2>4, NewRow
  <2>6. Len(works') <= scene.works
    <3>1. Len(e.newWorks) = 1
      BY <1>14
    <3>2. QED
      BY <1>1, <1>6, <1>7, <2>5, <3>1
  <2>7. OldRows(L, W, e)
    BY <1>8, <1>9, <1>14, <2>5 DEF OldRows
  <2>8. \A n \in DOMAIN works' : works'[n].cluster \in DOMAIN logs'
    <3> SUFFICES ASSUME NEW n \in DOMAIN works' PROVE works'[n].cluster \in DOMAIN logs'
      OBVIOUS
    <3>1. CASE n \in DOMAIN works
      <4>1. works'[n].cluster = works[n].cluster /\ works[n].cluster \in DOMAIN logs
        BY <1>1, <1>11, <2>5, <3>1 DEF WorkStep
      <4>2. QED
        BY <1>7, <1>14, <2>1, <4>1
    <3>2. CASE n = Len(works) + 1
      BY <1>14, <2>5, <3>2 DEF NewWork
    <3>3. QED
      BY <1>7, <2>5, <3>1, <3>2
  <2>9. Grown
    <3>1. \A j \in DOMAIN logs : LogStep(logs[j], logs'[j])
      BY <1>10, <1>14
    <3>2. \A n \in DOMAIN works : WorkStep(works[n], works'[n])
      BY <1>11, <2>5
    <3>3. Len(works) <= Len(works')
      BY <1>7, <2>5
    <3>4. QED
      BY <1>14, <2>5, <2>6, <2>8, <3>1, <3>2, <3>3 DEF Grown
  <2>10. QED
    BY <2>5, <2>7, <2>9
<1>15. CASE AddsWork(e, L, u, i, s)
  <2>1. PICK k \in Open(L, u, i) : e.newWorks = <<NewWork(u, i, s, k)>>
    BY <1>15 DEF AddsWork
  <2>2. logs' = M
    BY <1>6, <1>8, <1>15, ConcatEmptySeq DEF AddsWork
  <2>3. k \in DOMAIN logs'
    BY <1>2, <1>7, <1>8, <2>2 DEF Open
  <2>4. logs' \in Seq(Log) /\ Len(logs') = Len(logs) /\ Len(logs') <= scene.logs
    BY <1>1, <1>8, <2>2
  <2>5. /\ Grown /\ OldRows(L, W, e)
        /\ Len(works') = Len(works) + 1
        /\ works'[Len(works) + 1] = NewWork(u, i, s, k)
    BY <1>7, <1>14, <2>1, <2>2, <2>3, <2>4
  <2> HIDE DEF u, i, s
  <2>6. QED
    BY <1>3, <1>12, <1>15, <2>1, <2>3, <2>4, <2>5 DEF u, i, s, Committed
<1>16. CASE AddsLog(e, L, u, i, s)
  <2> DEFINE k == Len(logs) + 1
  <2>1. e.newLogs = <<NewLog(u, i, s)>> /\ e.newWorks = <<NewWork(u, i, s, k)>>
    BY <1>16 DEF AddsLog
  <2>2. NewLog(u, i, s) \in Log
    BY <1>4 DEF NewLog, Log
  <2>3. logs' = M \o <<NewLog(u, i, s)>>
    BY <1>6, <2>1
  <2>4. /\ logs' \in Seq(Log) /\ Len(logs') = Len(logs) + 1 /\ DOMAIN logs' = 1..(Len(logs) + 1)
        /\ \A j \in DOMAIN logs : logs'[j] = M[j]
        /\ logs'[Len(logs) + 1] = NewLog(u, i, s)
    BY <1>8, <2>2, <2>3, NewRow
  <2>5. Len(logs') <= scene.logs
    <3>1. Len(e.newLogs) = 1
      BY <2>1
    <3>2. QED
      BY <1>1, <1>6, <1>7, <2>4, <3>1
  <2>6. k \in DOMAIN logs' /\ Len(logs) <= Len(logs')
    BY <1>7, <2>4
  <2>7. QED
    BY <1>3, <1>12, <1>14, <1>16, <2>1, <2>4, <2>5, <2>6 DEF Committed
<1>17. QED
  BY <1>5, <1>13, <1>15, <1>16
-----------------------------------------------------------------------------
(* Time logs are entered, by a manual request or by the confirmation of a  *)
(* chain session.                                                          *)
Book ==
  /\ \E new \in Seq(Log) :
       /\ logs' = logs \o new /\ Len(logs) + Len(new) <= scene.logs
       /\ \A k \in DOMAIN new : new[k].state = "done" /\ new[k].entered
  /\ UNCHANGED <<works, now, slow, slowSoFar, atWork, worked, mixed, overlapped, scene>>

LEMMA BookStep ==
  ASSUME WorkInv, Book
  PROVE  /\ Grown /\ \A k \in DOMAIN logs : logs'[k] = logs[k]
         /\ \A k \in DOMAIN logs' :
              k \notin DOMAIN logs => logs'[k].state = "done" /\ logs'[k].entered
<1>1. /\ logs \in Seq(Log) /\ works \in Seq(Work) /\ Len(works) <= scene.works
      /\ works' = works /\ scene.works \in Nat /\ scene.logs \in Nat
      /\ \A n \in DOMAIN works : works[n].cluster \in DOMAIN logs
  BY SceneFacts DEF WorkInv, TypeOK, Book
<1>2. /\ DOMAIN logs = 1..Len(logs) /\ Len(logs) \in Nat /\ \A k \in DOMAIN logs : logs[k] \in Log
      /\ DOMAIN works = 1..Len(works) /\ Len(works) \in Nat /\ \A n \in DOMAIN works : works[n] \in Work
  BY <1>1, RowsOfSeq
<1>3. PICK new \in Seq(Log) :
        /\ logs' = logs \o new /\ Len(logs) + Len(new) <= scene.logs
        /\ \A k \in DOMAIN new : new[k].state = "done" /\ new[k].entered
  BY DEF Book
<1>4. Len(new) \in Nat /\ DOMAIN new = 1..Len(new)
  BY RowsOfSeq
<1>5. /\ logs' \in Seq(Log) /\ Len(logs') = Len(logs) + Len(new)
      /\ \A k \in 1 .. Len(logs) + Len(new) :
           logs'[k] = IF k <= Len(logs) THEN logs[k] ELSE new[k - Len(logs)]
  BY <1>1, <1>3, ConcatProperties
<1>6. DOMAIN logs' = 1..(Len(logs) + Len(new))
  BY <1>5, RowsOfSeq
<1>7. \A k \in DOMAIN logs : logs'[k] = logs[k] /\ k \in DOMAIN logs'
  BY <1>2, <1>4, <1>5, <1>6
<1>8. \A k \in DOMAIN logs' :
        k \notin DOMAIN logs => logs'[k].state = "done" /\ logs'[k].entered
  <2> SUFFICES ASSUME NEW k \in DOMAIN logs', k \notin DOMAIN logs
               PROVE  logs'[k].state = "done" /\ logs'[k].entered
    OBVIOUS
  <2>1. ~(k <= Len(logs)) /\ k - Len(logs) \in DOMAIN new
    BY <1>2, <1>4, <1>6
  <2>2. QED
    BY <1>3, <1>5, <1>6, <2>1
<1>9. \A k \in DOMAIN logs : LogStep(logs[k], logs'[k])
  BY <1>2, <1>7, LogStepSame
<1>10. \A n \in DOMAIN works : WorkStep(works[n], works'[n])
  BY <1>1, <1>2, WorkStepSame
<1>11. Len(logs) <= Len(logs') /\ Len(logs') <= scene.logs /\ Len(works) <= Len(works')
  BY <1>1, <1>2, <1>3, <1>4, <1>5
<1>12. QED
  BY <1>1, <1>5, <1>7, <1>8, <1>9, <1>10, <1>11 DEF Grown

LEMMA EnteredRow ==
  ASSUME NEW u \in User, NEW i \in Issue, NEW s \in Source, NEW d \in Nat
  PROVE  Entered(u, i, s, d) \in Log /\ Entered(u, i, s, d).state = "done"
         /\ Entered(u, i, s, d).entered
<1>1. Target[i] \in Issue /\ RoundUp(d) \in Nat
  BY TargetType, RoundUpType
<1>2. QED
  BY <1>1 DEF Entered, Log

LEMMA ManualBooks ==
  ASSUME WorkInv, NEW w \in scene.who, NEW d \in scene.given, Manual(w[1], w[2], w[3], d)
  PROVE  Book
<1> DEFINE x == Entered(w[1], w[2], w[3], d)
<1>1. x \in Log /\ x.state = "done" /\ x.entered
  BY SceneFacts, EnteredRow DEF WorkInv
<1>2. /\ logs \in Seq(Log) /\ Len(logs) \in Nat /\ scene.logs \in Nat
  BY SceneFacts, RowsOfSeq DEF WorkInv, TypeOK
<1>3. logs' = Append(logs, x) /\ Len(logs) < scene.logs
  BY DEF Manual
<1>4. UNCHANGED <<works, now, slow, slowSoFar, atWork, worked, mixed, overlapped, scene>>
  BY DEF Manual
<1> HIDE DEF x
<1>5. Append(logs, x) = logs \o <<x>>
  BY <1>1, <1>2, AppendIsConcat
<1>6. /\ <<x>> \in Seq(Log) /\ Len(<<x>>) = 1
      /\ \A k \in DOMAIN <<x>> : <<x>>[k] = x
  BY <1>1
<1>7. Len(logs) + Len(<<x>>) <= scene.logs
  BY <1>2, <1>3, <1>6
<1>8. \A k \in DOMAIN <<x>> : <<x>>[k].state = "done" /\ <<x>>[k].entered
  BY <1>1, <1>6
<1>9. QED
  BY <1>3, <1>4, <1>5, <1>6, <1>7, <1>8 DEF Book


LEMMA UpdateStep ==
  ASSUME WorkInv, NEW k \in DOMAIN logs, NEW d \in scene.given, Update(k, d)
  PROVE  /\ Grown /\ DOMAIN logs' = DOMAIN logs /\ works' = works
         /\ \A j \in DOMAIN logs : logs'[j].state = logs[j].state
<1> DEFINE b == [logs[k] EXCEPT !.duration = RoundedUp(d), !.entered = TRUE]
<1>1. /\ logs \in Seq(Log) /\ works \in Seq(Work)
      /\ Len(logs) <= scene.logs /\ Len(works) <= scene.works
      /\ scene.works \in Nat /\ scene.logs \in Nat
      /\ \A n \in DOMAIN works : works[n].cluster \in DOMAIN logs
  BY SceneFacts DEF WorkInv, TypeOK
<1>2. /\ DOMAIN logs = 1..Len(logs) /\ Len(logs) \in Nat /\ \A j \in DOMAIN logs : logs[j] \in Log
      /\ DOMAIN works = 1..Len(works) /\ Len(works) \in Nat /\ \A n \in DOMAIN works : works[n] \in Work
  BY <1>1, RowsOfSeq
<1>3. RoundedUp(d) \in Nat
  BY SceneFacts, RoundedUpType DEF WorkInv
<1>4. LogStep(logs[k], b) /\ b.state = logs[k].state
  BY <1>2, <1>3, UpdatedRow
<1>5. logs' = [logs EXCEPT ![k] = b]
  BY DEF Update
<1>6. works' = works
  BY DEF Update
<1>7. b \in Log
  BY <1>4 DEF LogStep
<1> HIDE DEF b
<1>8. logs' \in Seq(Log) /\ Len(logs') = Len(logs)
  BY <1>1, <1>2, <1>5, <1>7, ExceptSeq
<1>9. DOMAIN logs' = DOMAIN logs /\ \A j \in DOMAIN logs : logs'[j] = IF j = k THEN b ELSE logs[j]
  BY <1>2, <1>5
<1>10. \A j \in DOMAIN logs : LogStep(logs[j], logs'[j]) /\ logs'[j].state = logs[j].state
  BY <1>2, <1>4, <1>9, LogStepSame
<1>11. \A n \in DOMAIN works : WorkStep(works[n], works'[n])
  BY <1>2, <1>6, WorkStepSame
<1>12. Grown
  BY <1>1, <1>2, <1>6, <1>8, <1>9, <1>10, <1>11 DEF Grown
<1>13. QED
  BY <1>6, <1>9, <1>10, <1>12

LEMMA DeleteStep ==
  ASSUME WorkInv, NEW k \in DOMAIN logs, Delete(k)
  PROVE  /\ Grown /\ DOMAIN logs' = DOMAIN logs /\ DOMAIN works' = DOMAIN works
         /\ \A j \in DOMAIN logs : j # k => logs'[j] = logs[j]
         /\ logs'[k].state = "deleted"
         /\ \A n \in DOMAIN works :
              IF works[n].cluster = k THEN works'[n].state = "cancel" /\ works'[n].end # 0
              ELSE works'[n] = works[n]
<1>1. /\ logs \in Seq(Log) /\ works \in Seq(Work) /\ now \in Nat \ {0}
      /\ Len(logs) <= scene.logs /\ Len(works) <= scene.works
      /\ scene.works \in Nat /\ scene.logs \in Nat
      /\ \A n \in DOMAIN works : works[n].cluster \in DOMAIN logs
  BY SceneFacts DEF WorkInv, TypeOK
<1>2. /\ DOMAIN logs = 1..Len(logs) /\ Len(logs) \in Nat /\ \A j \in DOMAIN logs : logs[j] \in Log
      /\ DOMAIN works = 1..Len(works) /\ Len(works) \in Nat /\ \A n \in DOMAIN works : works[n] \in Work
  BY <1>1, RowsOfSeq
<1>3. logs' = Deleted(logs, {k}) /\ works' = Cancelled(works, {k})
  BY DEF Delete
<1>4. /\ LogsStep(logs, logs')
      /\ \A j \in DOMAIN logs : j # k => logs'[j] = logs[j]
      /\ logs'[k].state = "deleted"
  BY <1>1, <1>3, DeletedStep
<1>5. /\ WorksStep(works, works')
      /\ \A n \in DOMAIN works :
           IF works[n].cluster = k THEN works'[n].state = "cancel" /\ works'[n].end # 0
           ELSE works'[n] = works[n]
  BY <1>1, <1>3, CancelledStep
<1>6. /\ DOMAIN logs' = DOMAIN logs /\ \A j \in DOMAIN logs : LogStep(logs[j], logs'[j])
      /\ DOMAIN works' = DOMAIN works /\ \A n \in DOMAIN works : WorkStep(works[n], works'[n])
  BY <1>4, <1>5 DEF LogsStep, WorksStep
<1>7. logs' \in Seq(Log) /\ Len(logs') = Len(logs)
  <2>1. \A j \in 1..Len(logs) : logs'[j] \in Log
    BY <1>2, <1>6 DEF LogStep
  <2>2. logs' = [j \in 1..Len(logs) |-> logs'[j]]
    BY <1>2, <1>3 DEF Deleted
  <2>3. logs' \in [1..Len(logs) -> Log]
    BY <2>1, <2>2
  <2>4. logs' \in Seq(Log)
    BY <1>2, <2>3, SeqDef
  <2>5. DOMAIN logs' = 1..Len(logs') /\ Len(logs') \in Nat
    BY <2>4, RowsOfSeq
  <2>6. QED
    BY <1>2, <1>6, <2>4, <2>5
<1>8. works' \in Seq(Work) /\ Len(works') = Len(works)
  <2>1. \A n \in 1..Len(works) : works'[n] \in Work
    BY <1>2, <1>6 DEF WorkStep
  <2>2. works' = [n \in 1..Len(works) |-> works'[n]]
    BY <1>2, <1>3 DEF Cancelled
  <2>3. works' \in [1..Len(works) -> Work]
    BY <2>1, <2>2
  <2>4. works' \in Seq(Work)
    BY <1>2, <2>3, SeqDef
  <2>5. DOMAIN works' = 1..Len(works') /\ Len(works') \in Nat
    BY <2>4, RowsOfSeq
  <2>6. QED
    BY <1>2, <1>6, <2>4, <2>5
<1>9. \A n \in DOMAIN works' : works'[n].cluster \in DOMAIN logs'
  BY <1>1, <1>6 DEF WorkStep
<1>10. Grown
  BY <1>1, <1>2, <1>6, <1>7, <1>8, <1>9 DEF Grown
<1>11. QED
  BY <1>4, <1>5, <1>6, <1>10
-----------------------------------------------------------------------------
(* The type invariant, with what a snapshot is to the tables.              *)
LEMMA SnapshotKept ==
  ASSUME WorkInv, Grown, NEW L, NEW W, Snapshot(L, W)
  PROVE  Snapshot(L, W)'
<1>1. /\ logs \in Seq(Log) /\ works \in Seq(Work)
  BY DEF WorkInv, TypeOK
<1>2. /\ DOMAIN logs = 1..Len(logs) /\ Len(logs) \in Nat
      /\ DOMAIN works = 1..Len(works) /\ Len(works) \in Nat
  BY <1>1, RowsOfSeq
<1>3. /\ L \in Seq(Log) /\ Len(L) <= Len(logs)
      /\ \A k \in DOMAIN L : LogStep(L[k], logs[k])
      /\ W \in Seq(Work) /\ Len(W) <= Len(works)
      /\ \A n \in DOMAIN W : WorkStep(W[n], works[n])
  BY DEF Snapshot
<1>4. /\ logs' \in Seq(Log) /\ Len(logs) <= Len(logs')
      /\ \A k \in DOMAIN logs : LogStep(logs[k], logs'[k])
      /\ works' \in Seq(Work) /\ Len(works) <= Len(works')
      /\ \A n \in DOMAIN works : WorkStep(works[n], works'[n])
  BY DEF Grown
<1>5. /\ DOMAIN L = 1..Len(L) /\ Len(L) \in Nat /\ DOMAIN W = 1..Len(W) /\ Len(W) \in Nat
      /\ Len(logs') \in Nat /\ Len(works') \in Nat
  BY <1>3, <1>4, RowsOfSeq
<1>6. \A k \in DOMAIN L : LogStep(L[k], logs'[k])
  <2> SUFFICES ASSUME NEW k \in DOMAIN L PROVE LogStep(L[k], logs'[k])
    OBVIOUS
  <2>1. k \in DOMAIN logs
    BY <1>2, <1>3, <1>5
  <2>2. QED
    BY <1>3, <1>4, <2>1, LogStepTwice
<1>7. \A n \in DOMAIN W : WorkStep(W[n], works'[n])
  <2> SUFFICES ASSUME NEW n \in DOMAIN W PROVE WorkStep(W[n], works'[n])
    OBVIOUS
  <2>1. n \in DOMAIN works
    BY <1>2, <1>3, <1>5
  <2>2. QED
    BY <1>3, <1>4, <2>1, WorkStepTwice
<1>8. Len(L) <= Len(logs') /\ Len(W) <= Len(works')
  BY <1>2, <1>3, <1>4, <1>5
<1>9. QED
  BY <1>3, <1>6, <1>7, <1>8 DEF Snapshot

LEMMA SnapshotNow == WorkInv => Snapshot(logs, works)
<1> SUFFICES ASSUME WorkInv PROVE Snapshot(logs, works)
  OBVIOUS
<1>1. /\ logs \in Seq(Log) /\ works \in Seq(Work)
  BY DEF WorkInv, TypeOK
<1>2. /\ Len(logs) \in Nat /\ \A j \in DOMAIN logs : logs[j] \in Log
      /\ Len(works) \in Nat /\ \A n \in DOMAIN works : works[n] \in Work
  BY <1>1, RowsOfSeq
<1>3. QED
  BY <1>1, <1>2, LogStepSame, WorkStepSame DEF Snapshot


LEMMA GrownInv ==
  ASSUME WorkInv, Grown, scene' = scene, now' = now, slowSoFar' = slowSoFar, worked' = worked,
         slow' = slow \/ slow' = <<>>,
         atWork' \subseteq User \X Issue \X Source, mixed' \cup overlapped' \subseteq 1..MaxLogs
  PROVE  WorkInv'
<1>1. slow' # <<>> => Snapshot(slow[1].logs, slow[1].works)'
  <2> SUFFICES ASSUME slow' # <<>> PROVE Snapshot(slow[1].logs, slow[1].works)'
    OBVIOUS
  <2>1. slow' = slow /\ Snapshot(slow[1].logs, slow[1].works)
    BY DEF WorkInv
  <2>2. PICK L, W : L = slow[1].logs /\ W = slow[1].works
    OBVIOUS
  <2>3. Snapshot(L, W)'
    BY <2>1, <2>2, SnapshotKept
  <2>4. QED
    BY <2>1, <2>2, <2>3 DEF Snapshot
<1>2. TypeOK'
  <2>1. /\ logs' \in Seq(Log) /\ Len(logs') <= scene.logs
        /\ works' \in Seq(Work) /\ Len(works') <= scene.works
    BY DEF Grown
  <2>2. /\ {now, slowSoFar} \subseteq Nat /\ worked \in [1..MaxLogs -> Nat]
        /\ Len(slow) <= 1 /\ (slow # <<>> => slow[1].request \in Request)
    BY DEF WorkInv, TypeOK
  <2>3. Len(slow') <= 1 /\ (slow' # <<>> => slow'[1].request \in Request)
    <3>1. Len(<<>>) <= 1
      OBVIOUS
    <3>2. QED
      BY <2>2, <3>1
  <2>4. QED
    BY <2>1, <2>2, <2>3 DEF TypeOK
<1>3. QED
  BY <1>1, <1>2 DEF WorkInv, Grown

LEMMA WorkInit == Init => WorkInv
<1> SUFFICES ASSUME Init PROVE WorkInv
  OBVIOUS
<1>1. scene \in Scenes /\ scene.logs \in Nat /\ scene.works \in Nat /\ MaxLogs \in Nat
  BY SceneFacts, SceneAssumption DEF Init
<1>2. /\ logs = <<>> /\ works = <<>> /\ now = 1 /\ slow = <<>> /\ slowSoFar = 0
      /\ atWork = {} /\ worked = [k \in 1..MaxLogs |-> 0] /\ mixed = {} /\ overlapped = {}
  BY DEF Init
<1>3. TypeOK
  BY <1>1, <1>2 DEF TypeOK
<1>4. \A n \in DOMAIN works : works[n].cluster \in DOMAIN logs
  BY <1>2
<1>5. QED
  BY <1>1, <1>2, <1>3, <1>4 DEF WorkInv

LEMMA ServeStep ==
  ASSUME WorkInv, NEW r \in Requests, Serve(r)
  PROVE  /\ WorkInv' /\ overlapped' = overlapped
         /\ \E e \in Effects(r, logs, works) : Committed(r, logs, works, e)
<1>1. r \in Request
  BY SceneFacts DEF WorkInv
<1>2. PICK e \in Effects(r, logs, works) : Commit(logs, works, e)
  BY DEF Serve
<1>3. Committed(r, logs, works, e)
  BY <1>1, <1>2, SnapshotNow, CommitStep
<1>4. UNCHANGED <<now, slow, slowSoFar, worked, overlapped, scene>>
  BY DEF Serve
<1>5. WorkInv'
  <2>1. overlapped \subseteq 1..MaxLogs
    BY DEF WorkInv, TypeOK
  <2>2. mixed' \cup overlapped' \subseteq 1..MaxLogs
    BY <1>3, <1>4, <2>1 DEF Committed
  <2>3. Grown /\ atWork' \subseteq User \X Issue \X Source
    BY <1>3 DEF Committed
  <2>4. QED
    BY <1>4, <2>2, <2>3, GrownInv
<1>6. QED
  BY <1>3, <1>4, <1>5

(* The time logs that the commit of a slow request is to mark.             *)
LEMMA CompleteStep ==
  ASSUME WorkInv, Complete
  PROVE  /\ WorkInv'
         /\ \E L, W : \E r \in Request : \E e \in Effects(r, L, W) :
              /\ Snapshot(L, W) /\ Committed(r, L, W, e)
              /\ overlapped' =
                   overlapped \cup
                     {k \in Touched : \E o \in Outdated(L, W) : logs[o].issue = logs'[k].issue}
<1>1. slow # <<>> /\ slow[1].request \in Request /\ Snapshot(slow[1].logs, slow[1].works)
  BY DEF WorkInv, TypeOK, Complete
<1>2. PICK r, L, W : r = slow[1].request /\ L = slow[1].logs /\ W = slow[1].works
  OBVIOUS
<1>3. r \in Request /\ Snapshot(L, W)
  BY <1>1, <1>2
<1>4. /\ \E e \in Effects(r, L, W) : Commit(L, W, e)
      /\ overlapped' =
           overlapped \cup
             {k \in Touched : \E o \in Outdated(L, W) : logs[o].issue = logs'[k].issue}
      /\ slow' = <<>> /\ UNCHANGED <<now, slowSoFar, worked, scene>>
  BY <1>2 DEF Complete
<1>5. PICK e \in Effects(r, L, W) : Commit(L, W, e)
  BY <1>4
<1>6. Committed(r, L, W, e)
  BY <1>3, <1>5, CommitStep
<1>7. Grown /\ atWork' \subseteq User \X Issue \X Source /\ mixed' \subseteq 1..MaxLogs
  BY <1>6 DEF Committed
<1>8. Touched \subseteq 1..MaxLogs
  <2>1. /\ logs' \in Seq(Log) /\ Len(logs') <= scene.logs
        /\ \A n \in DOMAIN works' : works'[n].cluster \in DOMAIN logs'
    BY <1>7 DEF Grown
  <2>2. scene.logs \in Nat /\ scene.logs <= MaxLogs /\ MaxLogs \in Nat
    BY SceneFacts, SceneAssumption DEF WorkInv
  <2>3. DOMAIN logs' = 1..Len(logs') /\ Len(logs') \in Nat
    BY <2>1, RowsOfSeq
  <2>4. DOMAIN logs' \subseteq 1..MaxLogs
    BY <2>1, <2>2, <2>3
  <2>5. QED
    BY <2>1, <2>4 DEF Touched
<1>9. overlapped \subseteq 1..MaxLogs
  BY DEF WorkInv, TypeOK
<1>10. mixed' \cup overlapped' \subseteq 1..MaxLogs
  <2> HIDE DEF Touched, Outdated
  <2>1. QED
    BY <1>4, <1>7, <1>8, <1>9
<1>11. WorkInv'
  BY <1>4, <1>7, <1>10, GrownInv
<1>12. QED
  BY <1>3, <1>4, <1>6, <1>11

LEMMA DelayStep ==
  ASSUME WorkInv, NEW r \in Requests, Delay(r)
  PROVE  WorkInv'
<1>1. /\ slow' = <<[request |-> r, logs |-> logs, works |-> works]>>
      /\ slowSoFar' = slowSoFar + 1
      /\ UNCHANGED <<logs, works, now, atWork, worked, mixed, overlapped, scene>>
  BY DEF Delay
<1>2. r \in Request
  BY SceneFacts DEF WorkInv
<1>3. /\ Len(slow') = 1 /\ slow'[1].request = r
      /\ slow'[1].logs = logs /\ slow'[1].works = works
  BY <1>1
<1>4. TypeOK'
  BY <1>1, <1>2, <1>3 DEF WorkInv, TypeOK
<1>5. Snapshot(slow[1].logs, slow[1].works)'
  BY <1>1, <1>3, SnapshotNow DEF Snapshot
<1>6. QED
  BY <1>1, <1>4, <1>5 DEF WorkInv

LEMMA AbortStep ==
  ASSUME WorkInv, Abort
  PROVE  WorkInv'
<1>1. slow' = <<>> /\ UNCHANGED <<logs, works, now, slowSoFar, atWork, worked, mixed, overlapped, scene>>
  BY DEF Abort
<1>2. Len(<<>>) <= 1
  OBVIOUS
<1>3. TypeOK'
  BY <1>1, <1>2 DEF WorkInv, TypeOK
<1>4. QED
  BY <1>1, <1>3 DEF WorkInv

LEMMA TickStep ==
  ASSUME WorkInv, Tick
  PROVE  WorkInv'
<1>1. /\ slow = <<>> /\ now' = now + 1
      /\ UNCHANGED <<logs, works, slow, slowSoFar, atWork, mixed, overlapped, scene>>
  BY DEF Tick
<1>2. now \in Nat /\ worked \in [1..MaxLogs -> Nat]
  BY DEF WorkInv, TypeOK
<1>3. worked' \in [1..MaxLogs -> Nat]
  BY <1>2 DEF Tick
<1>4. now' \in Nat /\ now' # 0
  BY <1>1, <1>2
<1>5. TypeOK'
  BY <1>1, <1>3, <1>4 DEF WorkInv, TypeOK
<1>6. QED
  BY <1>1, <1>4, <1>5 DEF WorkInv
-----------------------------------------------------------------------------
(* A request whose snapshot is outdated marks what it writes.              *)
Marked(L, W) ==
  \A k \in Touched : \A o \in Outdated(L, W) :
    logs[o].issue = logs'[k].issue => k \in overlapped'

LEMMA NothingOutdated == Outdated(logs, works) = {}
BY DEF Outdated

LEMMA OneLogQuiet ==
  ASSUME OneLogInProgress, overlapped \subseteq overlapped',
         \A k \in DOMAIN logs' :
           logs'[k].state = "progress" => k \in DOMAIN logs /\ LogStep(logs[k], logs'[k])
  PROVE  OneLogInProgress'
BY DEF OneLogInProgress, LogStep

LEMMA OneLogCommitted ==
  ASSUME WorkInv, OneLogInProgress, NEW L, NEW W, NEW r, NEW e, Snapshot(L, W),
         Committed(r, L, W, e), overlapped \subseteq overlapped', Marked(L, W)
  PROVE  OneLogInProgress'
<1>1. /\ logs \in Seq(Log) /\ Grown /\ OldRows(L, W, e)
  BY DEF WorkInv, TypeOK, Committed
<1>2. /\ DOMAIN logs = 1..Len(logs) /\ Len(logs) \in Nat
      /\ DOMAIN logs' = 1..Len(logs') /\ Len(logs') \in Nat
      /\ \A k \in DOMAIN logs : LogStep(logs[k], logs'[k])
  BY <1>1, RowsOfSeq DEF Grown
<1>3. CASE Len(logs') = Len(logs)
  BY <1>2, <1>3, OneLogQuiet
<1>4. CASE /\ AddsLog(e, L, r.user, r.issue, r.source)
           /\ Len(logs') = Len(logs) + 1
           /\ logs'[Len(logs) + 1] = NewLog(r.user, r.issue, r.source)
  <2> DEFINE N == Len(logs) + 1
  <2>1. N \in Touched
    BY <1>2, <1>4 DEF Touched
  <2>2. logs'[N].user = r.user /\ logs'[N].issue = r.issue
    BY <1>4 DEF NewLog
  <2>3. \A k \in DOMAIN logs' : k \in DOMAIN logs \/ k = N
    BY <1>2, <1>4
  <2>4. ASSUME NEW k \in DOMAIN logs, logs'[k].state = "progress",
               logs'[k].user = r.user, logs'[k].issue = r.issue
        PROVE  N \in overlapped'
    <3>1. logs[k].state = "progress" /\ logs[k].user = r.user /\ logs[k].issue = r.issue
      BY <1>2, <2>4 DEF LogStep
    <3>2. k \notin DOMAIN L \/ logs[k] # L[k]
      BY <1>4, <3>1 DEF AddsLog, Open
    <3>3. k \in Outdated(L, W)
      BY <3>2 DEF Outdated
    <3> HIDE DEF N
    <3>4. QED
      BY <2>1, <2>2, <3>1, <3>3 DEF Marked
  <2> HIDE DEF N
  <2>5. ASSUME NEW j \in DOMAIN logs', NEW k \in DOMAIN logs', j # k,
               logs'[j].state = "progress", logs'[k].state = "progress",
               logs'[j].user = logs'[k].user, logs'[j].issue = logs'[k].issue
        PROVE  {j, k} \cap overlapped' # {}
    <3>1. CASE j = N
      BY <2>2, <2>3, <2>4, <2>5, <3>1
    <3>2. CASE k = N
      BY <2>2, <2>3, <2>4, <2>5, <3>2
    <3>3. CASE j # N /\ k # N
      <4>1. j \in DOMAIN logs /\ k \in DOMAIN logs
        BY <2>3, <3>3
      <4>2. LogStep(logs[j], logs'[j]) /\ LogStep(logs[k], logs'[k])
        BY <1>2, <4>1
      <4>3. {j, k} \cap overlapped # {}
        BY <2>5, <4>1, <4>2 DEF OneLogInProgress, LogStep
      <4>4. QED
        BY <4>3
    <3>4. QED
      BY <3>1, <3>2, <3>3
  <2>6. QED
    BY <2>5 DEF OneLogInProgress
<1>5. QED
  BY <1>3, <1>4 DEF Committed
-----------------------------------------------------------------------------
(* InOrder, for the work logs of a cluster k of some tables.               *)
ClusterInOrder(M, V, k) ==
  \A n \in DOMAIN V : V[n].cluster = k =>
    IF V[n].state = "progress"
    THEN /\ V[n].end = 0
         /\ k \in Pivot(M, V[n].user, V[n].issue, V[n].source)
         /\ \A m \in DOMAIN V \ {n} : V[m].cluster = k => V[m].state # "progress"
    ELSE V[n].end # 0

LEMMA ClusterSame ==
  ASSUME NEW M, NEW V, NEW k, ClusterInOrder(M, V, k),
         NEW M1, NEW V1, k \in DOMAIN M => k \in DOMAIN M1 /\ M1[k] = M[k],
         \A n \in DOMAIN V1 : V1[n].cluster = k => n \in DOMAIN V /\ V1[n] = V[n]
  PROVE  ClusterInOrder(M1, V1, k)
BY DEF ClusterInOrder, Pivot

LEMMA ClusterResting ==
  ASSUME NEW M, NEW V, NEW k,
         \A n \in DOMAIN V : V[n].cluster = k => V[n].state # "progress" /\ V[n].end # 0
  PROVE  ClusterInOrder(M, V, k)
BY DEF ClusterInOrder

LEMMA PauseOrder ==
  ASSUME NEW L \in Seq(Log), NEW W \in Seq(Work), NEW u, NEW i, NEW s, NEW k,
         now \in Nat \ {0}, ClusterInOrder(L, W, k)
  PROVE  /\ ClusterInOrder(L, Paused(L, W, u, i, s), k)
         /\ k \in Pivot(L, u, i, s) =>
              \A n \in DOMAIN W :
                W[n].cluster = k =>
                  /\ Paused(L, W, u, i, s)[n].state # "progress"
                  /\ Paused(L, W, u, i, s)[n].end # 0
<1> DEFINE N == Pieces(W, u, i, s, Pivot(L, u, i, s))
           V == Paused(L, W, u, i, s)
<1>1. /\ DOMAIN V = DOMAIN W /\ \A n \in DOMAIN W : WorkStep(W[n], V[n])
      /\ \A n \in DOMAIN W :
           IF n \in N /\ W[n].state = "progress"
           THEN V[n].state = "done" /\ V[n].end = now ELSE V[n] = W[n]
  BY PausedStep DEF WorksStep
<1>2. \A n \in DOMAIN W : V[n].cluster = W[n].cluster
  BY <1>1 DEF WorkStep
<1> HIDE DEF V
<1>3. ClusterInOrder(L, V, k)
  <2> HIDE DEF N
  <2>1. QED
    BY <1>1, <1>2 DEF ClusterInOrder
<1>4. ASSUME k \in Pivot(L, u, i, s), NEW n \in DOMAIN W, W[n].cluster = k
      PROVE  V[n].state # "progress" /\ V[n].end # 0
  <2>1. CASE W[n].state = "progress"
    <3>1. k \in Pivot(L, W[n].user, W[n].issue, W[n].source)
      BY <1>4, <2>1 DEF ClusterInOrder
    <3>2. W[n].user = u /\ W[n].issue = i /\ W[n].source = s
      BY <1>4, <3>1 DEF Pivot
    <3>3. n \in N
      BY <1>4, <3>2 DEF Pieces
    <3> HIDE DEF N
    <3>4. QED
      BY <1>1, <2>1, <3>3
  <2>2. CASE W[n].state # "progress"
    <3>1. W[n].end # 0
      BY <1>4, <2>2 DEF ClusterInOrder
    <3> HIDE DEF N
    <3>2. QED
      BY <1>1, <2>2, <3>1
  <2>3. QED
    BY <2>1, <2>2
<1>5. QED
  BY <1>3, <1>4 DEF V

LEMMA EndOrder ==
  ASSUME NEW L \in Seq(Log), NEW W \in Seq(Work), NEW u, NEW i \in Issue, NEW s,
         NEW k \in DOMAIN L, now \in Nat \ {0}, ClusterInOrder(L, W, k),
         Target[i] = i \/ k \notin Pivot(L, u, Target[i], s)
  PROVE  LET W1 == Paused(L, W, u, i, s)
         IN  ClusterInOrder(EndedLogs(L, W1, u, Target[i], s),
                            EndedWorks(L, W1, u, Target[i], s), k)
<1> DEFINE r == Target[i]
           W1 == Paused(L, W, u, i, s)
           K == Pivot(L, u, r, s)
           M == EndedLogs(L, W1, u, r, s)
           V == EndedWorks(L, W1, u, r, s)
           N == Pieces(W1, u, r, s, K)
<1>1. WorksStep(W, W1) /\ ClusterInOrder(L, W1, k)
  BY PausedStep, PauseOrder
<1>2. k \in Pivot(L, u, i, s) =>
        \A n \in DOMAIN W : W[n].cluster = k => W1[n].state # "progress" /\ W1[n].end # 0
  BY PauseOrder
<1>3. DOMAIN W1 = DOMAIN W /\ \A n \in DOMAIN W1 : W1[n] \in Work /\ W1[n].cluster = W[n].cluster
  BY <1>1 DEF WorksStep, WorkStep
<1> HIDE DEF W1
<1>4. IsFiniteSet(DOMAIN W1)
  BY <1>3, RowsOfSeq
<1>5. /\ DOMAIN M = DOMAIN L
      /\ \A j \in DOMAIN L : j \notin K => M[j] = L[j]
  BY <1>3, <1>4, EndedLogsStep DEF LogsStep
<1>6. /\ DOMAIN V = DOMAIN W1 /\ \A n \in DOMAIN W1 : V[n].cluster = W1[n].cluster
      /\ \A n \in DOMAIN W1 :
           IF n \in N THEN V[n].state = "done" /\ V[n].end = W1[n].end ELSE V[n] = W1[n]
  BY <1>3, EndedWorksStep DEF WorksStep, WorkStep
<1> HIDE DEF M, V
<1>7. CASE k \notin K
  <2>1. \A n \in DOMAIN W1 : W1[n].cluster = k => n \notin N
    BY <1>7 DEF Pieces
  <2> HIDE DEF N, K
  <2>2. QED
    BY <1>1, <1>5, <1>6, <1>7, <2>1, ClusterSame DEF M, V, W1
<1>8. CASE k \in K
  <2>1. r = i
    BY <1>8
  <2>2. \A n \in DOMAIN W1 : W1[n].cluster = k => W1[n].state # "progress" /\ W1[n].end # 0
    BY <1>2, <1>3, <1>8, <2>1
  <2> HIDE DEF N, K
  <2>3. \A n \in DOMAIN V : V[n].cluster = k => V[n].state # "progress" /\ V[n].end # 0
    BY <1>6, <2>2
  <2>4. QED
    BY <2>3, ClusterResting DEF M, V, W1
<1>9. QED
  BY <1>7, <1>8

LEMMA CancelOrder ==
  ASSUME NEW L \in Seq(Log), NEW W \in Seq(Work), NEW K, NEW k \in DOMAIN L,
         now \in Nat \ {0}, ClusterInOrder(L, W, k)
  PROVE  ClusterInOrder(Deleted(L, K), Cancelled(W, K), k)
<1>1. /\ DOMAIN Deleted(L, K) = DOMAIN L
      /\ \A j \in DOMAIN L : j \notin K => Deleted(L, K)[j] = L[j]
  BY DeletedStep DEF LogsStep
<1>2. /\ DOMAIN Cancelled(W, K) = DOMAIN W
      /\ \A n \in DOMAIN W : Cancelled(W, K)[n].cluster = W[n].cluster
      /\ \A n \in DOMAIN W :
           IF W[n].cluster \in K
           THEN Cancelled(W, K)[n].state = "cancel" /\ Cancelled(W, K)[n].end # 0
           ELSE Cancelled(W, K)[n] = W[n]
  BY CancelledStep DEF WorksStep, WorkStep
<1>3. CASE k \notin K
  BY <1>1, <1>2, <1>3, ClusterSame
<1>4. CASE k \in K
  BY <1>2, <1>4, ClusterResting
<1>5. QED
  BY <1>3, <1>4

(* No request brings into disorder a cluster it knows.                     *)
LEMMA EffectOrder ==
  ASSUME NEW L \in Seq(Log), NEW W \in Seq(Work), NEW r \in Request, now \in Nat \ {0},
         NEW e \in Effects(r, L, W), NEW k \in DOMAIN L, k \notin e.mixed,
         ClusterInOrder(L, W, k)
  PROVE  /\ ClusterInOrder(e.logs, e.works, k)
         /\ AddsWork(e, L, r.user, r.issue, r.source) /\
            e.newWorks = <<NewWork(r.user, r.issue, r.source, k)>> =>
              /\ k \in Pivot(L, r.user, r.issue, r.source)
              /\ \A n \in DOMAIN W : W[n].cluster = k => e.works[n].state # "progress"
<1> DEFINE u == r.user
           i == r.issue
           s == r.source
<1>1. r.op \in {"start", "pause", "done", "cancel"} /\ i \in Issue
  BY DEF Request
<1>2. CASE r.op = "start"
  <2>1. e \in Start(u, i, s, L, W)
    BY <1>2 DEF Effects
  <2>2. e.logs = L /\ e.works = Paused(L, W, u, i, s)
    BY <2>1, StartShape
  <2>3. ClusterInOrder(e.logs, e.works, k)
    BY <2>2, PauseOrder
  <2>4. ASSUME AddsWork(e, L, u, i, s), e.newWorks = <<NewWork(u, i, s, k)>>
        PROVE  k \in Pivot(L, u, i, s)
    <3>1. PICK j \in Open(L, u, i) :
            e.newWorks = <<NewWork(u, i, s, j)>> /\ (L[j].source # s => j \in e.mixed)
      BY <2>4 DEF AddsWork
    <3>2. j = k
      <4>1. NewWork(u, i, s, j) = NewWork(u, i, s, k)
        BY <2>4, <3>1
      <4>2. NewWork(u, i, s, j).cluster = j /\ NewWork(u, i, s, k).cluster = k
        BY DEF NewWork
      <4>3. QED
        BY <4>1, <4>2
    <3>3. QED
      BY <3>1, <3>2 DEF Open, Pivot
  <2>5. k \in Pivot(L, u, i, s) =>
          \A n \in DOMAIN W : W[n].cluster = k => e.works[n].state # "progress"
    BY <2>2, PauseOrder
  <2>6. QED
    BY <2>3, <2>4, <2>5
<1>3. CASE r.op # "start"
  <2>1. ~AddsWork(e, L, u, i, s)
    <3>1. AddsNothing(e)
      BY <1>1, <1>3, PauseShape, DoneShape, CancelShape DEF Effects
    <3>2. <<>> # <<NewWork(u, i, s, k)>> /\ \A j : <<>> # <<NewWork(u, i, s, j)>>
      OBVIOUS
    <3>3. QED
      BY <3>1, <3>2 DEF AddsNothing, AddsWork
  <2>2. CASE r.op = "pause"
    <3>1. e.logs = L /\ e.works = Paused(L, W, u, i, s)
      BY <2>2, PauseShape DEF Effects
    <3>2. QED
      BY <2>1, <3>1, PauseOrder
  <2>3. CASE r.op = "done"
    <3>1. \/ e.logs = L /\ e.works = Paused(L, W, u, i, s)
          \/ /\ e.logs = EndedLogs(L, Paused(L, W, u, i, s), u, Target[i], s)
             /\ e.works = EndedWorks(L, Paused(L, W, u, i, s), u, Target[i], s)
             /\ Target[i] # i => Pivot(L, u, Target[i], s) \subseteq e.mixed
      <4>1. e \in Done(u, i, s, L, W)
        BY <2>3 DEF Effects
      <4> HIDE DEF u, i, s
      <4>2. QED
        BY <1>1, <4>1, DoneShape
    <3>2. QED
      BY <1>1, <2>1, <3>1, PauseOrder, EndOrder
  <2>4. CASE r.op = "cancel"
    <3>1. /\ e.logs = Deleted(L, Pivot(L, u, i, s))
          /\ e.works = Cancelled(W, Pivot(L, u, i, s))
      BY <2>4, CancelShape DEF Effects
    <3>2. QED
      BY <2>1, <3>1, CancelOrder
  <2>5. QED
    BY <1>1, <1>3, <2>2, <2>3, <2>4
<1>4. QED
  BY <1>2, <1>3
-----------------------------------------------------------------------------
AllInOrder ==
  \A k \in DOMAIN logs : k \in mixed \cup overlapped \/ ClusterInOrder(logs, works, k)

LEMMA AllInOrderIs ==
  ASSUME WorkInv
  PROVE  AllInOrder => WorkCanBeEnded
<1> SUFFICES ASSUME AllInOrder, NEW n \in DOMAIN works,
                    works[n].cluster \notin mixed \cup overlapped
             PROVE  InOrder(n)
  BY DEF WorkCanBeEnded, WorkInv
<1>1. works[n].cluster \in DOMAIN logs
  BY DEF WorkInv
<1>2. ClusterInOrder(logs, works, works[n].cluster)
  BY <1>1 DEF AllInOrder
<1>3. QED
  BY <1>2 DEF ClusterInOrder, InOrder

(* A cluster the step does not write to.                                   *)
LEMMA UntouchedOrder ==
  ASSUME WorkInv, Grown, NEW k \in DOMAIN logs, k \notin Touched,
         ClusterInOrder(logs, works, k)
  PROVE  ClusterInOrder(logs', works', k)
<1>1. /\ logs \in Seq(Log) /\ logs' \in Seq(Log) /\ Len(logs) <= Len(logs')
  BY DEF WorkInv, TypeOK, Grown
<1>2. k \in DOMAIN logs'
  <2>1. /\ DOMAIN logs = 1..Len(logs) /\ Len(logs) \in Nat
        /\ DOMAIN logs' = 1..Len(logs') /\ Len(logs') \in Nat
    BY <1>1, RowsOfSeq
  <2>2. QED
    BY <1>1, <2>1
<1>3. logs'[k] = logs[k]
  BY <1>2 DEF Touched
<1>4. \A n \in DOMAIN works' :
        works'[n].cluster = k => n \in DOMAIN works /\ works'[n] = works[n]
  BY DEF Touched
<1>5. QED
  BY <1>2, <1>3, <1>4, ClusterSame

(* One of which the request had read the current state.                    *)
LEMMA CurrentOrder ==
  ASSUME WorkInv, NEW L, NEW W, NEW r \in Request, NEW e \in Effects(r, L, W),
         Snapshot(L, W), Committed(r, L, W, e),
         NEW k \in DOMAIN logs, k \notin Outdated(L, W), k \notin mixed',
         ClusterInOrder(logs, works, k)
  PROVE  ClusterInOrder(logs', works', k)
<1> DEFINE u == r.user
           i == r.issue
           s == r.source
<1>1. /\ k \in DOMAIN L /\ logs[k] = L[k]
      /\ \A n \in DOMAIN works :
           works[n].cluster = k => n \in DOMAIN W /\ works[n] = W[n]
  BY DEF Outdated
<1>2. /\ logs \in Seq(Log) /\ works \in Seq(Work) /\ now \in Nat \ {0}
      /\ L \in Seq(Log) /\ W \in Seq(Work) /\ Len(L) <= Len(logs) /\ Len(W) <= Len(works)
      /\ \A n \in DOMAIN W : WorkStep(W[n], works[n])
      /\ logs' \in Seq(Log) /\ works' \in Seq(Work)
      /\ \A n \in DOMAIN works : WorkStep(works[n], works'[n])
      /\ Len(logs) <= Len(logs') /\ Len(works) <= Len(works')
  BY DEF WorkInv, TypeOK, Snapshot, Committed, Grown
<1>3. /\ DOMAIN logs = 1..Len(logs) /\ Len(logs) \in Nat
      /\ DOMAIN works = 1..Len(works) /\ Len(works) \in Nat
      /\ DOMAIN L = 1..Len(L) /\ Len(L) \in Nat /\ DOMAIN W = 1..Len(W) /\ Len(W) \in Nat
      /\ DOMAIN logs' = 1..Len(logs') /\ Len(logs') \in Nat
      /\ DOMAIN works' = 1..Len(works') /\ Len(works') \in Nat
  BY <1>2, RowsOfSeq
<1>4. \A n \in DOMAIN W : n \in DOMAIN works /\ W[n].cluster = works[n].cluster
  BY <1>2, <1>3 DEF WorkStep
<1>5. ClusterInOrder(L, W, k)
  BY <1>1, <1>4, ClusterSame
<1>6. k \notin e.mixed
  BY DEF Committed
<1>7. /\ ClusterInOrder(e.logs, e.works, k)
      /\ AddsWork(e, L, u, i, s) /\ e.newWorks = <<NewWork(u, i, s, k)>> =>
           /\ k \in Pivot(L, u, i, s)
           /\ \A n \in DOMAIN W : W[n].cluster = k => e.works[n].state # "progress"
  BY <1>1, <1>2, <1>5, <1>6, EffectOrder
<1>8. /\ DOMAIN e.logs = DOMAIN L /\ DOMAIN e.works = DOMAIN W
      /\ \A n \in DOMAIN W : e.works[n].cluster = W[n].cluster
  BY DEF Committed, EffectShape, LogsStep, WorksStep, WorkStep
<1>9. k \in DOMAIN logs' /\ logs'[k] = e.logs[k]
  <2>1. k \in DOMAIN logs'
    BY <1>2, <1>3
  <2>2. OldRows(L, W, e)
    BY DEF Committed
  <2>3. QED
    BY <1>1, <2>1, <2>2 DEF OldRows
<1>10. \A n \in DOMAIN works : works'[n].cluster = k =>
         n \in DOMAIN W /\ W[n].cluster = k /\ works'[n] = e.works[n]
  <2>1. \A n \in DOMAIN works : works'[n].cluster = works[n].cluster
    BY <1>2 DEF WorkStep
  <2>2. QED
    BY <1>1, <1>4, <2>1 DEF Committed, OldRows
<1>11. CASE \A n \in DOMAIN works' : works'[n].cluster = k => n \in DOMAIN works
  <2>1. \A n \in DOMAIN works' : works'[n].cluster = k =>
          n \in DOMAIN e.works /\ works'[n] = e.works[n]
    BY <1>8, <1>10, <1>11
  <2>2. QED
    BY <1>7, <1>9, <2>1, ClusterSame
<1>12. CASE \E n \in DOMAIN works' : works'[n].cluster = k /\ n \notin DOMAIN works
  <2> DEFINE N == Len(works) + 1
             w == NewWork(u, i, s, k)
  <2>1. PICK n \in DOMAIN works' : works'[n].cluster = k /\ n \notin DOMAIN works
    BY <1>12
  <2>2. Len(works') # Len(works)
    BY <1>3, <2>1
  <2>3. PICK j \in DOMAIN logs' :
          /\ e.newWorks = <<NewWork(u, i, s, j)>>
          /\ \/ AddsWork(e, L, u, i, s) /\ Len(logs') = Len(logs)
             \/ /\ AddsLog(e, L, u, i, s)
                /\ Len(logs') = Len(logs) + 1 /\ j = Len(logs) + 1
                /\ logs'[j] = NewLog(u, i, s)
          /\ Len(works') = Len(works) + 1
          /\ works'[Len(works) + 1] = NewWork(u, i, s, j)
    BY <2>2 DEF Committed
  <2>4. n = N /\ Len(works') = Len(works) + 1
    <3>1. Len(works') = Len(works) + 1
      BY <2>3
    <3>2. QED
      BY <1>3, <2>1, <3>1
  <2>5. j = k
    BY <2>1, <2>3, <2>4 DEF NewWork
  <2>6. AddsWork(e, L, u, i, s)
    <3>1. k # Len(logs) + 1
      BY <1>3
    <3> HIDE DEF u, i, s
    <3>2. QED
      BY <2>3, <2>5, <3>1, Zenon
  <2>7. /\ k \in Pivot(L, u, i, s)
        /\ \A m \in DOMAIN W : W[m].cluster = k => e.works[m].state # "progress"
    BY <1>7, <2>3, <2>5, <2>6
  <2>8. k \in Pivot(logs', u, i, s)
    <3>1. e.logs = L
      BY <2>6 DEF AddsWork
    <3>2. QED
      BY <1>9, <2>7, <3>1 DEF Pivot
  <2>9. works'[N] = w
    BY <2>3, <2>5
  <2>10. w.state = "progress" /\ w.end = 0 /\ w.user = u /\ w.issue = i /\ w.source = s /\ w.cluster = k
    BY DEF NewWork
  <2>11. \A m \in DOMAIN works' : m \in DOMAIN works \/ m = N
    BY <1>3, <2>4
  <2>12. \A m \in DOMAIN works :
           works'[m].cluster = k => works'[m].state # "progress" /\ works'[m].end # 0
    <3> SUFFICES ASSUME NEW m \in DOMAIN works, works'[m].cluster = k
                 PROVE  works'[m].state # "progress" /\ works'[m].end # 0
      OBVIOUS
    <3>1. m \in DOMAIN W /\ W[m].cluster = k /\ works'[m] = e.works[m]
      BY <1>10
    <3>2. e.works[m].state # "progress"
      BY <2>7, <3>1
    <3>3. e.works[m].end # 0
      BY <1>7, <1>8, <3>1, <3>2 DEF ClusterInOrder
    <3>4. QED
      BY <3>1, <3>2, <3>3
  <2> HIDE DEF N, w
  <2>13. QED
    BY <2>8, <2>9, <2>10, <2>11, <2>12 DEF ClusterInOrder
<1>13. QED
  BY <1>11, <1>12

(* A new one.                                                              *)
LEMMA NewOrder ==
  ASSUME WorkInv, NEW L, NEW W, NEW r, NEW e, Committed(r, L, W, e),
         NEW k \in DOMAIN logs', k \notin DOMAIN logs
  PROVE  ClusterInOrder(logs', works', k)
<1> DEFINE u == r.user
           i == r.issue
           s == r.source
           N == Len(works) + 1
           w == NewWork(u, i, s, k)
<1>1. /\ logs \in Seq(Log) /\ works \in Seq(Work)
      /\ logs' \in Seq(Log) /\ works' \in Seq(Work)
      /\ \A n \in DOMAIN works : WorkStep(works[n], works'[n])
      /\ \A n \in DOMAIN works : works[n].cluster \in DOMAIN logs
  BY DEF WorkInv, TypeOK, Committed, Grown
<1>2. /\ DOMAIN logs = 1..Len(logs) /\ Len(logs) \in Nat
      /\ DOMAIN works = 1..Len(works) /\ Len(works) \in Nat
      /\ DOMAIN logs' = 1..Len(logs') /\ Len(logs') \in Nat
      /\ DOMAIN works' = 1..Len(works') /\ Len(works') \in Nat
  BY <1>1, RowsOfSeq
<1>3. Len(logs') # Len(logs)
  BY <1>2
<1>4. PICK j \in DOMAIN logs' :
        /\ e.newWorks = <<NewWork(u, i, s, j)>>
        /\ \/ AddsWork(e, L, u, i, s) /\ Len(logs') = Len(logs)
           \/ /\ AddsLog(e, L, u, i, s)
              /\ Len(logs') = Len(logs) + 1 /\ j = Len(logs) + 1
              /\ logs'[j] = NewLog(u, i, s)
        /\ Len(works') = Len(works) + 1
        /\ works'[Len(works) + 1] = NewWork(u, i, s, j)
  BY <1>3 DEF Committed
<1>5. j = k /\ Len(works') = Len(works) + 1
  <2>1. Len(logs') = Len(logs) + 1 /\ j = Len(logs) + 1 /\ Len(works') = Len(works) + 1
    <3> HIDE DEF u, i, s
    <3>1. QED
      BY <1>3, <1>4, Zenon
  <2>2. QED
    BY <1>2, <2>1
<1>6. works'[N] = w /\ logs'[k] = NewLog(u, i, s)
  BY <1>3, <1>4, <1>5
<1>7. w.state = "progress" /\ w.end = 0 /\ w.user = u /\ w.issue = i /\ w.source = s /\ w.cluster = k
  BY DEF NewWork
<1>8. k \in Pivot(logs', u, i, s)
  BY <1>6 DEF Pivot, NewLog
<1>9. \A m \in DOMAIN works' : m \in DOMAIN works \/ m = N
  BY <1>2, <1>5
<1>10. \A m \in DOMAIN works : works'[m].cluster # k
  BY <1>1 DEF WorkStep
<1> HIDE DEF N, w
<1>11. QED
  BY <1>6, <1>7, <1>8, <1>9, <1>10 DEF ClusterInOrder
-----------------------------------------------------------------------------
(* What a commit leaves in order, and how many logs it leaves in progress. *)
LEMMA CommitOrder ==
  ASSUME WorkInv, AllInOrder, NEW L, NEW W, NEW r \in Request, NEW e \in Effects(r, L, W),
         Snapshot(L, W), Committed(r, L, W, e), overlapped \subseteq overlapped', Marked(L, W)
  PROVE  AllInOrder'
<1>1. Grown /\ mixed \subseteq mixed'
  BY DEF Committed
<1> SUFFICES ASSUME NEW k \in DOMAIN logs', k \notin mixed' \cup overlapped'
             PROVE  ClusterInOrder(logs', works', k)
  BY DEF AllInOrder, ClusterInOrder, Pivot
<1>2. CASE k \notin DOMAIN logs
  BY <1>2, NewOrder
<1>3. CASE k \in DOMAIN logs /\ k \notin Touched
  <2>1. ClusterInOrder(logs, works, k)
    BY <1>1, <1>3 DEF AllInOrder
  <2>2. QED
    BY <1>1, <1>3, <2>1, UntouchedOrder
<1>4. CASE k \in DOMAIN logs /\ k \in Touched
  <2>1. ClusterInOrder(logs, works, k)
    BY <1>1, <1>4 DEF AllInOrder
  <2>2. logs[k].issue = logs'[k].issue
    BY <1>1, <1>4 DEF Grown, LogStep
  <2>3. k \notin Outdated(L, W)
    BY <1>4, <2>2 DEF Marked
  <2>4. QED
    BY <1>4, <2>1, <2>3, CurrentOrder
<1>5. QED
  BY <1>2, <1>3, <1>4

(* Both properties, for the requests and for what enters time logs.        *)
WorkKept == WorkInv /\ AllInOrder /\ OneLogInProgress

LEMMA ServeKeeps ==
  ASSUME WorkKept, NEW r \in Requests, Serve(r)
  PROVE  WorkKept'
<1>1. /\ WorkInv' /\ overlapped' = overlapped
      /\ \E e \in Effects(r, logs, works) : Committed(r, logs, works, e)
  BY ServeStep DEF WorkKept
<1>2. PICK e \in Effects(r, logs, works) : Committed(r, logs, works, e)
  BY <1>1
<1>3. Marked(logs, works)
  BY NothingOutdated DEF Marked
<1>4. r \in Request /\ Snapshot(logs, works)
  BY SceneFacts, SnapshotNow DEF WorkInv, WorkKept
<1>5. overlapped \subseteq overlapped'
  BY <1>1
<1>6. AllInOrder'
  BY <1>2, <1>3, <1>4, <1>5, CommitOrder DEF WorkKept
<1>7. OneLogInProgress'
  BY <1>2, <1>3, <1>4, <1>5, OneLogCommitted DEF WorkKept
<1>8. QED
  BY <1>1, <1>6, <1>7 DEF WorkKept

LEMMA CompleteKeeps ==
  ASSUME WorkKept, Complete
  PROVE  WorkKept'
<1>1. /\ WorkInv'
      /\ \E L, W : \E r \in Request : \E e \in Effects(r, L, W) :
           /\ Snapshot(L, W) /\ Committed(r, L, W, e)
           /\ overlapped' =
                overlapped \cup
                  {k \in Touched : \E o \in Outdated(L, W) : logs[o].issue = logs'[k].issue}
  BY CompleteStep DEF WorkKept
<1>2. PICK L, W :
        \E r \in Request : \E e \in Effects(r, L, W) :
          /\ Snapshot(L, W) /\ Committed(r, L, W, e)
          /\ overlapped' =
               overlapped \cup
                 {k \in Touched : \E o \in Outdated(L, W) : logs[o].issue = logs'[k].issue}
  BY <1>1
<1>3. PICK r \in Request :
         \E e \in Effects(r, L, W) :
           /\ Snapshot(L, W) /\ Committed(r, L, W, e)
           /\ overlapped' =
                overlapped \cup
                  {k \in Touched : \E o \in Outdated(L, W) : logs[o].issue = logs'[k].issue}
  BY <1>2
<1>4. PICK e \in Effects(r, L, W) :
        /\ Snapshot(L, W) /\ Committed(r, L, W, e)
        /\ overlapped' =
             overlapped \cup
               {k \in Touched : \E o \in Outdated(L, W) : logs[o].issue = logs'[k].issue}
  BY <1>3
<1> HIDE DEF Touched, Outdated
<1>5. overlapped \subseteq overlapped' /\ Marked(L, W)
  BY <1>4 DEF Marked
<1>6. AllInOrder'
  BY <1>4, <1>5, CommitOrder DEF WorkKept
<1>7. OneLogInProgress'
  BY <1>4, <1>5, OneLogCommitted DEF WorkKept
<1>8. QED
  BY <1>1, <1>6, <1>7 DEF WorkKept

LEMMA BookKeeps ==
  ASSUME WorkKept, Book
  PROVE  WorkKept'
<1>1. /\ Grown /\ \A k \in DOMAIN logs : logs'[k] = logs[k]
      /\ \A k \in DOMAIN logs' : k \notin DOMAIN logs => logs'[k].state = "done"
  BY BookStep DEF WorkKept
<1>2. UNCHANGED <<works, now, slow, slowSoFar, atWork, worked, mixed, overlapped, scene>>
  BY DEF Book
<1>3. /\ atWork \subseteq User \X Issue \X Source /\ mixed \cup overlapped \subseteq 1..MaxLogs
      /\ \A n \in DOMAIN works : works[n].cluster \in DOMAIN logs
  BY DEF WorkKept, WorkInv, TypeOK
<1>4. WorkInv'
  BY <1>1, <1>2, <1>3, GrownInv DEF WorkKept
<1>5. AllInOrder'
  <2> SUFFICES ASSUME NEW k \in DOMAIN logs', k \notin mixed \cup overlapped
               PROVE  ClusterInOrder(logs', works, k)
    BY <1>2 DEF AllInOrder, ClusterInOrder, Pivot
  <2>1. CASE k \in DOMAIN logs
    BY <1>1, <2>1, ClusterSame DEF WorkKept, AllInOrder
  <2>2. CASE k \notin DOMAIN logs
    BY <1>3, <2>2, ClusterResting
  <2>3. QED
    BY <2>1, <2>2
<1>6. OneLogInProgress'
  <2>1. \A k \in DOMAIN logs' :
          logs'[k].state = "progress" => k \in DOMAIN logs /\ LogStep(logs[k], logs'[k])
    BY <1>1 DEF Grown
  <2>2. QED
    BY <1>2, <2>1, OneLogQuiet DEF WorkKept
<1>7. QED
  BY <1>4, <1>5, <1>6 DEF WorkKept

LEMMA UpdateKeeps ==
  ASSUME WorkKept, NEW k \in DOMAIN logs, NEW d \in scene.given, Update(k, d)
  PROVE  WorkKept'
<1>1. /\ Grown /\ DOMAIN logs' = DOMAIN logs /\ works' = works
      /\ \A j \in DOMAIN logs : logs'[j].state = logs[j].state
  BY UpdateStep DEF WorkKept
<1>2. UNCHANGED <<works, now, slow, slowSoFar, atWork, worked, mixed, overlapped, scene>>
  BY DEF Update
<1>3. /\ atWork \subseteq User \X Issue \X Source /\ mixed \cup overlapped \subseteq 1..MaxLogs
  BY DEF WorkKept, WorkInv, TypeOK
<1>4. \A j \in DOMAIN logs : LogStep(logs[j], logs'[j])
  BY <1>1 DEF Grown
<1>5. WorkInv'
  BY <1>1, <1>2, <1>3, GrownInv DEF WorkKept
<1>6. AllInOrder'
  <2> SUFFICES ASSUME NEW j \in DOMAIN logs, j \notin mixed \cup overlapped
               PROVE  ClusterInOrder(logs', works, j)
    BY <1>1, <1>2 DEF AllInOrder, ClusterInOrder, Pivot
  <2>1. ClusterInOrder(logs, works, j)
    BY DEF WorkKept, AllInOrder
  <2>2. \A u, i, s : j \in Pivot(logs, u, i, s) => j \in Pivot(logs', u, i, s)
    BY <1>1, <1>4 DEF Pivot, LogStep
  <2>3. QED
    BY <2>1, <2>2 DEF ClusterInOrder
<1>7. OneLogInProgress'
  BY <1>1, <1>2, <1>4, OneLogQuiet DEF WorkKept
<1>8. QED
  BY <1>5, <1>6, <1>7 DEF WorkKept

LEMMA DeleteKeeps ==
  ASSUME WorkKept, NEW k \in DOMAIN logs, Delete(k)
  PROVE  WorkKept'
<1>1. /\ Grown /\ DOMAIN logs' = DOMAIN logs /\ DOMAIN works' = DOMAIN works
      /\ \A j \in DOMAIN logs : j # k => logs'[j] = logs[j]
      /\ \A n \in DOMAIN works :
           IF works[n].cluster = k THEN works'[n].state = "cancel" /\ works'[n].end # 0
           ELSE works'[n] = works[n]
  BY DeleteStep DEF WorkKept
<1>2. UNCHANGED <<now, slow, slowSoFar, atWork, worked, mixed, overlapped, scene>>
  BY DEF Delete
<1>3. /\ atWork \subseteq User \X Issue \X Source /\ mixed \cup overlapped \subseteq 1..MaxLogs
  BY DEF WorkKept, WorkInv, TypeOK
<1>4. /\ \A j \in DOMAIN logs : LogStep(logs[j], logs'[j])
      /\ \A n \in DOMAIN works : works'[n].cluster = works[n].cluster
  BY <1>1 DEF Grown, WorkStep
<1>5. WorkInv'
  BY <1>1, <1>2, <1>3, GrownInv DEF WorkKept
<1>6. AllInOrder'
  <2> SUFFICES ASSUME NEW j \in DOMAIN logs, j \notin mixed \cup overlapped
               PROVE  ClusterInOrder(logs', works', j)
    BY <1>1, <1>2 DEF AllInOrder, ClusterInOrder, Pivot
  <2>1. CASE j = k
    BY <1>1, <1>4, <2>1, ClusterResting
  <2>2. CASE j # k
    <3>1. ClusterInOrder(logs, works, j)
      BY DEF WorkKept, AllInOrder
    <3>2. \A n \in DOMAIN works' :
            works'[n].cluster = j => n \in DOMAIN works /\ works'[n] = works[n]
      BY <1>1, <1>4, <2>2
    <3>3. QED
      BY <1>1, <2>2, <3>1, <3>2, ClusterSame
  <2>3. QED
    BY <2>1, <2>2
<1>7. OneLogInProgress'
  BY <1>1, <1>2, <1>4, OneLogQuiet DEF WorkKept
<1>8. QED
  BY <1>5, <1>6, <1>7 DEF WorkKept

LEMMA OthersKeep ==
  ASSUME WorkKept, \/ \E r \in Requests : Delay(r)
                   \/ Abort \/ Tick \/ UNCHANGED vars
  PROVE  WorkKept'
<1>1. UNCHANGED <<logs, works, mixed, overlapped>>
  BY DEF Delay, Abort, Tick, vars
<1>2. AllInOrder' /\ OneLogInProgress'
  BY <1>1 DEF WorkKept, AllInOrder, ClusterInOrder, Pivot, OneLogInProgress
<1>3. WorkInv'
  <2>1. CASE UNCHANGED vars
    BY <2>1 DEF WorkKept, WorkInv, TypeOK, Snapshot, vars
  <2>2. QED
    BY <2>1, DelayStep, AbortStep, TickStep DEF WorkKept
<1>4. QED
  BY <1>2, <1>3 DEF WorkKept

LEMMA RequestKeeps ==
  ASSUME WorkKept, RequestNext
  PROVE  WorkKept'
<1>1. CASE \E r \in Requests : Serve(r)
  BY <1>1, ServeKeeps
<1>2. CASE Complete
  BY <1>2, CompleteKeeps
<1>3. CASE Abort \/ \E r \in Requests : Delay(r)
  BY <1>3, OthersKeep
<1>4. CASE \E w \in scene.who, d \in scene.given : Manual(w[1], w[2], w[3], d)
  BY <1>4, ManualBooks, BookKeeps DEF WorkKept
<1>5. CASE \E k \in DOMAIN logs : Delete(k)
  BY <1>5, DeleteKeeps
<1>6. CASE \E k \in DOMAIN logs : \E d \in scene.given : Update(k, d)
  BY <1>6, UpdateKeeps
<1>7. QED
  BY <1>1, <1>2, <1>3, <1>4, <1>5, <1>6 DEF RequestNext
-----------------------------------------------------------------------------
(* The n-th of some natural numbers exists.                                *)
LEMMA NthExists ==
  ASSUME NEW N \in Nat, NEW K \in SUBSET (1..N), NEW n \in 1..Cardinality(K)
  PROVE  \E l \in K : Cardinality({m \in K : m <= l}) = n
<1> DEFINE Upto(k) == {m \in K : m <= k}
           D == 0..N
           rank == [k \in D |-> k]
           T == {k \in D : Cardinality(Upto(k)) < n}
<1> SUFFICES ASSUME \A l \in K : Cardinality(Upto(l)) # n PROVE FALSE
  OBVIOUS
<1>1. IsFiniteSet(1..N) /\ IsFiniteSet(K) /\ Cardinality(K) \in Nat
  <2>1. IsFiniteSet(1..N)
    BY FS_Interval
  <2>2. IsFiniteSet(K)
    BY <2>1, FS_Subset
  <2>3. QED
    BY <2>1, <2>2, FS_CardinalityType
<1>2. \A k \in D : IsFiniteSet(Upto(k)) /\ Cardinality(Upto(k)) \in Nat
  <2> SUFFICES ASSUME NEW k \in D
               PROVE  IsFiniteSet(Upto(k)) /\ Cardinality(Upto(k)) \in Nat
    OBVIOUS
  <2>1. Upto(k) \in SUBSET K
    OBVIOUS
  <2>2. QED
    BY <1>1, <2>1, FS_Subset, FS_CardinalityType
<1>3. Upto(0) = {} /\ Upto(N) = K
  <2>1. \A m \in K : m \in Nat /\ ~(m <= 0) /\ m <= N
    OBVIOUS
  <2>2. QED
    BY <2>1
<1>4. ASSUME NEW k \in D, \A j \in D : j < k => j \in T PROVE k \in T
  <2>1. CASE k = 0
    BY <1>3, <2>1, FS_EmptySet
  <2>2. CASE k # 0
    <3>1. k - 1 \in D /\ k - 1 \in T /\ k \in Nat
      <4>1. k - 1 \in D /\ k - 1 < k /\ k \in Nat
        BY <2>2
      <4> HIDE DEF D, T
      <4>2. QED
        BY <1>4, <4>1
    <3>2. \A m \in K : m \in Nat /\ (m <= k <=> m <= k - 1 \/ m = k) /\ ~(k <= k - 1)
      BY <3>1
    <3>3. Cardinality(Upto(k - 1)) < n
      BY <3>1
    <3>4. CASE k \in K
      <4>1. Upto(k) = Upto(k - 1) \cup {k} /\ k \notin Upto(k - 1)
        BY <3>2, <3>4
      <4>2. Cardinality(Upto(k)) = Cardinality(Upto(k - 1)) + 1
        <5> HIDE DEF Upto
        <5>1. QED
          BY <1>2, <3>1, <4>1, FS_AddElement
      <4>3. Cardinality(Upto(k)) # n
        BY <3>4
      <4>4. Cardinality(Upto(k - 1)) \in Nat
        BY <1>2, <3>1
      <4> HIDE DEF Upto
      <4>5. Cardinality(Upto(k)) < n
        BY <3>3, <4>2, <4>3, <4>4
      <4>6. QED
        BY <4>5
    <3>5. CASE k \notin K
      <4>1. Upto(k) = Upto(k - 1)
        BY <3>2, <3>5
      <4> HIDE DEF Upto
      <4>2. QED
        BY <3>3, <4>1
    <3>6. QED
      BY <3>4, <3>5
  <2>3. QED
    BY <2>1, <2>2
<1>5. D \subseteq T
  <2>1. rank \in [D -> Nat]
    OBVIOUS
  <2>2. \A k \in D : (\A j \in D : rank[j] < rank[k] => j \in T) => k \in T
    BY <1>4
  <2> HIDE DEF D, rank, T
  <2>3. QED
    BY <2>1, <2>2, RankInduction
<1>6. Cardinality(K) < n
  BY <1>3, <1>5
<1>7. QED
  BY <1>1, <1>6

(* No two lines are the n-th, and each is the n-th for some n.             *)
LEMMA NthOnce ==
  ASSUME NEW N \in Nat, NEW K \in SUBSET (1..N), NEW l \in K
  PROVE  /\ Cardinality({m \in K : m <= l}) \in 1..Cardinality(K)
         /\ \A k \in K :
              Cardinality({m \in K : m <= k}) = Cardinality({m \in K : m <= l}) => k = l
<1> DEFINE Upto(k) == {m \in K : m <= k}
<1>1. IsFiniteSet(K) /\ Cardinality(K) \in Nat /\ \A k \in K : k \in Nat
  <2>1. IsFiniteSet(1..N)
    BY FS_Interval
  <2>2. IsFiniteSet(K)
    BY <2>1, FS_Subset
  <2>3. QED
    BY <2>2, FS_CardinalityType
<1>2. ASSUME NEW k \in K
      PROVE  /\ IsFiniteSet(Upto(k)) /\ Cardinality(Upto(k)) \in Nat
             /\ Cardinality(Upto(k)) <= Cardinality(K)
  <2>1. Upto(k) \in SUBSET K
    OBVIOUS
  <2> HIDE DEF Upto
  <2>2. QED
    BY <1>1, <2>1, FS_Subset, FS_CardinalityType
<1>3. ASSUME NEW k \in K, NEW j \in K, j < k PROVE Cardinality(Upto(j)) < Cardinality(Upto(k))
  <2>1. k \notin Upto(j) /\ Upto(j) \cup {k} \in SUBSET Upto(k)
    <3>1. k \in Nat /\ j \in Nat /\ \A m \in K : m \in Nat
      BY <1>1
    <3>2. \A m \in K : m <= j => m <= k
      BY <1>3, <3>1
    <3>3. ~(k <= j) /\ k <= k
      BY <1>3, <3>1
    <3>4. QED
      BY <3>2, <3>3
  <2> HIDE DEF Upto
  <2>2. Cardinality(Upto(j) \cup {k}) = Cardinality(Upto(j)) + 1
    BY <1>2, <2>1, FS_AddElement
  <2>3. Cardinality(Upto(j) \cup {k}) <= Cardinality(Upto(k))
    BY <1>2, <2>1, FS_Subset
  <2>4. QED
    BY <1>2, <2>2, <2>3
<1>4. Cardinality(Upto(l)) # 0
  <2>1. l \in Upto(l)
    OBVIOUS
  <2> HIDE DEF Upto
  <2>2. QED
    BY <1>2, <2>1, FS_EmptySet
<1>5. ASSUME NEW k \in K, Cardinality(Upto(k)) = Cardinality(Upto(l)) PROVE k = l
  <2>1. k \in Nat /\ l \in Nat
    OBVIOUS
  <2> HIDE DEF Upto
  <2>2. ~(k < l) /\ ~(l < k)
    <3>1. ASSUME k < l PROVE FALSE
      <4>1. Cardinality(Upto(k)) < Cardinality(Upto(l))
        BY <1>3, <3>1
      <4>2. QED
        BY <1>2, <1>5, <4>1
    <3>2. ASSUME l < k PROVE FALSE
      <4>1. Cardinality(Upto(l)) < Cardinality(Upto(k))
        BY <1>3, <3>2
      <4>2. QED
        BY <1>2, <1>5, <4>1
    <3>3. QED
      BY <3>1, <3>2
  <2>3. QED
    BY <2>1, <2>2
<1>6. Cardinality(Upto(l)) \in 1..Cardinality(K)
  <2> HIDE DEF Upto
  <2>1. QED
    BY <1>1, <1>2, <1>4
<1>7. QED
  BY <1>5, <1>6

(* The rows of a session.                                                  *)
LineRow == [state : {"draft", "progress", "done"}, start : Nat, end : Nat, wrote : Nat]

SessionRow == [state : State \cup {"deleted"}, start : Nat, wrote : Nat, calls : Nat]

LineOK(row) == row \in LineRow /\ row.start <= row.end /\ row.end <= now

ChainInv ==
  /\ DOMAIN lines \subseteq Line /\ \A l \in DOMAIN lines : LineOK(lines[l])
  /\ session \in SessionRow /\ session.start <= now
  /\ shown \in [Tab -> State \cup {"closed"}]
  /\ spent \in [Line -> Nat] /\ stale \in Nat
  /\ revisited \cup vacuumed \subseteq Line

LEMMA DurationType ==
  ASSUME ChainInv, NEW l \in DOMAIN lines
  PROVE  Duration(l) \in Nat
<1>1. lines[l].start \in Nat /\ lines[l].end \in Nat /\ lines[l].start <= lines[l].end
  BY DEF ChainInv, LineOK, LineRow
<1>2. QED
  BY <1>1 DEF Duration

LEMMA BookingIs ==
  ASSUME NEW L, NEW time \in Nat
  PROVE  Booking(L, time).of = L /\ Booking(L, time).time = time
BY FormatRoundTrip DEF Booking

Durations == [l \in DOMAIN lines |-> Duration(l)]

(* What is entered when the session is confirmed: bookings of its lines,   *)
(* that of each line once.                                                 *)
BookingsFit(B, c) ==
  /\ DOMAIN B = 1..c /\ Len(B) = c
  /\ \A n \in 1..c :
       /\ B[n].time \in Nat /\ B[n].of \subseteq DOMAIN Kept
       /\ B[n].time = SumOf(Durations, B[n].of)
  /\ \A l \in DOMAIN Kept : \E n \in 1..c : l \in B[n].of
  /\ \A n, m \in 1..c : n # m => B[n].of \cap B[m].of = {}

LEMMA BookingsAre ==
  ASSUME ChainInv, NEW type \in {"issue", "separate"}
  PROVE  \E c \in Nat :
           /\ BookingsFit(Bookings(type), c)
           /\ type = "separate" => \A n \in 1..c : \E l \in Line : Bookings(type)[n].of = {l}
<1> DEFINE kept == DOMAIN Kept
           N == Len(Chained)
           nth(n) == CHOOSE l \in kept : Cardinality({m \in kept : m <= l}) = n
           term == [l \in kept |-> Duration(l)]
           Code(g) == [s \in SUBSET kept |->
                        IF s = {} THEN 0
                        ELSE g[s \ {CHOOSE x \in s : TRUE}] + Duration(CHOOSE x \in s : TRUE)]
           sum == FoldSet(LAMBDA l, sum : sum + Duration(l), 0, kept)
<1>1. /\ N \in Nat /\ Line = 1..N /\ IsFiniteSet(Line)
  BY ChainAssumption, RowsOfSeq DEF Line
<1>2. kept \subseteq DOMAIN lines /\ kept \subseteq Line
  BY DEF Kept, ChainInv
<1>3. IsFiniteSet(kept) /\ Cardinality(kept) \in Nat
  BY <1>1, <1>2, FS_Subset, FS_CardinalityType
<1>4. \A l \in kept : Duration(l) \in Nat /\ Durations[l] = Duration(l)
  BY <1>2, DurationType DEF Durations
<1>5. sum \in Nat /\ sum = SumOf(Durations, kept)
  <2>1. Nat = Nat /\ term \in [kept -> Nat]
    BY <1>4
  <2>2. ASSUME NEW g PROVE Code(g) = Adding(term, kept, g)
    BY DEF Adding
  <2>3. sum = (CHOOSE g : g = Code(g))[kept]
    BY DEF FoldSet, MapThenFoldSet
  <2>4. \A l \in kept : term[l] = Durations[l]
    BY <1>4
  <2> HIDE DEF Code, term, kept, sum
  <2>5. (CHOOSE g : g = Code(g)) = (CHOOSE g : g = Adding(term, kept, g))
    BY <2>2
  <2>6. SumOf(term, kept) \in Nat
    BY <1>3, <2>1, SumType
  <2>7. SumOf(term, kept) = SumOf(Durations, kept)
    BY <2>4, SumSame
  <2>8. QED
    BY <2>3, <2>5, <2>6, <2>7 DEF SumOf
<1>6. CASE type = "issue"
  <2>1. Bookings(type) = <<Booking(kept, sum)>>
    BY <1>6 DEF Bookings
  <2> HIDE DEF kept, sum
  <2>2. /\ DOMAIN Bookings(type) = 1..1 /\ Len(Bookings(type)) = 1
        /\ Bookings(type)[1] = Booking(kept, sum)
    BY <2>1
  <2>3. Booking(kept, sum).time = sum /\ Booking(kept, sum).of = kept
    BY <1>5, BookingIs
  <2>4. \A n \in 1..1 : n = 1
    OBVIOUS
  <2>5. BookingsFit(Bookings(type), 1)
    BY <1>5, <2>2, <2>3, <2>4 DEF BookingsFit, kept
  <2>6. QED
    BY <1>6, <2>5
<1>7. CASE type = "separate"
  <2> DEFINE c == Cardinality(kept)
             B == Bookings(type)
  <2>1. Bookings(type) = [n \in 1..c |-> Booking({nth(n)}, Duration(nth(n)))]
    BY <1>7 DEF Bookings
  <2>2. kept \in SUBSET (1..N)
    BY <1>1, <1>2
  <2>3. \A n \in 1..c : nth(n) \in kept /\ Cardinality({m \in kept : m <= nth(n)}) = n
    <3> SUFFICES ASSUME NEW n \in 1..c
                 PROVE  nth(n) \in kept /\ Cardinality({m \in kept : m <= nth(n)}) = n
      OBVIOUS
    <3> HIDE DEF kept
    <3>1. \E l \in kept : Cardinality({m \in kept : m <= l}) = n
      BY <1>1, <2>2, NthExists
    <3>2. QED
      BY <3>1
  <2>4. \A l \in kept : \E n \in 1..c : nth(n) = l
    <3> SUFFICES ASSUME NEW l \in kept PROVE \E n \in 1..c : nth(n) = l
      OBVIOUS
    <3> DEFINE n == Cardinality({m \in kept : m <= l})
    <3> HIDE DEF kept, nth
    <3>1. n \in 1..c
      BY <1>1, <2>2, NthOnce
    <3>2. nth(n) \in kept /\ Cardinality({m \in kept : m <= nth(n)}) = n
      BY <2>3, <3>1
    <3>3. \A k \in kept : Cardinality({m \in kept : m <= k}) = n => k = l
      BY <1>1, <2>2, NthOnce
    <3>4. nth(n) = l
      BY <3>2, <3>3
    <3>5. QED
      BY <3>1, <3>4
  <2> HIDE DEF kept, nth
  <2>5. \A n \in 1..c :
          /\ Booking({nth(n)}, Duration(nth(n))).of = {nth(n)}
          /\ Booking({nth(n)}, Duration(nth(n))).time = Duration(nth(n))
    BY <1>4, <2>3, BookingIs
  <2>6. \A n \in 1..c : Bookings(type)[n] = Booking({nth(n)}, Duration(nth(n)))
    BY <2>1
  <2>7. DOMAIN Bookings(type) = 1..c /\ c \in Nat
    BY <1>3, <2>1
  <2> DEFINE X == {Booking({nth(n)}, Duration(nth(n))) : n \in 1..c}
  <2>8. Bookings(type) \in [1..c -> X]
    BY <2>1
  <2> HIDE DEF c, X
  <2>9. Bookings(type) \in Seq(X)
    BY <2>7, <2>8, SeqDef
  <2>10. Len(Bookings(type)) = c
    BY <2>7, <2>9, RowsOfSeq
  <2>11. \A n \in 1..c : B[n].of = {nth(n)} /\ B[n].time = Duration(nth(n))
    BY <2>5, <2>6
  <2>12. \A n \in 1..c : B[n].time \in Nat /\ B[n].of \subseteq kept /\ B[n].time = SumOf(Durations, B[n].of)
    <3> SUFFICES ASSUME NEW n \in 1..c
                 PROVE  /\ B[n].time \in Nat /\ B[n].of \subseteq kept
                        /\ B[n].time = SumOf(Durations, B[n].of)
      OBVIOUS
    <3>1. Durations[nth(n)] = Duration(nth(n)) /\ Duration(nth(n)) \in Nat /\ nth(n) \in kept
      BY <1>4, <2>3
    <3>2. SumOf(Durations, {nth(n)}) = Duration(nth(n))
      BY <3>1, SumOne
    <3>3. QED
      BY <2>11, <3>1, <3>2
  <2>13. \A l \in kept : \E n \in 1..c : l \in B[n].of
    BY <2>4, <2>11
  <2>14. \A n, m \in 1..c : n # m => B[n].of \cap B[m].of = {}
    BY <2>3, <2>11
  <2> HIDE DEF B
  <2>15. BookingsFit(B, c)
    BY <2>7, <2>10, <2>12, <2>13, <2>14 DEF BookingsFit, kept, B
  <2>16. \A n \in 1..c : \E l \in Line : Bookings(type)[n].of = {l}
    BY <1>2, <2>3, <2>11 DEF B
  <2>17. QED
    BY <2>7, <2>15, <2>16 DEF B
<1>8. QED
  BY <1>6, <1>7

LEMMA ConfirmBooks ==
  ASSUME WorkInv, ChainInv, NEW t, NEW u \in scene.leaders,
         NEW type \in {"issue", "separate"}, Confirm(t, u, type)
  PROVE  Book
<1> DEFINE B == Bookings(type)
           new == [n \in DOMAIN B |-> BookedLog(u, type, B[n])]
<1>1. PICK c \in Nat :
        /\ DOMAIN B = 1..c /\ Len(B) = c
        /\ \A n \in 1..c :
             B[n].time \in Nat /\ (type = "separate" => \E l \in Line : B[n].of = {l})
  <2>1. PICK c \in Nat :
          /\ BookingsFit(B, c)
          /\ type = "separate" => \A n \in 1..c : \E l \in Line : B[n].of = {l}
    BY BookingsAre
  <2> HIDE DEF B
  <2>2. QED
    BY <2>1 DEF BookingsFit
<1>2. /\ logs' = logs \o new /\ Len(logs) + Len(B) <= scene.logs
      /\ UNCHANGED <<works, now, slow, slowSoFar, atWork, worked, mixed, overlapped, scene>>
  BY DEF Confirm
<1>3. u \in User
  BY SceneFacts DEF WorkInv
<1> HIDE DEF B
<1>4. \A n \in DOMAIN B :
        /\ BookedLog(u, type, B[n]) \in Log
        /\ BookedLog(u, type, B[n]).state = "done" /\ BookedLog(u, type, B[n]).entered
  <2> SUFFICES ASSUME NEW n \in DOMAIN B
               PROVE  /\ BookedLog(u, type, B[n]) \in Log
                      /\ BookedLog(u, type, B[n]).state = "done" /\ BookedLog(u, type, B[n]).entered
    OBVIOUS
  <2> DEFINE i == IF type = "issue" THEN LogToIssue
                  ELSE Chained[CHOOSE l \in B[n].of : TRUE]
  <2>1. i \in Issue
    <3>1. CASE type = "issue"
      BY <3>1, ChainAssumption
    <3>2. CASE type = "separate"
      <4>1. PICK l \in Line : B[n].of = {l}
        BY <1>1, <3>2
      <4>2. (CHOOSE x \in B[n].of : TRUE) = l
        BY <4>1
      <4>3. Chained[l] \in Issue
        BY ChainAssumption, RowsOfSeq DEF Line
      <4>4. QED
        BY <3>2, <4>2, <4>3
    <3>3. QED
      BY <3>1, <3>2
  <2>2. B[n].time \in Nat /\ Chain \in Source
    BY <1>1, ChainAssumption
  <2>3. BookedLog(u, type, B[n]) = Entered(u, i, Chain, B[n].time)
    BY DEF BookedLog
  <2> HIDE DEF i
  <2>4. QED
    BY <1>3, <2>1, <2>2, <2>3, EnteredRow
<1>5. new \in Seq(Log) /\ DOMAIN new = 1..c
  <2>1. new \in [1..c -> Log]
    BY <1>1, <1>4
  <2>2. QED
    BY <2>1, SeqDef
<1>6. Len(new) = c
  BY <1>5, RowsOfSeq
<1>7. \A n \in DOMAIN new : new[n].state = "done" /\ new[n].entered
  BY <1>4
<1> HIDE DEF new
<1>8. QED
  BY <1>1, <1>2, <1>5, <1>6, <1>7 DEF Book
-----------------------------------------------------------------------------
(* How long a line was worked on, by its row, the time the session notes   *)
(* and the clock; and that this is what the meeting spent, or no more of a *)
(* line that was started again.                                            *)
TimeOf(row, start, at) ==
  CASE row.state = "draft"    -> 0
    [] row.state = "progress" -> at - start
    [] row.state = "done"     -> row.end - row.start

Counted(l) ==
  LET time == TimeOf(lines[l], session.start, now)
  IN  IF l \in revisited THEN time <= spent[l] ELSE time = spent[l]

ChainKept ==
  ChainInv /\ (session.state # "deleted" => \A l \in DOMAIN lines : Counted(l))

LEMMA ChainKeptIs ==
  ASSUME ChainKept, now \in Nat
  PROVE  TimeOnLine
<1>1. ChainTypeOK
  <2>1. \A l \in DOMAIN lines :
          lines[l].state \in State /\ {lines[l].start, lines[l].end} \subseteq 0..now
    BY DEF ChainKept, ChainInv, LineOK, LineRow, State
  <2>2. session.state \in State \cup {"deleted"} /\ session.start \in 0..now
    BY DEF ChainKept, ChainInv, SessionRow
  <2>3. QED
    BY <2>1, <2>2 DEF ChainTypeOK, ChainKept, ChainInv
<1>2. QED
  BY <1>1 DEF TimeOnLine, ChainKept, Counted, TimeOf, Duration

LEMMA ChainKeptInit ==
  ASSUME ChainInit
  PROVE  ChainKept
<1>1. /\ lines = [l \in Line |-> [state |-> "draft", start |-> 0, end |-> 0, wrote |-> now]]
      /\ session = [state |-> "draft", start |-> 0, wrote |-> now, calls |-> 0]
      /\ shown = [t \in Tab |-> "draft"] /\ spent = [l \in Line |-> 0]
      /\ revisited = {} /\ stale = 0 /\ vacuumed = {} /\ now = 1
  BY DEF ChainInit, Init
<1>2. \A l \in DOMAIN lines : LineOK(lines[l]) /\ lines[l].state = "draft" /\ spent[l] = 0
  BY <1>1 DEF LineOK, LineRow
<1>3. session \in SessionRow /\ session.start <= now
  BY <1>1 DEF SessionRow, State
<1>4. \A l \in DOMAIN lines : Counted(l)
  BY <1>1, <1>2 DEF Counted, TimeOf
<1>5. QED
  BY <1>1, <1>2, <1>3, <1>4 DEF ChainKept, ChainInv, State

LEMMA StateOfType == \A f : StateOf(f) \in State
BY DEF StateOf, State

(* The lines in progress are ended: no line loses time by it.              *)
LEMMA EndedLine ==
  ASSUME ChainInv, now \in Nat, NEW f, NEW l \in DOMAIN f, LineOK(f[l])
  PROVE  LET row == Ended(f)[l]
         IN  /\ LineOK(row) /\ row.state # "progress"
             /\ TimeOf(row, now, now) = TimeOf(f[l], session.start, now)
             /\ TimeOf(row, session.start, now) = TimeOf(f[l], session.start, now)
             /\ f[l].state # "progress" => row = f[l]
<1>1. session.start \in Nat /\ session.start <= now
  BY DEF ChainInv, SessionRow
<1>2. CASE f[l].state = "progress"
  <2> DEFINE row == [state |-> "done", start |-> session.start, end |-> now, wrote |-> now]
  <2>1. Ended(f)[l] = row
    BY <1>2 DEF Ended
  <2>2. LineOK(row)
    BY <1>1 DEF LineOK, LineRow
  <2>3. \A start : TimeOf(row, start, now) = now - session.start
    BY DEF TimeOf
  <2>4. TimeOf(f[l], session.start, now) = now - session.start
    BY <1>2 DEF TimeOf
  <2>5. row.state # "progress"
    OBVIOUS
  <2> HIDE DEF row
  <2>6. QED
    BY <1>2, <2>1, <2>2, <2>3, <2>4, <2>5
<1>3. CASE f[l].state # "progress"
  <2>1. Ended(f)[l] = f[l]
    BY <1>3 DEF Ended
  <2>2. f[l].state \in {"draft", "done"}
    BY <1>3 DEF LineOK, LineRow
  <2>3. TimeOf(f[l], now, now) = TimeOf(f[l], session.start, now)
    BY <2>2 DEF TimeOf
  <2>4. QED
    BY <1>3, <2>1, <2>3
<1>4. QED
  BY <1>2, <1>3

(* One is started, or started again.                                       *)
LEMMA ProcessedLine ==
  ASSUME ChainInv, now \in Nat, NEW next, NEW l \in DOMAIN lines
  PROVE  LET row == Processed(next)[l]
         IN  /\ LineOK(row)
             /\ TimeOf(row, now, now) =
                  IF l \in next THEN 0 ELSE TimeOf(lines[l], session.start, now)
<1>1. LineOK(lines[l])
  BY DEF ChainInv
<1>2. /\ LineOK(Ended(lines)[l])
      /\ TimeOf(Ended(lines)[l], now, now) = TimeOf(lines[l], session.start, now)
  BY <1>1, EndedLine
<1>3. CASE l \in next
  <2> DEFINE e == Ended(lines)[l]
             row == [e EXCEPT !.state = "progress", !.wrote = now]
  <2>1. Processed(next)[l] = row
    BY <1>3 DEF Processed
  <2> HIDE DEF e
  <2>2. LineOK(row) /\ row.state = "progress"
    <3>1. LineOK(e)
      BY <1>2 DEF e
    <3>2. QED
      BY <3>1 DEF LineOK, LineRow
  <2> HIDE DEF row
  <2>3. TimeOf(row, now, now) = 0
    BY <2>2 DEF TimeOf
  <2>4. QED
    BY <1>3, <2>1, <2>2, <2>3
<1>4. CASE l \notin next
  <2>1. Processed(next)[l] = Ended(lines)[l]
    BY <1>4 DEF Processed
  <2>2. QED
    BY <1>2, <1>4, <2>1
<1>5. QED
  BY <1>3, <1>4

(* A click leaves the tabs and the count of outdated ones of their types.  *)
LEMMA ClickTypes ==
  ASSUME ChainInv, NEW t, NEW states, NEW then \in State \cup {"closed"}, Click(t, states, then)
  PROVE  /\ shown' \in [Tab -> State \cup {"closed"}] /\ stale' \in Nat
         /\ session.state # "deleted"
<1>1. shown' = [shown EXCEPT ![t] = then] /\ shown \in [Tab -> State \cup {"closed"}]
  BY DEF Click, ChainInv
<1>2. stale' = stale \/ stale' = stale + 1
  <2>1. stale' = stale + IF shown[t] = session.state THEN 0 ELSE 1
    BY DEF Click
  <2>2. stale \in Nat
    BY DEF ChainInv
  <2>3. QED
    BY <2>1, <2>2
<1>3. stale \in Nat /\ session.state # "deleted"
  BY DEF ChainInv, Click
<1>4. shown' \in [Tab -> State \cup {"closed"}]
  BY <1>1
<1>5. QED
  BY <1>2, <1>3, <1>4

(* A line counts what it did, or restarts from nothing.                    *)
LEMMA GoOnKeeps ==
  ASSUME ChainKept, now \in Nat, NEW t, NEW next, GoOn(t, next),
         revisited \subseteq revisited', revisited' \subseteq Line,
         \A l \in DOMAIN lines \cap next : l \in revisited' \/ lines[l].state = "draft"
  PROVE  ChainKept'
<1>1. /\ ChainInv /\ (session.state # "deleted" => \A l \in DOMAIN lines : Counted(l))
  BY DEF ChainKept
<1>2. /\ lines' = Processed(next) /\ session' = Gone(Processed(next))
      /\ UNCHANGED <<vars, spent, booked, vacuumed>>
      /\ Click(t, {"draft", "progress"}, StateOf(Processed(next)))
  BY DEF GoOn
<1>3. StateOf(Processed(next)) \in State
  BY StateOfType
<1>4. shown' \in [Tab -> State \cup {"closed"}] /\ stale' \in Nat /\ session.state # "deleted"
  BY <1>1, <1>2, <1>3, ClickTypes
<1>5. now' = now /\ spent' = spent /\ vacuumed' = vacuumed
  BY <1>2 DEF vars
<1>6. /\ session' \in SessionRow /\ session'.start = now
  BY <1>1, <1>2, <1>3 DEF Gone, SessionRow, ChainInv
<1>7. DOMAIN lines' = DOMAIN lines
  BY <1>2 DEF Processed
<1>8. \A l \in DOMAIN lines :
        /\ LineOK(lines'[l])
        /\ TimeOf(lines'[l], now, now) =
             IF l \in next THEN 0 ELSE TimeOf(lines[l], session.start, now)
  BY <1>1, <1>2, ProcessedLine
<1>9. \A l \in DOMAIN lines : spent[l] \in Nat
  BY <1>1 DEF ChainInv
<1>10. ChainInv'
  <2>1. (\A l \in DOMAIN lines : LineOK(lines[l]))'
    BY <1>5, <1>7, <1>8 DEF LineOK
  <2>2. /\ DOMAIN lines' \subseteq Line /\ spent' \in [Line -> Nat]
        /\ revisited' \cup vacuumed' \subseteq Line
    BY <1>1, <1>5, <1>7 DEF ChainInv
  <2>3. session'.start <= now'
    BY <1>5, <1>6
  <2>4. QED
    BY <1>4, <1>6, <2>1, <2>2, <2>3 DEF ChainInv
<1>11. \A l \in DOMAIN lines' : Counted(l)'
  <2> SUFFICES ASSUME NEW l \in DOMAIN lines PROVE Counted(l)'
    BY <1>7
  <2>1. Counted(l) /\ spent[l] \in Nat
    BY <1>1, <1>4, <1>9
  <2>2. TimeOf(lines[l], session.start, now) <= spent[l]
    BY <2>1 DEF Counted
  <2>3. TimeOf(lines[l], session.start, now)' =
          IF l \in next THEN 0 ELSE TimeOf(lines[l], session.start, now)
    BY <1>5, <1>6, <1>8 DEF TimeOf
  <2>4. CASE l \in next /\ l \in revisited'
    BY <1>5, <2>1, <2>3, <2>4 DEF Counted
  <2>5. CASE l \in next /\ l \notin revisited'
    <3>1. TimeOf(lines[l], session.start, now) = 0 /\ l \notin revisited
      BY <2>5 DEF TimeOf
    <3>2. spent[l] = 0
      BY <2>1, <3>1 DEF Counted
    <3>3. QED
      BY <1>5, <2>3, <2>5, <3>2 DEF Counted
  <2>6. CASE l \notin next
    <3>1. TimeOf(lines[l], session.start, now)' = TimeOf(lines[l], session.start, now)
      BY <2>3, <2>6
    <3> HIDE DEF TimeOf
    <3>2. QED
      BY <1>5, <2>1, <2>2, <3>1 DEF Counted
  <2>7. QED
    BY <2>4, <2>5, <2>6
<1>12. QED
  BY <1>10, <1>11 DEF ChainKept

(* Lines are left as they are, or deleted.                                 *)
LEMMA LinesLeft ==
  ASSUME ChainKept, NEW l \in DOMAIN lines, l \in DOMAIN lines', lines'[l] = lines[l],
         session.state # "deleted", session'.start = session.start,
         now' = now, spent' = spent, revisited' = revisited
  PROVE  LineOK(lines[l])' /\ Counted(l)'
<1>1. LineOK(lines[l]) /\ Counted(l)
  BY DEF ChainKept, ChainInv
<1>2. LineOK(lines[l])'
  BY <1>1 DEF LineOK
<1>3. TimeOf(lines[l], session.start, now)' = TimeOf(lines[l], session.start, now)
  BY DEF TimeOf
<1>4. Counted(l)'
  BY <1>1, <1>3 DEF Counted
<1>5. QED
  BY <1>2, <1>4

LEMMA LeftKeeps ==
  ASSUME ChainKept, session.state # "deleted",
         DOMAIN lines' \subseteq DOMAIN lines, \A l \in DOMAIN lines' : lines'[l] = lines[l],
         session' \in SessionRow, session'.start = session.start,
         shown' \in [Tab -> State \cup {"closed"}], stale' \in Nat,
         now' = now, spent' = spent, revisited' = revisited, vacuumed' \subseteq Line
  PROVE  ChainKept'
<1>1. \A l \in DOMAIN lines' : LineOK(lines[l])' /\ Counted(l)'
  BY LinesLeft
<1>2. /\ DOMAIN lines \subseteq Line /\ session.start <= now /\ spent \in [Line -> Nat]
      /\ revisited \subseteq Line
  BY DEF ChainKept, ChainInv
<1>3. QED
  BY <1>1, <1>2 DEF ChainKept, ChainInv

LEMMA SessionCalled ==
  ASSUME NEW a \in SessionRow, NEW x \in State
  PROVE  LET b == [a EXCEPT !.state = x, !.calls = @ + 1]
         IN  b \in SessionRow /\ b.start = a.start
<1>1. a.calls + 1 \in Nat /\ x \in State \cup {"deleted"}
  BY DEF SessionRow
<1>2. QED
  BY <1>1 DEF SessionRow

LEMMA EndLastKeeps ==
  ASSUME ChainKept, now \in Nat, NEW t, EndLast(t)
  PROVE  ChainKept'
<1>1. ChainInv /\ (session.state # "deleted" => \A l \in DOMAIN lines : Counted(l))
  BY DEF ChainKept
<1>2. /\ lines' = Ended(Kept) /\ Click(t, {"progress", "done"}, StateOf(Ended(Kept)))
      /\ session' = [session EXCEPT !.state = StateOf(Ended(Kept)), !.calls = @ + 1]
      /\ UNCHANGED <<vars, spent, booked, revisited, vacuumed>>
  BY DEF EndLast
<1>3. StateOf(Ended(Kept)) \in State
  BY StateOfType
<1>4. shown' \in [Tab -> State \cup {"closed"}] /\ stale' \in Nat /\ session.state # "deleted"
  BY <1>1, <1>2, <1>3, ClickTypes
<1>5. now' = now /\ spent' = spent /\ vacuumed' = vacuumed /\ revisited' = revisited
  BY <1>2 DEF vars
<1>6. session' \in SessionRow /\ session'.start = session.start /\ session.start <= now
  BY <1>1, <1>2, <1>3, SessionCalled DEF ChainInv
<1>7. DOMAIN Kept \subseteq DOMAIN lines /\ \A l \in DOMAIN Kept : Kept[l] = lines[l]
  BY DEF Kept
<1>8. DOMAIN lines' = DOMAIN Kept
  BY <1>2 DEF Ended
<1>9. ASSUME NEW l \in DOMAIN Kept PROVE LineOK(lines[l])' /\ Counted(l)'
  <2>1. LineOK(Kept[l]) /\ Counted(l) /\ l \in DOMAIN lines
    BY <1>1, <1>4, <1>7 DEF ChainInv
  <2>2. /\ LineOK(lines'[l])
        /\ TimeOf(lines'[l], session.start, now) = TimeOf(lines[l], session.start, now)
    <3>1. l \in DOMAIN Kept
      OBVIOUS
    <3>2. /\ LineOK(Ended(Kept)[l])
          /\ TimeOf(Ended(Kept)[l], session.start, now) = TimeOf(Kept[l], session.start, now)
      BY <1>1, <2>1, <3>1, EndedLine
    <3>3. QED
      BY <1>2, <1>7, <3>2
  <2>3. LineOK(lines[l])'
    BY <1>5, <2>2 DEF LineOK
  <2>4. TimeOf(lines[l], session.start, now)' = TimeOf(lines'[l], session.start, now)
    BY <1>5, <1>6 DEF TimeOf
  <2>5. Counted(l)'
    BY <1>5, <2>1, <2>2, <2>4 DEF Counted
  <2>6. QED
    BY <2>3, <2>5
<1>10. \A l \in DOMAIN lines' : LineOK(lines[l])' /\ Counted(l)'
  BY <1>8, <1>9
<1>11. /\ DOMAIN lines' \subseteq Line /\ spent' \in [Line -> Nat]
       /\ revisited' \cup vacuumed' \subseteq Line /\ session'.start <= now'
  BY <1>1, <1>5, <1>6, <1>7, <1>8 DEF ChainInv
<1>12. QED
  BY <1>4, <1>6, <1>10, <1>11 DEF ChainKept, ChainInv

LEMMA ChainTickKeeps ==
  ASSUME ChainKept, now \in Nat, ChainTick
  PROVE  ChainKept'
<1>1. /\ now' = now + 1
      /\ spent' = [l \in Line |-> IF l \in In("progress") THEN spent[l] + 1 ELSE spent[l]]
      /\ UNCHANGED <<lines, session, shown, revisited, stale, vacuumed>>
  BY DEF ChainTick, Tick
<1>2. ChainInv /\ (session.state # "deleted" => \A l \in DOMAIN lines : Counted(l))
  BY DEF ChainKept
<1>3. session.start \in Nat /\ session.start <= now
  BY <1>2 DEF ChainInv, SessionRow
<1>4. spent' \in [Line -> Nat]
  BY <1>1, <1>2 DEF ChainInv
<1>5. \A l \in DOMAIN lines : LineOK(lines[l])'
  <2>1. \A l \in DOMAIN lines : LineOK(lines[l])
    BY <1>2 DEF ChainInv
  <2>2. QED
    BY <1>1, <2>1 DEF LineOK, LineRow
<1>6. ASSUME session.state # "deleted", NEW l \in DOMAIN lines PROVE Counted(l)'
  <2>1. /\ Counted(l) /\ LineOK(lines[l]) /\ l \in Line /\ spent[l] \in Nat
    BY <1>2, <1>6 DEF ChainInv
  <2>2. CASE lines[l].state = "progress"
    <3>1. TimeOf(lines[l], session.start, now) = now - session.start
      BY <2>2 DEF TimeOf
    <3>2. TimeOf(lines[l], session.start, now)' = now' - session.start
      BY <1>1, <2>2 DEF TimeOf
    <3>3. now' - session.start = now - session.start + 1
      BY <1>1, <1>3
    <3>4. spent'[l] = spent[l] + 1
      BY <1>1, <2>1, <2>2 DEF In
    <3>5. now - session.start \in Nat
      BY <1>3
    <3>6. QED
      BY <1>1, <2>1, <3>1, <3>2, <3>3, <3>4, <3>5 DEF Counted
  <2>3. CASE lines[l].state # "progress"
    <3>1. lines[l].state \in {"draft", "done"}
      BY <2>1, <2>3 DEF LineOK, LineRow
    <3>2. TimeOf(lines[l], session.start, now)' = TimeOf(lines[l], session.start, now)
      BY <1>1, <3>1 DEF TimeOf
    <3>3. spent'[l] = spent[l]
      BY <1>1, <2>1, <2>3 DEF In
    <3>4. QED
      BY <1>1, <2>1, <3>2, <3>3 DEF Counted
  <2>4. QED
    BY <2>2, <2>3
<1>7. session'.start <= now'
  BY <1>1, <1>3
<1>8. QED
  BY <1>1, <1>2, <1>4, <1>5, <1>6, <1>7 DEF ChainKept, ChainInv

LEMMA ChainSame ==
  ASSUME ChainKept, now' = now, UNCHANGED chainVars
  PROVE  ChainKept'
BY DEF ChainKept, ChainInv, Counted, LineOK, TimeOf, chainVars

LEMMA ConfirmKeeps ==
  ASSUME ChainKept, now \in Nat, NEW t, NEW u, NEW type, Confirm(t, u, type)
  PROVE  ChainKept'
<1>1. /\ lines' = Kept /\ Click(t, {"progress", "done"}, "closed")
      /\ session' = [session EXCEPT !.state = "logged", !.wrote = now, !.calls = @ + 1]
      /\ UNCHANGED <<now, spent, revisited, vacuumed>>
  BY DEF Confirm
<1>2. ChainInv
  BY DEF ChainKept
<1>3. shown' \in [Tab -> State \cup {"closed"}] /\ stale' \in Nat /\ session.state # "deleted"
  <2>1. "closed" \in State \cup {"closed"}
    OBVIOUS
  <2>2. QED
    BY <1>1, <1>2, <2>1, ClickTypes
<1>4. /\ session' \in SessionRow /\ session'.start = session.start
  <2>1. session \in SessionRow
    BY <1>2 DEF ChainInv
  <2>2. session.calls + 1 \in Nat /\ "logged" \in State
    BY <2>1 DEF SessionRow, State
  <2>3. now \in Nat
    OBVIOUS
  <2>4. QED
    BY <1>1, <2>1, <2>2, <2>3 DEF SessionRow
<1>5. DOMAIN lines' \subseteq DOMAIN lines /\ \A l \in DOMAIN lines' : lines'[l] = lines[l]
  BY <1>1 DEF Kept
<1>6. vacuumed' \subseteq Line
  BY <1>1, <1>2 DEF ChainInv
<1>7. QED
  BY <1>1, <1>3, <1>4, <1>5, <1>6, LeftKeeps

LEMMA ReloadKeeps ==
  ASSUME ChainKept, NEW t, Reload(t)
  PROVE  ChainKept'
<1>1. /\ session.state # "deleted" /\ shown' = [shown EXCEPT ![t] = session.state]
      /\ UNCHANGED <<vars, lines, session, spent, booked, revisited, stale, vacuumed>>
  BY DEF Reload
<1>2. /\ session \in SessionRow /\ shown \in [Tab -> State \cup {"closed"}] /\ stale \in Nat
      /\ vacuumed \subseteq Line
  BY DEF ChainKept, ChainInv
<1>3. session.state \in State
  BY <1>1, <1>2 DEF SessionRow
<1>4. shown' \in [Tab -> State \cup {"closed"}]
  BY <1>1, <1>2, <1>3
<1>5. now' = now
  BY <1>1 DEF vars
<1>6. QED
  BY <1>1, <1>2, <1>4, <1>5, LeftKeeps

LEMMA VacuumLinesKeeps ==
  ASSUME ChainKept, VacuumLines
  PROVE  ChainKept'
<1> DEFINE old == {l \in DOMAIN lines : Old(lines[l])}
           rest == [l \in DOMAIN lines \ old |-> lines[l]]
<1>1. /\ session.state # "deleted" /\ lines' = rest
      /\ session' = [session EXCEPT !.state = StateOf(rest)]
      /\ vacuumed' = vacuumed \cup old
      /\ UNCHANGED <<vars, shown, spent, booked, revisited, stale>>
  BY DEF VacuumLines
<1>2. /\ session \in SessionRow /\ shown \in [Tab -> State \cup {"closed"}] /\ stale \in Nat
      /\ vacuumed \subseteq Line /\ DOMAIN lines \subseteq Line
  BY DEF ChainKept, ChainInv
<1>3. StateOf(rest) \in State
  BY StateOfType
<1>4. session' \in SessionRow /\ session'.start = session.start
  <2> HIDE DEF rest
  <2>1. QED
    BY <1>1, <1>2, <1>3 DEF SessionRow
<1>5. DOMAIN lines' \subseteq DOMAIN lines /\ \A l \in DOMAIN lines' : lines'[l] = lines[l]
  BY <1>1
<1>6. vacuumed' \subseteq Line /\ now' = now
  BY <1>1, <1>2 DEF vars
<1>7. QED
  BY <1>1, <1>2, <1>4, <1>5, <1>6, LeftKeeps

LEMMA VacuumSessionKeeps ==
  ASSUME ChainKept, VacuumSession
  PROVE  ChainKept'
<1>1. /\ session' = [session EXCEPT !.state = "deleted"]
      /\ UNCHANGED <<vars, lines, shown, spent, booked, revisited, stale, vacuumed>>
  BY DEF VacuumSession
<1>2. ChainInv /\ session \in SessionRow /\ now' = now
  BY <1>1 DEF ChainKept, ChainInv, vars
<1>3. session' \in SessionRow /\ session'.start = session.start /\ session'.state = "deleted"
  BY <1>1, <1>2 DEF SessionRow
<1>4. ChainInv'
  BY <1>1, <1>2, <1>3 DEF ChainInv, LineOK
<1>5. QED
  BY <1>3, <1>4 DEF ChainKept

LEMMA ActionNextKeeps ==
  ASSUME ChainKept, now \in Nat, NEW t, ActionNext(t)
  PROVE  ChainKept'
<1>1. GoOn(t, First(In("draft"))) /\ revisited' = revisited
  BY DEF ActionNext
<1>2. revisited' \subseteq Line /\ revisited \subseteq revisited'
  BY <1>1 DEF ChainKept, ChainInv
<1>3. \A l \in DOMAIN lines \cap First(In("draft")) : lines[l].state = "draft"
  BY DEF First, In
<1>4. QED
  BY <1>1, <1>2, <1>3, GoOnKeeps

LEMMA ActionNextOnLineKeeps ==
  ASSUME ChainKept, now \in Nat, NEW t, NEW l \in DOMAIN lines, ActionNextOnLine(t, l)
  PROVE  ChainKept'
<1>1. /\ GoOn(t, {l})
      /\ revisited' = IF lines[l].state = "draft" THEN revisited ELSE revisited \cup {l}
  BY DEF ActionNextOnLine
<1>2. revisited' \subseteq Line /\ revisited \subseteq revisited'
  BY <1>1 DEF ChainKept, ChainInv
<1>3. \A m \in DOMAIN lines \cap {l} : m \in revisited' \/ lines[m].state = "draft"
  BY <1>1
<1>4. QED
  BY <1>1, <1>2, <1>3, GoOnKeeps
-----------------------------------------------------------------------------
(* What the work logs of a cluster come to, were those in progress to end. *)
Clock(w, at) == IF w.state = "progress" THEN at - w.start ELSE Stretch(w)

Rows(W, k) == {n \in DOMAIN W : W[n].cluster = k}

Clocked(W, k, at) == SumOf([n \in DOMAIN W |-> Clock(W[n], at)], Rows(W, k))

Own(row) == <<row.user, row.issue, row.source>>

OwnRows(L, W, k) == \A n \in Rows(W, k) : Own(W[n]) = Own(L[k])

Running(W, k) == \E n \in Rows(W, k) : W[n].state = "progress"

Alone(L, k) ==
  \A j \in DOMAIN L :
    L[j].state = "progress" /\ L[j].user = L[k].user /\ L[j].issue = L[k].issue => j = k

LEMMA TotalIs ==
  ASSUME NEW W, NEW N
  PROVE  Total(W, N) = SumOf([n \in N |-> Stretch(W[n])], N)
<1> DEFINE term == [n \in N |-> Stretch(W[n])]
           Code(g) == [s \in SUBSET N |->
                        IF s = {} THEN 0
                        ELSE g[s \ {CHOOSE x \in s : TRUE}] + Stretch(W[CHOOSE x \in s : TRUE])]
<1>1. ASSUME NEW g PROVE Code(g) = Adding(term, N, g)
  BY DEF Adding
<1>2. Total(W, N) = (CHOOSE g : g = Code(g))[N]
  BY DEF Total, FoldSet, MapThenFoldSet
<1> HIDE DEF Code, term
<1>3. (CHOOSE g : g = Code(g)) = (CHOOSE g : g = Adding(term, N, g))
  BY <1>1
<1>4. QED
  BY <1>2, <1>3 DEF SumOf, term

LEMMA ClockedSame ==
  ASSUME NEW W, NEW V, NEW k, NEW a, NEW b, Rows(V, k) = Rows(W, k),
         \A n \in Rows(W, k) : Clock(V[n], b) = Clock(W[n], a)
  PROVE  Clocked(V, k, b) = Clocked(W, k, a)
<1> DEFINE f == [n \in DOMAIN V |-> Clock(V[n], b)]
           g == [n \in DOMAIN W |-> Clock(W[n], a)]
<1>1. \A n \in Rows(W, k) : f[n] = g[n]
  <2>1. \A n \in Rows(W, k) : n \in DOMAIN W /\ n \in DOMAIN V
    BY DEF Rows
  <2>2. QED
    BY <2>1
<1> HIDE DEF f, g
<1>2. SumOf(f, Rows(W, k)) = SumOf(g, Rows(W, k))
  BY <1>1, SumSame
<1>3. QED
  BY <1>2 DEF Clocked, f, g

LEMMA ClockType ==
  ASSUME NEW W \in Seq(Work), NEW k, NEW at \in Nat
  PROVE  /\ IsFiniteSet(Rows(W, k)) /\ Rows(W, k) \subseteq DOMAIN W
         /\ \A n \in DOMAIN W : Clock(W[n], at) \in Int
         /\ Clocked(W, k, at) \in Int
<1>1. IsFiniteSet(DOMAIN W) /\ \A n \in DOMAIN W : W[n] \in Work
  BY RowsOfSeq
<1>2. IsFiniteSet(Rows(W, k)) /\ Rows(W, k) \subseteq DOMAIN W
  BY <1>1, FS_Subset DEF Rows
<1>3. \A n \in DOMAIN W : Clock(W[n], at) \in Int
  BY <1>1 DEF Clock, Stretch, Work
<1> DEFINE f == [n \in DOMAIN W |-> Clock(W[n], at)]
           g == [n \in Rows(W, k) |-> f[n]]
<1>4. g \in [Rows(W, k) -> Int] /\ \A n \in Rows(W, k) : g[n] = f[n]
  BY <1>2, <1>3
<1> HIDE DEF f, g
<1>5. SumOf(f, Rows(W, k)) = SumOf(g, Rows(W, k)) /\ SumOf(g, Rows(W, k)) \in Int
  BY <1>2, <1>4, SumSame, SumType
<1>6. QED
  BY <1>2, <1>3, <1>5 DEF Clocked, f

(* Pausing does not change what the work logs come to.                     *)
PauseKeeps(L, W, V, k, t) ==
  /\ DOMAIN V = DOMAIN W /\ Rows(V, k) = Rows(W, k) /\ OwnRows(L, V, k)
  /\ \A n \in DOMAIN W : V[n] \in Work
  /\ \A n \in Rows(W, k) : Clock(V[n], now) = Clock(W[n], now)
  /\ Own(L[k]) = t => ~Running(V, k)
  /\ Own(L[k]) # t => (Running(V, k) <=> Running(W, k))

LEMMA PauseAccount ==
  ASSUME NEW L \in Seq(Log), NEW W \in Seq(Work), NEW u, NEW i, NEW s,
         now \in Nat \ {0}, NEW k \in DOMAIN L, L[k].state = "progress", OwnRows(L, W, k),
         NEW V, V = Paused(L, W, u, i, s)
  PROVE  /\ PauseKeeps(L, W, V, k, <<u, i, s>>)
         /\ (Own(L[k]) \in atWork <=> Running(W, k)) =>
              (Own(L[k]) \in Stopped(W, V, u, i, s) <=> Running(V, k))
<1> DEFINE N == Pieces(W, u, i, s, Pivot(L, u, i, s))
<1>1. /\ DOMAIN V = DOMAIN W /\ \A n \in DOMAIN W : WorkStep(W[n], V[n])
      /\ \A n \in DOMAIN W :
           IF n \in N /\ W[n].state = "progress"
           THEN V[n].state = "done" /\ V[n].end = now /\ V[n].start = W[n].start
           ELSE V[n] = W[n]
  <2>1. /\ WorksStep(W, V)
        /\ \A n \in DOMAIN W :
             IF n \in N /\ W[n].state = "progress"
             THEN V[n].state = "done" /\ V[n].end = now /\ V[n].start = W[n].start
             ELSE V[n] = W[n]
    <3>1. now \in Nat
      OBVIOUS
    <3>2. QED
      BY <3>1, PausedStep, SMTT(30)
  <2> HIDE DEF N
  <2>2. QED
    BY <2>1 DEF WorksStep
<1>2. \A n \in DOMAIN W : n \in N <=> /\ Own(W[n]) = <<u, i, s>>
                                      /\ W[n].cluster \in Pivot(L, u, i, s)
  BY DEF Pieces, Own
<1>3. Own(L[k]) = <<u, i, s>> => k \in Pivot(L, u, i, s)
  BY DEF Own, Pivot
<1>4. \A n \in Rows(W, k) : n \in DOMAIN W /\ W[n].cluster = k /\ Own(W[n]) = Own(L[k])
  BY DEF Rows, OwnRows
<1> HIDE DEF N
<1>5. \A n \in DOMAIN W : V[n] \in Work /\ V[n].cluster = W[n].cluster /\ Own(V[n]) = Own(W[n])
  BY <1>1 DEF WorkStep, Own
<1>6. Rows(V, k) = Rows(W, k)
  BY <1>1, <1>5 DEF Rows
<1>7. OwnRows(L, V, k)
  BY <1>4, <1>5, <1>6 DEF OwnRows
<1>8. \A n \in Rows(W, k) : Clock(V[n], now) = Clock(W[n], now)
  <2> SUFFICES ASSUME NEW n \in Rows(W, k) PROVE Clock(V[n], now) = Clock(W[n], now)
    OBVIOUS
  <2>1. CASE n \in N /\ W[n].state = "progress"
    <3>1. V[n].state = "done" /\ V[n].end = now /\ V[n].start = W[n].start
      BY <1>1, <1>4, <2>1
    <3>2. QED
      BY <2>1, <3>1 DEF Clock, Stretch
  <2>2. CASE ~(n \in N /\ W[n].state = "progress")
    BY <1>1, <1>4, <2>2
  <2>3. QED
    BY <2>1, <2>2
<1>9. Own(L[k]) = <<u, i, s>> => ~Running(V, k)
  <2> SUFFICES ASSUME Own(L[k]) = <<u, i, s>>, NEW n \in Rows(W, k)
               PROVE  V[n].state # "progress"
    BY <1>6 DEF Running
  <2>1. n \in N
    BY <1>2, <1>3, <1>4
  <2>2. QED
    BY <1>1, <1>4, <2>1
<1>10. ASSUME Own(L[k]) # <<u, i, s>> PROVE \A n \in Rows(W, k) : V[n] = W[n]
  BY <1>1, <1>2, <1>4, <1>10
<1>11. Own(L[k]) # <<u, i, s>> => (Running(V, k) <=> Running(W, k))
  BY <1>6, <1>10 DEF Running
<1>12. ASSUME Own(L[k]) \in atWork <=> Running(W, k)
       PROVE  Own(L[k]) \in Stopped(W, V, u, i, s) <=> Running(V, k)
  <2>1. CASE V = W
    BY <1>12, <2>1 DEF Stopped
  <2>2. CASE V # W
    BY <1>9, <1>11, <1>12, <2>2 DEF Stopped
  <2>3. QED
    BY <2>1, <2>2
<1>13. QED
  BY <1>1, <1>5, <1>6, <1>7, <1>8, <1>9, <1>11, <1>12 DEF PauseKeeps

LEMMA DurationRow ==
  ASSUME NEW a \in Log, NEW d
  PROVE  LET b == [a EXCEPT !.state = "done", !.entered = FALSE, !.duration = d]
         IN  b.state = "done" /\ ~b.entered /\ b.duration = d
BY DEF Log

(* What EndedLogs bills for a log that is alone in progress.               *)
LEMMA EndedAccount ==
  ASSUME NEW L \in Seq(Log), NEW V, NEW u, NEW i, NEW s, NEW k \in Pivot(L, u, i, s),
         Alone(L, k), OwnRows(L, V, k), ~Running(V, k)
  PROVE  LET clocked == Clocked(V, k, now)
         IN  /\ ~EndedLogs(L, V, u, i, s)[k].entered
             /\ EndedLogs(L, V, u, i, s)[k].state = "done"
             /\ EndedLogs(L, V, u, i, s)[k].duration =
                  RoundedUp(IF clocked > Floor THEN clocked ELSE Floor)
<1> DEFINE K == Pivot(L, u, i, s)
           N == Pieces(V, u, i, s, K)
           total == Total(V, N)
           d == RoundedUp(IF total > Floor THEN total ELSE Floor)
           f == [n \in DOMAIN V |-> Clock(V[n], now)]
           g == [n \in N |-> Stretch(V[n])]
<1>1. k \in DOMAIN L /\ Own(L[k]) = <<u, i, s>> /\ L[k].state = "progress"
  BY DEF Pivot, Own
<1>2. K = {k}
  BY <1>1 DEF Pivot, Alone
<1>3. N = Rows(V, k)
  <2> HIDE DEF K
  <2>1. \A n \in Rows(V, k) : V[n].user = u /\ V[n].issue = i /\ V[n].source = s
    BY <1>1 DEF OwnRows, Own
  <2>2. QED
    BY <1>2, <2>1 DEF Rows, Pieces
<1>4. total = Clocked(V, k, now)
  <2>1. total = SumOf(g, N)
    BY TotalIs
  <2>2. \A n \in N : g[n] = f[n]
    <3> SUFFICES ASSUME NEW n \in N PROVE g[n] = f[n]
      OBVIOUS
    <3> HIDE DEF N
    <3>1. n \in DOMAIN V /\ V[n].state # "progress"
      BY <1>3 DEF Rows, Running
    <3>2. QED
      BY <3>1 DEF Clock
  <2> HIDE DEF f, g, N, total
  <2>3. QED
    BY <1>3, <2>1, <2>2, SumSame DEF Clocked, f
<1>5. EndedLogs(L, V, u, i, s)[k] =
        [L[k] EXCEPT !.state = "done", !.entered = FALSE, !.duration = d]
  BY <1>1 DEF EndedLogs
<1>6. L[k] \in Log
  BY <1>1, RowsOfSeq
<1>7. d = RoundedUp(IF Clocked(V, k, now) > Floor THEN Clocked(V, k, now) ELSE Floor)
  <2> HIDE DEF total
  <2>1. QED
    BY <1>4
<1> HIDE DEF d
<1>8. QED
  BY <1>5, <1>6, <1>7, DurationRow

(* What a request makes of a log in progress that is alone, and of which   *)
(* it knows the work logs.                                                 *)
Account(e, r, L, W, k) ==
  e.logs[k].state # "deleted" =>
    /\ Rows(e.works, k) = Rows(W, k)
    /\ \A n \in Rows(W, k) : Clock(e.works[n], now) = Clock(W[n], now)
    /\ e.logs[k].state = "progress" =>
         (Own(L[k]) \in e.atWork <=>
            \/ Running(e.works, k)
            \/ e.newWorks = <<NewWork(r.user, r.issue, r.source, k)>>)
    /\ e.logs[k].state = "done" =>
         LET clocked == Clocked(W, k, now)
         IN  /\ ~e.logs[k].entered
             /\ e.logs[k].duration = RoundedUp(IF clocked > Floor THEN clocked ELSE Floor)

Accountable(L, W, k) ==
  /\ k \in DOMAIN L /\ k \in DOMAIN logs /\ L[k].state = "progress" /\ Alone(L, k)
  /\ OwnRows(L, W, k) /\ (Own(L[k]) \in atWork <=> Running(W, k))

LEMMA NewWorkCluster ==
  ASSUME NEW u, NEW i, NEW s, NEW j, NEW k,
         <<NewWork(u, i, s, j)>> = <<NewWork(u, i, s, k)>>
  PROVE  j = k
<1>1. NewWork(u, i, s, j) = NewWork(u, i, s, k)
  OBVIOUS
<1>2. NewWork(u, i, s, j).cluster = j /\ NewWork(u, i, s, k).cluster = k
  BY DEF NewWork
<1>3. QED
  BY <1>1, <1>2

LEMMA StartAccount ==
  ASSUME NEW L \in Seq(Log), NEW W \in Seq(Work), NEW u, NEW i, NEW s,
         now \in Nat \ {0}, logs \in Seq(Log),
         NEW e \in Start(u, i, s, L, W), NEW k, k \notin e.mixed, Accountable(L, W, k)
  PROVE  /\ Rows(e.works, k) = Rows(W, k) /\ e.logs = L
         /\ \A n \in Rows(W, k) : Clock(e.works[n], now) = Clock(W[n], now)
         /\ Own(L[k]) \in e.atWork <=>
              Running(e.works, k) \/ e.newWorks = <<NewWork(u, i, s, k)>>
<1> DEFINE V == Paused(L, W, u, i, s)
<1>1. /\ k \in DOMAIN L /\ k \in DOMAIN logs /\ L[k].state = "progress" /\ Alone(L, k)
      /\ OwnRows(L, W, k) /\ (Own(L[k]) \in atWork <=> Running(W, k))
  BY DEF Accountable
<1>2. /\ EffectShape(e, L, W, u, i, s) /\ ~AddsNothing(e) /\ e.logs = L /\ e.works = V
      /\ e.atWork = atWork \cup {<<u, i, s>>}
  BY StartShape
<1>3. V = Paused(L, W, u, i, s)
  OBVIOUS
<1> HIDE DEF V
<1>8. /\ Rows(V, k) = Rows(W, k)
      /\ \A n \in Rows(W, k) : Clock(V[n], now) = Clock(W[n], now)
      /\ Own(L[k]) = <<u, i, s>> => ~Running(V, k)
      /\ Own(L[k]) # <<u, i, s>> => (Running(V, k) <=> Running(W, k))
  <2>1. PauseKeeps(L, W, V, k, <<u, i, s>>)
    BY <1>1, <1>3, PauseAccount
  <2>2. QED
    BY <2>1 DEF PauseKeeps
<1>4. AddsWork(e, L, u, i, s) \/ AddsLog(e, L, u, i, s)
  BY <1>2 DEF EffectShape
<1>5. ASSUME e.newWorks = <<NewWork(u, i, s, k)>> PROVE Own(L[k]) = <<u, i, s>>
  <2>1. CASE AddsLog(e, L, u, i, s)
    <3>1. Len(logs) + 1 = k
      BY <1>5, <2>1, NewWorkCluster DEF AddsLog
    <3>2. Len(logs) \in Nat /\ DOMAIN logs = 1..Len(logs)
      BY RowsOfSeq
    <3>3. QED
      BY <1>1, <3>1, <3>2
  <2>2. CASE AddsWork(e, L, u, i, s)
    <3>1. PICK j \in Open(L, u, i) :
            e.newWorks = <<NewWork(u, i, s, j)>> /\ (L[j].source # s => j \in e.mixed)
      BY <2>2 DEF AddsWork
    <3>2. j = k
      BY <1>5, <3>1, NewWorkCluster
    <3>3. QED
      BY <3>1, <3>2 DEF Open, Own
  <2>3. QED
    BY <1>4, <2>1, <2>2
<1>6. ASSUME Own(L[k]) = <<u, i, s>> PROVE e.newWorks = <<NewWork(u, i, s, k)>>
  <2>1. k \in Open(L, u, i)
    BY <1>1, <1>6 DEF Open, Own
  <2>2. AddsWork(e, L, u, i, s)
    BY <1>4, <2>1 DEF AddsLog
  <2>3. PICK j \in Open(L, u, i) : e.newWorks = <<NewWork(u, i, s, j)>>
    BY <2>2 DEF AddsWork
  <2>4. j = k
    BY <1>1, <1>6, <2>3 DEF Open, Alone, Own
  <2>5. QED
    BY <2>3, <2>4
<1>7. QED
  BY <1>1, <1>2, <1>5, <1>6, <1>8

LEMMA EffectAccount ==
  ASSUME NEW L \in Seq(Log), NEW W \in Seq(Work), NEW r \in Request,
         now \in Nat \ {0}, logs \in Seq(Log),
         NEW e \in Effects(r, L, W), NEW k, k \notin e.mixed, Accountable(L, W, k)
  PROVE  Account(e, r, L, W, k)
<1> DEFINE u == r.user
           i == r.issue
           s == r.source
           V == Paused(L, W, u, i, s)
<1>1. /\ k \in DOMAIN L /\ k \in DOMAIN logs /\ L[k].state = "progress" /\ Alone(L, k)
      /\ OwnRows(L, W, k) /\ (Own(L[k]) \in atWork <=> Running(W, k))
  BY DEF Accountable
<1>2. r.op \in {"start", "pause", "done", "cancel"} /\ i \in Issue
  BY DEF Request
<1>3. /\ Rows(V, k) = Rows(W, k) /\ OwnRows(L, V, k) /\ \A n \in DOMAIN V : V[n] \in Work
      /\ \A n \in Rows(W, k) : Clock(V[n], now) = Clock(W[n], now)
      /\ Own(L[k]) = <<u, i, s>> => ~Running(V, k)
      /\ Own(L[k]) \in Stopped(W, V, u, i, s) <=> Running(V, k)
  <2>1. V = Paused(L, W, u, i, s)
    OBVIOUS
  <2> HIDE DEF V, u, i, s
  <2>2. /\ PauseKeeps(L, W, V, k, <<u, i, s>>)
        /\ Own(L[k]) \in Stopped(W, V, u, i, s) <=> Running(V, k)
    BY <1>1, <2>1, PauseAccount
  <2>3. QED
    BY <2>2 DEF PauseKeeps
<1>4. CASE r.op = "start"
  <2>1. e \in Start(u, i, s, L, W)
    BY <1>4 DEF Effects
  <2> HIDE DEF V
  <2>2. QED
    BY <1>1, <2>1, StartAccount DEF Account
<1>5. ASSUME AddsNothing(e) PROVE e.newWorks # <<NewWork(u, i, s, k)>>
  <2>1. <<>> # <<NewWork(u, i, s, k)>>
    OBVIOUS
  <2>2. QED
    BY <1>5, <2>1 DEF AddsNothing
<1>6. ASSUME AddsNothing(e), e.logs = L, e.works = V, e.atWork = Stopped(W, V, u, i, s)
      PROVE  Account(e, r, L, W, k)
  <2> HIDE DEF V
  <2>1. QED
    BY <1>1, <1>3, <1>5, <1>6 DEF Account
<1>7. CASE r.op = "pause"
  <2>1. e \in Pause(u, i, s, L, W)
    BY <1>7 DEF Effects
  <2>2. AddsNothing(e) /\ e.logs = L /\ e.works = V /\ e.atWork = Stopped(W, V, u, i, s)
    BY <2>1, PauseShape
  <2>3. QED
    BY <1>6, <2>2
<1>8. CASE r.op = "done"
  <2> DEFINE t == Target[i]
             K == Pivot(L, u, t, s)
             N == Pieces(V, u, t, s, K)
  <2>1. e \in Done(u, i, s, L, W)
    BY <1>8 DEF Effects
  <2>2. /\ AddsNothing(e) /\ e.atWork = Stopped(W, V, u, i, s)
        /\ \/ e.logs = L /\ e.works = V
           \/ /\ e.logs = EndedLogs(L, V, u, t, s) /\ e.works = EndedWorks(L, V, u, t, s)
              /\ t # i => K \subseteq e.mixed
    <3> HIDE DEF u, i, s
    <3>1. i \in Issue
      BY <1>2
    <3>2. AddsNothing(e)
      BY <2>1, <3>1, DoneShape
    <3>5. e.atWork = Stopped(W, Paused(L, W, u, i, s), u, i, s)
      BY <2>1, <3>1, DoneShape
    <3>3. \/ e.logs = L /\ e.works = Paused(L, W, u, i, s)
          \/ /\ e.logs = EndedLogs(L, Paused(L, W, u, i, s), u, Target[i], s)
             /\ e.works = EndedWorks(L, Paused(L, W, u, i, s), u, Target[i], s)
             /\ Target[i] # i => Pivot(L, u, Target[i], s) \subseteq e.mixed
      BY <2>1, <3>1, DoneShape
    <3>4. QED
      BY <3>2, <3>3, <3>5
  <2>3. CASE e.logs = L /\ e.works = V
    BY <1>6, <2>2, <2>3
  <2>4. CASE /\ e.logs = EndedLogs(L, V, u, t, s) /\ e.works = EndedWorks(L, V, u, t, s)
             /\ t # i => K \subseteq e.mixed
    <3>1. /\ WorksStep(V, e.works)
          /\ \A n \in DOMAIN V :
               IF n \in N
               THEN /\ e.works[n].state = "done" /\ e.works[n].end = V[n].end
                    /\ e.works[n].start = V[n].start
               ELSE e.works[n] = V[n]
      <4> HIDE DEF V
      <4>1. QED
        BY <1>3, <2>4, EndedWorksStep
    <3>2. Rows(e.works, k) = Rows(V, k) /\ Rows(V, k) \subseteq DOMAIN V
      BY <3>1 DEF WorksStep, WorkStep, Rows
    <3>3. CASE k \in K
      <4>1. t = i /\ Own(L[k]) = <<u, i, s>>
        BY <2>4, <3>3 DEF Pivot, Own
      <4>2. ~Running(V, k)
        BY <1>3, <4>1
      <4> HIDE DEF V, N
      <4>3. \A n \in Rows(V, k) : Clock(e.works[n], now) = Clock(V[n], now)
        BY <3>1, <3>2, <4>2 DEF Running, Clock, Stretch
      <4>4. Clocked(V, k, now) = Clocked(W, k, now)
        BY <1>3, ClockedSame
      <4>5. /\ ~e.logs[k].entered /\ e.logs[k].state = "done"
            /\ e.logs[k].duration =
                 RoundedUp(IF Clocked(V, k, now) > Floor THEN Clocked(V, k, now) ELSE Floor)
        BY <1>1, <1>3, <2>4, <3>3, <4>2, EndedAccount
      <4>6. QED
        BY <1>3, <3>2, <4>3, <4>4, <4>5 DEF Account
    <3>4. CASE k \notin K
      <4>1. e.logs[k] = L[k]
        BY <1>1, <2>4, <3>4 DEF EndedLogs
      <4>2. \A n \in Rows(V, k) : e.works[n] = V[n]
        <5>1. \A n \in Rows(V, k) : n \notin N
          BY <3>4 DEF Rows, Pieces
        <5> HIDE DEF V, N
        <5>2. QED
          BY <3>1, <3>2, <5>1
      <4> HIDE DEF V, N, K
      <4>3. Running(e.works, k) <=> Running(V, k)
        BY <3>2, <4>2 DEF Running
      <4>4. QED
        BY <1>1, <1>3, <1>5, <2>2, <3>2, <4>1, <4>2, <4>3 DEF Account
    <3>5. QED
      BY <3>3, <3>4
  <2>5. QED
    BY <2>2, <2>3, <2>4
<1>9. CASE r.op = "cancel"
  <2> DEFINE K == Pivot(L, u, i, s)
  <2>1. e \in Cancel(u, i, s, L, W)
    BY <1>9 DEF Effects
  <2>2. /\ AddsNothing(e) /\ e.logs = Deleted(L, K) /\ e.works = Cancelled(W, K)
        /\ e.atWork = atWork
    BY <2>1, CancelShape
  <2>3. /\ WorksStep(W, e.works)
        /\ \A n \in DOMAIN W : W[n].cluster \notin K => e.works[n] = W[n]
    <3> HIDE DEF K
    <3>1. QED
      BY <2>2, CancelledStep
  <2>4. CASE k \in K
    <3>1. e.logs[k].state = "deleted"
      BY <1>1, <2>2, <2>4, DeletedStep
    <3>2. QED
      BY <3>1 DEF Account
  <2>5. CASE k \notin K
    <3>1. e.logs[k] = L[k]
      BY <1>1, <2>2, <2>5 DEF Deleted
    <3> HIDE DEF K, V
    <3>2. Rows(e.works, k) = Rows(W, k) /\ \A n \in Rows(W, k) : e.works[n] = W[n]
      BY <2>3, <2>5 DEF Rows, WorksStep, WorkStep
    <3>3. Running(e.works, k) <=> Running(W, k)
      BY <3>2 DEF Running
    <3>4. QED
      BY <1>1, <1>5, <2>2, <3>1, <3>2, <3>3 DEF Account
  <2>6. QED
    BY <2>4, <2>5
<1>10. QED
  BY <1>2, <1>4, <1>7, <1>8, <1>9

(* What the clock shows for the logs in progress that nothing disturbed.   *)
RowsOwned == \A k \in DOMAIN logs : k \in mixed \/ OwnRows(logs, works, k)

Accounted(k) ==
  /\ Own(logs[k]) \in atWork <=> Running(works, k)
  /\ worked[k] = Clocked(works, k, now)

AccountInv ==
  /\ \A k \in 1..MaxLogs : k \notin DOMAIN logs => worked[k] = 0
  /\ RowsOwned
  /\ \A k \in DOMAIN logs : logs[k].state = "progress" /\ Undisturbed(k) => Accounted(k)
  /\ TimeBilled

(* The work logs of a cluster after a commit.                              *)
LEMMA RowsAfter ==
  ASSUME WorkInv, NEW L, NEW W, NEW r, NEW e, Committed(r, L, W, e), NEW k
  PROVE  LET N == Len(works) + 1
             w == NewWork(r.user, r.issue, r.source, k)
         IN  \/ /\ e.newWorks = <<w>> /\ N \notin DOMAIN works /\ N \in DOMAIN works'
                /\ Rows(works', k) = Rows(works, k) \cup {N} /\ works'[N] = w
             \/ e.newWorks # <<w>> /\ Rows(works', k) = Rows(works, k)
<1> DEFINE N == Len(works) + 1
           w(j) == NewWork(r.user, r.issue, r.source, j)
<1>1. /\ works \in Seq(Work) /\ works' \in Seq(Work)
      /\ \A n \in DOMAIN works : works'[n].cluster = works[n].cluster
  BY DEF WorkInv, TypeOK, Committed, Grown, WorkStep
<1>2. /\ DOMAIN works = 1..Len(works) /\ Len(works) \in Nat
      /\ DOMAIN works' = 1..Len(works') /\ Len(works') \in Nat
  BY <1>1, RowsOfSeq
<1>3. N \notin DOMAIN works
  BY <1>2
<1>4. CASE AddsNothing(e) /\ Len(works') = Len(works)
  <2>1. e.newWorks = <<>> /\ <<>> # <<w(k)>>
    BY <1>4 DEF AddsNothing
  <2>2. Rows(works', k) = Rows(works, k)
    BY <1>1, <1>2, <1>4 DEF Rows
  <2>3. QED
    BY <2>1, <2>2
<1>5. ASSUME NEW j, e.newWorks = <<w(j)>>, Len(works') = Len(works) + 1, works'[N] = w(j)
      PROVE  \/ /\ e.newWorks = <<w(k)>> /\ N \in DOMAIN works'
                /\ Rows(works', k) = Rows(works, k) \cup {N} /\ works'[N] = w(k)
             \/ e.newWorks # <<w(k)>> /\ Rows(works', k) = Rows(works, k)
  <2>1. DOMAIN works' = DOMAIN works \cup {N}
    BY <1>2, <1>5
  <2>2. w(j).cluster = j
    BY DEF NewWork
  <2> HIDE DEF N
  <2>3. CASE j = k
    <3>1. Rows(works', k) = Rows(works, k) \cup {N}
      <4> HIDE DEF w
      <4>1. QED
        BY <1>1, <1>5, <2>1, <2>2, <2>3 DEF Rows
    <3>2. QED
      BY <1>5, <2>1, <2>3, <3>1
  <2>4. CASE j # k
    <3>1. Rows(works', k) = Rows(works, k)
      <4> HIDE DEF w
      <4>1. QED
        BY <1>1, <1>3, <1>5, <2>1, <2>2, <2>4 DEF Rows
    <3>2. e.newWorks # <<w(k)>>
      BY <1>5, <2>4, NewWorkCluster
    <3>3. QED
      BY <3>1, <3>2
  <2>5. QED
    BY <2>3, <2>4
<1>6. CASE \E j \in DOMAIN logs' : /\ e.newWorks = <<w(j)>> /\ Len(works') = Len(works) + 1
                                  /\ works'[N] = w(j)
  <2>1. PICK j \in DOMAIN logs' : /\ e.newWorks = <<w(j)>> /\ Len(works') = Len(works) + 1
                                  /\ works'[N] = w(j)
    BY <1>6
  <2> HIDE DEF N, w
  <2>2. QED
    BY <1>3, <1>5, <2>1 DEF N, w
<1>7. QED
  BY <1>4, <1>6 DEF Committed

(* A cluster of which a request had read the current state.                *)
LEMMA CurrentCluster ==
  ASSUME WorkInv, NEW L, NEW W, NEW r, NEW e, Snapshot(L, W), Committed(r, L, W, e),
         NEW k \in DOMAIN logs, k \notin Outdated(L, W)
  PROVE  /\ k \in DOMAIN L /\ logs[k] = L[k] /\ k \in DOMAIN logs' /\ logs'[k] = e.logs[k]
         /\ Rows(W, k) = Rows(works, k) /\ Rows(e.works, k) = Rows(W, k)
         /\ \A n \in Rows(works, k) : W[n] = works[n] /\ works'[n] = e.works[n]
<1>1. /\ k \in DOMAIN L /\ logs[k] = L[k]
      /\ \A n \in DOMAIN works : works[n].cluster = k => n \in DOMAIN W /\ works[n] = W[n]
  BY DEF Outdated
<1>2. /\ logs \in Seq(Log) /\ works \in Seq(Work)
      /\ L \in Seq(Log) /\ W \in Seq(Work) /\ Len(L) <= Len(logs) /\ Len(W) <= Len(works)
      /\ \A n \in DOMAIN W : WorkStep(W[n], works[n])
      /\ logs' \in Seq(Log) /\ Len(logs) <= Len(logs')
  BY DEF WorkInv, TypeOK, Snapshot, Committed, Grown
<1>3. /\ DOMAIN logs = 1..Len(logs) /\ Len(logs) \in Nat
      /\ DOMAIN works = 1..Len(works) /\ Len(works) \in Nat
      /\ DOMAIN W = 1..Len(W) /\ Len(W) \in Nat
      /\ DOMAIN logs' = 1..Len(logs') /\ Len(logs') \in Nat
  BY <1>2, RowsOfSeq
<1>4. \A n \in DOMAIN W : n \in DOMAIN works /\ W[n].cluster = works[n].cluster
  BY <1>2, <1>3 DEF WorkStep
<1>5. DOMAIN e.works = DOMAIN W /\ \A n \in DOMAIN W : e.works[n].cluster = W[n].cluster
  BY DEF Committed, EffectShape, WorksStep, WorkStep
<1>6. OldRows(L, W, e)
  BY DEF Committed
<1>7. k \in DOMAIN logs' /\ logs'[k] = e.logs[k]
  <2>1. k \in DOMAIN logs'
    BY <1>2, <1>3
  <2>2. QED
    BY <1>1, <1>6, <2>1 DEF OldRows
<1>8. Rows(W, k) = Rows(works, k) /\ Rows(e.works, k) = Rows(W, k)
  BY <1>1, <1>4, <1>5 DEF Rows
<1>9. \A n \in Rows(works, k) : W[n] = works[n] /\ works'[n] = e.works[n]
  BY <1>1, <1>6 DEF OldRows, Rows
<1>10. QED
  BY <1>1, <1>7, <1>8, <1>9

(* A log in progress of which a request had read the current state.        *)
LEMMA KnownAccount ==
  ASSUME WorkInv, NEW L, NEW W, NEW r \in Request, NEW e \in Effects(r, L, W),
         Snapshot(L, W), Committed(r, L, W, e),
         NEW k \in DOMAIN logs, k \notin Outdated(L, W), k \notin mixed',
         logs[k].state = "progress", Alone(L, k), OwnRows(logs, works, k),
         Own(logs[k]) \in atWork <=> Running(works, k), logs'[k].state # "deleted"
  PROVE  /\ Clocked(works', k, now) = Clocked(works, k, now)
         /\ logs'[k].state = "progress" =>
              (Own(logs[k]) \in atWork' <=> Running(works', k))
         /\ logs'[k].state = "done" =>
              LET clocked == Clocked(works, k, now)
              IN  /\ ~logs'[k].entered
                  /\ logs'[k].duration = RoundedUp(IF clocked > Floor THEN clocked ELSE Floor)
<1> DEFINE N == Len(works) + 1
           w == NewWork(r.user, r.issue, r.source, k)
<1>1. /\ k \in DOMAIN L /\ logs[k] = L[k] /\ k \in DOMAIN logs' /\ logs'[k] = e.logs[k]
      /\ Rows(W, k) = Rows(works, k) /\ Rows(e.works, k) = Rows(W, k)
      /\ \A n \in Rows(works, k) : W[n] = works[n] /\ works'[n] = e.works[n]
  BY CurrentCluster
<1>2. /\ logs \in Seq(Log) /\ works \in Seq(Work) /\ now \in Nat \ {0}
      /\ L \in Seq(Log) /\ W \in Seq(Work) /\ works' \in Seq(Work)
  BY DEF WorkInv, TypeOK, Snapshot, Committed, Grown
<1>3. k \notin e.mixed /\ atWork' = e.atWork
  BY DEF Committed
<1>4. Accountable(L, W, k)
  <2>1. OwnRows(L, W, k)
    BY <1>1 DEF OwnRows
  <2>2. Running(W, k) <=> Running(works, k)
    BY <1>1 DEF Running
  <2>3. QED
    BY <1>1, <2>1, <2>2 DEF Accountable
<1>5. Account(e, r, L, W, k)
  BY <1>2, <1>3, <1>4, EffectAccount
<1>6. /\ \A n \in Rows(works, k) : Clock(works'[n], now) = Clock(works[n], now)
      /\ logs'[k].state = "progress" =>
           (Own(logs[k]) \in atWork' <=> Running(e.works, k) \/ e.newWorks = <<w>>)
      /\ logs'[k].state = "done" =>
           /\ ~logs'[k].entered
           /\ logs'[k].duration =
                RoundedUp(IF Clocked(W, k, now) > Floor THEN Clocked(W, k, now) ELSE Floor)
  BY <1>1, <1>3, <1>5 DEF Account
<1>7. Clocked(W, k, now) = Clocked(works, k, now)
  BY <1>1, ClockedSame
<1>8. \/ /\ e.newWorks = <<w>> /\ N \notin DOMAIN works /\ N \in DOMAIN works'
         /\ Rows(works', k) = Rows(works, k) \cup {N} /\ works'[N] = w
      \/ e.newWorks # <<w>> /\ Rows(works', k) = Rows(works, k)
  BY RowsAfter
<1>9. Running(e.works, k) <=> \E n \in Rows(works, k) : works'[n].state = "progress"
  BY <1>1 DEF Running
<1>10. w.state = "progress" /\ Clock(w, now) = 0
  BY <1>2 DEF NewWork, Clock
<1> HIDE DEF w, N
<1>11. Running(works', k) <=> Running(e.works, k) \/ e.newWorks = <<w>>
  BY <1>8, <1>9, <1>10 DEF Running
<1>12. Clocked(works', k, now) = Clocked(works, k, now)
  <2>1. CASE Rows(works', k) = Rows(works, k)
    BY <1>6, <2>1, ClockedSame
  <2>2. CASE /\ N \notin DOMAIN works /\ N \in DOMAIN works'
             /\ Rows(works', k) = Rows(works, k) \cup {N} /\ works'[N] = w
    <3> DEFINE f == [n \in DOMAIN works' |-> Clock(works'[n], now)]
               g == [n \in DOMAIN works |-> Clock(works[n], now)]
               S == Rows(works', k)
               R == Rows(works, k)
    <3>1. /\ IsFiniteSet(S) /\ S \subseteq DOMAIN works'
          /\ \A n \in DOMAIN works' : Clock(works'[n], now) \in Int
      BY <1>2, ClockType
    <3>2. \A n \in S : f[n] \in Int
      BY <3>1
    <3>3. R \subseteq DOMAIN works /\ S \ {N} = R /\ N \in S
      BY <2>2 DEF Rows
    <3>4. f[N] = 0
      BY <1>10, <2>2
    <3>5. \A n \in R : f[n] = g[n]
      <4>1. \A n \in R : n \in DOMAIN works' /\ n \in DOMAIN works
        BY <2>2, <3>1, <3>3
      <4>2. QED
        BY <1>6, <4>1
    <3> HIDE DEF f, g, S, R
    <3>6. SumOf(f, S) = SumOf(f, S \ {N}) + f[N] /\ SumOf(f, S \ {N}) \in Int
      BY <3>1, <3>2, <3>3, SumAdd
    <3>7. SumOf(f, R) = SumOf(g, R)
      BY <3>5, SumSame
    <3>10. S \ {N} = R
      BY <3>3
    <3>11. SumOf(f, S \ {N}) = SumOf(f, R)
      BY <3>10, Zenon
    <3>8. SumOf(f, S) = SumOf(g, R)
      BY <3>4, <3>6, <3>7, <3>11
    <3>9. QED
      BY <3>8 DEF Clocked, f, g, S, R
  <2>3. QED
    BY <1>8, <2>1, <2>2
<1>13. QED
  BY <1>6, <1>7, <1>11, <1>12

LEMMA DoneAtWork ==
  ASSUME NEW L, NEW W, NEW u, NEW i, NEW s, NEW e \in Done(u, i, s, L, W)
  PROVE  e.atWork = Stopped(W, Paused(L, W, u, i, s), u, i, s)
BY DEF Done, Effect

(* Who a request has at work, or not any more, and what it writes then.    *)
LEMMA EffectAtWork ==
  ASSUME NEW L \in Seq(Log), NEW W \in Seq(Work), NEW r \in Request, now \in Nat \ {0},
         NEW e \in Effects(r, L, W), NEW t
  PROVE  \/ t \in e.atWork <=> t \in atWork
         \/ /\ t = <<r.user, r.issue, r.source>>
            /\ \/ ~AddsNothing(e)
               \/ \E n \in DOMAIN W :
                    /\ e.works[n] # W[n]
                    /\ W[n].cluster \in Pivot(L, r.user, r.issue, r.source)
<1> DEFINE u == r.user
           i == r.issue
           s == r.source
           V == Paused(L, W, u, i, s)
           K == Pivot(L, u, i, s)
           N == Pieces(W, u, i, s, K)
<1>1. r.op \in {"start", "pause", "done", "cancel"} /\ i \in Issue
  BY DEF Request
<1>2. /\ WorksStep(W, V)
      /\ \A n \in DOMAIN W :
           IF n \in N /\ W[n].state = "progress"
           THEN V[n].state = "done" /\ V[n].end = now /\ V[n].start = W[n].start
           ELSE V[n] = W[n]
  BY PausedStep, SMTT(30)
<1>3. V # W => \E n \in DOMAIN W : V[n] # W[n]
  <2>1. W = [n \in DOMAIN W |-> W[n]]
    OBVIOUS
  <2>2. V = [n \in DOMAIN W |-> V[n]]
    BY DEF Paused
  <2> HIDE DEF V
  <2>3. QED
    BY <2>1, <2>2
<1>4. ASSUME NEW n \in DOMAIN W, V[n] # W[n]
      PROVE  /\ W[n].cluster \in K /\ W[n].state = "progress"
             /\ V[n].state # "progress"
  <2>1. n \in N /\ W[n].state = "progress" /\ V[n].state = "done"
    <3> HIDE DEF N, V
    <3>1. QED
      BY <1>2, <1>4
  <2>2. QED
    BY <2>1 DEF Pieces
<1>5. ASSUME e.atWork = Stopped(W, V, u, i, s),
             \A n \in DOMAIN W : V[n] # W[n] => e.works[n] # W[n]
      PROVE  \/ t \in e.atWork <=> t \in atWork
             \/ /\ t = <<u, i, s>>
                /\ \E n \in DOMAIN W : e.works[n] # W[n] /\ W[n].cluster \in K
  <2> HIDE DEF V, K
  <2>1. QED
    BY <1>3, <1>4, <1>5 DEF Stopped
<1>6. CASE r.op = "start"
  <2>1. e \in Start(u, i, s, L, W)
    BY <1>6 DEF Effects
  <2>2. ~AddsNothing(e) /\ e.atWork = atWork \cup {<<u, i, s>>}
    BY <2>1, StartShape
  <2>3. QED
    BY <2>2
<1>7. CASE r.op = "pause"
  <2>1. e \in Pause(u, i, s, L, W)
    BY <1>7 DEF Effects
  <2>2. e.works = V /\ e.atWork = Stopped(W, V, u, i, s)
    BY <2>1, PauseShape
  <2> HIDE DEF V, K
  <2>3. QED
    BY <1>5, <2>2 DEF K
<1>8. CASE r.op = "done"
  <2> DEFINE g == Target[i]
             D == Pieces(V, u, g, s, Pivot(L, u, g, s))
  <2>1. e \in Done(u, i, s, L, W)
    BY <1>8 DEF Effects
  <2>2. e.atWork = Stopped(W, V, u, i, s)
    <3> HIDE DEF u, i, s
    <3>1. QED
      BY <2>1, DoneAtWork
  <2>3. e.works = V \/ e.works = EndedWorks(L, V, u, g, s)
    <3> HIDE DEF u, i, s
    <3>1. i \in Issue
      BY <1>1
    <3>2. \/ e.logs = L /\ e.works = Paused(L, W, u, i, s)
          \/ /\ e.logs = EndedLogs(L, Paused(L, W, u, i, s), u, Target[i], s)
             /\ e.works = EndedWorks(L, Paused(L, W, u, i, s), u, Target[i], s)
             /\ Target[i] # i => Pivot(L, u, Target[i], s) \subseteq e.mixed
      BY <2>1, <3>1, DoneShape
    <3>3. QED
      BY <3>2
  <2>4. DOMAIN V = DOMAIN W /\ \A n \in DOMAIN V : V[n] \in Work
    <3> HIDE DEF V
    <3>1. QED
      BY <1>2 DEF WorksStep, WorkStep
  <2>5. \A n \in DOMAIN W : V[n] # W[n] => e.works[n] # W[n]
    <3>1. CASE e.works = V
      BY <3>1
    <3>2. CASE e.works = EndedWorks(L, V, u, g, s)
      <4>1. \A n \in DOMAIN V : e.works[n].state = "done" \/ e.works[n] = V[n]
        <5> HIDE DEF V
        <5>1. \A n \in DOMAIN V :
                IF n \in D
                THEN /\ e.works[n].state = "done" /\ e.works[n].end = V[n].end
                     /\ e.works[n].start = V[n].start
                ELSE e.works[n] = V[n]
          BY <2>4, <3>2, EndedWorksStep
        <5> HIDE DEF D
        <5>2. QED
          BY <5>1
      <4> HIDE DEF V
      <4>2. QED
        BY <1>4, <2>4, <4>1
    <3>3. QED
      BY <2>3, <3>1, <3>2
  <2> HIDE DEF V, K
  <2>6. QED
    BY <1>5, <2>2, <2>5 DEF K
<1>9. CASE r.op = "cancel"
  <2>1. e \in Cancel(u, i, s, L, W)
    BY <1>9 DEF Effects
  <2>2. e.atWork = atWork
    BY <2>1, CancelShape
  <2>3. QED
    BY <2>2
<1>10. QED
  BY <1>1, <1>6, <1>7, <1>8, <1>9

(* Undisturbed, the histories and the logs are given.                      *)
LEMMA UndisturbedBefore ==
  ASSUME WorkInv, Grown, mixed \subseteq mixed', overlapped \subseteq overlapped',
         NEW k \in DOMAIN logs, Undisturbed(k)'
  PROVE  Undisturbed(k)
<1>1. /\ logs \in Seq(Log) /\ logs' \in Seq(Log) /\ Len(logs) <= Len(logs')
      /\ \A j \in DOMAIN logs : LogStep(logs[j], logs'[j])
  BY DEF WorkInv, TypeOK, Grown
<1>2. DOMAIN logs \subseteq DOMAIN logs'
  <2>1. /\ DOMAIN logs = 1..Len(logs) /\ Len(logs) \in Nat
        /\ DOMAIN logs' = 1..Len(logs') /\ Len(logs') \in Nat
    BY <1>1, RowsOfSeq
  <2>2. QED
    BY <1>1, <2>1
<1>3. \A j \in DOMAIN logs : logs'[j].user = logs[j].user /\ logs'[j].issue = logs[j].issue
  BY <1>1 DEF LogStep
<1>4. QED
  BY <1>2, <1>3 DEF Undisturbed

(* A log that a commit does not touch: nobody else's work is told from it. *)
LEMMA UntouchedAtWork ==
  ASSUME WorkInv, OneLogInProgress, OneLogInProgress', NEW L, NEW W, NEW r \in Request,
         NEW e \in Effects(r, L, W), Snapshot(L, W), Committed(r, L, W, e),
         overlapped \subseteq overlapped', Marked(L, W),
         NEW k \in DOMAIN logs, logs[k].state = "progress", k \notin Touched, Undisturbed(k)'
  PROVE  Own(logs[k]) \in atWork' <=> Own(logs[k]) \in atWork
<1> DEFINE u == r.user
           i == r.issue
           s == r.source
<1>1. /\ logs \in Seq(Log) /\ works \in Seq(Work) /\ now \in Nat \ {0}
      /\ L \in Seq(Log) /\ W \in Seq(Work) /\ Len(L) <= Len(logs) /\ Len(W) <= Len(works)
      /\ \A j \in DOMAIN L : LogStep(L[j], logs[j])
      /\ logs' \in Seq(Log) /\ works' \in Seq(Work)
      /\ Len(logs) <= Len(logs') /\ Len(works) <= Len(works')
      /\ \A j \in DOMAIN logs : LogStep(logs[j], logs'[j])
      /\ \A n \in DOMAIN works : WorkStep(works[n], works'[n])
  BY DEF WorkInv, TypeOK, Snapshot, Committed, Grown
<1>2. /\ DOMAIN logs = 1..Len(logs) /\ Len(logs) \in Nat
      /\ DOMAIN works = 1..Len(works) /\ Len(works) \in Nat
      /\ DOMAIN L = 1..Len(L) /\ Len(L) \in Nat /\ DOMAIN W = 1..Len(W) /\ Len(W) \in Nat
      /\ DOMAIN logs' = 1..Len(logs') /\ Len(logs') \in Nat
      /\ DOMAIN works' = 1..Len(works') /\ Len(works') \in Nat
  BY <1>1, RowsOfSeq
<1>3. /\ OldRows(L, W, e) /\ ~Refused(L, W, e) /\ atWork' = e.atWork
  BY DEF Committed
<1>4. k \in DOMAIN logs' /\ logs'[k] = logs[k]
  BY <1>1, <1>2 DEF Touched
<1> SUFFICES ASSUME ~(Own(logs[k]) \in atWork' <=> Own(logs[k]) \in atWork)
             PROVE  FALSE
  OBVIOUS
<1>5. /\ Own(logs[k]) = <<u, i, s>>
      /\ \/ ~AddsNothing(e)
         \/ \E n \in DOMAIN W : e.works[n] # W[n] /\ W[n].cluster \in Pivot(L, u, i, s)
  BY <1>1, <1>3, EffectAtWork
<1>6. logs[k].user = u /\ logs[k].issue = i
  BY <1>5 DEF Own
<1>7. ASSUME NEW j \in DOMAIN logs', logs'[j].user = u, logs'[j].issue = i
      PROVE  j \notin overlapped'
  BY <1>4, <1>6, <1>7 DEF Undisturbed
<1>8. ASSUME NEW j \in DOMAIN logs, j \in Touched, logs[j].user = u, logs[j].issue = i
      PROVE  j \in DOMAIN L /\ logs[j] = L[j] /\ j \in DOMAIN logs' /\ j \notin overlapped'
  <2>1. j \in DOMAIN logs' /\ logs'[j].user = u /\ logs'[j].issue = i
    BY <1>1, <1>2, <1>8 DEF LogStep
  <2>2. j \notin overlapped'
    BY <1>7, <2>1
  <2>3. j \notin Outdated(L, W)
    <3> HIDE DEF Touched, Outdated, i, u
    <3>1. QED
      BY <1>8, <2>1, <2>2 DEF Marked
  <2>4. QED
    BY <1>8, <2>1, <2>2, <2>3 DEF Outdated
<1>9. \A j \in DOMAIN L : /\ j \in DOMAIN logs /\ logs[j].user = L[j].user
                          /\ logs[j].issue = L[j].issue
  BY <1>1, <1>2 DEF LogStep
<1>10. CASE ~AddsNothing(e)
  <2>1. PICK j \in DOMAIN logs' :
          /\ e.newWorks = <<NewWork(u, i, s, j)>>
          /\ \/ AddsWork(e, L, u, i, s) /\ Len(logs') = Len(logs)
             \/ /\ AddsLog(e, L, u, i, s)
                /\ Len(logs') = Len(logs) + 1 /\ j = Len(logs) + 1
                /\ logs'[j] = NewLog(u, i, s)
          /\ Len(works') = Len(works) + 1
          /\ works'[Len(works) + 1] = NewWork(u, i, s, j)
    BY <1>10 DEF Committed
  <2>2. j \in Touched
    <3>1. Len(works) + 1 \in DOMAIN works' /\ Len(works) + 1 \notin DOMAIN works
      <4>1. Len(works') = Len(works) + 1
        BY <2>1
      <4>2. QED
        BY <1>2, <4>1
    <3>2. works'[Len(works) + 1].cluster = j
      BY <2>1 DEF NewWork
    <3>3. QED
      BY <3>1, <3>2 DEF Touched
  <2>3. j # k
    BY <2>2
  <2>4. logs'[j].user = u /\ logs'[j].issue = i /\ logs'[j].state = "progress"
    <3>1. CASE AddsLog(e, L, u, i, s) /\ logs'[j] = NewLog(u, i, s)
      BY <3>1 DEF NewLog
    <3>2. CASE AddsWork(e, L, u, i, s)
      <4>1. PICK m \in Open(L, u, i) : e.newWorks = <<NewWork(u, i, s, m)>>
        BY <3>2 DEF AddsWork
      <4>2. m = j
        BY <2>1, <4>1, NewWorkCluster
      <4>3. j \in DOMAIN L /\ L[j].user = u /\ L[j].issue = i /\ L[j].state = "progress"
        BY <4>1, <4>2 DEF Open
      <4>4. logs[j] = L[j] /\ j \in DOMAIN logs /\ j \in DOMAIN logs'
        <5> HIDE DEF Touched, Outdated, u, i, s
        <5>1. QED
          BY <1>8, <1>9, <2>2, <4>3
      <4>5. logs'[j] = e.logs[j] /\ e.logs = L
        BY <1>3, <3>2, <4>3, <4>4 DEF OldRows, AddsWork
      <4>6. QED
        BY <4>3, <4>5
    <3> HIDE DEF u, i, s
    <3>3. QED
      BY <2>1, <3>1, <3>2
  <2>5. {j, k} \cap overlapped' # {}
    BY <1>4, <1>6, <2>3, <2>4 DEF OneLogInProgress
  <2>6. j \notin overlapped' /\ k \notin overlapped'
    BY <1>4, <1>6, <1>7, <2>4
  <2>7. QED
    BY <2>5, <2>6
<1>11. CASE \E n \in DOMAIN W : e.works[n] # W[n] /\ W[n].cluster \in Pivot(L, u, i, s)
  <2>1. PICK n \in DOMAIN W : e.works[n] # W[n] /\ W[n].cluster \in Pivot(L, u, i, s)
    BY <1>11
  <2> DEFINE j == W[n].cluster
  <2>2. j \in DOMAIN L /\ L[j].user = u /\ L[j].issue = i /\ L[j].state = "progress"
    BY <2>1 DEF Pivot
  <2>3. n \in DOMAIN works /\ n \in DOMAIN works'
    BY <1>1, <1>2
  <2>4. works[n] = W[n] /\ works'[n] = e.works[n] /\ works'[n] # works[n]
    <3>1. works[n] = W[n]
      BY <1>3, <2>1 DEF Refused, Changed
    <3>2. QED
      BY <1>3, <2>1, <2>3, <3>1 DEF OldRows
  <2>5. works'[n].cluster = j
    BY <1>1, <2>3, <2>4 DEF WorkStep
  <2> HIDE DEF j
  <2>6. j \in Touched
    BY <2>3, <2>4, <2>5 DEF Touched
  <2>7. j # k
    BY <2>6
  <2>8. logs[j] = L[j] /\ j \in DOMAIN logs /\ j \notin overlapped'
    <3> HIDE DEF Touched, Outdated, u, i, s
    <3>1. QED
      BY <1>8, <1>9, <2>2, <2>6
  <2>9. {j, k} \cap overlapped # {}
    BY <1>6, <2>2, <2>7, <2>8 DEF OneLogInProgress
  <2>10. k \notin overlapped'
    BY <1>4, <1>6, <1>7
  <2>11. QED
    BY <2>8, <2>9, <2>10
<1>12. QED
  BY <1>5, <1>10, <1>11

LEMMA AloneInProgress ==
  ASSUME OneLogInProgress, NEW k \in DOMAIN logs, logs[k].state = "progress", Undisturbed(k)
  PROVE  Alone(logs, k)
<1> SUFFICES ASSUME NEW j \in DOMAIN logs, logs[j].state = "progress",
                    logs[j].user = logs[k].user, logs[j].issue = logs[k].issue, j # k
             PROVE  FALSE
  BY DEF Alone
<1>1. {j, k} \cap overlapped # {}
  BY DEF OneLogInProgress
<1>2. j \notin overlapped /\ k \notin overlapped
  BY DEF Undisturbed
<1>3. QED
  BY <1>1, <1>2

LEMMA OwnedCommit ==
  ASSUME WorkInv, RowsOwned, NEW L, NEW W, NEW r, NEW e, Snapshot(L, W), Committed(r, L, W, e)
  PROVE  RowsOwned'
<1> SUFFICES ASSUME NEW k \in DOMAIN logs', k \notin mixed', NEW n \in Rows(works', k)
             PROVE  Own(works'[n]) = Own(logs'[k])
  BY DEF RowsOwned, OwnRows
<1> DEFINE N == Len(works) + 1
           w == NewWork(r.user, r.issue, r.source, k)
<1>1. /\ logs \in Seq(Log) /\ Len(L) <= Len(logs) /\ L \in Seq(Log)
      /\ \A j \in DOMAIN L : LogStep(L[j], logs[j])
      /\ logs' \in Seq(Log) /\ Len(logs) <= Len(logs')
      /\ \A j \in DOMAIN logs : LogStep(logs[j], logs'[j])
      /\ \A m \in DOMAIN works : WorkStep(works[m], works'[m])
      /\ \A m \in DOMAIN works : works[m].cluster \in DOMAIN logs
      /\ mixed \subseteq mixed' /\ mixed' = e.mixed
  BY DEF WorkInv, TypeOK, Snapshot, Committed, Grown
<1>2. /\ DOMAIN logs = 1..Len(logs) /\ Len(logs) \in Nat
      /\ DOMAIN L = 1..Len(L) /\ Len(L) \in Nat
  BY <1>1, RowsOfSeq
<1>3. \A j \in DOMAIN logs : Own(logs'[j]) = Own(logs[j])
  BY <1>1 DEF LogStep, Own
<1>4. \A m \in DOMAIN works : Own(works'[m]) = Own(works[m])
  BY <1>1 DEF WorkStep, Own
<1>5. \/ /\ e.newWorks = <<w>> /\ N \notin DOMAIN works /\ N \in DOMAIN works'
         /\ Rows(works', k) = Rows(works, k) \cup {N} /\ works'[N] = w
      \/ e.newWorks # <<w>> /\ Rows(works', k) = Rows(works, k)
  BY RowsAfter
<1>6. CASE n \in Rows(works, k)
  <2>1. n \in DOMAIN works /\ works[n].cluster = k
    BY <1>6 DEF Rows
  <2>2. k \in DOMAIN logs /\ k \notin mixed
    BY <1>1, <2>1
  <2>3. Own(works[n]) = Own(logs[k])
    BY <1>6, <2>2 DEF RowsOwned, OwnRows
  <2>4. QED
    BY <1>3, <1>4, <2>1, <2>2, <2>3
<1>7. CASE n \notin Rows(works, k)
  <2>1. e.newWorks = <<w>> /\ works'[n] = w
    <3> HIDE DEF w, N
    <3>1. QED
      BY <1>5, <1>7
  <2>2. Own(w) = <<r.user, r.issue, r.source>>
    BY DEF Own, NewWork
  <2>3. <<>> # <<w>>
    OBVIOUS
  <2>4. PICK j \in DOMAIN logs' :
          /\ e.newWorks = <<NewWork(r.user, r.issue, r.source, j)>>
          /\ \/ AddsWork(e, L, r.user, r.issue, r.source) /\ Len(logs') = Len(logs)
             \/ /\ AddsLog(e, L, r.user, r.issue, r.source)
                /\ Len(logs') = Len(logs) + 1 /\ j = Len(logs) + 1
                /\ logs'[j] = NewLog(r.user, r.issue, r.source)
          /\ Len(works') = Len(works) + 1
          /\ works'[Len(works) + 1] = NewWork(r.user, r.issue, r.source, j)
    <3> HIDE DEF w
    <3>1. ~AddsNothing(e)
      BY <2>1, <2>3 DEF AddsNothing
    <3>2. QED
      BY <3>1 DEF Committed
  <2>5. j = k
    BY <2>1, <2>4, NewWorkCluster
  <2>6. CASE AddsLog(e, L, r.user, r.issue, r.source) /\ logs'[j] = NewLog(r.user, r.issue, r.source)
    <3>1. Own(logs'[k]) = <<r.user, r.issue, r.source>>
      BY <2>5, <2>6 DEF NewLog, Own
    <3>2. QED
      BY <2>1, <2>2, <3>1
  <2>7. CASE AddsWork(e, L, r.user, r.issue, r.source)
    <3>1. PICK m \in Open(L, r.user, r.issue) :
            /\ e.newWorks = <<NewWork(r.user, r.issue, r.source, m)>>
            /\ L[m].source # r.source => m \in e.mixed
      BY <2>7 DEF AddsWork
    <3>2. m = k
      BY <2>1, <3>1, NewWorkCluster
    <3>3. k \in DOMAIN L /\ Own(L[k]) = <<r.user, r.issue, r.source>>
      BY <1>1, <3>1, <3>2 DEF Open, Own
    <3>4. k \in DOMAIN logs /\ Own(logs[k]) = Own(L[k])
      BY <1>1, <1>2, <3>3 DEF LogStep, Own
    <3>5. QED
      BY <1>3, <2>1, <2>2, <3>3, <3>4
  <2>8. QED
    BY <2>4, <2>6, <2>7
<1>8. QED
  BY <1>6, <1>7

(* Logs that are not in progress are not written by a request.             *)
LEMMA SettledEffect ==
  ASSUME NEW L \in Seq(Log), NEW W \in Seq(Work), NEW r \in Request, now \in Nat \ {0},
         NEW e \in Effects(r, L, W), NEW k \in DOMAIN L, L[k].state # "progress"
  PROVE  e.logs[k] = L[k]
<1> DEFINE u == r.user
           i == r.issue
           s == r.source
<1>1. r.op \in {"start", "pause", "done", "cancel"} /\ i \in Issue
  BY DEF Request
<1>2. \A j : k \notin Pivot(L, u, j, s)
  BY DEF Pivot
<1>3. CASE r.op = "start"
  BY <1>3, StartShape DEF Effects
<1>4. CASE r.op = "pause"
  BY <1>4, PauseShape DEF Effects
<1>5. CASE r.op = "done"
  <2>1. e \in Done(u, i, s, L, W)
    BY <1>5 DEF Effects
  <2>2. e.logs = L \/ \E V : e.logs = EndedLogs(L, V, u, Target[i], s)
    BY <2>1 DEF Done, Effect
  <2>3. \A V : EndedLogs(L, V, u, Target[i], s)[k] = L[k]
    BY <1>2 DEF EndedLogs
  <2>4. QED
    BY <2>2, <2>3
<1>6. CASE r.op = "cancel"
  <2>1. e \in Cancel(u, i, s, L, W)
    BY <1>6 DEF Effects
  <2>2. e.logs = Deleted(L, Pivot(L, u, i, s))
    BY <2>1, CancelShape
  <2>3. QED
    BY <1>2, <2>2 DEF Deleted
<1>7. QED
  BY <1>1, <1>3, <1>4, <1>5, <1>6

LEMMA SettledCommit ==
  ASSUME WorkInv, NEW L, NEW W, NEW r \in Request, NEW e \in Effects(r, L, W),
         Snapshot(L, W), Committed(r, L, W, e),
         NEW k \in DOMAIN logs, logs[k].state # "progress"
  PROVE  logs'[k] = logs[k]
<1>1. /\ L \in Seq(Log) /\ W \in Seq(Work) /\ now \in Nat \ {0} /\ OldRows(L, W, e)
  BY DEF WorkInv, TypeOK, Snapshot, Committed
<1>2. CASE k \in DOMAIN L /\ logs[k] = L[k]
  <2>1. e.logs[k] = L[k]
    BY <1>1, <1>2, SettledEffect
  <2>2. QED
    BY <1>1, <1>2, <2>1 DEF OldRows
<1>3. CASE ~(k \in DOMAIN L /\ logs[k] = L[k])
  BY <1>1, <1>3 DEF OldRows
<1>4. QED
  BY <1>2, <1>3

Billed(row, time) ==
  row.state = "done" /\ ~row.entered =>
    LET least == IF time > Floor THEN time ELSE Floor
    IN  /\ row.duration \in least..(least + Rounds * (Unit - 1))
        /\ Exact(least) => row.duration < least + Unit /\ row.duration % Unit = 0

LEMMA BilledIs ==
  ASSUME NEW row, NEW time \in Nat, row.duration = RoundedUp(IF time > Floor THEN time ELSE Floor)
  PROVE  Billed(row, time)
<1>1. (IF time > Floor THEN time ELSE Floor) \in Nat
  BY DurationAssumption
<1>2. QED
  BY <1>1, RoundedUpIs DEF Billed

LEMMA TimeBilledIs ==
  TimeBilled <=> \A k \in DOMAIN logs : Undisturbed(k) => Billed(logs[k], worked[k])
BY DEF TimeBilled, Billed

LEMMA NewAccount ==
  ASSUME WorkInv, NEW L, NEW W, NEW r \in Request, NEW e \in Effects(r, L, W),
         Committed(r, L, W, e), Snapshot(L, W), NEW k \in DOMAIN logs', k \notin DOMAIN logs
  PROVE  /\ logs'[k].state = "progress" /\ Own(logs'[k]) \in atWork' /\ Running(works', k)
         /\ Clocked(works', k, now) = 0
<1> DEFINE u == r.user
           i == r.issue
           s == r.source
           N == Len(works) + 1
           w == NewWork(u, i, s, k)
           f == [n \in DOMAIN works' |-> Clock(works'[n], now)]
<1>1. /\ logs \in Seq(Log) /\ works \in Seq(Work) /\ now \in Nat \ {0}
      /\ logs' \in Seq(Log) /\ works' \in Seq(Work) /\ L \in Seq(Log) /\ W \in Seq(Work)
      /\ \A n \in DOMAIN works : works[n].cluster \in DOMAIN logs
  BY DEF WorkInv, TypeOK, Committed, Grown, Snapshot
<1>2. /\ DOMAIN logs = 1..Len(logs) /\ Len(logs) \in Nat
      /\ DOMAIN logs' = 1..Len(logs') /\ Len(logs') \in Nat
  BY <1>1, RowsOfSeq
<1>3. Len(logs') # Len(logs)
  BY <1>2
<1>4. PICK j \in DOMAIN logs' :
        /\ e.newWorks = <<NewWork(u, i, s, j)>>
        /\ \/ AddsWork(e, L, u, i, s) /\ Len(logs') = Len(logs)
           \/ /\ AddsLog(e, L, u, i, s)
              /\ Len(logs') = Len(logs) + 1 /\ j = Len(logs) + 1
              /\ logs'[j] = NewLog(u, i, s)
        /\ Len(works') = Len(works) + 1
        /\ works'[Len(works) + 1] = NewWork(u, i, s, j)
  BY <1>3 DEF Committed
<1>5. j = Len(logs) + 1 /\ Len(logs') = Len(logs) + 1 /\ logs'[j] = NewLog(u, i, s)
  <2> HIDE DEF u, i, s
  <2>1. QED
    BY <1>3, <1>4, Zenon
<1>6. j = k
  BY <1>2, <1>5
<1>7. logs'[k] = NewLog(u, i, s) /\ e.newWorks = <<w>> /\ ~AddsNothing(e)
  <2>1. <<>> # <<w>>
    OBVIOUS
  <2> HIDE DEF u, i, s
  <2>2. QED
    BY <1>4, <1>5, <1>6, <2>1 DEF AddsNothing
<1>8. logs'[k].state = "progress" /\ Own(logs'[k]) = <<u, i, s>>
  BY <1>7 DEF NewLog, Own
<1>9. <<u, i, s>> \in atWork'
  <2>1. atWork' = e.atWork
    BY DEF Committed
  <2>2. r.op = "start"
    <3>1. r.op \in {"start", "pause", "done", "cancel"} /\ i \in Issue
      BY DEF Request
    <3>2. QED
      BY <1>1, <1>7, <3>1, PauseShape, DoneShape, CancelShape DEF Effects
  <2>3. e \in Start(u, i, s, L, W)
    BY <2>2 DEF Effects
  <2>4. e.atWork = atWork \cup {<<u, i, s>>}
    BY <1>1, <2>3, StartShape
  <2>5. QED
    BY <2>1, <2>4
<1>10. Rows(works, k) = {}
  BY <1>1 DEF Rows
<1>11. Rows(works', k) = {N} /\ works'[N] = w /\ N \in DOMAIN works'
  <2>1. \/ /\ e.newWorks = <<w>> /\ N \notin DOMAIN works /\ N \in DOMAIN works'
           /\ Rows(works', k) = Rows(works, k) \cup {N} /\ works'[N] = w
        \/ e.newWorks # <<w>> /\ Rows(works', k) = Rows(works, k)
    BY RowsAfter
  <2> HIDE DEF w, N
  <2>2. QED
    BY <1>7, <1>10, <2>1
<1>12. w.state = "progress" /\ Clock(w, now) = 0
  BY <1>1 DEF NewWork, Clock
<1> HIDE DEF w, N
<1>13. Running(works', k)
  BY <1>11, <1>12 DEF Running
<1>14. SumOf(f, {N}) = 0
  <2>1. f[N] = 0
    BY <1>11, <1>12
  <2> HIDE DEF f
  <2>2. IsFiniteSet({N}) /\ \A y \in {N} : f[y] \in Int
    BY <2>1, FS_Singleton
  <2>3. /\ SumOf(f, {N}) = SumOf(f, {N} \ {N}) + f[N]
        /\ SumOf(f, {N} \ {N}) \in Int
    BY <2>2, SumAdd
  <2>4. {N} \ {N} = {}
    OBVIOUS
  <2>5. SumOf(f, {N} \ {N}) = 0
    BY <2>4, SumEmpty, Zenon
  <2>6. QED
    BY <2>1, <2>3, <2>5
<1>15. Clocked(works', k, now) = 0
  BY <1>11, <1>14 DEF Clocked
<1>16. QED
  BY <1>8, <1>9, <1>13, <1>15

LEMMA CommitAccount ==
  ASSUME WorkKept, WorkKept', AccountInv, NEW L, NEW W, NEW r \in Request,
         NEW e \in Effects(r, L, W), Snapshot(L, W), Committed(r, L, W, e),
         overlapped \subseteq overlapped', Marked(L, W), worked' = worked, now' = now
  PROVE  AccountInv'
<1>1. /\ WorkInv /\ OneLogInProgress /\ WorkInv' /\ OneLogInProgress'
      /\ Grown /\ mixed \subseteq mixed' /\ worked \in [1..MaxLogs -> Nat]
  BY DEF WorkKept, WorkInv, TypeOK, Committed
<1>2. /\ \A k \in 1..MaxLogs : k \notin DOMAIN logs => worked[k] = 0
      /\ RowsOwned
      /\ \A k \in DOMAIN logs : logs[k].state = "progress" /\ Undisturbed(k) => Accounted(k)
      /\ TimeBilled
  BY DEF AccountInv
<1>3. /\ logs \in Seq(Log) /\ logs' \in Seq(Log) /\ Len(logs) <= Len(logs')
      /\ \A k \in DOMAIN logs : LogStep(logs[k], logs'[k])
  BY <1>1 DEF WorkInv, TypeOK, Grown
<1>4. /\ DOMAIN logs = 1..Len(logs) /\ Len(logs) \in Nat
      /\ DOMAIN logs' = 1..Len(logs') /\ Len(logs') \in Nat
  BY <1>3, RowsOfSeq
<1>5. DOMAIN logs \subseteq DOMAIN logs'
  BY <1>3, <1>4
<1>6. DOMAIN logs' \subseteq 1..MaxLogs
  <2>1. scene'.logs \in Nat /\ scene'.logs <= MaxLogs /\ Len(logs') <= scene'.logs /\ MaxLogs \in Nat
    BY <1>1, SceneAssumption DEF WorkInv, TypeOK, Scene
  <2>2. QED
    BY <1>4, <2>1
<1>7. \A k \in DOMAIN logs : Undisturbed(k)' => Undisturbed(k)
  BY <1>1, UndisturbedBefore
<1>8. \A k \in DOMAIN logs : Own(logs'[k]) = Own(logs[k])
  BY <1>3 DEF LogStep, Own
<1>9. RowsOwned'
  BY <1>1, <1>2, OwnedCommit
<1>10. ASSUME NEW k \in DOMAIN logs', Undisturbed(k)'
       PROVE  /\ logs'[k].state = "progress" => Accounted(k)'
              /\ Billed(logs'[k], worked'[k])
  <2>1. CASE k \notin DOMAIN logs
    <3>1. /\ logs'[k].state = "progress" /\ Own(logs'[k]) \in atWork' /\ Running(works', k)
          /\ Clocked(works', k, now) = 0
      BY <1>1, <2>1, NewAccount
    <3>2. worked'[k] = 0
      BY <1>2, <1>6, <2>1
    <3>3. QED
      BY <3>1, <3>2 DEF Accounted, Billed
  <2>2. CASE k \in DOMAIN logs /\ logs[k].state # "progress"
    <3>1. logs'[k] = logs[k]
      BY <1>1, <2>2, SettledCommit
    <3>2. Billed(logs[k], worked[k])
      BY <1>2, <1>7, <1>10, <2>2, TimeBilledIs
    <3>3. QED
      BY <2>2, <3>1, <3>2
  <2>3. CASE k \in DOMAIN logs /\ logs[k].state = "progress"
    <3>1. Undisturbed(k) /\ Accounted(k)
      BY <1>2, <1>7, <1>10, <2>3
    <3>2. /\ Own(logs[k]) \in atWork <=> Running(works, k)
          /\ worked[k] = Clocked(works, k, now)
      BY <3>1 DEF Accounted
    <3>3. k \notin mixed' \cup overlapped'
      BY <1>10 DEF Undisturbed
    <3>4. CASE k \notin Touched
      <4>1. logs'[k] = logs[k]
        BY <1>5, <2>3, <3>4 DEF Touched
      <4>2. \A n \in DOMAIN works' :
              works'[n].cluster = k => n \in DOMAIN works /\ works'[n] = works[n]
        BY <3>4 DEF Touched
      <4>3. \A n \in DOMAIN works : n \in DOMAIN works' /\ works'[n].cluster = works[n].cluster
        <5>1. /\ works \in Seq(Work) /\ works' \in Seq(Work) /\ Len(works) <= Len(works')
              /\ \A n \in DOMAIN works : WorkStep(works[n], works'[n])
          BY <1>1 DEF WorkInv, TypeOK, Grown
        <5>2. /\ DOMAIN works = 1..Len(works) /\ Len(works) \in Nat
              /\ DOMAIN works' = 1..Len(works') /\ Len(works') \in Nat
          BY <5>1, RowsOfSeq
        <5>3. QED
          BY <5>1, <5>2 DEF WorkStep
      <4>4. Rows(works', k) = Rows(works, k) /\ \A n \in Rows(works, k) : works'[n] = works[n]
        BY <4>2, <4>3 DEF Rows
      <4>5. Running(works', k) <=> Running(works, k)
        BY <4>4 DEF Running
      <4>6. Clocked(works', k, now) = Clocked(works, k, now)
        BY <4>4, ClockedSame
      <4>7. Own(logs[k]) \in atWork' <=> Own(logs[k]) \in atWork
        <5> HIDE DEF Touched
        <5>1. QED
          BY <1>1, <1>10, <2>3, <3>4, UntouchedAtWork
      <4>8. QED
        BY <2>3, <3>2, <4>1, <4>5, <4>6, <4>7 DEF Accounted, Billed
    <3>5. CASE k \in Touched /\ logs'[k].state # "deleted"
      <4>1. \A j \in DOMAIN logs : logs[j].issue = logs[k].issue => j \notin Outdated(L, W)
        <5>1. logs'[k].issue = logs[k].issue
          BY <1>3, <2>3 DEF LogStep
        <5>2. \A o \in Outdated(L, W) : logs[o].issue # logs[k].issue
          <6> HIDE DEF Touched, Outdated
          <6>1. QED
            BY <3>3, <3>5, <5>1 DEF Marked
        <5>3. QED
          BY <5>2
      <4>2. Alone(logs, k)
        BY <1>1, <2>3, <3>1, AloneInProgress
      <4>3. Alone(L, k)
        <5>1. L[k] = logs[k]
          BY <2>3, <4>1 DEF Outdated
        <5> SUFFICES ASSUME NEW j \in DOMAIN L, L[j].state = "progress",
                            L[j].user = L[k].user, L[j].issue = L[k].issue
                     PROVE  j = k
          BY DEF Alone
        <5>2. j \in DOMAIN logs /\ logs[j].user = L[j].user /\ logs[j].issue = L[j].issue
          <6>1. /\ L \in Seq(Log) /\ Len(L) <= Len(logs) /\ LogStep(L[j], logs[j])
            BY DEF Snapshot
          <6>2. DOMAIN L = 1..Len(L) /\ Len(L) \in Nat
            BY <6>1, RowsOfSeq
          <6>3. QED
            BY <1>4, <6>1, <6>2 DEF LogStep
        <5>3. logs[j] = L[j]
          BY <4>1, <5>1, <5>2 DEF Outdated
        <5>4. QED
          BY <4>2, <5>1, <5>2, <5>3 DEF Alone
      <4>4. OwnRows(logs, works, k)
        BY <1>1, <1>2, <2>3, <3>3 DEF RowsOwned
      <4>5. /\ Clocked(works', k, now) = Clocked(works, k, now)
            /\ logs'[k].state = "progress" =>
                 (Own(logs[k]) \in atWork' <=> Running(works', k))
            /\ logs'[k].state = "done" =>
                 LET clocked == Clocked(works, k, now)
                 IN  /\ ~logs'[k].entered
                     /\ logs'[k].duration = RoundedUp(IF clocked > Floor THEN clocked ELSE Floor)
        <5>1. k \notin Outdated(L, W)
          BY <2>3, <4>1
        <5> HIDE DEF Outdated, Touched
        <5>2. QED
          BY <1>1, <2>3, <3>2, <3>3, <3>5, <4>3, <4>4, <5>1, KnownAccount
      <4>6. worked'[k] = Clocked(works, k, now) /\ worked'[k] \in Nat
        BY <1>1, <1>6, <3>2
      <4>7. Billed(logs'[k], worked'[k])
        <5>1. CASE logs'[k].state = "done"
          BY <4>5, <4>6, <5>1, BilledIs
        <5>2. CASE logs'[k].state # "done"
          BY <5>2 DEF Billed
        <5>3. QED
          BY <5>1, <5>2
      <4>8. logs'[k].state = "progress" => Accounted(k)'
        BY <1>8, <2>3, <4>5, <4>6 DEF Accounted
      <4>9. QED
        BY <4>7, <4>8
    <3>6. CASE logs'[k].state = "deleted"
      BY <3>6 DEF Billed
    <3>7. QED
      BY <3>4, <3>5, <3>6
  <2>4. QED
    BY <2>1, <2>2, <2>3
<1>11. TimeBilled'
  <2>1. (TimeBilled <=> \A k \in DOMAIN logs : Undisturbed(k) => Billed(logs[k], worked[k]))'
    BY DEF TimeBilled, Billed, Undisturbed
  <2>2. QED
    BY <1>10, <2>1
<1>12. \A k \in 1..MaxLogs : k \notin DOMAIN logs' => worked'[k] = 0
  BY <1>2, <1>5
<1>13. QED
  BY <1>9, <1>10, <1>11, <1>12 DEF AccountInv

LEMMA ServeAccount ==
  ASSUME WorkKept, AccountInv, NEW r \in Requests, Serve(r)
  PROVE  AccountInv'
<1>1. WorkKept'
  BY ServeKeeps
<1>2. /\ overlapped' = overlapped
      /\ \E e \in Effects(r, logs, works) : Committed(r, logs, works, e)
  BY ServeStep DEF WorkKept
<1>3. PICK e \in Effects(r, logs, works) : Committed(r, logs, works, e)
  BY <1>2
<1>4. Marked(logs, works)
  BY NothingOutdated DEF Marked
<1>5. r \in Request /\ Snapshot(logs, works)
  BY SceneFacts, SnapshotNow DEF WorkInv, WorkKept
<1>6. worked' = worked /\ now' = now
  BY DEF Serve
<1>7. overlapped \subseteq overlapped'
  BY <1>2
<1>8. QED
  BY <1>1, <1>3, <1>4, <1>5, <1>6, <1>7, CommitAccount

LEMMA CompleteAccount ==
  ASSUME WorkKept, AccountInv, Complete
  PROVE  AccountInv'
<1>1. WorkKept'
  BY CompleteKeeps
<1>2. \E L, W : \E r \in Request : \E e \in Effects(r, L, W) :
        /\ Snapshot(L, W) /\ Committed(r, L, W, e)
        /\ overlapped' =
             overlapped \cup
               {k \in Touched : \E o \in Outdated(L, W) : logs[o].issue = logs'[k].issue}
  BY CompleteStep DEF WorkKept
<1>3. PICK L, W :
        \E r \in Request : \E e \in Effects(r, L, W) :
          /\ Snapshot(L, W) /\ Committed(r, L, W, e)
          /\ overlapped' =
               overlapped \cup
                 {k \in Touched : \E o \in Outdated(L, W) : logs[o].issue = logs'[k].issue}
  BY <1>2
<1>4. PICK r \in Request :
         \E e \in Effects(r, L, W) :
           /\ Snapshot(L, W) /\ Committed(r, L, W, e)
           /\ overlapped' =
                overlapped \cup
                  {k \in Touched : \E o \in Outdated(L, W) : logs[o].issue = logs'[k].issue}
  BY <1>3
<1>5. PICK e \in Effects(r, L, W) :
        /\ Snapshot(L, W) /\ Committed(r, L, W, e)
        /\ overlapped' =
             overlapped \cup
               {k \in Touched : \E o \in Outdated(L, W) : logs[o].issue = logs'[k].issue}
  BY <1>4
<1>6. worked' = worked /\ now' = now
  BY DEF Complete
<1> HIDE DEF Touched, Outdated
<1>7. overlapped \subseteq overlapped' /\ Marked(L, W)
  BY <1>5 DEF Marked
<1>8. QED
  BY <1>1, <1>5, <1>6, <1>7, CommitAccount

(* A step other than a commit leaves a log in progress as it is, deletes   *)
(* it, or has somebody enter its duration.                                 *)
SameRows(k) == Rows(works', k) = Rows(works, k) /\ \A n \in Rows(works, k) : works'[n] = works[n]

Quiet(k) ==
  \/ k \in DOMAIN logs /\ SameRows(k) /\ logs'[k] = logs[k]
  \/ k \in DOMAIN logs /\ SameRows(k) /\ logs'[k].state = logs[k].state /\ logs'[k].entered
  \/ logs'[k].state = "deleted"
  \/ logs'[k].state = "done" /\ logs'[k].entered

LEMMA QuietAccount ==
  ASSUME WorkInv, AccountInv, Grown, UNCHANGED <<now, atWork, worked, mixed, overlapped>>,
         DOMAIN works' = DOMAIN works, \A k \in DOMAIN logs' : Quiet(k)
  PROVE  AccountInv'
<1>1. /\ \A k \in 1..MaxLogs : k \notin DOMAIN logs => worked[k] = 0
      /\ RowsOwned
      /\ \A k \in DOMAIN logs : logs[k].state = "progress" /\ Undisturbed(k) => Accounted(k)
      /\ \A k \in DOMAIN logs : Undisturbed(k) => Billed(logs[k], worked[k])
  BY TimeBilledIs DEF AccountInv
<1>2. /\ logs \in Seq(Log) /\ logs' \in Seq(Log) /\ Len(logs) <= Len(logs')
      /\ works \in Seq(Work) /\ works' \in Seq(Work)
      /\ \A k \in DOMAIN logs : LogStep(logs[k], logs'[k])
      /\ \A n \in DOMAIN works : WorkStep(works[n], works'[n])
      /\ \A n \in DOMAIN works : works[n].cluster \in DOMAIN logs
      /\ \A n \in DOMAIN works' : works'[n].cluster \in DOMAIN logs'
  BY DEF WorkInv, TypeOK, Grown
<1>3. DOMAIN logs \subseteq DOMAIN logs'
  <2>1. /\ DOMAIN logs = 1..Len(logs) /\ Len(logs) \in Nat
        /\ DOMAIN logs' = 1..Len(logs') /\ Len(logs') \in Nat
    BY <1>2, RowsOfSeq
  <2>2. QED
    BY <1>2, <2>1
<1>4. \A k \in DOMAIN logs : Undisturbed(k)' => Undisturbed(k)
  BY UndisturbedBefore
<1>5. \A k \in DOMAIN logs : Own(logs'[k]) = Own(logs[k])
  BY <1>2 DEF LogStep, Own
<1>6. ASSUME NEW k \in DOMAIN logs', Undisturbed(k)'
      PROVE  /\ logs'[k].state = "progress" => Accounted(k)'
             /\ Billed(logs'[k], worked[k])
  <2>1. CASE /\ k \in DOMAIN logs /\ SameRows(k)
             /\ \/ logs'[k] = logs[k]
                \/ logs'[k].state = logs[k].state /\ logs'[k].entered
    <3>1. Running(works', k) <=> Running(works, k)
      BY <2>1 DEF Running, SameRows
    <3>2. Clocked(works', k, now) = Clocked(works, k, now)
      BY <2>1, ClockedSame DEF SameRows
    <3>3. Undisturbed(k)
      BY <1>4, <1>6, <2>1
    <3>4. logs'[k].state = "progress" => Accounted(k)'
      BY <1>1, <1>5, <2>1, <3>1, <3>2, <3>3 DEF Accounted
    <3>5. Billed(logs'[k], worked[k])
      BY <1>1, <2>1, <3>3 DEF Billed
    <3>6. QED
      BY <3>4, <3>5
  <2>2. CASE \/ logs'[k].state = "deleted"
             \/ logs'[k].state = "done" /\ logs'[k].entered
    BY <2>2 DEF Billed
  <2>3. QED
    BY <2>1, <2>2 DEF Quiet
<1>7. RowsOwned'
  <2> SUFFICES ASSUME NEW k \in DOMAIN logs', k \notin mixed, NEW n \in Rows(works', k)
               PROVE  Own(works'[n]) = Own(logs'[k])
    BY DEF RowsOwned, OwnRows
  <2>1. n \in DOMAIN works
    BY DEF Rows
  <2>2. works[n].cluster = k /\ k \in DOMAIN logs /\ Own(works'[n]) = Own(works[n])
    BY <1>2, <2>1 DEF Rows, WorkStep, Own
  <2>3. Own(works[n]) = Own(logs[k])
    BY <1>1, <2>1, <2>2 DEF RowsOwned, OwnRows, Rows
  <2>4. QED
    BY <1>5, <2>2, <2>3
<1>8. TimeBilled'
  <2>1. (TimeBilled <=> \A k \in DOMAIN logs : Undisturbed(k) => Billed(logs[k], worked[k]))'
    BY DEF TimeBilled, Billed, Undisturbed
  <2>2. QED
    BY <1>6, <2>1
<1>9. \A k \in 1..MaxLogs : k \notin DOMAIN logs' => worked'[k] = 0
  BY <1>1, <1>3
<1>10. QED
  BY <1>6, <1>7, <1>8, <1>9 DEF AccountInv

LEMMA BookAccount ==
  ASSUME WorkKept, AccountInv, Book
  PROVE  AccountInv'
<1>1. /\ WorkInv /\ Grown /\ \A k \in DOMAIN logs : logs'[k] = logs[k]
      /\ \A k \in DOMAIN logs' :
           k \notin DOMAIN logs => logs'[k].state = "done" /\ logs'[k].entered
  BY BookStep DEF WorkKept
<1>2. UNCHANGED <<works, now, atWork, worked, mixed, overlapped>>
  BY DEF Book
<1>3. \A k \in DOMAIN logs' : Quiet(k)
  <2> SUFFICES ASSUME NEW k \in DOMAIN logs' PROVE Quiet(k)
    OBVIOUS
  <2>1. SameRows(k)
    BY <1>2 DEF SameRows, Rows
  <2>2. QED
    BY <1>1, <2>1 DEF Quiet
<1>4. QED
  BY <1>1, <1>2, <1>3, QuietAccount

LEMMA UpdateAccount ==
  ASSUME WorkKept, AccountInv, NEW k \in DOMAIN logs, NEW d \in scene.given, Update(k, d)
  PROVE  AccountInv'
<1>1. /\ WorkInv /\ Grown /\ DOMAIN logs' = DOMAIN logs
      /\ \A j \in DOMAIN logs : logs'[j].state = logs[j].state
  BY UpdateStep DEF WorkKept
<1>2. UNCHANGED <<works, now, atWork, worked, mixed, overlapped>>
  BY DEF Update
<1>3. logs[k] \in Log
  BY <1>1, RowsOfSeq DEF WorkInv, TypeOK
<1>4. logs'[k].entered
  <2> DEFINE b == [logs[k] EXCEPT !.duration = RoundedUp(d), !.entered = TRUE]
  <2>1. b.entered
    BY <1>3 DEF Log
  <2>2. logs' = [logs EXCEPT ![k] = b]
    BY DEF Update
  <2> HIDE DEF b
  <2>3. QED
    BY <2>1, <2>2
<1>5. \A j \in DOMAIN logs : j # k => logs'[j] = logs[j]
  BY DEF Update
<1>6. \A j \in DOMAIN logs' : Quiet(j)
  <2> SUFFICES ASSUME NEW j \in DOMAIN logs' PROVE Quiet(j)
    OBVIOUS
  <2>1. SameRows(j)
    BY <1>2 DEF SameRows, Rows
  <2>2. QED
    BY <1>1, <1>4, <1>5, <2>1 DEF Quiet
<1>7. QED
  BY <1>1, <1>2, <1>6, QuietAccount

LEMMA DeleteAccount ==
  ASSUME WorkKept, AccountInv, NEW k \in DOMAIN logs, Delete(k)
  PROVE  AccountInv'
<1>1. /\ WorkInv /\ Grown /\ DOMAIN logs' = DOMAIN logs /\ DOMAIN works' = DOMAIN works
      /\ \A j \in DOMAIN logs : j # k => logs'[j] = logs[j]
      /\ logs'[k].state = "deleted"
      /\ \A n \in DOMAIN works : works[n].cluster # k => works'[n] = works[n]
  BY DeleteStep DEF WorkKept
<1>2. UNCHANGED <<now, atWork, worked, mixed, overlapped>>
  BY DEF Delete
<1>3. \A n \in DOMAIN works : works'[n].cluster = works[n].cluster
  BY <1>1 DEF Grown, WorkStep
<1>4. \A j \in DOMAIN logs' : Quiet(j)
  <2> SUFFICES ASSUME NEW j \in DOMAIN logs', j # k PROVE Quiet(j)
    BY <1>1 DEF Quiet
  <2>1. SameRows(j)
    BY <1>1, <1>3 DEF SameRows, Rows
  <2>2. QED
    BY <1>1, <2>1 DEF Quiet
<1>5. QED
  BY <1>1, <1>2, <1>4, QuietAccount

(* A second more for the work log in progress, if there is one.            *)
LEMMA ClockedTick ==
  ASSUME NEW W \in Seq(Work), NEW M, NEW k, ClusterInOrder(M, W, k), NEW at \in Nat
  PROVE  Clocked(W, k, at + 1) = Clocked(W, k, at) + (IF Running(W, k) THEN 1 ELSE 0)
<1> DEFINE f == [n \in DOMAIN W |-> Clock(W[n], at)]
           g == [n \in DOMAIN W |-> Clock(W[n], at + 1)]
           R == Rows(W, k)
<1>1. /\ IsFiniteSet(R) /\ R \subseteq DOMAIN W
      /\ \A n \in DOMAIN W : f[n] \in Int /\ g[n] \in Int
      /\ Clocked(W, k, at) \in Int
  <2>1. at + 1 \in Nat
    OBVIOUS
  <2>2. /\ \A n \in DOMAIN W : Clock(W[n], at) \in Int
        /\ IsFiniteSet(R) /\ R \subseteq DOMAIN W /\ Clocked(W, k, at) \in Int
    BY ClockType
  <2>3. \A n \in DOMAIN W : Clock(W[n], at + 1) \in Int
    BY <2>1, ClockType
  <2>4. QED
    BY <2>2, <2>3
<1>2. \A n \in R : n \in DOMAIN W /\ W[n].cluster = k
  BY DEF Rows
<1>3. \A n \in DOMAIN W : W[n].state # "progress" => g[n] = f[n]
  BY DEF Clock
<1>4. \A n \in DOMAIN W : W[n].state = "progress" => g[n] = f[n] + 1
  <2> SUFFICES ASSUME NEW n \in DOMAIN W, W[n].state = "progress" PROVE g[n] = f[n] + 1
    OBVIOUS
  <2>1. W[n] \in Work
    BY RowsOfSeq
  <2>2. QED
    BY <2>1 DEF Clock, Work
<1>5. Clocked(W, k, at) = SumOf(f, R) /\ Clocked(W, k, at + 1) = SumOf(g, R)
  BY DEF Clocked
<1>6. CASE ~Running(W, k)
  <2>1. \A n \in R : g[n] = f[n]
    BY <1>2, <1>3, <1>6 DEF Running
  <2> HIDE DEF f, g, R
  <2>2. SumOf(g, R) = SumOf(f, R)
    BY <2>1, SumSame
  <2>3. QED
    BY <1>1, <1>5, <1>6, <2>2
<1>7. CASE Running(W, k)
  <2>1. PICK n \in R : W[n].state = "progress"
    BY <1>7 DEF Running
  <2>2. \A m \in R \ {n} : W[m].state # "progress"
    BY <1>2, <2>1 DEF ClusterInOrder
  <2>3. \A m \in R \ {n} : g[m] = f[m]
    BY <1>2, <1>3, <2>2
  <2>4. g[n] = f[n] + 1 /\ f[n] \in Int
    BY <1>1, <1>2, <1>4, <2>1
  <2> HIDE DEF f, g, R
  <2>5. SumOf(g, R \ {n}) = SumOf(f, R \ {n})
    BY <2>3, SumSame
  <2>6. \A m \in R : f[m] \in Int /\ g[m] \in Int
    BY <1>1
  <2>7. SumOf(f, R) = SumOf(f, R \ {n}) + f[n] /\ SumOf(f, R \ {n}) \in Int
    BY <1>1, <2>6, SumAdd
  <2>8. SumOf(g, R) = SumOf(g, R \ {n}) + g[n]
    BY <1>1, <2>6, SumAdd
  <2>9. QED
    BY <1>5, <1>7, <2>4, <2>5, <2>7, <2>8
<1>8. QED
  BY <1>6, <1>7

LEMMA TickAccount ==
  ASSUME WorkKept, AccountInv, Tick
  PROVE  AccountInv'
<1>1. /\ now' = now + 1 /\ UNCHANGED <<logs, works, atWork, mixed, overlapped>>
      /\ worked' = [k \in 1..MaxLogs |->
                     IF k \in DOMAIN logs /\ logs[k].state = "progress" /\ Own(logs[k]) \in atWork
                     THEN worked[k] + 1 ELSE worked[k]]
  BY DEF Tick, Own
<1>2. /\ \A k \in 1..MaxLogs : k \notin DOMAIN logs => worked[k] = 0
      /\ RowsOwned
      /\ \A k \in DOMAIN logs : logs[k].state = "progress" /\ Undisturbed(k) => Accounted(k)
      /\ \A k \in DOMAIN logs : Undisturbed(k) => Billed(logs[k], worked[k])
  BY TimeBilledIs DEF AccountInv
<1>3. /\ works \in Seq(Work) /\ now \in Nat /\ worked \in [1..MaxLogs -> Nat]
  BY DEF WorkKept, WorkInv, TypeOK
<1>4. DOMAIN logs \subseteq 1..MaxLogs
  <2>1. scene.logs \in Nat /\ scene.logs <= MaxLogs /\ Len(logs) <= scene.logs
        /\ MaxLogs \in Nat /\ logs \in Seq(Log)
    BY SceneAssumption DEF WorkKept, WorkInv, TypeOK, Scene
  <2>2. DOMAIN logs = 1..Len(logs) /\ Len(logs) \in Nat
    BY <2>1, RowsOfSeq
  <2>3. QED
    BY <2>1, <2>2
<1>5. \A k : Undisturbed(k)' <=> Undisturbed(k)
  BY <1>1 DEF Undisturbed
<1>6. RowsOwned'
  BY <1>1, <1>2 DEF RowsOwned, OwnRows, Rows
<1>7. ASSUME NEW k \in DOMAIN logs, logs[k].state = "progress", Undisturbed(k)
      PROVE  Accounted(k)'
  <2>1. /\ Own(logs[k]) \in atWork <=> Running(works, k)
        /\ worked[k] = Clocked(works, k, now)
    BY <1>2, <1>7 DEF Accounted
  <2>2. ClusterInOrder(logs, works, k)
    BY <1>7 DEF WorkKept, AllInOrder, Undisturbed
  <2>3. Clocked(works, k, now + 1) =
          Clocked(works, k, now) + (IF Running(works, k) THEN 1 ELSE 0)
    BY <1>3, <2>2, ClockedTick
  <2>4. worked[k] \in Nat /\ k \in 1..MaxLogs
    BY <1>3, <1>4
  <2>5. worked'[k] = Clocked(works, k, now + 1)
    BY <1>1, <1>7, <2>1, <2>3, <2>4
  <2>6. QED
    BY <1>1, <2>1, <2>5 DEF Accounted
<1>8. ASSUME NEW k \in DOMAIN logs, Undisturbed(k) PROVE Billed(logs[k], worked'[k])
  <2>1. logs[k].state = "done" => worked'[k] = worked[k]
    BY <1>1, <1>4
  <2>2. QED
    BY <1>2, <1>8, <2>1 DEF Billed
<1>9. TimeBilled'
  <2>1. (TimeBilled <=> \A k \in DOMAIN logs : Undisturbed(k) => Billed(logs[k], worked[k]))'
    BY DEF TimeBilled, Billed, Undisturbed
  <2>2. QED
    BY <1>1, <1>5, <1>8, <2>1
<1>10. \A k \in 1..MaxLogs : k \notin DOMAIN logs => worked'[k] = 0
  BY <1>1, <1>2
<1>11. QED
  BY <1>1, <1>5, <1>6, <1>7, <1>9, <1>10 DEF AccountInv

LEMMA SameAccount ==
  ASSUME AccountInv, UNCHANGED <<logs, works, now, atWork, worked, mixed, overlapped>>
  PROVE  AccountInv'
BY DEF AccountInv, RowsOwned, OwnRows, Rows, Accounted, Running, Clocked, Undisturbed, TimeBilled

LEMMA RequestAccount ==
  ASSUME WorkKept, AccountInv, RequestNext
  PROVE  AccountInv'
<1>1. CASE \E r \in Requests : Serve(r)
  BY <1>1, ServeAccount
<1>2. CASE Complete
  BY <1>2, CompleteAccount
<1>3. CASE Abort \/ \E r \in Requests : Delay(r)
  <2>1. UNCHANGED <<logs, works, now, atWork, worked, mixed, overlapped>>
    BY <1>3 DEF Abort, Delay
  <2>2. QED
    BY <2>1, SameAccount
<1>4. CASE \E w \in scene.who, d \in scene.given : Manual(w[1], w[2], w[3], d)
  BY <1>4, ManualBooks, BookAccount DEF WorkKept
<1>5. CASE \E k \in DOMAIN logs : Delete(k)
  BY <1>5, DeleteAccount
<1>6. CASE \E k \in DOMAIN logs : \E d \in scene.given : Update(k, d)
  BY <1>6, UpdateAccount
<1>7. QED
  BY <1>1, <1>2, <1>3, <1>4, <1>5, <1>6 DEF RequestNext

LEMMA AccountInit == Init => AccountInv
BY DEF Init, AccountInv, RowsOwned, TimeBilled
-----------------------------------------------------------------------------
(* What ChainBilled says of a booking, in a session where no click was     *)
(* made in an outdated tab.                                                *)
BookedRight(b) ==
  LET time == SumOf(spent, b.of)
  IN  /\ b.duration <= time + Unit - 1
      /\ b.of \cap revisited = {} => b.duration >= time
      /\ Exact(time) => b.duration % Unit = 0

(* A line that is not there any more was vacuumed, booked, or never worked *)
(* on; and a session is logged, or logged again, only after a click in an  *)
(* outdated tab or a vacuum, by which no line comes back.                  *)
BookedInv ==
  /\ booked \in Seq([of : SUBSET Line, duration : Nat])
  /\ vacuumed \cap DOMAIN lines = {}
  /\ \A l \in DOMAIN lines : lines[l].state = "draft" => l \notin revisited
  /\ \A l \in Line \ (DOMAIN lines \cup vacuumed) : spent[l] > 0 => BookingsOf(l) # {}
  /\ session.state = "logged" =>
       \A l \in DOMAIN lines : lines[l].state = "done" /\ BookingsOf(l) # {}
  /\ \A l \in Line :
       Cardinality(BookingsOf(l)) <=
         stale + Cardinality(vacuumed) +
           (IF session.state \in {"logged", "deleted"} THEN 1 ELSE 0)
  /\ stale = 0 =>
       /\ \A n \in DOMAIN booked : BookedRight(booked[n])
       /\ booked # <<>> =>
            /\ \A l \in DOMAIN lines : lines[l].state = "done"
            /\ session.state = "draft" => DOMAIN lines = {}
            /\ session.state # "progress"

LEMMA SpentIs ==
  ASSUME NEW L
  PROVE  FoldSet(LAMBDA l, sum : sum + spent[l], 0, L) = SumOf(spent, L)
<1> DEFINE Code(g) == [s \in SUBSET L |->
                        IF s = {} THEN 0
                        ELSE g[s \ {CHOOSE x \in s : TRUE}] + spent[CHOOSE x \in s : TRUE]]
           sum == FoldSet(LAMBDA l, sum : sum + spent[l], 0, L)
<1>1. ASSUME NEW g PROVE Code(g) = Adding(spent, L, g)
  BY DEF Adding
<1>2. sum = (CHOOSE g : g = Code(g))[L]
  BY DEF FoldSet, MapThenFoldSet
<1> HIDE DEF Code, sum
<1>3. (CHOOSE g : g = Code(g)) = (CHOOSE g : g = Adding(spent, L, g))
  BY <1>1
<1>4. sum = SumOf(spent, L)
  BY <1>2, <1>3 DEF SumOf
<1>5. QED
  BY <1>4 DEF sum

LEMMA ChainFinite ==
  ASSUME ChainInv
  PROVE  /\ IsFiniteSet(Line) /\ IsFiniteSet(vacuumed) /\ Cardinality(vacuumed) \in Nat
         /\ \A L \in SUBSET Line : IsFiniteSet(L)
<1>1. IsFiniteSet(Line)
  BY ChainAssumption, RowsOfSeq DEF Line
<1>2. vacuumed \subseteq Line
  BY DEF ChainInv
<1>3. \A L \in SUBSET Line : IsFiniteSet(L)
  BY <1>1, FS_Subset
<1>4. QED
  BY <1>1, <1>2, <1>3, FS_CardinalityType

LEMMA BookedFinite ==
  ASSUME BookedInv, NEW l
  PROVE  IsFiniteSet(BookingsOf(l)) /\ Cardinality(BookingsOf(l)) \in Nat
<1>1. IsFiniteSet(DOMAIN booked)
  BY RowsOfSeq DEF BookedInv
<1>2. BookingsOf(l) \subseteq DOMAIN booked
  BY DEF BookingsOf
<1>3. QED
  BY <1>1, <1>2, FS_Subset, FS_CardinalityType

LEMMA BookedIs ==
  ASSUME ChainInv, BookedInv
  PROVE  ChainBilled
<1>1. stale = 0 =>
        \A n \in DOMAIN booked :
          LET time == FoldSet(LAMBDA l, sum : sum + spent[l], 0, booked[n].of)
          IN  /\ booked[n].duration <= time + Unit - 1
              /\ booked[n].of \cap revisited = {} => booked[n].duration >= time
              /\ Exact(time) => booked[n].duration % Unit = 0
  <2> SUFFICES ASSUME stale = 0, NEW n \in DOMAIN booked
               PROVE  LET time == FoldSet(LAMBDA l, sum : sum + spent[l], 0, booked[n].of)
                      IN  /\ booked[n].duration <= time + Unit - 1
                          /\ booked[n].of \cap revisited = {} => booked[n].duration >= time
                          /\ Exact(time) => booked[n].duration % Unit = 0
    OBVIOUS
  <2> DEFINE fold == FoldSet(LAMBDA l, sum : sum + spent[l], 0, booked[n].of)
  <2>1. fold = SumOf(spent, booked[n].of)
    BY SpentIs
  <2>2. BookedRight(booked[n])
    BY DEF BookedInv
  <2> HIDE DEF fold
  <2>3. /\ booked[n].duration <= fold + Unit - 1
        /\ booked[n].of \cap revisited = {} => booked[n].duration >= fold
        /\ Exact(fold) => booked[n].duration % Unit = 0
    BY <2>1, <2>2 DEF BookedRight
  <2>4. QED
    BY <2>3 DEF fold
<1>2. ASSUME session.state = "logged", NEW l \in Line
      PROVE  /\ spent[l] > 0 => BookingsOf(l) # {} \/ l \in vacuumed
             /\ Cardinality(BookingsOf(l)) <= 1 + stale + Cardinality(vacuumed)
  <2>1. spent[l] > 0 => BookingsOf(l) # {} \/ l \in vacuumed
    BY <1>2 DEF BookedInv
  <2>2. Cardinality(BookingsOf(l)) <= stale + Cardinality(vacuumed) + 1
    BY <1>2 DEF BookedInv
  <2>3. stale \in Nat /\ Cardinality(vacuumed) \in Nat
    BY ChainFinite DEF ChainInv
  <2>4. Cardinality(BookingsOf(l)) \in Nat
    BY BookedFinite
  <2>5. QED
    BY <2>1, <2>2, <2>3, <2>4
<1>3. QED
  BY <1>1, <1>2 DEF ChainBilled

LEMMA BookedInit ==
  ASSUME ChainInit
  PROVE  BookedInv
<1>1. /\ lines = [l \in Line |-> [state |-> "draft", start |-> 0, end |-> 0, wrote |-> now]]
      /\ session = [state |-> "draft", start |-> 0, wrote |-> now, calls |-> 0]
      /\ booked = <<>> /\ revisited = {} /\ stale = 0 /\ vacuumed = {}
  BY DEF ChainInit
<1>2. booked \in Seq([of : SUBSET Line, duration : Nat]) /\ DOMAIN booked = {}
  BY <1>1
<1>3. \A l : BookingsOf(l) = {}
  BY <1>2 DEF BookingsOf
<1>4. Cardinality({}) = 0
  BY FS_EmptySet
<1>5. DOMAIN lines = Line /\ session.state = "draft"
  BY <1>1
<1>6. \A l \in Line : Cardinality(BookingsOf(l)) = 0
  BY <1>3, <1>4
<1>7. stale + Cardinality(vacuumed) + 0 = 0
  BY <1>1, <1>4
<1>8. QED
  BY <1>1, <1>2, <1>5, <1>6, <1>7 DEF BookedInv

LEMMA BookedSame ==
  ASSUME BookedInv, UNCHANGED <<lines, session, spent, booked, revisited, stale, vacuumed>>
  PROVE  BookedInv'
BY DEF BookedInv, BookingsOf, BookedRight

LEMMA BookedReload ==
  ASSUME BookedInv, NEW t, Reload(t)
  PROVE  BookedInv'
<1>1. UNCHANGED <<lines, session, spent, booked, revisited, stale, vacuumed>>
  BY DEF Reload
<1>2. QED
  BY <1>1, BookedSame

LEMMA StateOfIs == \A f : /\ StateOf(f) \in {"draft", "progress", "done"}
                          /\ StateOf(f) = "progress" => \E l \in DOMAIN f : f[l].state = "progress"
                          /\ DOMAIN f # {} /\ (\A l \in DOMAIN f : f[l].state = "done") =>
                               StateOf(f) = "done"
BY DEF StateOf

(* A click on a session that is logged was made in an outdated tab.        *)
LEMMA ClickStale ==
  ASSUME ChainInv, NEW t, NEW states \in SUBSET {"draft", "progress", "done"}, NEW then,
         Click(t, states, then)
  PROVE  /\ session.state # "deleted" /\ stale \in Nat /\ stale' \in Nat /\ stale' >= stale
         /\ session.state = "logged" => stale' = stale + 1
         /\ stale' = 0 => stale = 0 /\ session.state \in states
<1>1. /\ session.state # "deleted" /\ shown[t] \in states
      /\ stale' = stale + IF shown[t] = session.state THEN 0 ELSE 1
      /\ stale \in Nat
  BY DEF Click, ChainInv
<1>2. QED
  BY <1>1

LEMMA BookedTick ==
  ASSUME BookedInv, ChainInv, ChainTick
  PROVE  BookedInv'
<1>1. /\ spent' = [l \in Line |-> IF l \in In("progress") THEN spent[l] + 1 ELSE spent[l]]
      /\ UNCHANGED <<lines, session, booked, revisited, stale, vacuumed>>
  BY DEF ChainTick
<1>2. \A l \in Line \ (DOMAIN lines \cup vacuumed) : spent'[l] = spent[l]
  BY <1>1 DEF In
<1>3. spent \in [Line -> Nat]
  BY DEF ChainInv
<1>4. ASSUME stale = 0, NEW n \in DOMAIN booked PROVE BookedRight(booked[n])'
  <2>1. BookedRight(booked[n]) /\ booked # <<>>
    BY <1>4 DEF BookedInv
  <2>2. In("progress") = {}
    BY <1>4, <2>1 DEF BookedInv, In
  <2>3. spent' = spent
    BY <1>1, <1>3, <2>2
  <2>4. QED
    BY <1>1, <2>1, <2>3 DEF BookedRight
<1>5. \A l : BookingsOf(l)' = BookingsOf(l)
  BY <1>1 DEF BookingsOf
<1>6. QED
  BY <1>1, <1>2, <1>4, <1>5 DEF BookedInv

LEMMA BookedVacuumSession ==
  ASSUME BookedInv, ChainInv, VacuumSession
  PROVE  BookedInv'
<1>1. /\ session' = [session EXCEPT !.state = "deleted"] /\ session.state # "deleted"
      /\ UNCHANGED <<lines, spent, booked, revisited, stale, vacuumed>>
  BY DEF VacuumSession
<1>2. session'.state = "deleted"
  BY <1>1 DEF ChainInv, SessionRow
<1>3. \A l : BookingsOf(l)' = BookingsOf(l)
  BY <1>1 DEF BookingsOf
<1>4. \A n : BookedRight(booked[n])' <=> BookedRight(booked[n])
  BY <1>1 DEF BookedRight
<1>5. ASSUME NEW l \in Line
      PROVE  Cardinality(BookingsOf(l)) <= stale + Cardinality(vacuumed) + 1
  <2>1. Cardinality(BookingsOf(l)) <=
          stale + Cardinality(vacuumed) +
            (IF session.state \in {"logged", "deleted"} THEN 1 ELSE 0)
    BY DEF BookedInv
  <2>2. stale \in Nat /\ Cardinality(vacuumed) \in Nat /\ Cardinality(BookingsOf(l)) \in Nat
    BY ChainFinite, BookedFinite DEF ChainInv
  <2>3. QED
    BY <2>1, <2>2
<1>6. QED
  BY <1>1, <1>2, <1>3, <1>4, <1>5 DEF BookedInv

(* A click that goes on, or ends the last line, books nothing.             *)
LEMMA BookedQuiet ==
  ASSUME BookedInv, ChainInv, ChainInv', NEW t, NEW states \in SUBSET {"draft", "progress", "done"},
         NEW then, Click(t, states, then), "done" \notin states \/ In("progress") # {},
         DOMAIN lines # {},
         UNCHANGED <<spent, booked, vacuumed>>, revisited \subseteq revisited',
         session'.state \in {"draft", "progress", "done"},
         DOMAIN lines' \subseteq DOMAIN lines,
         \A l \in DOMAIN lines' : lines'[l].state = "draft" => l \notin revisited',
         \A l \in DOMAIN lines \ DOMAIN lines' : spent[l] = 0
  PROVE  BookedInv'
<1>1. /\ session.state # "deleted" /\ stale \in Nat /\ stale' \in Nat /\ stale' >= stale
      /\ session.state = "logged" => stale' = stale + 1
      /\ stale' = 0 => stale = 0 /\ session.state \in states
  BY ClickStale
<1>2. \A l : BookingsOf(l)' = BookingsOf(l)
  BY DEF BookingsOf
<1>3. /\ booked' \in Seq([of : SUBSET Line, duration : Nat])
      /\ vacuumed' \cap DOMAIN lines' = {}
  BY DEF BookedInv
<1>4. \A l \in Line \ (DOMAIN lines' \cup vacuumed') : spent'[l] > 0 => BookingsOf(l)' # {}
  <2>1. \A l \in DOMAIN lines \ DOMAIN lines' : ~(spent[l] > 0)
    BY DEF ChainInv
  <2>2. QED
    BY <1>2, <2>1 DEF BookedInv
<1>5. ASSUME NEW l \in Line
      PROVE  Cardinality(BookingsOf(l)) <= stale' + Cardinality(vacuumed)
  <2>1. Cardinality(BookingsOf(l)) <=
          stale + Cardinality(vacuumed) +
            (IF session.state \in {"logged", "deleted"} THEN 1 ELSE 0)
    BY DEF BookedInv
  <2>2. Cardinality(vacuumed) \in Nat /\ Cardinality(BookingsOf(l)) \in Nat
    BY ChainFinite, BookedFinite
  <2>3. QED
    BY <1>1, <2>1, <2>2
<1>6. \A l \in Line :
        Cardinality(BookingsOf(l)') <=
          stale' + Cardinality(vacuumed') +
            (IF session'.state \in {"logged", "deleted"} THEN 1 ELSE 0)
  <2>1. Cardinality(vacuumed) \in Nat
    BY ChainFinite
  <2>2. stale' + Cardinality(vacuumed) + 0 = stale' + Cardinality(vacuumed)
    BY <1>1, <2>1
  <2>3. ~(session'.state \in {"logged", "deleted"}) /\ vacuumed' = vacuumed
    OBVIOUS
  <2>4. QED
    BY <1>2, <1>5, <2>2, <2>3
<1>7. stale' = 0 => booked = <<>>
  <2> SUFFICES ASSUME stale' = 0, booked # <<>> PROVE FALSE
    OBVIOUS
  <2>1. /\ \A l \in DOMAIN lines : lines[l].state = "done"
        /\ session.state = "draft" => DOMAIN lines = {}
        /\ session.state # "progress"
    BY <1>1 DEF BookedInv
  <2>2. In("progress") = {}
    BY <2>1 DEF In
  <2>3. session.state \in states /\ "done" \notin states
    BY <1>1, <2>2
  <2>4. QED
    BY <2>1, <2>3
<1>8. stale' = 0 => DOMAIN booked' = {}
  BY <1>7
<1>9. session'.state # "logged"
  OBVIOUS
<1>10. QED
  BY <1>3, <1>4, <1>6, <1>7, <1>8, <1>9 DEF BookedInv

LEMMA BookedGoOn ==
  ASSUME BookedInv, ChainKept, ChainKept', now \in Nat, NEW t, NEW next, GoOn(t, next), DOMAIN lines # {},
         revisited \subseteq revisited', revisited' \subseteq revisited \cup next
  PROVE  BookedInv'
<1>1. /\ lines' = Processed(next) /\ session' = Gone(Processed(next))
      /\ UNCHANGED <<spent, booked, vacuumed>>
      /\ Click(t, {"draft", "progress"}, StateOf(Processed(next)))
  BY DEF GoOn
<1>2. ChainInv /\ ChainInv'
  BY DEF ChainKept
<1>3. session'.state \in {"draft", "progress", "done"}
  BY <1>1, StateOfIs DEF Gone
<1>4. DOMAIN lines' = DOMAIN lines
  BY <1>1 DEF Processed
<1>5. ASSUME NEW l \in DOMAIN lines', lines'[l].state = "draft" PROVE l \notin revisited'
  <2>1. LineOK(lines[l])
    BY <1>2, <1>4 DEF ChainInv
  <2>2. LineOK(Ended(lines)[l]) /\ (lines[l].state # "progress" => Ended(lines)[l] = lines[l])
    BY <1>2, <1>4, <2>1, EndedLine
  <2>3. CASE l \in next
    <3> DEFINE e == Ended(lines)[l]
    <3>1. lines'[l] = [e EXCEPT !.state = "progress", !.wrote = now]
      BY <1>1, <1>4, <2>3 DEF Processed
    <3>2. e \in LineRow
      BY <2>2 DEF LineOK
    <3> HIDE DEF e
    <3>3. lines'[l].state = "progress"
      BY <3>1, <3>2 DEF LineRow
    <3>4. QED
      BY <1>5, <3>3
  <2>4. CASE l \notin next
    <3>1. lines'[l] = Ended(lines)[l]
      BY <1>1, <1>4, <2>4 DEF Processed
    <3>2. lines[l].state # "progress"
      <4>1. CASE lines[l].state = "progress"
        <5>1. Ended(lines)[l].state = "done"
          BY <1>4, <4>1 DEF Ended
        <5>2. QED
          BY <1>5, <3>1, <5>1
      <4>2. QED
        BY <4>1
    <3>3. lines[l].state = "draft"
      BY <1>5, <2>2, <3>1, <3>2
    <3>4. l \notin revisited
      BY <1>4, <3>3 DEF BookedInv
    <3>5. QED
      BY <2>4, <3>4
  <2>5. QED
    BY <2>3, <2>4
<1>6. "done" \notin {"draft", "progress"}
  OBVIOUS
<1>7. {"draft", "progress"} \in SUBSET {"draft", "progress", "done"}
  OBVIOUS
<1>8. QED
  BY <1>1, <1>2, <1>3, <1>4, <1>5, <1>6, <1>7, BookedQuiet

LEMMA BookedActionNext ==
  ASSUME BookedInv, ChainKept, ChainKept', now \in Nat, NEW t, ActionNext(t)
  PROVE  BookedInv'
<1>1. GoOn(t, First(In("draft"))) /\ revisited' = revisited /\ DOMAIN lines # {}
  BY DEF ActionNext
<1>2. QED
  BY <1>1, BookedGoOn

LEMMA BookedActionNextOnLine ==
  ASSUME BookedInv, ChainKept, ChainKept', now \in Nat, NEW t, NEW l \in DOMAIN lines, ActionNextOnLine(t, l)
  PROVE  BookedInv'
<1>1. GoOn(t, {l}) /\ revisited \subseteq revisited' /\ revisited' \subseteq revisited \cup {l}
  BY DEF ActionNextOnLine
<1>2. QED
  BY <1>1, BookedGoOn

(* A draft was never worked on.                                            *)
LEMMA DraftUnspent ==
  ASSUME BookedInv, ChainKept, session.state # "deleted", NEW l \in DOMAIN lines,
         lines[l].state = "draft"
  PROVE  spent[l] = 0
<1>1. l \notin revisited /\ Counted(l)
  BY DEF BookedInv, ChainKept
<1>2. QED
  BY <1>1 DEF Counted, TimeOf

LEMMA BookedEndLast ==
  ASSUME BookedInv, ChainKept, ChainKept', now \in Nat, NEW t, EndLast(t)
  PROVE  BookedInv'
<1>1. /\ lines' = Ended(Kept) /\ Click(t, {"progress", "done"}, StateOf(Ended(Kept)))
      /\ session' = [session EXCEPT !.state = StateOf(Ended(Kept)), !.calls = @ + 1]
      /\ UNCHANGED <<spent, booked, revisited, vacuumed>>
      /\ In("progress") # {}
  BY DEF EndLast
<1>2. ChainInv /\ ChainInv' /\ session \in SessionRow
  BY DEF ChainKept, ChainInv
<1>3. session'.state \in {"draft", "progress", "done"}
  <2>1. session'.state = StateOf(Ended(Kept))
    BY <1>1, <1>2 DEF SessionRow
  <2>2. QED
    BY <2>1, StateOfIs
<1>4. /\ DOMAIN lines' = DOMAIN Kept /\ DOMAIN Kept = DOMAIN lines \ In("draft")
      /\ \A l \in DOMAIN Kept : Kept[l] = lines[l] /\ lines[l].state # "draft"
  BY <1>1 DEF Ended, Kept, In
<1>5. \A l \in DOMAIN lines' : lines'[l].state # "draft"
  <2> SUFFICES ASSUME NEW l \in DOMAIN lines' PROVE lines'[l].state # "draft"
    OBVIOUS
  <2>1. CASE Kept[l].state = "progress"
    BY <1>1, <1>4, <2>1 DEF Ended
  <2>2. CASE Kept[l].state # "progress"
    BY <1>1, <1>4, <2>2 DEF Ended
  <2>3. QED
    BY <2>1, <2>2
<1>6. \A l \in DOMAIN lines \ DOMAIN lines' : spent[l] = 0
  <2>1. session.state # "deleted"
    BY <1>1 DEF Click
  <2>2. \A l \in DOMAIN lines \ DOMAIN lines' : lines[l].state = "draft"
    BY <1>4 DEF In
  <2>3. QED
    BY <2>1, <2>2, DraftUnspent
<1>7. {"progress", "done"} \in SUBSET {"draft", "progress", "done"} /\ DOMAIN lines # {}
  BY <1>1 DEF In
<1>8. QED
  BY <1>1, <1>2, <1>3, <1>4, <1>5, <1>6, <1>7, BookedQuiet

LEMMA BookedVacuumLines ==
  ASSUME BookedInv, ChainInv, VacuumLines
  PROVE  BookedInv'
<1> DEFINE old == {l \in DOMAIN lines : Old(lines[l])}
           rest == [l \in DOMAIN lines \ old |-> lines[l]]
<1>1. /\ session.state # "deleted" /\ lines' = rest /\ old # {}
      /\ session' = [session EXCEPT !.state = StateOf(rest)]
      /\ vacuumed' = vacuumed \cup old
      /\ UNCHANGED <<spent, booked, revisited, stale>>
  BY DEF VacuumLines
<1>2. session'.state = StateOf(rest)
  <2> HIDE DEF rest
  <2>1. QED
    BY <1>1 DEF ChainInv, SessionRow
<1>3. old \subseteq DOMAIN lines /\ DOMAIN lines' = DOMAIN lines \ old
  BY <1>1
<1>4. \A l \in DOMAIN lines' : l \in DOMAIN lines /\ lines'[l] = lines[l]
  BY <1>1
<1> HIDE DEF rest, old
<1>5. StateOf(rest) \in {"draft", "progress", "done"}
  BY StateOfIs
<1>6. \A l : BookingsOf(l)' = BookingsOf(l)
  BY <1>1 DEF BookingsOf
<1>7. \A n : BookedRight(booked[n])' <=> BookedRight(booked[n])
  BY <1>1 DEF BookedRight
<1>8. Cardinality(vacuumed') \in Nat /\ Cardinality(vacuumed') >= Cardinality(vacuumed) + 1
  <2>1. PICK l \in old : TRUE
    BY <1>1
  <2>2. l \notin vacuumed /\ IsFiniteSet(vacuumed) /\ Cardinality(vacuumed) \in Nat
    BY <1>3, ChainFinite DEF BookedInv
  <2>3. Cardinality(vacuumed \cup {l}) = Cardinality(vacuumed) + 1
    BY <2>2, FS_AddElement
  <2>4. IsFiniteSet(vacuumed')
    <3>1. vacuumed' \in SUBSET Line
      BY <1>1, <1>3 DEF ChainInv
    <3>2. QED
      BY <3>1, ChainFinite
  <2>5. vacuumed \cup {l} \in SUBSET vacuumed'
    BY <1>1
  <2>6. QED
    BY <2>3, <2>4, <2>5, FS_Subset, FS_CardinalityType
<1>9. ASSUME NEW l \in Line
      PROVE  Cardinality(BookingsOf(l)') <= stale' + Cardinality(vacuumed') + 0
  <2>1. Cardinality(BookingsOf(l)) <=
          stale + Cardinality(vacuumed) +
            (IF session.state \in {"logged", "deleted"} THEN 1 ELSE 0)
    BY DEF BookedInv
  <2>2. /\ stale \in Nat /\ Cardinality(vacuumed) \in Nat /\ Cardinality(BookingsOf(l)) \in Nat
        /\ stale' = stale
    BY <1>1, ChainFinite, BookedFinite DEF ChainInv
  <2>3. Cardinality(BookingsOf(l)) <= stale' + Cardinality(vacuumed') + 0
    BY <1>8, <2>1, <2>2
  <2>4. QED
    BY <1>6, <2>3
<1>10. ~(session'.state \in {"logged", "deleted"})
  BY <1>2, <1>5
<1>11. ASSUME stale = 0, booked # <<>>
       PROVE  /\ \A l \in DOMAIN lines' : lines'[l].state = "done"
              /\ session'.state = "draft" => DOMAIN lines' = {}
              /\ session'.state # "progress"
  <2>1. \A l \in DOMAIN lines' : lines'[l].state = "done"
    BY <1>4, <1>11 DEF BookedInv
  <2>2. \A l \in DOMAIN rest : rest[l].state = "done"
    BY <1>1, <2>1
  <2>3. /\ StateOf(rest) # "progress"
        /\ DOMAIN rest # {} => StateOf(rest) = "done"
    BY <2>2, StateOfIs
  <2>4. QED
    BY <1>1, <1>2, <2>1, <2>3
<1>12. /\ vacuumed' \cap DOMAIN lines' = {}
       /\ \A l \in DOMAIN lines' : lines'[l].state = "draft" => l \notin revisited'
       /\ \A l \in Line \ (DOMAIN lines' \cup vacuumed') : spent'[l] > 0 => BookingsOf(l)' # {}
  BY <1>1, <1>3, <1>4, <1>6 DEF BookedInv
<1>13. \A l \in Line :
         Cardinality(BookingsOf(l)') <=
           stale' + Cardinality(vacuumed') +
             (IF session'.state \in {"logged", "deleted"} THEN 1 ELSE 0)
  BY <1>9, <1>10
<1>14. booked' \in Seq([of : SUBSET Line, duration : Nat]) /\ stale' = stale /\ booked' = booked
  BY <1>1 DEF BookedInv
<1>15. stale = 0 => \A n \in DOMAIN booked : BookedRight(booked[n])'
  BY <1>7 DEF BookedInv
<1>16. QED
  BY <1>7, <1>10, <1>11, <1>12, <1>13, <1>14, <1>15 DEF BookedInv

(* What a booking of lines that are done is of.                            *)
LEMMA BookingRight ==
  ASSUME ChainInv, NEW L \in SUBSET DOMAIN lines, NEW b, b.of = L,
         \A l \in L : IF l \in revisited THEN Duration(l) <= spent[l] ELSE Duration(l) = spent[l],
         SumOf(Durations, L) \in Nat, b.duration = RoundUp(SumOf(Durations, L))
  PROVE  BookedRight(b)
<1> DEFINE time == SumOf(Durations, L)
           all == SumOf(spent, L)
<1>1. time \in Nat /\ Unit \in Nat /\ Day \in Nat
  BY DurationAssumption
<1>2. /\ b.duration \in time..(time + Unit - 1)
      /\ Exact(time) => b.duration % Unit = 0
  BY RoundUpNear, RoundUpWhole
<1>3. L \in SUBSET Line /\ IsFiniteSet(L)
  BY ChainFinite DEF ChainInv
<1>4. ASSUME NEW l \in L
      PROVE  /\ Durations[l] \in Int /\ spent[l] \in Int /\ Durations[l] <= spent[l]
             /\ l \notin revisited => Durations[l] = spent[l]
  <2>1. Durations[l] = Duration(l) /\ Duration(l) \in Nat
    BY DurationType DEF Durations
  <2>2. spent[l] \in Nat
    BY <1>3 DEF ChainInv
  <2>3. QED
    BY <2>1, <2>2
<1>5. time <= all
  BY <1>3, <1>4, SumAtMost
<1>6. L \cap revisited = {} => time = all
  <2> SUFFICES ASSUME L \cap revisited = {} PROVE time = all
    OBVIOUS
  <2>1. \A l \in L : Durations[l] = spent[l]
    BY <1>4
  <2>2. QED
    BY <2>1, SumSame
<1>7. all \in Int
  <2> DEFINE g == [l \in L |-> spent[l]]
  <2>1. g \in [L -> Int] /\ \A l \in L : g[l] = spent[l]
    BY <1>4
  <2> HIDE DEF g
  <2>2. SumOf(g, L) \in Int /\ SumOf(g, L) = SumOf(spent, L)
    BY <1>3, <2>1, SumType, SumSame
  <2>3. QED
    BY <2>2
<1> HIDE DEF time, all
<1>8. b.duration <= all + Unit - 1
  BY <1>1, <1>2, <1>5, <1>7
<1>9. b.of \cap revisited = {} => b.duration >= all
  BY <1>1, <1>2, <1>6, <1>7
<1>10. Exact(all) => b.duration % Unit = 0
  BY <1>1, <1>2, <1>5, <1>7 DEF Exact
<1>11. QED
  BY <1>8, <1>9, <1>10 DEF BookedRight, all

(* The rows the confirmation adds.                                         *)
BookedRows(B, c, new) ==
  /\ Len(booked) \in Nat /\ DOMAIN booked = 1..Len(booked)
  /\ booked' \in Seq([of : SUBSET Line, duration : Nat])
  /\ DOMAIN booked' = 1..(Len(booked) + c)
  /\ \A n \in DOMAIN booked : n \in DOMAIN booked' /\ booked'[n] = booked[n]
  /\ \A n \in 1..c : /\ Len(booked) + n \in DOMAIN booked'
                     /\ booked'[Len(booked) + n].of = B[n].of
                     /\ booked'[Len(booked) + n].duration = RoundUp(B[n].time)
  /\ \A k \in DOMAIN booked' :
       k \in DOMAIN booked \/ \E n \in 1..c : k = Len(booked) + n

LEMMA ConfirmRows ==
  ASSUME BookedInv, ChainInv, NEW u, NEW type, NEW c \in Nat, NEW B, NEW new,
         B = Bookings(type), BookingsFit(B, c),
         new = [n \in DOMAIN B |-> BookedLog(u, type, B[n])],
         booked' = booked \o [n \in DOMAIN B |->
                               [of |-> B[n].of, duration |-> new[n].duration]]
  PROVE  BookedRows(B, c, new)
<1> DEFINE Row == [of : SUBSET Line, duration : Nat]
           add == [n \in DOMAIN B |-> [of |-> B[n].of, duration |-> new[n].duration]]
<1>1. /\ booked \in Seq(Row) /\ DOMAIN B = 1..c
      /\ \A n \in 1..c : B[n].time \in Nat /\ B[n].of \subseteq DOMAIN Kept
      /\ DOMAIN Kept \subseteq Line
  BY DEF BookedInv, BookingsFit, Kept, ChainInv
<1>2. Len(booked) \in Nat /\ DOMAIN booked = 1..Len(booked)
  BY <1>1, RowsOfSeq
<1>3. \A n \in 1..c : new[n].duration = RoundUp(B[n].time) /\ RoundUp(B[n].time) \in Nat
  <2> SUFFICES ASSUME NEW n \in 1..c
               PROVE  new[n].duration = RoundUp(B[n].time) /\ RoundUp(B[n].time) \in Nat
    OBVIOUS
  <2>1. new[n] = BookedLog(u, type, B[n])
    BY <1>1
  <2>2. BookedLog(u, type, B[n]).duration = RoundUp(B[n].time)
    BY DEF BookedLog, Entered
  <2>3. QED
    BY <1>1, <2>1, <2>2, RoundUpType
<1>4. add \in [1..c -> Row]
  BY <1>1, <1>3
<1>5. \A n \in 1..c : add[n].of = B[n].of /\ add[n].duration = RoundUp(B[n].time)
  BY <1>1, <1>3
<1>6. booked' = booked \o add
  OBVIOUS
<1> HIDE DEF add, Row
<1>7. add \in Seq(Row)
  BY <1>4, SeqDef
<1>8. DOMAIN add = 1..c
  BY <1>4
<1>9. Len(add) = c
  BY <1>7, <1>8, RowsOfSeq
<1>10. /\ booked' \in Seq(Row) /\ Len(booked') = Len(booked) + c
       /\ \A n \in 1 .. Len(booked) + c :
            booked'[n] = IF n <= Len(booked) THEN booked[n] ELSE add[n - Len(booked)]
  <2>1. /\ booked \o add \in Seq(Row) /\ Len(booked \o add) = Len(booked) + Len(add)
        /\ \A n \in 1 .. Len(booked) + Len(add) :
             (booked \o add)[n] = IF n <= Len(booked) THEN booked[n] ELSE add[n - Len(booked)]
    BY <1>1, <1>7, ConcatProperties
  <2>2. QED
    BY <1>6, <1>9, <2>1
<1>11. DOMAIN booked' = 1..(Len(booked) + c)
  BY <1>10, RowsOfSeq
<1>12. \A n \in DOMAIN booked : n \in DOMAIN booked' /\ booked'[n] = booked[n]
  BY <1>2, <1>10, <1>11
<1>13. ASSUME NEW n \in 1..c
       PROVE  Len(booked) + n \in DOMAIN booked' /\ booked'[Len(booked) + n] = add[n]
  <2> DEFINE k == Len(booked) + n
  <2>1. k \in 1..(Len(booked) + c) /\ ~(k <= Len(booked)) /\ k - Len(booked) = n
    BY <1>2
  <2> HIDE DEF k
  <2>2. booked'[k] = add[n] /\ k \in DOMAIN booked'
    BY <1>10, <1>11, <2>1
  <2>3. QED
    BY <2>2 DEF k
<1>14. ASSUME NEW k \in DOMAIN booked', k \notin DOMAIN booked
       PROVE  \E n \in 1..c : k = Len(booked) + n
  <2>1. k - Len(booked) \in 1..c /\ k = Len(booked) + (k - Len(booked))
    BY <1>2, <1>11, <1>14
  <2>2. QED
    BY <2>1
<1>15. QED
  BY <1>2, <1>5, <1>10, <1>11, <1>12, <1>13, <1>14 DEF BookedRows, Row

LEMMA BookedConfirm ==
  ASSUME BookedInv, ChainKept, ChainKept', now \in Nat, NEW t, NEW u,
         NEW type \in {"issue", "separate"}, Confirm(t, u, type)
  PROVE  BookedInv'
<1> DEFINE B == Bookings(type)
           new == [n \in DOMAIN B |-> BookedLog(u, type, B[n])]
           Row == [of : SUBSET Line, duration : Nat]
<1>1. /\ In("progress") = {} /\ Click(t, {"progress", "done"}, "closed")
      /\ booked' = booked \o [n \in DOMAIN B |->
                               [of |-> B[n].of, duration |-> new[n].duration]]
      /\ lines' = Kept
      /\ session' = [session EXCEPT !.state = "logged", !.wrote = now, !.calls = @ + 1]
      /\ UNCHANGED <<now, spent, revisited, vacuumed>>
  BY DEF Confirm
<1>2. ChainInv /\ session \in SessionRow /\ spent \in [Line -> Nat]
  BY DEF ChainKept, ChainInv
<1>3. PICK c \in Nat : BookingsFit(B, c)
  BY <1>2, BookingsAre
<1>4. BookedRows(B, c, new)
  <2>1. B = Bookings(type) /\ new = [n \in DOMAIN B |-> BookedLog(u, type, B[n])]
    OBVIOUS
  <2> HIDE DEF B, new
  <2>2. QED
    BY <1>1, <1>2, <1>3, <2>1, ConfirmRows
<1> HIDE DEF B, new
<1>5. /\ session.state # "deleted" /\ stale \in Nat /\ stale' \in Nat /\ stale' >= stale
      /\ session.state = "logged" => stale' = stale + 1
      /\ stale' = 0 => stale = 0
  <2>1. {"progress", "done"} \in SUBSET {"draft", "progress", "done"}
    OBVIOUS
  <2>2. QED
    BY <1>1, <1>2, <2>1, ClickStale
<1>6. session'.state = "logged"
  BY <1>1, <1>2 DEF SessionRow
<1>7. /\ DOMAIN lines' = DOMAIN Kept /\ DOMAIN Kept = DOMAIN lines \ In("draft")
      /\ \A l \in DOMAIN Kept : lines'[l] = lines[l]
  BY <1>1 DEF Kept
<1>8. \A l \in DOMAIN Kept : l \in DOMAIN lines /\ lines[l].state = "done"
  <2> SUFFICES ASSUME NEW l \in DOMAIN Kept PROVE l \in DOMAIN lines /\ lines[l].state = "done"
    OBVIOUS
  <2>1. l \in DOMAIN lines /\ lines[l].state \in {"draft", "progress", "done"}
    BY <1>2, <1>7 DEF ChainInv, LineOK, LineRow
  <2>2. lines[l].state # "draft" /\ lines[l].state # "progress"
    BY <1>1, <1>7, <2>1 DEF In
  <2>3. QED
    BY <2>1, <2>2
<1>9. \A l \in DOMAIN Kept :
        IF l \in revisited THEN Duration(l) <= spent[l] ELSE Duration(l) = spent[l]
  BY <1>5, <1>8 DEF ChainKept, Counted, TimeOf, Duration
<1>10. \A l \in DOMAIN lines \ DOMAIN Kept : spent[l] = 0
  <2>1. \A l \in DOMAIN lines \ DOMAIN Kept : lines[l].state = "draft"
    BY <1>7 DEF In
  <2>2. QED
    BY <1>5, <2>1, DraftUnspent
<1>11. \A l : BookingsOf(l) \subseteq BookingsOf(l)'
  BY <1>4 DEF BookedRows, BookingsOf
<1>12. \A l \in DOMAIN Kept : BookingsOf(l)' # {}
  <2> SUFFICES ASSUME NEW l \in DOMAIN Kept PROVE BookingsOf(l)' # {}
    OBVIOUS
  <2>1. PICK n \in 1..c : l \in B[n].of
    BY <1>3 DEF BookingsFit
  <2>2. Len(booked) + n \in BookingsOf(l)'
    BY <1>4, <2>1 DEF BookedRows, BookingsOf
  <2>3. QED
    BY <2>2
<1>13. ASSUME NEW l \in Line
       PROVE  Cardinality(BookingsOf(l)') <= stale' + Cardinality(vacuumed') + 1
  <2>1. \E x : BookingsOf(l)' \subseteq BookingsOf(l) \cup {x}
    <3>1. \A k \in BookingsOf(l)' :
            k \in BookingsOf(l) \/ \E n \in 1..c : k = Len(booked) + n /\ l \in B[n].of
      BY <1>4 DEF BookedRows, BookingsOf
    <3>2. CASE \E n \in 1..c : l \in B[n].of
      <4>1. PICK n \in 1..c : l \in B[n].of
        BY <3>2
      <4>2. \A m \in 1..c : l \in B[m].of => m = n
        BY <1>3, <4>1 DEF BookingsFit
      <4>3. BookingsOf(l)' \subseteq BookingsOf(l) \cup {Len(booked) + n}
        BY <3>1, <4>2
      <4>4. QED
        BY <4>3
    <3>3. CASE ~\E n \in 1..c : l \in B[n].of
      BY <3>1, <3>3
    <3>4. QED
      BY <3>2, <3>3
  <2>2. PICK x : BookingsOf(l)' \subseteq BookingsOf(l) \cup {x}
    BY <2>1
  <2>3. IsFiniteSet(BookingsOf(l)) /\ Cardinality(BookingsOf(l)) \in Nat
    BY BookedFinite
  <2>4. /\ IsFiniteSet(BookingsOf(l) \cup {x})
        /\ Cardinality(BookingsOf(l) \cup {x}) \in Nat
        /\ Cardinality(BookingsOf(l) \cup {x}) <= Cardinality(BookingsOf(l)) + 1
    BY <2>3, FS_AddElement, FS_CardinalityType
  <2>5. /\ Cardinality(BookingsOf(l)') \in Nat
        /\ Cardinality(BookingsOf(l)') <= Cardinality(BookingsOf(l) \cup {x})
    BY <2>2, <2>4, FS_Subset, FS_CardinalityType
  <2>6. Cardinality(BookingsOf(l)) <=
          stale + Cardinality(vacuumed) +
            (IF session.state \in {"logged", "deleted"} THEN 1 ELSE 0)
    BY DEF BookedInv
  <2>7. Cardinality(vacuumed) \in Nat /\ vacuumed' = vacuumed
    BY <1>1, <1>2, ChainFinite
  <2>8. Cardinality(BookingsOf(l)) <= stale' + Cardinality(vacuumed)
    BY <1>5, <2>3, <2>6, <2>7
  <2>9. QED
    BY <1>5, <2>3, <2>4, <2>5, <2>7, <2>8
<1>14. ASSUME stale' = 0, NEW k \in DOMAIN booked' PROVE BookedRight(booked[k])'
  <2>1. \A b : BookedRight(b)' <=> BookedRight(b)
    BY <1>1 DEF BookedRight
  <2>2. BookedRight(booked'[k])
    <3>1. CASE k \in DOMAIN booked
      BY <1>4, <1>5, <1>14, <3>1 DEF BookedInv, BookedRows
    <3>2. CASE \E n \in 1..c : k = Len(booked) + n
      <4>1. PICK n \in 1..c : k = Len(booked) + n
        BY <3>2
      <4>2. /\ booked'[k].of = B[n].of /\ booked'[k].duration = RoundUp(B[n].time)
        BY <1>4, <4>1 DEF BookedRows
      <4>3. /\ B[n].of \subseteq DOMAIN Kept /\ B[n].time \in Nat
            /\ B[n].time = SumOf(Durations, B[n].of)
        BY <1>3 DEF BookingsFit
      <4>4. B[n].of \in SUBSET DOMAIN lines
        BY <1>7, <4>3
      <4>5. QED
        BY <1>2, <1>9, <4>2, <4>3, <4>4, BookingRight
    <3>3. QED
      BY <1>4, <3>1, <3>2 DEF BookedRows
  <2>3. BookedRight(booked[k])' <=> BookedRight(booked'[k])
    BY <1>1 DEF BookedRight
  <2>4. QED
    BY <2>2, <2>3
<1>15. booked' \in Seq(Row)
  BY <1>4 DEF BookedRows
<1>16. \A l \in DOMAIN lines' : lines'[l].state = "done" /\ BookingsOf(l)' # {}
  BY <1>7, <1>8, <1>12
<1>17. \A l \in Line \ (DOMAIN lines' \cup vacuumed') : spent'[l] > 0 => BookingsOf(l)' # {}
  <2> SUFFICES ASSUME NEW l \in Line, l \notin DOMAIN Kept, l \notin vacuumed, spent[l] > 0
               PROVE  BookingsOf(l)' # {}
    BY <1>1, <1>7
  <2>1. l \notin DOMAIN lines
    BY <1>2, <1>10
  <2>2. BookingsOf(l) # {}
    BY <2>1 DEF BookedInv
  <2>3. QED
    BY <1>11, <2>2
<1>18. vacuumed' \cap DOMAIN lines' = {}
  BY <1>1, <1>7 DEF BookedInv
<1>19. QED
  BY <1>6, <1>13, <1>14, <1>15, <1>16, <1>17, <1>18 DEF BookedInv
-----------------------------------------------------------------------------
(* The inductive invariant of work logs and of chain sessions, which share *)
(* the time logs and the clock.                                            *)
AllKept == WorkKept /\ ChainKept /\ AccountInv /\ BookedInv

LEMMA AllKeptInit == ChainInit => AllKept
<1> SUFFICES ASSUME ChainInit PROVE AllKept
  OBVIOUS
<1>1. Init /\ ChainKept
  BY ChainKeptInit DEF ChainInit
<1>2. WorkInv
  BY <1>1, WorkInit
<1>3. AllInOrder /\ OneLogInProgress
  BY <1>1 DEF Init, AllInOrder, OneLogInProgress
<1>4. AccountInv /\ BookedInv
  BY <1>1, AccountInit, BookedInit
<1>5. QED
  BY <1>1, <1>2, <1>3, <1>4 DEF AllKept, WorkKept

LEMMA AllKeptNext == AllKept /\ [ChainNext]_<<vars, chainVars>> => AllKept'
<1> SUFFICES ASSUME AllKept, [ChainNext]_<<vars, chainVars>> PROVE AllKept'
  OBVIOUS
<1>1. /\ WorkKept /\ ChainKept /\ AccountInv /\ BookedInv
      /\ WorkInv /\ ChainInv /\ now \in Nat
  BY DEF AllKept, WorkKept, ChainKept, WorkInv, TypeOK
<1>2. CASE RequestNext /\ UNCHANGED chainVars
  <2>1. WorkKept' /\ AccountInv'
    BY <1>1, <1>2, RequestKeeps, RequestAccount
  <2>2. now' = now
    BY <1>2 DEF RequestNext, Serve, Delay, Complete, Abort, Manual, Delete, Update
  <2>3. BookedInv'
    BY <1>1, <1>2, BookedSame DEF chainVars
  <2>4. QED
    BY <1>1, <1>2, <2>1, <2>2, <2>3, ChainSame DEF AllKept
<1>3. CASE \E t \in Tab : ActionNext(t) \/ \E l \in DOMAIN lines : ActionNextOnLine(t, l)
  <2>1. UNCHANGED vars
    BY <1>3 DEF ActionNext, ActionNextOnLine, GoOn
  <2>2. WorkKept' /\ AccountInv'
    BY <1>1, <2>1, OthersKeep, SameAccount DEF vars
  <2>3. ChainKept'
    BY <1>1, <1>3, ActionNextKeeps, ActionNextOnLineKeeps
  <2>4. BookedInv'
    BY <1>1, <1>3, <2>3, BookedActionNext, BookedActionNextOnLine
  <2>5. QED
    BY <2>2, <2>3, <2>4 DEF AllKept
<1>4. CASE \E t \in Tab : EndLast(t) \/ Reload(t)
  <2>1. UNCHANGED vars
    BY <1>4 DEF EndLast, Reload
  <2>2. WorkKept' /\ AccountInv'
    BY <1>1, <2>1, OthersKeep, SameAccount DEF vars
  <2>3. ChainKept'
    BY <1>1, <1>4, EndLastKeeps, ReloadKeeps
  <2>4. BookedInv'
    BY <1>1, <1>4, <2>3, BookedEndLast, BookedReload
  <2>5. QED
    BY <2>2, <2>3, <2>4 DEF AllKept
<1>5. CASE \E t \in Tab : \E u \in scene.leaders, type \in {"issue", "separate"} : Confirm(t, u, type)
  <2>1. Book
    BY <1>1, <1>5, ConfirmBooks
  <2>2. WorkKept' /\ AccountInv'
    BY <1>1, <2>1, BookKeeps, BookAccount
  <2>3. ChainKept'
    BY <1>1, <1>5, ConfirmKeeps
  <2>4. BookedInv'
    BY <1>1, <1>5, <2>3, BookedConfirm
  <2>5. QED
    BY <2>2, <2>3, <2>4 DEF AllKept
<1>6. CASE VacuumLines \/ VacuumSession
  <2>1. UNCHANGED vars
    BY <1>6 DEF VacuumLines, VacuumSession
  <2>2. WorkKept' /\ AccountInv'
    BY <1>1, <2>1, OthersKeep, SameAccount DEF vars
  <2>3. ChainKept'
    BY <1>1, <1>6, VacuumLinesKeeps, VacuumSessionKeeps
  <2>4. BookedInv'
    BY <1>1, <1>6, BookedVacuumLines, BookedVacuumSession
  <2>5. QED
    BY <2>2, <2>3, <2>4 DEF AllKept
<1>7. CASE ChainTick
  <2>1. Tick
    BY <1>7 DEF ChainTick
  <2>2. WorkKept' /\ AccountInv'
    BY <1>1, <2>1, OthersKeep, TickAccount
  <2>3. ChainKept'
    BY <1>1, <1>7, ChainTickKeeps
  <2>4. BookedInv'
    BY <1>1, <1>7, BookedTick
  <2>5. QED
    BY <2>2, <2>3, <2>4 DEF AllKept
<1>8. CASE UNCHANGED <<vars, chainVars>>
  <2>1. UNCHANGED vars /\ UNCHANGED chainVars
    BY <1>8
  <2>2. now' = now
    BY <2>1 DEF vars
  <2>3. WorkKept' /\ AccountInv'
    BY <1>1, <2>1, OthersKeep, SameAccount DEF vars
  <2>4. BookedInv'
    BY <1>1, <2>1, BookedSame DEF chainVars
  <2>5. QED
    BY <1>1, <2>1, <2>2, <2>3, <2>4, ChainSame DEF AllKept
<1>9. QED
  BY <1>2, <1>3, <1>4, <1>5, <1>6, <1>7, <1>8 DEF ChainNext

LEMMA AllKeptAlways == ChainSpec => []AllKept
BY AllKeptInit, AllKeptNext, PTL DEF ChainSpec

(* What a request has read is older than the tables, row for row, and the  *)
(* two tables fit together: every work log has its time log.               *)
THEOREM WorkInvariant == ChainSpec => []WorkInv
<1>1. AllKept => WorkInv
  BY DEF AllKept, WorkKept
<1>2. QED
  BY <1>1, AllKeptAlways, PTL

(* Work in progress can be ended by the one who started it, unless a       *)
(* second source, a child issue or an overlapping request got into its     *)
(* cluster.                                                                *)
THEOREM WorkAlwaysEndable == ChainSpec => []WorkCanBeEnded
<1>1. AllKept => WorkCanBeEnded
  BY AllInOrderIs DEF AllKept, WorkKept
<1>2. QED
  BY <1>1, AllKeptAlways, PTL

(* A user has one time log in progress for an issue, unless requests       *)
(* overlapped.                                                             *)
THEOREM OneLogAlways == ChainSpec => []OneLogInProgress
<1>1. AllKept => OneLogInProgress
  BY DEF AllKept, WorkKept
<1>2. QED
  BY <1>1, AllKeptAlways, PTL

(* What is billed for a time log that was started and ended, and neither   *)
(* edited nor disturbed, is the time worked: at least the least duration,  *)
(* up to the next multiple of any unit.  From about a day on, and with a   *)
(* unit that does not divide it, each rounding may add up to a unit.       *)
THEOREM TimeAlwaysBilled == ChainSpec => []TimeBilled
<1>1. AllKept => TimeBilled
  BY DEF AllKept, AccountInv
<1>2. QED
  BY <1>1, AllKeptAlways, PTL

(* A line of a chain session has the time the meeting was at it, whatever  *)
(* was clicked in whatever tab and whatever the vacuum deleted.            *)
THEOREM TimeAlwaysOnLine == ChainSpec => []TimeOnLine
<1>1. AllKept => TimeOnLine
  BY ChainKeptIs DEF AllKept, WorkKept, WorkInv, TypeOK
<1>2. QED
  BY <1>1, AllKeptAlways, PTL

(* A confirmed session has entered the time of each line once, rounded up  *)
(* (to a multiple of the unit where rounding is exact): not at all only if *)
(* it was vacuumed before, and more than once only after a click in an     *)
(* outdated tab or a vacuum.                                               *)
THEOREM ChainAlwaysBilled == ChainSpec => []ChainBilled
<1>1. AllKept => ChainBilled
  BY BookedIs DEF AllKept, ChainKept
<1>2. QED
  BY <1>1, AllKeptAlways, PTL
=============================================================================
