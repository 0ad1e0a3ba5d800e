--------------------------- MODULE MasterData_proofs ---------------------------
(***************************************************************************)
(* Theorems about MasterData and the TokenAccess it extends: why a cache   *)
(* has no other token than the table, whom the cron leaves out, and what   *)
(* imports create twice or fail to create.                                 *)
(***************************************************************************)
EXTENDS MasterData, FiniteSetTheorems, SequenceTheorems, WellFoundedInduction, TLAPS

Answers == [by : {"none", "cron", "boards", "projects", "raised"}, users : SUBSET User]

Cache == [token : [User -> Nat], answer : Answers]

ProjectRow == [key : Key, managers : SUBSET User]

(* An answer that stays in a cache: of the cron, of a request that raised, *)
(* or of nobody.                                                           *)
Harmless(a) == a.by \in {"cron", "raised"} \/ a.users = {}

(* The tokens of a cache are those of the table, as far as it has any.     *)
UpToDate(c) == \A u \in User : c.token[u] \in {0, token[u]}

AccessTypes ==
  /\ scene \in Scenes
  /\ token \in [User -> Nat] /\ accepted \in [User -> Nat]
  /\ marked \subseteq User /\ dirty \subseteq Process /\ raced \subseteq Process
  /\ projects \in Seq(ProjectRow)
  /\ cached \in [Process -> Cache]
  /\ left \subseteq Answers

(* The two requests that last have what they read.                         *)
LastingTypes ==
  /\ entering # <<>> =>
       /\ entering[1].process \in Process /\ entering[1].user \in User
       /\ entering[1].token \in Nat /\ entering[1].seen \subseteq DOMAIN projects
  /\ early # <<>> =>
       /\ early[1].process \in Process
       /\ early[1].token \in [User -> Nat] /\ early[1].seen \subseteq DOMAIN projects

CachesRight ==
  /\ \A p \in Process \ (dirty \cup raced) : UpToDate(cached[p])
  /\ \A p \in Process : Harmless(cached[p].answer)
  /\ \A a \in left : Harmless(a)

AccessInv == AccessTypes /\ LastingTypes /\ CachesRight

-----------------------------------------------------------------------------
(* A request: of whom it is, and what it has read.                         *)
Asking(r) ==
  /\ r \in [process : Process, early : BOOLEAN, trouble : {"none", "trial", "request"},
            token : [User -> Nat], seen : SUBSET DOMAIN projects, cache : Cache]
  /\ ~r.early => r.token = token /\ r.seen = DOMAIN projects

(* What is left in the cache by it counts as the table's.                  *)
Counts(r) ==
  /\ r.token = token
  /\ IF r.early THEN r.process \notin dirty \cup raced
     ELSE r.process \in dirty \/ r.process \notin raced

(* A cache that it may leave.                                              *)
MayKeep(r, c) == c \in Cache /\ (Counts(r) => UpToDate(c))

Able(r) == Asking(r) /\ MayKeep(r, r.cache) /\ Harmless(r.cache.answer)

LEMMA Constants ==
  /\ IsFiniteSet(User) /\ IsFiniteSet(Key)
  /\ Listed \in [User -> SUBSET Key] /\ SeesAll \subseteq User
  /\ \A s \in Scenes :
       /\ s.admins \subseteq User /\ s.stored \subseteq User
       /\ s.projects \in Seq(ProjectRow)
       /\ \A m, n \in DOMAIN s.projects : s.projects[m].key = s.projects[n].key => m = n
       /\ s.trouble \subseteq {"trial", "request"}
BY AccessAssumption DEF ProjectRow

LEMMA NothingIs == Nothing \in Cache /\ UpToDate(Nothing) /\ Harmless(Nothing.answer)
                   /\ NoAnswer \in Answers /\ Nothing.answer = NoAnswer
BY DEF Nothing, NoAnswer, Cache, Answers, UpToDate, Harmless

LEMMA RequestAble ==
  ASSUME AccessInv, NEW p \in Process
  PROVE  Able(Request(p)) /\ ~Request(p).early
<1> DEFINE r == Request(p)
<1>1. /\ r.process = p /\ r.early = FALSE /\ r.token = token /\ r.seen = DOMAIN projects
      /\ r.cache = IF p \in dirty THEN Nothing ELSE cached[p]
  BY DEF Request
<1>3. cached[p] \in Cache /\ Harmless(cached[p].answer)
  BY DEF AccessInv, AccessTypes, CachesRight
<1>2. Asking(r)
  BY <1>1, <1>3, NothingIs DEF Asking, AccessInv, AccessTypes, Request
<1> HIDE DEF r
<1>4. r.cache \in Cache /\ Harmless(r.cache.answer)
  BY <1>1, <1>3, NothingIs
<1>5. Counts(r) => UpToDate(r.cache)
  BY <1>1, NothingIs DEF Counts, AccessInv, CachesRight
<1>6. QED
  BY <1>1, <1>2, <1>4, <1>5 DEF Able, MayKeep, r

LEMMA EarlyAble ==
  ASSUME AccessInv, early # <<>>
  PROVE  Able(EarlyRequest) /\ EarlyRequest.early
<1> DEFINE r == EarlyRequest
<1>1. /\ r.process = early[1].process /\ r.early = TRUE /\ r.token = early[1].token
      /\ r.seen = early[1].seen /\ r.cache = cached[early[1].process]
  BY DEF EarlyRequest
<1>2. /\ r.process \in Process /\ r.token \in [User -> Nat] /\ r.seen \subseteq DOMAIN projects
  BY <1>1 DEF AccessInv, LastingTypes
<1>3. r.cache \in Cache /\ Harmless(r.cache.answer)
  BY <1>1, <1>2 DEF AccessInv, AccessTypes, CachesRight
<1>6. Asking(r)
  BY <1>1, <1>2, <1>3 DEF Asking, EarlyRequest
<1> HIDE DEF r
<1>4. Counts(r) => UpToDate(r.cache)
  BY <1>1, <1>2 DEF Counts, AccessInv, CachesRight
<1>5. QED
  BY <1>1, <1>3, <1>4, <1>6 DEF Able, MayKeep, r

(* The same request, but for the trouble it meets.                         *)
Meeting(r, s) == [r EXCEPT !.trouble = s]

LEMMA MeetingAble ==
  ASSUME NEW r, Able(r), NEW s \in {"none", "trial", "request"}
  PROVE  /\ Able(Meeting(r, s))
         /\ Meeting(r, s).process = r.process /\ Meeting(r, s).early = r.early
         /\ Meeting(r, s).token = r.token /\ Meeting(r, s).seen = r.seen
         /\ Meeting(r, s).cache = r.cache
BY DEF Meeting, Able, Asking, MayKeep, Counts

LEMMA RequestsAble ==
  ASSUME AccessInv, NEW r \in Requests
  PROVE  Able(r)
<1> DEFINE Q == {Request(p) : p \in Process} \cup IF early = <<>> THEN {} ELSE {EarlyRequest}
<1>1. PICK q \in Q, s \in {"none"} \cup scene.trouble : r = Meeting(q, s)
  BY DEF Requests, Meeting
<1>2. s \in {"none", "trial", "request"}
  BY Constants DEF AccessInv, AccessTypes
<1>3. Able(q)
  BY <1>1, RequestAble, EarlyAble
<1>4. QED
  BY <1>1, <1>2, <1>3, MeetingAble

(* What a request puts into its cache it found there or in the table.      *)
LEMMA CachedTokensIs ==
  ASSUME NEW r, Asking(r), MayKeep(r, r.cache), NEW U \in SUBSET User,
         NEW a \in Answers
  PROVE  MayKeep(r, [token |-> CachedTokens(r, U), answer |-> a])
<1> DEFINE c == [token |-> CachedTokens(r, U), answer |-> a]
<1>1. r.cache.token \in [User -> Nat] /\ r.token \in [User -> Nat]
  BY DEF Asking, MayKeep, Cache
<1>2. \A u \in User : TokenOf(r, u) \in Nat /\ TokenOf(r, u) \in {r.cache.token[u], r.token[u]}
  BY <1>1 DEF TokenOf
<1>3. CachedTokens(r, U) \in [User -> Nat]
  BY <1>1, <1>2 DEF CachedTokens
<1>4. \A u \in User : CachedTokens(r, U)[u] \in {r.cache.token[u], r.token[u]}
  BY <1>2 DEF CachedTokens
<1>5. c \in Cache /\ c.token = CachedTokens(r, U)
  BY <1>3 DEF Cache
<1>6. ASSUME Counts(r) PROVE UpToDate(c)
  BY <1>4, <1>5, <1>6 DEF UpToDate, Counts, MayKeep
<1>7. QED
  BY <1>5, <1>6 DEF MayKeep

(* Another cache, the same request.                                        *)
WithCache(r, c) == [r EXCEPT !.cache = c]

LEMMA OtherCache ==
  ASSUME NEW r, Asking(r), NEW c, MayKeep(r, c)
  PROVE  /\ Asking(WithCache(r, c)) /\ MayKeep(WithCache(r, c), c)
         /\ WithCache(r, c).cache = c
         /\ WithCache(r, c).process = r.process /\ WithCache(r, c).early = r.early
         /\ WithCache(r, c).token = r.token /\ WithCache(r, c).seen = r.seen
BY DEF WithCache, Asking, MayKeep, Counts

LEMMA SameRequest ==
  ASSUME NEW r, Asking(r), NEW c, MayKeep(r, c), NEW d
  PROVE  MayKeep(WithCache(r, c), d) <=> MayKeep(r, d)
BY OtherCache DEF MayKeep, Counts

LEMMA TriedAble ==
  ASSUME NEW r, Able(r), NEW u \in User
  PROVE  /\ Able(Tried(r, u))
         /\ Tried(r, u) = WithCache(r, Tried(r, u).cache)
         /\ MayKeep(r, Tried(r, u).cache)
<1> DEFINE c == [token |-> CachedTokens(r, {u}), answer |-> r.cache.answer]
<1>1. r.cache.answer \in Answers
  BY DEF Able, MayKeep, Cache
<1>2. MayKeep(r, c)
  BY <1>1, CachedTokensIs DEF Able
<1>3. Tried(r, u) = WithCache(r, c)
  BY DEF Tried, WithCache
<1>4. c.answer = r.cache.answer
  OBVIOUS
<1> HIDE DEF c
<1>5. QED
  BY <1>2, <1>3, <1>4, OtherCache DEF Able

(* What token_exists_by_migration answers, and what stays.                 *)
LEMMA AnswerIs ==
  ASSUME NEW r, Able(r), NEW U \in SUBSET User,
         NEW by \in {"cron", "boards", "projects"}
  PROVE  LET a == Answer(r, U, by)
         IN  /\ a.answer \in Answers /\ a.refused \subseteq User
             /\ MayKeep(r, a.cache)
             /\ a.answer.by = by \/ Harmless(a.answer)
             /\ a.cache.answer = a.answer \/ a.cache.answer = NoAnswer
             /\ \/ Harmless(a.answer) /\ a.cache.answer = a.answer /\ a.refused = {}
                \/ /\ a.answer.users = Holders(r, U) \ marked
                   /\ a.refused = Refused(r, U)
                   /\ a.refused # {} => a.cache.answer = NoAnswer
<1> DEFINE a == Answer(r, U, by)
<1>1. CASE r.cache.answer # NoAnswer
  <2>1. a = [answer |-> r.cache.answer, refused |-> {}, cache |-> r.cache]
    BY <1>1 DEF Answer
  <2>2. r.cache.answer \in Answers /\ Harmless(r.cache.answer) /\ MayKeep(r, r.cache)
    BY DEF Able, MayKeep, Cache
  <2>3. QED
    BY <2>1, <2>2
<1>2. CASE r.cache.answer = NoAnswer
  <2> DEFINE answer == [by |-> by, users |-> Holders(r, U) \ marked]
             bad    == Refused(r, U)
             left_  == IF bad = {} THEN answer ELSE NoAnswer
             c      == [token |-> CachedTokens(r, U), answer |-> left_]
  <2>1. a = [answer |-> answer, refused |-> bad, cache |-> c]
    BY <1>2 DEF Answer
  <2>2. answer \in Answers /\ bad \subseteq User /\ left_ \in Answers
    BY NothingIs DEF Answers, Holders, Refused
  <2>3. MayKeep(r, c)
    BY <2>2, CachedTokensIs DEF Able
  <2>4. c.answer = left_ /\ answer.by = by /\ answer.users = Holders(r, U) \ marked
    OBVIOUS
  <2> HIDE DEF c, answer, bad
  <2>5. QED
    BY <2>1, <2>2, <2>3, <2>4 DEF bad
<1>3. QED
  BY <1>1, <1>2

-----------------------------------------------------------------------------
(* What a request leaves: the caches are right, and nothing else changed.  *)
CachesKept ==
  /\ cached' \in [Process -> Cache] /\ dirty' \subseteq Process /\ raced' \subseteq Process
  /\ \A p \in Process \ (dirty' \cup raced') : UpToDate(cached'[p])
  /\ \A p \in Process : Harmless(cached'[p].answer)

LEMMA KeepKept ==
  ASSUME AccessInv, NEW r, Asking(r), NEW c, MayKeep(r, c), Harmless(c.answer), Keep(r, c)
  PROVE  CachesKept
<1> DEFINE q == r.process
<1>1. /\ q \in Process /\ r.early \in BOOLEAN /\ r.token \in [User -> Nat]
      /\ ~r.early => r.token = token
  BY DEF Asking
<1>2. /\ cached' = [cached EXCEPT ![q] = c]
      /\ dirty' = IF r.early THEN dirty ELSE dirty \ {q}
      /\ raced' = (IF ~r.early /\ q \in dirty THEN raced \ {q} ELSE raced)
                  \cup IF r.token # token THEN {q} ELSE {}
  BY DEF Keep
<1>3. c \in Cache /\ cached \in [Process -> Cache] /\ dirty \subseteq Process /\ raced \subseteq Process
  BY DEF MayKeep, AccessInv, AccessTypes
<1>4. cached' \in [Process -> Cache] /\ dirty' \subseteq Process /\ raced' \subseteq Process
  BY <1>1, <1>2, <1>3
<1>5. ASSUME NEW p \in Process, p \notin dirty' \cup raced' PROVE UpToDate(cached'[p])
  <2>1. CASE p = q
    <3>1. Counts(r)
      BY <1>1, <1>2, <1>5, <2>1 DEF Counts
    <3>2. cached'[p] = c
      BY <1>2, <1>3, <2>1
    <3>3. QED
      BY <3>1, <3>2 DEF MayKeep
  <2>2. CASE p # q
    <3>1. cached'[p] = cached[p] /\ p \notin dirty \cup raced
      BY <1>2, <1>3, <1>5, <2>2
    <3>2. QED
      BY <3>1 DEF AccessInv, CachesRight
  <2>3. QED
    BY <2>1, <2>2
<1>6. \A p \in Process : Harmless(cached'[p].answer)
  BY <1>2, <1>3 DEF AccessInv, CachesRight
<1>7. QED
  BY <1>4, <1>5, <1>6 DEF CachesKept

LEMMA DropKept ==
  ASSUME AccessInv, NEW r, Asking(r), NEW c, Drop(r, c)
  PROVE  CachesKept
<1> DEFINE q == r.process
<1>1. q \in Process
  BY DEF Asking
<1>2. /\ cached' = [cached EXCEPT ![q] = Nothing]
      /\ dirty' = (dirty \cup Process) \ {q} /\ raced' = raced \ {q}
  BY DEF Drop
<1>3. cached \in [Process -> Cache] /\ dirty \subseteq Process /\ raced \subseteq Process
  BY DEF AccessInv, AccessTypes
<1>4. cached' \in [Process -> Cache] /\ dirty' \subseteq Process /\ raced' \subseteq Process
  BY <1>1, <1>2, <1>3, NothingIs
<1>5. ASSUME NEW p \in Process, p \notin dirty' \cup raced' PROVE UpToDate(cached'[p])
  BY <1>2, <1>3, <1>5, NothingIs
<1>6. \A p \in Process : Harmless(cached'[p].answer)
  BY <1>2, <1>3, NothingIs DEF AccessInv, CachesRight
<1>7. QED
  BY <1>4, <1>5, <1>6 DEF CachesKept

(* What a request that raises leaves behind is marked as that.             *)
LEMMA LeftBehindIs ==
  ASSUME NEW r, NEW c, MayKeep(r, c),
         c.answer.by \in {"boards", "projects"} \/ Harmless(c.answer)
  PROVE  MayKeep(r, LeftBehind(c)) /\ Harmless(LeftBehind(c).answer)
<1> DEFINE d == LeftBehind(c)
<1>1. c.token \in [User -> Nat] /\ c.answer \in Answers /\ c \in Cache
  BY DEF MayKeep, Cache
<1>2. /\ d = [c EXCEPT !.answer = d.answer]
      /\ d.answer.users = c.answer.users
      /\ d.answer.by = IF c.answer.by \in {"boards", "projects"} THEN "raised" ELSE c.answer.by
      /\ d.answer \in Answers
  BY <1>1 DEF LeftBehind, Cache, Answers
<1> HIDE DEF d
<1>3. d \in Cache /\ d.token = c.token
  BY <1>1, <1>2 DEF Cache
<1>4. Harmless(d.answer)
  BY <1>2 DEF Harmless
<1>5. QED
  BY <1>3, <1>4 DEF MayKeep, UpToDate, d

(* load_boards leaves the cache empty, or what it raised with.             *)
LEMMA BoardsDoneKept ==
  ASSUME AccessInv, NEW r, Able(r), NEW U \in SUBSET User,
         BoardsDone(r, Answer(r, U, "boards"))
  PROVE  CachesKept
<1> DEFINE a == Answer(r, U, "boards")
<1>1. /\ MayKeep(r, a.cache)
      /\ a.cache.answer = a.answer \/ a.cache.answer = NoAnswer
      /\ a.answer.by = "boards" \/ Harmless(a.answer)
  BY AnswerIs
<1>2. Asking(r)
  BY DEF Able
<1>3. a.answer.users = {} => Harmless(a.cache.answer)
  BY <1>1, NothingIs DEF Nothing, Harmless
<1>9. a.cache.answer.by \in {"boards", "projects"} \/ Harmless(a.cache.answer)
  BY <1>1, NothingIs DEF Nothing
<1>4. CASE a.answer.users = {}
  <2>1. Keep(r, a.cache)
    BY <1>4 DEF BoardsDone
  <2>2. QED
    BY <1>1, <1>2, <1>3, <1>4, <2>1, KeepKept
<1>5. CASE a.answer.users # {} /\ BoardsRaise(r, a)
  <2>1. Keep(r, LeftBehind(a.cache))
    BY <1>5 DEF BoardsDone
  <2>2. MayKeep(r, LeftBehind(a.cache)) /\ Harmless(LeftBehind(a.cache).answer)
    BY <1>1, <1>9, LeftBehindIs
  <2>3. QED
    BY <1>2, <2>1, <2>2, KeepKept
<1>6. CASE a.answer.users # {} /\ ~BoardsRaise(r, a)
  <2>1. Drop(r, a.cache)
    BY <1>6 DEF BoardsDone
  <2>2. QED
    BY <1>2, <2>1, DropKept
<1>7. QED
  BY <1>4, <1>5, <1>6

(* load_projects: so does the button.                                      *)
LEMMA LoadProjectsKept ==
  ASSUME AccessInv, NEW r, Able(r), NEW u \in User, LoadProjects(r, u)
  PROVE  CachesKept
<1> DEFINE a == Answer(r, {u}, "projects")
           c == [token |-> CachedTokens(r, {u}), answer |-> a.cache.answer]
<1>1. /\ a.cache.answer = a.answer \/ a.cache.answer = NoAnswer
      /\ MayKeep(r, a.cache) /\ (a.answer.by = "projects" \/ Harmless(a.answer))
  BY AnswerIs
<1>2. Asking(r) /\ a.cache.answer \in Answers
  BY <1>1 DEF Able, MayKeep, Cache
<1>3. MayKeep(r, c) /\ c.answer = a.cache.answer
  BY <1>2, CachedTokensIs DEF Able
<1>4. c.answer.by \in {"boards", "projects"} \/ Harmless(c.answer)
  BY <1>1, <1>3, NothingIs DEF Nothing
<1>5. CASE ProjectsLoaded(r, u)
  <2>1. Drop(r, a.cache)
    BY <1>5 DEF LoadProjects
  <2>2. QED
    BY <1>2, <2>1, DropKept
<1>6. CASE ~ProjectsLoaded(r, u)
  <2>1. Keep(r, LeftBehind(c))
    BY <1>6 DEF LoadProjects
  <2> HIDE DEF c
  <2>2. MayKeep(r, LeftBehind(c)) /\ Harmless(LeftBehind(c).answer)
    BY <1>3, <1>4, LeftBehindIs
  <2>3. QED
    BY <1>2, <2>1, <2>2, KeepKept
<1>7. QED
  BY <1>5, <1>6

-----------------------------------------------------------------------------
(* Projects are only added, one for each of some keys.                     *)
Enlarged(T, K) ==
  /\ T \in Seq(ProjectRow) /\ DOMAIN projects \subseteq DOMAIN T
  /\ \A n \in DOMAIN projects : T[n].key = projects[n].key
  /\ \A n \in DOMAIN T \ DOMAIN projects : T[n].key \in K
  /\ \A m, n \in DOMAIN T \ DOMAIN projects : T[m].key = T[n].key => m = n
  /\ \A k \in K : \E n \in DOMAIN T \ DOMAIN projects : T[n].key = k

LEMMA SetToSeqIs ==
  ASSUME NEW S, IsFiniteSet(S)
  PROVE  /\ Cardinality(S) \in Nat
         /\ SetToSeq(S) \in [1..Cardinality(S) -> S]
         /\ \A m, n \in 1..Cardinality(S) : SetToSeq(S)[m] = SetToSeq(S)[n] => m = n
         /\ \A x \in S : \E n \in 1..Cardinality(S) : SetToSeq(S)[n] = x
<1> DEFINE N == 1..Cardinality(S)
<1>1. Cardinality(S) \in Nat /\ ExistsBijection(N, S)
  BY FS_CardinalityType
<1>2. \E f \in [N -> S] : IsInjective(f)
  BY <1>1 DEF ExistsBijection, Bijection, Injection
<1>3. SetToSeq(S) \in [N -> S] /\ IsInjective(SetToSeq(S))
  BY <1>2 DEF SetToSeq
<1>4. SetToSeq(S) \in Surjection(N, S)
  <2>1. SetToSeq(S) \in Injection(N, S)
    BY <1>3 DEF Injection
  <2>2. IsFiniteSet(N) /\ Cardinality(N) = Cardinality(S)
    BY <1>1, FS_Interval
  <2>3. QED
    BY <2>1, <2>2, FS_Injection
<1>5. QED
  BY <1>1, <1>3, <1>4 DEF IsInjective, Surjection

LEMMA SomeAdded ==
  ASSUME projects \in Seq(ProjectRow), NEW K \in SUBSET Key, NEW u \in User,
         NEW old \in Seq(ProjectRow), Len(old) = Len(projects),
         \A n \in DOMAIN projects : old[n].key = projects[n].key
  PROVE  Enlarged(old \o [n \in 1..Cardinality(K) |-> [key |-> SetToSeq(K)[n], managers |-> {u}]], K)
<1> DEFINE f == SetToSeq(K)
           c == Cardinality(K)
           g == [n \in 1..c |-> [key |-> f[n], managers |-> {u}]]
           T == old \o g
<1>1. /\ c \in Nat /\ f \in [1..c -> K]
      /\ \A m, n \in 1..c : f[m] = f[n] => m = n
      /\ \A k \in K : \E n \in 1..c : f[n] = k
  <2>1. IsFiniteSet(K)
    BY Constants, FS_Subset
  <2>2. QED
    BY <2>1, SetToSeqIs
<1> HIDE DEF f, c
<1>2. g \in Seq(ProjectRow) /\ Len(g) = c
  <2>1. \A n \in 1..c : [key |-> f[n], managers |-> {u}] \in ProjectRow
    BY <1>1 DEF ProjectRow
  <2>2. g \in [1..c -> ProjectRow]
    BY <2>1
  <2>3. QED
    BY <1>1, <2>2
<1>3. \A n \in 1..c : g[n].key = f[n]
  OBVIOUS
<1> HIDE DEF g
<1>4. /\ T \in Seq(ProjectRow) /\ Len(T) = Len(old) + c
      /\ \A n \in 1..(Len(old) + c) : T[n] = IF n <= Len(old) THEN old[n] ELSE g[n - Len(old)]
  BY <1>2, ConcatProperties
<1> HIDE DEF T
<1>5. Len(old) \in Nat /\ DOMAIN projects = 1..Len(old) /\ DOMAIN T = 1..(Len(old) + c)
  BY <1>1, <1>4
<1>6. \A n \in DOMAIN projects : T[n].key = projects[n].key
  BY <1>1, <1>4, <1>5
<1>7. \A n \in DOMAIN T \ DOMAIN projects :
         n - Len(old) \in 1..c /\ T[n].key = f[n - Len(old)]
  <2> SUFFICES ASSUME NEW n \in DOMAIN T \ DOMAIN projects
               PROVE  n - Len(old) \in 1..c /\ T[n].key = f[n - Len(old)]
    OBVIOUS
  <2>1. n \in 1..(Len(old) + c) /\ n \notin 1..Len(old)
    BY <1>5
  <2>2. n \in Nat /\ n > Len(old) /\ n <= Len(old) + c
    BY <1>1, <1>5, <2>1
  <2>3. T[n] = g[n - Len(old)] /\ n - Len(old) \in 1..c
    BY <1>1, <1>4, <1>5, <2>1, <2>2
  <2>4. QED
    BY <1>3, <2>3
<1>8. \A n \in DOMAIN T \ DOMAIN projects : T[n].key \in K
  BY <1>1, <1>7
<1>9. ASSUME NEW m \in DOMAIN T \ DOMAIN projects, NEW n \in DOMAIN T \ DOMAIN projects,
             T[m].key = T[n].key
      PROVE  m = n
  <2>1. m - Len(old) = n - Len(old)
    BY <1>1, <1>7, <1>9
  <2>2. QED
    BY <1>5, <2>1
<1>10. DOMAIN projects \subseteq DOMAIN T
  BY <1>1, <1>5
<1>13. ASSUME NEW k \in K PROVE \E n \in DOMAIN T \ DOMAIN projects : T[n].key = k
  <2>1. PICK m \in 1..c : f[m] = k
    BY <1>1
  <2>2. m \in Nat /\ m > 0 /\ m <= c
    BY <1>1
  <2>3. Len(old) + m \in DOMAIN T \ DOMAIN projects /\ (Len(old) + m) - Len(old) = m
    BY <1>1, <1>5, <2>2
  <2>4. T[Len(old) + m].key = k
    BY <1>7, <2>1, <2>3
  <2>5. QED
    BY <2>3, <2>4
<1>11. Enlarged(T, K)
  BY <1>4, <1>6, <1>8, <1>9, <1>10, <1>13 DEF Enlarged
<1>12. QED
  BY <1>11 DEF T, g, c, f

LEMMA WithProjectsIs ==
  ASSUME projects \in Seq(ProjectRow), NEW u \in User, NEW seen \in SUBSET DOMAIN projects
  PROVE  Enlarged(WithProjects(u, seen), Listed[u] \ KeysOf(projects, seen))
<1> DEFINE mine == Listed[u] \cap KeysOf(projects, seen)
           old == [n \in DOMAIN projects |->
                    IF n \in {RowOf(projects, seen, k) : k \in mine}
                    THEN [projects[n] EXCEPT !.managers = @ \cup {u}] ELSE projects[n]]
           new == Listed[u] \ mine
<1>1. new = Listed[u] \ KeysOf(projects, seen) /\ new \subseteq Key
  BY Constants
<1>2. \A n \in DOMAIN projects :
        /\ projects[n] \in ProjectRow
        /\ [projects[n] EXCEPT !.managers = @ \cup {u}] \in ProjectRow
        /\ [projects[n] EXCEPT !.managers = @ \cup {u}].key = projects[n].key
  <2> SUFFICES ASSUME NEW n \in DOMAIN projects
               PROVE  /\ projects[n] \in ProjectRow
                      /\ [projects[n] EXCEPT !.managers = @ \cup {u}] \in ProjectRow
                      /\ [projects[n] EXCEPT !.managers = @ \cup {u}].key = projects[n].key
    OBVIOUS
  <2>1. projects[n] \in ProjectRow
    OBVIOUS
  <2>2. \A x \in ProjectRow : /\ [x EXCEPT !.managers = @ \cup {u}] \in ProjectRow
                              /\ [x EXCEPT !.managers = @ \cup {u}].key = x.key
    BY DEF ProjectRow
  <2>3. QED
    BY <2>1, <2>2
<1>3. old \in [DOMAIN projects -> ProjectRow] /\ \A n \in DOMAIN projects : old[n].key = projects[n].key
  BY <1>2
<1>4. old \in Seq(ProjectRow) /\ Len(old) = Len(projects)
  <2>1. DOMAIN projects = 1..Len(projects) /\ Len(projects) \in Nat
    OBVIOUS
  <2> HIDE DEF old
  <2>2. QED
    BY <1>3, <2>1
<1>5. WithProjects(u, seen) =
        old \o [n \in 1..Cardinality(new) |-> [key |-> SetToSeq(new)[n], managers |-> {u}]]
  BY DEF WithProjects
<1> HIDE DEF old, new, mine
<1>6. QED
  BY <1>1, <1>3, <1>4, <1>5, SomeAdded

LEMMA AppendedIs ==
  ASSUME projects \in Seq(ProjectRow), NEW u \in User, NEW K \in SUBSET Key
  PROVE  Enlarged(Appended(u, K), K)
BY SomeAdded DEF Appended

LEMMA ManagersAre ==
  ASSUME NEW T \in Seq(ProjectRow), NEW P \in SUBSET DOMAIN T
  PROVE  Managers(T, P) \subseteq User
<1>1. \A n \in P : T[n].managers \subseteq User
  <2>1. \A n \in P : T[n] \in ProjectRow
    OBVIOUS
  <2>2. QED
    BY <2>1 DEF ProjectRow
<1>2. QED
  BY <1>1 DEF Managers

LEMMA BoardUsersAre ==
  ASSUME scene \in Scenes, NEW T \in Seq(ProjectRow), NEW P \in SUBSET DOMAIN T
  PROVE  BoardUsers(T, P) \subseteq User
BY ManagersAre, Constants DEF BoardUsers

-----------------------------------------------------------------------------
(* What a request leaves of the rest.                                      *)
RestKept ==
  /\ scene' = scene /\ token' = token /\ accepted' = accepted /\ entering' = entering
  /\ marked' \subseteq User
  /\ projects' \in Seq(ProjectRow) /\ DOMAIN projects \subseteq DOMAIN projects'
  /\ early' \in {<<>>, early}
  /\ left' \subseteq Answers /\ \A a \in left' : Harmless(a)

LEMMA RequestKeeps ==
  ASSUME AccessInv, CachesKept, RestKept
  PROVE  AccessInv'
<1>1. AccessTypes'
  BY DEF AccessInv, AccessTypes, CachesKept, RestKept
<1>2. LastingTypes'
  BY DEF AccessInv, LastingTypes, RestKept
<1>3. CachesRight'
  BY DEF AccessInv, CachesRight, CachesKept, RestKept, UpToDate
<1>4. QED
  BY <1>1, <1>2, <1>3 DEF AccessInv

LEMMA LeftKept == AccessInv => left \subseteq Answers /\ \A a \in left : Harmless(a)
BY DEF AccessInv, AccessTypes, CachesRight

(* cron_fetch_issue: its answer is its own, or was found in the cache.      *)
LEMMA FetchKeeps ==
  ASSUME AccessInv, NEW r \in Requests, NEW P \in SUBSET DOMAIN projects, Fetch(r, P)
  PROVE  AccessInv'
<1> DEFINE U == Managers(projects, P)
           a == Answer(r, U, "cron")
<1>1. Able(r) /\ Asking(r)
  BY RequestsAble DEF Able
<1>2. U \subseteq User
  BY ManagersAre DEF AccessInv, AccessTypes
<1>3. /\ a.answer \in Answers /\ MayKeep(r, a.cache)
      /\ a.answer.by = "cron" \/ Harmless(a.answer)
      /\ a.cache.answer = a.answer \/ a.cache.answer = NoAnswer
  BY <1>1, <1>2, AnswerIs
<1>4. Harmless(a.answer) /\ Harmless(a.cache.answer)
  BY <1>3, NothingIs DEF Harmless, Nothing
<1>5. Keep(r, a.cache)
  BY DEF Fetch
<1>6. CachesKept
  BY <1>1, <1>3, <1>4, <1>5, KeepKept
<1> HIDE DEF U
<1>7. left' \subseteq Answers /\ \A b \in left' : Harmless(b)
  <2>1. left' \subseteq {a.answer}
    BY DEF Fetch, U
  <2>2. QED
    BY <1>3, <1>4, <2>1
<1>8. RestKept
  BY <1>7 DEF Fetch, Ended, RestKept, AccessInv, AccessTypes
<1>9. QED
  BY <1>6, <1>8, RequestKeeps

LEMMA LoadBoardsKeeps ==
  ASSUME AccessInv, NEW r \in Requests, LoadBoards(r)
  PROVE  AccessInv'
<1>1. Able(r) /\ r.seen \subseteq DOMAIN projects
  BY RequestsAble DEF Able, Asking
<1>2. BoardUsers(projects, r.seen) \subseteq User
  BY <1>1, BoardUsersAre DEF AccessInv, AccessTypes
<1>3. BoardsDone(r, Answer(r, BoardUsers(projects, r.seen), "boards"))
  BY DEF LoadBoards
<1>4. CachesKept
  BY <1>1, <1>2, <1>3, BoardsDoneKept
<1>5. RestKept
  BY LeftKept DEF LoadBoards, Ended, RestKept, AccessInv, AccessTypes
<1>6. QED
  BY <1>4, <1>5, RequestKeeps

LEMMA LoadProjectsKeeps ==
  ASSUME AccessInv, NEW r \in Requests, NEW u \in User, LoadProjects(r, u)
  PROVE  AccessInv'
<1>1. Able(r) /\ r.seen \subseteq DOMAIN projects
  BY RequestsAble DEF Able, Asking
<1>2. CachesKept
  BY <1>1, LoadProjectsKept
<1>3. projects' \in Seq(ProjectRow) /\ DOMAIN projects \subseteq DOMAIN projects'
  <2>1. projects \in Seq(ProjectRow)
    BY DEF AccessInv, AccessTypes
  <2>2. \A seen \in SUBSET DOMAIN projects :
           /\ WithProjects(u, seen) \in Seq(ProjectRow)
           /\ DOMAIN projects \subseteq DOMAIN WithProjects(u, seen)
    BY <2>1, WithProjectsIs DEF Enlarged
  <2>3. \/ projects' = projects
        \/ \E seen \in SUBSET DOMAIN projects : projects' = WithProjects(u, seen)
    BY <1>1 DEF LoadProjects
  <2>4. QED
    BY <2>1, <2>2, <2>3
<1>4. RestKept
  BY <1>3, LeftKept DEF LoadProjects, Ended, RestKept, AccessInv, AccessTypes
<1>5. QED
  BY <1>2, <1>4, RequestKeeps

(* A request that does no more with tokens than to send hers.              *)
LEMMA TriedKeeps ==
  ASSUME AccessInv, NEW r \in Requests, NEW u \in User,
         Keep(r, Tried(r, u).cache), Ended(r),
         UNCHANGED <<scene, token, accepted, marked, projects, entering, left>>
  PROVE  AccessInv'
<1>1. Able(r) /\ Able(Tried(r, u)) /\ MayKeep(r, Tried(r, u).cache)
  BY RequestsAble, TriedAble
<1>2. CachesKept
  BY <1>1, KeepKept DEF Able
<1>3. RestKept
  BY LeftKept DEF Ended, RestKept, AccessInv, AccessTypes
<1>4. QED
  BY <1>2, <1>3, RequestKeeps

-----------------------------------------------------------------------------
(* Steps of the requests that last, and of the server.                     *)
LEMMA EnterKeeps ==
  ASSUME AccessInv, NEW p \in Process, NEW u \in User, NEW t \in Nat, Enter(p, u, t)
  PROVE  AccessInv'
<1>1. /\ entering' = <<>> \/ entering' = <<[process |-> p, user |-> u, token |-> t,
                                           seen |-> DOMAIN projects]>>
      /\ cached' = [cached EXCEPT ![p] = Nothing]
      /\ dirty' = dirty \ {p} /\ raced' = raced \ {p}
      /\ UNCHANGED <<scene, token, accepted, marked, projects, early, left>>
  BY DEF Enter
<1>2. /\ cached \in [Process -> Cache] /\ dirty \subseteq Process /\ raced \subseteq Process
      /\ \A q \in Process \ (dirty \cup raced) : UpToDate(cached[q])
      /\ \A q \in Process : Harmless(cached[q].answer)
  BY DEF AccessInv, AccessTypes, CachesRight
<1>3. AccessTypes'
  BY <1>1, <1>2, NothingIs DEF AccessInv, AccessTypes
<1>4. LastingTypes'
  BY <1>1 DEF AccessInv, LastingTypes
<1>5. /\ \A q \in Process \ (dirty' \cup raced') : UpToDate(cached'[q])
      /\ \A q \in Process : Harmless(cached'[q].answer)
  BY <1>1, <1>2, NothingIs
<1>6. CachesRight'
  BY <1>1, <1>5 DEF AccessInv, CachesRight, UpToDate
<1>7. QED
  BY <1>3, <1>4, <1>6 DEF AccessInv

LEMMA AbortEnteredKeeps ==
  ASSUME AccessInv, AbortEntered
  PROVE  AccessInv'
<1> DEFINE p == entering[1].process
<1>1. /\ entering # <<>> /\ p \in Process /\ entering' = <<>>
      /\ cached' = [cached EXCEPT ![p] = Nothing]
      /\ dirty' = dirty /\ raced' = raced \ {p}
      /\ UNCHANGED <<scene, token, accepted, marked, projects, early, left>>
  BY DEF AbortEntered, AccessInv, LastingTypes
<1> HIDE DEF p
<1>2. /\ cached \in [Process -> Cache] /\ dirty \subseteq Process /\ raced \subseteq Process
      /\ \A q \in Process \ (dirty \cup raced) : UpToDate(cached[q])
      /\ \A q \in Process : Harmless(cached[q].answer)
  BY DEF AccessInv, AccessTypes, CachesRight
<1>3. AccessTypes'
  BY <1>1, <1>2, NothingIs DEF AccessInv, AccessTypes
<1>4. LastingTypes'
  BY <1>1 DEF AccessInv, LastingTypes
<1>5. /\ \A q \in Process \ (dirty' \cup raced') : UpToDate(cached'[q])
      /\ \A q \in Process : Harmless(cached'[q].answer)
  BY <1>1, <1>2, NothingIs
<1>6. CachesRight'
  BY <1>1, <1>5 DEF AccessInv, CachesRight, UpToDate
<1>7. QED
  BY <1>3, <1>4, <1>6 DEF AccessInv

(* At the commit every process drops its cache, or has been told to, or    *)
(* the one that entered the token has filled it with what it had read.     *)
LEMMA CommitEnteredKeeps ==
  ASSUME AccessInv, CommitEntered
  PROVE  AccessInv'
<1> DEFINE e == entering[1]
<1>1. /\ entering # <<>> /\ entering' = <<>>
      /\ token' = [token EXCEPT ![e.user] = e.token]
      /\ projects' = WithProjects(e.user, e.seen)
      /\ dirty' = dirty \cup (Process \ {e.process})
      /\ raced' = IF cached[e.process] = Nothing THEN raced ELSE raced \cup {e.process}
      /\ UNCHANGED <<scene, accepted, marked, cached, early, left>>
  BY DEF CommitEntered
<1>2. e.process \in Process /\ e.user \in User /\ e.token \in Nat /\ e.seen \subseteq DOMAIN projects
  BY <1>1 DEF AccessInv, LastingTypes
<1> HIDE DEF e
<1>3. token \in [User -> Nat] /\ projects \in Seq(ProjectRow) /\ raced \subseteq Process
      /\ dirty \subseteq Process
  BY DEF AccessInv, AccessTypes
<1>4. token' \in [User -> Nat]
  BY <1>1, <1>2, <1>3
<1>5. projects' \in Seq(ProjectRow) /\ DOMAIN projects \subseteq DOMAIN projects'
  BY <1>1, <1>2, <1>3, WithProjectsIs DEF Enlarged
<1>6. AccessTypes'
  BY <1>1, <1>2, <1>3, <1>4, <1>5 DEF AccessInv, AccessTypes
<1>7. LastingTypes'
  BY <1>1, <1>5 DEF AccessInv, LastingTypes
<1>8. ASSUME NEW p \in Process, p \notin dirty' \cup raced'
      PROVE  UpToDate(cached[p])'
  <2>1. cached'[p] = Nothing
    BY <1>1, <1>2, <1>8
  <2>2. Nothing.token = [u \in User |-> 0]
    BY DEF Nothing
  <2>3. QED
    BY <2>1, <2>2 DEF UpToDate
<1>9. CachesRight'
  BY <1>1, <1>8 DEF AccessInv, CachesRight
<1>10. QED
  BY <1>6, <1>7, <1>9 DEF AccessInv

LEMMA RenewKeeps ==
  ASSUME AccessInv, NEW u \in User, Renew(u)
  PROVE  AccessInv'
<1>1. accepted' \in [User -> Nat]
  BY DEF Renew, AccessInv, AccessTypes
<1>2. QED
  BY <1>1 DEF Renew, AccessInv, AccessTypes, LastingTypes, CachesRight, UpToDate

LEMMA BeginEarlyKeeps ==
  ASSUME AccessInv, NEW p \in Process, BeginEarly(p)
  PROVE  AccessInv'
<1> DEFINE c == Request(p).cache
<1>1. /\ early' = <<[process |-> p, token |-> token, seen |-> DOMAIN projects]>>
      /\ cached' = [cached EXCEPT ![p] = c]
      /\ dirty' = dirty \ {p}
      /\ raced' = IF p \in dirty THEN raced \ {p} ELSE raced
      /\ UNCHANGED <<scene, token, accepted, marked, projects, entering, left>>
  BY DEF BeginEarly
<1>2. c = IF p \in dirty THEN Nothing ELSE cached[p]
  BY DEF Request
<1> HIDE DEF c
<1>3. /\ cached \in [Process -> Cache] /\ dirty \subseteq Process /\ raced \subseteq Process
      /\ token \in [User -> Nat]
      /\ \A q \in Process \ (dirty \cup raced) : UpToDate(cached[q])
      /\ \A q \in Process : Harmless(cached[q].answer)
  BY DEF AccessInv, AccessTypes, CachesRight
<1>4. c \in Cache /\ Harmless(c.answer)
  BY <1>2, <1>3, NothingIs
<1>5. AccessTypes'
  BY <1>1, <1>3, <1>4 DEF AccessInv, AccessTypes
<1>6. LastingTypes'
  BY <1>1, <1>3 DEF AccessInv, LastingTypes
<1>7. /\ \A q \in Process \ (dirty' \cup raced') : UpToDate(cached'[q])
      /\ \A q \in Process : Harmless(cached'[q].answer)
  BY <1>1, <1>2, <1>3, <1>4, NothingIs
<1>8. CachesRight'
  BY <1>1, <1>7 DEF AccessInv, CachesRight, UpToDate
<1>9. QED
  BY <1>5, <1>6, <1>8 DEF AccessInv

-----------------------------------------------------------------------------
(* A dict of projects has a row for each key of theirs.                    *)
LEMMA RowOfIs ==
  ASSUME NEW T \in Seq(ProjectRow), NEW S \in SUBSET DOMAIN T, NEW k,
         \E n \in S : T[n].key = k
  PROVE  RowOf(T, S, k) \in S /\ T[RowOf(T, S, k)].key = k
<1> DEFINE R == {n \in S : T[n].key = k}
<1>1. R \subseteq Nat /\ R # {}
  OBVIOUS
<1>2. PICK n \in R : \A m \in R : n <= m
  <2> DEFINE L == OpToRel(<, Nat)
  <2>1. IsWellFoundedOn(L, Nat)
    BY NatLessThanWellFounded
  <2>5. \A p, q \in Nat : p < q => <<p, q>> \in L
    BY DEF OpToRel
  <2> HIDE DEF L, R
  <2>2. PICK n \in R : \A m \in R : ~(<<m, n>> \in L)
    BY <1>1, <2>1, WFMin, Zenon
  <2>3. \A m \in R : m \in Nat /\ n \in Nat /\ ~(m < n)
    BY <1>1, <2>5, <2>2
  <2>4. QED
    BY <2>3
<1>3. \E l \in S : T[l].key = k /\ \A m \in S : T[m].key = k => l <= m
  BY <1>2
<1>4. QED
  BY <1>3 DEF RowOf

(* The projects an import creates, and those whose boards it loads.        *)
Seen(r, T) == r.seen \cup (DOMAIN T \ DOMAIN projects)

Concerned(r, T, I) == {RowOf(T, Seen(r, T), i.project) : i \in I}

LEMMA ConcernedIs ==
  ASSUME AccessInv, NEW r, Asking(r), NEW u \in User, NEW I \in SUBSET Issue,
         NEW T, T = Appended(u, MissingProjects(r, I))
  PROVE  /\ MissingProjects(r, I) \subseteq Key
         /\ Enlarged(T, MissingProjects(r, I))
         /\ Concerned(r, T, I) \subseteq Seen(r, T)
         /\ Seen(r, T) \subseteq DOMAIN T
<1> DEFINE K == MissingProjects(r, I)
<1>1. \A i \in I : i.project \in Key
  BY TableAssumption
<1>2. K \subseteq Key
  BY <1>1 DEF MissingProjects
<1>3. projects \in Seq(ProjectRow) /\ r.seen \subseteq DOMAIN projects
  BY DEF AccessInv, AccessTypes, Asking
<1>4. Enlarged(T, K)
  BY <1>2, <1>3, AppendedIs
<1>5. T \in Seq(ProjectRow) /\ Seen(r, T) \subseteq DOMAIN T
  BY <1>3, <1>4 DEF Enlarged, Seen
<1>6. ASSUME NEW i \in I PROVE RowOf(T, Seen(r, T), i.project) \in Seen(r, T)
  <2>1. CASE i.project \in K
    <3>1. \E n \in Seen(r, T) : T[n].key = i.project
      BY <1>4, <2>1 DEF Enlarged, Seen
    <3>2. QED
      BY <1>5, <3>1, RowOfIs
  <2>2. CASE i.project \notin K
    <3>1. PICK n \in r.seen : projects[n].key = i.project
      BY <2>2 DEF MissingProjects, KeysOf
    <3>2. n \in Seen(r, T) /\ T[n].key = i.project
      BY <1>3, <1>4, <3>1 DEF Seen, Enlarged
    <3>3. QED
      BY <1>5, <3>2, RowOfIs
  <2>3. QED
    BY <2>1, <2>2
<1>7. QED
  BY <1>2, <1>4, <1>5, <1>6 DEF Concerned

(* Before it loads boards, an import has run the cron for new projects.    *)
Calm(r, u) == Meeting(Tried(r, u), "none")

AfterCron(r, u, K) ==
  IF K = {} THEN Tried(r, u)
  ELSE WithCache(r, Answer(Calm(r, u), {u}, "cron").cache)

LEMMA AfterCronAble ==
  ASSUME NEW r, Able(r), NEW u \in User, NEW K
  PROVE  LET s == AfterCron(r, u, K)
             a == Answer(Calm(r, u), {u}, "cron")
         IN  /\ Able(s) /\ s.process = r.process /\ s.early = r.early
             /\ s.token = r.token /\ s.seen = r.seen
             /\ a.answer \in Answers /\ Harmless(a.answer)
<1> DEFINE q == Tried(r, u)
           m == Calm(r, u)
           a == Answer(m, {u}, "cron")
<1>1. Able(q) /\ MayKeep(r, q.cache) /\ q = WithCache(r, q.cache)
  BY TriedAble
<1>2. Asking(r)
  BY DEF Able
<1>3. q.process = r.process /\ q.early = r.early /\ q.token = r.token /\ q.seen = r.seen
  BY <1>1, <1>2, OtherCache
<1>10. Able(m) /\ m.process = r.process /\ m.early = r.early /\ m.token = r.token
  BY <1>1, <1>3, MeetingAble DEF Calm
<1>4. /\ a.answer \in Answers /\ MayKeep(m, a.cache)
      /\ a.answer.by = "cron" \/ Harmless(a.answer)
      /\ a.cache.answer = a.answer \/ a.cache.answer = NoAnswer
  BY <1>10, AnswerIs
<1>5. MayKeep(r, a.cache)
  BY <1>10, <1>4 DEF MayKeep, Counts
<1>6. Harmless(a.answer) /\ Harmless(a.cache.answer)
  BY <1>4, NothingIs DEF Harmless, Nothing
<1> HIDE DEF a
<1>7. LET s == WithCache(r, a.cache)
      IN  /\ Able(s) /\ s.process = r.process /\ s.early = r.early
          /\ s.token = r.token /\ s.seen = r.seen
  BY <1>2, <1>5, <1>6, OtherCache DEF Able
<1>8. AfterCron(r, u, K) = q \/ AfterCron(r, u, K) = WithCache(r, a.cache)
  BY DEF AfterCron, a
<1> HIDE DEF q
<1>9. QED
  BY <1>1, <1>3, <1>4, <1>6, <1>7, <1>8 DEF a, q

(* What an import does, with names for its parts.                          *)
ImportSteps(r, u, I) ==
  LET K     == MissingProjects(r, I)
      T     == Appended(u, K)
      names == MissingUsers(Known(r), I)
      items == MissingItems(Known(r), I)
      P     == Concerned(r, T, I)
      r1    == AfterCron(r, u, K)
      b     == Answer(r1, BoardUsers(T, P), "boards")
      a     == Answer(Calm(r, u), {u}, "cron")
  IN  /\ Keep(r, r1.cache) \/ BoardsDone(r1, b)
      /\ Clash(r, names, People(I, "tester"))
      /\ \/ UNCHANGED <<projects, tables, marked, testers, doubled, left>>
         \/ /\ Clashing(names) = {}
            /\ projects' = T
            /\ accounts' = accounts \cup {NewAccount(l) : l \in names}
            /\ rows' = [i \in Item \cup Status |-> rows[i] + IF i \in items THEN 1 ELSE 0]
            /\ boards' = WithBoards(T, BoardsOf(r1, T, P, b))
            /\ marked' = marked \cup b.refused
            /\ testers' = testers \cup People(I, "tester")
            /\ Again(r, {i \in items : rows[i] > 0} \cup (K \cap Unseen(r)) \cup HasBoard)
            /\ left' = {a.answer} \/ left' = left
      /\ Ended(r) /\ DictAfter(r)
      /\ UNCHANGED <<scene, token, accepted, entering, unseeing>>

LEMMA ImportIs ==
  ASSUME NEW r, NEW u, NEW I, NEW api, Import(r, u, I, api)
  PROVE  ImportSteps(r, u, I)
BY DEF Import, ImportSteps, AfterCron, Calm, Meeting, WithCache, Concerned, Seen

LEMMA ImportKeeps ==
  ASSUME AccessInv, NEW r \in Requests, NEW u \in User, NEW I \in SUBSET Issue, NEW api,
         Import(r, u, I, api)
  PROVE  AccessInv'
<1> DEFINE K  == MissingProjects(r, I)
           T  == Appended(u, K)
           P  == Concerned(r, T, I)
           r1 == AfterCron(r, u, K)
           U  == BoardUsers(T, P)
           b  == Answer(r1, U, "boards")
           a  == Answer(Calm(r, u), {u}, "cron")
<1>1. Able(r) /\ Asking(r)
  BY RequestsAble DEF Able
<1>2. /\ Able(r1) /\ a.answer \in Answers /\ Harmless(a.answer)
  BY <1>1, AfterCronAble
<1>3. Enlarged(T, K) /\ P \subseteq DOMAIN T /\ T \in Seq(ProjectRow)
  BY <1>1, ConcernedIs DEF Enlarged
<1>4. /\ Keep(r, r1.cache) \/ BoardsDone(r1, b)
      /\ \/ UNCHANGED <<projects, marked, left>>
         \/ /\ projects' = T /\ marked' = marked \cup b.refused
            /\ left' = {a.answer} \/ left' = left
      /\ Ended(r) /\ UNCHANGED <<scene, token, accepted, entering>>
  BY ImportIs DEF ImportSteps
<1> HIDE DEF K, T, P
<1>5. U \subseteq User
  BY <1>3, BoardUsersAre DEF AccessInv, AccessTypes
<1> HIDE DEF U, a, r1
<1>6. b.refused \subseteq User
  BY <1>2, <1>5, AnswerIs
<1>7. CachesKept
  <2>1. CASE BoardsDone(r1, b)
    BY <1>2, <1>5, <2>1, BoardsDoneKept
  <2>2. CASE Keep(r, r1.cache)
    <3>1. MayKeep(r, r1.cache) /\ Harmless(r1.cache.answer)
      <4>1. /\ Able(r1) /\ r1.process = r.process /\ r1.early = r.early /\ r1.token = r.token
        BY <1>1, AfterCronAble DEF r1
      <4>2. QED
        BY <4>1 DEF Able, MayKeep, Counts
    <3>2. QED
      BY <1>1, <2>2, <3>1, KeepKept
  <2>3. QED
    BY <1>4, <2>1, <2>2
<1> HIDE DEF b
<1>8. projects' \in Seq(ProjectRow) /\ DOMAIN projects \subseteq DOMAIN projects'
  BY <1>3, <1>4 DEF Enlarged, AccessInv, AccessTypes
<1>9. marked' \subseteq User
  BY <1>4, <1>6 DEF AccessInv, AccessTypes
<1>10. left' \subseteq Answers /\ \A c \in left' : Harmless(c)
  BY <1>2, <1>4, LeftKept
<1>11. RestKept
  BY <1>4, <1>8, <1>9, <1>10 DEF Ended, RestKept
<1>12. QED
  BY <1>7, <1>11, RequestKeeps

LEMMA TokenStepKeeps ==
  ASSUME AccessInv, TokenStep
  PROVE  AccessInv'
<1>1. ASSUME NEW u \in User, NEW t \in 1..scene.renewals, NEW p \in Process, Enter(p, u, t)
      PROVE  AccessInv'
  BY <1>1, EnterKeeps
<1>2. ASSUME NEW u \in User, Renew(u) PROVE AccessInv'
  BY <1>2, RenewKeeps
<1>3. ASSUME NEW r \in Requests, NEW P \in SUBSET DOMAIN projects, Fetch(r, P)
      PROVE  AccessInv'
  BY <1>3, FetchKeeps
<1>4. QED
  BY <1>1, <1>2, <1>3, AbortEnteredKeeps, CommitEnteredKeeps DEF TokenStep

LEMMA AccessNext ==
  ASSUME AccessInv, [TablesNext]_<<accessVars, tableVars>>
  PROVE  AccessInv'
<1>1. ASSUME NEW p \in Process, Begin(p) PROVE AccessInv'
  BY <1>1, BeginEarlyKeeps DEF Begin
<1>2. ASSUME NEW r \in Requests, Boards(r) PROVE AccessInv'
  BY <1>2, LoadBoardsKeeps DEF Boards
<1>3. ASSUME NEW r \in Requests, NEW u \in User, Projects(r, u) PROVE AccessInv'
  BY <1>3, LoadProjectsKeeps DEF Projects
<1>4. ASSUME NEW r \in Requests, NEW u \in User, NotServed(r, u) PROVE AccessInv'
  BY <1>4, TriedKeeps DEF NotServed
<1>5. ASSUME NEW r \in Requests, NEW u \in User, LoadAllUsers(r, u) PROVE AccessInv'
  BY <1>5, TriedKeeps DEF LoadAllUsers
<1>6. ASSUME NEW r \in Requests, NEW u \in User, NEW x, ImportLogs(r, u, x) PROVE AccessInv'
  BY <1>6, TriedKeeps DEF ImportLogs
<1>7. ASSUME NEW r \in Requests, NEW u \in User, NEW I \in SUBSET scene.issues, NEW api,
             Import(r, u, I, api)
      PROVE  AccessInv'
  <2>1. scene.issues \subseteq Issue
    BY TableAssumption DEF AccessInv, AccessTypes
  <2>2. QED
    BY <1>7, <2>1, ImportKeeps
<1>8. CASE UNCHANGED <<accessVars, tableVars>>
  BY <1>8 DEF accessVars, access, AccessInv, AccessTypes, LastingTypes, CachesRight, UpToDate
<1>9. QED
  BY <1>1, <1>2, <1>3, <1>4, <1>5, <1>6, <1>7, <1>8, TokenStepKeeps DEF TablesNext

LEMMA AccessStart == AccessInit => AccessInv
<1> SUFFICES ASSUME AccessInit PROVE AccessInv
  OBVIOUS
<1>1. scene \in Scenes /\ projects = scene.projects /\ projects \in Seq(ProjectRow)
  BY Constants DEF AccessInit
<1>2. token \in [User -> Nat] /\ accepted \in [User -> Nat]
  BY DEF AccessInit
<1>3. cached \in [Process -> Cache] /\ \A p \in Process : cached[p] = Nothing
  BY NothingIs DEF AccessInit
<1>4. AccessTypes
  BY <1>1, <1>2, <1>3 DEF AccessInit, AccessTypes
<1>5. LastingTypes
  BY DEF AccessInit, LastingTypes
<1>6. CachesRight
  BY <1>3, NothingIs DEF AccessInit, CachesRight
<1>7. QED
  BY <1>4, <1>5, <1>6 DEF AccessInv

(* What is in a cache is in the table, or is excused, and each answer that *)
(* is kept is one of the cron or names nobody.                             *)
THEOREM AccessInvariant == TablesSpec => []AccessInv
<1>1. TablesInit => AccessInv
  BY AccessStart DEF TablesInit
<1>2. AccessInv /\ [TablesNext]_<<accessVars, tableVars>> => AccessInv'
  BY AccessNext
<1>3. QED
  BY <1>1, <1>2, PTL DEF TablesSpec

(* The token that was entered last is the one every later request uses, and*)
(* the cron leaves a project out only by an answer about other users.      *)
THEOREM AccessAlwaysExplained == TablesSpec => []AccessExplained
<1>1. ASSUME AccessInv PROVE AccessExplained
  <2>1. TokensCurrent
    BY <1>1 DEF AccessInv, CachesRight, UpToDate, TokensCurrent
  <2>2. LeftOutExplained
    BY <1>1 DEF AccessInv, CachesRight, Harmless, LeftOutExplained
  <2>3. \A n \in DOMAIN projects : projects[n].key \in Key /\ projects[n].managers \subseteq User
    <3>1. \A n \in DOMAIN projects : projects[n] \in ProjectRow
      BY <1>1 DEF AccessInv, AccessTypes
    <3>2. QED
      BY <3>1 DEF ProjectRow
  <2>4. \A p \in Process : cached[p].token \in [User -> Nat] /\ cached[p].answer.users \subseteq User
    <3>1. \A p \in Process : cached[p] \in Cache
      BY <1>1 DEF AccessInv, AccessTypes
    <3>2. QED
      BY <3>1 DEF Cache, Answers
  <2>5. AccessTypeOK
    BY <1>1, <2>3, <2>4 DEF AccessInv, AccessTypes, AccessTypeOK
  <2>6. QED
    BY <2>1, <2>2, <2>5 DEF AccessExplained
<1>2. QED
  BY <1>1, AccessInvariant, PTL

-----------------------------------------------------------------------------
(* The tables.                                                             *)
OfKey(T, k) == {n \in DOMAIN T : T[n].key = k}

Watchers(k) == {u \in User : k \in Listed[u]}

ItemsOnce ==
  rows \in [Item \cup Status -> Nat] /\ \A i \in Item : rows[i] > 1 => i \in doubled

ProjectsCounted ==
  /\ unseeing \in Nat
  /\ \A k \in Key \ doubled : Cardinality(OfKey(projects, k)) <= 1 + unseeing

BoardsCounted ==
  /\ boards \in [DOMAIN projects -> Nat]
  /\ \A k \in Key \ doubled : \A n \in DOMAIN projects :
       projects[n].key = k => boards[n] <= Cardinality(Watchers(k))

(* An account has the name imports look for, but for those of              *)
(* load_all_users and of people who have been users before; logins are     *)
(* unique; and whoever was never met as a tester nor hides an address she  *)
(* has here goes by one login only, but for that load_all_users gives to   *)
(* one whose login is not her address.                                     *)
Proper(a) ==
  \/ a.name = a.login \/ a.by = "load_all_users"
  \/ a.by = "hand" /\ (a.name[2] = "own" \/ a.login[2] = "own")

LoginOf(x) == IF x \in Renamed THEN <<x, "own">> ELSE Name(x)

OneLogin(a) ==
  \A x \in Person \ (testers \cup Hidden) :
    a.login[1] = x /\ (a.by = "load_all_users" => x \notin Renamed) => a.login = LoginOf(x)

AccountsRight ==
  /\ \A a \in accounts : Proper(a) /\ OneLogin(a)
  /\ \A a, b \in accounts : a.login = b.login => a = b

TablesInv ==
  ItemsOnce /\ ProjectsCounted /\ BoardsCounted /\ AccountsRight /\ ClashesExplained

(* The account of one who has been a user before: every request has it in  *)
(* its dict.                                                               *)
Hand(y) ==
  [login |-> <<y.person, y.login>>, name |-> <<y.person, y.name>>, by |-> "hand"]

HandsKnown ==
  \A y \in scene.people :
    Hand(y) \in accounts /\ (early # <<>> => Hand(y) \in dict.accounts)

LEMMA OfKeyFinite ==
  ASSUME NEW T \in Seq(ProjectRow), NEW k
  PROVE  IsFiniteSet(OfKey(T, k)) /\ Cardinality(OfKey(T, k)) \in Nat
<1>1. DOMAIN T = 1..Len(T) /\ Len(T) \in Nat
  OBVIOUS
<1>2. IsFiniteSet(DOMAIN T)
  BY <1>1, FS_Interval
<1>3. OfKey(T, k) \subseteq DOMAIN T
  BY DEF OfKey
<1>4. QED
  BY <1>2, <1>3, FS_Subset, FS_CardinalityType

LEMMA WatchersFinite ==
  ASSUME NEW k, NEW S \in SUBSET Watchers(k)
  PROVE  Cardinality(S) \in Nat /\ Cardinality(Watchers(k)) \in Nat
         /\ Cardinality(S) <= Cardinality(Watchers(k))
<1>1. Watchers(k) \subseteq User /\ IsFiniteSet(User)
  BY Constants DEF Watchers
<1>2. IsFiniteSet(Watchers(k))
  BY <1>1, FS_Subset
<1>3. QED
  BY <1>2, FS_Subset, FS_CardinalityType

(* A project is added at most once.                                        *)
LEMMA CountAfter ==
  ASSUME projects \in Seq(ProjectRow), NEW T, NEW K, Enlarged(T, K), NEW k
  PROVE  /\ Cardinality(OfKey(T, k)) <= Cardinality(OfKey(projects, k)) + 1
         /\ k \notin K => OfKey(T, k) = OfKey(projects, k)
<1> DEFINE A == OfKey(projects, k)
           B == OfKey(T, k)
<1>1. IsFiniteSet(A) /\ Cardinality(A) \in Nat
  BY OfKeyFinite
<1>2. A \subseteq B /\ \A n \in B \ A : n \in DOMAIN T \ DOMAIN projects /\ T[n].key = k
  BY DEF OfKey, Enlarged
<1>3. \A m, n \in B \ A : m = n
  BY <1>2 DEF Enlarged
<1>4. k \notin K => B = A
  <2>1. \A n \in B \ A : k \in K
    BY <1>2 DEF Enlarged
  <2> HIDE DEF A, B
  <2>2. QED
    BY <1>2, <2>1
<1> HIDE DEF A, B
<1>5. CASE B = A
  BY <1>1, <1>4, <1>5 DEF A, B
<1>6. ASSUME NEW n \in B \ A
      PROVE  Cardinality(B) <= Cardinality(A) + 1
  <2>1. B = A \cup {n} /\ n \notin A
    BY <1>2, <1>3
  <2>2. Cardinality(A \cup {n}) = Cardinality(A) + 1
    BY <1>1, <2>1, FS_AddElement
  <2>3. QED
    BY <1>1, <2>1, <2>2
<1>7. QED
  BY <1>2, <1>4, <1>5, <1>6 DEF A, B

LEMMA ProjectsKept ==
  ASSUME AccessInv, TablesInv, NEW K, Enlarged(projects', K), doubled \subseteq doubled',
         unseeing' \in {unseeing, unseeing + 1},
         \A k \in K \ doubled' : OfKey(projects, k) = {} \/ unseeing' = unseeing + 1
  PROVE  ProjectsCounted'
<1>1. projects \in Seq(ProjectRow) /\ projects' \in Seq(ProjectRow)
  BY DEF AccessInv, AccessTypes, Enlarged
<1>2. unseeing \in Nat /\ \A k \in Key \ doubled : Cardinality(OfKey(projects, k)) <= 1 + unseeing
  BY DEF TablesInv, ProjectsCounted
<1>3. ASSUME NEW k \in Key \ doubled' PROVE Cardinality(OfKey(projects', k)) <= 1 + unseeing'
  <2>1. /\ Cardinality(OfKey(projects', k)) <= Cardinality(OfKey(projects, k)) + 1
        /\ k \notin K => OfKey(projects', k) = OfKey(projects, k)
    BY <1>1, CountAfter
  <2>2. /\ Cardinality(OfKey(projects, k)) \in Nat /\ Cardinality(OfKey(projects', k)) \in Nat
        /\ Cardinality(OfKey(projects, k)) <= 1 + unseeing
    BY <1>1, <1>2, OfKeyFinite
  <2>3. CASE OfKey(projects, k) = {}
    <3>1. Cardinality(OfKey(projects, k)) = 0
      BY <2>3, FS_EmptySet
    <3>2. QED
      BY <1>2, <2>1, <2>2, <3>1
  <2>4. CASE k \notin K
    BY <1>2, <2>1, <2>2, <2>4
  <2>5. CASE unseeing' = unseeing + 1
    BY <1>2, <2>1, <2>2, <2>5
  <2>6. QED
    BY <2>3, <2>4, <2>5
<1>4. unseeing' \in Nat
  BY <1>2
<1>5. ProjectsCounted' <=> /\ unseeing' \in Nat
                           /\ \A k \in Key \ doubled' : Cardinality(OfKey(projects', k)) <= 1 + unseeing'
  BY DEF ProjectsCounted, OfKey
<1>6. QED
  BY <1>3, <1>4, <1>5

(* Boards are added where there was none, one for each user who loads them.*)
Boarding(T, more) ==
  /\ more \in [DOMAIN T -> Nat]
  /\ \A n \in DOMAIN T : T[n].key \notin doubled' =>
       \/ more[n] = 0
       \/ Padded(boards, T)[n] = 0 /\ more[n] <= Cardinality(Watchers(T[n].key))

LEMMA BoardsKept ==
  ASSUME AccessInv, TablesInv, NEW K, Enlarged(projects', K), doubled \subseteq doubled',
         NEW more, Boarding(projects', more), boards' = WithBoards(projects', more)
  PROVE  BoardsCounted'
<1> DEFINE T == projects'
           p == Padded(boards, T)
<1>1. projects \in Seq(ProjectRow) /\ T \in Seq(ProjectRow) /\ DOMAIN projects \subseteq DOMAIN T
      /\ \A n \in DOMAIN projects : T[n].key = projects[n].key
  BY DEF AccessInv, AccessTypes, Enlarged
<1>2. boards \in [DOMAIN projects -> Nat]
  BY DEF TablesInv, BoardsCounted
<1>3. p \in [DOMAIN T -> Nat] /\ \A n \in DOMAIN T : p[n] = IF n \in DOMAIN projects THEN boards[n] ELSE 0
  BY <1>1, <1>2 DEF Padded
<1>4. more \in [DOMAIN T -> Nat]
  BY DEF Boarding
<1>5. boards' = [n \in DOMAIN T |-> p[n] + more[n]]
  BY DEF WithBoards
<1> HIDE DEF p
<1>6. boards' \in [DOMAIN T -> Nat]
  BY <1>3, <1>4, <1>5
<1>7. ASSUME NEW k \in Key \ doubled', NEW n \in DOMAIN T, T[n].key = k
      PROVE  boards'[n] <= Cardinality(Watchers(k))
  <2>1. boards'[n] = p[n] + more[n] /\ p[n] \in Nat /\ more[n] \in Nat
    BY <1>3, <1>4, <1>5
  <2>2. Cardinality(Watchers(k)) \in Nat
    BY WatchersFinite
  <2>3. more[n] = 0 \/ (p[n] = 0 /\ more[n] <= Cardinality(Watchers(k)))
    BY <1>7 DEF Boarding, p
  <2>4. p[n] <= Cardinality(Watchers(k))
    <3>1. CASE n \in DOMAIN projects
      BY <1>1, <1>3, <1>7, <3>1 DEF TablesInv, BoardsCounted
    <3>2. CASE n \notin DOMAIN projects
      BY <1>3, <2>2, <3>2
    <3>3. QED
      BY <3>1, <3>2
  <2>5. QED
    BY <2>1, <2>2, <2>3, <2>4
<1>8. BoardsCounted' <=> /\ boards' \in [DOMAIN T -> Nat]
                         /\ \A k \in Key \ doubled' : \A n \in DOMAIN T :
                              T[n].key = k => boards'[n] <= Cardinality(Watchers(k))
  BY DEF BoardsCounted, Watchers
<1>9. QED
  BY <1>6, <1>7, <1>8

(* No boards are added.                                                    *)
LEMMA NoBoards ==
  ASSUME AccessInv, TablesInv, NEW K, Enlarged(projects', K), doubled \subseteq doubled',
         boards' = Padded(boards, projects')
  PROVE  BoardsCounted'
<1> DEFINE more == [n \in DOMAIN projects' |-> 0]
<1>1. Boarding(projects', more)
  BY DEF Boarding
<1>2. WithBoards(projects', more) = Padded(boards, projects')
  <2>1. \A n \in DOMAIN projects' : Padded(boards, projects')[n] \in Nat
    BY DEF Padded, TablesInv, BoardsCounted
  <2>2. Padded(boards, projects') = [n \in DOMAIN projects' |-> Padded(boards, projects')[n]]
    BY DEF Padded
  <2>3. WithBoards(projects', more) = [n \in DOMAIN projects' |-> Padded(boards, projects')[n] + more[n]]
    BY DEF WithBoards
  <2>4. \A n \in DOMAIN projects' : Padded(boards, projects')[n] + more[n] = Padded(boards, projects')[n]
    BY <2>1
  <2>5. QED
    BY <2>2, <2>3, <2>4
<1> HIDE DEF more
<1>3. QED
  BY <1>1, <1>2, BoardsKept

(* load_boards: what an early request does not see, it may create again.   *)
LEMMA NewBoardsIs ==
  ASSUME NEW T \in Seq(ProjectRow), NEW P \in SUBSET DOMAIN T, NEW old, NEW U \in SUBSET User
  PROVE  LET more == NewBoards(T, P, old, U)
         IN  /\ more \in [DOMAIN T -> Nat]
             /\ \A n \in DOMAIN T :
                  \/ more[n] = 0
                  \/ /\ T[n].key \in HasBoard /\ Padded(old, T)[n] = 0
                     /\ more[n] <= Cardinality(Watchers(T[n].key))
<1> DEFINE more == NewBoards(T, P, old, U)
           mine(n) == {v \in U : T[n].key \in Listed[v]}
<1>1. DOMAIN more = DOMAIN T /\ more = [n \in DOMAIN T |-> more[n]]
  BY DEF NewBoards
<1>2. ASSUME NEW n \in DOMAIN T
      PROVE  \/ more[n] = 0
             \/ /\ T[n].key \in HasBoard /\ Padded(old, T)[n] = 0
                /\ more[n] = Cardinality(mine(n))
  <2>1. more[n] = IF /\ n \in P /\ n = RowOf(T, P, T[n].key) /\ T[n].key \in HasBoard
                     /\ \A m \in P : T[m].key = T[n].key => Padded(old, T)[m] = 0
                  THEN Cardinality(mine(n)) ELSE 0
    BY DEF NewBoards
  <2> HIDE DEF more, mine
  <2>2. QED
    BY <2>1
<1>3. ASSUME NEW n \in DOMAIN T
      PROVE  Cardinality(mine(n)) \in Nat /\ Cardinality(mine(n)) <= Cardinality(Watchers(T[n].key))
  <2>1. mine(n) \in SUBSET Watchers(T[n].key)
    BY DEF Watchers
  <2> HIDE DEF mine
  <2>2. QED
    BY <2>1, WatchersFinite
<1> HIDE DEF more, mine
<1>4. \A n \in DOMAIN T : more[n] \in Nat
  BY <1>2, <1>3
<1>5. more \in [DOMAIN T -> Nat]
  BY <1>1, <1>4
<1>6. \A n \in DOMAIN T :
        \/ more[n] = 0
        \/ /\ T[n].key \in HasBoard /\ Padded(old, T)[n] = 0
           /\ more[n] <= Cardinality(Watchers(T[n].key))
  BY <1>2, <1>3
<1>7. QED
  BY <1>5, <1>6 DEF more

LEMMA KnownIs ==
  ASSUME NEW r, ~r.early
  PROVE  Known(r).accounts = accounts /\ Known(r).rows = rows /\ Known(r).boards = boards
BY DEF Known

LEMMA BoardsOfIs ==
  ASSUME NEW r, r.early \in BOOLEAN, NEW T \in Seq(ProjectRow), NEW P \in SUBSET DOMAIN T,
         NEW a, a.answer \in Answers, r.early => HasBoard \subseteq doubled'
  PROVE  Boarding(T, BoardsOf(r, T, P, a))
<1> DEFINE U == a.answer.users
           more == NewBoards(T, P, Known(r).boards, U)
           none == [n \in DOMAIN T |-> 0]
<1>1. U \subseteq User
  BY DEF Answers
<1> HIDE DEF U
<1>2. /\ more \in [DOMAIN T -> Nat]
      /\ \A n \in DOMAIN T :
           \/ more[n] = 0
           \/ /\ T[n].key \in HasBoard /\ Padded(Known(r).boards, T)[n] = 0
              /\ more[n] <= Cardinality(Watchers(T[n].key))
  BY <1>1, NewBoardsIs
<1>3. BoardsOf(r, T, P, a) = more \/ BoardsOf(r, T, P, a) = none
  BY DEF BoardsOf, U
<1>4. Boarding(T, none)
  BY DEF Boarding
<1> HIDE DEF more, none
<1>5. Boarding(T, more)
  <2>1. \A n \in DOMAIN T : T[n].key \notin doubled' =>
          \/ more[n] = 0
          \/ Padded(boards, T)[n] = 0 /\ more[n] <= Cardinality(Watchers(T[n].key))
    BY <1>2, KnownIs
  <2>2. QED
    BY <1>2, <2>1 DEF Boarding
<1>6. QED
  BY <1>3, <1>4, <1>5

-----------------------------------------------------------------------------
(* Accounts.                                                               *)
LEMMA AccountsKept ==
  ASSUME TablesInv, scene' = scene, testers \subseteq testers',
         NEW A, accounts' = accounts \cup A,
         \A a \in A : Proper(a) /\ OneLogin(a)',
         \A a, b \in A : a.login = b.login => a = b,
         \A a \in A, b \in accounts : a.login # b.login
  PROVE  AccountsRight'
<1>1. /\ \A a \in accounts : Proper(a) /\ OneLogin(a)
      /\ \A a, b \in accounts : a.login = b.login => a = b
  BY DEF TablesInv, AccountsRight
<1>2. \A a : OneLogin(a) => OneLogin(a)'
  BY DEF OneLogin, Hidden, Renamed, LoginOf
<1>3. \A a \in accounts' : Proper(a) /\ OneLogin(a)'
  BY <1>1, <1>2
<1>4. \A a, b \in accounts' : a.login = b.login => a = b
  BY <1>1
<1>5. QED
  BY <1>3, <1>4 DEF AccountsRight, Proper

LEMMA NamesAre ==
  /\ \A x, y : Name(x) = Name(y) => x = y
  /\ \A x : Name(x)[1] = x /\ Id(x)[1] = x /\ Name(x) \in {Mail(x), Id(x)}
  /\ \A x : Mail(x)[2] = "mail" /\ Id(x)[2] = "id"
BY DEF Name, Mail, Id

LEMMA NewAccountIs ==
  ASSUME NEW l
  PROVE  NewAccount(l).login = l /\ NewAccount(l).name = l /\ NewAccount(l).by = "import"
BY DEF NewAccount

(* Whom a request does not find by the name the server has for her has not *)
(* been a user before, but under another address.                          *)
LEMMA NotRenamed ==
  ASSUME scene \in Scenes, NEW D, \A y \in scene.people : Hand(y) \in D,
         NEW x, Name(x) \notin {a.name : a \in D}
  PROVE  x \notin Renamed \ Hidden
<1> SUFFICES ASSUME x \in Renamed, x \notin Hidden PROVE FALSE
  OBVIOUS
<1>1. PICK y \in scene.people : y.person = x
  BY DEF Renamed
<1>2. y.name = "mail" /\ x \in Visible
  BY <1>1, TableAssumption DEF Hidden
<1>3. Hand(y).name = Name(x) /\ Hand(y) \in D
  BY <1>1, <1>2 DEF Hand, Name, Mail
<1>4. QED
  BY <1>3

(* An import: it names assignees as they are named here, and testers.      *)
LEMMA ImportedAccounts ==
  ASSUME TablesInv, scene' = scene, testers \subseteq testers',
         NEW names, Clashing(names) = {},
         \A l \in names : \/ \E x : l = Name(x) /\ x \notin Renamed \ Hidden
                         \/ \E x \in testers' : l = Id(x),
         accounts' = accounts \cup {NewAccount(l) : l \in names}
  PROVE  AccountsRight'
<1> DEFINE A == {NewAccount(l) : l \in names}
<1>1. \A a \in A : a.login \in names /\ a.name = a.login /\ a = NewAccount(a.login)
  BY NewAccountIs
<1>2. \A a \in A, b \in accounts : a.login # b.login
  BY <1>1 DEF Clashing
<1>3. \A a, b \in A : a.login = b.login => a = b
  BY <1>1
<1>4. ASSUME NEW a \in A PROVE Proper(a) /\ OneLogin(a)'
  <2>1. Proper(a) /\ \/ \E x : a.login = Name(x) /\ x \notin Renamed \ Hidden
                     \/ \E x \in testers' : a.login = Id(x)
    BY <1>1 DEF Proper
  <2>2. Hidden' = Hidden /\ Renamed' = Renamed
    BY DEF Hidden, Renamed
  <2>3. ASSUME NEW x \in Person \ (testers' \cup Hidden), a.login[1] = x
        PROVE  a.login = LoginOf(x)
    BY <2>1, <2>3, NamesAre DEF LoginOf
  <2>4. QED
    BY <2>1, <2>2, <2>3 DEF OneLogin, LoginOf, Name, Mail, Id
<1> HIDE DEF A
<1>5. accounts' = accounts \cup A
  BY DEF A
<1>6. QED
  BY <1>2, <1>3, <1>4, <1>5, AccountsKept

(* load_all_users.                                                         *)
LEMMA LoadedAccounts ==
  ASSUME TablesInv, scene' = scene, testers \subseteq testers', NEW D,
         Clashing({a.login : a \in AllUsers(D)}) = {},
         accounts' = accounts \cup AllUsers(D)
  PROVE  AccountsRight'
<1> DEFINE A == AllUsers(D)
<1>1. \A a \in A : \E x : /\ a.login = Name(x) /\ a.by = "load_all_users"
                          /\ a = [login |-> Name(x), name |-> IF x \in Visible THEN Mail(x) ELSE IdAtMail(x),
                                  by |-> "load_all_users"]
  BY DEF AllUsers
<1> HIDE DEF A
<1>2. \A a \in A, b \in accounts : a.login # b.login
  BY DEF Clashing, A
<1>3. \A a, b \in A : a.login = b.login => a = b
  BY <1>1, NamesAre
<1>4. ASSUME NEW a \in A PROVE Proper(a) /\ OneLogin(a)'
  <2>1. PICK x : a.login = Name(x) /\ a.by = "load_all_users"
    BY <1>1
  <2>2. \A y : a.login[1] = y => a.login = Name(y)
    BY <2>1, NamesAre
  <2>3. QED
    BY <2>1, <2>2 DEF OneLogin, LoginOf, Proper, Name, Mail, Id
<1>5. accounts' = accounts \cup A
  BY DEF A
<1>6. QED
  BY <1>2, <1>3, <1>4, <1>5, AccountsKept

(* A login that is not known for a name, and exists, is that of a tester,  *)
(* of an account of load_all_users, or of one under another address.       *)
LEMMA ClashesKept ==
  ASSUME TablesInv, NEW r, NEW names, NEW tested, Clash(r, names, tested),
         \A a \in accounts : /\ a.login \in names /\ ~r.early
                             => a.login # a.name \/ a.login \in {Id(x) : x \in tested},
         \A l \in names : l[2] \in {"mail", "id"}
  PROVE  ClashesExplained'
<1> SUFFICES ASSUME NEW c \in clashes'
             PROVE  \/ c.early \/ c.tester \/ c.account.by = "load_all_users"
                    \/ c.account.by = "hand" /\ c.account.name[2] = "own"
  BY DEF ClashesExplained
<1>1. CASE c \in clashes
  BY <1>1 DEF TablesInv, ClashesExplained
<1>2. CASE c \notin clashes
  <2>1. PICK a \in accounts :
          /\ a.login \in names
          /\ c = [account |-> a, early |-> r.early, tester |-> a.login \in {Id(x) : x \in tested}]
    BY <1>2 DEF Clash
  <2>2. c.account = a /\ c.early = r.early /\ c.tester = (a.login \in {Id(x) : x \in tested})
    BY <2>1
  <2>3. Proper(a)
    BY DEF TablesInv, AccountsRight
  <2>4. a.login[2] # "own"
    BY <2>1
  <2>5. QED
    BY <2>1, <2>2, <2>3, <2>4 DEF Proper
<1>3. QED
  BY <1>1, <1>2

LEMMA MissingUsersAre ==
  ASSUME NEW D, NEW I
  PROVE  \A l \in MissingUsers(D, I) :
           \/ \E x : l = Name(x) /\ l \notin {a.name : a \in D.accounts}
           \/ \E x \in People(I, "tester") : l = Id(x)
<1>1. \A i \in I : i.tester # Nobody => i.tester \in People(I, "tester")
  BY DEF People
<1>2. QED
  BY <1>1 DEF MissingUsers, Missing

-----------------------------------------------------------------------------
(* A step that leaves the tables alone.                                    *)
LEMMA TablesStay ==
  ASSUME TablesInv, UNCHANGED <<scene, projects, tables, tableHist>>
  PROVE  TablesInv'
<1>1. ItemsOnce' /\ ProjectsCounted' /\ BoardsCounted'
  BY DEF TablesInv, tables, tableHist, ItemsOnce, ProjectsCounted, BoardsCounted, OfKey
<1>2. AccountsRight'
  BY DEF TablesInv, tables, tableHist, AccountsRight, Proper, OneLogin, LoginOf, Hidden, Renamed
<1>3. ClashesExplained'
  BY DEF TablesInv, tableHist, ClashesExplained
<1>4. QED
  BY <1>1, <1>2, <1>3 DEF TablesInv

LEMMA AccountsStay ==
  ASSUME TablesInv, scene' = scene, accounts' = accounts, testers' = testers
  PROVE  AccountsRight'
BY DEF TablesInv, AccountsRight, Proper, OneLogin, LoginOf, Hidden, Renamed

LEMMA ItemsStay ==
  ASSUME TablesInv, rows' = rows, doubled \subseteq doubled'
  PROVE  ItemsOnce'
BY DEF TablesInv, ItemsOnce

LEMMA ClashesStay ==
  ASSUME TablesInv, clashes' = clashes
  PROVE  ClashesExplained'
BY DEF TablesInv, ClashesExplained

LEMMA ProjectsStay ==
  ASSUME AccessInv, projects' = projects
  PROVE  Enlarged(projects', {})
BY DEF AccessInv, AccessTypes, Enlarged

(* What u is shown and a request does not see is new or doubled.           *)
LEMMA NewOrUnseen ==
  ASSUME AccessInv, NEW seen \in SUBSET DOMAIN projects, NEW k,
         k \notin KeysOf(projects, seen), k \notin KeysOf(projects, DOMAIN projects \ seen)
  PROVE  OfKey(projects, k) = {}
BY DEF KeysOf, OfKey

(* The projects of a token that was entered.                               *)
LEMMA CommitEnteredTables ==
  ASSUME AccessInv, TablesInv, CommitEntered,
         boards' = Padded(boards, projects'),
         doubled' = doubled \cup (KeysOf(projects, DOMAIN projects \ entering[1].seen)
                                    \cap Listed[entering[1].user]),
         UNCHANGED <<accounts, rows, testers, unseeing, clashes>>
  PROVE  TablesInv'
<1> DEFINE e == entering[1]
           K == Listed[e.user] \ KeysOf(projects, e.seen)
<1>1. /\ e.user \in User /\ e.seen \in SUBSET DOMAIN projects
      /\ projects' = WithProjects(e.user, e.seen) /\ scene' = scene
  BY DEF CommitEntered, AccessInv, LastingTypes
<1>2. Enlarged(projects', K)
  BY <1>1, WithProjectsIs DEF AccessInv, AccessTypes
<1>3. doubled \subseteq doubled'
  OBVIOUS
<1>4. \A k \in K \ doubled' : OfKey(projects, k) = {}
  BY <1>1, NewOrUnseen
<1> HIDE DEF K
<1>5. ProjectsCounted'
  BY <1>2, <1>3, <1>4, ProjectsKept
<1>6. BoardsCounted'
  BY <1>2, <1>3, NoBoards
<1>7. QED
  BY <1>1, <1>3, <1>5, <1>6, AccountsStay, ItemsStay, ClashesStay DEF TablesInv

LEMMA ProjectsTables ==
  ASSUME AccessInv, TablesInv, NEW r \in Requests, NEW u \in User, Projects(r, u)
  PROVE  TablesInv'
<1>1. Asking(r) /\ r.seen \in SUBSET DOMAIN projects /\ (~r.early => r.seen = DOMAIN projects)
  BY RequestsAble DEF Able, Asking
<1>2. /\ \/ projects' = projects
         \/ projects' = WithProjects(u, IF u \in SeesAll THEN r.seen ELSE {})
      /\ boards' = Padded(boards, projects') /\ scene' = scene
      /\ unseeing' = IF projects' = projects \/ u \in SeesAll THEN unseeing ELSE unseeing + 1
      /\ doubled' = doubled \cup IF r.early THEN Unseen(r) \cap Listed[u] ELSE {}
      /\ UNCHANGED <<accounts, rows, testers, clashes>>
  BY DEF Projects, LoadProjects, Again
<1>3. doubled \subseteq doubled' /\ unseeing' \in {unseeing, unseeing + 1}
  BY <1>2
<1>4. CASE projects' = projects
  <2>1. Enlarged(projects', {})
    BY <1>4, ProjectsStay
  <2>2. QED
    BY <1>2, <1>3, <2>1, ProjectsKept, NoBoards, AccountsStay, ItemsStay, ClashesStay DEF TablesInv
<1>5. CASE projects' # projects
  <2> DEFINE seen == IF u \in SeesAll THEN r.seen ELSE {}
             K == Listed[u] \ KeysOf(projects, seen)
  <2>1. seen \in SUBSET DOMAIN projects
    BY <1>1
  <2>2. Enlarged(projects', K)
    BY <1>2, <1>5, <2>1, WithProjectsIs DEF AccessInv, AccessTypes
  <2>3. ASSUME NEW k \in K \ doubled' PROVE OfKey(projects, k) = {} \/ unseeing' = unseeing + 1
    <3>1. CASE u \in SeesAll
      <4>1. k \in Listed[u] /\ k \notin KeysOf(projects, r.seen)
        BY <3>1
      <4>2. k \notin KeysOf(projects, DOMAIN projects \ r.seen)
        <5>1. CASE r.early
          BY <1>2, <2>3, <4>1, <5>1 DEF Unseen
        <5>2. CASE ~r.early
          BY <1>1, <5>2 DEF KeysOf
        <5>3. QED
          BY <5>1, <5>2
      <4>3. QED
        BY <1>1, <4>1, <4>2, NewOrUnseen
    <3>2. CASE u \notin SeesAll
      BY <1>2, <1>5, <3>2
    <3>3. QED
      BY <3>1, <3>2
  <2> HIDE DEF K, seen
  <2>4. ProjectsCounted'
    BY <1>3, <2>2, <2>3, ProjectsKept
  <2>5. BoardsCounted'
    BY <1>2, <1>3, <2>2, NoBoards
  <2>6. QED
    BY <1>2, <1>3, <2>4, <2>5, AccountsStay, ItemsStay, ClashesStay DEF TablesInv
<1>6. QED
  BY <1>4, <1>5

LEMMA BoardsTables ==
  ASSUME AccessInv, TablesInv, NEW r \in Requests, Boards(r)
  PROVE  TablesInv'
<1> DEFINE U == BoardUsers(projects, r.seen)
           a == Answer(r, U, "boards")
           more == BoardsOf(r, projects, r.seen, a)
<1>1. Able(r) /\ r.early \in BOOLEAN /\ r.seen \in SUBSET DOMAIN projects
  BY RequestsAble DEF Able, Asking
<1>2. projects \in Seq(ProjectRow)
  BY DEF AccessInv, AccessTypes
<1>3. /\ boards' = WithBoards(projects, more)
      /\ doubled' = doubled \cup IF r.early THEN HasBoard ELSE {}
      /\ UNCHANGED <<scene, projects, accounts, rows, testers, unseeing, clashes>>
  BY DEF Boards, LoadBoards, Again
<1>4. U \subseteq User
  BY <1>1, <1>2, BoardUsersAre DEF AccessInv, AccessTypes
<1>5. doubled \subseteq doubled' /\ (r.early => HasBoard \subseteq doubled')
  BY <1>3
<1> HIDE DEF U
<1>6. a.answer \in Answers
  BY <1>1, <1>4, AnswerIs
<1> HIDE DEF a
<1>7. Boarding(projects, more)
  BY <1>1, <1>2, <1>5, <1>6, BoardsOfIs
<1> HIDE DEF more
<1>8. Enlarged(projects', {}) /\ projects' = projects
  BY <1>3, ProjectsStay
<1>9. BoardsCounted'
  BY <1>3, <1>5, <1>7, <1>8, BoardsKept
<1>10. ProjectsCounted'
  BY <1>3, <1>5, <1>8, ProjectsKept
<1>11. QED
  BY <1>3, <1>5, <1>9, <1>10, AccountsStay, ItemsStay, ClashesStay DEF TablesInv

LEMMA LoadAllUsersTables ==
  ASSUME AccessInv, TablesInv, NEW r, NEW u, LoadAllUsers(r, u)
  PROVE  TablesInv'
<1> DEFINE D == Known(r).accounts
<1>1. /\ accounts' = IF Clashing({a.login : a \in AllUsers(D)}) # {} THEN accounts
                     ELSE accounts \cup AllUsers(D)
      /\ UNCHANGED <<scene, projects, rows, boards, tableHist>>
  BY DEF LoadAllUsers
<1> HIDE DEF D
<1>2. CASE accounts' = accounts
  BY <1>1, <1>2, TablesStay DEF tables
<1>3. CASE accounts' # accounts
  <2>1. Clashing({a.login : a \in AllUsers(D)}) = {} /\ accounts' = accounts \cup AllUsers(D)
    BY <1>1, <1>3
  <2>2. AccountsRight'
    BY <1>1, <2>1, LoadedAccounts DEF tableHist
  <2>3. ItemsOnce' /\ ProjectsCounted' /\ BoardsCounted'
    BY <1>1 DEF TablesInv, tableHist, ItemsOnce, ProjectsCounted, BoardsCounted, OfKey
  <2>4. QED
    BY <1>1, <2>2, <2>3, ClashesStay DEF TablesInv, tableHist
<1>4. QED
  BY <1>2, <1>3

LEMMA HandsFound ==
  ASSUME HandsKnown, NEW r \in Requests
  PROVE  \A y \in scene.people : Hand(y) \in Known(r).accounts
<1>1. r.early => early # <<>>
  BY DEF Requests, Request, EarlyRequest
<1>2. QED
  BY <1>1 DEF Known, HandsKnown

LEMMA ImportLogsTables ==
  ASSUME AccessInv, TablesInv, HandsKnown, NEW r \in Requests, NEW u, NEW x,
         ImportLogs(r, u, x)
  PROVE  TablesInv'
<1> DEFINE names == Missing(Known(r), {Name(x)})
<1>1. /\ accounts' = IF Clashing(names) # {} THEN accounts
                     ELSE accounts \cup {NewAccount(l) : l \in names}
      /\ Clash(r, names, {})
      /\ UNCHANGED <<scene, projects, rows, boards, testers, unseeing, doubled>>
  BY DEF ImportLogs
<1>2. \A l \in names : l = Name(x) /\ l \notin {a.name : a \in Known(r).accounts}
  BY DEF Missing
<1> HIDE DEF names
<1>3. \A a \in accounts : a.login \in names /\ ~r.early => a.login # a.name
  BY <1>2, KnownIs
<1>4. ClashesExplained'
  <2>1. \A l \in names : l[2] \in {"mail", "id"}
    BY <1>2, NamesAre
  <2>2. QED
    BY <1>1, <1>3, <2>1, ClashesKept
<1>5. AccountsRight'
  <2>1. CASE Clashing(names) # {}
    BY <1>1, <2>1, AccountsStay
  <2>2. CASE Clashing(names) = {}
    <3>1. \A l \in names : l = Name(x) /\ x \notin Renamed \ Hidden
      BY <1>2, HandsFound, NotRenamed DEF AccessInv, AccessTypes
    <3>2. QED
      BY <1>1, <2>2, <3>1, ImportedAccounts
  <2>3. QED
    BY <2>1, <2>2
<1>6. ItemsOnce' /\ ProjectsCounted' /\ BoardsCounted'
  BY <1>1 DEF TablesInv, ItemsOnce, ProjectsCounted, BoardsCounted, OfKey
<1>7. QED
  BY <1>4, <1>5, <1>6 DEF TablesInv

LEMMA ImportTables ==
  ASSUME AccessInv, TablesInv, HandsKnown, NEW r \in Requests, NEW u \in User,
         NEW I \in SUBSET Issue, NEW api, Import(r, u, I, api)
  PROVE  TablesInv'
<1> DEFINE K  == MissingProjects(r, I)
           T  == Appended(u, K)
           names == MissingUsers(Known(r), I)
           items == MissingItems(Known(r), I)
           P  == Concerned(r, T, I)
           r1 == AfterCron(r, u, K)
           U  == BoardUsers(T, P)
           b  == Answer(r1, U, "boards")
           more == BoardsOf(r1, T, P, b)
           again == {i \in items : rows[i] > 0} \cup (K \cap Unseen(r)) \cup HasBoard
<1>1. /\ Able(r) /\ Asking(r) /\ r.early \in BOOLEAN /\ r.seen \in SUBSET DOMAIN projects
      /\ ~r.early => r.seen = DOMAIN projects
  BY RequestsAble DEF Able, Asking
<1>2. /\ Clash(r, names, People(I, "tester"))
      /\ \/ UNCHANGED <<projects, tables, testers, doubled>>
         \/ /\ Clashing(names) = {} /\ projects' = T
            /\ accounts' = accounts \cup {NewAccount(l) : l \in names}
            /\ rows' = [i \in Item \cup Status |-> rows[i] + IF i \in items THEN 1 ELSE 0]
            /\ boards' = WithBoards(T, more)
            /\ testers' = testers \cup People(I, "tester")
            /\ Again(r, again)
      /\ UNCHANGED <<scene, unseeing>>
  <2>1. ImportSteps(r, u, I)
    BY ImportIs
  <2>2. QED
    BY <2>1, Zenon DEF ImportSteps
<1>3. ClashesExplained'
  <2>1. \A l \in names : \/ \E x : l = Name(x) /\ l \notin {a.name : a \in Known(r).accounts}
                         \/ \E x \in People(I, "tester") : l = Id(x)
    BY MissingUsersAre
  <2> HIDE DEF names
  <2>4. \A l \in names : l[2] \in {"mail", "id"}
    BY <2>1, NamesAre
  <2>2. \A a \in accounts : /\ a.login \in names /\ ~r.early
                            => a.login # a.name \/ a.login \in {Id(x) : x \in People(I, "tester")}
    BY <2>1, KnownIs
  <2>3. QED
    BY <1>2, <2>2, <2>4, ClashesKept
<1>4. CASE UNCHANGED <<projects, tables, testers, doubled>>
  <2>1. ItemsOnce' /\ ProjectsCounted' /\ BoardsCounted'
    BY <1>2, <1>4 DEF tables, TablesInv, ItemsOnce, ProjectsCounted, BoardsCounted, OfKey
  <2>2. QED
    BY <1>2, <1>3, <1>4, <2>1, AccountsStay DEF tables, TablesInv
<1>5. CASE /\ Clashing(names) = {} /\ projects' = T
           /\ accounts' = accounts \cup {NewAccount(l) : l \in names}
           /\ rows' = [i \in Item \cup Status |-> rows[i] + IF i \in items THEN 1 ELSE 0]
           /\ boards' = WithBoards(T, more)
           /\ testers' = testers \cup People(I, "tester")
           /\ Again(r, again)
  <2>1. doubled' = doubled \cup IF r.early THEN again ELSE {}
    BY <1>5 DEF Again
  <2>2. doubled \subseteq doubled' /\ (r.early => HasBoard \subseteq doubled')
    BY <2>1
  <2>3. AccountsRight'
    <3>1. \A l \in names : \/ \E x : l = Name(x) /\ l \notin {a.name : a \in Known(r).accounts}
                           \/ \E x \in testers' : l = Id(x)
      BY <1>5, MissingUsersAre
    <3> HIDE DEF names
    <3>2. \A x : Name(x) \notin {a.name : a \in Known(r).accounts} => x \notin Renamed \ Hidden
      BY HandsFound, NotRenamed DEF AccessInv, AccessTypes
    <3>3. \A l \in names : \/ \E x : l = Name(x) /\ x \notin Renamed \ Hidden
                           \/ \E x \in testers' : l = Id(x)
      BY <3>1, <3>2
    <3>4. QED
      BY <1>2, <1>5, <3>3, ImportedAccounts
  <2>4. ItemsOnce'
    <3>1. rows \in [Item \cup Status -> Nat] /\ \A i \in Item : rows[i] > 1 => i \in doubled
      BY DEF TablesInv, ItemsOnce
    <3>2. ASSUME NEW i \in Item, rows'[i] > 1 PROVE i \in doubled'
      <4>1. CASE i \in items
        <5>1. Known(r).rows[i] = 0
          BY <4>1, TableAssumption DEF MissingItems
        <5>2. rows'[i] = rows[i] + 1 /\ rows[i] \in Nat
          BY <1>5, <3>1, <4>1
        <5>3. CASE r.early
          BY <2>1, <3>2, <4>1, <5>2, <5>3
        <5>4. CASE ~r.early
          BY <3>2, <5>1, <5>2, <5>4, KnownIs
        <5>5. QED
          BY <1>1, <5>3, <5>4
      <4>2. CASE i \notin items
        BY <1>5, <2>2, <3>1, <3>2, <4>2
      <4>3. QED
        BY <4>1, <4>2
    <3> HIDE DEF items
    <3>3. rows' \in [Item \cup Status -> Nat]
      BY <1>5, <3>1
    <3>4. QED
      BY <3>2, <3>3 DEF ItemsOnce
  <2>5. /\ Enlarged(T, K) /\ P \in SUBSET DOMAIN T /\ T \in Seq(ProjectRow)
    BY <1>1, ConcernedIs DEF Enlarged
  <2>6. ProjectsCounted'
    <3>1. ASSUME NEW k \in K \ doubled' PROVE OfKey(projects, k) = {}
      <4>1. k \notin KeysOf(projects, r.seen)
        BY DEF MissingProjects
      <4>2. k \notin KeysOf(projects, DOMAIN projects \ r.seen)
        <5>1. CASE r.early
          BY <2>1, <3>1, <5>1 DEF Unseen
        <5>2. CASE ~r.early
          BY <1>1, <5>2 DEF KeysOf
        <5>3. QED
          BY <5>1, <5>2
      <4>3. QED
        BY <1>1, <4>1, <4>2, NewOrUnseen
    <3> HIDE DEF K, T
    <3>2. QED
      BY <1>2, <1>5, <2>2, <2>5, <3>1, ProjectsKept
  <2>7. /\ Able(r1) /\ r1.early = r.early
    BY <1>1, AfterCronAble
  <2> HIDE DEF K, T, P, r1
  <2>8. U \subseteq User
    BY <2>5, BoardUsersAre DEF AccessInv, AccessTypes
  <2> HIDE DEF U
  <2>9. b.answer \in Answers
    BY <2>7, <2>8, AnswerIs
  <2> HIDE DEF b
  <2>10. Boarding(T, more)
    BY <1>1, <2>2, <2>5, <2>7, <2>9, BoardsOfIs
  <2> HIDE DEF more
  <2>11. BoardsCounted'
    BY <1>5, <2>2, <2>5, <2>10, BoardsKept
  <2>12. QED
    BY <1>3, <2>3, <2>4, <2>6, <2>11 DEF TablesInv
<1>6. QED
  BY <1>2, <1>4, <1>5

-----------------------------------------------------------------------------
LEMMA TokenStepTables ==
  ASSUME AccessInv, TablesInv, TokenStep
  PROVE  TablesInv'
<1>1. ASSUME NEW u \in User, NEW t \in 1..scene.renewals, NEW p \in Process, Enter(p, u, t),
             UNCHANGED tableVars
      PROVE  TablesInv'
  BY <1>1, TablesStay DEF Enter, tableVars
<1>2. CASE AbortEntered /\ UNCHANGED tableVars
  BY <1>2, TablesStay DEF AbortEntered, tableVars
<1>3. ASSUME NEW u \in User, Renew(u), UNCHANGED tableVars PROVE TablesInv'
  BY <1>3, TablesStay DEF Renew, tableVars
<1>4. ASSUME NEW r \in Requests, NEW P \in SUBSET DOMAIN projects, Fetch(r, P),
             UNCHANGED <<tables, tableHist>>
      PROVE  TablesInv'
  BY <1>4, TablesStay DEF Fetch
<1>5. CASE /\ CommitEntered /\ boards' = Padded(boards, projects')
           /\ doubled' = doubled \cup (KeysOf(projects, DOMAIN projects \ entering[1].seen)
                                         \cap Listed[entering[1].user])
           /\ UNCHANGED <<accounts, rows, dict, testers, unseeing, clashes>>
  BY <1>5, CommitEnteredTables
<1>6. QED
  BY <1>1, <1>2, <1>3, <1>4, <1>5 DEF TokenStep

(* Accounts stay, and so do those a request has in its dict.               *)
LEMMA HandsStep ==
  ASSUME HandsKnown, [TablesNext]_<<accessVars, tableVars>>
  PROVE  HandsKnown'
<1> SUFFICES /\ scene' = scene /\ accounts \subseteq accounts'
             /\ early' # <<>> => \/ early # <<>> /\ dict' = dict
                                \/ dict'.accounts = accounts
  BY DEF HandsKnown, Hand
<1>1. CASE UNCHANGED <<accessVars, tableVars>>
  BY <1>1 DEF accessVars, access, tableVars, tables
<1>2. ASSUME NEW p \in Process, Begin(p)
      PROVE  scene' = scene /\ accounts' = accounts /\ dict'.accounts = accounts
  <2>1. Known(Request(p)).accounts = accounts
    BY KnownIs DEF Request
  <2>2. QED
    BY <1>2, <2>1 DEF Begin, BeginEarly, tables
<1>3. ASSUME NEW r \in Requests, Ended(r), DictAfter(r)
      PROVE  early' # <<>> => early # <<>> /\ dict' = dict
  BY <1>3 DEF Ended, DictAfter
<1>4. CASE TokenStep
  <2>1. CASE \E r \in Requests : Ended(r) /\ DictAfter(r) /\ UNCHANGED <<scene, accounts>>
    BY <1>3, <2>1
  <2>2. CASE UNCHANGED <<scene, accounts, early, dict>>
    BY <2>2
  <2>3. QED
    BY <1>4, <2>1, <2>2
    DEF TokenStep, Fetch, Enter, AbortEntered, Renew, CommitEntered, tableVars, tables
<1>5. ASSUME NEW r \in Requests,
             \/ Boards(r)
             \/ \E u \in User : Projects(r, u) \/ NotServed(r, u)
             \/ \E u \in User, x \in scene.authors : LoadAllUsers(r, u) \/ ImportLogs(r, u, x)
             \/ \E u \in User, I \in (SUBSET scene.issues) \ {{}}, api \in BOOLEAN : Import(r, u, I, api)
      PROVE  Ended(r) /\ DictAfter(r) /\ scene' = scene /\ accounts \subseteq accounts'
  <2>1. ASSUME NEW u, NEW I, NEW api, Import(r, u, I, api)
        PROVE  Ended(r) /\ DictAfter(r) /\ scene' = scene /\ accounts \subseteq accounts'
    <3>1. ImportSteps(r, u, I)
      BY <2>1, ImportIs
    <3>2. QED
      BY <3>1 DEF ImportSteps, tables
  <2>2. CASE Boards(r)
    BY <2>2 DEF Boards, LoadBoards
  <2>3. ASSUME NEW u, Projects(r, u) \/ NotServed(r, u)
        PROVE  Ended(r) /\ DictAfter(r) /\ scene' = scene /\ accounts \subseteq accounts'
    BY <2>3 DEF Projects, LoadProjects, NotServed, tables
  <2>4. ASSUME NEW u, NEW x, LoadAllUsers(r, u) \/ ImportLogs(r, u, x)
        PROVE  Ended(r) /\ DictAfter(r) /\ scene' = scene /\ accounts \subseteq accounts'
    BY <2>4 DEF LoadAllUsers, ImportLogs
  <2>5. QED
    BY <1>5, <2>1, <2>2, <2>3, <2>4
<1>6. QED
  BY <1>1, <1>2, <1>3, <1>4, <1>5 DEF TablesNext

LEMMA TablesStep ==
  ASSUME AccessInv, TablesInv, HandsKnown, [TablesNext]_<<accessVars, tableVars>>
  PROVE  TablesInv'
<1>1. ASSUME NEW p \in Process, Begin(p) PROVE TablesInv'
  BY <1>1, TablesStay DEF Begin, BeginEarly
<1>2. ASSUME NEW r \in Requests, Boards(r) PROVE TablesInv'
  BY <1>2, BoardsTables
<1>3. ASSUME NEW r \in Requests, NEW u \in User, Projects(r, u) PROVE TablesInv'
  BY <1>3, ProjectsTables
<1>4. ASSUME NEW r \in Requests, NEW u \in User, NotServed(r, u) PROVE TablesInv'
  BY <1>4, TablesStay DEF NotServed
<1>5. ASSUME NEW r \in Requests, NEW u \in User, LoadAllUsers(r, u) PROVE TablesInv'
  BY <1>5, LoadAllUsersTables
<1>6. ASSUME NEW r \in Requests, NEW u \in User, NEW x, ImportLogs(r, u, x) PROVE TablesInv'
  BY <1>6, ImportLogsTables
<1>7. ASSUME NEW r \in Requests, NEW u \in User, NEW I \in SUBSET scene.issues, NEW api,
             Import(r, u, I, api)
      PROVE  TablesInv'
  <2>1. scene.issues \subseteq Issue
    BY TableAssumption DEF AccessInv, AccessTypes
  <2>2. QED
    BY <1>7, <2>1, ImportTables
<1>8. CASE UNCHANGED <<accessVars, tableVars>>
  BY <1>8, TablesStay DEF accessVars, access, tableVars
<1>9. QED
  BY <1>1, <1>2, <1>3, <1>4, <1>5, <1>6, <1>7, <1>8, TokenStepTables DEF TablesNext

LEMMA TablesStart == TablesInit => TablesInv
<1> SUFFICES ASSUME TablesInit PROVE TablesInv
  OBVIOUS
<1>1. /\ scene \in Scenes /\ projects = scene.projects /\ projects \in Seq(ProjectRow)
      /\ \A m, n \in DOMAIN projects : projects[m].key = projects[n].key => m = n
  BY Constants DEF TablesInit, AccessInit
<1>2. ItemsOnce
  BY DEF TablesInit, ItemsOnce
<1>3. ProjectsCounted
  <2>1. ASSUME NEW k PROVE Cardinality(OfKey(projects, k)) <= 1
    <3> DEFINE S == OfKey(projects, k)
    <3>1. \A m, n \in S : m = n
      BY <1>1 DEF OfKey
    <3> HIDE DEF S
    <3>2. CASE S = {}
      BY <3>2, FS_EmptySet DEF S
    <3>3. ASSUME NEW n \in S PROVE Cardinality(S) <= 1
      <4>1. S = {n}
        BY <3>1, <3>3
      <4>2. QED
        BY <4>1, FS_Singleton
    <3>4. QED
      BY <3>2, <3>3 DEF S
  <2>2. unseeing = 0
    BY DEF TablesInit
  <2>3. QED
    BY <2>1, <2>2 DEF ProjectsCounted
<1>4. BoardsCounted
  <2>1. boards = [n \in DOMAIN projects |-> 0]
    BY <1>1 DEF TablesInit
  <2>2. \A k : Cardinality(Watchers(k)) \in Nat
    BY WatchersFinite
  <2>3. QED
    BY <2>1, <2>2 DEF BoardsCounted
<1>5. AccountsRight
  <2>1. \A a \in accounts : \E y \in scene.people :
          a = Hand(y) /\ a.login = <<y.person, y.login>> /\ a.name = <<y.person, y.name>>
    BY DEF TablesInit, Hand
  <2>2. /\ \A y \in scene.people : {y.login, y.name} \subseteq {"mail", "own"}
        /\ \A y, z \in scene.people : y.person = z.person => y = z
    BY <1>1, TableAssumption
  <2>3. ASSUME NEW a \in accounts PROVE Proper(a)
    <3>1. PICK y \in scene.people : a = Hand(y) /\ a.login = <<y.person, y.login>>
                                   /\ a.name = <<y.person, y.name>>
      BY <2>1
    <3>2. a.by = "hand" /\ a.login[2] = y.login /\ a.name[2] = y.name
      BY <3>1 DEF Hand
    <3>3. QED
      BY <2>2, <3>1, <3>2 DEF Proper
  <2>4. ASSUME NEW a \in accounts, NEW x \in Person \ (testers \cup Hidden), a.login[1] = x
        PROVE  a.login = LoginOf(x)
    <3>1. PICK y \in scene.people : a.login = <<y.person, y.login>>
      BY <2>1
    <3>2. y.person = x
      BY <2>4, <3>1
    <3>3. x \in Visible
      BY <3>2 DEF Hidden
    <3>4. CASE x \in Renamed
      <4>1. y.login = "own"
        BY <2>2, <3>2, <3>4 DEF Renamed
      <4>2. QED
        BY <3>1, <3>2, <3>4, <4>1 DEF LoginOf
    <3>5. CASE x \notin Renamed
      <4>1. y.login = "mail"
        BY <2>2, <3>2, <3>5 DEF Renamed
      <4>2. QED
        BY <3>1, <3>2, <3>3, <3>5, <4>1 DEF LoginOf, Name, Mail
    <3>6. QED
      BY <3>4, <3>5
  <2>5. \A a, b \in accounts : a.login = b.login => a = b
    BY <2>1, <2>2
  <2>6. QED
    BY <2>3, <2>4, <2>5 DEF AccountsRight, OneLogin
<1>6. ClashesExplained
  BY DEF TablesInit, ClashesExplained
<1>7. QED
  BY <1>2, <1>3, <1>4, <1>5, <1>6 DEF TablesInv

(* The tables are right, with what the caches and the requests that last   *)
(* have read.                                                              *)
THEOREM TablesInvariant == TablesSpec => [](AccessInv /\ TablesInv /\ HandsKnown)
<1>1. TablesInit => AccessInv /\ TablesInv
  BY AccessStart, TablesStart DEF TablesInit
<1>2. TablesInit => HandsKnown
  BY DEF TablesInit, AccessInit, HandsKnown, Hand
<1>3. AccessInv /\ TablesInv /\ HandsKnown /\ [TablesNext]_<<accessVars, tableVars>>
        => (AccessInv /\ TablesInv /\ HandsKnown)'
  BY AccessNext, TablesStep, HandsStep
<1>4. QED
  BY <1>1, <1>2, <1>3, PTL DEF TablesSpec

(* What imports look up has one row, a person has one account, and imports *)
(* fail for a login that exists only for the causes that are named.        *)
THEOREM TablesAlwaysExplained == TablesSpec => []TablesExplained
<1>1. ASSUME AccessInv, TablesInv PROVE TablesExplained
  <2>1. RowsOnce
    BY <1>1 DEF TablesInv, ItemsOnce, ProjectsCounted, BoardsCounted, OfKey, Watchers, RowsOnce
  <2>2. ASSUME NEW x \in Person \ (testers \cup Hidden)
        PROVE  Cardinality({a \in AccountsOf(x) : a.by = "load_all_users" => x \notin Renamed}) <= 1
    <3> DEFINE S == {a \in AccountsOf(x) : a.by = "load_all_users" => x \notin Renamed}
    <3>1. \A a \in S : a \in accounts /\ a.login = LoginOf(x)
      BY <1>1 DEF TablesInv, AccountsRight, OneLogin, AccountsOf
    <3>2. \A a, b \in S : a = b
      BY <1>1, <3>1 DEF TablesInv, AccountsRight
    <3> HIDE DEF S
    <3>3. S = {} => Cardinality(S) <= 1
      BY FS_EmptySet
    <3>4. ASSUME NEW a \in S PROVE Cardinality(S) <= 1
      <4>1. S = {a}
        BY <3>2, <3>4
      <4>2. QED
        BY <4>1, FS_Singleton
    <3>5. Cardinality(S) <= 1
      BY <3>3, <3>4
    <3>6. QED
      BY <3>5, Zenon DEF S
  <2>3. AccountsOnce
    BY <2>2 DEF AccountsOnce
  <2>4. QED
    BY <1>1, <2>1, <2>3 DEF TablesInv, TablesExplained
<1>2. QED
  BY <1>1, TablesInvariant, PTL
=============================================================================
