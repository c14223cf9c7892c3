-------------------------- MODULE EvaluationProofs --------------------------
(***************************************************************************)
(* The offline evaluation, for every set of jobs, repositories and files:  *)
(* the replay batches that draft merged pull requests (jobs/replay.py),    *)
(* the recall table over a corpus (jobs/embed.py, jobs/recall.py), and the *)
(* query set it is measured on (jobs/pairs.py, eval/pairs.py).             *)
(***************************************************************************)
EXTENDS Replay, RecallTable, QuerySet, CountingLemmas, FunctionTheorems,
        FiniteSetTheorems, SequenceTheorems, TLAPS

-----------------------------------------------------------------------------
(* Replay batches: each pull request is drafted once for a batch, and none *)
(* that was chosen is forgotten behind a job that is alive, however many   *)
(* jobs die or find the providers spent.                                   *)
Holding == {"review", "finish", "release"}

Open(k) == [job |-> k, finished |-> FALSE]

(* The concurrency group: one job at a time of those named alike.          *)
OneAtATime ==
  \A j, k \in Jobs :
    Running(j) /\ Running(k) /\ batch[j] = batch[k] /\ via[j] = via[k] => j = k

(* A job that runs is on a pull request of its list.  From the claim on it *)
(* owns that pull request's row, which has no result yet.                  *)
JobsOwnTheirRow ==
  /\ pos \in [Jobs -> Nat \ {0}]
  /\ \A j \in Jobs :
       /\ jobAt[j] = "idle" => pos[j] = 1
       /\ jobAt[j] # "idle" => batch[j] \in BatchNames
       /\ Running(j) => pos[j] <= Len(chosen[j])
       /\ jobAt[j] \in Holding => RowOf(j) = Open(j)

(* A row without a result is that of a job which died, or of the job that  *)
(* is on that pull request now.                                            *)
RowsAreHeld ==
  \A b \in BatchNames : \A p \in Pulls : \A k \in Jobs :
    reviewRuns[b][p] = Open(k) =>
      \/ jobAt[k] = "dead"
      \/ jobAt[k] \in Holding /\ batch[k] = b /\ Pull(k) = p

(* What was drafted has a row, so nobody can claim it again: with its      *)
(* result, or that of the job which is about to write the result, or was.  *)
DraftedIsHeld ==
  \A b \in BatchNames : \A p \in Pulls :
    /\ reviews[b][p] <= 1
    /\ reviews[b][p] = 1 =>
         LET row == reviewRuns[b][p]
         IN  row # Free /\ (row.finished \/ jobAt[row.job] \in {"finish", "dead"})

(* A pull request a job has behind it is settled, or a job of the other    *)
(* group is on it or gave it up.                                           *)
LeftTo(j, p) ==
  \E k \in Jobs : /\ batch[k] = batch[j] /\ via[k] # via[j]
                  /\ jobAt[k] \in Holding \cup {"stopped"} /\ Pull(k) = p

Behind(j) ==
  {i \in 1 .. Len(chosen[j]) : jobAt[j] = "done" \/ (Running(j) /\ i < pos[j])}

BehindIsDrafted ==
  \A j \in Jobs : \A i \in Behind(j) :
    IsSettled(reviewRuns[batch[j]][chosen[j][i]]) \/ LeftTo(j, chosen[j][i])

ReplayInv ==
  /\ ReplayTypeOK /\ OneAtATime /\ JobsOwnTheirRow /\ RowsAreHeld
  /\ DraftedIsHeld /\ BehindIsDrafted

-----------------------------------------------------------------------------
(***************************************************************************)
(* The order of choose() is total, so every place in it is somebody's.     *)
(***************************************************************************)
Standing(b, open, p) == Cardinality({q \in open : Ahead(b, open, q, p)})

LEMMA SeedIsABatch == ASSUME NEW b \in BatchNames PROVE Seed(b) \in BatchNames
BY ReplayAssumption DEF Seed

LEMMA TurnsCount ==
  ASSUME NEW b \in BatchNames, NEW open \in SUBSET Pulls, NEW p \in open
  PROVE  /\ Turn(b, open, p) \in Nat
         /\ Shuffle[b][p] \in Nat /\ Shuffle[b][RepoOf[p]] \in Nat
<1>1. IsFiniteSet({q \in open : RepoOf[q] = RepoOf[p] /\ Shuffle[b][q] < Shuffle[b][p]})
  BY FS_Subset, ReplayAssumption
<1>2. RepoOf[p] \in Repos  BY DEF Repos
<1> QED  BY <1>1, <1>2, FS_CardinalityType, ReplayAssumption DEF Turn

(* In one repository the turns follow the shuffle.                         *)
LEMMA TurnsFollow ==
  ASSUME NEW b \in BatchNames, NEW open \in SUBSET Pulls, NEW p \in open, NEW q \in open,
         RepoOf[p] = RepoOf[q], Shuffle[b][p] < Shuffle[b][q]
  PROVE  Turn(b, open, p) < Turn(b, open, q)
<1> DEFINE Earlier(x) == {y \in open : RepoOf[y] = RepoOf[x] /\ Shuffle[b][y] < Shuffle[b][x]}
<1>1. \A x \in open : Shuffle[b][x] \in Nat  BY TurnsCount
<1>2. /\ Earlier(p) \subseteq Earlier(q)
      /\ p \in Earlier(q) /\ p \notin Earlier(p)
  BY <1>1
<1>3. IsFiniteSet(Earlier(q))  BY FS_Subset, ReplayAssumption
<1>4. Turn(b, open, p) = Cardinality(Earlier(p)) /\ Turn(b, open, q) = Cardinality(Earlier(q))
  BY DEF Turn
<1>5. Turn(b, open, p) \in Nat /\ Turn(b, open, q) \in Nat
  BY TurnsCount
<1> HIDE DEF Earlier
<1>6. /\ Cardinality(Earlier(p)) <= Cardinality(Earlier(q))
      /\ Cardinality(Earlier(p)) = Cardinality(Earlier(q)) => Earlier(p) = Earlier(q)
  BY <1>2, <1>3, FS_Subset
<1> QED  BY <1>2, <1>4, <1>5, <1>6

LEMMA AheadIsAnOrder ==
  ASSUME NEW b \in BatchNames, NEW open \in SUBSET Pulls
  PROVE  /\ \A p \in open : ~Ahead(b, open, p, p)
         /\ \A p, q, r \in open : Ahead(b, open, p, q) /\ Ahead(b, open, q, r) => Ahead(b, open, p, r)
         /\ \A p, q \in open : p # q => Ahead(b, open, p, q) \/ Ahead(b, open, q, p)
<1>1. \A p \in open : Turn(b, open, p) \in Nat /\ Shuffle[b][RepoOf[p]] \in Nat
  BY TurnsCount
<1>2. ASSUME NEW p \in open, NEW q \in open, p # q
      PROVE  Ahead(b, open, p, q) \/ Ahead(b, open, q, p)
  <2>1. CASE RepoOf[p] = RepoOf[q]
    <3>1. Shuffle[b][p] \in Nat /\ Shuffle[b][q] \in Nat  BY TurnsCount
    <3>2. Shuffle[b][p] # Shuffle[b][q]  BY <1>2, ReplayAssumption
    <3>3. CASE Shuffle[b][p] < Shuffle[b][q]
      BY <2>1, <3>3, TurnsFollow DEF Ahead
    <3>4. CASE Shuffle[b][q] < Shuffle[b][p]
      BY <2>1, <3>4, TurnsFollow DEF Ahead
    <3> QED  BY <3>1, <3>2, <3>3, <3>4
  <2>2. CASE RepoOf[p] # RepoOf[q]
    <3>1. RepoOf[p] \in Repos /\ RepoOf[q] \in Repos  BY DEF Repos
    <3>2. Shuffle[b][RepoOf[p]] # Shuffle[b][RepoOf[q]]  BY <2>2, <3>1, ReplayAssumption
    <3> QED  BY <1>1, <3>2 DEF Ahead
  <2> QED  BY <2>1, <2>2
<1> QED  BY <1>1, <1>2 DEF Ahead

(* The open ones of a repository.                                          *)
OpenOf(open, r) == {p \in open : RepoOf[p] = r}

(* In one repository the turns are 0, 1, 2, ...                            *)
LEMMA TurnsNumber ==
  ASSUME NEW b \in BatchNames, NEW open \in SUBSET Pulls, NEW r
  PROVE  /\ \A p \in OpenOf(open, r) : Turn(b, open, p) \in 0 .. Cardinality(OpenOf(open, r)) - 1
         /\ \A t \in 0 .. Cardinality(OpenOf(open, r)) - 1 :
              \E p \in OpenOf(open, r) : Turn(b, open, p) = t
         /\ \A p, q \in OpenOf(open, r) : Turn(b, open, p) = Turn(b, open, q) => p = q
<1>. DEFINE mine == OpenOf(open, r)
            R == {p \in Pulls \X Pulls : Shuffle[b][p[1]] < Shuffle[b][p[2]]}
<1>1. IsFiniteSet(mine)
  BY FS_Subset, ReplayAssumption DEF OpenOf
<1>2. \A p \in mine : Shuffle[b][p] \in Nat
  BY ReplayAssumption DEF OpenOf
<1>3. Orders(R, mine)
  <2>1. \A p, q \in mine : p = q \/ Shuffle[b][p] # Shuffle[b][q]
    BY ReplayAssumption DEF OpenOf
  <2>2. \A p, q \in mine : <<p, q>> \in R <=> Shuffle[b][p] < Shuffle[b][q]
    BY DEF OpenOf
  <2> HIDE DEF R
  <2> QED  BY <1>2, <2>1, <2>2 DEF Orders
<1>4. RankIn(R, mine) \in Bijection(mine, 0 .. Cardinality(mine) - 1)
  <2> HIDE DEF R, mine
  <2> QED  BY <1>1, <1>3, RanksNumber
<1>5. \A p \in mine : RankIn(R, mine)[p] = Turn(b, open, p)
  <2>1. SUFFICES ASSUME NEW p \in mine
                 PROVE  RankIn(R, mine)[p] = Turn(b, open, p)
    OBVIOUS
  <2>2. Below(R, mine, p) = {q \in open : RepoOf[q] = RepoOf[p] /\ Shuffle[b][q] < Shuffle[b][p]}
    BY DEF Below, OpenOf
  <2> QED  BY <2>2 DEF RankIn, Turn
<1>6. PICK f \in Bijection(mine, 0 .. Cardinality(mine) - 1) : f = RankIn(R, mine)
  BY <1>4
<1>7. \A p \in mine : f[p] = Turn(b, open, p)
  BY <1>5, <1>6
<1>8. /\ f \in [mine -> 0 .. Cardinality(mine) - 1]
      /\ \A p, q \in mine : f[p] = f[q] => p = q
      /\ \A t \in 0 .. Cardinality(mine) - 1 : \E p \in mine : f[p] = t
  <2> HIDE DEF mine, R
  <2> QED  BY <1>6 DEF Bijection, Injection, Surjection, IsInjective
<1> HIDE DEF R, mine
<1>9. /\ \A p \in mine : Turn(b, open, p) \in 0 .. Cardinality(mine) - 1
      /\ \A t \in 0 .. Cardinality(mine) - 1 : \E p \in mine : Turn(b, open, p) = t
      /\ \A p, q \in mine : Turn(b, open, p) = Turn(b, open, q) => p = q
  BY <1>7, <1>8
<1> QED  BY <1>9 DEF mine

(* With fewer pull requests open nothing is further behind: whoever is     *)
(* ahead of it now stands for the one of that repository who had that turn.*)
LEMMA FewerAhead ==
  ASSUME NEW b \in BatchNames, NEW open \in SUBSET Pulls, NEW few \in SUBSET open, NEW p \in few
  PROVE  Standing(b, few, p) <= Standing(b, open, p)
<1>. DEFINE A == {q \in few : Ahead(b, few, q, p)}
            B == {q \in open : Ahead(b, open, q, p)}
            Like(q) == CHOOSE x \in open : RepoOf[x] = RepoOf[q] /\ Turn(b, open, x) = Turn(b, few, q)
            f == [q \in A |-> Like(q)]
<1>1. IsFiniteSet(open) /\ IsFiniteSet(B)
  <2>1. IsFiniteSet(open)
    BY FS_Subset, ReplayAssumption
  <2> QED  BY <2>1, FS_Subset
<1>2. \A q \in few : Turn(b, few, q) \in Nat /\ Turn(b, open, q) \in Nat /\ Shuffle[b][RepoOf[q]] \in Nat
  BY TurnsCount
<1>3. \A q \in few : Turn(b, few, q) <= Turn(b, open, q)
  <2>1. SUFFICES ASSUME NEW q \in few
                 PROVE  Turn(b, few, q) <= Turn(b, open, q)
    OBVIOUS
  <2>. DEFINE S == {x \in few : RepoOf[x] = RepoOf[q] /\ Shuffle[b][x] < Shuffle[b][q]}
              T == {x \in open : RepoOf[x] = RepoOf[q] /\ Shuffle[b][x] < Shuffle[b][q]}
  <2>2. S \in SUBSET T /\ IsFiniteSet(T)
    <3>1. IsFiniteSet(T)
      BY <1>1, FS_Subset
    <3> QED  BY <3>1
  <2>3. Cardinality(S) <= Cardinality(T)
    <3> HIDE DEF S, T
    <3> QED  BY <2>2, FS_Subset
  <2> QED  BY <2>3 DEF Turn
<1>4. \A q \in few : \E x \in open : RepoOf[x] = RepoOf[q] /\ Turn(b, open, x) = Turn(b, few, q)
  <2>1. SUFFICES ASSUME NEW q \in few
                 PROVE  \E x \in open : RepoOf[x] = RepoOf[q] /\ Turn(b, open, x) = Turn(b, few, q)
    OBVIOUS
  <2>. DEFINE r == RepoOf[q]
              mine == OpenOf(open, r)
  <2>2. /\ \A x \in mine : Turn(b, open, x) \in 0 .. Cardinality(mine) - 1
        /\ \A t \in 0 .. Cardinality(mine) - 1 : \E x \in mine : Turn(b, open, x) = t
    <3> HIDE DEF r
    <3> QED  BY TurnsNumber
  <2>3. q \in mine
    BY DEF OpenOf
  <2>4. Cardinality(mine) \in Nat
    <3>1. IsFiniteSet(mine)
      BY <1>1, FS_Subset DEF OpenOf
    <3> QED  BY <3>1, FS_CardinalityType
  <2>5. Turn(b, open, q) \in 0 .. Cardinality(mine) - 1
    BY <2>2, <2>3
  <2>6. Turn(b, few, q) \in 0 .. Cardinality(mine) - 1
    <3> HIDE DEF mine
    <3> QED  BY <1>2, <1>3, <2>4, <2>5
  <2> QED  BY <2>2, <2>6 DEF OpenOf
<1>5. \A q \in few : /\ Like(q) \in open /\ RepoOf[Like(q)] = RepoOf[q]
                     /\ Turn(b, open, Like(q)) = Turn(b, few, q)
  BY <1>4
<1> HIDE DEF Like
<1>6. ASSUME NEW q \in A
      PROVE  Like(q) \in B
  <2>1. q \in few /\ Ahead(b, few, q, p)
    OBVIOUS
  <2>2. /\ Turn(b, open, Like(q)) <= Turn(b, open, p)
        /\ Turn(b, open, Like(q)) = Turn(b, open, p) =>
             Shuffle[b][RepoOf[Like(q)]] < Shuffle[b][RepoOf[p]]
    BY <1>2, <1>3, <1>5, <2>1 DEF Ahead
  <2>3. Turn(b, open, Like(q)) \in Nat /\ Turn(b, open, p) \in Nat
    BY <1>2, <1>5, <2>1
  <2>4. Ahead(b, open, Like(q), p)
    BY <2>2, <2>3 DEF Ahead
  <2> QED  BY <1>5, <2>1, <2>4
<1>7. ASSUME NEW q \in A, NEW x \in A, Like(q) = Like(x)
      PROVE  q = x
  <2>1. q \in few /\ x \in few /\ RepoOf[q] = RepoOf[x] /\ Turn(b, few, q) = Turn(b, few, x)
    BY <1>5, <1>7
  <2>2. \A y, z \in OpenOf(few, RepoOf[q]) : Turn(b, few, y) = Turn(b, few, z) => y = z
    BY TurnsNumber
  <2> QED  BY <2>1, <2>2 DEF OpenOf
<1>8. f \in Injection(A, B)
  <2>1. f \in [A -> B]
    BY <1>6
  <2>2. \A q, x \in A : f[q] = f[x] => q = x
    BY <1>7
  <2> HIDE DEF A, B, f
  <2> QED  BY <2>1, <2>2, Fun_IsInj
<1>9. Cardinality(A) <= Cardinality(B)
  <2> HIDE DEF A, B, f
  <2> QED  BY <1>1, <1>8, FS_Injection
<1> QED  BY <1>9 DEF Standing

(* The places in the order are 0, 1, 2, ...                                *)
LEMMA StandingsNumber ==
  ASSUME NEW b \in BatchNames, NEW open \in SUBSET Pulls
  PROVE  /\ IsFiniteSet(open) /\ Cardinality(open) \in Nat
         /\ \A p \in open : Standing(b, open, p) \in 0 .. Cardinality(open) - 1
         /\ \A t \in 0 .. Cardinality(open) - 1 : \E p \in open : Standing(b, open, p) = t
         /\ \A p, q \in open : Standing(b, open, p) = Standing(b, open, q) => p = q
<1>. DEFINE R == {q \in open \X open : Ahead(b, open, q[1], q[2])}
<1>1. IsFiniteSet(open) /\ Cardinality(open) \in Nat
  BY FS_Subset, FS_CardinalityType, ReplayAssumption
<1>2. Orders(R, open)
  BY AheadIsAnOrder DEF Orders
<1>3. \A p \in open : RankIn(R, open)[p] = Standing(b, open, p)
  <2>1. SUFFICES ASSUME NEW p \in open
                 PROVE  RankIn(R, open)[p] = Standing(b, open, p)
    OBVIOUS
  <2>2. Below(R, open, p) = {q \in open : Ahead(b, open, q, p)}
    BY DEF Below
  <2> QED  BY <2>2 DEF RankIn, Standing
<1> HIDE DEF R
<1>4. PICK f \in Bijection(open, 0 .. Cardinality(open) - 1) : f = RankIn(R, open)
  BY <1>1, <1>2, RanksNumber
<1>5. \A p \in open : f[p] = Standing(b, open, p)
  BY <1>3, <1>4
<1>6. /\ f \in [open -> 0 .. Cardinality(open) - 1]
      /\ \A p, q \in open : f[p] = f[q] => p = q
      /\ \A t \in 0 .. Cardinality(open) - 1 : \E p \in open : f[p] = t
  BY <1>4 DEF Bijection, Injection, Surjection, IsInjective
<1> QED  BY <1>1, <1>5, <1>6

(* choose() returns the pull requests with fewer than Count ahead of them. *)
LEMMA ChosenAre ==
  ASSUME NEW b \in BatchNames, NEW exclude, NEW p \in Pulls
  PROVE  InList(Choose(b, exclude), p)
           <=> p \notin exclude /\ Standing(b, Pulls \ exclude, p) < Count
<1>. DEFINE open == Pulls \ exclude
            c == Cardinality(open)
            n == IF c < Count THEN c ELSE Count
            Nth(i) == CHOOSE q \in open : Standing(b, open, q) = i - 1
<1>1. Choose(b, exclude) = [i \in 1 .. n |-> Nth(i)]
  BY DEF Choose, FirstOf, Standing
<1>2. /\ c \in Nat
      /\ \A q \in open : Standing(b, open, q) \in 0 .. c - 1
      /\ \A t \in 0 .. c - 1 : \E q \in open : Standing(b, open, q) = t
      /\ \A q, r \in open : Standing(b, open, q) = Standing(b, open, r) => q = r
  BY StandingsNumber
<1>3. n \in Nat /\ n <= c /\ n <= Count /\ (n = c \/ n = Count)
  BY <1>2, ReplayAssumption
<1>4. \A i \in 1 .. n : Nth(i) \in open /\ Standing(b, open, Nth(i)) = i - 1
  <2>1. SUFFICES ASSUME NEW i \in 1 .. n
                 PROVE  Nth(i) \in open /\ Standing(b, open, Nth(i)) = i - 1
    OBVIOUS
  <2>2. i - 1 \in 0 .. c - 1
    <3> HIDE DEF n, c, open
    <3> QED  BY <1>2, <1>3
  <2>3. \E q \in open : Standing(b, open, q) = i - 1
    <3> HIDE DEF c
    <3> QED  BY <1>2, <2>2
  <2> QED  BY <2>3
<1> HIDE DEF Nth, open, n
<1>5. Len(Choose(b, exclude)) = n /\ \A i \in 1 .. n : Choose(b, exclude)[i] = Nth(i)
  BY <1>1, <1>3
<1>6. ASSUME InList(Choose(b, exclude), p)
      PROVE  p \in open /\ Standing(b, open, p) < Count
  BY <1>3, <1>4, <1>5, <1>6, ReplayAssumption DEF InList
<1>7. ASSUME p \in open, Standing(b, open, p) < Count
      PROVE  InList(Choose(b, exclude), p)
  <2>1. Standing(b, open, p) + 1 \in 1 .. n
    BY <1>2, <1>3, <1>7, ReplayAssumption
  <2>2. PICK i \in 1 .. n : i - 1 = Standing(b, open, p)
    BY <1>2, <1>7, <2>1
  <2>3. Nth(i) = p
    BY <1>2, <1>4, <1>7, <2>2
  <2> QED  BY <1>5, <2>3 DEF InList
<1> QED  BY <1>6, <1>7 DEF open

(* As many pull requests of one repository cannot all have early turns.    *)
LEMMA SomeLateTurn ==
  ASSUME NEW b \in BatchNames, NEW open \in SUBSET Pulls, NEW r,
         NEW S \in SUBSET OpenOf(open, r), NEW n \in Nat, n < Cardinality(S)
  PROVE  \E p \in S : Turn(b, open, p) >= n
<1>1. SUFFICES ASSUME \A p \in S : ~(Turn(b, open, p) >= n)
               PROVE  FALSE
  OBVIOUS
<1>2. IsFiniteSet(S) /\ S \subseteq open
  BY FS_Subset, ReplayAssumption DEF OpenOf
<1>3. \A p \in S : Turn(b, open, p) \in 0 .. n - 1
  BY <1>1, <1>2, TurnsCount
<1>4. IsFiniteSet(0 .. n - 1) /\ Cardinality(0 .. n - 1) = n
  BY FS_Interval
<1>5. PICK f \in [S -> 0 .. n - 1] : \A p \in S : f[p] = Turn(b, open, p)
  <2>. DEFINE g == [p \in S |-> Turn(b, open, p)]
  <2>1. g \in [S -> 0 .. n - 1] /\ \A p \in S : g[p] = Turn(b, open, p)
    BY <1>3
  <2> HIDE DEF g
  <2> QED  BY <2>1
<1>6. \E p, q \in S : p # q /\ f[p] = f[q]
  BY <1>2, <1>4, FS_PigeonHole
<1>7. \A p, q \in OpenOf(open, r) : Turn(b, open, p) = Turn(b, open, q) => p = q
  BY TurnsNumber
<1> QED  BY <1>5, <1>6, <1>7

(* When not all of a repository are in a set, one outside it has a turn no *)
(* later than the size of the set.                                         *)
LEMMA SomeEarlyTurn ==
  ASSUME NEW b \in BatchNames, NEW open \in SUBSET Pulls, NEW r,
         NEW S \in SUBSET OpenOf(open, r), S # OpenOf(open, r)
  PROVE  \E q \in OpenOf(open, r) \ S : Turn(b, open, q) <= Cardinality(S)
<1>. DEFINE mine == OpenOf(open, r)
            m == Cardinality(S)
            At(t) == CHOOSE p \in mine : Turn(b, open, p) = t
<1>1. SUFFICES ASSUME \A q \in mine \ S : ~(Turn(b, open, q) <= m)
               PROVE  FALSE
  OBVIOUS
<1>2. IsFiniteSet(mine) /\ mine \subseteq open
  BY FS_Subset, ReplayAssumption DEF OpenOf
<1>3. /\ IsFiniteSet(S) /\ m \in Nat /\ Cardinality(mine) \in Nat
      /\ m <= Cardinality(mine) /\ m # Cardinality(mine)
  <2> HIDE DEF mine
  <2>1. S \in SUBSET mine /\ S # mine
    BY DEF mine
  <2> QED  BY <1>2, <2>1, FS_Subset, FS_CardinalityType
<1>4. \A t \in 0 .. Cardinality(mine) - 1 : \E p \in mine : Turn(b, open, p) = t
  BY TurnsNumber
<1>5. \A t \in 0 .. m : At(t) \in S /\ Turn(b, open, At(t)) = t
  <2>1. SUFFICES ASSUME NEW t \in 0 .. m
                 PROVE  At(t) \in S /\ Turn(b, open, At(t)) = t
    OBVIOUS
  <2>2. t \in 0 .. Cardinality(mine) - 1 /\ t <= m
    <3> HIDE DEF mine, m
    <3> QED  BY <1>3
  <2>3. At(t) \in mine /\ Turn(b, open, At(t)) = t
    BY <1>4, <2>2
  <2> QED  BY <1>1, <2>2, <2>3
<1>6. IsFiniteSet(0 .. m) /\ Cardinality(0 .. m) = m + 1
  BY <1>3, FS_Interval
<1>7. PICK f \in [0 .. m -> S] : \A t \in 0 .. m : f[t] = At(t)
  <2>. DEFINE g == [t \in 0 .. m |-> At(t)]
  <2>1. g \in [0 .. m -> S] /\ \A t \in 0 .. m : g[t] = At(t)
    BY <1>5
  <2> HIDE DEF g
  <2> QED  BY <2>1
<1>8. Cardinality(S) < Cardinality(0 .. m)
  BY <1>3, <1>6
<1> HIDE DEF At, m
<1>9. \E t, u \in 0 .. m : t # u /\ f[t] = f[u]
  BY <1>3, <1>6, <1>8, FS_PigeonHole
<1> QED  BY <1>5, <1>7, <1>9

LEMMA StandingGrows ==
  ASSUME NEW b \in BatchNames, NEW open \in SUBSET Pulls, NEW p \in open, NEW q \in open,
         Ahead(b, open, p, q)
  PROVE  Standing(b, open, p) <= Standing(b, open, q)
<1>. DEFINE A == {x \in open : Ahead(b, open, x, p)}
            B == {x \in open : Ahead(b, open, x, q)}
<1>1. A \subseteq B
  BY AheadIsAnOrder
<1>2. IsFiniteSet(B)
  BY FS_Subset, ReplayAssumption
<1>3. Cardinality(A) <= Cardinality(B)
  <2> HIDE DEF A, B
  <2> QED  BY <1>1, <1>2, FS_Subset
<1> QED  BY <1>3 DEF Standing

(* choose() goes round the repositories.                                   *)
LEMMA ChoiceSpreads ==
  ASSUME NEW b \in BatchNames, NEW exclude
  PROVE  IsSpread(Choose(b, exclude), exclude)
<1>. DEFINE list == Choose(b, exclude)
            open == Pulls \ exclude
<1>1. \A p \in Pulls : InList(list, p) <=> p \in open /\ Standing(b, open, p) < Count
  BY ChosenAre
<1> HIDE DEF list
<1>2. \A x : /\ Given(exclude, x) = OpenOf(open, x) /\ Taken(list, x) \subseteq OpenOf(open, x)
             /\ Taken(list, x) = {p \in OpenOf(open, x) : Standing(b, open, p) < Count}
  BY <1>1 DEF Given, OpenOf, Taken
<1> HIDE DEF open
<1>3. open \in SUBSET Pulls
  BY DEF open
<1>4. SUFFICES ASSUME NEW r \in Repos, NEW s \in Repos,
                      Cardinality(Taken(list, r)) > Cardinality(Taken(list, s)) + 1,
                      Taken(list, s) # OpenOf(open, s)
               PROVE  FALSE
  BY <1>2 DEF IsSpread, list
<1>5. \A x : IsFiniteSet(Taken(list, x)) /\ Cardinality(Taken(list, x)) \in Nat
  <2>1. SUFFICES ASSUME NEW x
                 PROVE  IsFiniteSet(Taken(list, x)) /\ Cardinality(Taken(list, x)) \in Nat
    OBVIOUS
  <2>2. Taken(list, x) \subseteq Pulls
    BY DEF Taken
  <2> QED  BY <2>2, FS_Subset, FS_CardinalityType, ReplayAssumption
<1>6. PICK m \in Nat : m = Cardinality(Taken(list, s))
  BY <1>5
<1>7. PICK p \in Taken(list, r) : Turn(b, open, p) >= m + 1
  <2>1. m + 1 \in Nat /\ m + 1 < Cardinality(Taken(list, r))
    BY <1>4, <1>5, <1>6
  <2> QED  BY <1>2, <1>3, <2>1, SomeLateTurn
<1>8. PICK q \in OpenOf(open, s) \ Taken(list, s) : Turn(b, open, q) <= m
  BY <1>2, <1>3, <1>4, <1>6, SomeEarlyTurn
<1>9. p \in open /\ q \in open
  BY <1>2, <1>7, <1>8 DEF OpenOf
<1>10. Turn(b, open, p) \in Nat /\ Turn(b, open, q) \in Nat
  BY <1>3, <1>9, TurnsCount
<1>11. Ahead(b, open, q, p)
  BY <1>7, <1>8, <1>10 DEF Ahead
<1>12. Standing(b, open, q) <= Standing(b, open, p)
  BY <1>3, <1>9, <1>11, StandingGrows
<1>13. Standing(b, open, q) \in Nat /\ Standing(b, open, p) \in Nat /\ Standing(b, open, p) < Count
  <2>1. /\ Cardinality(open) \in Nat
        /\ \A x \in open : Standing(b, open, x) \in 0 .. Cardinality(open) - 1
    BY <1>3, StandingsNumber
  <2> QED  BY <1>2, <1>7, <1>9, <2>1
<1>14. Standing(b, open, q) < Count
  BY <1>12, <1>13, ReplayAssumption
<1> QED  BY <1>2, <1>8, <1>14

(* choose() returns pull requests.                                         *)
LEMMA ChosenArePulls ==
  ASSUME NEW b \in BatchNames, NEW exclude
  PROVE  Choose(b, exclude) \in Seq(Pulls)
<1> DEFINE open == Pulls \ exclude
           n == IF Cardinality(open) < Count THEN Cardinality(open) ELSE Count
           Nth(i) == CHOOSE p \in open : Cardinality({q \in open : Ahead(b, open, q, p)}) = i - 1
<1>1. Choose(b, exclude) = [i \in 1 .. n |-> Nth(i)]
  BY DEF Choose, FirstOf
<1>2. Cardinality(open) \in Nat
  BY FS_Subset, FS_CardinalityType, ReplayAssumption
<1>3. n \in Nat /\ n <= Cardinality(open)  BY <1>2, ReplayAssumption
<1>4. \A i \in 1 .. n : Nth(i) \in Pulls
  <2> SUFFICES ASSUME NEW i \in 1 .. n  PROVE Nth(i) \in open
    OBVIOUS
  <2>1. \E p \in open : Standing(b, open, p) = i - 1
    BY <1>2, <1>3, StandingsNumber
  <2> QED  BY <2>1 DEF Standing
<1> HIDE DEF n, Nth
<1> QED  BY <1>1, <1>3, <1>4

-----------------------------------------------------------------------------
LEMMA RowsAndJobs ==
  /\ Free \notin RunRow
  /\ \A j \in Jobs : Open(j) \in RunRow
  /\ \A row \in RunRow : row.job \in Jobs /\ (row.finished \/ row = Open(row.job))
  /\ \A j \in Jobs : \A k \in Jobs : Open(j) = Open(k) => j = k
<1>1. Free \notin RunRow  BY ReplayAssumption DEF Free, RunRow
<1>2. \A j \in Jobs : Open(j) \in RunRow /\ Open(j).job = j
  BY DEF Open, RunRow
<1>3. ASSUME NEW row \in RunRow  PROVE row.job \in Jobs /\ (row.finished \/ row = Open(row.job))
  BY DEF Open, RunRow
<1> QED  BY <1>1, <1>2, <1>3

LEMMA ReplayInvInit == ASSUME ReplayInit PROVE ReplayInv
<1> USE DEF ReplayInit
<1>1. ReplayTypeOK
  <2>1. chosen \in [Jobs -> Seq(Pulls)] /\ \A j \in Jobs : pos[j] \in 1 .. Len(chosen[j]) + 1
    OBVIOUS
  <2> QED  BY <2>1, ReplayAssumption DEF ReplayTypeOK, PC
<1>2. OneAtATime /\ JobsOwnTheirRow
  BY DEF OneAtATime, JobsOwnTheirRow, Running, Holding
<1>3. RowsAreHeld /\ DraftedIsHeld
  BY RowsAndJobs DEF RowsAreHeld, DraftedIsHeld
<1>4. BehindIsDrafted
  BY DEF BehindIsDrafted, Behind, Running
<1> QED  BY <1>1, <1>2, <1>3, <1>4 DEF ReplayInv

(* The group lets a job start when no other that was named alike runs.     *)
LEMMA Starts ==
  ASSUME ReplayInv, NEW j \in Jobs, NEW b \in BatchNames, NEW group \in Groups, Start(j, b, group)
  PROVE  ReplayInv'
<1> USE DEF ReplayInv
<1> DEFINE list == Choose(Seed(b), ReplayedElsewhere(b))
           to == IF list = <<>> THEN "done" ELSE "claim"
<1>1. /\ jobAt[j] = "idle"
      /\ ~ \E k \in Jobs : batch[k] = b /\ via[k] = group /\ Running(k)
      /\ batch' = [batch EXCEPT ![j] = b] /\ via' = [via EXCEPT ![j] = group]
      /\ chosen' = [chosen EXCEPT ![j] = list]
      /\ UNCHANGED <<reviewRuns, pos, reviews, deaths, spent>>
  BY DEF Start
<1>2. list \in Seq(Pulls)  BY SeedIsABatch, ChosenArePulls
<1> HIDE DEF list
<1>3. jobAt' = [jobAt EXCEPT ![j] = to]
  BY <1>1 DEF Start, Goto, ReplayTypeOK, list
<1>4. /\ jobAt'[j] = to /\ batch'[j] = b /\ via'[j] = group /\ chosen'[j] = list
      /\ \A k \in Jobs : k # j => /\ jobAt'[k] = jobAt[k] /\ batch'[k] = batch[k]
                                 /\ via'[k] = via[k] /\ chosen'[k] = chosen[k]
      /\ jobAt' \in [Jobs -> PC]
  BY <1>1, <1>2, <1>3 DEF ReplayTypeOK, PC
<1>5. pos[j] = 1  BY <1>1 DEF JobsOwnTheirRow
<1>6. Len(list) \in Nat /\ (to = "claim" => 1 <= Len(list)) /\ (to = "done" => Len(list) = 0)
  BY <1>2
<1> HIDE DEF to
<1>7. to \in {"done", "claim"}  BY DEF to
<1>8. ReplayTypeOK'
  <2>1. /\ batch' \in [Jobs -> BatchNames \cup {"none"}] /\ chosen' \in [Jobs -> Seq(Pulls)]
        /\ via' \in [Jobs -> Groups \cup {"none"}]
    BY <1>1, <1>2 DEF ReplayTypeOK
  <2>2. \A k \in Jobs : pos'[k] \in 1 .. Len(chosen'[k]) + 1
    BY <1>1, <1>4, <1>5, <1>6 DEF ReplayTypeOK
  <2> QED  BY <1>1, <1>4, <2>1, <2>2 DEF ReplayTypeOK
<1>9. OneAtATime'
  <2> SUFFICES ASSUME NEW k \in Jobs, NEW l \in Jobs,
                      Running(k)', Running(l)', batch'[k] = batch'[l], via'[k] = via'[l]
               PROVE  k = l
    BY DEF OneAtATime
  <2> QED  BY <1>1, <1>4 DEF OneAtATime, Running
<1>10. JobsOwnTheirRow'
  <2> SUFFICES ASSUME NEW k \in Jobs
               PROVE  /\ jobAt'[k] = "idle" => pos'[k] = 1
                      /\ jobAt'[k] # "idle" => batch'[k] \in BatchNames
                      /\ Running(k)' => pos'[k] <= Len(chosen'[k])
                      /\ jobAt'[k] \in Holding => RowOf(k)' = Open(k)
    BY <1>1 DEF JobsOwnTheirRow
  <2>1. CASE k = j  BY <2>1, <1>1, <1>4, <1>5, <1>6, <1>7 DEF Running, Holding
  <2>2. CASE k # j  BY <2>2, <1>1, <1>4 DEF JobsOwnTheirRow, Running, RowOf, Pull
  <2> QED  BY <2>1, <2>2
<1>11. RowsAreHeld'
  <2>1. \A k \in Jobs : jobAt[k] \in Holding \cup {"dead"} =>
           k # j /\ jobAt'[k] = jobAt[k] /\ batch'[k] = batch[k] /\ Pull(k)' = Pull(k)
    BY <1>1, <1>4 DEF Holding, Pull
  <2> QED  BY <1>1, <2>1 DEF RowsAreHeld
<1>12. DraftedIsHeld'
  <2>1. \A k \in Jobs : jobAt[k] \in {"finish", "dead"} => jobAt'[k] = jobAt[k]
    BY <1>1, <1>4
  <2>2. \A c \in BatchNames : \A p \in Pulls :
           reviewRuns[c][p] # Free => reviewRuns[c][p].job \in Jobs
    BY DEF ReplayTypeOK, RunRow
  <2> QED  BY <1>1, <2>1, <2>2 DEF DraftedIsHeld
<1>13. BehindIsDrafted'
  <2> SUFFICES ASSUME NEW k \in Jobs, NEW i \in Behind(k)'
               PROVE  (IsSettled(reviewRuns[batch[k]][chosen[k][i]]) \/ LeftTo(k, chosen[k][i]))'
    BY DEF BehindIsDrafted
  <2>1. k # j  BY <1>1, <1>4, <1>5, <1>6, <1>7 DEF Behind, Running
  <2>2. /\ jobAt'[k] = jobAt[k] /\ batch'[k] = batch[k] /\ via'[k] = via[k] /\ chosen'[k] = chosen[k]
        /\ i \in Behind(k)
    BY <1>1, <1>4, <2>1 DEF Behind, Running
  <2>3. jobAt[k] # "idle"  BY <2>2 DEF Behind, Running
  <2>4. batch[k] \in BatchNames /\ chosen[k][i] \in Pulls
    BY <2>2, <2>3 DEF JobsOwnTheirRow, Behind, ReplayTypeOK
  <2> DEFINE row == reviewRuns[batch[k]][chosen[k][i]]
  <2>5. IsSettled(row) \/ LeftTo(k, chosen[k][i])
    BY <2>2 DEF BehindIsDrafted
  <2>6. CASE IsSettled(row)
    <3>1. row.job \in Jobs  BY <2>4, <2>6 DEF IsSettled, ReplayTypeOK, RunRow
    <3>2. IsSettled(row)'  BY <1>1, <1>4, <2>2, <2>6, <3>1 DEF IsSettled
    <3> QED  BY <3>2
  <2>7. CASE LeftTo(k, chosen[k][i])
    <3>1. PICK l \in Jobs : /\ batch[l] = batch[k] /\ via[l] # via[k]
                            /\ jobAt[l] \in Holding \cup {"stopped"} /\ Pull(l) = chosen[k][i]
      BY <2>7 DEF LeftTo
    <3>2. l # j  BY <1>1, <3>1 DEF Holding
    <3>3. Pull(l)' = Pull(l)  BY <1>1, <1>4, <3>2 DEF Pull
    <3> QED  BY <1>4, <2>2, <3>1, <3>2, <3>3 DEF LeftTo
  <2> QED  BY <2>5, <2>6, <2>7
<1> QED  BY <1>8, <1>9, <1>10, <1>11, <1>12, <1>13

(* A job that runs is on a pull request, and its row is there to be read.  *)
LEMMA WhereItIs ==
  ASSUME ReplayInv, NEW j \in Jobs, Running(j)
  PROVE  /\ batch[j] \in BatchNames /\ chosen[j] \in Seq(Pulls)
         /\ pos[j] \in 1 .. Len(chosen[j]) /\ Pull(j) \in Pulls
         /\ RowOf(j) \in RunRow \cup {Free}
         /\ reviews[batch[j]][Pull(j)] \in Nat
<1> USE DEF ReplayInv
<1>1. batch[j] \in BatchNames /\ chosen[j] \in Seq(Pulls)
  BY DEF JobsOwnTheirRow, ReplayTypeOK, Running
<1>2. pos[j] \in 1 .. Len(chosen[j])
  BY DEF JobsOwnTheirRow, ReplayTypeOK
<1>3. Pull(j) \in Pulls  BY <1>1, <1>2 DEF Pull
<1> QED  BY <1>1, <1>2, <1>3 DEF RowOf, ReplayTypeOK

(* What every step of a running job has in common: it moves only its own   *)
(* job, and writes only the row and the count of its own pull request.     *)
(* The row it leaves is settled or another's when it goes on, its own      *)
(* while it stays, and one that is not its own to write is left alone.     *)
Writes(j, to, row, ahead, drafted) ==
  /\ jobAt' = [jobAt EXCEPT ![j] = to]
  /\ reviewRuns' = [reviewRuns EXCEPT ![batch[j]][Pull(j)] = row]
  /\ pos' = [pos EXCEPT ![j] = @ + ahead]
  /\ reviews' = [reviews EXCEPT ![batch[j]][Pull(j)] = @ + drafted]
  /\ UNCHANGED <<batch, via, chosen>>
  /\ deaths' \in 0 .. MaxDeaths /\ spent' \in 0 .. MaxSpent

Fits(j, to, row, ahead, drafted) ==
  /\ to \in Holding => ahead = 0 /\ row = Open(j)
  /\ to = "claim" => pos[j] + ahead <= Len(chosen[j])
  /\ to = "done" => pos[j] = Len(chosen[j])
  /\ ahead = 1 \/ to = "done" => IsSettled(row) \/ LeftTo(j, Pull(j))
  /\ row = RowOf(j) \/ RowOf(j) \in {Free, Open(j)}
  /\ jobAt[j] \in Holding =>
        \/ to \in Holding \cup {"stopped"} /\ ahead = 0
        \/ row # Free /\ (row.finished \/ (row = Open(j) /\ to = "dead"))
  /\ \A k \in Jobs : row = Open(k) =>
        \/ jobAt[k] = "dead"
        \/ k = j /\ to \in Holding \cup {"dead"} /\ ahead = 0
        \/ k # j /\ row = RowOf(j)
  /\ reviews[batch[j]][Pull(j)] + drafted <= 1
  /\ reviews[batch[j]][Pull(j)] + drafted = 1 =>
        row # Free /\ (row.finished \/ jobAt'[row.job] \in {"finish", "dead"})

Moves(j, to, row, ahead, drafted) ==
  Writes(j, to, row, ahead, drafted) /\ Fits(j, to, row, ahead, drafted)

LEMMA MoveKeepsInv ==
  ASSUME ReplayInv, NEW j \in Jobs, Running(j),
         NEW to \in PC \ {"idle"}, NEW row \in RunRow \cup {Free},
         NEW ahead \in {0, 1}, NEW drafted \in {0, 1},
         Moves(j, to, row, ahead, drafted)
  PROVE  ReplayInv'
<1> USE DEF ReplayInv
<1> DEFINE b == batch[j]
           p == Pull(j)
<1> USE DEF Moves, Writes, Fits
<1>1. /\ b \in BatchNames /\ chosen[j] \in Seq(Pulls) /\ pos[j] \in 1 .. Len(chosen[j])
      /\ p \in Pulls /\ RowOf(j) = reviewRuns[b][p] /\ reviews[b][p] \in Nat
  BY WhereItIs DEF RowOf
<1> HIDE DEF b, p
<1>2. /\ reviewRuns' \in [BatchNames -> [Pulls -> RunRow \cup {Free}]]
      /\ reviewRuns'[b][p] = row
      /\ \A c \in BatchNames : \A q \in Pulls :
           c # b \/ q # p => reviewRuns'[c][q] = reviewRuns[c][q]
  BY <1>1 DEF ReplayTypeOK, b, p
<1>3. /\ reviews' \in [BatchNames -> [Pulls -> Nat]]
      /\ reviews'[b][p] = reviews[b][p] + drafted
      /\ \A c \in BatchNames : \A q \in Pulls :
           c # b \/ q # p => reviews'[c][q] = reviews[c][q]
  <2>1. reviews' = [reviews EXCEPT ![b][p] = @ + drafted]  BY DEF b, p
  <2>2. reviews[b][p] + drafted \in Nat  BY <1>1
  <2>3. reviews \in [BatchNames -> [Pulls -> Nat]]  BY DEF ReplayTypeOK
  <2> HIDE DEF Moves, Writes, Fits, ReplayInv
  <2> QED  BY <1>1, <2>1, <2>2, <2>3
<1>4. /\ jobAt' \in [Jobs -> PC]
      /\ jobAt'[j] = to
      /\ \A k \in Jobs : k # j => jobAt'[k] = jobAt[k]
      /\ \A k \in Jobs : jobAt[k] = "dead" => jobAt'[k] = "dead"
  BY DEF ReplayTypeOK, Running
<1>5. /\ pos' \in [Jobs -> Nat \ {0}]
      /\ pos'[j] = pos[j] + ahead
      /\ \A k \in Jobs : k # j => pos'[k] = pos[k]
  BY DEF JobsOwnTheirRow
<1>6. /\ \A k \in Jobs : k # j \/ ahead = 0 => Pull(k)' = Pull(k)
      /\ \A k \in Jobs : Running(k)' => Running(k)
  <2>1. \A k \in Jobs : k # j \/ ahead = 0 => pos'[k] = pos[k]
    BY <1>5 DEF JobsOwnTheirRow
  <2>2. \A k \in Jobs : Running(k)' => Running(k)
    BY <1>4 DEF Running
  <2> QED  BY <2>1, <2>2 DEF Pull
<1>7. ReplayTypeOK'
  <2>1. ASSUME NEW k \in Jobs  PROVE pos'[k] \in 1 .. Len(chosen[k]) + 1
    <3>1. Len(chosen[k]) \in Nat  BY DEF ReplayTypeOK
    <3>2. CASE k = j  BY <1>1, <1>5, <3>1, <3>2
    <3>3. CASE k # j  BY <1>5, <3>3 DEF ReplayTypeOK
    <3> QED  BY <3>2, <3>3
  <2> QED  BY <1>2, <1>3, <1>4, <2>1 DEF ReplayTypeOK
<1>8. OneAtATime'  BY <1>6 DEF OneAtATime
<1>9. JobsOwnTheirRow'
  <2> SUFFICES ASSUME NEW k \in Jobs
               PROVE  /\ jobAt'[k] = "idle" => pos'[k] = 1
                      /\ jobAt'[k] # "idle" => batch[k] \in BatchNames
                      /\ Running(k)' => pos'[k] <= Len(chosen[k])
                      /\ jobAt'[k] \in Holding => RowOf(k)' = Open(k)
    BY <1>5 DEF JobsOwnTheirRow
  <2>1. CASE k = j
    <3>1. Running(j)' => pos'[j] <= Len(chosen[j])
      BY <1>1, <1>4, <1>5 DEF Running, Holding
    <3>2. jobAt'[j] \in Holding => RowOf(j)' = row
      BY <1>2, <1>4, <1>6 DEF RowOf, b, p
    <3> QED  BY <2>1, <1>1, <1>4, <3>1, <3>2 DEF b
  <2>2. CASE k # j
    <3>1. /\ jobAt[k] = "idle" => pos[k] = 1
          /\ jobAt[k] # "idle" => batch[k] \in BatchNames
          /\ Running(k) => pos[k] <= Len(chosen[k])
          /\ jobAt[k] \in Holding => RowOf(k) = Open(k)
      BY DEF JobsOwnTheirRow
    <3>2. ASSUME jobAt[k] \in Holding  PROVE RowOf(k)' = RowOf(k)
      <4>1. Running(k)  BY <3>2 DEF Running, Holding
      <4>2. batch[k] \in BatchNames /\ Pull(k) \in Pulls  BY <4>1, WhereItIs
      <4>3. RowOf(k) = Open(k) /\ Open(k) \notin {Free, Open(j)}
        BY <2>2, <3>1, <3>2, RowsAndJobs
      <4>4. batch[k] = b /\ Pull(k) = p => RowOf(k) = RowOf(j) /\ row = RowOf(j)
        BY <4>3 DEF RowOf, b, p
      <4> QED  BY <1>1, <1>2, <1>6, <2>2, <4>2, <4>4 DEF RowOf
    <3> QED  BY <2>2, <1>4, <1>5, <1>6, <3>1, <3>2
  <2> QED  BY <2>1, <2>2
<1>10. \A c \in BatchNames : \A q \in Pulls :
         reviewRuns[c][q] # Free => reviewRuns[c][q].job \in Jobs
  BY DEF ReplayTypeOK, RunRow
<1>11. RowsAreHeld'
  <2> SUFFICES ASSUME NEW c \in BatchNames, NEW q \in Pulls, NEW k \in Jobs,
                      reviewRuns'[c][q] = Open(k)
               PROVE  \/ jobAt'[k] = "dead"
                      \/ jobAt'[k] \in Holding /\ batch[k] = c /\ Pull(k)' = q
    BY DEF RowsAreHeld
  <2>1. CASE c = b /\ q = p
    <3>1. row = Open(k)  BY <1>2, <2>1
    <3>2. CASE jobAt[k] = "dead" \/ (k = j /\ to \in Holding \cup {"dead"} /\ ahead = 0)
      BY <2>1, <1>4, <1>6, <3>2 DEF b, p
    <3>3. CASE k # j /\ row = RowOf(j)
      <4>1. reviewRuns[b][p] = Open(k)  BY <1>1, <3>1, <3>3
      <4>2. jobAt[k] = "dead" \/ (jobAt[k] \in Holding /\ batch[k] = b /\ Pull(k) = p)
        BY <1>1, <4>1 DEF RowsAreHeld
      <4> QED  BY <1>4, <1>6, <2>1, <3>3, <4>2
    <3> QED  BY <3>1, <3>2, <3>3
  <2>2. CASE c # b \/ q # p
    <3>1. reviewRuns[c][q] = Open(k)  BY <2>2, <1>2
    <3>2. \/ jobAt[k] = "dead"
          \/ jobAt[k] \in Holding /\ batch[k] = c /\ Pull(k) = q
      BY <3>1 DEF RowsAreHeld
    <3>3. k # j  BY <2>2, <3>2 DEF Running, b, p
    <3> QED  BY <1>4, <1>6, <3>2, <3>3
  <2> QED  BY <2>1, <2>2
<1>12. DraftedIsHeld'
  <2> SUFFICES ASSUME NEW c \in BatchNames, NEW q \in Pulls
               PROVE  /\ reviews'[c][q] <= 1
                      /\ reviews'[c][q] = 1 =>
                           /\ reviewRuns'[c][q] # Free
                           /\ \/ reviewRuns'[c][q].finished
                              \/ jobAt'[reviewRuns'[c][q].job] \in {"finish", "dead"}
    BY DEF DraftedIsHeld
  <2>1. CASE c = b /\ q = p  BY <2>1, <1>2, <1>3 DEF b, p
  <2>2. CASE c # b \/ q # p
    <3> DEFINE k == reviewRuns[c][q].job
    <3>1. reviewRuns'[c][q] = reviewRuns[c][q] /\ reviews'[c][q] = reviews[c][q]
      BY <2>2, <1>2, <1>3
    <3>2. /\ reviews[c][q] <= 1
          /\ reviews[c][q] = 1 =>
               /\ reviewRuns[c][q] # Free
               /\ reviewRuns[c][q].finished \/ jobAt[k] \in {"finish", "dead"}
      BY DEF DraftedIsHeld
    <3>3. ASSUME reviewRuns[c][q] # Free, ~reviewRuns[c][q].finished, k = j  PROVE FALSE
      <4>1. reviewRuns[c][q] = Open(j)  BY <3>3, RowsAndJobs DEF ReplayTypeOK
      <4> QED  BY <2>2, <4>1 DEF RowsAreHeld, Running, b, p
    <3> QED  BY <1>4, <1>10, <3>1, <3>2, <3>3
  <2> QED  BY <2>1, <2>2
<1>13. \A c \in BatchNames : \A q \in Pulls :
         IsSettled(reviewRuns[c][q]) => IsSettled(reviewRuns[c][q])' /\ reviewRuns'[c][q] = reviewRuns[c][q]
  <2>1. jobAt[j] # "dead" /\ ~Open(j).finished /\ Open(j).job = j
    BY DEF Running, Open
  <2>2. IsSettled(RowOf(j)) => row = RowOf(j)
    BY <2>1 DEF IsSettled
  <2> QED  BY <1>1, <1>2, <1>4, <1>10, <2>2 DEF IsSettled
(* What was left to another job still is, or it settled it.                *)
<1>14. ASSUME NEW k \in Jobs, NEW q \in Pulls, LeftTo(k, q), batch[k] \in BatchNames
       PROVE  (IsSettled(reviewRuns[batch[k]][q]) \/ LeftTo(k, q))'
  <2>1. PICK l \in Jobs : /\ batch[l] = batch[k] /\ via[l] # via[k]
                          /\ jobAt[l] \in Holding \cup {"stopped"} /\ Pull(l) = q
    BY <1>14 DEF LeftTo
  <2>2. ASSUME jobAt'[l] \in Holding \cup {"stopped"}, l # j \/ ahead = 0
        PROVE  LeftTo(k, q)'
    <3>1. Pull(l)' = q  BY <1>6, <2>1, <2>2
    <3> QED  BY <2>1, <2>2, <3>1 DEF LeftTo
  <2>3. CASE l # j
    BY <1>4, <2>1, <2>2, <2>3
  <2>4. CASE l = j
    <3>1. jobAt[j] \in Holding  BY <2>1, <2>4 DEF Running, Holding
    <3>2. CASE to \in Holding \cup {"stopped"} /\ ahead = 0
      BY <1>4, <2>2, <2>4, <3>2
    <3>3. CASE row # Free /\ (row.finished \/ (row = Open(j) /\ to = "dead"))
      <4>1. row.finished \/ jobAt'[row.job] = "dead"
        BY <1>4, <3>3 DEF Open
      <4>2. reviewRuns'[batch[k]][q] = row
        BY <1>2, <2>1, <2>4 DEF b, p
      <4> QED  BY <3>3, <4>1, <4>2 DEF IsSettled
    <3> QED  BY <3>1, <3>2, <3>3
  <2> QED  BY <2>3, <2>4
<1>15. BehindIsDrafted'
  <2> SUFFICES ASSUME NEW k \in Jobs, NEW i \in Behind(k)'
               PROVE  (IsSettled(reviewRuns[batch[k]][chosen[k][i]]) \/ LeftTo(k, chosen[k][i]))'
    BY DEF BehindIsDrafted
  <2>1. jobAt[k] # "idle"
    BY <1>4 DEF Behind, Running
  <2>2. i \in 1 .. Len(chosen[k]) /\ batch[k] \in BatchNames /\ chosen[k][i] \in Pulls
    BY <2>1 DEF JobsOwnTheirRow, Behind, ReplayTypeOK
  <2>3. ASSUME IsSettled(reviewRuns[batch[k]][chosen[k][i]])
        PROVE  IsSettled(reviewRuns[batch[k]][chosen[k][i]])'
    <3>1. PICK c \in BatchNames : c = batch[k]  BY <2>2
    <3>2. PICK q \in Pulls : q = chosen[k][i]  BY <2>2
    <3>3. IsSettled(reviewRuns[c][q])'  BY <1>13, <2>3, <3>1, <3>2
    <3>4. UNCHANGED <<batch, chosen>>  OBVIOUS
    <3> QED  BY <3>1, <3>2, <3>3, <3>4 DEF IsSettled
  <2>4. ASSUME LeftTo(k, chosen[k][i])
        PROVE  (IsSettled(reviewRuns[batch[k]][chosen[k][i]]) \/ LeftTo(k, chosen[k][i]))'
    <3>1. PICK q \in Pulls : q = chosen[k][i]  BY <2>2
    <3>2. (IsSettled(reviewRuns[batch[k]][q]) \/ LeftTo(k, q))'
      BY <1>14, <2>2, <2>4, <3>1
    <3>3. UNCHANGED chosen  OBVIOUS
    <3> QED  BY <3>1, <3>2, <3>3 DEF IsSettled, LeftTo
  <2>5. CASE i \in Behind(k)
    <3>1. IsSettled(reviewRuns[batch[k]][chosen[k][i]]) \/ LeftTo(k, chosen[k][i])
      BY <2>5 DEF BehindIsDrafted
    <3> QED  BY <2>3, <2>4, <3>1
  <2>6. CASE i \notin Behind(k)
    <3>1. k = j /\ i = pos[j] /\ (ahead = 1 \/ to = "done")
      BY <2>2, <2>6, <1>1, <1>4, <1>5 DEF Behind, Running
    <3>2. chosen[k][i] = Pull(j)  BY <3>1 DEF Pull
    <3>3. CASE IsSettled(row)
      <4>1. row.job \in Jobs  BY <3>3 DEF IsSettled, RunRow
      <4>2. IsSettled(row)'  BY <1>4, <3>3, <4>1 DEF IsSettled
      <4> QED  BY <1>2, <3>1, <3>2, <4>2 DEF b, p, IsSettled
    <3>4. CASE LeftTo(j, Pull(j))
      BY <2>4, <3>1, <3>2, <3>4
    <3> QED  BY <3>1, <3>3, <3>4
  <2> QED  BY <2>5, <2>6
<1> QED  BY <1>7, <1>8, <1>9, <1>11, <1>12, <1>15

(* Of an unfinished row whose owner is alive the owner is on it; and what  *)
(* is not held by the right hands was not drafted.                         *)
LEMMA OwnersOfTheRow ==
  ASSUME ReplayInv, NEW j \in Jobs, Running(j), NEW k \in Jobs, RowOf(j) = Open(k), jobAt[k] # "dead"
  PROVE  /\ jobAt[k] \in Holding /\ batch[k] = batch[j] /\ Pull(k) = Pull(j)
         /\ k # j => via[k] # via[j]
<1> USE DEF ReplayInv
<1>1. batch[j] \in BatchNames /\ Pull(j) \in Pulls /\ reviewRuns[batch[j]][Pull(j)] = Open(k)
  BY WhereItIs DEF RowOf
<1>2. jobAt[k] \in Holding /\ batch[k] = batch[j] /\ Pull(k) = Pull(j)  BY <1>1 DEF RowsAreHeld
<1>3. Running(k)  BY <1>2 DEF Running, Holding
<1> QED  BY <1>2, <1>3 DEF OneAtATime

LEMMA DraftsOfTheRow ==
  ASSUME ReplayInv, NEW j \in Jobs, Running(j)
  PROVE  LET n == reviews[batch[j]][Pull(j)]
         IN  /\ n \in Nat /\ n <= 1
             /\ n = 1 => RowOf(j) # Free
                  /\ (RowOf(j).finished \/ jobAt[RowOf(j).job] \in {"finish", "dead"})
             /\ RowOf(j) = Free => n = 0
             /\ RowOf(j) = Open(j) /\ jobAt[j] \notin {"finish", "dead"} => n = 0
<1> DEFINE n == reviews[batch[j]][Pull(j)]
<1>1. batch[j] \in BatchNames /\ Pull(j) \in Pulls /\ n \in Nat
  BY WhereItIs
<1>2. /\ n <= 1
      /\ n = 1 => RowOf(j) # Free
           /\ (RowOf(j).finished \/ jobAt[RowOf(j).job] \in {"finish", "dead"})
  BY <1>1 DEF DraftedIsHeld, ReplayInv, RowOf
<1>3. Open(j).job = j /\ ~Open(j).finished  BY DEF Open
<1> HIDE DEF n
<1>4. RowOf(j) = Free => n = 0  BY <1>1, <1>2 DEF n
<1>5. RowOf(j) = Open(j) /\ jobAt[j] \notin {"finish", "dead"} => n = 0
  BY <1>1, <1>2, <1>3 DEF n
<1> QED  BY <1>1, <1>2, <1>4, <1>5 DEF n

(* What a step leaves as it is.                                            *)
LEMMA SameCounts ==
  ASSUME ReplayInv, NEW j \in Jobs, Running(j)
  PROVE  /\ reviewRuns' = reviewRuns => reviewRuns' = [reviewRuns EXCEPT ![batch[j]][Pull(j)] = RowOf(j)]
         /\ reviews' = reviews => reviews' = [reviews EXCEPT ![batch[j]][Pull(j)] = @ + 0]
         /\ pos' = pos => pos' = [pos EXCEPT ![j] = @ + 0]
         /\ deaths' = deaths => deaths' \in 0 .. MaxDeaths
         /\ spent' = spent => spent' \in 0 .. MaxSpent
<1> USE DEF ReplayInv
<1>1. batch[j] \in BatchNames /\ Pull(j) \in Pulls /\ pos[j] \in Nat
      /\ reviews[batch[j]][Pull(j)] \in Nat
  BY WhereItIs
<1>2. [reviewRuns EXCEPT ![batch[j]][Pull(j)] = RowOf(j)] = reviewRuns
  BY <1>1 DEF ReplayTypeOK, RowOf
<1>3. [reviews EXCEPT ![batch[j]][Pull(j)] = @ + 0] = reviews
  BY <1>1 DEF ReplayTypeOK
<1>4. [pos EXCEPT ![j] = @ + 0] = pos
  BY <1>1 DEF JobsOwnTheirRow
<1> QED  BY <1>2, <1>3, <1>4 DEF ReplayTypeOK

LEMMA Claims ==
  ASSUME ReplayInv, NEW j \in Jobs, Claim(j)
  PROVE  ReplayInv'
<1> DEFINE to == IF pos[j] < Len(chosen[j]) THEN "claim" ELSE "done"
<1>1. jobAt[j] = "claim" /\ Running(j)  BY DEF Claim, Running
<1>2. RowOf(j) \in RunRow \cup {Free} /\ pos[j] \in 1 .. Len(chosen[j])
  BY <1>1, WhereItIs
<1>3. UNCHANGED <<batch, via, chosen, reviews, deaths, spent>>  BY DEF Claim
<1>4. CASE RowOf(j) = Free
  <2>1. /\ reviewRuns' = [reviewRuns EXCEPT ![batch[j]][Pull(j)] = Open(j)]
        /\ jobAt' = [jobAt EXCEPT ![j] = "review"]
        /\ pos' = pos
    BY <1>1, <1>4 DEF Claim, Goto, Open
  <2>2. reviews[batch[j]][Pull(j)] = 0  BY <1>1, <1>4, DraftsOfTheRow
  <2>3. "review" \in Holding /\ jobAt[j] \notin Holding  BY <1>1 DEF Holding
  <2>4. /\ \A k \in Jobs : Open(j) = Open(k) => k = j
        /\ Open(j) # Free
    BY RowsAndJobs
  <2>5. /\ pos' = [pos EXCEPT ![j] = @ + 0]
        /\ reviews' = [reviews EXCEPT ![batch[j]][Pull(j)] = @ + 0]
        /\ deaths' \in 0 .. MaxDeaths /\ spent' \in 0 .. MaxSpent
    BY <1>1, <1>3, <2>1, SameCounts
  <2>6. Moves(j, "review", Open(j), 0, 0)
    <3>1. Writes(j, "review", Open(j), 0, 0)  BY <1>3, <2>1, <2>5 DEF Writes
    <3>2. Fits(j, "review", Open(j), 0, 0)  BY <1>4, <2>2, <2>3, <2>4 DEF Fits
    <3> QED  BY <3>1, <3>2 DEF Moves
  <2> QED  BY <1>1, <2>6, RowsAndJobs, MoveKeepsInv DEF PC
<1>5. CASE RowOf(j) # Free
  <2>1. /\ reviewRuns' = reviewRuns
        /\ jobAt' = [jobAt EXCEPT ![j] = to]
        /\ pos' = [pos EXCEPT ![j] = @ + 1]
    BY <1>1, <1>5 DEF Claim, NextPull, Goto
  <2>2. \A k \in Jobs : RowOf(j) = Open(k) => jobAt[k] = "dead" \/ k # j
    BY <1>1, OwnersOfTheRow DEF Holding
  <2>3. IsSettled(RowOf(j)) \/ LeftTo(j, Pull(j))
    <3>1. SUFFICES ASSUME ~IsSettled(RowOf(j))  PROVE LeftTo(j, Pull(j))
      OBVIOUS
    <3>2. PICK k \in Jobs : RowOf(j) = Open(k) /\ jobAt[k] # "dead"
      BY <1>2, <1>5, <3>1, RowsAndJobs DEF IsSettled
    <3>3. k # j  BY <2>2, <3>2
    <3>4. /\ jobAt[k] \in Holding /\ batch[k] = batch[j] /\ Pull(k) = Pull(j)
          /\ via[k] # via[j]
      BY <1>1, <3>2, <3>3, OwnersOfTheRow
    <3> QED  BY <3>4 DEF LeftTo
  <2>4. /\ to = "claim" => pos[j] + 1 <= Len(chosen[j])
        /\ to = "done" => pos[j] = Len(chosen[j])
    BY <1>2
  <2>5. to \in PC \ {"idle"} /\ to \notin Holding  BY DEF PC, Holding
  <2>6. jobAt[RowOf(j).job] \in {"finish", "dead"} => jobAt'[RowOf(j).job] = jobAt[RowOf(j).job]
    BY <1>1, <1>2, <1>5, <2>1, RowsAndJobs DEF ReplayInv, ReplayTypeOK
  <2> HIDE DEF to
  <2>7. /\ reviewRuns' = [reviewRuns EXCEPT ![batch[j]][Pull(j)] = RowOf(j)]
        /\ reviews' = [reviews EXCEPT ![batch[j]][Pull(j)] = @ + 0]
        /\ deaths' \in 0 .. MaxDeaths /\ spent' \in 0 .. MaxSpent
    BY <1>1, <1>3, <2>1, SameCounts
  <2>8. LET n == reviews[batch[j]][Pull(j)]
        IN  /\ n \in Nat /\ n <= 1
            /\ n = 1 => RowOf(j) # Free
                 /\ (RowOf(j).finished \/ jobAt'[RowOf(j).job] \in {"finish", "dead"})
    BY <1>1, <2>6, DraftsOfTheRow
  <2>9. Moves(j, to, RowOf(j), 1, 0)
    <3>1. Writes(j, to, RowOf(j), 1, 0)  BY <1>3, <2>1, <2>7 DEF Writes
    <3>2. Fits(j, to, RowOf(j), 1, 0)
      <4>1. jobAt[j] \notin Holding  BY <1>1 DEF Holding
      <4> QED  BY <2>2, <2>3, <2>4, <2>5, <2>8, <4>1 DEF Fits
    <3> QED  BY <3>1, <3>2 DEF Moves
  <2> QED  BY <1>1, <1>2, <2>5, <2>9, MoveKeepsInv
<1> QED  BY <1>4, <1>5

(* Of a job that holds its row.                                            *)
LEMMA HeldRow ==
  ASSUME ReplayInv, NEW j \in Jobs, jobAt[j] \in Holding
  PROVE  /\ Running(j)
         /\ RowOf(j) = Open(j) /\ ~IsSettled(RowOf(j))
         /\ jobAt[j] # "finish" => reviews[batch[j]][Pull(j)] = 0
<1>1. Running(j) /\ jobAt[j] # "dead"  BY DEF Running, Holding
<1>2. RowOf(j) = Open(j)  BY DEF ReplayInv, JobsOwnTheirRow
<1>3. Open(j).job = j /\ ~Open(j).finished  BY DEF Open
<1>4. ~IsSettled(RowOf(j))  BY <1>1, <1>2, <1>3 DEF IsSettled
<1> QED  BY <1>1, <1>2, <1>4, DraftsOfTheRow

LEMMA Reviews ==
  ASSUME ReplayInv, NEW j \in Jobs, ReviewOne(j)
  PROVE  ReplayInv'
<1>1. /\ jobAt[j] = "review" /\ jobAt[j] \in Holding
      /\ UNCHANGED <<reviewRuns, batch, via, chosen, pos, deaths>>
  BY DEF ReviewOne, Holding, jobVars
<1>2. /\ Running(j) /\ RowOf(j) = Open(j) /\ ~IsSettled(RowOf(j))
      /\ reviews[batch[j]][Pull(j)] = 0
  BY <1>1, HeldRow
<1>3. Open(j).job = j  BY DEF Open
<1>4. \A k \in Jobs : Open(j) = Open(k) => k = j  BY RowsAndJobs
<1>5. Open(j) # Free  BY RowsAndJobs
<1>6. CASE Goto(j, "finish") /\ reviews' = [reviews EXCEPT ![batch[j]][Pull(j)] = @ + 1] /\ spent' = spent
  <2>1. jobAt' = [jobAt EXCEPT ![j] = "finish"]  BY <1>6 DEF Goto
  <2>2. jobAt'[j] = "finish"  BY <2>1 DEF ReplayInv, ReplayTypeOK
  <2>3. "finish" \in Holding  BY DEF Holding
  <2>4. /\ reviewRuns' = [reviewRuns EXCEPT ![batch[j]][Pull(j)] = Open(j)]
        /\ pos' = [pos EXCEPT ![j] = @ + 0]
        /\ deaths' \in 0 .. MaxDeaths /\ spent' \in 0 .. MaxSpent
    BY <1>1, <1>2, <1>6, SameCounts
  <2>5. Moves(j, "finish", Open(j), 0, 1)
    <3>1. Writes(j, "finish", Open(j), 0, 1)  BY <1>1, <1>6, <2>1, <2>4 DEF Writes
    <3>2. Fits(j, "finish", Open(j), 0, 1)
      BY <1>2, <1>3, <1>4, <1>5, <2>2, <2>3 DEF Fits
    <3> QED  BY <3>1, <3>2 DEF Moves
  <2> QED  BY <1>2, <2>5, RowsAndJobs, MoveKeepsInv DEF PC
<1>7. CASE spent < MaxSpent /\ spent' = spent + 1 /\ Goto(j, "release") /\ reviews' = reviews
  <2>1. spent' \in 0 .. MaxSpent  BY <1>7, ReplayAssumption DEF ReplayInv, ReplayTypeOK
  <2>2. "release" \in Holding  BY DEF Holding
  <2>3. Writes(j, "release", Open(j), 0, 0)
    BY <1>1, <1>2, <1>7, <2>1, SameCounts DEF Writes, Goto
  <2>4. Fits(j, "release", Open(j), 0, 0)  BY <1>2, <1>4, <2>2 DEF Fits
  <2>5. Moves(j, "release", Open(j), 0, 0)  BY <2>3, <2>4 DEF Moves
  <2> QED  BY <1>2, <2>5, RowsAndJobs, MoveKeepsInv DEF PC
<1> QED  BY <1>6, <1>7 DEF ReviewOne

LEMMA Finishes ==
  ASSUME ReplayInv, NEW j \in Jobs, FinishOne(j)
  PROVE  ReplayInv'
<1> DEFINE done == [RowOf(j) EXCEPT !.finished = TRUE]
           to == IF pos[j] < Len(chosen[j]) THEN "claim" ELSE "done"
<1>1. jobAt[j] = "finish" /\ jobAt[j] \in Holding  BY DEF FinishOne, Holding
<1>2. Running(j) /\ RowOf(j) = Open(j) /\ ~IsSettled(RowOf(j))
  BY <1>1, HeldRow
<1>3. batch[j] \in BatchNames /\ Pull(j) \in Pulls /\ pos[j] \in 1 .. Len(chosen[j])
  BY <1>2, WhereItIs
<1>4. done \in RunRow /\ done.finished
  <2>1. RowOf(j) \in RunRow  BY <1>2, RowsAndJobs
  <2> QED  BY <2>1 DEF RunRow
<1>5. \A k \in Jobs : ~Open(k).finished  BY DEF Open
<1>6. (done # Free) /\ (\A k \in Jobs : done # Open(k))
  <2>1. done # Free  BY <1>4, RowsAndJobs
  <2> HIDE DEF done
  <2>2. \A k \in Jobs : done # Open(k)  BY <1>4, <1>5
  <2> QED  BY <2>1, <2>2
<1>7. [RowOf(j) EXCEPT !.finished = TRUE] = done  OBVIOUS
<1>8. reviewRuns' = [reviewRuns EXCEPT ![batch[j]][Pull(j)] = done]
  <2>1. reviewRuns' = [reviewRuns EXCEPT ![batch[j]][Pull(j)].finished = TRUE]  BY DEF FinishOne
  <2> HIDE DEF done
  <2> QED  BY <2>1, <1>3, <1>7 DEF ReplayInv, ReplayTypeOK, RowOf
<1>9. /\ jobAt' = [jobAt EXCEPT ![j] = to]
      /\ pos' = [pos EXCEPT ![j] = @ + 1]
      /\ UNCHANGED <<batch, via, chosen, reviews, deaths, spent>>
  BY DEF FinishOne, NextPull, Goto
<1>10. /\ to = "claim" => pos[j] + 1 <= Len(chosen[j])
       /\ to = "done" => pos[j] = Len(chosen[j])
  BY <1>3
<1>11. to \in PC \ {"idle"} /\ to \notin Holding  BY DEF PC, Holding
<1> HIDE DEF to, done
<1>12. IsSettled(done)  BY <1>4, <1>6 DEF IsSettled
<1>13. /\ reviews' = [reviews EXCEPT ![batch[j]][Pull(j)] = @ + 0]
       /\ deaths' \in 0 .. MaxDeaths /\ spent' \in 0 .. MaxSpent
  BY <1>2, <1>9, SameCounts
<1>14. reviews[batch[j]][Pull(j)] \in Nat /\ reviews[batch[j]][Pull(j)] <= 1
  BY <1>2, DraftsOfTheRow
<1>15. Moves(j, to, done, 1, 0)
  <2>1. Writes(j, to, done, 1, 0)  BY <1>8, <1>9, <1>13 DEF Writes
  <2>2. /\ done = RowOf(j) \/ RowOf(j) \in {Free, Open(j)}
        /\ done # Free /\ done.finished
        /\ \A k \in Jobs : done # Open(k)
        /\ IsSettled(done) /\ to \notin Holding
        /\ reviews[batch[j]][Pull(j)] + 0 <= 1
    BY <1>2, <1>4, <1>6, <1>11, <1>12, <1>14
  <2>3. Fits(j, to, done, 1, 0)
    BY ONLY <1>10, <2>2 DEF Fits
  <2> QED  BY <2>1, <2>3 DEF Moves
<1> QED  BY <1>2, <1>4, <1>11, <1>15, MoveKeepsInv

LEMMA Releases ==
  ASSUME ReplayInv, NEW j \in Jobs, Release(j)
  PROVE  ReplayInv'
<1>1. jobAt[j] = "release" /\ jobAt[j] \in Holding  BY DEF Release, Holding
<1>2. /\ Running(j) /\ RowOf(j) = Open(j) /\ ~IsSettled(RowOf(j))
      /\ reviews[batch[j]][Pull(j)] = 0
  BY <1>1, HeldRow
<1>3. /\ reviewRuns' = [reviewRuns EXCEPT ![batch[j]][Pull(j)] = Free]
      /\ jobAt' = [jobAt EXCEPT ![j] = "stopped"]
      /\ UNCHANGED <<batch, via, chosen, pos, reviews, deaths, spent>>
  BY <1>2 DEF Release, Goto, Open, jobVars
<1>4. \A k \in Jobs : Free # Open(k)  BY RowsAndJobs
<1>5. "stopped" \notin Holding  BY DEF Holding
<1>6. /\ pos' = [pos EXCEPT ![j] = @ + 0]
      /\ reviews' = [reviews EXCEPT ![batch[j]][Pull(j)] = @ + 0]
      /\ deaths' \in 0 .. MaxDeaths /\ spent' \in 0 .. MaxSpent
  BY <1>2, <1>3, SameCounts
<1>7. Moves(j, "stopped", Free, 0, 0)
  <2>1. Writes(j, "stopped", Free, 0, 0)  BY <1>3, <1>6 DEF Writes
  <2>2. Fits(j, "stopped", Free, 0, 0)  BY <1>2, <1>4, <1>5 DEF Fits
  <2> QED  BY <2>1, <2>2 DEF Moves
<1> QED  BY <1>2, <1>7, MoveKeepsInv DEF PC

(* A job that dies keeps the row it holds, for good.                       *)
LEMMA Dies ==
  ASSUME ReplayInv, NEW j \in Jobs, Die(j)
  PROVE  ReplayInv'
<1>1. /\ Running(j)
      /\ jobAt' = [jobAt EXCEPT ![j] = "dead"]
      /\ UNCHANGED <<reviewRuns, batch, via, chosen, pos, reviews, spent>>
  BY DEF Die, Goto, jobVars
<1>2. RowOf(j) \in RunRow \cup {Free}  BY <1>1, WhereItIs
<1>3. deaths' \in 0 .. MaxDeaths  BY ReplayAssumption DEF Die, ReplayInv, ReplayTypeOK
<1>5. RowOf(j) # Free /\ jobAt[RowOf(j).job] \in {"finish", "dead"} => jobAt'[RowOf(j).job] \in {"finish", "dead"}
  BY <1>1, <1>2, RowsAndJobs DEF ReplayInv, ReplayTypeOK
<1>6. Moves(j, "dead", RowOf(j), 0, 0)
  <2>1. "dead" \notin Holding  BY DEF Holding
  <2>2. Writes(j, "dead", RowOf(j), 0, 0)  BY <1>1, <1>3, SameCounts DEF Writes
  <2>3. jobAt[j] \in Holding => RowOf(j) = Open(j) /\ Open(j) # Free
    BY HeldRow, RowsAndJobs
  <2>4. Fits(j, "dead", RowOf(j), 0, 0)
    BY <1>1, <1>5, <2>1, <2>3, DraftsOfTheRow DEF Fits
  <2> QED  BY <2>2, <2>4 DEF Moves
<1> QED  BY <1>1, <1>2, <1>6, MoveKeepsInv DEF PC

LEMMA ReplayInvNext == ASSUME ReplayInv, [ReplayNext]_replayVars PROVE ReplayInv'
<1>1. CASE UNCHANGED replayVars
  BY <1>1 DEF replayVars, ReplayInv, ReplayTypeOK, OneAtATime, JobsOwnTheirRow, RowsAreHeld,
     DraftedIsHeld, BehindIsDrafted, Behind, LeftTo, IsSettled, Running, RowOf, Pull
<1>2. ASSUME NEW j \in Jobs, NEW b \in BatchNames, NEW group \in Groups, Start(j, b, group)
      PROVE  ReplayInv'
  BY <1>2, Starts
<1>3. ASSUME NEW j \in Jobs, Step(j)  PROVE ReplayInv'
  BY <1>3, Claims, Reviews, Finishes, Releases DEF Step
<1>4. ASSUME NEW j \in Jobs, Die(j)  PROVE ReplayInv'
  BY <1>4, Dies
<1> QED  BY <1>1, <1>2, <1>3, <1>4 DEF ReplayNext

-----------------------------------------------------------------------------
(* Whose every row is, and what every job has behind it: the invariant the *)
(* next two theorems rest on.                                              *)
THEOREM ReplayInvariant == ReplaySpec => []ReplayInv
<1>1. ReplayInit => ReplayInv  BY ReplayInvInit
<1>2. ReplayInv /\ [ReplayNext]_replayVars => ReplayInv'  BY ReplayInvNext
<1> QED  BY <1>1, <1>2, PTL DEF ReplaySpec

(* Rows, lists and counts are of the jobs, batches and pull requests there *)
(* are: choose() has a pull request for every place of its list.           *)
THEOREM ReplayTyped == ReplaySpec => []ReplayTypeOK
<1>1. ReplayInv => ReplayTypeOK  BY DEF ReplayInv
<1> QED  BY <1>1, ReplayInvariant, PTL

(* Within a batch no pull request is drafted twice, however often the      *)
(* batch is run again, also by a push and a dispatch at once; a row        *)
(* without a result is held by a job that is on it or that died; and once  *)
(* no job of a batch runs, one that went through its list left every pull  *)
(* request of it with a result, with a job that died, or given up by a job *)
(* of the other group that found the providers spent.                      *)
THEOREM EachDraftedOnce == ReplaySpec => []DraftedOnce
<1>1. ReplayInv => DraftedOnce
  <2> SUFFICES ASSUME ReplayInv  PROVE DraftedOnce
    OBVIOUS
  <2> USE DEF ReplayInv
  <2>1. ASSUME NEW b \in BatchNames, NEW p \in Pulls
        PROVE  /\ reviews[b][p] <= 1
               /\ LET row == reviewRuns[b][p]
                  IN  row # Free /\ ~row.finished => \/ jobAt[row.job] = "dead"
                                                     \/ Running(row.job) /\ Pull(row.job) = p
    <3>1. reviews[b][p] <= 1  BY DEF DraftedIsHeld
    <3>2. \A k \in Jobs : reviewRuns[b][p] = Open(k) =>
            (jobAt[k] = "dead" \/ (jobAt[k] \in Holding /\ Pull(k) = p))
      BY DEF RowsAreHeld
    <3>3. ASSUME reviewRuns[b][p] # Free, ~reviewRuns[b][p].finished
          PROVE  \E k \in Jobs : /\ k = reviewRuns[b][p].job
                                 /\ jobAt[k] = "dead" \/ (Running(k) /\ Pull(k) = p)
      <4>1. PICK k \in Jobs : k = reviewRuns[b][p].job /\ reviewRuns[b][p] = Open(k)
        <5>1. reviewRuns[b][p] \in RunRow  BY <3>3 DEF ReplayTypeOK
        <5> QED  BY <3>3, <5>1, RowsAndJobs
      <4>2. jobAt[k] \in Holding => Running(k)  BY DEF Running, Holding
      <4> QED  BY <3>2, <4>1, <4>2
    <3> QED  BY <3>1, <3>3
  <2>2. ASSUME NEW j \in Jobs, jobAt[j] = "done", NEW i \in 1 .. Len(chosen[j]),
               ~ \E k \in Jobs : batch[k] = batch[j] /\ Running(k)
        PROVE  IsSettled(reviewRuns[batch[j]][chosen[j][i]]) \/ GivenUp(j, chosen[j][i])
    <3>1. i \in Behind(j)  BY <2>2 DEF Behind
    <3>2. IsSettled(reviewRuns[batch[j]][chosen[j][i]]) \/ LeftTo(j, chosen[j][i])
      BY <3>1 DEF BehindIsDrafted
    <3>3. \A k \in Jobs : jobAt[k] \in Holding => Running(k)  BY DEF Running, Holding
    <3> QED  BY <2>2, <3>2, <3>3 DEF LeftTo, GivenUp
  <2> QED  BY <2>1, <2>2 DEF DraftedOnce
<1> QED  BY <1>1, ReplayInvariant, PTL

(* What the jobs of a batch have behind them: every row is of a pull       *)
(* request one of them chose, and while no claim was released each chose   *)
(* around rows that are still there.                                       *)
RowsWereChosen ==
  \A b \in BatchNames : \A p \in Pulls :
    reviewRuns[b][p] # Free => \E k \in Jobs : batch[k] = b /\ InList(chosen[k], p)

IdleHasNoBatch == \A j \in Jobs : jobAt[j] = "idle" => batch[j] = "none"

ChosenAround(j) ==
  \E e \in SUBSET ReplayedElsewhere(batch[j]) : chosen[j] = Choose(Seed(batch[j]), e)

NothingReleased ==
  spent = 0 => \A j \in Jobs : /\ jobAt[j] # "release"
                               /\ batch[j] \in BatchNames => ChosenAround(j)

ChoiceHistory == RowsWereChosen /\ IdleHasNoBatch /\ NothingReleased

(* A step that starts no job keeps it: only a release takes a row away.    *)
LEMMA HistoryKept ==
  ASSUME ReplayInv, ChoiceHistory, UNCHANGED <<batch, chosen>>, spent \in Nat,
         \A j \in Jobs : jobAt'[j] = "idle" => jobAt[j] = "idle",
         spent' = 0 => /\ spent = 0
                       /\ \A j \in Jobs : jobAt'[j] # "release"
                       /\ \A b \in BatchNames : \A p \in Pulls :
                            reviewRuns[b][p] # Free => reviewRuns'[b][p] # Free,
         \A b \in BatchNames : \A p \in Pulls :
           reviewRuns[b][p] = Free /\ reviewRuns'[b][p] # Free =>
             \E k \in Jobs : batch[k] = b /\ InList(chosen[k], p)
  PROVE  ChoiceHistory'
<1>1. RowsWereChosen'
  BY DEF ChoiceHistory, RowsWereChosen, InList
<1>2. IdleHasNoBatch'
  BY DEF ChoiceHistory, IdleHasNoBatch
<1>3. NothingReleased'
  <2>1. SUFFICES ASSUME spent' = 0, NEW j \in Jobs, batch[j] \in BatchNames
                 PROVE  ChosenAround(j)'
    BY DEF NothingReleased
  <2>2. PICK e \in SUBSET ReplayedElsewhere(batch[j]) : chosen[j] = Choose(Seed(batch[j]), e)
    BY <2>1 DEF ChoiceHistory, NothingReleased, ChosenAround
  <2>3. ReplayedElsewhere(batch[j]) \subseteq ReplayedElsewhere(batch[j])'
    BY <2>1 DEF ReplayedElsewhere
  <2>4. chosen'[j] = Choose(Seed(batch'[j]), e) /\ e \in SUBSET ReplayedElsewhere(batch[j])'
    BY <2>2, <2>3
  <2>5. batch' = batch
    OBVIOUS
  <2> QED  BY <2>4, <2>5 DEF ChosenAround
<1> QED  BY <1>1, <1>2, <1>3 DEF ChoiceHistory

LEMMA HistoryStarts ==
  ASSUME ReplayInv, ChoiceHistory, NEW j \in Jobs, NEW b \in BatchNames, NEW group \in Groups, Start(j, b, group)
  PROVE  ChoiceHistory'
<1>1. /\ batch[j] = "none" /\ batch' = [batch EXCEPT ![j] = b]
      /\ chosen' = [chosen EXCEPT ![j] = Choose(Seed(b), ReplayedElsewhere(b))]
      /\ jobAt' = [jobAt EXCEPT ![j] = IF chosen'[j] = <<>> THEN "done" ELSE "claim"]
      /\ reviewRuns' = reviewRuns /\ spent' = spent
  BY DEF Start, Goto, ChoiceHistory, IdleHasNoBatch
<1>2. b # "none" /\ "none" \notin BatchNames
  BY ReplayAssumption
<1>3. /\ batch'[j] = b /\ chosen'[j] = Choose(Seed(b), ReplayedElsewhere(b))
      /\ jobAt'[j] \in {"done", "claim"}
      /\ \A k \in Jobs : k # j =>
           batch'[k] = batch[k] /\ chosen'[k] = chosen[k] /\ jobAt'[k] = jobAt[k]
  BY <1>1 DEF ReplayInv, ReplayTypeOK
<1>4. \A c \in BatchNames : ReplayedElsewhere(c)' = ReplayedElsewhere(c)
  BY <1>1 DEF ReplayedElsewhere
<1>5. RowsWereChosen'
  <2>1. SUFFICES ASSUME NEW c \in BatchNames, NEW p \in Pulls, reviewRuns[c][p] # Free
                 PROVE  \E k \in Jobs : batch'[k] = c /\ InList(chosen'[k], p)
    BY <1>1 DEF RowsWereChosen, InList
  <2>2. PICK k \in Jobs : batch[k] = c /\ InList(chosen[k], p)
    BY <2>1 DEF ChoiceHistory, RowsWereChosen
  <2> QED  BY <1>1, <1>2, <1>3, <2>2 DEF InList
<1>6. IdleHasNoBatch'
  BY <1>3 DEF ChoiceHistory, IdleHasNoBatch
<1>7. NothingReleased'
  <2>1. SUFFICES ASSUME spent = 0, NEW k \in Jobs
                 PROVE  /\ jobAt'[k] # "release"
                        /\ batch'[k] \in BatchNames => ChosenAround(k)'
    BY <1>1 DEF NothingReleased
  <2>2. jobAt[k] # "release" /\ (batch[k] \in BatchNames => ChosenAround(k))
    BY <2>1 DEF ChoiceHistory, NothingReleased
  <2>3. CASE k = j
    <3>1. chosen'[k] = Choose(Seed(batch'[k]), ReplayedElsewhere(b)')
      BY <1>3, <1>4, <2>3
    <3>2. ReplayedElsewhere(b)' \in SUBSET ReplayedElsewhere(batch[k])'
      BY <1>3, <2>3
    <3> QED  BY <1>3, <2>3, <3>1, <3>2 DEF ChosenAround
  <2>4. CASE k # j
    <3>1. SUFFICES ASSUME batch[k] \in BatchNames
                   PROVE  ChosenAround(k)'
      BY <1>3, <2>2, <2>4
    <3>2. PICK e \in SUBSET ReplayedElsewhere(batch[k]) : chosen[k] = Choose(Seed(batch[k]), e)
      BY <2>2, <3>1 DEF ChosenAround
    <3>3. batch'[k] = batch[k] /\ chosen'[k] = chosen[k]
      BY <1>3, <2>4
    <3>4. ReplayedElsewhere(batch[k])' = ReplayedElsewhere(batch[k])
      BY <1>4, <3>1, <3>3
    <3> QED  BY <3>2, <3>3, <3>4 DEF ChosenAround
  <2> QED  BY <2>3, <2>4
<1> QED  BY <1>5, <1>6, <1>7 DEF ChoiceHistory

LEMMA HistoryMoves ==
  ASSUME ReplayInv, ChoiceHistory, NEW j \in Jobs, Step(j) \/ Die(j)
  PROVE  ChoiceHistory'
<1>1. Running(j) /\ UNCHANGED <<batch, chosen>>
  BY DEF Step, Claim, ReviewOne, FinishOne, Release, Die, jobVars, Running
<1>2. /\ batch[j] \in BatchNames /\ Pull(j) \in Pulls /\ InList(chosen[j], Pull(j))
      /\ RowOf(j) \in RunRow \cup {Free}
  BY <1>1, WhereItIs DEF InList, Pull
<1>3. /\ jobAt \in [Jobs -> PC] /\ spent \in Nat
      /\ reviewRuns \in [BatchNames -> [Pulls -> RunRow \cup {Free}]]
  BY DEF ReplayInv, ReplayTypeOK
<1>4. /\ \A k \in Jobs : jobAt'[k] = "idle" => jobAt[k] = "idle"
      /\ \A k \in Jobs : jobAt'[k] = "release" => jobAt[k] = "release" \/ spent' = spent + 1
      /\ spent' \in {spent, spent + 1}
  <2>1. CASE Claim(j) \/ FinishOne(j)
    BY <1>3, <2>1 DEF Claim, FinishOne, NextPull, Goto
  <2>2. CASE ReviewOne(j)
    BY <1>3, <2>2 DEF ReviewOne, Goto
  <2>3. CASE Release(j) \/ Die(j)
    BY <1>3, <2>3 DEF Release, Die, Goto
  <2> QED  BY <2>1, <2>2, <2>3 DEF Step
<1>5. spent' = 0 => spent = 0 /\ \A k \in Jobs : jobAt'[k] # "release" /\ jobAt[k] # "release"
  BY <1>3, <1>4 DEF ChoiceHistory, NothingReleased
<1>6. /\ jobAt[j] # "release" => \A b \in BatchNames : \A p \in Pulls :
           reviewRuns[b][p] # Free => reviewRuns'[b][p] # Free
      /\ \A b \in BatchNames : \A p \in Pulls :
           reviewRuns[b][p] = Free /\ reviewRuns'[b][p] # Free => b = batch[j] /\ p = Pull(j)
  <2>1. CASE Claim(j)
    <3>1. Open(j) # Free /\ Open(j) = [job |-> j, finished |-> FALSE]
      BY RowsAndJobs DEF Open
    <3>2. \/ reviewRuns' = reviewRuns
          \/ reviewRuns' = [reviewRuns EXCEPT ![batch[j]][Pull(j)] = Open(j)]
      BY <2>1, <3>1 DEF Claim
    <3> QED  BY <1>2, <1>3, <3>1, <3>2
  <2>2. CASE ReviewOne(j) \/ Die(j)
    BY <2>2 DEF ReviewOne, Die
  <2>3. CASE FinishOne(j)
    <3>1. reviewRuns' = [reviewRuns EXCEPT ![batch[j]][Pull(j)].finished = TRUE]
      BY <2>3 DEF FinishOne
    <3>2. reviewRuns'[batch[j]][Pull(j)].finished = TRUE
      BY <1>2, <1>3, <3>1 DEF RunRow, Free
    <3>3. \A b \in BatchNames : \A p \in Pulls :
            b # batch[j] \/ p # Pull(j) => reviewRuns'[b][p] = reviewRuns[b][p]
      BY <1>2, <1>3, <3>1
    <3> QED  BY <3>2, <3>3 DEF Free
  <2>4. CASE Release(j)
    BY <1>2, <1>3, <2>4 DEF Release, RowOf
  <2> QED  BY <2>1, <2>2, <2>3, <2>4 DEF Step
<1>7. spent' = 0 => /\ spent = 0
                    /\ \A k \in Jobs : jobAt'[k] # "release"
                    /\ \A b \in BatchNames : \A p \in Pulls :
                         reviewRuns[b][p] # Free => reviewRuns'[b][p] # Free
  BY <1>5, <1>6
<1>8. \A b \in BatchNames : \A p \in Pulls :
        reviewRuns[b][p] = Free /\ reviewRuns'[b][p] # Free =>
          \E k \in Jobs : batch[k] = b /\ InList(chosen[k], p)
  BY <1>2, <1>6
<1> QED  BY <1>1, <1>3, <1>4, <1>7, <1>8, HistoryKept

LEMMA HistoryInit == ASSUME ReplayInit PROVE ChoiceHistory
<1>1. RowsWereChosen /\ IdleHasNoBatch
  BY DEF ReplayInit, RowsWereChosen, IdleHasNoBatch
<1>2. NothingReleased
  BY ReplayAssumption DEF ReplayInit, NothingReleased
<1> QED  BY <1>1, <1>2 DEF ChoiceHistory

LEMMA HistoryNext ==
  ASSUME ReplayInv, ChoiceHistory, [ReplayNext]_replayVars
  PROVE  ChoiceHistory'
<1>1. CASE UNCHANGED replayVars
  <2>1. /\ UNCHANGED <<batch, chosen, jobAt, spent, reviewRuns>> /\ spent \in Nat
    BY <1>1 DEF replayVars, ReplayInv, ReplayTypeOK
  <2>2. spent = 0 => \A j \in Jobs : jobAt[j] # "release"
    BY DEF ChoiceHistory, NothingReleased
  <2> QED  BY <2>1, <2>2, HistoryKept
<1>2. ASSUME NEW j \in Jobs, NEW b \in BatchNames, NEW group \in Groups, Start(j, b, group)
      PROVE  ChoiceHistory'
  BY <1>2, HistoryStarts
<1>3. ASSUME NEW j \in Jobs, Step(j) \/ Die(j)
      PROVE  ChoiceHistory'
  BY <1>3, HistoryMoves
<1> QED  BY <1>1, <1>2, <1>3 DEF ReplayNext

(* The first job of a batch that is compared reads again what the other    *)
(* drafted: the rows the other chose around are closed to this one too, so *)
(* nothing is further behind than it was there.                            *)
LEMMA FirstReadsAgain ==
  ASSUME ReplayInv, ChoiceHistory, NEW b \in BatchNames, Undisturbed(b)
  PROVE  ReadsAgain(Choose(Seed(b), ReplayedElsewhere(b)), b)
<1>. DEFINE a == Seed(b)
            e == ReplayedElsewhere(b)
<1> USE DEF Undisturbed
<1>1. SUFFICES ASSUME NEW p \in Pulls, reviewRuns[a][p].finished,
                      \A third \in BatchNames \ ({b} \cup Compared(b)) : reviewRuns[third][p] = Free
               PROVE  InList(Choose(a, e), p)
  BY DEF ReadsAgain
<1>2. a \in BatchNames /\ Seed(a) = a
  BY SeedIsABatch DEF InSeries
<1>3. reviewRuns[a][p] # Free
  BY <1>1 DEF Free
<1>4. PICK k \in Jobs : batch[k] = a /\ InList(chosen[k], p)
  BY <1>2, <1>3 DEF ChoiceHistory, RowsWereChosen
<1>5. a # b /\ a \in Compared(b)
  <2>1. a # b
    BY <1>4
  <2>2. CompareTo[b] \in Seq(BatchNames) /\ CompareTo[b] # <<>> /\ a = CompareTo[b][1]
    BY <2>1, ReplayAssumption DEF Seed
  <2>3. 1 \in 1 .. Len(CompareTo[b])
    BY <2>2
  <2> QED  BY <2>1, <2>2, <2>3 DEF Compared
<1>6. PICK f \in SUBSET ReplayedElsewhere(a) : chosen[k] = Choose(a, f)
  BY <1>2, <1>4 DEF ChoiceHistory, NothingReleased, ChosenAround
<1>7. p \notin f /\ Standing(a, Pulls \ f, p) < Count
  BY <1>2, <1>4, <1>6, ChosenAre
<1>8. f \subseteq e
  <2>1. SUFFICES ASSUME NEW x \in f
                 PROVE  x \in e
    OBVIOUS
  <2>2. x \in Pulls
    BY <1>6 DEF ReplayedElsewhere
  <2>3. PICK other \in BatchNames \ {a} : reviewRuns[other][x] # Free
    BY <1>6 DEF ReplayedElsewhere
  <2>4. other # b
    <3>1. \E l \in Jobs : batch[l] = other
      BY <2>2, <2>3 DEF ChoiceHistory, RowsWereChosen
    <3> QED  BY <3>1
  <2>5. other \notin Compared(b)
    <3>1. SUFFICES ASSUME other \in Compared(b)
                   PROVE  FALSE
      OBVIOUS
    <3>2. ChoseAlike(a)
      BY <2>3, <3>1
    <3>3. reviewRuns[a][x] # Free
      BY <2>2, <2>3, <3>1 DEF InSeries
    <3>4. PICK l \in Jobs : batch[l] = a /\ InList(chosen[l], x)
      BY <1>2, <2>2, <3>3 DEF ChoiceHistory, RowsWereChosen
    <3>5. InList(Choose(a, f), x)
      BY <1>4, <1>6, <3>2, <3>4 DEF ChoseAlike
    <3> QED  BY <1>2, <2>2, <3>5, ChosenAre
  <2> QED  BY <2>2, <2>3, <2>4, <2>5 DEF ReplayedElsewhere
<1>9. p \notin e
  BY <1>1 DEF ReplayedElsewhere
<1>10. Standing(a, Pulls \ e, p) <= Standing(a, Pulls \ f, p)
  <2>1. PICK open \in SUBSET Pulls : open = Pulls \ f
    OBVIOUS
  <2>2. PICK few \in SUBSET open : few = Pulls \ e
    BY <1>8, <2>1
  <2>3. p \in few
    BY <1>9, <2>2
  <2>4. Standing(a, few, p) <= Standing(a, open, p)
    BY <1>2, <2>3, FewerAhead
  <2> QED  BY <2>1, <2>2, <2>4
<1>11. /\ Standing(a, Pulls \ e, p) \in Nat /\ Standing(a, Pulls \ f, p) \in Nat
  <2>1. \A open \in SUBSET Pulls : p \in open => Standing(a, open, p) \in Nat
    <3>1. SUFFICES ASSUME NEW open \in SUBSET Pulls, p \in open
                   PROVE  Standing(a, open, p) \in Nat
      OBVIOUS
    <3>2. /\ Cardinality(open) \in Nat
          /\ \A x \in open : Standing(a, open, x) \in 0 .. Cardinality(open) - 1
      BY <1>2, StandingsNumber
    <3> QED  BY <3>1, <3>2
  <2> QED  BY <1>7, <1>9, <2>1
<1>12. Standing(a, Pulls \ e, p) < Count
  BY <1>7, <1>10, <1>11, ReplayAssumption
<1> QED  BY <1>2, <1>9, <1>12, ChosenAre

(* Whatever other batches have claimed, a job spreads its choice over the  *)
(* repositories; and the first job of a batch that is compared chooses     *)
(* everything the batch it is compared to drafted and nobody else claimed. *)
THEOREM ChoiceAlwaysFair == ReplaySpec => ChoiceIsFair
<1>. DEFINE Fair == \A j \in Jobs : \A b \in BatchNames : \A group \in Groups : Start(j, b, group) =>
                      /\ IsSpread(chosen'[j], ReplayedElsewhere(b))
                      /\ Undisturbed(b) => ReadsAgain(chosen'[j], b)
<1>1. ReplayInit => ReplayInv /\ ChoiceHistory
  BY ReplayInvInit, HistoryInit
<1>2. (ReplayInv /\ ChoiceHistory) /\ [ReplayNext]_replayVars => (ReplayInv /\ ChoiceHistory)'
  BY ReplayInvNext, HistoryNext
<1>3. ReplayInv /\ ChoiceHistory => Fair
  <2>1. SUFFICES ASSUME ReplayInv, ChoiceHistory, NEW j \in Jobs, NEW b \in BatchNames, NEW group \in Groups, Start(j, b, group)
                 PROVE  /\ IsSpread(chosen'[j], ReplayedElsewhere(b))
                        /\ Undisturbed(b) => ReadsAgain(chosen'[j], b)
    OBVIOUS
  <2>2. chosen'[j] = Choose(Seed(b), ReplayedElsewhere(b))
    BY <2>1 DEF Start, ReplayInv, ReplayTypeOK
  <2>3. IsSpread(chosen'[j], ReplayedElsewhere(b))
    BY <2>2, SeedIsABatch, ChoiceSpreads
  <2>4. ASSUME Undisturbed(b)
        PROVE  ReadsAgain(chosen'[j], b)
    <3>1. ReadsAgain(Choose(Seed(b), ReplayedElsewhere(b)), b)
      BY <2>1, <2>4, FirstReadsAgain
    <3> QED  BY <2>2, <3>1
  <2> QED  BY <2>3, <2>4
<1>4. ReplayInv /\ ChoiceHistory => [Fair]_replayVars
  BY <1>3
<1> QED  BY <1>1, <1>2, <1>4, PTL DEF ReplaySpec, ChoiceIsFair

-----------------------------------------------------------------------------
(* The recall table: what it is made of belongs together, for every bound  *)
(* on the runs, minings and failures.                                      *)
FilesTyped ==
  /\ first \in FirstFile \cup {Missing}
  /\ shardScores \in [Shards -> ShardFile \cup {Missing}]
  /\ table # Missing => table.scored \in [Shards -> ShardFile \cup {Missing}]

(* What a job holds when it comes to write.                                *)
HoldsWhatItRead ==
  \A j \in JobNames :
    /\ job[j] \in {"text", "write", "mark"} => hold[j].manifest \in Corpora
    /\ job[j] \in {"write", "mark"} => hold[j].text \in Corpora

(* Only a local directory knows a moment between vectors and mark.         *)
MarkApartIsLocal == store = "hub" => \A p \in Parts : job[p] # "mark"

(* As long as nothing was read across a mining, the fingerprint a job      *)
(* writes is that of the text it writes about.                             *)
ReadsOneCorpus ==
  torn \/ /\ \A j \in JobNames :
               job[j] \in {"write", "mark"} => hold[j].manifest = hold[j].text
          /\ \A p \in Parts :
               vectors[p] # Missing => vectors[p].fingerprint = vectors[p].text

(* The first stage is over while its shards run, so the candidate lists a  *)
(* shard found changed are those it will be scored for.                    *)
ShardsComeAfter ==
  \A s \in Shards :
    /\ job[s] \in {"manifest", "text", "write"} => job[FirstStage] \in OverStates
    /\ job[s] \in {"text", "write"} =>
         /\ first # Missing
         /\ shardScores[s] = Missing \/ shardScores[s].candidates # Digest(first)

(* A shard was scored once for each change of the lists at most, and not   *)
(* yet for the last one if its digest is another's.                        *)
ScoredPerChange ==
  \A s \in Shards : shardScores[s] # Missing =>
    /\ first # Missing
    /\ shardScores[s].times <= first.changes
    /\ shardScores[s].candidates # Digest(first) => shardScores[s].times < first.changes

TableInv ==
  /\ TableTypeOK /\ FilesTyped /\ HoldsWhatItRead /\ MarkApartIsLocal
  /\ ReadsOneCorpus /\ ShardsComeAfter /\ ScoredPerChange /\ TableIsOneStudy

-----------------------------------------------------------------------------
(* The names of the jobs are distinct.                                     *)
LEMMA JobsApart ==
  /\ Parts \subseteq JobNames /\ Shards \subseteq JobNames
  /\ FirstStage \in JobNames /\ Table \in JobNames /\ FirstStage # Table
  /\ \A s \in Shards : s \notin Parts /\ s # FirstStage /\ s # Table
  /\ \A p \in Parts : p # FirstStage /\ p # Table
BY TableAssumption DEF JobNames, FirstStage, Table

(* A move of one job.                                                      *)
LEMMA Moved ==
  ASSUME TableInv, NEW j \in JobNames, NEW to \in States, Become(j, to)
  PROVE  /\ job' \in [JobNames -> States]
         /\ job'[j] = to
         /\ \A k \in JobNames : k # j => job'[k] = job[k]
BY DEF TableInv, TableTypeOK, Become

LEMMA TableInvInit == ASSUME TableInit PROVE TableInv
<1> USE DEF TableInit
<1>1. TableTypeOK
  <2>1. /\ runs \in 0 .. MaxTableRuns /\ minings \in 0 .. MaxMinings
        /\ failures \in 0 .. MaxJobFailures
    BY TableAssumption
  <2>2. job \in [JobNames -> States]  BY DEF States
  <2>3. hold \in [JobNames -> [manifest : Corpora \cup {Missing}, text : Corpora \cup {Missing}]]
    BY DEF NoHold
  <2>4. /\ vectors \in [Parts -> PartFile \cup {Missing}]
        /\ marks \in [Parts -> Corpora \cup {Missing}]
    OBVIOUS
  <2>5. \A s \in Shards : shardScores[s] = Missing
    OBVIOUS
  <2> QED  BY <2>1, <2>2, <2>3, <2>4, <2>5 DEF TableTypeOK
<1>2. FilesTyped  BY DEF FilesTyped
<1>3. HoldsWhatItRead /\ MarkApartIsLocal /\ ReadsOneCorpus /\ ShardsComeAfter
  BY JobsApart DEF HoldsWhatItRead, MarkApartIsLocal, ReadsOneCorpus, ShardsComeAfter
<1>4. ScoredPerChange /\ TableIsOneStudy
  BY DEF ScoredPerChange, TableIsOneStudy
<1> QED  BY <1>1, <1>2, <1>3, <1>4 DEF TableInv

(* A job that ends, or waits, leaves everything it did as it is.           *)
LEMMA RestKeepsInv ==
  ASSUME TableInv, TableTypeOK',
         NEW j \in JobNames, NEW to \in OverStates \cup {"waiting"}, Become(j, to),
         UNCHANGED <<store, derivedVars, hold, torn>>,
         j = FirstStage => to \in OverStates
  PROVE  TableInv'
<1> USE DEF TableInv, derivedVars
<1>1. to \in States  BY DEF OverStates, States
<1>2. /\ job'[j] = to
      /\ \A k \in JobNames : k # j => job'[k] = job[k]
  BY <1>1, Moved
<1>3. job'[j] \notin {"manifest", "text", "write", "mark"}  BY <1>2 DEF OverStates
<1>4. \A k \in JobNames : job'[k] \in {"manifest", "text", "write", "mark"} => job'[k] = job[k]
  BY <1>2, <1>3
<1>5. FilesTyped'  BY DEF FilesTyped
<1>6. HoldsWhatItRead'  BY <1>4 DEF HoldsWhatItRead
<1>7. MarkApartIsLocal'  BY <1>4, JobsApart DEF MarkApartIsLocal
<1>8. ReadsOneCorpus'  BY <1>4 DEF ReadsOneCorpus
<1>9. job[FirstStage] \in OverStates => job'[FirstStage] \in OverStates
  BY <1>2, JobsApart
<1>10. ShardsComeAfter'  BY <1>4, <1>9, JobsApart DEF ShardsComeAfter, Digest
<1>11. ScoredPerChange'  BY DEF ScoredPerChange, Digest
<1>12. TableIsOneStudy'  BY DEF TableIsOneStudy
<1> QED  BY <1>5, <1>6, <1>7, <1>8, <1>10, <1>11, <1>12

(* A read of the manifest, or of the text after it.                        *)
LEMMA ReadKeepsInv ==
  ASSUME TableInv, NEW j \in JobNames,
         \/ job[j] = "manifest" /\ Read(j, "manifest", "text")
         \/ job[j] = "text" /\ Read(j, "text", "write"),
         (j \in Shards /\ job[j] = "manifest") =>
           /\ first # Missing
           /\ shardScores[j] = Missing \/ shardScores[j].candidates # Digest(first)
  PROVE  TableInv'
<1> USE DEF TableInv, derivedVars
<1>1. PICK what \in {"manifest", "text"}, next \in {"text", "write"} :
        /\ job[j] = what /\ Read(j, what, next)
        /\ what = "manifest" <=> next = "text"
  OBVIOUS
<1>2. next \in States  BY DEF States
<1>3. /\ job' \in [JobNames -> States]
      /\ job'[j] = next
      /\ \A k \in JobNames : k # j => job'[k] = job[k]
  BY <1>1, <1>2, Moved DEF Read
<1>4. /\ hold' = [hold EXCEPT ![j][what] = corpus]
      /\ UNCHANGED <<store, corpus, vectors, marks, first, shardScores, table,
                     runs, minings, failures>>
      /\ torn' = (torn \/ (what = "text" /\ corpus # hold[j].manifest))
  BY <1>1 DEF Read
<1>5. corpus \in Corpora /\ hold \in [JobNames -> [manifest : Corpora \cup {Missing},
                                                   text : Corpora \cup {Missing}]]
  BY DEF TableTypeOK
<1>6. /\ hold' \in [JobNames -> [manifest : Corpora \cup {Missing}, text : Corpora \cup {Missing}]]
      /\ \A k \in JobNames : k # j => hold'[k] = hold[k]
      /\ what = "manifest" => hold'[j].manifest = corpus
      /\ what = "text" => hold'[j].text = corpus /\ hold'[j].manifest = hold[j].manifest
  BY <1>4, <1>5
<1>7. TableTypeOK'
  <2>1. torn' \in BOOLEAN  BY <1>4
  <2> QED  BY <1>3, <1>4, <1>6, <2>1 DEF TableTypeOK
<1>8. FilesTyped'  BY <1>4 DEF FilesTyped
<1>9. HoldsWhatItRead'
  <2> SUFFICES ASSUME NEW k \in JobNames
               PROVE  /\ job'[k] \in {"text", "write", "mark"} => hold'[k].manifest \in Corpora
                      /\ job'[k] \in {"write", "mark"} => hold'[k].text \in Corpora
    BY DEF HoldsWhatItRead
  <2>1. CASE k # j  BY <2>1, <1>3, <1>6 DEF HoldsWhatItRead
  <2>2. CASE k = j  BY <2>2, <1>1, <1>3, <1>5, <1>6 DEF HoldsWhatItRead
  <2> QED  BY <2>1, <2>2
<1>10. MarkApartIsLocal'
  BY <1>1, <1>3, <1>4, JobsApart DEF MarkApartIsLocal
<1>11. ReadsOneCorpus'
  <2> SUFFICES ASSUME ~torn'
               PROVE  /\ \A k \in JobNames :
                            job'[k] \in {"write", "mark"} => hold'[k].manifest = hold'[k].text
                      /\ \A p \in Parts :
                           vectors'[p] # Missing => vectors'[p].fingerprint = vectors'[p].text
    BY DEF ReadsOneCorpus
  <2>1. ~torn /\ (what = "text" => corpus = hold[j].manifest)  BY <1>4
  <2>2. \A p \in Parts : vectors'[p] # Missing => vectors'[p].fingerprint = vectors'[p].text
    BY <1>4, <2>1 DEF ReadsOneCorpus
  <2>3. ASSUME NEW k \in JobNames, job'[k] \in {"write", "mark"}
        PROVE  hold'[k].manifest = hold'[k].text
    <3>1. CASE k # j  BY <3>1, <2>1, <2>3, <1>3, <1>6 DEF ReadsOneCorpus
    <3>2. CASE k = j  BY <3>2, <2>1, <2>3, <1>1, <1>3, <1>6
    <3> QED  BY <3>1, <3>2
  <2> QED  BY <2>2, <2>3
<1>12. ShardsComeAfter'
  <2> SUFFICES ASSUME NEW s \in Shards
               PROVE  /\ job'[s] \in {"manifest", "text", "write"} => job'[FirstStage] \in OverStates
                      /\ job'[s] \in {"text", "write"} =>
                           /\ first # Missing
                           /\ shardScores[s] = Missing \/ shardScores[s].candidates # Digest(first)
    BY <1>4 DEF ShardsComeAfter, Digest
  <2>1. job[s] \in {"manifest", "text", "write"} =>
           job[FirstStage] \in OverStates /\ job'[FirstStage] = job[FirstStage]
    BY <1>1, <1>3, JobsApart DEF ShardsComeAfter, OverStates
  <2>2. CASE s # j  BY <2>1, <2>2, <1>3, JobsApart DEF ShardsComeAfter
  <2>3. CASE s = j  BY <2>1, <2>3, <1>1, <1>3, JobsApart DEF ShardsComeAfter
  <2> QED  BY <2>2, <2>3
<1>13. ScoredPerChange'  BY <1>4 DEF ScoredPerChange, Digest
<1>14. TableIsOneStudy'  BY <1>4 DEF TableIsOneStudy
<1> QED  BY <1>7, <1>8, <1>9, <1>10, <1>11, <1>12, <1>13, <1>14

-----------------------------------------------------------------------------
LEMMA DispatchKeepsInv ==
  ASSUME TableInv, NEW stage, Dispatch(stage)  PROVE TableInv'
<1> USE DEF TableInv, derivedVars
<1>1. /\ UNCHANGED <<store, corpus, vectors, marks, first, shardScores, table,
                     minings, failures, torn>>
      /\ job' \in [JobNames -> {"skipped", "waiting"}]
      /\ hold' = [j \in JobNames |-> NoHold]
  BY DEF Dispatch
<1>2. \A j \in JobNames : job'[j] \notin {"manifest", "text", "write", "mark"}
  BY <1>1
<1>3. TableTypeOK'
  <2>1. job' \in [JobNames -> States]  BY <1>1 DEF States
  <2>2. hold' \in [JobNames -> [manifest : Corpora \cup {Missing}, text : Corpora \cup {Missing}]]
    BY <1>1 DEF NoHold
  <2>3. runs' \in 0 .. MaxTableRuns
    BY TableAssumption DEF TableTypeOK, Dispatch
  <2> QED  BY <1>1, <2>1, <2>2, <2>3 DEF TableTypeOK
<1>4. FilesTyped'  BY <1>1 DEF FilesTyped
<1>5. HoldsWhatItRead' /\ MarkApartIsLocal'
  BY <1>2, JobsApart DEF HoldsWhatItRead, MarkApartIsLocal
<1>6. ReadsOneCorpus'  BY <1>1, <1>2 DEF ReadsOneCorpus
<1>7. ShardsComeAfter'  BY <1>2, JobsApart DEF ShardsComeAfter
<1>8. ScoredPerChange' /\ TableIsOneStudy'
  BY <1>1 DEF ScoredPerChange, TableIsOneStudy, Digest
<1> QED  BY <1>3, <1>4, <1>5, <1>6, <1>7, <1>8

(* A job that starts: a shard only when the first stage is over.           *)
LEMMA StartKeepsInv ==
  ASSUME TableInv, NEW j \in JobNames, StartJob(j)  PROVE TableInv'
<1> USE DEF TableInv, derivedVars
<1>1. /\ UNCHANGED <<store, corpus, vectors, marks, first, shardScores, table,
                     hold, runs, minings, failures, torn>>
      /\ job[j] = "waiting" /\ AllOver(Needs(j))
  BY DEF StartJob
<1>2. PICK to \in {"skipped", "manifest"} : Become(j, to)
  BY DEF StartJob
<1>3. /\ job' \in [JobNames -> States]
      /\ job'[j] = to
      /\ \A k \in JobNames : k # j => job'[k] = job[k]
  BY <1>2, Moved DEF States
<1>4. TableTypeOK'  BY <1>1, <1>3 DEF TableTypeOK
<1>5. FilesTyped'  BY <1>1 DEF FilesTyped
<1>6. \A k \in JobNames : job'[k] \in {"text", "write", "mark"} => job'[k] = job[k]
  BY <1>3
<1>7. HoldsWhatItRead'  BY <1>1, <1>6 DEF HoldsWhatItRead
<1>8. MarkApartIsLocal'  BY <1>1, <1>6, JobsApart DEF MarkApartIsLocal
<1>9. ReadsOneCorpus'  BY <1>1, <1>6 DEF ReadsOneCorpus
<1>10. ShardsComeAfter'
  <2> SUFFICES ASSUME NEW s \in Shards
               PROVE  /\ job'[s] \in {"manifest", "text", "write"} => job'[FirstStage] \in OverStates
                      /\ job'[s] \in {"text", "write"} =>
                           /\ first # Missing
                           /\ shardScores[s] = Missing \/ shardScores[s].candidates # Digest(first)
    BY <1>1 DEF ShardsComeAfter, Digest
  <2>1. CASE s = j
    <3>1. FirstStage \in Needs(j)  BY <2>1, JobsApart DEF Needs
    <3>2. job[FirstStage] \in OverStates  BY <1>1, <3>1 DEF AllOver
    <3>3. job'[FirstStage] = job[FirstStage]  BY <2>1, <1>3, JobsApart
    <3> QED  BY <2>1, <1>3, <3>2, <3>3
  <2>2. CASE s # j
    <3>1. job[FirstStage] \in OverStates => job'[FirstStage] \in OverStates
      BY <1>1, <1>3, JobsApart DEF OverStates
    <3> QED  BY <2>2, <3>1, <1>3, JobsApart DEF ShardsComeAfter
  <2> QED  BY <2>1, <2>2
<1>11. ScoredPerChange' /\ TableIsOneStudy'
  BY <1>1 DEF ScoredPerChange, TableIsOneStudy, Digest
<1> QED  BY <1>4, <1>5, <1>7, <1>8, <1>9, <1>10, <1>11

(* A job that fails, for a reason of its own or another.                   *)
LEMMA FailKeepsInv ==
  ASSUME TableInv, NEW j \in JobNames, FailJob(j), failures' \in 0 .. MaxJobFailures
  PROVE  TableInv'
<1>1. /\ Become(j, "failed")
      /\ UNCHANGED <<store, corpus, vectors, marks, first, shardScores, table,
                     hold, runs, minings, torn>>
  BY DEF FailJob, derivedVars
<1>2. job' \in [JobNames -> States]  BY <1>1, Moved DEF States
<1>3. TableTypeOK'  BY <1>1, <1>2 DEF TableInv, TableTypeOK
<1> QED  BY <1>1, <1>3, RestKeepsInv DEF OverStates, derivedVars

LEMMA RefusedKeepsInv ==
  ASSUME TableInv, NEW j \in JobNames, Refused(j)  PROVE TableInv'
BY FailKeepsInv DEF Refused, TableInv, TableTypeOK

(* Mining moves the corpus under the jobs, and touches nothing they hold.  *)
LEMMA MineKeepsInv ==
  ASSUME TableInv, NEW c \in Corpora, Mine(c)  PROVE TableInv'
<1> USE DEF TableInv, derivedVars, Mine
<1>1. TableTypeOK'  BY TableAssumption DEF TableTypeOK
<1>2. FilesTyped' /\ HoldsWhatItRead' /\ MarkApartIsLocal' /\ ReadsOneCorpus'
  BY DEF FilesTyped, HoldsWhatItRead, MarkApartIsLocal, ReadsOneCorpus
<1>3. ShardsComeAfter' /\ ScoredPerChange' /\ TableIsOneStudy'
  BY DEF ShardsComeAfter, ScoredPerChange, TableIsOneStudy, Digest
<1> QED  BY <1>1, <1>2, <1>3

(* The vectors and the mark of one part, written as one or one by one.     *)
LEMMA PartWriteKeepsInv ==
  ASSUME TableInv, NEW p \in Parts, Embed(p) \/ Mark(p)  PROVE TableInv'
<1> USE DEF TableInv
<1>1. /\ UNCHANGED <<store, corpus, first, shardScores, table, hold, runs, minings, failures, torn>>
      /\ job[p] \in {"write", "mark"}
  BY DEF Embed, Mark
<1>2. p \in JobNames /\ p # FirstStage  BY JobsApart
<1>3. PICK to \in {"done", "mark"} :
        /\ Become(p, to)
        /\ to = "mark" => store # "hub" /\ job[p] = "write"
  BY DEF Embed, Mark
<1>4. /\ job' \in [JobNames -> States]
      /\ job'[p] = to
      /\ \A k \in JobNames : k # p => job'[k] = job[k]
  BY <1>2, <1>3, Moved DEF States
<1>5. hold[p].manifest \in Corpora /\ hold[p].text \in Corpora
  BY <1>1, <1>2 DEF HoldsWhatItRead
<1>6. vectors' = vectors
      \/ vectors' = [vectors EXCEPT ![p] = [fingerprint |-> hold[p].manifest, text |-> hold[p].text]]
  BY DEF Embed, Mark
<1>7. marks' = marks \/ marks' = [marks EXCEPT ![p] = hold[p].manifest]
  BY DEF Embed, Mark
<1>8. TableTypeOK'
  <2>1. vectors' \in [Parts -> PartFile \cup {Missing}]
    BY <1>5, <1>6 DEF TableTypeOK, PartFile
  <2>2. marks' \in [Parts -> Corpora \cup {Missing}]
    BY <1>5, <1>7 DEF TableTypeOK
  <2> QED  BY <1>1, <1>4, <2>1, <2>2 DEF TableTypeOK
<1>9. FilesTyped'  BY <1>1 DEF FilesTyped
<1>10. HoldsWhatItRead'  BY <1>1, <1>3, <1>4, <1>5 DEF HoldsWhatItRead
<1>11. MarkApartIsLocal'  BY <1>1, <1>3, <1>4, JobsApart DEF MarkApartIsLocal
<1>12. ReadsOneCorpus'
  <2> SUFFICES ASSUME ~torn
               PROVE  /\ \A j \in JobNames :
                            job'[j] \in {"write", "mark"} => hold[j].manifest = hold[j].text
                      /\ \A q \in Parts :
                           vectors'[q] # Missing => vectors'[q].fingerprint = vectors'[q].text
    BY <1>1 DEF ReadsOneCorpus
  <2>1. \A j \in JobNames : job[j] \in {"write", "mark"} => hold[j].manifest = hold[j].text
    BY DEF ReadsOneCorpus
  <2>2. \A j \in JobNames : job'[j] \in {"write", "mark"} => job[j] \in {"write", "mark"}
    BY <1>1, <1>2, <1>4
  <2>3. hold[p].manifest = hold[p].text  BY <2>1, <1>1, <1>2
  <2>4. ASSUME NEW q \in Parts, vectors'[q] # Missing
        PROVE  vectors'[q].fingerprint = vectors'[q].text
    BY <2>3, <2>4, <1>6 DEF ReadsOneCorpus, TableTypeOK
  <2> QED  BY <2>1, <2>2, <2>4
<1>13. ShardsComeAfter'  BY <1>1, <1>4, JobsApart DEF ShardsComeAfter, Digest
<1>14. ScoredPerChange'  BY <1>1 DEF ScoredPerChange, Digest
<1>15. TableIsOneStudy'
  <2> SUFFICES ASSUME store = "hub", NEW q \in Parts
               PROVE  marks'[q] = IF vectors'[q] = Missing THEN Missing ELSE vectors'[q].fingerprint
    BY <1>1 DEF TableIsOneStudy
  <2>1. marks[q] = IF vectors[q] = Missing THEN Missing ELSE vectors[q].fingerprint
    BY DEF TableIsOneStudy
  <2>2. Embed(p) /\ job[p] = "write"  BY <1>1 DEF MarkApartIsLocal, Mark, Embed
  <2>3. CASE marks[p] = hold[p].manifest
    BY <2>1, <2>2, <2>3 DEF Embed
  <2>4. CASE marks[p] # hold[p].manifest
    <3>1. /\ vectors' = [vectors EXCEPT ![p] = [fingerprint |-> hold[p].manifest, text |-> hold[p].text]]
          /\ marks' = [marks EXCEPT ![p] = hold[p].manifest]
      BY <2>2, <2>4 DEF Embed
    <3>2. CASE q # p  BY <2>1, <3>1, <3>2 DEF TableTypeOK
    <3>3. CASE q = p
      <4>1. /\ vectors'[q] = [fingerprint |-> hold[p].manifest, text |-> hold[p].text]
            /\ marks'[q] = hold[p].manifest
        BY <3>1, <3>3 DEF TableTypeOK
      <4>2. vectors'[q] \in PartFile  BY <4>1, <1>5 DEF PartFile
      <4> QED  BY <4>1, <4>2, TableAssumption
    <3> QED  BY <3>2, <3>3
  <2> QED  BY <2>3, <2>4
<1> QED  BY <1>8, <1>9, <1>10, <1>11, <1>12, <1>13, <1>14, <1>15

(* The first stage: its lists change, and the change is counted.  No shard *)
(* is running, so none was about to be scored for the lists before.        *)
LEMMA WriteFirstKeepsInv ==
  ASSUME TableInv, WriteFirst  PROVE TableInv'
<1> USE DEF TableInv
<1> DEFINE h == hold[FirstStage]
           used == [p \in Parts |-> IF vectors[p] = Missing THEN Missing ELSE vectors[p].text]
           matching == \A p \in Parts : used[p] = h.text
           Lists == IF matching THEN {CandidatesOf[h.text]} ELSE {CandidatesOf[c] : c \in Corpora}
           New(found) == [run |-> runs, fingerprint |-> h.manifest, text |-> h.text,
                          vectors |-> used, candidates |-> found,
                          changes |-> IF first = Missing THEN 1
                                      ELSE IF first.candidates = found THEN first.changes
                                      ELSE first.changes + 1]
<1>1. job[FirstStage] = "write" /\ FirstStage \in JobNames
  BY JobsApart DEF WriteFirst
<1>2. CASE Refused(FirstStage)  BY <1>1, <1>2, RefusedKeepsInv
<1>3. CASE ~Refused(FirstStage)
  <2>1. PICK found \in Lists : first' = New(found)
    BY <1>3 DEF WriteFirst
  <2>2. /\ \A p \in Parts : Loads(p, h.manifest)
        /\ Become(FirstStage, "done")
        /\ UNCHANGED <<store, corpus, vectors, marks, shardScores, table,
                       hold, runs, minings, failures, torn>>
    BY <1>3 DEF WriteFirst
  <2>3. /\ job' \in [JobNames -> States]
        /\ job'[FirstStage] = "done"
        /\ \A k \in JobNames : k # FirstStage => job'[k] = job[k]
    BY <1>1, <2>2, Moved DEF States
  <2>4. h.manifest \in Corpora /\ h.text \in Corpora
    BY <1>1 DEF HoldsWhatItRead
  <2>5. found \in CandidateLists  BY <2>4 DEF CandidateLists
  <2>6. used \in [Parts -> Corpora \cup {Missing}]  BY DEF TableTypeOK, PartFile
  <2>7. first' \in FirstFile
    <3>1. runs \in Nat  BY TableAssumption DEF TableTypeOK
    <3>2. New(found).changes \in Nat \ {0}  BY DEF FilesTyped, FirstFile
    <3> HIDE DEF h, used
    <3> QED  BY <2>1, <2>4, <2>5, <2>6, <3>1, <3>2 DEF FirstFile
  <2>8. /\ first'.text = h.text /\ first'.candidates = found /\ first'.vectors = used
        /\ first'.changes = New(found).changes
    BY <2>1
  <2>9. first' # Missing  BY <2>7, TableAssumption
  <2>10. \A k \in JobNames : job'[k] \in {"manifest", "text", "write", "mark"} =>
            job'[k] = job[k] /\ k # FirstStage
    BY <2>3
  <2>11. TableTypeOK'
    <3>1. first' = Missing \/ first'.text \in Corpora  BY <2>4, <2>8
    <3> QED  BY <2>2, <2>3, <3>1 DEF TableTypeOK
  <2>12. FilesTyped'  BY <2>2, <2>7 DEF FilesTyped
  <2>13. HoldsWhatItRead'  BY <2>2, <2>10 DEF HoldsWhatItRead
  <2>14. MarkApartIsLocal'  BY <2>2, <2>10, JobsApart DEF MarkApartIsLocal
  <2>15. ReadsOneCorpus'  BY <2>2, <2>10 DEF ReadsOneCorpus
  <2>16. \A s \in Shards : job'[s] \notin {"manifest", "text", "write"}
    BY <1>1, <2>10, JobsApart DEF ShardsComeAfter, OverStates
  <2>17. ShardsComeAfter'  BY <2>16 DEF ShardsComeAfter
  <2>18. ScoredPerChange'
    <3> SUFFICES ASSUME NEW s \in Shards, shardScores[s] # Missing
                 PROVE  /\ shardScores[s].times <= first'.changes
                        /\ shardScores[s].candidates # first'.candidates =>
                             shardScores[s].times < first'.changes
      BY <2>2, <2>9 DEF ScoredPerChange, Digest
    <3>1. /\ first # Missing
          /\ shardScores[s].times <= first.changes
          /\ shardScores[s].candidates # first.candidates =>
               shardScores[s].times < first.changes
      BY DEF ScoredPerChange, Digest
    <3>2. shardScores[s].times \in Nat /\ first.changes \in Nat
      BY <3>1 DEF FilesTyped, ShardFile, FirstFile
    <3>3. first'.changes = IF first.candidates = found THEN first.changes ELSE first.changes + 1
      BY <2>8, <3>1
    <3> QED  BY <2>8, <3>1, <3>2, <3>3
  <2>19. TableIsOneStudy'
    <3>1. \A s \in Shards : shardScores[s] = Missing \/ shardScores[s].times <= first'.changes
      BY <2>2, <2>18 DEF ScoredPerChange
    <3>2. ASSUME ~torn, NEW p \in Parts  PROVE first'.vectors[p] = first'.text
      <4>1. h.manifest = h.text  BY <1>1, <3>2 DEF ReadsOneCorpus
      <4>2. vectors[p] # Missing /\ vectors[p].fingerprint = h.manifest
        BY <2>2 DEF Loads
      <4>3. vectors[p].fingerprint = vectors[p].text  BY <3>2, <4>2 DEF ReadsOneCorpus
      <4> QED  BY <2>8, <4>1, <4>2, <4>3
    <3> QED  BY <2>2, <3>1, <3>2 DEF TableIsOneStudy
  <2> QED  BY <2>11, <2>12, <2>13, <2>14, <2>15, <2>17, <2>18, <2>19
<1> QED  BY <1>2, <1>3

(* A shard already scored for these lists has nothing to do, so one that   *)
(* goes on has a change of the lists to be scored for.                     *)
LEMMA RerankManifestKeepsInv ==
  ASSUME TableInv, NEW s \in Shards, RerankManifest(s)  PROVE TableInv'
<1> USE DEF RerankManifest
<1>1. s \in JobNames /\ s # FirstStage  BY JobsApart
<1>2. CASE first = Missing  BY <1>1, <1>2, RefusedKeepsInv
<1>3. CASE first # Missing /\ shardScores[s] # Missing /\ shardScores[s].candidates = Digest(first)
  <2>1. /\ Become(s, "done")
        /\ UNCHANGED <<store, corpus, derivedVars, hold, runs, minings, failures, torn>>
    BY <1>3
  <2>2. job' \in [JobNames -> States]  BY <1>1, <2>1, Moved DEF States
  <2>3. TableTypeOK'  BY <2>1, <2>2 DEF TableInv, TableTypeOK, derivedVars
  <2> QED  BY <1>1, <2>1, <2>3, RestKeepsInv DEF OverStates
<1>4. CASE first # Missing /\ ~(shardScores[s] # Missing /\ shardScores[s].candidates = Digest(first))
  BY <1>1, <1>4, ReadKeepsInv
<1> QED  BY <1>2, <1>3, <1>4

(* The scores of one shard: once more than before, and for the lists of    *)
(* the moment.                                                             *)
LEMMA RerankKeepsInv ==
  ASSUME TableInv, NEW s \in Shards, Rerank(s)  PROVE TableInv'
<1> USE DEF TableInv
<1> DEFINE times == IF shardScores[s] = Missing THEN 1 ELSE shardScores[s].times + 1
           scored == [candidates |-> Digest(first), text |-> hold[s].text, times |-> times]
<1>1. /\ job[s] = "write"
      /\ s \in JobNames /\ s # FirstStage
  BY JobsApart DEF Rerank
<1>2. CASE Refused(s)  BY <1>1, <1>2, RefusedKeepsInv
<1>3. CASE ~Refused(s)
  <2>1. /\ shardScores' = [shardScores EXCEPT ![s] = scored]
        /\ Become(s, "done")
        /\ UNCHANGED <<store, corpus, vectors, marks, first, table, hold, runs, minings, failures, torn>>
    BY <1>3 DEF Rerank
  <2>2. /\ job' \in [JobNames -> States]
        /\ job'[s] = "done"
        /\ \A k \in JobNames : k # s => job'[k] = job[k]
    BY <1>1, <2>1, Moved DEF States
  <2>3. /\ first # Missing
        /\ shardScores[s] = Missing \/ shardScores[s].candidates # Digest(first)
        /\ job[FirstStage] \in OverStates
    BY <1>1 DEF ShardsComeAfter
  <2>4. /\ first.candidates \in CandidateLists /\ first.changes \in Nat \ {0}
        /\ Digest(first) = first.candidates
    BY <2>3 DEF FilesTyped, FirstFile, Digest
  <2>5. times \in Nat \ {0} /\ times <= first.changes
    <3>1. CASE shardScores[s] = Missing  BY <2>4, <3>1
    <3>2. CASE shardScores[s] # Missing
      <4>1. shardScores[s].times \in Nat  BY <3>2 DEF FilesTyped, ShardFile
      <4>2. shardScores[s].times < first.changes  BY <2>3, <3>2 DEF ScoredPerChange
      <4> QED  BY <2>4, <3>2, <4>1, <4>2
    <3> QED  BY <3>1, <3>2
  <2>6. hold[s].text \in Corpora  BY <1>1 DEF HoldsWhatItRead
  <2>7. scored \in ShardFile  BY <2>4, <2>5, <2>6 DEF ShardFile
  <2>8. /\ shardScores' \in [Shards -> ShardFile \cup {Missing}]
        /\ shardScores'[s] = scored
        /\ \A t \in Shards : t # s => shardScores'[t] = shardScores[t]
    BY <2>1, <2>7 DEF FilesTyped
  <2>9. \A k \in JobNames : job'[k] \in {"manifest", "text", "write", "mark"} =>
           job'[k] = job[k] /\ k # s
    BY <2>2
  <2>10. TableTypeOK'
    <3>1. \A t \in Shards : shardScores'[t] = Missing \/ shardScores'[t].text \in Corpora
      BY <2>8 DEF ShardFile
    <3> QED  BY <2>1, <2>2, <3>1 DEF TableTypeOK
  <2>11. FilesTyped'  BY <2>1, <2>8 DEF FilesTyped
  <2>12. HoldsWhatItRead'  BY <2>1, <2>9 DEF HoldsWhatItRead
  <2>13. MarkApartIsLocal'  BY <2>1, <2>9, JobsApart DEF MarkApartIsLocal
  <2>14. ReadsOneCorpus'  BY <2>1, <2>9 DEF ReadsOneCorpus
  <2>15. ShardsComeAfter'
    <3>1. job'[FirstStage] = job[FirstStage]  BY <1>1, <2>2, JobsApart
    <3> QED  BY <2>1, <2>8, <2>9, <3>1, JobsApart DEF ShardsComeAfter, Digest
  <2>16. ScoredPerChange'
    <3> SUFFICES ASSUME NEW t \in Shards, shardScores'[t] # Missing
                 PROVE  /\ first # Missing
                        /\ shardScores'[t].times <= first.changes
                        /\ shardScores'[t].candidates # first.candidates =>
                             shardScores'[t].times < first.changes
      BY <2>1 DEF ScoredPerChange, Digest
    <3>1. CASE t = s  BY <2>3, <2>4, <2>5, <2>8, <3>1
    <3>2. CASE t # s  BY <2>8, <3>2 DEF ScoredPerChange, Digest
    <3> QED  BY <3>1, <3>2
  <2>17. TableIsOneStudy'  BY <2>1, <2>16 DEF TableIsOneStudy, ScoredPerChange
  <2> QED  BY <2>10, <2>11, <2>12, <2>13, <2>14, <2>15, <2>16, <2>17
<1> QED  BY <1>2, <1>3

LEMMA WriteTableKeepsInv ==
  ASSUME TableInv, WriteTable  PROVE TableInv'
<1> USE DEF TableInv
<1>1. job[Table] = "manifest" /\ Table \in JobNames /\ Table # FirstStage
  BY JobsApart DEF WriteTable
<1>2. CASE Refused(Table)  BY <1>1, <1>2, RefusedKeepsInv
<1>3. CASE ~Refused(Table)
  <2>1. /\ \A s \in Shards : shardScores[s] # Missing /\ shardScores[s].candidates = Digest(first)
        /\ table' = [first |-> first, scored |-> shardScores]
        /\ Become(Table, "done")
        /\ UNCHANGED <<store, corpus, vectors, marks, first, shardScores,
                       hold, runs, minings, failures, torn>>
    BY <1>3 DEF WriteTable
  <2>2. /\ job' \in [JobNames -> States]
        /\ job'[Table] = "done"
        /\ \A k \in JobNames : k # Table => job'[k] = job[k]
    BY <1>1, <2>1, Moved DEF States
  <2>3. \A k \in JobNames : job'[k] \in {"manifest", "text", "write", "mark"} => job'[k] = job[k]
    BY <2>2
  <2>4. table'.scored = shardScores /\ table'.first = first  BY <2>1
  <2>5. TableTypeOK'
    <3>1. DOMAIN table'.scored = Shards  BY <2>4 DEF FilesTyped
    <3> QED  BY <2>1, <2>2, <3>1 DEF TableTypeOK
  <2>6. FilesTyped'  BY <2>1, <2>4 DEF FilesTyped
  <2>7. HoldsWhatItRead'  BY <2>1, <2>3 DEF HoldsWhatItRead
  <2>8. MarkApartIsLocal'  BY <2>1, <2>3, JobsApart DEF MarkApartIsLocal
  <2>9. ReadsOneCorpus'  BY <2>1, <2>3 DEF ReadsOneCorpus
  <2>10. ShardsComeAfter'
    <3>1. job'[FirstStage] = job[FirstStage]  BY <1>1, <2>2, JobsApart
    <3> QED  BY <2>1, <2>3, <3>1, JobsApart DEF ShardsComeAfter, Digest
  <2>11. ScoredPerChange'  BY <2>1 DEF ScoredPerChange, Digest
  <2>12. TableIsOneStudy'
    <3>1. \A s \in Shards : table'.scored[s].candidates = table'.first.candidates
      BY <2>1, <2>4 DEF Digest
    <3> QED  BY <2>1, <3>1 DEF TableIsOneStudy
  <2> QED  BY <2>5, <2>6, <2>7, <2>8, <2>9, <2>10, <2>11, <2>12
<1> QED  BY <1>2, <1>3

-----------------------------------------------------------------------------
LEMMA TableInvNext == ASSUME TableInv, [TableNext]_tableVars PROVE TableInv'
<1>1. ASSUME NEW stage \in {"all", "embed", "recall"}, Dispatch(stage)  PROVE TableInv'
  BY <1>1, DispatchKeepsInv
<1>2. ASSUME NEW j \in JobNames, StartJob(j)  PROVE TableInv'
  BY <1>2, StartKeepsInv
<1>3. ASSUME NEW j \in JobNames, JobFails(j)  PROVE TableInv'
  <2>1. failures' \in 0 .. MaxJobFailures
    BY <1>3, TableAssumption DEF JobFails, TableInv, TableTypeOK
  <2> QED  BY <1>3, <2>1, FailKeepsInv DEF JobFails
<1>4. ASSUME NEW c \in Corpora, Mine(c)  PROVE TableInv'
  BY <1>4, MineKeepsInv
<1>5. ASSUME NEW p \in Parts, PartStep(p)  PROVE TableInv'
  <2>1. CASE EmbedManifest(p) \/ EmbedText(p)
    BY <2>1, ReadKeepsInv, JobsApart DEF EmbedManifest, EmbedText
  <2>2. CASE Embed(p) \/ Mark(p)  BY <2>2, PartWriteKeepsInv
  <2> QED  BY <1>5, <2>1, <2>2 DEF PartStep
<1>6. CASE FirstManifest \/ FirstText
  BY <1>6, ReadKeepsInv, JobsApart DEF FirstManifest, FirstText
<1>7. CASE WriteFirst  BY <1>7, WriteFirstKeepsInv
<1>8. ASSUME NEW s \in Shards, ShardStep(s)  PROVE TableInv'
  <2>1. CASE RerankManifest(s)  BY <2>1, RerankManifestKeepsInv
  <2>2. CASE RerankText(s)  BY <2>2, ReadKeepsInv, JobsApart DEF RerankText
  <2>3. CASE Rerank(s)  BY <2>3, RerankKeepsInv
  <2> QED  BY <1>8, <2>1, <2>2, <2>3 DEF ShardStep
<1>9. CASE WriteTable  BY <1>9, WriteTableKeepsInv
<1>10. CASE UNCHANGED tableVars
  BY <1>10 DEF tableVars, derivedVars, TableInv, TableTypeOK, FilesTyped, HoldsWhatItRead,
     MarkApartIsLocal, ReadsOneCorpus, ShardsComeAfter, ScoredPerChange, TableIsOneStudy, Digest
<1> QED
  BY <1>1, <1>2, <1>3, <1>4, <1>5, <1>6, <1>7, <1>8, <1>9, <1>10 DEF TableNext

(* What the jobs hold, and what has been read across a mining, decides     *)
(* what they write: the invariant the next two theorems rest on.           *)
THEOREM TableInvariant == TableSpec => []TableInv
<1>1. TableInit => TableInv  BY TableInvInit
<1>2. TableInv /\ [TableNext]_tableVars => TableInv'  BY TableInvNext
<1> QED  BY <1>1, <1>2, PTL DEF TableSpec

(* Every file in the store is one the jobs write.                          *)
THEOREM TableTyped == TableSpec => []TableTypeOK
<1>1. TableInv => TableTypeOK  BY DEF TableInv
<1> QED  BY <1>1, TableInvariant, PTL

(* Whatever failed, was run again or was mined in between: on the Hub a    *)
(* part and its mark agree; a first stage ranks by vectors of the text it  *)
(* read, unless some job read across a mining; no shard was scored more    *)
(* often than the candidate lists changed; and the shards of a table were  *)
(* scored for its candidate lists.                                         *)
THEOREM TableOfOneStudy == TableSpec => []TableIsOneStudy
<1>1. TableInv => TableIsOneStudy  BY DEF TableInv
<1> QED  BY <1>1, TableInvariant, PTL

-----------------------------------------------------------------------------
(* The query set.                                                          *)
(* int() of the median lies between the halves: at least half of the       *)
(* repositories count as much, and at least half count no more than it and *)
(* what rounding down took.                                                *)
UpTo(counts, repos, v) == {r \in repos : counts[r] <= v}

AtLeast(counts, repos, v) == {r \in repos : counts[r] >= v}

Kth(counts, repos, k) ==
  Min({counts[r] : r \in {q \in repos : Cardinality(UpTo(counts, repos, counts[q])) >= k}})

LEMMA KthCounts ==
  ASSUME NEW repos, IsFiniteSet(repos), NEW counts \in [repos -> Nat],
         NEW k \in 1 .. Cardinality(repos)
  PROVE  LET v == Kth(counts, repos, k)
         IN  /\ v \in Nat
             /\ \E q \in repos : counts[q] = v /\ Cardinality(UpTo(counts, repos, v)) >= k
             /\ \A q \in repos : Cardinality(UpTo(counts, repos, counts[q])) >= k => v <= counts[q]
<1>. DEFINE C == {counts[r] : r \in repos}
            Q == {q \in repos : Cardinality(UpTo(counts, repos, counts[q])) >= k}
            V == {counts[r] : r \in Q}
<1>1. repos # {} /\ Cardinality(repos) \in Nat
  BY FS_CardinalityType, FS_EmptySet
<1>2. C \in SUBSET Nat /\ C # {}
  BY <1>1
<1>3. IsFiniteSet(C)
  <2>1. counts \in Surjection(repos, C)
    BY Fun_IsSurj
  <2> QED  BY <2>1, FS_Surjection
<1>4. PICK q \in repos : \A r \in repos : counts[r] <= counts[q]
  <2>1. PICK n \in C : \A m \in C : m <= n
    BY <1>2, <1>3, FiniteHasGreatest
  <2> QED  BY <2>1
<1>5. UpTo(counts, repos, counts[q]) = repos
  BY <1>4 DEF UpTo
<1>6. q \in Q
  BY <1>1, <1>5
<1>7. V \in SUBSET Nat /\ V # {}
  BY <1>6
<1>8. Min(V) \in V /\ \A m \in V : Min(V) <= m
  BY <1>7, MinIsLeast
<1>9. Kth(counts, repos, k) = Min(V)
  BY DEF Kth
<1> QED  BY <1>7, <1>8, <1>9

LEMMA MedianHalves ==
  ASSUME NEW repos, IsFiniteSet(repos), repos # {}, NEW counts \in [repos -> Nat]
  PROVE  /\ Median(counts, repos) \in Nat
         /\ 2 * Cardinality(AtLeast(counts, repos, Median(counts, repos))) >= Cardinality(repos)
         /\ 2 * Cardinality(UpTo(counts, repos, Median(counts, repos) + 1)) >= Cardinality(repos)
<1>. DEFINE n == Cardinality(repos)
            a == Kth(counts, repos, (n + 1) \div 2)
            b == Kth(counts, repos, n \div 2 + 1)
            cap == (a + b) \div 2
            Less == {r \in repos : counts[r] < b}
<1>1. n \in Nat \ {0}
  BY FS_CardinalityType, FS_EmptySet
<1>2. (n + 1) \div 2 \in 1 .. n /\ n \div 2 + 1 \in 1 .. n /\ (n + 1) \div 2 <= n \div 2 + 1
  BY <1>1
<1>3. Median(counts, repos) = cap
  BY DEF Median, Kth, UpTo
<1>4. PICK qa \in repos : /\ a \in Nat /\ counts[qa] = a
                          /\ Cardinality(UpTo(counts, repos, a)) >= (n + 1) \div 2
  <2> HIDE DEF n
  <2> QED  BY <1>2, KthCounts DEF n
<1>5. \A q \in repos : Cardinality(UpTo(counts, repos, counts[q])) >= (n + 1) \div 2 => a <= counts[q]
  BY <1>2, KthCounts
<1>6. PICK qb \in repos : /\ b \in Nat /\ counts[qb] = b
                          /\ Cardinality(UpTo(counts, repos, b)) >= n \div 2 + 1
  BY <1>2, KthCounts
<1>7. \A q \in repos : Cardinality(UpTo(counts, repos, counts[q])) >= n \div 2 + 1 => b <= counts[q]
  BY <1>2, KthCounts
<1>8. a <= b
  <2>1. IsFiniteSet(UpTo(counts, repos, b)) /\ Cardinality(UpTo(counts, repos, b)) \in Nat
    BY FS_Subset, FS_CardinalityType DEF UpTo
  <2>2. Cardinality(UpTo(counts, repos, counts[qb])) >= (n + 1) \div 2
    BY <1>1, <1>2, <1>6, <2>1
  <2> QED  BY <1>5, <1>6, <2>2
<1>9. cap \in Nat /\ a <= cap /\ cap <= b
  BY <1>4, <1>6, <1>8
<1>10. 2 * Cardinality(UpTo(counts, repos, cap + 1)) >= n
  <2>1. UpTo(counts, repos, a) \subseteq UpTo(counts, repos, cap + 1)
    BY <1>4, <1>9 DEF UpTo
  <2>2. IsFiniteSet(UpTo(counts, repos, cap + 1))
    BY FS_Subset DEF UpTo
  <2>3. /\ Cardinality(UpTo(counts, repos, a)) <= Cardinality(UpTo(counts, repos, cap + 1))
        /\ Cardinality(UpTo(counts, repos, a)) \in Nat
        /\ Cardinality(UpTo(counts, repos, cap + 1)) \in Nat
    BY <2>1, <2>2, FS_Subset, FS_CardinalityType
  <2> QED  BY <1>1, <1>4, <2>3
<1>11. IsFiniteSet(Less) /\ Cardinality(Less) \in Nat /\ Cardinality(Less) <= n \div 2
  <2>1. IsFiniteSet(Less) /\ Cardinality(Less) \in Nat
    BY FS_Subset, FS_CardinalityType
  <2>2. CASE Less = {}
    BY <1>1, <2>1, <2>2, FS_EmptySet
  <2>3. CASE Less # {}
    <3>. DEFINE C == {counts[r] : r \in Less}
    <3>1. PICK m \in C : \A k \in C : k <= m
      <4>1. C \in SUBSET Nat /\ C # {} /\ \A k \in C : k <= b
        BY <1>6, <2>3
      <4> HIDE DEF C
      <4> QED  BY <1>6, <4>1, BoundedHasGreatest
    <3>2. PICK q \in Less : counts[q] = m
      BY <3>1
    <3>3. UpTo(counts, repos, counts[q]) = Less
      BY <1>6, <3>1, <3>2 DEF UpTo
    <3>4. ~(Cardinality(Less) >= n \div 2 + 1)
      <4>1. q \in repos /\ counts[q] \in Nat /\ counts[q] < b
        BY <3>2
      <4>2. ~(Cardinality(UpTo(counts, repos, counts[q])) >= n \div 2 + 1)
        BY <1>6, <1>7, <4>1
      <4> QED  BY <3>3, <4>2
    <3> QED  BY <1>1, <2>1, <3>4
  <2> QED  BY <2>2, <2>3
<1>12. 2 * Cardinality(AtLeast(counts, repos, cap)) >= n
  <2>1. repos \ Less \subseteq AtLeast(counts, repos, cap)
    BY <1>6, <1>9 DEF AtLeast
  <2>2. Cardinality(repos \ Less) = n - Cardinality(Less)
    <3>1. repos \cap Less = Less
      OBVIOUS
    <3> QED  BY <3>1, FS_Difference
  <2>3. /\ IsFiniteSet(AtLeast(counts, repos, cap))
        /\ Cardinality(AtLeast(counts, repos, cap)) \in Nat
    BY FS_Subset, FS_CardinalityType DEF AtLeast
  <2>4. Cardinality(repos \ Less) <= Cardinality(AtLeast(counts, repos, cap))
    BY <2>1, <2>3, FS_Subset
  <2> QED  BY <1>1, <1>11, <2>2, <2>3, <2>4
<1> QED  BY <1>3, <1>9, <1>10, <1>12

-----------------------------------------------------------------------------
(* What is known of a comment that may be listed.                          *)
Mineable ==
  {c \in Nat : /\ FaultsOf[c] \subseteq {ScreenRules[k] : k \in 1 .. Len(ScreenRules)}
               /\ RankOf[c] \in Nat}

LEMMA WalksMineable ==
  ASSUME NEW r \in Tune, NEW listed \in Walks(r)
  PROVE  listed \in Seq(Mineable)
<1>. DEFINE s == ListingOf[r]
<1>1. s \in Seq(Nat) /\ \A i \in 1 .. Len(s) : s[i] \in Mineable
  <2>1. s \in Seq(Nat)
    BY PairsAssumption
  <2>2. \A i \in 1 .. Len(s) : s[i] \in Nat
    BY <2>1, ElementOfSeq
  <2> QED  BY <2>1, <2>2, PairsAssumption DEF Mineable
<1>2. s \in Seq(Mineable)
  BY <1>1
<1>3. \A n \in 1 .. Len(s) : Repeat(s, n) \in Seq(Mineable)
  <2>1. SUFFICES ASSUME NEW n \in 1 .. Len(s)
                 PROVE  Repeat(s, n) \in Seq(Mineable)
    OBVIOUS
  <2>2. Len(s) \in Nat
    BY <1>1
  <2>3. SubSeq(s, 1, n) \in Seq(Mineable)
    BY <1>1, <2>2, SubSeqProperties
  <2>4. SubSeq(s, n, Len(s)) \in Seq(Mineable)
    BY <1>1, <2>2, SubSeqProperties
  <2> QED  BY <2>3, <2>4, ConcatProperties DEF Repeat
<1> QED  BY <1>2, <1>3 DEF Walks

(* screen_comment lets through what has no fault.                          *)
LEMMA ScreenFaultless ==
  ASSUME NEW c \in Mineable
  PROVE  Screen(c) = "pair" <=> FaultsOf[c] = {}
<1>. DEFINE fired == {i \in 1 .. Len(ScreenRules) : ScreenRules[i] \in FaultsOf[c]}
<1>1. fired = {} <=> FaultsOf[c] = {}
  BY DEF Mineable
<1>2. ASSUME fired # {}
      PROVE  ScreenRules[Min(fired)] # "pair"
  <2>1. Len(ScreenRules) = 8
    BY DEF ScreenRules
  <2>2. Min(fired) \in 1 .. 8
    <3>1. fired \in SUBSET Nat
      BY <2>1
    <3>2. Min(fired) \in fired
      <4> HIDE DEF fired
      <4> QED  BY <1>2, <3>1, MinIsLeast
    <3> QED  BY <2>1, <3>2
  <2> QED  BY <2>2 DEF ScreenRules
<1>3. Screen(c) = IF fired = {} THEN "pair" ELSE ScreenRules[Min(fired)]
  BY DEF Screen
<1> QED  BY <1>1, <1>2, <1>3

LEMMA VerdictPair ==
  ASSUME NEW c \in Mineable, NEW indexed, NEW merged
  PROVE  Verdict(c, indexed, merged) = "pair" <=>
           /\ FaultsOf[c] = {} /\ c \in indexed /\ PullOf[c] \in merged
           /\ PullAuthor[PullOf[c]] # AuthorOf[c]
BY ScreenFaultless DEF Verdict

(* What a mined repository is: of its sound comments, the first few of     *)
(* each pull request are pairs, and the rest is dropped.                   *)
MinedRight(m) ==
  /\ m = [listed |-> m.listed, merged |-> m.merged, indexed |-> m.indexed,
          pairs |-> m.pairs, dropped |-> m.dropped]
  /\ m.listed \in Seq(Mineable)
  /\ m.pairs \subseteq SoundOf(m)
  /\ DOMAIN m.dropped = (1 .. Len(m.listed)) \ m.pairs
  /\ \A i \in SoundOf(m) \ m.pairs : Cardinality(UpToHere(m, i)) > MAX_PAIRS_PER_PR

LEMMA RepoPairsRight ==
  ASSUME NEW listed \in Seq(Mineable), NEW indexed, NEW merged
  PROVE  MinedRight(RepoPairs(listed, indexed, merged))
<1>. DEFINE m == RepoPairs(listed, indexed, merged)
            passed == {i \in 1 .. Len(listed) : Verdict(listed[i], indexed, merged) = "pair"}
            E(i) == {j \in passed :
                       /\ PullOf[listed[j]] = PullOf[listed[i]]
                       /\ listed[j] < listed[i] \/ (listed[j] = listed[i] /\ j < i)}
<1>1. /\ m.listed = listed /\ m.merged = merged /\ m.indexed = indexed
      /\ m.pairs = CapPerPull(listed, passed)
      /\ DOMAIN m.dropped = (1 .. Len(listed)) \ m.pairs
      /\ m = [listed |-> m.listed, merged |-> m.merged, indexed |-> m.indexed,
              pairs |-> m.pairs, dropped |-> m.dropped]
  BY DEF RepoPairs
<1>2. Len(listed) \in Nat /\ \A i \in 1 .. Len(listed) : listed[i] \in Mineable /\ listed[i] \in Nat
  <2>1. Len(listed) \in Nat /\ \A i \in 1 .. Len(listed) : listed[i] \in Mineable
    BY ElementOfSeq
  <2>2. \A c \in Mineable : c \in Nat
    BY DEF Mineable
  <2> QED  BY <2>1, <2>2
<1>3. SoundOf(m) = passed
  <2>1. \A i \in 1 .. Len(listed) : i \in SoundOf(m) <=> i \in passed
    BY <1>1, <1>2, VerdictPair DEF SoundOf
  <2>2. SoundOf(m) \subseteq 1 .. Len(listed)
    BY <1>1 DEF SoundOf
  <2> QED  BY <2>1, <2>2
<1>4. CapPerPull(listed, passed) = {i \in passed : Cardinality(E(i)) < MAX_PAIRS_PER_PR}
  BY DEF CapPerPull
<1>5. IsFiniteSet(passed)
  <2>1. IsFiniteSet(1 .. Len(listed))
    BY <1>2, FS_Interval
  <2> QED  BY <2>1, FS_Subset
<1>6. ASSUME NEW i \in passed, ~(Cardinality(E(i)) < MAX_PAIRS_PER_PR)
      PROVE  Cardinality(UpToHere(m, i)) > MAX_PAIRS_PER_PR
  <2>1. E(i) \subseteq UpToHere(m, i) /\ i \in UpToHere(m, i) /\ i \notin E(i)
    BY <1>1, <1>2, <1>3 DEF UpToHere
  <2>2. IsFiniteSet(UpToHere(m, i)) /\ Cardinality(UpToHere(m, i)) \in Nat
    BY <1>3, <1>5, FS_Subset, FS_CardinalityType DEF UpToHere
  <2>3. /\ IsFiniteSet(E(i)) /\ Cardinality(E(i)) \in Nat
        /\ Cardinality(E(i)) <= Cardinality(UpToHere(m, i))
        /\ Cardinality(E(i)) # Cardinality(UpToHere(m, i))
    <3> HIDE DEF E, m
    <3> QED  BY <2>1, <2>2, FS_Subset, FS_CardinalityType
  <2> QED  BY <1>6, <2>2, <2>3, PairsAssumption
<1> QED
  <2>1. m.pairs \subseteq SoundOf(m)
    BY <1>1, <1>3, <1>4
  <2>2. \A i \in SoundOf(m) \ m.pairs : Cardinality(UpToHere(m, i)) > MAX_PAIRS_PER_PR
    BY <1>1, <1>3, <1>4, <1>6
  <2>3. MinedRight(m)
    <3> HIDE DEF m
    <3> QED  BY <1>1, <2>1, <2>2 DEF MinedRight
  <2> QED  BY <2>3

(* The cap of a repository takes from its pairs alone, and leaves as many  *)
(* as it allows.                                                           *)
LEMMA CapPerRepoRight ==
  ASSUME NEW r \in DOMAIN mined, MinedRight(mined[r]), Cap \in Nat
  PROVE  LET m == CapPerRepo(r)
         IN  /\ PairOrDropped(m) /\ FirstOfTheirPull(m)
             /\ Cardinality(m.pairs) = Min({Cap, Cardinality(mined[r].pairs)})
<1>. DEFINE o == mined[r]
            m == CapPerRepo(r)
            P == o.pairs
            R == {p \in P \X P :
                    \/ RankOf[o.listed[p[1]]] < RankOf[o.listed[p[2]]]
                    \/ RankOf[o.listed[p[1]]] = RankOf[o.listed[p[2]]] /\ p[1] < p[2]}
            kept == {i \in P : Cardinality(Below(R, P, i)) < Cap}
<1>1. /\ o = [listed |-> o.listed, merged |-> o.merged, indexed |-> o.indexed,
              pairs |-> o.pairs, dropped |-> o.dropped]
      /\ o.listed \in Seq(Mineable) /\ P \subseteq SoundOf(o)
      /\ DOMAIN o.dropped = (1 .. Len(o.listed)) \ P
      /\ \A i \in SoundOf(o) \ P : Cardinality(UpToHere(o, i)) > MAX_PAIRS_PER_PR
  BY DEF MinedRight
<1>2. Len(o.listed) \in Nat /\ SoundOf(o) \subseteq 1 .. Len(o.listed)
  BY <1>1 DEF SoundOf
<1>3. \A i \in P : i \in Int /\ RankOf[o.listed[i]] \in Nat
  <2>1. \A i \in 1 .. Len(o.listed) : o.listed[i] \in Mineable
    BY <1>1, ElementOfSeq
  <2> QED  BY <1>1, <1>2, <2>1 DEF Mineable
<1>4. IsFiniteSet(P) /\ Cardinality(P) \in Nat
  <2>1. IsFiniteSet(1 .. Len(o.listed)) /\ P \subseteq 1 .. Len(o.listed)
    BY <1>1, <1>2, FS_Interval
  <2> HIDE DEF P, o
  <2> QED  BY <2>1, FS_Subset, FS_CardinalityType
<1>5. Orders(R, P)
  BY <1>3 DEF Orders
<1>6. Cardinality(kept) = IF Cardinality(P) < Cap THEN Cardinality(P) ELSE Cap
  BY <1>4, <1>5, FirstOnes
<1>7. Min({Cap, Cardinality(P)}) = IF Cardinality(P) < Cap THEN Cardinality(P) ELSE Cap
  <2>1. /\ Min({Cap, Cardinality(P)}) \in {Cap, Cardinality(P)}
        /\ \A k \in {Cap, Cardinality(P)} : Min({Cap, Cardinality(P)}) <= k
    BY <1>4, MinIsLeast
  <2> QED  BY <1>4, <2>1
<1>8. \A i \in P : Below(R, P, i) =
        {j \in P : \/ RankOf[o.listed[j]] < RankOf[o.listed[i]]
                   \/ RankOf[o.listed[j]] = RankOf[o.listed[i]] /\ j < i}
  BY DEF Below
<1>9. m = [o EXCEPT !.pairs = kept,
                    !.dropped = [i \in (1 .. Len(o.listed)) \ kept |->
                                   IF i \in P THEN "per_repo_cap" ELSE o.dropped[i]]]
  BY <1>8 DEF CapPerRepo
<1>10. /\ m.listed = o.listed /\ m.merged = o.merged /\ m.indexed = o.indexed /\ m.pairs = kept
       /\ m.dropped = [i \in (1 .. Len(o.listed)) \ kept |->
                         IF i \in P THEN "per_repo_cap" ELSE o.dropped[i]]
  <2> HIDE DEF m, kept, o
  <2> QED  BY <1>1, <1>9
<1>11. SoundOf(m) = SoundOf(o) /\ \A i \in SoundOf(o) : UpToHere(m, i) = UpToHere(o, i)
  <2> HIDE DEF m, o, kept
  <2> QED  BY <1>10 DEF SoundOf, UpToHere
<1>12. PairOrDropped(m)
  <2>1. kept \subseteq P
    OBVIOUS
  <2> HIDE DEF m, o, kept
  <2> QED  BY <1>1, <1>10, <1>11, <2>1 DEF PairOrDropped
<1>13. FirstOfTheirPull(m)
  <2>1. kept \subseteq P
    OBVIOUS
  <2> HIDE DEF m, o, kept
  <2> QED  BY <1>1, <1>2, <1>10, <1>11, <2>1 DEF FirstOfTheirPull
<1>14. Cardinality(m.pairs) = Min({Cap, Cardinality(o.pairs)})
  <2> HIDE DEF m, kept
  <2> QED  BY <1>6, <1>7, <1>10
<1> QED  BY <1>12, <1>13, <1>14

FairlyFrozen(f) ==
  /\ DOMAIN f.repos \subseteq Tune
  /\ \A r \in DOMAIN f.repos : PairOrDropped(f.repos[r]) /\ FirstOfTheirPull(f.repos[r])
  /\ CappedAtMedian(f)

(* What a run freezes is fair, once every repository asked for is mined.   *)
LEMMA FreezesFairly ==
  ASSUME requested \subseteq Tune, requested # {}, DOMAIN mined = requested,
         \A r \in DOMAIN mined : MinedRight(mined[r])
  PROVE  /\ FairlyFrozen(ManifestOf(Frozen))
         /\ ManifestOf(Frozen).sha256 = Encoded(Frozen)
         /\ ManifestOf(Frozen) # NoFile
<1>. DEFINE f == ManifestOf(Frozen)
            counts == [r \in requested |-> Cardinality(mined[r].pairs)]
<1>1. /\ f.sha256 = Encoded(Frozen) /\ f.cap = Cap /\ f.repos = Frozen /\ f.before = mined
      /\ "cap" \in DOMAIN f
  BY DEF ManifestOf
<1>2. f # NoFile
  <2>1. "cap" \notin DOMAIN NoFile
    BY DEF NoFile
  <2> HIDE DEF f
  <2> QED  BY <1>1, <2>1
<1>3. IsFiniteSet(requested)
  BY PairsAssumption, FS_Subset
<1>4. counts \in [requested -> Nat]
  <2>1. SUFFICES ASSUME NEW r \in requested
                 PROVE  Cardinality(mined[r].pairs) \in Nat
    OBVIOUS
  <2>2. MinedRight(mined[r])
    OBVIOUS
  <2>3. mined[r].listed \in Seq(Mineable) /\ mined[r].pairs \subseteq 1 .. Len(mined[r].listed)
    BY <2>2 DEF MinedRight, SoundOf
  <2>4. Len(mined[r].listed) \in Nat
    BY <2>3
  <2>5. IsFiniteSet(1 .. Len(mined[r].listed))
    BY <2>4, FS_Interval
  <2> QED  BY <2>3, <2>5, FS_Subset, FS_CardinalityType
<1>5. /\ Cap \in Nat
      /\ 2 * Cardinality(AtLeast(counts, requested, Cap)) >= Cardinality(requested)
      /\ 2 * Cardinality(UpTo(counts, requested, Cap + 1)) >= Cardinality(requested)
  <2>1. Cap = Median(counts, requested)
    BY DEF Cap
  <2> HIDE DEF counts
  <2>2. /\ Median(counts, requested) \in Nat
        /\ 2 * Cardinality(AtLeast(counts, requested, Median(counts, requested)))
             >= Cardinality(requested)
        /\ 2 * Cardinality(UpTo(counts, requested, Median(counts, requested) + 1))
             >= Cardinality(requested)
    BY <1>3, <1>4, MedianHalves
  <2> QED  BY <2>1, <2>2
<1>6. DOMAIN Frozen = requested /\ \A r \in requested : Frozen[r] = CapPerRepo(r)
  BY DEF Frozen
<1>7. \A r \in requested : /\ PairOrDropped(Frozen[r]) /\ FirstOfTheirPull(Frozen[r])
                           /\ Cardinality(Frozen[r].pairs) = Min({Cap, Cardinality(mined[r].pairs)})
  BY <1>5, <1>6, CapPerRepoRight
<1>8. CappedAtMedian(f)
  <2>1. /\ AtLeast(counts, requested, Cap) =
             {r \in requested : Cardinality(mined[r].pairs) >= Cap}
        /\ UpTo(counts, requested, Cap + 1) =
             {r \in requested : Cardinality(mined[r].pairs) <= Cap + 1}
    BY DEF AtLeast, UpTo
  <2> HIDE DEF f, counts
  <2> QED  BY <1>1, <1>5, <1>6, <1>7, <2>1 DEF CappedAtMedian
<1>9. FairlyFrozen(f)
  <2> HIDE DEF f
  <2> QED  BY <1>1, <1>6, <1>7, <1>8 DEF FairlyFrozen
<1> QED  BY <1>1, <1>2, <1>9

-----------------------------------------------------------------------------
(* What a run holds before it writes, and that it writes where nothing is. *)
MiningInv ==
  /\ \A r \in DOMAIN mined : MinedRight(mined[r])
  /\ pairsAt = "idle" => DOMAIN mined = {}
  /\ pairsAt # "idle" => requested \subseteq Tune /\ frozenManifest = NoFile
  /\ pairsAt \in {"payload", "manifest"} => requested # {} /\ DOMAIN mined = requested
  /\ pairsAt = "manifest" => payload = Encoded(Frozen)

FrozenInv ==
  IF frozenManifest = NoFile THEN everFrozen = {}
  ELSE /\ everFrozen = {frozenManifest} /\ payload = frozenManifest.sha256
       /\ FairlyFrozen(frozenManifest)

PairsInv == PairsTypeOK /\ MiningInv /\ FrozenInv

(* For any listings, screening results, caps and number of runs, of which  *)
(* any may die anywhere: what has been mined is right, and what has been   *)
(* frozen was frozen into an empty place.                                  *)
THEOREM PairsInvariant == PairsSpec => []PairsInv
<1>1. PairsInit => PairsInv
  BY PairsAssumption DEF PairsInit, PairsInv, PairsTypeOK, MiningInv, FrozenInv
<1>2. PairsInv /\ [PairsNext]_pairsVars => PairsInv'
  <2> SUFFICES ASSUME PairsInv, [PairsNext]_pairsVars
               PROVE  PairsInv'
    OBVIOUS
  <2> USE DEF PairsInv
  <2>1. ASSUME NEW repos \in Requests, RunPairs(repos)
        PROVE  PairsInv'
    BY <2>1, PairsAssumption DEF RunPairs, PairsTypeOK, MiningInv, FrozenInv, resultVars
  <2>2. ASSUME NEW r \in Tune, MineRepo(r)
        PROVE  PairsInv'
    <3>1. PICK listed \in Walks(r) : \E indexed, merged :
            mined' = [q \in DOMAIN mined \cup {r} |->
                        IF q = r THEN RepoPairs(listed, indexed, merged) ELSE mined[q]]
      BY <2>2 DEF MineRepo
    <3>2. PICK indexed, merged :
            mined' = [q \in DOMAIN mined \cup {r} |->
                        IF q = r THEN RepoPairs(listed, indexed, merged) ELSE mined[q]]
      BY <3>1
    <3>3. MinedRight(RepoPairs(listed, indexed, merged))
      BY WalksMineable, RepoPairsRight
    <3>4. /\ pairsAt = "mine" /\ r \in requested /\ DOMAIN mined' = DOMAIN mined \cup {r}
          /\ pairsAt' = IF requested = DOMAIN mined \cup {r} THEN "payload" ELSE "mine"
          /\ UNCHANGED <<pairsStore, requested, payload, frozenManifest, everFrozen, pairsRuns>>
      BY <2>2, <3>2 DEF MineRepo
    <3>5. \A q \in DOMAIN mined' : MinedRight(mined'[q])
      BY <3>2, <3>3 DEF MiningInv
    <3> QED  BY <3>4, <3>5 DEF PairsTypeOK, MiningInv, FrozenInv
  <2>0. UNCHANGED resultVars => Frozen' = Frozen
    BY DEF resultVars, Frozen, CapPerRepo, Cap
  <2>3. CASE Freeze
    <3>1. /\ FairlyFrozen(ManifestOf(Frozen)) /\ ManifestOf(Frozen).sha256 = Encoded(Frozen)
          /\ ManifestOf(Frozen) # NoFile
      BY <2>3, FreezesFairly DEF Freeze, MiningInv
    <3> QED
      BY <2>0, <2>3, <3>1 DEF Freeze, EndRun, PairsTypeOK, MiningInv, FrozenInv, resultVars
  <2>4. CASE FreezeManifest
    <3>1. /\ FairlyFrozen(ManifestOf(Frozen)) /\ ManifestOf(Frozen).sha256 = Encoded(Frozen)
          /\ ManifestOf(Frozen) # NoFile
      BY <2>4, FreezesFairly DEF FreezeManifest, MiningInv
    <3> QED
      BY <2>4, <3>1 DEF FreezeManifest, EndRun, PairsTypeOK, MiningInv, FrozenInv
  <2>5. CASE PairsRunDies
    BY <2>5 DEF PairsRunDies, EndRun, PairsTypeOK, MiningInv, FrozenInv
  <2>6. CASE UNCHANGED pairsVars
    BY <2>0, <2>6 DEF pairsVars, resultVars, PairsTypeOK, MiningInv, FrozenInv
  <2> QED  BY <2>1, <2>2, <2>3, <2>4, <2>5, <2>6 DEF PairsNext
<1> QED  BY <1>1, <1>2, PTL DEF PairsSpec

(* Whatever was listed twice, capped or interrupted, a frozen version is   *)
(* whole and the only one there ever was; each comment seen is a pair or   *)
(* dropped by a rule, of a pull request the first ones stay, and of a      *)
(* repository as many as it has or a median of them all, which is less.    *)
THEOREM FrozenSetAlwaysFair == PairsSpec => []FrozenSetIsFair
<1>1. PairsInv => FrozenSetIsFair
  BY DEF PairsInv, FrozenInv, FairlyFrozen, FrozenSetIsFair
<1> QED  BY <1>1, PairsInvariant, PTL

(* "A version, once written, is never overwritten": neither file changes   *)
(* after the manifest is there.                                            *)
THEOREM NeverOverwritten ==
  PairsSpec => [][frozenManifest # NoFile => UNCHANGED <<payload, frozenManifest>>]_pairsVars
<1>1. PairsInv /\ [PairsNext]_pairsVars
        => [frozenManifest # NoFile => UNCHANGED <<payload, frozenManifest>>]_pairsVars
  BY DEF PairsInv, MiningInv, PairsNext, RunPairs, MineRepo, Freeze, FreezeManifest, PairsRunDies
<1> QED  BY <1>1, PairsInvariant, PTL DEF PairsSpec
=============================================================================
