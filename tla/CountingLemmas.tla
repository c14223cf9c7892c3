--------------------------- MODULE CountingLemmas ---------------------------
(***************************************************************************)
(* What the proofs about lists, ranks, medians and budgets count with: the *)
(* least of a set of naturals, induction over them, the rank of an element *)
(* of an ordered finite set, sums over a finite set, how many elements     *)
(* disjoint sets have together, and what a fold over a list comes to.      *)
(***************************************************************************)
EXTENDS Integers, SequencesExt, FiniteSetsExt, Functions, FunctionTheorems,
        FiniteSetTheorems, SequenceTheorems, TLAPS

(* A set of naturals has a least element.                                  *)
LEMMA LeastOf ==
  ASSUME NEW S \in SUBSET Nat, S # {}
  PROVE  \E n \in S : \A m \in S : n <= m
<1>1. PICK x \in S : \A y \in S : ~(<<y, x>> \in OpToRel(<, Nat))
  BY NatLessThanWellFounded, WFMin
<1>2. \A m \in S : <<m, x>> \in OpToRel(<, Nat) <=> m < x
  BY DEF OpToRel
<1>3. \A m \in S : ~(m < x)
  BY <1>1, <1>2
<1>4. \A m \in S : x <= m
  BY <1>3
<1> QED  BY <1>4

(* What holds of 0 and of the next of each holds of all: the library's     *)
(* induction theorems take the predicate as an operator, this one its set. *)
LEMMA SetInduction ==
  ASSUME NEW S \in SUBSET Nat, 0 \in S, \A n \in S : n + 1 \in S
  PROVE  S = Nat
<1>1. SUFFICES ASSUME Nat \ S # {}
               PROVE  FALSE
  OBVIOUS
<1>2. PICK n \in Nat \ S : \A m \in Nat \ S : n <= m
  BY <1>1, LeastOf
<1>3. n - 1 \in Nat
  BY <1>2
<1>4. n - 1 \in S
  BY <1>2, <1>3
<1> QED  BY <1>2, <1>4

-----------------------------------------------------------------------------
(* A strict total order on a set, given as the set of its pairs.           *)
Orders(R, S) ==
  /\ \A i \in S : <<i, i>> \notin R
  /\ \A i, j, k \in S : <<i, j>> \in R /\ <<j, k>> \in R => <<i, k>> \in R
  /\ \A i, j \in S : i = j \/ <<i, j>> \in R \/ <<j, i>> \in R

Below(R, S, i) == {j \in S : <<j, i>> \in R}

RankIn(R, S) == [i \in S |-> Cardinality(Below(R, S, i))]

(* How many are in front of it numbers the elements of a finite set.       *)
LEMMA RanksNumber ==
  ASSUME NEW S, IsFiniteSet(S), NEW R, Orders(R, S)
  PROVE  RankIn(R, S) \in Bijection(S, 0 .. Cardinality(S) - 1)
<1>. DEFINE n == Cardinality(S)
<1>1. n \in Nat
  BY FS_CardinalityType
<1>2. \A i \in S : Below(R, S, i) \subseteq S /\ i \notin Below(R, S, i)
  BY DEF Below, Orders
<1>3. \A i \in S : IsFiniteSet(Below(R, S, i)) /\ Cardinality(Below(R, S, i)) \in 0 .. n - 1
  <2>1. SUFFICES ASSUME NEW i \in S
                 PROVE  IsFiniteSet(Below(R, S, i)) /\ Cardinality(Below(R, S, i)) \in 0 .. n - 1
    OBVIOUS
  <2>2. /\ IsFiniteSet(Below(R, S, i)) /\ Cardinality(Below(R, S, i)) \in Nat
        /\ Cardinality(Below(R, S, i)) <= n /\ Cardinality(Below(R, S, i)) # n
    BY <1>2, FS_Subset, FS_CardinalityType
  <2> QED  BY <1>1, <2>2
<1>4. \A i, j \in S : <<i, j>> \in R => Cardinality(Below(R, S, i)) < Cardinality(Below(R, S, j))
  <2>1. SUFFICES ASSUME NEW i \in S, NEW j \in S, <<i, j>> \in R
                 PROVE  Cardinality(Below(R, S, i)) < Cardinality(Below(R, S, j))
    OBVIOUS
  <2>2. Below(R, S, i) \subseteq Below(R, S, j) /\ i \in Below(R, S, j) /\ i \notin Below(R, S, i)
    BY <2>1 DEF Below, Orders
  <2>3. /\ Cardinality(Below(R, S, i)) <= Cardinality(Below(R, S, j))
        /\ Cardinality(Below(R, S, i)) # Cardinality(Below(R, S, j))
    BY <1>3, <2>2, FS_Subset
  <2> QED  BY <1>3, <2>3
<1>5. RankIn(R, S) \in [S -> 0 .. n - 1]
  BY <1>3 DEF RankIn
<1>6. \A i, j \in S : RankIn(R, S)[i] = RankIn(R, S)[j] => i = j
  <2>1. SUFFICES ASSUME NEW i \in S, NEW j \in S, RankIn(R, S)[i] = RankIn(R, S)[j], i # j
                 PROVE  FALSE
    OBVIOUS
  <2>2. Cardinality(Below(R, S, i)) = Cardinality(Below(R, S, j))
    BY <2>1 DEF RankIn
  <2>3. <<i, j>> \in R \/ <<j, i>> \in R
    BY <2>1 DEF Orders
  <2> QED  BY <1>3, <1>4, <2>2, <2>3
<1>7. RankIn(R, S) \in Injection(S, 0 .. n - 1)
  BY <1>5, <1>6, Fun_IsInj
<1>8. IsFiniteSet(0 .. n - 1) /\ Cardinality(0 .. n - 1) = n
  BY <1>1, FS_Interval
<1>9. RankIn(R, S) \in Surjection(S, 0 .. n - 1)
  BY <1>7, <1>8, FS_Injection
<1> QED  BY <1>7, <1>9 DEF Bijection

(* As many are among the first n as there are, or n.                       *)
LEMMA FirstOnes ==
  ASSUME NEW S, IsFiniteSet(S), NEW R, Orders(R, S), NEW n \in Nat
  PROVE  Cardinality({i \in S : Cardinality(Below(R, S, i)) < n})
           = IF Cardinality(S) < n THEN Cardinality(S) ELSE n
<1>. DEFINE m == IF Cardinality(S) < n THEN Cardinality(S) ELSE n
            T == {i \in S : Cardinality(Below(R, S, i)) < n}
            f == [i \in T |-> Cardinality(Below(R, S, i))]
<1>1. Cardinality(S) \in Nat /\ m \in Nat
  BY FS_CardinalityType
<1>2. /\ RankIn(R, S) \in [S -> 0 .. Cardinality(S) - 1]
      /\ \A i, j \in S : RankIn(R, S)[i] = RankIn(R, S)[j] => i = j
      /\ \A t \in 0 .. Cardinality(S) - 1 : \E i \in S : RankIn(R, S)[i] = t
  <2>1. RankIn(R, S) \in Bijection(S, 0 .. Cardinality(S) - 1)
    BY RanksNumber
  <2> QED  BY <2>1 DEF Bijection, Injection, Surjection, IsInjective
<1>3. \A i \in S : RankIn(R, S)[i] = Cardinality(Below(R, S, i))
  BY DEF RankIn
<1>4. f \in [T -> 0 .. m - 1]
  BY <1>1, <1>2, <1>3
<1>5. \A i, j \in T : f[i] = f[j] => i = j
  BY <1>2, <1>3
<1>6. \A t \in 0 .. m - 1 : \E i \in T : f[i] = t
  BY <1>1, <1>2, <1>3
<1>7. f \in Bijection(T, 0 .. m - 1)
  BY <1>4, <1>5, <1>6, Fun_IsBij
<1>8. IsFiniteSet(T)
  BY FS_Subset
<1>9. Cardinality(0 .. m - 1) = Cardinality(T)
  <2>1. ExistsBijection(T, 0 .. m - 1)
    BY <1>7 DEF ExistsBijection
  <2> HIDE DEF T, m, f
  <2> QED  BY <1>8, <2>1, FS_Bijection
<1>10. Cardinality(0 .. m - 1) = m
  <2> HIDE DEF m
  <2> QED  BY <1>1, FS_Interval
<1> QED  BY <1>9, <1>10

(* The least, and the greatest of what is bounded or finite.               *)
LEMMA MinIsLeast ==
  ASSUME NEW S \in SUBSET Nat, S # {}
  PROVE  Min(S) \in S /\ \A m \in S : Min(S) <= m
BY LeastOf DEF Min

LEMMA BoundedHasGreatest ==
  ASSUME NEW S \in SUBSET Nat, S # {}, NEW b \in Nat, \A m \in S : m <= b
  PROVE  \E n \in S : \A m \in S : m <= n
<1>1. PICK v \in {u \in Nat : \A m \in S : m <= u} : \A u \in {u \in Nat : \A m \in S : m <= u} : v <= u
  BY LeastOf
<1>2. ASSUME v \notin S
      PROVE  v - 1 \in Nat /\ \A m \in S : m <= v - 1
  <2>1. \A m \in S : m \in Nat /\ m <= v /\ m # v
    BY <1>1, <1>2
  <2>2. \A m \in S : m <= v - 1
    BY <1>1, <2>1
  <2>3. PICK m \in S : m \in Nat /\ m <= v /\ m # v
    BY <2>1
  <2>4. v - 1 \in Nat
    BY <1>1, <2>3
  <2> QED  BY <2>2, <2>4
<1>3. v \in S
  BY <1>1, <1>2
<1> QED  BY <1>1, <1>3

LEMMA FiniteHasGreatest ==
  ASSUME NEW S \in SUBSET Nat, S # {}, IsFiniteSet(S)
  PROVE  \E n \in S : \A m \in S : m <= n
<1>. DEFINE R == {p \in S \X S : p[1] < p[2]}
<1>1. Orders(R, S)
  BY DEF Orders
<1>2. Cardinality(S) \in Nat /\ Cardinality(S) # 0
  BY FS_CardinalityType, FS_EmptySet
<1>3. PICK n \in S : RankIn(R, S)[n] = Cardinality(S) - 1
  <2>1. RankIn(R, S) \in Bijection(S, 0 .. Cardinality(S) - 1)
    BY <1>1, RanksNumber
  <2> QED  BY <1>2, <2>1 DEF Bijection, Surjection
<1>4. Cardinality(Below(R, S, n)) = Cardinality(S) - 1
  BY <1>3 DEF RankIn
<1>5. Below(R, S, n) \subseteq S \ {n} /\ IsFiniteSet(S \ {n}) /\ Cardinality(S \ {n}) = Cardinality(S) - 1
  BY <1>1, FS_RemoveElement DEF Below, Orders
<1>6. Below(R, S, n) = S \ {n}
  BY <1>4, <1>5, FS_Subset
<1>7. \A m \in S \ {n} : m < n
  BY <1>6 DEF Below
<1> QED  BY <1>7

(* The greatest of a finite set of naturals.                               *)
LEMMA MaxIsGreatest ==
  ASSUME NEW S \in SUBSET Nat, S # {}, IsFiniteSet(S)
  PROVE  Max(S) \in S /\ \A m \in S : m <= Max(S)
<1>1. \E x \in S : \A y \in S : x >= y
  <2>1. PICK n \in S : \A m \in S : m <= n
    BY FiniteHasGreatest
  <2> QED  BY <2>1
<1> QED  BY <1>1 DEF Max

-----------------------------------------------------------------------------
(* Any of a set's elements, the one CHOOSE takes.                          *)
Some(s) == CHOOSE x \in s : TRUE

(* g[s] is the sum of f over s, taking some element away at a time.        *)
SumsUp(g, f, s) == g[s] = IF s = {} THEN 0 ELSE f[Some(s)] + g[s \ {Some(s)}]

(* SumFunctionOnSet is defined by recursion over the subsets; there is     *)
(* such a function.                                                        *)
LEMMA SumsExist ==
  ASSUME NEW S, IsFiniteSet(S), NEW f, \A x \in S : f[x] \in Int
  PROVE  \E g \in [SUBSET S -> Int] : \A s \in SUBSET S : SumsUp(g, f, s)
<1>. DEFINE Small(n) == {s \in SUBSET S : Cardinality(s) <= n}
            D == {n \in Nat : \E g \in [Small(n) -> Int] : \A s \in Small(n) : SumsUp(g, f, s)}
<1>1. \A s \in SUBSET S : /\ IsFiniteSet(s) /\ Cardinality(s) \in Nat
                          /\ Cardinality(s) <= Cardinality(S) /\ (Cardinality(s) = 0 <=> s = {})
  BY FS_Subset, FS_CardinalityType, FS_EmptySet
<1>2. 0 \in D
  <2>1. Small(0) = {{}}
    BY <1>1
  <2>2. [s \in Small(0) |-> 0] \in [Small(0) -> Int]
    OBVIOUS
  <2>3. \A s \in Small(0) : SumsUp([t \in Small(0) |-> 0], f, s)
    BY <2>1 DEF SumsUp
  <2> QED  BY <2>2, <2>3
<1>3. ASSUME NEW n \in D
      PROVE  n + 1 \in D
  <2>1. PICK g \in [Small(n) -> Int] : \A s \in Small(n) : SumsUp(g, f, s)
    OBVIOUS
  <2>. DEFINE h == [s \in Small(n + 1) |->
                      IF s \in Small(n) THEN g[s] ELSE f[Some(s)] + g[s \ {Some(s)}]]
  <2>2. \A s \in Small(n + 1) \ {{}} : Some(s) \in S /\ s \ {Some(s)} \in Small(n)
    <3>1. SUFFICES ASSUME NEW s \in Small(n + 1), s # {}
                   PROVE  Some(s) \in S /\ s \ {Some(s)} \in Small(n)
      OBVIOUS
    <3>2. Some(s) \in s
      BY <3>1 DEF Some
    <3>3. Cardinality(s \ {Some(s)}) = Cardinality(s) - 1
      BY <1>1, <3>2, FS_RemoveElement
    <3> QED  BY <1>1, <3>2, <3>3
  <2>3. Small(n) \subseteq Small(n + 1) /\ {} \in Small(n)
    BY <1>1, FS_EmptySet
  <2>4. h \in [Small(n + 1) -> Int]
    <3>1. SUFFICES ASSUME NEW s \in Small(n + 1)
                   PROVE  h[s] \in Int
      OBVIOUS
    <3>2. CASE s \in Small(n)
      BY <3>2
    <3>3. CASE s \notin Small(n)
      <4>1. s # {} /\ h[s] = f[Some(s)] + g[s \ {Some(s)}]
        BY <2>3, <3>3
      <4>2. f[Some(s)] \in Int /\ g[s \ {Some(s)}] \in Int
        BY <2>1, <2>2, <4>1
      <4> QED  BY <4>1, <4>2
    <3> QED  BY <3>2, <3>3
  <2>5. \A s \in Small(n + 1) : SumsUp(h, f, s)
    <3>1. SUFFICES ASSUME NEW s \in Small(n + 1)
                   PROVE  SumsUp(h, f, s)
      OBVIOUS
    <3>2. CASE s \in Small(n)
      <4>1. h[s] = g[s] /\ (s # {} => h[s \ {Some(s)}] = g[s \ {Some(s)}])
        BY <2>2, <2>3, <3>2
      <4> HIDE DEF h
      <4> QED  BY <2>1, <3>2, <4>1 DEF SumsUp
    <3>3. CASE s \notin Small(n)
      <4>1. s # {} /\ h[s] = f[Some(s)] + g[s \ {Some(s)}]
        BY <2>3, <3>3
      <4>2. h[s \ {Some(s)}] = g[s \ {Some(s)}]
        BY <2>2, <2>3, <4>1
      <4> HIDE DEF h
      <4> QED  BY <4>1, <4>2 DEF SumsUp
    <3> QED  BY <3>2, <3>3
  <2> HIDE DEF h, Small
  <2> QED  BY <2>4, <2>5
<1>4. D = Nat
  <2> HIDE DEF D
  <2>1. D \in SUBSET Nat
    BY DEF D
  <2> QED  BY <1>2, <1>3, <2>1, SetInduction
<1>5. Cardinality(S) \in D
  BY <1>4, FS_CardinalityType
<1>6. Small(Cardinality(S)) = SUBSET S
  BY <1>1
<1> QED  BY <1>5, <1>6

LEMMA SumsAgree ==
  ASSUME NEW S, IsFiniteSet(S), NEW f, NEW g, NEW h,
         \A s \in SUBSET S : SumsUp(g, f, s) /\ SumsUp(h, f, s)
  PROVE  g[S] = h[S]
<1>. DEFINE D == {n \in Nat : \A s \in SUBSET S : Cardinality(s) = n => g[s] = h[s]}
<1>1. \A s \in SUBSET S : /\ IsFiniteSet(s) /\ Cardinality(s) \in Nat
                          /\ (Cardinality(s) = 0 <=> s = {})
  BY FS_Subset, FS_CardinalityType, FS_EmptySet
<1>2. 0 \in D
  BY <1>1 DEF SumsUp
<1>3. ASSUME NEW n \in D
      PROVE  n + 1 \in D
  <2>1. SUFFICES ASSUME NEW s \in SUBSET S, Cardinality(s) = n + 1
                 PROVE  g[s] = h[s]
    OBVIOUS
  <2>2. s # {}
    BY <1>1, <2>1
  <2>3. Some(s) \in s
    BY <2>2 DEF Some
  <2>4. Cardinality(s \ {Some(s)}) = n
    BY <1>1, <2>1, <2>3, FS_RemoveElement
  <2>5. g[s \ {Some(s)}] = h[s \ {Some(s)}]
    BY <2>4
  <2> QED  BY <2>2, <2>5 DEF SumsUp
<1>4. D = Nat
  <2> HIDE DEF D
  <2>1. D \in SUBSET Nat
    BY DEF D
  <2> QED  BY <1>2, <1>3, <2>1, SetInduction
<1> QED  BY <1>1, <1>4

(* What SumFunctionOnSet is, without its recursion: nothing for the empty  *)
(* set, and for another any element and the rest.                          *)
LEMMA SumIsSum ==
  ASSUME NEW S, IsFiniteSet(S), NEW f, \A x \in S : f[x] \in Int
  PROVE  \E g \in [SUBSET S -> Int] : /\ \A s \in SUBSET S : SumsUp(g, f, s)
                                      /\ SumFunctionOnSet(f, S) = g[S]
<1>. DEFINE g == CHOOSE iter : iter = [s \in SUBSET S |->
                   IF s = {} THEN 0 ELSE f[Some(s)] + iter[s \ {Some(s)}]]
<1>1. SumFunctionOnSet(f, S) = g[S]
  BY DEF SumFunctionOnSet, FoldFunctionOnSet, MapThenFoldSet, Some
<1>2. PICK h \in [SUBSET S -> Int] : \A s \in SUBSET S : SumsUp(h, f, s)
  BY SumsExist
<1>3. h = [s \in SUBSET S |-> IF s = {} THEN 0 ELSE f[Some(s)] + h[s \ {Some(s)}]]
  BY <1>2 DEF SumsUp
<1>4. g = [s \in SUBSET S |-> IF s = {} THEN 0 ELSE f[Some(s)] + g[s \ {Some(s)}]]
  BY <1>3
<1>5. \A s \in SUBSET S : SumsUp(g, f, s)
  <2> HIDE DEF g
  <2> QED  BY <1>4 DEF SumsUp
<1>6. g[S] = h[S]
  <2> HIDE DEF g
  <2> QED  BY <1>2, <1>5, SumsAgree
<1> QED  BY <1>1, <1>2, <1>6

LEMMA SumOfSome ==
  ASSUME NEW S, IsFiniteSet(S), NEW f, \A x \in S : f[x] \in Int
  PROVE  /\ SumFunctionOnSet(f, S) \in Int
         /\ SumFunctionOnSet(f, {}) = 0
         /\ S # {} => SumFunctionOnSet(f, S) = f[Some(S)] + SumFunctionOnSet(f, S \ {Some(S)})
<1>1. PICK g \in [SUBSET S -> Int] : (\A s \in SUBSET S : SumsUp(g, f, s)) /\ SumFunctionOnSet(f, S) = g[S]
  BY SumIsSum
<1>2. \A T \in SUBSET S : SumFunctionOnSet(f, T) = g[T]
  <2>1. SUFFICES ASSUME NEW T \in SUBSET S
                 PROVE  SumFunctionOnSet(f, T) = g[T]
    OBVIOUS
  <2>2. IsFiniteSet(T)
    BY FS_Subset
  <2>3. PICK h \in [SUBSET T -> Int] : (\A s \in SUBSET T : SumsUp(h, f, s)) /\ SumFunctionOnSet(f, T) = h[T]
    BY <2>2, SumIsSum
  <2>4. \A s \in SUBSET T : SumsUp(g, f, s) /\ SumsUp(h, f, s)
    BY <1>1, <2>3
  <2> QED  BY <2>2, <2>3, <2>4, SumsAgree
<1>3. SumsUp(g, f, S) /\ SumsUp(g, f, {})
  BY <1>1
<1> QED  BY <1>1, <1>2, <1>3 DEF SumsUp

LEMMA SumOfAny ==
  ASSUME NEW S, IsFiniteSet(S), NEW f, \A x \in S : f[x] \in Int, NEW x \in S
  PROVE  SumFunctionOnSet(f, S) = f[x] + SumFunctionOnSet(f, S \ {x})
<1>. DEFINE Sum(s) == SumFunctionOnSet(f, s)
            D == {n \in Nat : \A s \in SUBSET S : Cardinality(s) = n
                                => \A y \in s : Sum(s) = f[y] + Sum(s \ {y})}
<1>1. \A s \in SUBSET S : /\ IsFiniteSet(s) /\ Cardinality(s) \in Nat /\ Sum(s) \in Int
                          /\ (Cardinality(s) = 0 <=> s = {})
                          /\ s # {} => Sum(s) = f[Some(s)] + Sum(s \ {Some(s)})
  <2>1. SUFFICES ASSUME NEW s \in SUBSET S
                 PROVE  /\ IsFiniteSet(s) /\ Cardinality(s) \in Nat /\ Sum(s) \in Int
                        /\ (Cardinality(s) = 0 <=> s = {})
                        /\ s # {} => Sum(s) = f[Some(s)] + Sum(s \ {Some(s)})
    OBVIOUS
  <2>2. IsFiniteSet(s) /\ \A y \in s : f[y] \in Int
    BY FS_Subset
  <2> QED  BY <2>2, FS_CardinalityType, FS_EmptySet, SumOfSome
<1>2. 0 \in D
  BY <1>1
<1>3. ASSUME NEW n \in D
      PROVE  n + 1 \in D
  <2>1. SUFFICES ASSUME NEW s \in SUBSET S, Cardinality(s) = n + 1, NEW y \in s
                 PROVE  Sum(s) = f[y] + Sum(s \ {y})
    OBVIOUS
  <2>. DEFINE c == Some(s)
  <2>2. c \in s /\ Sum(s) = f[c] + Sum(s \ {c})
    BY <1>1 DEF Some
  <2>3. CASE y = c
    BY <2>2, <2>3
  <2>4. CASE y # c
    <3>1. Cardinality(s \ {c}) = n /\ Cardinality(s \ {y}) = n
      <4>1. IsFiniteSet(s) /\ Cardinality(s) = n + 1
        BY <1>1, <2>1
      <4>2. Cardinality(s \ {c}) = Cardinality(s) - 1
        BY <2>2, <4>1, FS_RemoveElement
      <4>3. Cardinality(s \ {y}) = Cardinality(s) - 1
        BY <4>1, FS_RemoveElement
      <4> QED  BY <4>1, <4>2, <4>3
    <3>2. Sum(s \ {c}) = f[y] + Sum((s \ {c}) \ {y})
      BY <2>4, <3>1
    <3>3. Sum(s \ {y}) = f[c] + Sum((s \ {y}) \ {c})
      BY <2>2, <2>4, <3>1
    <3>4. (s \ {c}) \ {y} = (s \ {y}) \ {c}
      OBVIOUS
    <3>5. f[y] \in Int /\ f[c] \in Int
      BY <2>2
    <3>6. (s \ {c}) \ {y} \in SUBSET S
      OBVIOUS
    <3>7. Sum((s \ {c}) \ {y}) \in Int
      BY <1>1, <3>6
    <3>8. Sum(s) = f[c] + (f[y] + Sum((s \ {c}) \ {y}))
      BY <2>2, <3>2
    <3>9. Sum(s \ {y}) = f[c] + Sum((s \ {c}) \ {y})
      BY <3>3, <3>4
    <3> HIDE DEF c, Sum
    <3> QED  BY <3>5, <3>7, <3>8, <3>9
  <2> QED  BY <2>3, <2>4
<1>4. D = Nat
  <2> HIDE DEF D
  <2>1. D \in SUBSET Nat
    BY DEF D
  <2> QED  BY <1>2, <1>3, <2>1, SetInduction
<1>5. Cardinality(S) \in Nat
  BY <1>1
<1> QED  BY <1>4, <1>5

(* Sums of functions that agree are equal.                                 *)
LEMMA SumOfEquals ==
  ASSUME NEW S, IsFiniteSet(S), NEW f, NEW g, \A x \in S : f[x] \in Int /\ g[x] = f[x]
  PROVE  SumFunctionOnSet(f, S) = SumFunctionOnSet(g, S)
<1>1. PICK F \in [SUBSET S -> Int] : (\A s \in SUBSET S : SumsUp(F, f, s)) /\ SumFunctionOnSet(f, S) = F[S]
  BY SumIsSum
<1>2. PICK G \in [SUBSET S -> Int] : (\A s \in SUBSET S : SumsUp(G, g, s)) /\ SumFunctionOnSet(g, S) = G[S]
  BY SumIsSum
<1>3. \A s \in SUBSET S : SumsUp(G, f, s)
  <2>1. SUFFICES ASSUME NEW s \in SUBSET S
                 PROVE  SumsUp(G, f, s)
    OBVIOUS
  <2>2. s # {} => f[Some(s)] = g[Some(s)]
    BY DEF Some
  <2> QED  BY <1>2, <2>2 DEF SumsUp
<1>4. \A s \in SUBSET S : SumsUp(F, f, s) /\ SumsUp(G, f, s)
  BY <1>1, <1>3
<1>5. F[S] = G[S]
  BY <1>4, SumsAgree
<1> QED  BY <1>1, <1>2, <1>5

(* A sum of naturals over a part is at most the whole.                     *)
LEMMA SumOfPart ==
  ASSUME NEW S, IsFiniteSet(S), NEW f, \A x \in S : f[x] \in Nat, NEW T \in SUBSET S
  PROVE  /\ SumFunctionOnSet(f, T) \in Nat
         /\ SumFunctionOnSet(f, T) <= SumFunctionOnSet(f, S)
<1>. DEFINE Sum(s) == SumFunctionOnSet(f, s)
            D == {n \in Nat : \A s \in SUBSET S : Cardinality(s) = n =>
                                \A t \in SUBSET s : Sum(t) \in Nat /\ Sum(t) <= Sum(s)}
<1>1. \A s \in SUBSET S : /\ IsFiniteSet(s) /\ Cardinality(s) \in Nat
                          /\ (Cardinality(s) = 0 <=> s = {})
                          /\ \A y \in s : Sum(s) = f[y] + Sum(s \ {y})
  <2>1. SUFFICES ASSUME NEW s \in SUBSET S
                 PROVE  /\ IsFiniteSet(s) /\ Cardinality(s) \in Nat
                        /\ (Cardinality(s) = 0 <=> s = {})
                        /\ \A y \in s : Sum(s) = f[y] + Sum(s \ {y})
    OBVIOUS
  <2>2. IsFiniteSet(s) /\ \A y \in s : f[y] \in Int
    BY FS_Subset
  <2> QED  BY <2>2, FS_CardinalityType, FS_EmptySet, SumOfAny
<1>2. 0 \in D
  <2>1. \A y \in S : f[y] \in Int
    OBVIOUS
  <2>2. Sum({}) = 0
    BY <2>1, SumOfSome
  <2>3. \A s \in SUBSET S : Cardinality(s) = 0 => s = {}
    BY <1>1
  <2> HIDE DEF Sum
  <2> QED  BY <2>2, <2>3
<1>3. ASSUME NEW n \in D
      PROVE  n + 1 \in D
  <2>1. SUFFICES ASSUME NEW s \in SUBSET S, Cardinality(s) = n + 1, NEW t \in SUBSET s
                 PROVE  Sum(t) \in Nat /\ Sum(t) <= Sum(s)
    OBVIOUS
  <2>2. \A y \in s : /\ f[y] \in Nat /\ Sum(s) = f[y] + Sum(s \ {y})
                     /\ s \ {y} \in SUBSET S /\ Cardinality(s \ {y}) = n
    <3>1. SUFFICES ASSUME NEW y \in s
                   PROVE  /\ f[y] \in Nat /\ Sum(s) = f[y] + Sum(s \ {y})
                          /\ s \ {y} \in SUBSET S /\ Cardinality(s \ {y}) = n
      OBVIOUS
    <3>2. IsFiniteSet(s) /\ Sum(s) = f[y] + Sum(s \ {y})
      BY <1>1
    <3>3. Cardinality(s \ {y}) = Cardinality(s) - 1
      BY <3>2, FS_RemoveElement
    <3> QED  BY <2>1, <3>2, <3>3
  <2>3. \A y \in s : \A u \in SUBSET (s \ {y}) :
          Sum(u) \in Nat /\ Sum(u) <= Sum(s \ {y}) /\ Sum(s \ {y}) \in Nat
    BY <2>2
  <2>4. CASE t = s
    <3>1. PICK y \in s : TRUE
      BY <1>1, <2>1
    <3>2. Sum(s \ {y}) \in Nat
      BY <2>3
    <3> HIDE DEF Sum
    <3> QED  BY <2>2, <2>4, <3>2
  <2>5. CASE t # s
    <3>1. PICK y \in s : y \notin t
      BY <2>5
    <3>2. Sum(t) \in Nat /\ Sum(t) <= Sum(s \ {y}) /\ Sum(s \ {y}) \in Nat
      BY <2>3, <3>1
    <3> HIDE DEF Sum
    <3> QED  BY <2>2, <3>1, <3>2
  <2> QED  BY <2>4, <2>5
<1>4. D = Nat
  <2> HIDE DEF D
  <2>1. D \in SUBSET Nat
    BY DEF D
  <2> QED  BY <1>2, <1>3, <2>1, SetInduction
<1>5. Cardinality(S) \in Nat
  BY <1>1
<1> QED  BY <1>4, <1>5
(* A sum changes by what changes in one place, and zeros do not count.     *)
LEMMA SumChanges ==
  ASSUME NEW S, IsFiniteSet(S), NEW f, NEW g, NEW x \in S,
         \A y \in S : f[y] \in Int /\ g[y] \in Int, \A y \in S \ {x} : g[y] = f[y]
  PROVE  SumFunctionOnSet(g, S) = SumFunctionOnSet(f, S) - f[x] + g[x]
<1>1. IsFiniteSet(S \ {x})
  BY FS_Subset
<1>2. SumFunctionOnSet(f, S) = f[x] + SumFunctionOnSet(f, S \ {x})
  BY SumOfAny
<1>3. SumFunctionOnSet(g, S) = g[x] + SumFunctionOnSet(g, S \ {x})
  BY SumOfAny
<1>4. SumFunctionOnSet(f, S \ {x}) = SumFunctionOnSet(g, S \ {x})
  BY <1>1, SumOfEquals
<1>5. SumFunctionOnSet(f, S \ {x}) \in Int
  BY <1>1, SumOfSome
<1> QED  BY <1>2, <1>3, <1>4, <1>5

LEMMA SumSkipsZeros ==
  ASSUME NEW S, IsFiniteSet(S), NEW f, \A x \in S : f[x] \in Int,
         NEW T \in SUBSET S, \A x \in S \ T : f[x] = 0
  PROVE  SumFunctionOnSet(f, S) = SumFunctionOnSet(f, T)
<1>. DEFINE D == {n \in Nat : \A s \in SUBSET S : T \subseteq s /\ Cardinality(s \ T) = n
                                => SumFunctionOnSet(f, s) = SumFunctionOnSet(f, T)}
<1>1. \A s \in SUBSET S : /\ IsFiniteSet(s) /\ IsFiniteSet(s \ T) /\ Cardinality(s \ T) \in Nat
                          /\ (Cardinality(s \ T) = 0 <=> s \ T = {})
  <2>1. SUFFICES ASSUME NEW s \in SUBSET S
                 PROVE  /\ IsFiniteSet(s) /\ IsFiniteSet(s \ T) /\ Cardinality(s \ T) \in Nat
                        /\ (Cardinality(s \ T) = 0 <=> s \ T = {})
    OBVIOUS
  <2>2. IsFiniteSet(s) /\ IsFiniteSet(s \ T)
    BY FS_Subset
  <2> QED  BY <2>2, FS_CardinalityType, FS_EmptySet
<1>2. 0 \in D
  <2>1. SUFFICES ASSUME NEW s \in SUBSET S, T \subseteq s, Cardinality(s \ T) = 0
                 PROVE  SumFunctionOnSet(f, s) = SumFunctionOnSet(f, T)
    OBVIOUS
  <2>2. s = T
    BY <1>1, <2>1
  <2> QED  BY <2>2
<1>3. ASSUME NEW n \in D
      PROVE  n + 1 \in D
  <2>1. SUFFICES ASSUME NEW s \in SUBSET S, T \subseteq s, Cardinality(s \ T) = n + 1
                 PROVE  SumFunctionOnSet(f, s) = SumFunctionOnSet(f, T)
    OBVIOUS
  <2>2. PICK x \in s \ T : TRUE
    <3>1. Cardinality(s \ T) # 0
      BY <2>1
    <3>2. s \ T # {}
      BY <1>1, <3>1
    <3> QED  BY <3>2
  <2>3. (s \ T) \ {x} = (s \ {x}) \ T /\ T \subseteq s \ {x}
    BY <2>1, <2>2
  <2>4. Cardinality((s \ T) \ {x}) = Cardinality(s \ T) - 1
    BY <1>1, <2>2, FS_RemoveElement
  <2>5. Cardinality((s \ {x}) \ T) = n
    <3>1. n \in Nat /\ (n + 1) - 1 = n
      OBVIOUS
    <3> HIDE DEF D
    <3> QED  BY <2>1, <2>3, <2>4, <3>1
  <2>6. SumFunctionOnSet(f, s \ {x}) = SumFunctionOnSet(f, T)
    BY <2>3, <2>5
  <2>7. IsFiniteSet(s) /\ \A y \in s : f[y] \in Int
    BY <1>1
  <2>8. SumFunctionOnSet(f, s) = f[x] + SumFunctionOnSet(f, s \ {x})
    BY <2>2, <2>7, SumOfAny
  <2>9. IsFiniteSet(s \ {x})
    BY <1>1
  <2>10. SumFunctionOnSet(f, s \ {x}) \in Int
    BY <2>7, <2>9, SumOfSome
  <2> QED  BY <2>2, <2>6, <2>8, <2>10
<1>4. D = Nat
  <2> HIDE DEF D
  <2>1. D \in SUBSET Nat
    BY DEF D
  <2> QED  BY <1>2, <1>3, <2>1, SetInduction
<1> QED  BY <1>1, <1>4

(* What a family of sets holds together.                                   *)
Together(H, s) == UNION {H[j] : j \in s}

(* Sets that have nothing in common hold together as many as one by one.   *)
LEMMA TogetherIsSum ==
  ASSUME NEW S, IsFiniteSet(S), NEW H, NEW f,
         \A j \in S : IsFiniteSet(H[j]) /\ f[j] = Cardinality(H[j]),
         \A i, j \in S : i = j \/ H[i] \cap H[j] = {}
  PROVE  /\ IsFiniteSet(Together(H, S))
         /\ Cardinality(Together(H, S)) = SumFunctionOnSet(f, S)
<1>. DEFINE D == {n \in Nat : \A s \in SUBSET S : Cardinality(s) = n =>
                     /\ IsFiniteSet(Together(H, s))
                     /\ Cardinality(Together(H, s)) = SumFunctionOnSet(f, s)}
<1>1. \A j \in S : f[j] \in Int /\ IsFiniteSet(H[j])
  BY FS_CardinalityType
<1>2. \A s \in SUBSET S : /\ IsFiniteSet(s) /\ Cardinality(s) \in Nat
                          /\ (Cardinality(s) = 0 <=> s = {})
  BY FS_Subset, FS_CardinalityType, FS_EmptySet
<1>3. 0 \in D
  <2>1. SumFunctionOnSet(f, {}) = 0
    BY <1>1, SumOfSome
  <2>2. Together(H, {}) = {}
    BY DEF Together
  <2>3. IsFiniteSet({}) /\ Cardinality({}) = 0
    BY FS_EmptySet
  <2>4. \A s \in SUBSET S : Cardinality(s) = 0 => s = {}
    BY <1>2
  <2> QED  BY <2>1, <2>2, <2>3, <2>4
<1>4. ASSUME NEW n \in D
      PROVE  n + 1 \in D
  <2>1. SUFFICES ASSUME NEW s \in SUBSET S, Cardinality(s) = n + 1
                 PROVE  /\ IsFiniteSet(Together(H, s))
                        /\ Cardinality(Together(H, s)) = SumFunctionOnSet(f, s)
    OBVIOUS
  <2>2. PICK x \in s : TRUE
    BY <1>2, <2>1
  <2>3. IsFiniteSet(s) /\ Cardinality(s \ {x}) = n
    <3>1. IsFiniteSet(s)
      BY <1>2
    <3>2. Cardinality(s \ {x}) = Cardinality(s) - 1
      BY <2>2, <3>1, FS_RemoveElement
    <3> QED  BY <2>1, <3>1, <3>2
  <2>4. PICK rest : rest = s \ {x}
    OBVIOUS
  <2>5. IsFiniteSet(Together(H, rest)) /\ Cardinality(Together(H, rest)) = SumFunctionOnSet(f, rest)
    BY <2>3, <2>4
  <2>6. /\ Together(H, s) = Together(H, rest) \cup H[x]
        /\ Together(H, rest) \cap H[x] = {}
    BY <2>2, <2>4 DEF Together
  <2>7. /\ IsFiniteSet(Together(H, s))
        /\ Cardinality(Together(H, s)) = Cardinality(Together(H, rest)) + Cardinality(H[x]) - Cardinality({})
    BY <1>1, <2>2, <2>5, <2>6, FS_Union
  <2>8. SumFunctionOnSet(f, s) = f[x] + SumFunctionOnSet(f, rest)
    <3>1. \A y \in s : f[y] \in Int
      BY <1>1
    <3> QED  BY <2>2, <2>3, <2>4, <3>1, SumOfAny
  <2>9. Cardinality({}) = 0 /\ f[x] = Cardinality(H[x]) /\ f[x] \in Int
    BY <1>1, <2>2, FS_EmptySet
  <2>10. SumFunctionOnSet(f, rest) \in Int
    BY <2>5, FS_CardinalityType
  <2> QED  BY <2>5, <2>7, <2>8, <2>9, <2>10
<1>5. D = Nat
  <2> HIDE DEF D
  <2>1. D \in SUBSET Nat
    BY DEF D
  <2> QED  BY <1>3, <1>4, <2>1, SetInduction
<1> QED  BY <1>2, <1>5

-----------------------------------------------------------------------------
(* A fold over a sequence takes the last index away at a time.             *)
Folds(iter, base, step, s, t) ==
  iter[t] = IF t = {} THEN base ELSE step[<<iter[t \ {Max(t)}], s[Max(t)]>>]

(* The elements of a sequence, and what a step makes of them, have types.  *)
Foldable(A, X, base, step, n, s) ==
  base \in A /\ step \in [A \X X -> A] /\ n \in Nat /\ s \in [1 .. n -> X]

(* A table of what each part of the sequence is folded to.                 *)
FoldTable(iter, A, base, step, n, s) ==
  iter \in [SUBSET (1 .. n) -> A] /\ \A t \in SUBSET (1 .. n) : Folds(iter, base, step, s, t)

LEMMA MaxOfPart ==
  ASSUME NEW n \in Nat, NEW t \in SUBSET (1 .. n), t # {}
  PROVE  Max(t) \in t /\ \A m \in t : m <= Max(t)
<1>1. t \in SUBSET Nat /\ \A m \in t : m <= n
  OBVIOUS
<1>2. \E m \in t : \A k \in t : k <= m
  BY <1>1, BoundedHasGreatest
<1>3. \E m \in t : \A k \in t : m >= k
  BY <1>1, <1>2
<1> QED  BY <1>1, <1>3 DEF Max

LEMMA PrefixesGrow ==
  ASSUME NEW k \in Nat
  PROVE  Max(1 .. k + 1) = k + 1 /\ (1 .. k + 1) \ {k + 1} = 1 .. k /\ 1 .. k + 1 # {}
<1>1. k + 1 \in Nat /\ k + 1 \in 1 .. k + 1
  OBVIOUS
<1>2. Max(1 .. k + 1) \in 1 .. k + 1 /\ \A m \in 1 .. k + 1 : m <= Max(1 .. k + 1)
  BY <1>1, MaxOfPart
<1> QED  BY <1>1, <1>2

(* There is the function by which FoldLeft is defined.                     *)
LEMMA FoldsExist ==
  ASSUME NEW A, NEW X, NEW base, NEW step, NEW n, NEW s, Foldable(A, X, base, step, n, s)
  PROVE  \E iter : FoldTable(iter, A, base, step, n, s)
<1>. base \in A /\ step \in [A \X X -> A] /\ n \in Nat /\ s \in [1 .. n -> X]
  BY DEF Foldable
<1>. DEFINE UpTo(k) == \E h \in [SUBSET (1 .. k) -> A] :
                        \A t \in SUBSET (1 .. k) : Folds(h, base, step, s, t)
            D == {k \in Nat : k <= n => UpTo(k)}
<1>1. 0 \in D
  <2>1. SUBSET (1 .. 0) = {{}}
    OBVIOUS
  <2>2. [t \in SUBSET (1 .. 0) |-> base] \in [SUBSET (1 .. 0) -> A]
    OBVIOUS
  <2>3. \A t \in SUBSET (1 .. 0) : Folds([u \in SUBSET (1 .. 0) |-> base], base, step, s, t)
    BY <2>1 DEF Folds
  <2> QED  BY <2>2, <2>3
<1>2. ASSUME NEW k \in D
      PROVE  k + 1 \in D
  <2>. k \in Nat /\ k + 1 \in Nat
    OBVIOUS
  <2>1. SUFFICES ASSUME k + 1 <= n
                 PROVE  UpTo(k + 1)
    OBVIOUS
  <2>2. PICK g \in [SUBSET (1 .. k) -> A] : \A t \in SUBSET (1 .. k) : Folds(g, base, step, s, t)
    <3>1. UpTo(k)
      <4> HIDE DEF UpTo
      <4> QED  BY <2>1
    <3> QED  BY <3>1
  <2>. DEFINE h == [t \in SUBSET (1 .. k + 1) |->
                      IF t \in SUBSET (1 .. k) THEN g[t] ELSE step[<<g[t \ {k + 1}], s[k + 1]>>]]
  <2>3. ASSUME NEW t \in SUBSET (1 .. k + 1), t \notin SUBSET (1 .. k)
        PROVE  k + 1 \in t /\ t \ {k + 1} \in SUBSET (1 .. k) /\ Max(t) = k + 1
    <3>1. k + 1 \in t
      <4>1. \A m \in t : m \in Int /\ 1 <= m /\ m <= k + 1
        OBVIOUS
      <4>2. PICK m \in t : m \notin 1 .. k
        BY <2>3
      <4>3. m = k + 1
        BY <4>1, <4>2
      <4> QED  BY <4>3
    <3>2. t \ {k + 1} \in SUBSET (1 .. k)
      OBVIOUS
    <3>3. Max(t) \in t /\ \A m \in t : m <= Max(t)
      BY <3>1, MaxOfPart
    <3>4. Max(t) \in 1 .. k + 1 /\ k + 1 <= Max(t)
      BY <3>1, <3>3
    <3> QED  BY <3>1, <3>2, <3>4
  <2>4. s[k + 1] \in X
    BY <2>1
  <2>5. h \in [SUBSET (1 .. k + 1) -> A]
    BY <2>3, <2>4
  <2>6. ASSUME NEW t \in SUBSET (1 .. k + 1)
        PROVE  Folds(h, base, step, s, t)
    <3>1. CASE t \in SUBSET (1 .. k)
      <4>1. t # {} => t \ {Max(t)} \in SUBSET (1 .. k)
        BY <3>1
      <4>2. h[t] = g[t] /\ (t # {} => h[t \ {Max(t)}] = g[t \ {Max(t)}])
        BY <3>1, <4>1
      <4> HIDE DEF h
      <4> QED  BY <2>2, <3>1, <4>2 DEF Folds
    <3>2. CASE t \notin SUBSET (1 .. k)
      <4>1. t # {} /\ h[t] = step[<<g[t \ {k + 1}], s[k + 1]>>]
        BY <2>3, <3>2
      <4>2. h[t \ {k + 1}] = g[t \ {k + 1}] /\ Max(t) = k + 1
        BY <2>3, <3>2
      <4> HIDE DEF h
      <4> QED  BY <4>1, <4>2 DEF Folds
    <3> QED  BY <3>1, <3>2
  <2> HIDE DEF h
  <2> QED  BY <2>5, <2>6
<1>3. D = Nat
  <2> HIDE DEF D
  <2>1. D \in SUBSET Nat
    BY DEF D
  <2> QED  BY <1>1, <1>2, <2>1, SetInduction
<1>4. UpTo(n)
  <2> HIDE DEF UpTo
  <2>1. n \in D
    BY <1>3
  <2> QED  BY <2>1
<1> QED  BY <1>4 DEF FoldTable

(* What a comprehension with a condition leaves of a list: those in a set. *)
KeptOf(s, set) ==
  FoldLeft(LAMBDA kept, x : IF x \in set THEN Append(kept, x) ELSE kept, <<>>, s)

KeptRun(acc, X, s, set) ==
  /\ acc \in [0 .. Len(s) -> Seq(X)]
  /\ acc[0] = <<>> /\ KeptOf(s, set) = acc[Len(s)]
  /\ \A k \in 0 .. Len(s) - 1 :
       acc[k + 1] = IF s[k + 1] \in set THEN Append(acc[k], s[k + 1]) ELSE acc[k]

LEMMA KeptSteps ==
  ASSUME NEW X, NEW s \in Seq(X), NEW set
  PROVE  \E acc : KeptRun(acc, X, s, set)
<1>. DEFINE n == Len(s)
            Next(kept, x) == IF x \in set THEN Append(kept, x) ELSE kept
            step == [p \in Seq(X) \X X |-> Next(p[1], p[2])]
            g == CHOOSE iter : iter = [t \in SUBSET DOMAIN s |->
                   IF t = {} THEN <<>> ELSE Next(iter[t \ {Max(t)}], s[Max(t)])]
<1>1. KeptOf(s, set) = g[DOMAIN s]
  BY DEF KeptOf, FoldLeft, MapThenFoldSet
<1>2. n \in Nat /\ DOMAIN s = 1 .. n /\ s \in [1 .. n -> X]
  BY SeqDef
<1>3. <<>> \in Seq(X) /\ step \in [Seq(X) \X X -> Seq(X)]
  OBVIOUS
<1>4. \A kept \in Seq(X), x \in X : step[<<kept, x>>] = Next(kept, x)
  OBVIOUS
<1>. HIDE DEF n, step, Next
<1>5. PICK h : FoldTable(h, Seq(X), <<>>, step, n, s)
  <2>. HIDE DEF g
  <2>1. Foldable(Seq(X), X, <<>>, step, n, s)
    BY <1>2, <1>3 DEF Foldable
  <2> QED  BY <2>1, FoldsExist
<1>7. h \in [SUBSET (1 .. n) -> Seq(X)] /\ \A t \in SUBSET (1 .. n) : Folds(h, <<>>, step, s, t)
  BY <1>5 DEF FoldTable
<1>8. \A t \in SUBSET (1 .. n) : t # {} => s[Max(t)] \in X /\ h[t \ {Max(t)}] \in Seq(X)
  BY <1>2, <1>7, MaxOfPart
<1>9. h = [t \in SUBSET (1 .. n) |-> IF t = {} THEN <<>> ELSE Next(h[t \ {Max(t)}], s[Max(t)])]
  BY <1>4, <1>7, <1>8 DEF Folds
<1>10. g = [t \in SUBSET (1 .. n) |-> IF t = {} THEN <<>> ELSE Next(g[t \ {Max(t)}], s[Max(t)])]
  BY <1>2, <1>9
<1>. HIDE DEF g
<1>11. g[1 .. 0] = <<>>
  <2>1. 1 .. 0 = {} /\ {} \in SUBSET (1 .. n)
    OBVIOUS
  <2> QED  BY <1>10, <2>1
<1>12. ASSUME NEW k \in 0 .. n - 1
       PROVE  g[1 .. k + 1] = Next(g[1 .. k], s[k + 1])
  <2>1. k \in Nat /\ 1 .. k + 1 \in SUBSET (1 .. n)
    BY <1>2
  <2>2. Max(1 .. k + 1) = k + 1 /\ (1 .. k + 1) \ {k + 1} = 1 .. k /\ 1 .. k + 1 # {}
    BY <2>1, PrefixesGrow
  <2> QED  BY <1>10, <2>1, <2>2
<1>. DEFINE D == {k \in Nat : k <= n => g[1 .. k] \in Seq(X)}
<1>13. D = Nat
  <2>1. 0 \in D
    BY <1>3, <1>11
  <2>2. ASSUME NEW k \in D
        PROVE  k + 1 \in D
    <3>1. SUFFICES ASSUME k + 1 <= n
                   PROVE  g[1 .. k + 1] \in Seq(X)
      OBVIOUS
    <3>2. k \in 0 .. n - 1 /\ g[1 .. k] \in Seq(X) /\ s[k + 1] \in X
      BY <1>2, <3>1
    <3>3. g[1 .. k + 1] = Next(g[1 .. k], s[k + 1])
      BY <1>12, <3>2
    <3>4. \A kept \in Seq(X), x \in X : Next(kept, x) \in Seq(X)
      BY DEF Next
    <3> QED  BY <3>2, <3>3, <3>4
  <2>. HIDE DEF D
  <2>3. D \in SUBSET Nat
    BY DEF D
  <2> QED  BY <2>1, <2>2, <2>3, SetInduction
<1>. DEFINE acc == [k \in 0 .. n |-> g[1 .. k]]
<1>14. acc \in [0 .. n -> Seq(X)]
  BY <1>2, <1>13
<1>15. acc[0] = <<>> /\ KeptOf(s, set) = acc[n]
  BY <1>1, <1>2, <1>11
<1>16. \A k \in 0 .. n - 1 : acc[k + 1] = Next(acc[k], s[k + 1])
  BY <1>2, <1>12
<1> QED  BY <1>14, <1>15, <1>16 DEF n, Next, KeptRun

(* Where the elements that are kept stood.                                 *)
Picks(f, r, s, k, set) ==
  /\ f \in [1 .. Len(r) -> 1 .. k]
  /\ \A i, j \in 1 .. Len(r) : i < j => f[i] < f[j]
  /\ \A i \in 1 .. Len(r) : r[i] = s[f[i]] /\ s[f[i]] \in set
  /\ \A m \in 1 .. k : s[m] \in set => \E i \in 1 .. Len(r) : f[i] = m

LEMMA KeptIsPart ==
  ASSUME NEW X, NEW s \in Seq(X), NEW set
  PROVE  KeptOf(s, set) \in Seq(X) /\ \E f : Picks(f, KeptOf(s, set), s, Len(s), set)
<1>0. PICK acc : KeptRun(acc, X, s, set)
  BY KeptSteps
<1>1. /\ acc \in [0 .. Len(s) -> Seq(X)]
      /\ acc[0] = <<>> /\ KeptOf(s, set) = acc[Len(s)]
      /\ \A k \in 0 .. Len(s) - 1 :
           acc[k + 1] = IF s[k + 1] \in set THEN Append(acc[k], s[k + 1]) ELSE acc[k]
  BY <1>0 DEF KeptRun
<1>2. Len(s) \in Nat
  OBVIOUS
<1>. DEFINE P(k) == \E f : Picks(f, acc[k], s, k, set)
            D == {k \in Nat : k <= Len(s) => P(k)}
<1>3. 0 \in D
  <2>1. acc[0] = <<>> /\ Len(<<>>) = 0
    BY <1>1
  <2>2. Picks([i \in 1 .. 0 |-> i], acc[0], s, 0, set)
    BY <2>1 DEF Picks
  <2> QED  BY <2>2
<1>4. ASSUME NEW k \in D
      PROVE  k + 1 \in D
  <2>. k \in Nat /\ k + 1 \in Nat
    OBVIOUS
  <2>1. SUFFICES ASSUME k + 1 <= Len(s)
                 PROVE  P(k + 1)
    OBVIOUS
  <2>2. P(k)
    <3> HIDE DEF P
    <3> QED  BY <1>2, <2>1
  <2>3. PICK f : Picks(f, acc[k], s, k, set)
    BY <2>2
  <2>4. acc[k] \in Seq(X) /\ acc[k + 1] \in Seq(X) /\ s[k + 1] \in X
    BY <1>1, <1>2, <2>1
  <2>5. acc[k + 1] = IF s[k + 1] \in set THEN Append(acc[k], s[k + 1]) ELSE acc[k]
    BY <1>1, <1>2, <2>1
  <2>6. CASE s[k + 1] \notin set
    <3>1. Picks(f, acc[k], s, k + 1, set)
      BY <2>3, <2>6 DEF Picks
    <3> QED  BY <2>5, <2>6, <3>1
  <2>7. CASE s[k + 1] \in set
    <3>1. PICK r, q : r = acc[k] /\ q = acc[k + 1]
      OBVIOUS
    <3>2. /\ r \in Seq(X) /\ q \in Seq(X) /\ Len(r) \in Nat /\ Len(q) = Len(r) + 1
          /\ q[Len(r) + 1] = s[k + 1] /\ \A i \in 1 .. Len(r) : q[i] = r[i]
      BY <2>4, <2>5, <2>7, <3>1
    <3>3. PICK n \in Nat : n = Len(r)
      BY <3>2
    <3>. DEFINE g == [i \in 1 .. n + 1 |-> IF i = n + 1 THEN k + 1 ELSE f[i]]
    <3>4. Picks(f, r, s, k, set)
      BY <2>3, <3>1
    <3>5. /\ f \in [1 .. n -> 1 .. k]
          /\ \A i, j \in 1 .. n : i < j => f[i] < f[j]
          /\ \A i \in 1 .. n : r[i] = s[f[i]] /\ s[f[i]] \in set
          /\ \A m \in 1 .. k : s[m] \in set => \E i \in 1 .. n : f[i] = m
      BY <3>3, <3>4 DEF Picks
    <3>6. g \in [1 .. n + 1 -> 1 .. k + 1] /\ g[n + 1] = k + 1 /\ \A i \in 1 .. n : g[i] = f[i] /\ f[i] \in 1 .. k
      BY <3>5
    <3>. HIDE DEF g
    <3>7. \A i, j \in 1 .. n + 1 : i < j => g[i] < g[j]
      <4>1. SUFFICES ASSUME NEW i \in 1 .. n + 1, NEW j \in 1 .. n + 1, i < j
                     PROVE  g[i] < g[j]
        OBVIOUS
      <4>2. i \in 1 .. n
        BY <4>1
      <4>3. CASE j \in 1 .. n
        BY <3>5, <3>6, <4>1, <4>2, <4>3
      <4>4. CASE j = n + 1
        BY <3>6, <4>2, <4>4
      <4> QED  BY <4>3, <4>4
    <3>8. \A i \in 1 .. n + 1 : q[i] = s[g[i]] /\ s[g[i]] \in set
      <4>1. \A i \in 1 .. n : q[i] = s[g[i]] /\ s[g[i]] \in set
        BY <3>2, <3>3, <3>5, <3>6
      <4>2. q[n + 1] = s[g[n + 1]] /\ s[g[n + 1]] \in set
        BY <2>7, <3>2, <3>3, <3>6
      <4>3. \A i \in 1 .. n + 1 : i \in 1 .. n \/ i = n + 1
        OBVIOUS
      <4> QED  BY <4>1, <4>2, <4>3
    <3>9. \A m \in 1 .. k + 1 : s[m] \in set => \E i \in 1 .. n + 1 : g[i] = m
      <4>1. SUFFICES ASSUME NEW m \in 1 .. k + 1, s[m] \in set
                     PROVE  \E i \in 1 .. n + 1 : g[i] = m
        OBVIOUS
      <4>2. CASE m = k + 1
        BY <3>6, <4>2
      <4>3. CASE m \in 1 .. k
        <5>1. PICK i \in 1 .. n : f[i] = m
          BY <3>5, <4>1, <4>3
        <5>2. i \in 1 .. n + 1 /\ g[i] = m
          BY <3>6, <5>1
        <5> QED  BY <5>2
      <4> QED  BY <4>2, <4>3
    <3>10. Len(q) = n + 1
      BY <3>2, <3>3
    <3>11. Picks(g, q, s, k + 1, set)
      BY <3>6, <3>7, <3>8, <3>9, <3>10 DEF Picks
    <3> QED  BY <3>1, <3>11
  <2> QED  BY <2>6, <2>7
<1>5. P(Len(s))
  <2>. HIDE DEF P
  <2>1. 0 \in D /\ \A k \in D : k + 1 \in D
    BY <1>3, <1>4
  <2>2. D \in SUBSET Nat
    OBVIOUS
  <2>3. D = Nat
    <3> HIDE DEF D
    <3> QED  BY <2>1, <2>2, SetInduction
  <2>4. Len(s) \in D
    BY <1>2, <2>3
  <2> QED  BY <1>2, <2>4
<1> QED  BY <1>1, <1>2, <1>5

(* Which entries those are, and that none repeats that did not before.     *)
LEMMA KeptKeeps ==
  ASSUME NEW X, NEW s \in Seq(X), NEW set
  PROVE  /\ KeptOf(s, set) \in Seq(X) /\ ToSet(KeptOf(s, set)) = ToSet(s) \cap set
         /\ IsInjective(s) => IsInjective(KeptOf(s, set))
<1>1. PICK r : r = KeptOf(s, set)
  OBVIOUS
<1>2. PICK f : Picks(f, r, s, Len(s), set)
  BY <1>1, KeptIsPart
<1>3. r \in Seq(X)
  BY <1>1, KeptIsPart
<1>4. /\ f \in [1 .. Len(r) -> 1 .. Len(s)]
      /\ \A i, j \in 1 .. Len(r) : i < j => f[i] < f[j]
      /\ \A i \in 1 .. Len(r) : r[i] = s[f[i]] /\ s[f[i]] \in set
      /\ \A m \in 1 .. Len(s) : s[m] \in set => \E i \in 1 .. Len(r) : f[i] = m
  BY <1>2 DEF Picks
<1>5. DOMAIN r = 1 .. Len(r) /\ DOMAIN s = 1 .. Len(s) /\ Len(r) \in Nat /\ Len(s) \in Nat
  BY <1>3
<1>6. ToSet(r) = ToSet(s) \cap set
  <2>1. ASSUME NEW x \in ToSet(r)
        PROVE  x \in ToSet(s) \cap set
    <3>1. PICK i \in 1 .. Len(r) : x = r[i]
      BY <1>5 DEF ToSet
    <3>2. f[i] \in 1 .. Len(s) /\ x = s[f[i]] /\ x \in set
      BY <1>4, <3>1
    <3> QED  BY <1>5, <3>2 DEF ToSet
  <2>2. ASSUME NEW x \in ToSet(s) \cap set
        PROVE  x \in ToSet(r)
    <3>1. PICK m \in 1 .. Len(s) : x = s[m]
      BY <1>5 DEF ToSet
    <3>2. PICK i \in 1 .. Len(r) : f[i] = m
      BY <1>4, <3>1
    <3> QED  BY <1>4, <1>5, <3>1, <3>2 DEF ToSet
  <2> QED  BY <2>1, <2>2
<1>7. IsInjective(s) => IsInjective(r)
  <2>1. SUFFICES ASSUME IsInjective(s), NEW i \in 1 .. Len(r), NEW j \in 1 .. Len(r), r[i] = r[j]
                 PROVE  i = j
    BY <1>5 DEF IsInjective
  <2>2. f[i] = f[j] /\ f[i] \in Nat /\ f[j] \in Nat
    BY <1>4, <1>5, <2>1 DEF IsInjective
  <2>3. ~(i < j) /\ ~(j < i)
    BY <1>4, <2>2
  <2> QED  BY <1>5, <2>3
<1> QED  BY <1>1, <1>3, <1>6, <1>7

LEMMA ConcatEntries ==
  ASSUME NEW X, NEW a \in Seq(X), NEW b \in Seq(X)
  PROVE  ToSet(a \o b) = ToSet(a) \cup ToSet(b)
<1>1. PICK c : c = a \o b
  OBVIOUS
<1>2. /\ c \in Seq(X) /\ Len(c) = Len(a) + Len(b) /\ Len(a) \in Nat /\ Len(b) \in Nat
      /\ \A i \in 1 .. Len(c) : c[i] = IF i <= Len(a) THEN a[i] ELSE b[i - Len(a)]
  BY <1>1
<1>3. DOMAIN c = 1 .. Len(c) /\ DOMAIN a = 1 .. Len(a) /\ DOMAIN b = 1 .. Len(b)
  BY <1>2
<1>5. ASSUME NEW x \in ToSet(c)
      PROVE  x \in ToSet(a) \cup ToSet(b)
  <2>1. PICK i \in 1 .. Len(c) : x = c[i]
    BY <1>3 DEF ToSet
  <2>2. CASE i <= Len(a)
    <3>1. i \in 1 .. Len(a) /\ x = a[i]
      BY <1>2, <2>1, <2>2
    <3> QED  BY <1>3, <3>1 DEF ToSet
  <2>3. CASE ~(i <= Len(a))
    <3>1. i - Len(a) \in 1 .. Len(b) /\ x = b[i - Len(a)]
      BY <1>2, <2>1, <2>3
    <3> QED  BY <1>3, <3>1 DEF ToSet
  <2> QED  BY <2>2, <2>3
<1>6. \A i \in 1 .. Len(a) : i \in 1 .. Len(c) /\ c[i] = a[i]
  BY <1>2
<1>7. \A i \in 1 .. Len(b) : i + Len(a) \in 1 .. Len(c) /\ c[i + Len(a)] = b[i]
  <2>1. SUFFICES ASSUME NEW i \in 1 .. Len(b)
                 PROVE  i + Len(a) \in 1 .. Len(c) /\ c[i + Len(a)] = b[i]
    OBVIOUS
  <2>2. i + Len(a) \in 1 .. Len(c) /\ ~(i + Len(a) <= Len(a)) /\ (i + Len(a)) - Len(a) = i
    BY <1>2
  <2> QED  BY <1>2, <2>2
<1>8. ToSet(a) \cup ToSet(b) \subseteq ToSet(c)
  BY <1>3, <1>6, <1>7 DEF ToSet
<1> QED  BY <1>1, <1>5, <1>8

-----------------------------------------------------------------------------
(* The parts of a list of lists put together one after the other.          *)
FlatRun(f, X, seqs) ==
  /\ f \in [0 .. Len(seqs) -> Seq(X)]
  /\ f[0] = <<>> /\ FlattenSeq(seqs) = f[Len(seqs)]
  /\ \A k \in 0 .. Len(seqs) - 1 : f[k + 1] = f[k] \o seqs[k + 1]

LEMMA FlatSteps ==
  ASSUME NEW X, NEW seqs \in Seq(Seq(X))
  PROVE  \E f : FlatRun(f, X, seqs)
<1>. DEFINE n == Len(seqs)
            Flat(h, k) == h \in [0 .. k -> Seq(X)] /\ h[0] = <<>> /\ \A i \in 1 .. k : h[i] = h[i - 1] \o seqs[i]
            P(k) == \E h : Flat(h, k)
            D == {k \in Nat : k <= n => P(k)}
            g == CHOOSE flatten : flatten = [i \in 1 .. n |-> IF i = 1 THEN seqs[i] ELSE flatten[i - 1] \o seqs[i]]
<1>1. n \in Nat /\ DOMAIN seqs = 1 .. n /\ \A i \in 1 .. n : seqs[i] \in Seq(X)
  OBVIOUS
<1>2. FlattenSeq(seqs) = IF n = 0 THEN seqs ELSE g[n]
  BY DEF FlattenSeq
<1>. HIDE DEF n, g
<1>3. 0 \in D
  <2>1. <<>> \in Seq(X)
    OBVIOUS
  <2>2. Flat([i \in 0 .. 0 |-> <<>>], 0)
    BY <2>1
  <2> QED  BY <2>2
<1>4. ASSUME NEW k \in D
      PROVE  k + 1 \in D
  <2>. k \in Nat /\ k + 1 \in Nat
    OBVIOUS
  <2>1. SUFFICES ASSUME k + 1 <= n
                 PROVE  P(k + 1)
    OBVIOUS
  <2>2. P(k)
    <3> HIDE DEF P
    <3> QED  BY <1>1, <2>1
  <2>3. PICK h : Flat(h, k)
    BY <2>2
  <2>4. PICK e : e = h[k] \o seqs[k + 1]
    OBVIOUS
  <2>5. h[k] \in Seq(X) /\ seqs[k + 1] \in Seq(X)
    BY <1>1, <2>1, <2>3
  <2>6. e \in Seq(X)
    BY <2>4, <2>5
  <2>. DEFINE longer == [i \in 0 .. k + 1 |-> IF i = k + 1 THEN e ELSE h[i]]
  <2>7. longer \in [0 .. k + 1 -> Seq(X)] /\ longer[k + 1] = e /\ \A i \in 0 .. k : longer[i] = h[i]
    BY <2>3, <2>6
  <2>. HIDE DEF longer
  <2>8. \A i \in 1 .. k + 1 : longer[i] = longer[i - 1] \o seqs[i]
    <3>1. SUFFICES ASSUME NEW i \in 1 .. k + 1
                   PROVE  longer[i] = longer[i - 1] \o seqs[i]
      OBVIOUS
    <3>2. CASE i = k + 1
      <4>1. i - 1 = k /\ k \in 0 .. k
        BY <3>2
      <4> QED  BY <2>4, <2>7, <3>2, <4>1
    <3>3. CASE i \in 1 .. k
      <4>1. i - 1 \in 0 .. k /\ i \in 0 .. k
        BY <3>3
      <4> QED  BY <2>3, <2>7, <3>3, <4>1
    <3>4. i = k + 1 \/ i \in 1 .. k
      OBVIOUS
    <3> QED  BY <3>2, <3>3, <3>4
  <2>9. longer[0] = <<>>
    BY <2>3, <2>7
  <2>10. Flat(longer, k + 1)
    BY <2>7, <2>8, <2>9
  <2> QED  BY <2>10
<1>5. P(n)
  <2>. HIDE DEF P
  <2>1. 0 \in D /\ \A k \in D : k + 1 \in D
    BY <1>3, <1>4
  <2>2. D \in SUBSET Nat
    OBVIOUS
  <2>3. D = Nat
    <3> HIDE DEF D
    <3> QED  BY <2>1, <2>2, SetInduction
  <2>4. n \in D
    BY <1>1, <2>3
  <2> QED  BY <1>1, <2>4
<1>6. PICK h : Flat(h, n)
  BY <1>5
<1>7. \A k \in 0 .. n - 1 : h[k + 1] = h[k] \o seqs[k + 1]
  <2>1. SUFFICES ASSUME NEW k \in 0 .. n - 1
                 PROVE  h[k + 1] = h[k] \o seqs[k + 1]
    OBVIOUS
  <2>2. k + 1 \in 1 .. n /\ (k + 1) - 1 = k
    BY <1>1
  <2> QED  BY <1>6, <2>2
<1>8. CASE n = 0
  <2>1. seqs = <<>>
    BY <1>1, <1>8
  <2> QED  BY <1>2, <1>6, <1>7, <1>8, <2>1 DEF FlatRun, n
<1>9. CASE n # 0
  <2>1. h[1] = seqs[1]
    <3>1. h[1] = <<>> \o seqs[1] /\ seqs[1] \in Seq(X)
      <4>1. 0 \in 0 .. n - 1 /\ 1 \in 1 .. n /\ 0 + 1 = 1
        BY <1>1, <1>9
      <4> QED  BY <1>1, <1>6, <1>7, <4>1
    <3> QED  BY <3>1
  <2>. DEFINE t == [i \in 1 .. n |-> h[i]]
  <2>2. \A i \in 1 .. n : t[i] = IF i = 1 THEN seqs[i] ELSE t[i - 1] \o seqs[i]
    <3>1. SUFFICES ASSUME NEW i \in 1 .. n
                   PROVE  t[i] = IF i = 1 THEN seqs[i] ELSE t[i - 1] \o seqs[i]
      OBVIOUS
    <3>2. CASE i = 1
      BY <2>1, <3>2
    <3>3. CASE i # 1
      <4>1. i - 1 \in 1 .. n /\ t[i - 1] = h[i - 1] /\ t[i] = h[i]
        BY <1>1, <3>3
      <4> QED  BY <1>6, <3>3, <4>1
    <3> QED  BY <3>2, <3>3
  <2>3. t = [i \in 1 .. n |-> IF i = 1 THEN seqs[i] ELSE t[i - 1] \o seqs[i]]
    BY <2>2
  <2>4. g = [i \in 1 .. n |-> IF i = 1 THEN seqs[i] ELSE g[i - 1] \o seqs[i]]
    <3> HIDE DEF t
    <3> QED  BY <2>3 DEF g
  <2>5. \A i \in 1 .. n : g[i] = h[i]
    <3>. DEFINE E == {k \in Nat : k + 1 <= n => g[k + 1] = h[k + 1]}
    <3>1. 0 \in E
      BY <1>1, <1>9, <2>1, <2>4
    <3>2. ASSUME NEW k \in E
          PROVE  k + 1 \in E
      <4>. k \in Nat /\ k + 1 \in Nat
        OBVIOUS
      <4>1. SUFFICES ASSUME (k + 1) + 1 <= n
                     PROVE  g[(k + 1) + 1] = h[(k + 1) + 1]
        OBVIOUS
      <4>2. g[k + 1] = h[k + 1]
        BY <1>1, <4>1
      <4>3. (k + 1) + 1 \in 1 .. n /\ (k + 1) + 1 # 1 /\ ((k + 1) + 1) - 1 = k + 1 /\ k + 1 \in 0 .. n - 1
        BY <1>1, <4>1
      <4>4. g[(k + 1) + 1] = g[k + 1] \o seqs[(k + 1) + 1]
        BY <2>4, <4>3
      <4>5. h[(k + 1) + 1] = h[k + 1] \o seqs[(k + 1) + 1]
        BY <1>7, <4>3
      <4> QED  BY <4>2, <4>4, <4>5
    <3>3. E \in SUBSET Nat
      OBVIOUS
    <3>4. E = Nat
      <4> HIDE DEF E
      <4> QED  BY <3>1, <3>2, <3>3, SetInduction
    <3>5. ASSUME NEW i \in 1 .. n
          PROVE  g[i] = h[i]
      <4>1. i - 1 \in Nat /\ (i - 1) + 1 = i /\ i <= n
        BY <1>1
      <4>2. i - 1 \in E
        BY <3>4, <4>1
      <4> QED  BY <4>1, <4>2
    <3> QED  BY <3>5
  <2>6. FlattenSeq(seqs) = h[n]
    BY <1>1, <1>2, <1>9, <2>5
  <2>7. h \in [0 .. n -> Seq(X)] /\ h[0] = <<>>
    BY <1>6
  <2>8. FlatRun(h, X, seqs)
    BY <1>7, <2>6, <2>7 DEF FlatRun, n
  <2> QED  BY <2>8
<1> QED  BY <1>8, <1>9

(* What is in it is in a part, and what is in a part is in it.             *)
LEMMA FlatKeeps ==
  ASSUME NEW X, NEW seqs \in Seq(Seq(X))
  PROVE  /\ FlattenSeq(seqs) \in Seq(X)
         /\ ToSet(FlattenSeq(seqs)) = UNION {ToSet(seqs[i]) : i \in DOMAIN seqs}
<1>1. PICK f : FlatRun(f, X, seqs)
  BY FlatSteps
<1>2. PICK n : n = Len(seqs)
  OBVIOUS
<1>3. n \in Nat /\ DOMAIN seqs = 1 .. n /\ \A i \in 1 .. n : seqs[i] \in Seq(X)
  BY <1>2
<1>4. /\ f \in [0 .. n -> Seq(X)]
      /\ f[0] = <<>> /\ FlattenSeq(seqs) = f[n]
      /\ \A k \in 0 .. n - 1 : f[k + 1] = f[k] \o seqs[k + 1]
  BY <1>1, <1>2 DEF FlatRun
<1>. DEFINE Parts(k) == UNION {ToSet(seqs[i]) : i \in 1 .. k}
            D == {k \in Nat : k <= n => ToSet(f[k]) = Parts(k)}
<1>5. 0 \in D
  <2>1. ToSet(<<>>) = {}
    BY DEF ToSet
  <2>2. Parts(0) = {}
    OBVIOUS
  <2> QED  BY <1>4, <2>1, <2>2
<1>6. ASSUME NEW k \in D
      PROVE  k + 1 \in D
  <2>. k \in Nat /\ k + 1 \in Nat
    OBVIOUS
  <2>1. SUFFICES ASSUME k + 1 <= n
                 PROVE  ToSet(f[k + 1]) = Parts(k + 1)
    OBVIOUS
  <2>2. ToSet(f[k]) = Parts(k)
    <3> HIDE DEF Parts
    <3> QED  BY <1>3, <2>1
  <2>3. k \in 0 .. n - 1 /\ f[k] \in Seq(X) /\ seqs[k + 1] \in Seq(X)
    BY <1>3, <1>4, <2>1
  <2>4. PICK a, b : a = f[k] /\ b = seqs[k + 1]
    OBVIOUS
  <2>5. ToSet(a \o b) = ToSet(a) \cup ToSet(b)
    BY <2>3, <2>4, ConcatEntries
  <2>6. Parts(k + 1) = Parts(k) \cup ToSet(seqs[k + 1])
    <3>1. 1 .. k + 1 = (1 .. k) \cup {k + 1}
      OBVIOUS
    <3> QED  BY <3>1
  <2> QED  BY <1>4, <2>2, <2>3, <2>4, <2>5, <2>6
<1>7. D = Nat
  <2>. HIDE DEF D
  <2>1. D \in SUBSET Nat
    BY DEF D
  <2> QED  BY <1>5, <1>6, <2>1, SetInduction
<1>8. ToSet(f[n]) = Parts(n)
  <2>. HIDE DEF Parts
  <2>1. n \in D
    BY <1>3, <1>7
  <2> QED  BY <1>3, <2>1
<1>9. Parts(n) = UNION {ToSet(seqs[i]) : i \in DOMAIN seqs}
  BY <1>3
<1>10. f[n] \in Seq(X)
  BY <1>3, <1>4
<1> QED  BY <1>4, <1>8, <1>9, <1>10

-----------------------------------------------------------------------------
(* The run of a fold, an element at a time.                                *)
FoldRun(acc, A, base, step, n, s) ==
  /\ acc \in [0 .. n -> A] /\ acc[0] = base
  /\ \A k \in 0 .. n - 1 : acc[k + 1] = step[<<acc[k], s[k + 1]>>]

(* What is to be shown of the function in a FoldLeft to have such a run.   *)
Computes(g, A, base, step, n, s) ==
  \A t \in SUBSET (1 .. n) :
    /\ t = {} => g[t] = base
    /\ t # {} /\ g[t \ {Max(t)}] \in A => g[t] = step[<<g[t \ {Max(t)}], s[Max(t)]>>]

LEMMA FoldRuns ==
  ASSUME NEW A, NEW X, NEW base, NEW step, NEW n, NEW s, Foldable(A, X, base, step, n, s),
         NEW g, Computes(g, A, base, step, n, s)
  PROVE  \E acc : FoldRun(acc, A, base, step, n, s) /\ acc[n] = g[1 .. n]
<1>1. base \in A /\ step \in [A \X X -> A] /\ n \in Nat /\ s \in [1 .. n -> X]
  BY DEF Foldable
<1>2. g[1 .. 0] = base
  <2>1. 1 .. 0 = {} /\ 1 .. 0 \in SUBSET (1 .. n)
    OBVIOUS
  <2> QED  BY <2>1 DEF Computes
<1>3. ASSUME NEW k \in 0 .. n - 1, g[1 .. k] \in A
      PROVE  g[1 .. k + 1] = step[<<g[1 .. k], s[k + 1]>>] /\ g[1 .. k + 1] \in A
  <2>1. k \in Nat /\ k + 1 \in 1 .. n /\ 1 .. k + 1 \in SUBSET (1 .. n)
    BY <1>1
  <2>2. Max(1 .. k + 1) = k + 1 /\ (1 .. k + 1) \ {k + 1} = 1 .. k /\ 1 .. k + 1 # {}
    BY <2>1, PrefixesGrow
  <2>3. g[1 .. k + 1] = step[<<g[1 .. k], s[k + 1]>>]
    BY <1>3, <2>1, <2>2 DEF Computes
  <2>4. s[k + 1] \in X
    BY <1>1, <2>1
  <2> QED  BY <1>1, <1>3, <2>3, <2>4
<1>. DEFINE D == {k \in Nat : k <= n => g[1 .. k] \in A}
<1>4. D = Nat
  <2>1. 0 \in D
    BY <1>1, <1>2
  <2>2. ASSUME NEW k \in D
        PROVE  k + 1 \in D
    <3>. k \in Nat /\ k + 1 \in Nat
      OBVIOUS
    <3>1. k + 1 <= n => k \in 0 .. n - 1 /\ g[1 .. k] \in A
      BY <1>1
    <3> QED  BY <1>3, <3>1
  <2>. HIDE DEF D
  <2>3. D \in SUBSET Nat
    BY DEF D
  <2> QED  BY <2>1, <2>2, <2>3, SetInduction
<1>. DEFINE acc == [k \in 0 .. n |-> g[1 .. k]]
<1>5. acc \in [0 .. n -> A] /\ acc[0] = base /\ acc[n] = g[1 .. n]
  BY <1>1, <1>2, <1>4
<1>6. \A k \in 0 .. n - 1 : acc[k + 1] = step[<<acc[k], s[k + 1]>>]
  <2>1. \A k \in 0 .. n - 1 : k \in 0 .. n /\ k + 1 \in 0 .. n /\ g[1 .. k] \in A
    BY <1>1, <1>4
  <2> QED  BY <1>3, <2>1
<1> QED  BY <1>5, <1>6 DEF FoldRun

(* Whatever holds of the base, and of a step if it held before, holds in   *)
(* the end.  Good pairs a place in the list with what is folded up to it.  *)
LEMMA FoldKeeps ==
  ASSUME NEW A, NEW X, NEW base, NEW step, NEW n, NEW s, Foldable(A, X, base, step, n, s),
         NEW g, Computes(g, A, base, step, n, s),
         NEW Good, <<0, base>> \in Good,
         \A k \in 0 .. n - 1, a \in A : <<k, a>> \in Good => <<k + 1, step[<<a, s[k + 1]>>]>> \in Good
  PROVE  g[1 .. n] \in A /\ <<n, g[1 .. n]>> \in Good
<1>1. PICK acc : FoldRun(acc, A, base, step, n, s) /\ acc[n] = g[1 .. n]
  BY FoldRuns
<1>2. /\ acc \in [0 .. n -> A] /\ acc[0] = base
      /\ \A k \in 0 .. n - 1 : acc[k + 1] = step[<<acc[k], s[k + 1]>>]
  BY <1>1 DEF FoldRun
<1>3. n \in Nat
  BY DEF Foldable
<1>. DEFINE D == {k \in Nat : k <= n => <<k, acc[k]>> \in Good}
<1>4. 0 \in D
  BY <1>2
<1>5. ASSUME NEW k \in D
      PROVE  k + 1 \in D
  <2>. k \in Nat /\ k + 1 \in Nat
    OBVIOUS
  <2>1. SUFFICES ASSUME k + 1 <= n
                 PROVE  <<k + 1, acc[k + 1]>> \in Good
    OBVIOUS
  <2>2. k \in 0 .. n - 1 /\ k \in 0 .. n /\ <<k, acc[k]>> \in Good
    BY <1>3, <2>1
  <2>3. acc[k] \in A /\ acc[k + 1] = step[<<acc[k], s[k + 1]>>]
    BY <1>2, <2>2
  <2> QED  BY <2>2, <2>3
<1>6. D = Nat
  <2> HIDE DEF D
  <2>1. D \in SUBSET Nat
    BY DEF D
  <2> QED  BY <1>4, <1>5, <2>1, SetInduction
<1>7. <<n, acc[n]>> \in Good /\ acc[n] \in A
  BY <1>2, <1>3, <1>6
<1> QED  BY <1>1, <1>7

(* A member no other is above is the greatest, and one no other is below   *)
(* the least.                                                              *)
LEMMA GreatestIsMax ==
  ASSUME NEW S \in SUBSET Nat, NEW x \in S, \A m \in S : m <= x
  PROVE  Max(S) = x
<1>1. \E y \in S : \A m \in S : y >= m
  OBVIOUS
<1>2. PICK y : y = Max(S)
  OBVIOUS
<1>3. y \in S /\ \A m \in S : y >= m
  BY <1>1, <1>2 DEF Max
<1>4. y \in Nat /\ x \in Nat /\ y >= x /\ y <= x
  BY <1>3
<1> QED  BY <1>2, <1>4

LEMMA LeastIsMin ==
  ASSUME NEW S \in SUBSET Nat, NEW x \in S, \A m \in S : x <= m
  PROVE  Min(S) = x
<1>1. PICK y : y = Min(S)
  OBVIOUS
<1>2. y \in S /\ \A m \in S : y <= m
  BY <1>1, MinIsLeast
<1>3. y \in Nat /\ x \in Nat /\ y >= x /\ y <= x
  BY <1>2
<1> QED  BY <1>1, <1>3
==============================================================================
