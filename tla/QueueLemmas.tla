---------------------------- MODULE QueueLemmas ----------------------------
(* What Without and SumOver compute, for every queue and every set.  Both  *)
(* are recursive functions: each is shown to exist and then followed by an *)
(* induction over a set of numbers or of subsets.                          *)
EXTENDS Queues, WellFoundedInduction, FiniteSetTheorems, TLAPS

(* Induction over the naturals, for a set instead of a predicate. *)
LEMMA SetInduction ==
  ASSUME NEW T, 0 \in T, \A n \in Nat : n \in T => n + 1 \in T
  PROVE  Nat \subseteq T
<1> DEFINE R == OpToRel(<, Nat)
           C == Nat \ T
<1> SUFFICES ASSUME C # {} PROVE FALSE
  OBVIOUS
<1>1. PICK x \in C : \A y \in C : ~(<<y, x>> \in R)
  <2>1. IsWellFoundedOn(R, Nat)
    BY NatLessThanWellFounded
  <2>2. C \subseteq Nat
    OBVIOUS
  <2> HIDE DEF R, C
  <2> QED BY <2>1, <2>2, WFMin
<1>2. \A y \in C : ~(y < x)
  BY <1>1 DEF OpToRel
<1>3. x \in Nat /\ x # 0
  OBVIOUS
<1>4. x - 1 \in Nat /\ x - 1 < x /\ (x - 1) + 1 = x
  BY <1>3
<1>5. x - 1 \in T
  BY <1>2, <1>4
<1> QED BY <1>4, <1>5

---------------------------------------------------------------------------
(* Without: the function that it builds exists, and what it returns. *)

IsFilter(f, s, S, n) ==
  f = [i \in 0..n |-> IF i = 0 THEN << >>
                      ELSE IF s[i] \in S THEN f[i - 1] ELSE Append(f[i - 1], s[i])]

(* A function that filters the first n elements exists, for every n. *)
LEMMA FilterExists ==
  ASSUME NEW s, NEW S
  PROVE  \A n \in Nat : \E f : IsFilter(f, s, S, n)
<1> DEFINE T == {n \in Nat : \E f : IsFilter(f, s, S, n)}
<1>1. 0 \in T
  <2>1. IsFilter([i \in 0..0 |-> << >>], s, S, 0)
    BY DEF IsFilter
  <2> QED BY <2>1
<1>2. ASSUME NEW n \in Nat, n \in T PROVE n + 1 \in T
  <2>1. PICK f : IsFilter(f, s, S, n)
    BY <1>2
  <2> DEFINE Step(v, i) == IF s[i] \in S THEN v ELSE Append(v, s[i])
             g == [i \in 0..(n + 1) |-> IF i = n + 1 THEN Step(f[n], n + 1) ELSE f[i]]
  <2>2. \A i \in 0..n : f[i] = IF i = 0 THEN << >> ELSE Step(f[i - 1], i)
    BY <2>1 DEF IsFilter
  <2>3. \A i \in 0..n : g[i] = f[i]
    OBVIOUS
  <2>4. g[n + 1] = Step(f[n], n + 1)
    OBVIOUS
  <2>5. DOMAIN g = 0..(n + 1) /\ g = [i \in DOMAIN g |-> g[i]]
    OBVIOUS
  <2>6. ASSUME NEW i \in 0..(n + 1) PROVE g[i] = IF i = 0 THEN << >> ELSE Step(g[i - 1], i)
    <3> HIDE DEF g, Step
    <3>1. CASE i = n + 1
      <4>1. i - 1 = n /\ n \in 0..n /\ i # 0
        BY <3>1
      <4> QED BY <2>3, <2>4, <3>1, <4>1
    <3>2. CASE i \in 1..n
      <4>1. i - 1 \in 0..n /\ i \in 0..n /\ i # 0
        BY <3>2
      <4> QED BY <2>2, <2>3, <4>1
    <3>3. CASE i = 0
      BY <2>2, <2>3, <3>3
    <3> QED BY <3>1, <3>2, <3>3
  <2>7. g = [i \in 0..(n + 1) |-> IF i = 0 THEN << >> ELSE Step(g[i - 1], i)]
    <3> HIDE DEF g, Step
    <3> QED BY <2>5, <2>6
  <2>8. IsFilter(g, s, S, n + 1)
    <3> HIDE DEF g
    <3> QED BY <2>7 DEF IsFilter
  <2> QED BY <2>8
<1> HIDE DEF T
<1>3. Nat \subseteq T
  BY <1>1, <1>2, SetInduction
<1> QED BY <1>3 DEF T

(* Without keeps the other elements, in order and each as often as it was. *)
LEMMA WithoutResult ==
  ASSUME NEW X, NEW s \in Seq(X), NEW S,
         \A i, j \in 1..Len(s) : s[i] = s[j] => i = j
  PROVE  /\ Without(s, S) \in Seq(X)
         /\ \A i, j \in 1..Len(Without(s, S)) : Without(s, S)[i] = Without(s, S)[j] => i = j
         /\ ToSet(Without(s, S)) = ToSet(s) \ S
<1> DEFINE n == Len(s)
           u == CHOOSE f : IsFilter(f, s, S, n)
<1>1. n \in Nat
  OBVIOUS
<1>2. IsFilter(u, s, S, n)
  BY <1>1, FilterExists
<1>3. Without(s, S) = u[n]
  BY DEF Without, IsFilter
<1> HIDE DEF u
<1> DEFINE Good(v, k) == /\ v \in Seq(X)
                         /\ \A i, j \in 1..Len(v) : v[i] = v[j] => i = j
                         /\ \A x : (\E i \in 1..Len(v) : v[i] = x)
                                   <=> (x \notin S /\ \E i \in 1..k : s[i] = x)
           T == {k \in Nat : k <= n => Good(u[k], k)}
<1>4. 0 \in T
  <2>1. u[0] = << >>
    BY <1>1, <1>2 DEF IsFilter
  <2>2. Good(<< >>, 0)
    OBVIOUS
  <2> HIDE DEF Good
  <2> QED BY <2>1, <2>2
<1>5. ASSUME NEW k \in Nat, k \in T PROVE k + 1 \in T
  <2>a. ASSUME k + 1 <= n => Good(u[k + 1], k + 1) PROVE k + 1 \in T
    <3> HIDE DEF Good, n
    <3> QED BY <2>a
  <2> SUFFICES ASSUME k + 1 <= n PROVE Good(u[k + 1], k + 1)
    BY <2>a
  <2>1. Good(u[k], k)
    <3>1. k <= n
      BY <1>1
    <3> HIDE DEF Good, n
    <3> QED BY <1>5, <3>1
  <2>2. u[k + 1] = IF s[k + 1] \in S THEN u[k] ELSE Append(u[k], s[k + 1])
    <3>1. k + 1 \in 0..n /\ k + 1 # 0 /\ (k + 1) - 1 = k
      BY <1>1
    <3> QED BY <1>2, <3>1 DEF IsFilter
  <2>3. k + 1 \in 1..n /\ s[k + 1] \in X
    BY <1>1
  <2>4. ~ \E i \in 1..k : s[i] = s[k + 1]
    BY <2>3, <1>1
  <2>5. \A x : (\E i \in 1..(k + 1) : s[i] = x) <=> (x = s[k + 1] \/ \E i \in 1..k : s[i] = x)
    <3>1. \A i : i \in 1..(k + 1) <=> (i = k + 1 \/ i \in 1..k)
      OBVIOUS
    <3> QED BY <3>1
  <2> DEFINE v == u[k]
  <2> HIDE DEF v
  <2>6. Good(v, k)
    BY <2>1 DEF v
  <2>7. CASE s[k + 1] \in S
    <3>1. u[k + 1] = v
      BY <2>2, <2>7 DEF v
    <3>2. Good(v, k + 1)
      BY <2>5, <2>6, <2>7
    <3> QED BY <3>1, <3>2
  <2>8. CASE s[k + 1] \notin S
    <3> DEFINE w == Append(v, s[k + 1])
    <3>1. u[k + 1] = w
      BY <2>2, <2>8 DEF v
    <3>2. w \in Seq(X) /\ Len(w) = Len(v) + 1 /\ w[Len(v) + 1] = s[k + 1]
          /\ \A i \in 1..Len(v) : w[i] = v[i]
      BY <2>3, <2>6
    <3>3. \A i : i \in 1..Len(w) <=> (i = Len(v) + 1 \/ i \in 1..Len(v))
      BY <2>6, <3>2
    <3> HIDE DEF w
    <3>4. ~ \E i \in 1..Len(v) : v[i] = s[k + 1]
      BY <2>4, <2>6
    <3>5. \A i, j \in 1..Len(w) : w[i] = w[j] => i = j
      BY <2>6, <3>2, <3>3, <3>4
    <3>6. \A x : (\E i \in 1..Len(w) : w[i] = x) <=> (x = s[k + 1] \/ \E i \in 1..Len(v) : v[i] = x)
      BY <3>2, <3>3
    <3>7. Good(w, k + 1)
      BY <2>5, <2>6, <2>8, <3>2, <3>5, <3>6
    <3> QED BY <3>1, <3>7
  <2> QED BY <2>7, <2>8
<1> HIDE DEF T
<1>6. Nat \subseteq T
  BY <1>4, <1>5, SetInduction
<1>7. Good(u[n], n)
  <2>1. n \in T /\ n <= n
    BY <1>1, <1>6
  <2> HIDE DEF Good, n
  <2> QED BY <2>1 DEF T
<1> DEFINE v == u[n]
<1>8. Good(v, n)
  BY <1>7
<1> HIDE DEF v, n
<1>9. ToSet(v) = ToSet(s) \ S
  <2>1. DOMAIN v = 1..Len(v) /\ DOMAIN s = 1..n
    BY <1>8 DEF n
  <2> QED BY <1>8, <2>1 DEF ToSet
<1> QED BY <1>3, <1>8, <1>9 DEF v

---------------------------------------------------------------------------
(* SumOver *)

(* The function that SumOver defines, on the subsets of S with at most n   *)
(* elements.                                                               *)
Small(S, n) == {s \in SUBSET S : Cardinality(s) <= n}
Some(s) == CHOOSE x \in s : TRUE
IsSum(h, f, D) == h = [s \in D |-> IF s = {} THEN 0 ELSE f[Some(s)] + h[s \ {Some(s)}]]

(* The element that CHOOSE takes is one of the set. *)
LEMMA SomeIn == ASSUME NEW s, s # {} PROVE Some(s) \in s
BY DEF Some

(* SumOver without its library definitions: the value at S of a function   *)
(* on the subsets of S.                                                    *)
LEMMA SumOverIs ==
  ASSUME NEW f, NEW S
  PROVE  SumOver(f, S) = (CHOOSE h : IsSum(h, f, SUBSET S))[S]
BY DEF SumOver, MapThenSumSet, MapThenFoldSet, IsSum, Some

(* Taking the chosen element out of a set that is not empty leaves one     *)
(* fewer.                                                                  *)
LEMMA SmallCard ==
  ASSUME NEW S, IsFiniteSet(S), NEW s \in SUBSET S, s # {}
  PROVE  /\ IsFiniteSet(s) /\ Cardinality(s) \in Nat \ {0}
         /\ Some(s) \in s /\ s \ {Some(s)} \in SUBSET S
         /\ Cardinality(s \ {Some(s)}) = Cardinality(s) - 1
<1>1. IsFiniteSet(s)
  BY FS_Subset
<1>2. Some(s) \in s
  BY SomeIn
<1> QED BY <1>1, <1>2, FS_CardinalityType, FS_EmptySet, FS_RemoveElement

(* Only the empty set has no element. *)
LEMMA SmallZero ==
  ASSUME NEW S, IsFiniteSet(S)
  PROVE  \A s \in Small(S, 0) : s = {}
<1> SUFFICES ASSUME NEW s \in SUBSET S, Cardinality(s) <= 0, s # {} PROVE FALSE
  BY DEF Small
<1>1. Cardinality(s) \in Nat \ {0}
  BY SmallCard
<1> QED BY <1>1

(* The function that SumOver chooses exists for every finite S. *)
LEMMA SumExists ==
  ASSUME NEW f, NEW S, IsFiniteSet(S)
  PROVE  \E h : IsSum(h, f, SUBSET S)
<1> DEFINE T == {n \in Nat : \E h : IsSum(h, f, Small(S, n))}
<1>1. 0 \in T
  <2>1. \A s \in Small(S, 0) : s = {}
    BY SmallZero
  <2>2. IsSum([s \in Small(S, 0) |-> 0], f, Small(S, 0))
    BY <2>1 DEF IsSum
  <2> QED BY <2>2
<1>2. ASSUME NEW n \in Nat, n \in T PROVE n + 1 \in T
  <2>1. PICK h : IsSum(h, f, Small(S, n))
    BY <1>2
  <2> DEFINE Step(v, s) == IF s = {} THEN 0 ELSE f[Some(s)] + v[s \ {Some(s)}]
             g == [s \in Small(S, n + 1) |-> Step(h, s)]
  <2>2. \A s \in Small(S, n) : h[s] = Step(h, s)
    BY <2>1 DEF IsSum
  <2>3. \A s \in Small(S, n + 1) : g[s] = Step(h, s)
    OBVIOUS
  <2>4. \A s \in Small(S, n) : s \in Small(S, n + 1)
    <3>1. \A s \in SUBSET S : Cardinality(s) \in Nat
      BY FS_Subset, FS_CardinalityType
    <3> QED BY <3>1 DEF Small
  <2>5. \A s \in Small(S, n + 1) : s # {} => s \ {Some(s)} \in Small(S, n)
    BY SmallCard DEF Small
  <2>6. DOMAIN g = Small(S, n + 1) /\ g = [s \in DOMAIN g |-> g[s]]
    OBVIOUS
  <2>7. ASSUME NEW s \in Small(S, n + 1) PROVE g[s] = Step(g, s)
    <3>1. CASE s = {}
      BY <2>3, <3>1
    <3>2. CASE s # {}
      <4> DEFINE t == s \ {Some(s)}
      <4>1. t \in Small(S, n)
        BY <2>5, <3>2
      <4>2. g[t] = h[t]
        <5> HIDE DEF g, t, Step
        <5> QED BY <2>2, <2>3, <2>4, <4>1
      <4>3. g[s] = f[Some(s)] + h[t] /\ Step(g, s) = f[Some(s)] + g[t]
        <5>1. g[s] = Step(h, s)
          BY <2>3
        <5> HIDE DEF g
        <5> QED BY <5>1, <3>2
      <4> HIDE DEF g, t, Step
      <4> QED BY <4>2, <4>3
    <3> QED BY <3>1, <3>2
  <2>8. g = [s \in Small(S, n + 1) |-> Step(g, s)]
    <3> HIDE DEF g, Step
    <3> QED BY <2>6, <2>7
  <2>9. IsSum(g, f, Small(S, n + 1))
    <3> HIDE DEF g
    <3> QED BY <2>8 DEF IsSum
  <2> QED BY <2>9
<1> HIDE DEF T
<1>3. Nat \subseteq T
  BY <1>1, <1>2, SetInduction
<1>4. Cardinality(S) \in T
  BY <1>3, FS_CardinalityType
<1>5. Small(S, Cardinality(S)) = SUBSET S
  BY FS_Subset DEF Small
<1> QED BY <1>4, <1>5 DEF T

(* What a sum over a part of S is does not depend on S. *)
LEMMA SumAgree ==
  ASSUME NEW f, NEW S, IsFiniteSet(S), NEW R \in SUBSET S, NEW h, NEW g,
         IsSum(h, f, SUBSET S), IsSum(g, f, SUBSET R)
  PROVE  \A s \in SUBSET R : h[s] = g[s]
<1> DEFINE T == {n \in Nat : \A s \in Small(R, n) : h[s] = g[s]}
<1>0. IsFiniteSet(R)
  BY FS_Subset
<1>a. \A s \in SUBSET R : h[s] = IF s = {} THEN 0 ELSE f[Some(s)] + h[s \ {Some(s)}]
  <2>1. \A s \in SUBSET S : h[s] = IF s = {} THEN 0 ELSE f[Some(s)] + h[s \ {Some(s)}]
    BY DEF IsSum
  <2> QED BY <2>1
<1>b. \A s \in SUBSET R : g[s] = IF s = {} THEN 0 ELSE f[Some(s)] + g[s \ {Some(s)}]
  BY DEF IsSum
<1>1. 0 \in T
  <2>1. \A s \in Small(R, 0) : s = {}
    BY <1>0, SmallZero
  <2> QED BY <2>1, <1>a, <1>b DEF Small
<1>2. ASSUME NEW n \in Nat, n \in T PROVE n + 1 \in T
  <2>1. ASSUME NEW s \in Small(R, n + 1) PROVE h[s] = g[s]
    <3>1. s \in SUBSET R
      BY DEF Small
    <3>2. CASE s = {}
      BY <1>a, <1>b, <3>1, <3>2
    <3>3. CASE s # {}
      <4>1. s \ {Some(s)} \in Small(R, n)
        BY <1>0, <3>1, <3>3, SmallCard DEF Small
      <4>2. h[s \ {Some(s)}] = g[s \ {Some(s)}]
        BY <1>2, <4>1
      <4> QED BY <1>a, <1>b, <3>1, <3>3, <4>2
    <3> QED BY <3>2, <3>3
  <2> QED BY <2>1
<1> HIDE DEF T
<1>3. Cardinality(R) \in T
  BY <1>0, <1>1, <1>2, SetInduction, FS_CardinalityType
<1>4. Small(R, Cardinality(R)) = SUBSET R
  BY <1>0, FS_Subset DEF Small
<1> QED BY <1>3, <1>4 DEF T

(* SumOver on the empty set, and with the element that it takes first. *)
LEMMA SumFirst ==
  ASSUME NEW f, NEW S, IsFiniteSet(S)
  PROVE  SumOver(f, S) = IF S = {} THEN 0 ELSE f[Some(S)] + SumOver(f, S \ {Some(S)})
<1> DEFINE h == CHOOSE x : IsSum(x, f, SUBSET S)
<1>1. IsSum(h, f, SUBSET S)
  BY SumExists
<1>2. SumOver(f, S) = h[S]
  BY SumOverIs
<1> HIDE DEF h
<1>3. h[S] = IF S = {} THEN 0 ELSE f[Some(S)] + h[S \ {Some(S)}]
  BY <1>1 DEF IsSum
<1>4. ASSUME S # {} PROVE h[S \ {Some(S)}] = SumOver(f, S \ {Some(S)})
  <2> DEFINE R == S \ {Some(S)}
             g == CHOOSE x : IsSum(x, f, SUBSET R)
  <2>1. R \in SUBSET S /\ IsFiniteSet(R)
    BY FS_Subset
  <2> HIDE DEF R
  <2>2. IsSum(g, f, SUBSET R)
    BY <2>1, SumExists
  <2>3. SumOver(f, R) = g[R]
    BY SumOverIs
  <2> HIDE DEF g
  <2>4. h[R] = g[R]
    BY <1>1, <2>1, <2>2, SumAgree
  <2> QED BY <2>3, <2>4 DEF R
<1> QED BY <1>2, <1>3, <1>4

(* The sum over nothing is zero. *)
LEMMA SumEmpty == \A f : SumOver(f, {}) = 0
BY SumFirst, FS_EmptySet

(* A sum of integers is an integer. *)
LEMMA SumType ==
  ASSUME NEW X, NEW f \in [X -> Int], NEW S \in SUBSET X, IsFiniteSet(S)
  PROVE  SumOver(f, S) \in Int
<1> DEFINE T == {n \in Nat : \A s \in Small(S, n) : SumOver(f, s) \in Int}
<1>0. \A s \in SUBSET S : IsFiniteSet(s)
  BY FS_Subset
<1>1. 0 \in T
  BY SmallZero, SumEmpty
<1>2. ASSUME NEW n \in Nat, n \in T PROVE n + 1 \in T
  <2>1. ASSUME NEW s \in Small(S, n + 1) PROVE SumOver(f, s) \in Int
    <3>1. s \in SUBSET S /\ IsFiniteSet(s)
      BY <1>0 DEF Small
    <3>2. CASE s = {}
      BY <3>1, <3>2, SumFirst
    <3>3. CASE s # {}
      <4>1. s \ {Some(s)} \in Small(S, n) /\ Some(s) \in s
        BY <3>1, <3>3, SmallCard DEF Small
      <4>2. SumOver(f, s \ {Some(s)}) \in Int /\ f[Some(s)] \in Int
        BY <1>2, <3>1, <4>1
      <4>3. SumOver(f, s) = f[Some(s)] + SumOver(f, s \ {Some(s)})
        BY <3>1, <3>3, SumFirst
      <4> QED BY <4>2, <4>3
    <3> QED BY <3>2, <3>3
  <2> QED BY <2>1
<1> HIDE DEF T
<1>3. Cardinality(S) \in T
  BY <1>1, <1>2, SetInduction, FS_CardinalityType
<1>4. S \in Small(S, Cardinality(S))
  BY FS_CardinalityType DEF Small
<1> QED BY <1>3, <1>4 DEF T

(* Any element may be taken first. *)
LEMMA SumRemove ==
  ASSUME NEW X, NEW f \in [X -> Int], NEW S \in SUBSET X, IsFiniteSet(S), NEW x \in S
  PROVE  SumOver(f, S) = f[x] + SumOver(f, S \ {x})
<1> DEFINE AnyFirst(s) == \A y \in s : SumOver(f, s) = f[y] + SumOver(f, s \ {y})
           T == {n \in Nat : \A s \in Small(S, n) : AnyFirst(s)}
<1>0. \A s \in SUBSET S : IsFiniteSet(s) /\ SumOver(f, s) \in Int /\ \A y \in s : f[y] \in Int
  BY FS_Subset, SumType
<1>1. 0 \in T
  <2>1. AnyFirst({})
    OBVIOUS
  <2> HIDE DEF AnyFirst
  <2> QED BY <2>1, SmallZero
<1>2. ASSUME NEW n \in Nat, n \in T PROVE n + 1 \in T
  <2>1. ASSUME NEW s \in Small(S, n + 1), NEW y \in s
        PROVE  SumOver(f, s) = f[y] + SumOver(f, s \ {y})
    <3> DEFINE z == Some(s)
    <3>1. s \in SUBSET S /\ s # {} /\ IsFiniteSet(s) /\ Cardinality(s) <= n + 1
      BY <1>0 DEF Small
    <3>2. SumOver(f, s) = f[z] + SumOver(f, s \ {z})
      BY <3>1, SumFirst
    <3>3. z \in s
      BY <3>1, SomeIn
    <3> HIDE DEF z
    <3>4. CASE y = z
      BY <3>2, <3>4
    <3>5. CASE y # z
      <4>1. s \ {z} \in Small(S, n) /\ s \ {y} \in Small(S, n)
        <5>1. Cardinality(s \ {z}) = Cardinality(s) - 1 /\ Cardinality(s \ {y}) = Cardinality(s) - 1
          BY <3>1, <3>3, FS_RemoveElement
        <5>2. Cardinality(s) \in Nat
          BY <3>1, FS_CardinalityType
        <5> QED BY <3>1, <5>1, <5>2 DEF Small
      <4>2. \A t \in Small(S, n) : AnyFirst(t)
        <5> HIDE DEF AnyFirst
        <5> QED BY <1>2
      <4>3. SumOver(f, s \ {z}) = f[y] + SumOver(f, (s \ {z}) \ {y})
        BY <3>5, <4>1, <4>2
      <4>4. SumOver(f, s \ {y}) = f[z] + SumOver(f, (s \ {y}) \ {z})
        BY <3>3, <3>5, <4>1, <4>2
      <4>5. (s \ {z}) \ {y} = (s \ {y}) \ {z}
        OBVIOUS
      <4> DEFINE v == SumOver(f, (s \ {y}) \ {z})
      <4>6. f[y] \in Int /\ f[z] \in Int /\ v \in Int
        BY <1>0, <3>1, <3>3
      <4>7. SumOver(f, s \ {z}) = f[y] + v /\ SumOver(f, s \ {y}) = f[z] + v
        BY <4>3, <4>4, <4>5
      <4> HIDE DEF v
      <4> QED BY <3>2, <4>6, <4>7
    <3> QED BY <3>4, <3>5
  <2>2. \A s \in Small(S, n + 1) : AnyFirst(s)
    BY <2>1
  <2> HIDE DEF AnyFirst
  <2> QED BY <2>2
<1> HIDE DEF T
<1>3. Cardinality(S) \in T
  BY <1>1, <1>2, SetInduction, FS_CardinalityType
<1>4. S \in Small(S, Cardinality(S))
  BY FS_CardinalityType DEF Small
<1>5. AnyFirst(S)
  <2> HIDE DEF AnyFirst
  <2> QED BY <1>3, <1>4 DEF T
<1> QED BY <1>5

(* Induction over the subsets of a finite set. *)
LEMMA SubsetInduction ==
  ASSUME NEW S, IsFiniteSet(S), NEW T, {} \in T,
         \A s \in SUBSET S : \A x \in S \ s : s \in T => s \cup {x} \in T
  PROVE  S \in T
<1> DEFINE U == {n \in Nat : \A s \in Small(S, n) : s \in T}
<1>1. 0 \in U
  BY SmallZero
<1>2. ASSUME NEW n \in Nat, n \in U PROVE n + 1 \in U
  <2>1. ASSUME NEW s \in Small(S, n + 1), s # {} PROVE s \in T
    <3>1. s \in SUBSET S
      BY DEF Small
    <3>2. s \ {Some(s)} \in Small(S, n) /\ Some(s) \in s
      BY <2>1, <3>1, SmallCard DEF Small
    <3>3. s \ {Some(s)} \in T
      BY <1>2, <3>2
    <3>4. s = (s \ {Some(s)}) \cup {Some(s)} /\ Some(s) \in S \ (s \ {Some(s)})
      BY <3>1, <3>2
    <3>5. s \ {Some(s)} \in SUBSET S
      BY <3>1
    <3> QED BY <3>3, <3>4, <3>5
  <2> QED BY <2>1
<1> HIDE DEF U
<1>3. Cardinality(S) \in U
  BY <1>1, <1>2, SetInduction, FS_CardinalityType
<1>4. S \in Small(S, Cardinality(S))
  BY FS_CardinalityType DEF Small
<1> QED BY <1>3, <1>4 DEF U

(* One more element adds its value to the sum. *)
LEMMA SumAdd ==
  ASSUME NEW X, NEW f \in [X -> Int], NEW S \in SUBSET X, IsFiniteSet(S), NEW x \in X \ S
  PROVE  SumOver(f, S \cup {x}) = f[x] + SumOver(f, S)
<1>1. IsFiniteSet(S \cup {x})
  BY FS_AddElement
<1>2. (S \cup {x}) \ {x} = S
  OBVIOUS
<1>3. S \cup {x} \in SUBSET X /\ x \in S \cup {x}
  OBVIOUS
<1> QED BY <1>1, <1>2, <1>3, SumRemove

(* The sum of a sum of two functions. *)
LEMMA SumLinear ==
  ASSUME NEW X, NEW f \in [X -> Int], NEW g \in [X -> Int], NEW h \in [X -> Int],
         NEW S \in SUBSET X, IsFiniteSet(S), \A r \in S : h[r] = f[r] + g[r]
  PROVE  SumOver(h, S) = SumOver(f, S) + SumOver(g, S)
<1> DEFINE T == {s \in SUBSET S : SumOver(h, s) = SumOver(f, s) + SumOver(g, s)}
<1>1. {} \in T
  BY SumEmpty
<1>2. ASSUME NEW s \in SUBSET S, NEW x \in S \ s, s \in T PROVE s \cup {x} \in T
  <2>1. IsFiniteSet(s) /\ s \in SUBSET X /\ x \in X \ s
    BY FS_Subset
  <2>2. /\ SumOver(h, s \cup {x}) = h[x] + SumOver(h, s)
        /\ SumOver(f, s \cup {x}) = f[x] + SumOver(f, s)
        /\ SumOver(g, s \cup {x}) = g[x] + SumOver(g, s)
    BY <2>1, SumAdd
  <2>3. SumOver(h, s) \in Int /\ SumOver(f, s) \in Int /\ SumOver(g, s) \in Int
    BY <2>1, SumType
  <2>4. h[x] = f[x] + g[x] /\ f[x] \in Int /\ g[x] \in Int
    OBVIOUS
  <2>5. SumOver(h, s) = SumOver(f, s) + SumOver(g, s)
    BY <1>2
  <2> QED BY <2>2, <2>3, <2>4, <2>5
<1> HIDE DEF T
<1>3. S \in T
  BY <1>1, <1>2, SubsetInduction
<1> QED BY <1>3 DEF T

(* A function that is f on A and zero elsewhere. *)
LEMMA SumPart ==
  ASSUME NEW X, NEW f \in [X -> Int], NEW h \in [X -> Int],
         NEW S \in SUBSET X, IsFiniteSet(S), NEW A \in SUBSET S,
         \A r \in S : h[r] = IF r \in A THEN f[r] ELSE 0
  PROVE  SumOver(h, S) = SumOver(f, A)
<1> DEFINE T == {s \in SUBSET S : SumOver(h, s) = SumOver(f, A \cap s)}
<1>1. {} \in T
  <2>1. A \cap {} = {}
    OBVIOUS
  <2> QED BY <2>1, SumEmpty
<1>2. ASSUME NEW s \in SUBSET S, NEW x \in S \ s, s \in T PROVE s \cup {x} \in T
  <2>1. IsFiniteSet(s) /\ s \in SUBSET X /\ x \in X \ s
    BY FS_Subset
  <2>2. SumOver(h, s \cup {x}) = h[x] + SumOver(h, s)
    BY <2>1, SumAdd
  <2>3. SumOver(h, s) \in Int /\ SumOver(h, s) = SumOver(f, A \cap s)
    BY <1>2, <2>1, SumType
  <2>4. CASE x \in A
    <3>1. A \cap (s \cup {x}) = (A \cap s) \cup {x}
      BY <2>4
    <3>2. IsFiniteSet(A \cap s) /\ A \cap s \in SUBSET X /\ x \in X \ (A \cap s)
      BY <2>1, FS_Subset
    <3>3. SumOver(f, (A \cap s) \cup {x}) = f[x] + SumOver(f, A \cap s)
      BY <3>2, SumAdd
    <3>4. h[x] = f[x]
      BY <2>4
    <3> QED BY <2>2, <2>3, <3>1, <3>3, <3>4
  <2>5. CASE x \notin A
    <3>1. A \cap (s \cup {x}) = A \cap s
      BY <2>5
    <3>2. h[x] = 0
      BY <2>5
    <3>3. SumOver(h, s \cup {x}) = SumOver(h, s)
      BY <2>2, <2>3, <3>2
    <3>4. SumOver(h, s \cup {x}) = SumOver(f, A \cap (s \cup {x}))
      BY <2>3, <3>1, <3>3
    <3> QED BY <3>4
  <2> QED BY <2>4, <2>5
<1> HIDE DEF T
<1>3. S \in T
  BY <1>1, <1>2, SubsetInduction
<1>4. A \cap S = A
  OBVIOUS
<1> QED BY <1>3, <1>4 DEF T

(* Counting is summing ones. *)
LEMMA SumOnes ==
  ASSUME NEW X, NEW h \in [X -> Int], NEW S \in SUBSET X, IsFiniteSet(S), NEW A \in SUBSET S,
         \A r \in S : h[r] = IF r \in A THEN 1 ELSE 0
  PROVE  SumOver(h, S) = Cardinality(A)
<1> DEFINE T == {s \in SUBSET S : SumOver(h, s) = Cardinality(A \cap s)}
<1>1. {} \in T
  <2>1. A \cap {} = {}
    OBVIOUS
  <2> QED BY <2>1, SumEmpty, FS_EmptySet
<1>2. ASSUME NEW s \in SUBSET S, NEW x \in S \ s, s \in T PROVE s \cup {x} \in T
  <2>1. IsFiniteSet(s) /\ s \in SUBSET X /\ x \in X \ s
    BY FS_Subset
  <2>2. SumOver(h, s \cup {x}) = h[x] + SumOver(h, s)
    BY <2>1, SumAdd
  <2>3. SumOver(h, s) \in Int /\ SumOver(h, s) = Cardinality(A \cap s)
    BY <1>2, <2>1, SumType
  <2>4. CASE x \in A
    <3>1. A \cap (s \cup {x}) = (A \cap s) \cup {x}
      BY <2>4
    <3>2. IsFiniteSet(A \cap s) /\ x \notin A \cap s
      BY <2>1, FS_Subset
    <3>3. Cardinality((A \cap s) \cup {x}) = Cardinality(A \cap s) + 1
      BY <3>2, FS_AddElement
    <3>4. h[x] = 1
      BY <2>4
    <3>5. SumOver(h, s \cup {x}) = Cardinality((A \cap s) \cup {x})
      BY <2>2, <2>3, <3>3, <3>4
    <3>6. SumOver(h, s \cup {x}) = Cardinality(A \cap (s \cup {x}))
      BY <3>1, <3>5
    <3> QED BY <3>6
  <2>5. CASE x \notin A
    <3>1. A \cap (s \cup {x}) = A \cap s
      BY <2>5
    <3>2. h[x] = 0
      BY <2>5
    <3>5. SumOver(h, s \cup {x}) = Cardinality(A \cap s)
      BY <2>2, <2>3, <3>2
    <3>6. SumOver(h, s \cup {x}) = Cardinality(A \cap (s \cup {x}))
      BY <3>1, <3>5
    <3> QED BY <3>6
  <2> QED BY <2>4, <2>5
<1> HIDE DEF T
<1>3. S \in T
  BY <1>1, <1>2, SubsetInduction
<1>4. A \cap S = A
  OBVIOUS
<1> QED BY <1>3, <1>4 DEF T

(* A sum of natural numbers is a natural number. *)
LEMMA SumNat ==
  ASSUME NEW X, NEW f \in [X -> Int], NEW S \in SUBSET X, IsFiniteSet(S), \A r \in S : f[r] >= 0
  PROVE  SumOver(f, S) \in Nat
<1> DEFINE T == {s \in SUBSET S : SumOver(f, s) \in Nat}
<1>1. {} \in T
  BY SumEmpty
<1>2. ASSUME NEW s \in SUBSET S, NEW x \in S \ s, s \in T PROVE s \cup {x} \in T
  <2>1. IsFiniteSet(s) /\ s \in SUBSET X /\ x \in X \ s
    BY FS_Subset
  <2>2. SumOver(f, s \cup {x}) = f[x] + SumOver(f, s)
    BY <2>1, SumAdd
  <2>3. SumOver(f, s) \in Nat /\ f[x] \in Int /\ f[x] >= 0
    BY <1>2
  <2> QED BY <2>2, <2>3
<1> HIDE DEF T
<1>3. S \in T
  BY <1>1, <1>2, SubsetInduction
<1> QED BY <1>3 DEF T

(* The sum over two sets that share nothing. *)
LEMMA SumUnion ==
  ASSUME NEW X, NEW f \in [X -> Int], NEW A \in SUBSET X, NEW B \in SUBSET X,
         IsFiniteSet(A), IsFiniteSet(B), A \cap B = {}
  PROVE  SumOver(f, A \cup B) = SumOver(f, A) + SumOver(f, B)
<1> DEFINE T == {s \in SUBSET B : SumOver(f, A \cup s) = SumOver(f, A) + SumOver(f, s)}
<1>0. SumOver(f, A) \in Int
  BY SumType
<1>1. {} \in T
  <2>1. A \cup {} = A
    OBVIOUS
  <2> QED BY <1>0, <2>1, SumEmpty
<1>2. ASSUME NEW s \in SUBSET B, NEW x \in B \ s, s \in T PROVE s \cup {x} \in T
  <2>1. /\ IsFiniteSet(s) /\ s \in SUBSET X /\ x \in X \ s
        /\ IsFiniteSet(A \cup s) /\ A \cup s \in SUBSET X /\ x \in X \ (A \cup s)
    BY FS_Subset, FS_Union
  <2>2. SumOver(f, s \cup {x}) = f[x] + SumOver(f, s) /\ SumOver(f, s) \in Int
    BY <2>1, SumAdd, SumType
  <2>3. SumOver(f, (A \cup s) \cup {x}) = f[x] + SumOver(f, A \cup s)
    <3> DEFINE C == A \cup s
    <3>1. IsFiniteSet(C) /\ C \in SUBSET X /\ x \in X \ C
      BY <2>1
    <3> HIDE DEF C
    <3>2. SumOver(f, C \cup {x}) = f[x] + SumOver(f, C)
      BY <3>1, SumAdd
    <3> QED BY <3>2 DEF C
  <2>4. (A \cup s) \cup {x} = A \cup (s \cup {x})
    OBVIOUS
  <2>5. SumOver(f, A \cup s) = SumOver(f, A) + SumOver(f, s)
    BY <1>2
  <2>6. SumOver(f, A \cup (s \cup {x})) = f[x] + SumOver(f, A \cup s)
    BY <2>3, <2>4
  <2>7. f[x] \in Int
    OBVIOUS
  <2>8. SumOver(f, A \cup (s \cup {x})) = SumOver(f, A) + SumOver(f, s \cup {x})
    BY <1>0, <2>2, <2>5, <2>6, <2>7
  <2> QED BY <2>8
<1> HIDE DEF T
<1>3. B \in T
  BY <1>1, <1>2, SubsetInduction
<1> QED BY <1>3 DEF T

(* A sum is not more than the sum of larger numbers over more elements. *)
LEMMA SumBound ==
  ASSUME NEW X, NEW f \in [X -> Int], NEW g \in [X -> Int], NEW S \in SUBSET X, IsFiniteSet(S),
         NEW A \in SUBSET S, \A r \in A : f[r] <= g[r], \A r \in S : g[r] >= 0
  PROVE  SumOver(f, A) <= SumOver(g, S)
<1> DEFINE h == [r \in X |-> IF r \in A THEN g[r] - f[r] ELSE 0]
           B == S \ A
<1>1. IsFiniteSet(A) /\ IsFiniteSet(B) /\ A \in SUBSET X /\ B \in SUBSET X
  BY FS_Subset
<1>2. h \in [X -> Int] /\ (\A r \in A : g[r] = f[r] + h[r]) /\ (\A r \in A : h[r] >= 0)
  OBVIOUS
<1> HIDE DEF h
<1>3. SumOver(g, A) = SumOver(f, A) + SumOver(h, A)
  BY <1>1, <1>2, SumLinear
<1>4. SumOver(h, A) \in Nat
  BY <1>1, <1>2, SumNat
<1>5. SumOver(g, B) \in Nat
  BY <1>1, SumNat
<1>6. A \cup B = S /\ A \cap B = {}
  OBVIOUS
<1>7. SumOver(g, A \cup B) = SumOver(g, A) + SumOver(g, B)
  BY <1>1, <1>6, SumUnion
<1>8. SumOver(f, A) \in Int
  BY <1>1, SumType
<1>9. SumOver(g, S) = SumOver(g, A) + SumOver(g, B)
  BY <1>6, <1>7
<1> HIDE DEF B
<1> QED BY <1>3, <1>4, <1>5, <1>8, <1>9

(* Functions that agree on a set have the same sum over it. *)
LEMMA SumSame ==
  ASSUME NEW X, NEW f \in [X -> Int], NEW g \in [X -> Int], NEW S \in SUBSET X, IsFiniteSet(S),
         \A r \in S : f[r] = g[r]
  PROVE  SumOver(f, S) = SumOver(g, S)
<1>1. \A r \in S : g[r] = IF r \in S THEN f[r] ELSE 0
  OBVIOUS
<1> QED BY <1>1, SumPart

(* The sum of a constant. *)
LEMMA SumConstant ==
  ASSUME NEW X, NEW f \in [X -> Int], NEW S \in SUBSET X, IsFiniteSet(S), NEW c \in Int,
         \A r \in S : f[r] = c
  PROVE  SumOver(f, S) = c * Cardinality(S)
<1> DEFINE T == {s \in SUBSET S : SumOver(f, s) = c * Cardinality(s)}
<1>1. {} \in T
  BY SumEmpty, FS_EmptySet
<1>2. ASSUME NEW s \in SUBSET S, NEW x \in S \ s, s \in T PROVE s \cup {x} \in T
  <2>1. IsFiniteSet(s) /\ s \in SUBSET X /\ x \in X \ s
    BY FS_Subset
  <2>2. SumOver(f, s \cup {x}) = f[x] + SumOver(f, s)
    BY <2>1, SumAdd
  <2>3. Cardinality(s \cup {x}) = Cardinality(s) + 1 /\ Cardinality(s) \in Nat
    BY <2>1, FS_AddElement, FS_CardinalityType
  <2>4. f[x] = c /\ SumOver(f, s) = c * Cardinality(s)
    BY <1>2
  <2>5. c + c * Cardinality(s) = c * (Cardinality(s) + 1)
    BY <2>3
  <2>6. SumOver(f, s \cup {x}) = c * Cardinality(s \cup {x})
    BY <2>2, <2>3, <2>4, <2>5
  <2> QED BY <2>6
<1> HIDE DEF T
<1>3. S \in T
  BY <1>1, <1>2, SubsetInduction
<1> QED BY <1>3 DEF T

---------------------------------------------------------------------------
(* Queues without repetition                                               *)

Distinct(s) == \A i, j \in 1..Len(s) : s[i] = s[j] => i = j

(* The elements of a queue by their places. *)
LEMMA ToSetIs == ASSUME NEW X, NEW s \in Seq(X) PROVE ToSet(s) = {s[i] : i \in 1..Len(s)}
BY DEF ToSet

(* An element is at its place, and no other is. *)
LEMMA PlaceOfResult ==
  ASSUME NEW X, NEW s \in Seq(X), Distinct(s)
  PROVE  /\ \A r \in ToSet(s) : PlaceOf(s, r) \in 1..Len(s) /\ s[PlaceOf(s, r)] = r
         /\ \A i \in 1..Len(s) : PlaceOf(s, s[i]) = i
<1>1. ASSUME NEW r \in ToSet(s) PROVE PlaceOf(s, r) \in 1..Len(s) /\ s[PlaceOf(s, r)] = r
  <2>1. \E i \in 1..Len(s) : s[i] = r
    BY DEF ToSet
  <2> QED BY <2>1 DEF PlaceOf
<1>2. ASSUME NEW i \in 1..Len(s) PROVE PlaceOf(s, s[i]) = i
  <2>1. s[i] \in ToSet(s)
    BY DEF ToSet
  <2>2. PlaceOf(s, s[i]) \in 1..Len(s) /\ s[PlaceOf(s, s[i])] = s[i]
    BY <1>1, <2>1
  <2> QED BY <2>2 DEF Distinct
<1> QED BY <1>1, <1>2

(* Without, for a queue without repetition. *)
LEMMA WithoutDistinct ==
  ASSUME NEW X, NEW s \in Seq(X), Distinct(s), NEW S
  PROVE  Without(s, S) \in Seq(X) /\ Distinct(Without(s, S)) /\ ToSet(Without(s, S)) = ToSet(s) \ S
BY WithoutResult DEF Distinct

(* Queued, for a queue without repetition. *)
LEMMA QueuedDistinct ==
  ASSUME NEW X, NEW s \in Seq(X), Distinct(s), NEW S
  PROVE  Queued(s, S) \in Seq(X) /\ Distinct(Queued(s, S)) /\ ToSet(Queued(s, S)) = ToSet(s) \cap S
<1> DEFINE D == ToSet(s) \ S
<1>1. ToSet(s) \ D = ToSet(s) \cap S
  OBVIOUS
<1> HIDE DEF D
<1>2. Without(s, D) \in Seq(X) /\ Distinct(Without(s, D)) /\ ToSet(Without(s, D)) = ToSet(s) \ D
  BY WithoutDistinct
<1>3. Queued(s, S) = Without(s, D)
  BY DEF Queued, D
<1> QED BY <1>1, <1>2, <1>3

(* Two queues that share nothing, one after the other. *)
LEMMA ConcatDistinct ==
  ASSUME NEW X, NEW s \in Seq(X), NEW t \in Seq(X), Distinct(s), Distinct(t), ToSet(s) \cap ToSet(t) = {}
  PROVE  s \o t \in Seq(X) /\ Distinct(s \o t) /\ ToSet(s \o t) = ToSet(s) \cup ToSet(t)
<1>1. /\ s \o t \in Seq(X) /\ Len(s \o t) = Len(s) + Len(t) /\ Len(s) \in Nat /\ Len(t) \in Nat
      /\ \A i \in 1..(Len(s) + Len(t)) : (s \o t)[i] = IF i <= Len(s) THEN s[i] ELSE t[i - Len(s)]
  OBVIOUS
<1>2. \A i \in 1..Len(s) : s[i] \in ToSet(s)
  BY DEF ToSet
<1>3. \A i \in 1..Len(t) : t[i] \in ToSet(t)
  BY DEF ToSet
<1>4. ASSUME NEW i \in 1..Len(s \o t), NEW j \in 1..Len(s \o t), (s \o t)[i] = (s \o t)[j] PROVE i = j
  <2>1. CASE i <= Len(s) /\ j <= Len(s)
    BY <1>1, <1>4, <2>1 DEF Distinct
  <2>2. CASE i > Len(s) /\ j > Len(s)
    <3>1. i - Len(s) \in 1..Len(t) /\ j - Len(s) \in 1..Len(t)
      BY <1>1, <2>2
    <3>2. t[i - Len(s)] = t[j - Len(s)]
      BY <1>1, <1>4, <2>2
    <3>3. i - Len(s) = j - Len(s)
      BY <3>1, <3>2 DEF Distinct
    <3> QED BY <1>1, <3>3
  <2>3. CASE i <= Len(s) /\ j > Len(s)
    <3>1. j - Len(s) \in 1..Len(t) /\ i \in 1..Len(s)
      BY <1>1, <2>3
    <3>2. s[i] = t[j - Len(s)]
      BY <1>1, <1>4, <2>3
    <3> QED BY <1>2, <1>3, <3>1, <3>2
  <2>4. CASE i > Len(s) /\ j <= Len(s)
    <3>1. i - Len(s) \in 1..Len(t) /\ j \in 1..Len(s)
      BY <1>1, <2>4
    <3>2. s[j] = t[i - Len(s)]
      BY <1>1, <1>4, <2>4
    <3> QED BY <1>2, <1>3, <3>1, <3>2
  <2> QED BY <1>1, <2>1, <2>2, <2>3, <2>4
<1>5. ToSet(s \o t) \subseteq ToSet(s) \cup ToSet(t)
  <2> SUFFICES ASSUME NEW i \in 1..Len(s \o t) PROVE (s \o t)[i] \in ToSet(s) \cup ToSet(t)
    BY <1>1 DEF ToSet
  <2>1. CASE i <= Len(s)
    BY <1>1, <1>2, <2>1
  <2>2. CASE i > Len(s)
    <3>1. i - Len(s) \in 1..Len(t)
      BY <1>1, <2>2
    <3> QED BY <1>1, <1>3, <2>2, <3>1
  <2> QED BY <1>1, <2>1, <2>2
<1>6. ToSet(s) \subseteq ToSet(s \o t)
  <2> SUFFICES ASSUME NEW i \in 1..Len(s) PROVE s[i] \in ToSet(s \o t)
    BY DEF ToSet
  <2>1. i \in 1..Len(s \o t) /\ (s \o t)[i] = s[i]
    BY <1>1
  <2> QED BY <1>1, <2>1, ToSetIs
<1>7. ToSet(t) \subseteq ToSet(s \o t)
  <2> SUFFICES ASSUME NEW i \in 1..Len(t) PROVE t[i] \in ToSet(s \o t)
    BY DEF ToSet
  <2> DEFINE j == Len(s) + i
  <2>1. j \in 1..Len(s \o t) /\ j > Len(s) /\ j - Len(s) = i
    BY <1>1
  <2>2. (s \o t)[j] = t[i]
    BY <1>1, <2>1
  <2> QED BY <1>1, <2>1, <2>2, ToSetIs
<1> QED BY <1>1, <1>4, <1>5, <1>6, <1>7 DEF Distinct

(* A part of a queue. *)
LEMMA PartDistinct ==
  ASSUME NEW X, NEW s \in Seq(X), Distinct(s), NEW m \in 1..(Len(s) + 1), NEW n \in 0..Len(s), n >= m - 1
  PROVE  /\ SubSeq(s, m, n) \in Seq(X) /\ Len(SubSeq(s, m, n)) = n - m + 1
         /\ Distinct(SubSeq(s, m, n)) /\ ToSet(SubSeq(s, m, n)) = {s[i] : i \in m..n}
         /\ \A i \in 1..(n - m + 1) : SubSeq(s, m, n)[i] = s[m + i - 1]
<1> DEFINE t == SubSeq(s, m, n)
<1>1. /\ Len(s) \in Nat /\ Len(t) = n - m + 1 /\ DOMAIN t = 1..(n - m + 1)
      /\ \A i \in 1..(n - m + 1) : t[i] = s[m + i - 1]
  OBVIOUS
<1>2. \A i \in 1..(n - m + 1) : m + i - 1 \in 1..Len(s) /\ m + i - 1 \in m..n
  BY <1>1
<1>3. t \in Seq(X)
  <2>1. t = [i \in 1..(n - m + 1) |-> t[i]] /\ n - m + 1 \in Nat
    BY <1>1
  <2>2. \A i \in 1..(n - m + 1) : t[i] \in X
    BY <1>1, <1>2
  <2> QED BY <2>1, <2>2
<1> HIDE DEF t
<1>4. ASSUME NEW i \in 1..Len(t), NEW j \in 1..Len(t), t[i] = t[j] PROVE i = j
  <2>1. s[m + i - 1] = s[m + j - 1]
    BY <1>1, <1>4
  <2>2. m + i - 1 = m + j - 1
    BY <1>1, <1>2, <2>1 DEF Distinct
  <2> QED BY <1>1, <2>2
<1>5. ToSet(t) = {s[i] : i \in m..n}
  <2>1. ASSUME NEW i \in 1..Len(t) PROVE t[i] \in {s[x] : x \in m..n}
    BY <1>1, <1>2
  <2>2. ASSUME NEW i \in m..n PROVE s[i] \in ToSet(t)
    <3>1. i - m + 1 \in 1..Len(t) /\ m + (i - m + 1) - 1 = i
      BY <1>1
    <3>2. t[i - m + 1] = s[i]
      BY <1>1, <3>1
    <3> QED BY <1>3, <3>1, <3>2, ToSetIs
  <2> QED BY <1>3, <2>1, <2>2, ToSetIs
<1>6. t \in Seq(X) /\ Len(t) = n - m + 1 /\ Distinct(t) /\ ToSet(t) = {s[i] : i \in m..n}
      /\ \A i \in 1..(n - m + 1) : t[i] = s[m + i - 1]
  BY <1>1, <1>3, <1>4, <1>5 DEF Distinct
<1> QED BY <1>6 DEF t

(* A queue without repetition is as long as the set of its elements is big.*)
LEMMA DistinctCardinality ==
  ASSUME NEW X, NEW s \in Seq(X), Distinct(s)
  PROVE  IsFiniteSet(ToSet(s)) /\ Cardinality(ToSet(s)) = Len(s)
<1>1. Len(s) \in Nat /\ DOMAIN s = 1..Len(s)
  OBVIOUS
<1>2. s \in Bijection(1..Len(s), ToSet(s))
  <2>1. s \in [1..Len(s) -> ToSet(s)]
    BY <1>1 DEF ToSet
  <2>2. s \in Surjection(1..Len(s), ToSet(s))
    BY <1>1, <2>1 DEF Surjection, ToSet
  <2>3. s \in Injection(1..Len(s), ToSet(s))
    BY <2>1 DEF Injection, IsInjective, Distinct
  <2> QED BY <2>2, <2>3 DEF Bijection
<1>3. IsFiniteSet(1..Len(s)) /\ Cardinality(1..Len(s)) = Len(s)
  BY <1>1, FS_Interval
<1>4. IsFiniteSet(ToSet(s)) /\ Cardinality(1..Len(s)) = Cardinality(ToSet(s))
  BY <1>2, <1>3, FS_Bijection DEF ExistsBijection
<1> QED BY <1>3, <1>4

(* SetToSeq lists a finite set. *)
LEMMA SetToSeqResult ==
  ASSUME NEW S, IsFiniteSet(S)
  PROVE  /\ SetToSeq(S) \in Seq(S) /\ Len(SetToSeq(S)) = Cardinality(S)
         /\ Distinct(SetToSeq(S)) /\ ToSet(SetToSeq(S)) = S
<1> DEFINE t == SetToSeq(S)
<1>1. Cardinality(S) \in Nat /\ \E f \in [1..Cardinality(S) -> S] : IsInjective(f)
  <2>1. Cardinality(S) \in Nat /\ ExistsBijection(1..Cardinality(S), S)
    BY FS_CardinalityType
  <2>2. PICK f \in Bijection(1..Cardinality(S), S) : TRUE
    BY <2>1 DEF ExistsBijection
  <2>3. f \in [1..Cardinality(S) -> S] /\ IsInjective(f)
    BY <2>2 DEF Bijection, Injection, IsInjective
  <2> QED BY <2>1, <2>3
<1>2. t \in [1..Cardinality(S) -> S] /\ IsInjective(t)
  BY <1>1 DEF SetToSeq
<1> HIDE DEF t
<1>3. t \in Seq(S) /\ Len(t) = Cardinality(S)
  BY <1>1, <1>2
<1>4. Distinct(t)
  BY <1>2, <1>3 DEF IsInjective, Distinct
<1>5. Cardinality(ToSet(t)) = Cardinality(S) /\ ToSet(t) \subseteq S
  <2>1. Cardinality(ToSet(t)) = Len(t)
    BY <1>3, <1>4, DistinctCardinality
  <2> QED BY <1>3, <2>1, ToSetIs
<1>6. ToSet(t) = S
  BY <1>5, FS_Subset
<1> QED BY <1>3, <1>4, <1>6 DEF t

(* One more element at the end of a queue. *)
LEMMA AppendDistinct ==
  ASSUME NEW X, NEW s \in Seq(X), NEW r \in X, Distinct(s), r \notin ToSet(s)
  PROVE  /\ Append(s, r) \in Seq(X) /\ Distinct(Append(s, r)) /\ ToSet(Append(s, r)) = ToSet(s) \cup {r}
         /\ Len(Append(s, r)) = Len(s) + 1
<1> DEFINE t == Append(s, r)
<1>1. /\ Len(s) \in Nat /\ t \in Seq(X) /\ Len(t) = Len(s) + 1
      /\ \A i \in 1..Len(s) : t[i] = s[i]
      /\ t[Len(s) + 1] = r
  OBVIOUS
<1> HIDE DEF t
<1>2. \A i \in 1..Len(s) : s[i] # r
  BY DEF ToSet
<1>3. \A i \in 1..Len(t) : i \in 1..Len(s) \/ i = Len(s) + 1
  BY <1>1
<1>4. Distinct(t)
  BY <1>1, <1>2, <1>3 DEF Distinct
<1>5. ToSet(t) = ToSet(s) \cup {r}
  <2>1. \A i \in 1..Len(t) : t[i] \in ToSet(s) \cup {r}
    BY <1>1, <1>3, ToSetIs
  <2>2. \A i \in 1..Len(s) : s[i] \in ToSet(t)
    <3>1. \A i \in 1..Len(s) : i \in 1..Len(t)
      BY <1>1
    <3> QED BY <1>1, <3>1, ToSetIs
  <2>3. r \in ToSet(t)
    <3>1. Len(s) + 1 \in 1..Len(t)
      BY <1>1
    <3> QED BY <1>1, <3>1, ToSetIs
  <2> QED BY <1>1, <2>1, <2>2, <2>3, ToSetIs
<1>6. t \in Seq(X) /\ Distinct(t) /\ ToSet(t) = ToSet(s) \cup {r} /\ Len(t) = Len(s) + 1
  BY <1>1, <1>4, <1>5
<1> QED BY <1>6 DEF t

(* The first element taken from a queue. *)
LEMMA TailDistinct ==
  ASSUME NEW X, NEW s \in Seq(X), Distinct(s), s # << >>
  PROVE  /\ Head(s) \in ToSet(s) /\ Head(s) \in X /\ Tail(s) \in Seq(X) /\ Distinct(Tail(s))
         /\ ToSet(Tail(s)) = ToSet(s) \ {Head(s)} /\ Len(Tail(s)) = Len(s) - 1
<1> DEFINE t == Tail(s)
<1>1. /\ Len(s) \in Nat /\ Len(s) > 0 /\ Head(s) = s[1] /\ t \in Seq(X) /\ Len(t) = Len(s) - 1
      /\ \A i \in 1..Len(t) : t[i] = s[i + 1]
  OBVIOUS
<1> HIDE DEF t
<1>2. \A i \in 1..Len(t) : i + 1 \in 1..Len(s) /\ i + 1 # 1
  BY <1>1
<1>3. 1 \in 1..Len(s)
  BY <1>1
<1>4. ASSUME NEW i \in 1..Len(t), NEW j \in 1..Len(t), t[i] = t[j] PROVE i = j
  <2>1. s[i + 1] = s[j + 1]
    BY <1>1, <1>4
  <2>2. i + 1 = j + 1
    BY <1>2, <2>1 DEF Distinct
  <2> QED BY <1>1, <2>2
<1>5. \A i \in 1..Len(t) : t[i] \in ToSet(s) \ {Head(s)}
  <2> TAKE i \in 1..Len(t)
  <2>1. t[i] = s[i + 1] /\ i + 1 \in 1..Len(s) /\ i + 1 # 1
    BY <1>1, <1>2
  <2>2. s[i + 1] # s[1]
    BY <1>3, <2>1 DEF Distinct
  <2> QED BY <1>1, <2>1, <2>2, ToSetIs
<1>6. ASSUME NEW x \in ToSet(s) \ {Head(s)} PROVE x \in ToSet(t)
  <2>1. PICK i \in 1..Len(s) : x = s[i]
    BY ToSetIs
  <2>2. i # 1
    BY <1>1, <1>6, <2>1
  <2>3. i - 1 \in 1..Len(t) /\ (i - 1) + 1 = i
    BY <1>1, <2>2
  <2>4. t[i - 1] = x
    BY <1>1, <2>1, <2>3
  <2> QED BY <1>1, <2>3, <2>4, ToSetIs
<1>7. ToSet(t) = ToSet(s) \ {Head(s)}
  BY <1>1, <1>5, <1>6, ToSetIs
<1>8. Head(s) \in ToSet(s) /\ Head(s) \in X /\ t \in Seq(X) /\ Distinct(t)
      /\ ToSet(t) = ToSet(s) \ {Head(s)} /\ Len(t) = Len(s) - 1
  BY <1>1, <1>3, <1>4, <1>7, ToSetIs DEF Distinct
<1> QED BY <1>8 DEF t

(* Queues without repetition that share nothing. *)
Apart(rows, S) ==
  /\ \A r \in S : Distinct(rows[r])
  /\ \A r, q \in S : r # q => ToSet(rows[r]) \cap ToSet(rows[q]) = {}

(* They have together as many elements as they are long. *)
LEMMA FamilyCardinality ==
  ASSUME NEW X, NEW Y, NEW rows, rows \in [X -> Seq(Y)], NEW S \in SUBSET X, IsFiniteSet(S),
         Apart(rows, S), NEW f, f = [r \in X |-> Len(rows[r])]
  PROVE  /\ IsFiniteSet(UNION {ToSet(rows[r]) : r \in S})
         /\ Cardinality(UNION {ToSet(rows[r]) : r \in S}) = SumOver(f, S)
<1>b. f \in [X -> Int] /\ \A r \in X : f[r] = Len(rows[r])
  OBVIOUS
<1>c. /\ \A r \in S : Distinct(rows[r])
      /\ \A r, q \in S : r # q => ToSet(rows[r]) \cap ToSet(rows[q]) = {}
  BY DEF Apart
<1>a. ASSUME NEW s \in SUBSET X, NEW x \in X \ s, IsFiniteSet(s)
      PROVE  SumOver(f, s \cup {x}) = f[x] + SumOver(f, s)
  <2>1. f \in [X -> Int] /\ IsFiniteSet(s) /\ s \in SUBSET X /\ x \in X \ s
    BY <1>a, <1>b
  <2> QED BY ONLY <2>1, SumAdd
<1> DEFINE U(s) == UNION {ToSet(rows[r]) : r \in s}
           T == {s \in SUBSET S : IsFiniteSet(U(s)) /\ Cardinality(U(s)) = SumOver(f, s)}
<1>1. {} \in T
  <2>1. U({}) = {}
    OBVIOUS
  <2> QED BY <2>1, SumEmpty, FS_EmptySet
<1>2. ASSUME NEW s \in SUBSET S, NEW x \in S \ s, s \in T PROVE s \cup {x} \in T
  <2> DEFINE V == U(s)
             W == ToSet(rows[x])
             Z == U(s \cup {x})
  <2>1. IsFiniteSet(s) /\ s \in SUBSET X /\ x \in X \ s
    BY FS_Subset
  <2>2. SumOver(f, s \cup {x}) = f[x] + SumOver(f, s)
    BY <1>a, <2>1
  <2>3. IsFiniteSet(W) /\ Cardinality(W) = f[x]
    <3>1. rows[x] \in Seq(Y) /\ Distinct(rows[x])
      BY <1>c
    <3> QED BY <1>b, <3>1, DistinctCardinality
  <2>4. IsFiniteSet(V) /\ Cardinality(V) = SumOver(f, s)
    BY <1>2
  <2>5. V \cap W = {}
    BY <1>c
  <2>6. Z = V \cup W
    OBVIOUS
  <2> HIDE DEF V, W, Z
  <2>7. Cardinality(V \cup W) = Cardinality(V) + Cardinality(W) /\ IsFiniteSet(V \cup W)
    <3>1. /\ IsFiniteSet(V \cup W)
          /\ Cardinality(V \cup W) = Cardinality(V) + Cardinality(W) - Cardinality(V \cap W)
      BY <2>3, <2>4, FS_Union
    <3>2. Cardinality(V \cap W) = 0
      BY <2>5, FS_EmptySet
    <3> QED BY <2>3, <2>4, <3>1, <3>2, FS_CardinalityType
  <2>8. IsFiniteSet(Z) /\ Cardinality(Z) = SumOver(f, s \cup {x})
    <3>1. SumOver(f, s) \in Int /\ f[x] \in Int
      BY <1>b, <2>1, SumType
    <3>2. Cardinality(V \cup W) = SumOver(f, s \cup {x})
      BY <2>2, <2>3, <2>4, <2>7, <3>1
    <3> QED BY <2>6, <2>7, <3>2
  <2> QED BY <2>8 DEF Z
<1>3. S \in T
  <2> HIDE DEF T
  <2> QED BY <1>1, <1>2, SubsetInduction
<1> QED BY <1>3

---------------------------------------------------------------------------
(* Least and greatest elements                                             *)

(* A finite set of integers has a least and a greatest element. *)
LEMMA MinMaxResult ==
  ASSUME NEW S \in SUBSET Int, IsFiniteSet(S), S # {}
  PROVE  /\ Min(S) \in S /\ \A x \in S : Min(S) <= x
         /\ Max(S) \in S /\ \A x \in S : x <= Max(S)
<1> DEFINE Low(s) == \E x \in s : \A y \in s : x <= y
           High(s) == \E x \in s : \A y \in s : y <= x
           T == {s \in SUBSET S : s = {} \/ (Low(s) /\ High(s))}
<1>1. {} \in T
  OBVIOUS
<1>2. ASSUME NEW s \in SUBSET S, NEW x \in S \ s, s \in T PROVE s \cup {x} \in T
  <2>1. CASE s = {}
    BY <2>1
  <2>2. CASE s # {}
    <3>1. PICK lo \in s : \A y \in s : lo <= y
      BY <1>2, <2>2
    <3>2. PICK hi \in s : \A y \in s : y <= hi
      BY <1>2, <2>2
    <3>3. \A y \in s \cup {x} : y \in Int
      OBVIOUS
    <3>4. Low(s \cup {x})
      <4>1. CASE lo <= x
        BY <3>1, <4>1
      <4>2. CASE ~(lo <= x)
        <5>1. \A y \in s \cup {x} : x <= y
          BY <3>1, <3>3, <4>2
        <5> QED BY <5>1
      <4> QED BY <4>1, <4>2
    <3>5. High(s \cup {x})
      <4>1. CASE x <= hi
        BY <3>2, <4>1
      <4>2. CASE ~(x <= hi)
        <5>1. \A y \in s \cup {x} : y <= x
          BY <3>2, <3>3, <4>2
        <5> QED BY <5>1
      <4> QED BY <4>1, <4>2
    <3> QED BY <3>4, <3>5
  <2> QED BY <2>1, <2>2
<1>3. S \in T
  <2> HIDE DEF T
  <2> QED BY <1>1, <1>2, SubsetInduction
<1>4. Min(S) \in S /\ \A x \in S : Min(S) <= x
  <2>1. Low(S)
    BY <1>3
  <2> QED BY <2>1 DEF Min
<1>5. Max(S) \in S /\ \A x \in S : x <= Max(S)
  <2>1. \E x \in S : \A y \in S : x >= y
    <3>1. PICK hi \in S : \A y \in S : y <= hi
      BY <1>3
    <3> QED BY <3>1
  <2>2. Max(S) \in S /\ \A y \in S : Max(S) >= y
    BY <2>1 DEF Max
  <2> QED BY <2>2
<1> QED BY <1>4, <1>5

---------------------------------------------------------------------------
(* Cardinalities                                                           *)

(* Two finite sets that share nothing. *)
LEMMA UnionCardinality ==
  ASSUME NEW A, NEW B, IsFiniteSet(A), IsFiniteSet(B), A \cap B = {}
  PROVE  IsFiniteSet(A \cup B) /\ Cardinality(A \cup B) = Cardinality(A) + Cardinality(B)
<1>1. /\ IsFiniteSet(A \cup B)
      /\ Cardinality(A \cup B) = Cardinality(A) + Cardinality(B) - Cardinality(A \cap B)
  BY FS_Union
<1>2. Cardinality(A \cap B) = 0
  BY FS_EmptySet
<1>3. Cardinality(A) \in Nat /\ Cardinality(B) \in Nat
  BY FS_CardinalityType
<1> QED BY <1>1, <1>2, <1>3

(* A part of a finite set, and the rest of it. *)
LEMMA DifferenceCardinality ==
  ASSUME NEW A, NEW B \in SUBSET A, IsFiniteSet(A)
  PROVE  /\ IsFiniteSet(B) /\ IsFiniteSet(A \ B)
         /\ Cardinality(A \ B) = Cardinality(A) - Cardinality(B)
         /\ Cardinality(A) \in Nat /\ Cardinality(B) \in Nat /\ Cardinality(B) <= Cardinality(A)
<1> DEFINE C == A \ B
<1>1. IsFiniteSet(B) /\ IsFiniteSet(C) /\ B \cap C = {} /\ B \cup C = A
  BY FS_Subset
<1> HIDE DEF C
<1>2. Cardinality(B \cup C) = Cardinality(B) + Cardinality(C)
  BY <1>1, UnionCardinality
<1>3. Cardinality(B) \in Nat /\ Cardinality(C) \in Nat /\ Cardinality(A) \in Nat
  BY <1>1, FS_CardinalityType
<1>a. Cardinality(A) = Cardinality(B) + Cardinality(C)
  BY <1>1, <1>2
<1>4. Cardinality(C) = Cardinality(A) - Cardinality(B) /\ Cardinality(B) <= Cardinality(A)
  BY <1>a, <1>3
<1> QED BY <1>1, <1>3, <1>4 DEF C

(* The smaller of two numbers. *)
LEMMA MinOfTwo ==
  ASSUME NEW a \in Int, NEW b \in Int
  PROVE  Min({a, b}) \in {a, b} /\ Min({a, b}) <= a /\ Min({a, b}) <= b
<1>1. IsFiniteSet({a, b})
  <2>1. IsFiniteSet({a}) /\ IsFiniteSet({a} \cup {b})
    BY FS_Singleton, FS_AddElement
  <2>2. {a} \cup {b} = {a, b}
    OBVIOUS
  <2> QED BY <2>1, <2>2
<1>2. {a, b} \in SUBSET Int /\ {a, b} # {}
  OBVIOUS
<1>3. Min({a, b}) \in {a, b} /\ \A x \in {a, b} : Min({a, b}) <= x
  BY <1>1, <1>2, MinMaxResult
<1> QED BY <1>3

(* The elements of a queue are of its type. *)
LEMMA ToSetIn == ASSUME NEW X, NEW s \in Seq(X) PROVE ToSet(s) \in SUBSET X
BY DEF ToSet
=============================================================================
