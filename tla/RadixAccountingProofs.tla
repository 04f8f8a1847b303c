------------------------ MODULE RadixAccountingProofs ------------------------
(***************************************************************************)
(* The accounting of the KV cache, for any number of requests, prompts,    *)
(* tokens and slots: every slot is in exactly one place, and the counters  *)
(* evictable_size_ and protected_size_ count what they are said to count.  *)
(***************************************************************************)
EXTENDS RadixCacheProofs

---------------------------------------------------------------------------
(* The counters of a tree                                                  *)

(* the cached positions that the holders H protect, r in H holding ln[r] *)
Held(t, H, ln) == {p \in Cached(t) : \E r \in H : p \preceq ln[r]}

Sizes(t, H, ln) ==
  /\ t.protected_size_ = Cardinality(Held(t, H, ln))
  /\ t.evictable_size_ + t.protected_size_ = Cardinality(Cached(t))

(* a tree with the locks and the counters of the holders H *)
Sound(t, H, ln) == TreeOK(t) /\ Locks(t, H, ln) /\ Sizes(t, H, ln)

(* The counters are numbers, and so is the number of cached positions. *)
LEMMA CountTypes ==
  ASSUME NEW t, TreeOK(t), NEW H, NEW ln
  PROVE  /\ t.evictable_size_ \in Int /\ t.protected_size_ \in Int
         /\ Held(t, H, ln) \in SUBSET Cached(t)
         /\ \A S \in SUBSET Cached(t) : IsFiniteSet(S) /\ Cardinality(S) \in Nat
<1>1. IsFiniteSet(Cached(t)) /\ t.evictable_size_ \in Int /\ t.protected_size_ \in Int
  BY DEF TreeOK, TreeType
<1>2. ASSUME NEW S \in SUBSET Cached(t)
      PROVE  IsFiniteSet(S) /\ Cardinality(S) \in Nat
  BY <1>1, FS_Subset, FS_CardinalityType
<1>3. QED
  BY <1>1, <1>2 DEF Held

(* What counts depends on the holders' own nodes only. *)
LEMMA SoundOf ==
  ASSUME NEW t, NEW H, NEW ln, NEW ln2, Sound(t, H, ln), \A q \in H : ln2[q] = ln[q]
  PROVE  Sound(t, H, ln2)
<1>1. Held(t, H, ln2) = Held(t, H, ln)
  BY DEF Held
<1>2. Locks(t, H, ln2)
  BY LocksOf DEF Sound
<1>3. QED
  BY <1>1, <1>2 DEF Sound, Sizes

(* The cardinality of a disjoint union and of a difference *)
LEMMA CountUnion ==
  ASSUME NEW S, NEW T, IsFiniteSet(S), IsFiniteSet(T), S \cap T = {}
  PROVE  /\ Cardinality(S \cup T) = Cardinality(S) + Cardinality(T)
         /\ Cardinality(S) \in Nat /\ Cardinality(T) \in Nat
<1>1. Cardinality(S) \in Nat /\ Cardinality(T) \in Nat
  BY FS_CardinalityType
<1>2. Cardinality(S \cap T) = 0
  BY FS_EmptySet
<1>3. Cardinality(S \cup T) = Cardinality(S) + Cardinality(T) - Cardinality(S \cap T)
  BY FS_Union
<1>4. QED
  BY <1>1, <1>2, <1>3

LEMMA CountDifference ==
  ASSUME NEW S, IsFiniteSet(S), NEW T \in SUBSET S
  PROVE  /\ Cardinality(S \ T) = Cardinality(S) - Cardinality(T)
         /\ Cardinality(S) \in Nat /\ Cardinality(T) \in Nat
<1>1. Cardinality(S) \in Nat /\ Cardinality(T) \in Nat
  BY FS_CardinalityType, FS_Subset
<1>2. S \cap T = T
  OBVIOUS
<1>3. QED
  BY <1>1, <1>2, FS_Difference

(* _split_node moves nothing between the counters. *)
LEMMA SplitSound ==
  ASSUME NEW t, NEW H, NEW ln, Sound(t, H, ln), NEW p \in Cached(t) \cup {Root}
  PROVE  Sound(Split(t, p), H, ln)
<1>1. TreeOK(t) /\ Locks(t, H, ln) /\ Sizes(t, H, ln)
  BY DEF Sound
<1>2. TreeOK(Split(t, p)) /\ Split(t, p).val = t.val /\ Locks(Split(t, p), H, ln)
  BY <1>1, SplitProperties, SplitLocks
<1>3. /\ Split(t, p).evictable_size_ = t.evictable_size_
      /\ Split(t, p).protected_size_ = t.protected_size_
  <2>1. t \in [val : [Cached(t) -> Page], lock_ref : [Nodes(t) -> Int],
               evictable_size_ : Int, protected_size_ : Int]
    BY <1>1 DEF TreeOK, TreeType
  <2>2. QED
    BY <2>1 DEF Split
<1>4. Cached(Split(t, p)) = Cached(t)
  BY <1>2 DEF Cached
<1>5. Held(Split(t, p), H, ln) = Held(t, H, ln)
  BY <1>4 DEF Held
<1>6. QED
  BY <1>1, <1>2, <1>3, <1>4, <1>5 DEF Sound, Sizes

LEMMA MatchPrefixSound ==
  ASSUME NEW t, NEW H, NEW ln, Sound(t, H, ln), NEW k \in Path
  PROVE  Sound(MatchPrefix(t, k), H, ln)
<1>1. TreeOK(t)
  BY DEF Sound
<1>2. Matched(t, k) \in Cached(t) \cup {Root}
  BY <1>1, MatchedProperties
<1>3. QED
  BY <1>2, SplitSound DEF MatchPrefix

(* A position that is not cached yet is protected by nobody. *)
LEMMA HeldIsCached ==
  ASSUME NEW t, TreeOK(t), NEW H, NEW ln, Locks(t, H, ln),
         NEW p \in Path, p # Root, NEW r \in H, p \preceq ln[r]
  PROVE  p \in Cached(t) /\ ln[r] \in Nodes(t) /\ ln[r] \in Path
<1>1. ln[r] \in Nodes(t) \cup {Root}
  BY DEF Locks
<1>2. ln[r] # Root
  BY RootProperties
<1>3. QED
  BY <1>1, <1>2, PositionsArePaths

(* The prefixes of k that are longer than m are Len(k) - m. *)
LEMMA CountPrefixes ==
  ASSUME NEW k \in Path, NEW m \in 0..Len(k)
  PROVE  LET N == {First(k, i) : i \in (m + 1)..Len(k)}
         IN  IsFiniteSet(N) /\ Cardinality(N) = Len(k) - m
<1> DEFINE I == (m + 1)..Len(k)
           N == {First(k, i) : i \in I}
           f == [i \in I |-> First(k, i)]
<1>1. Len(k) \in Nat /\ m \in Nat /\ m <= Len(k)
  BY PathProperties
<1>2. IsFiniteSet(I) /\ Cardinality(I) = Len(k) - m
  <2>1. /\ IsFiniteSet((m + 1)..Len(k))
        /\ Cardinality((m + 1)..Len(k)) = IF m + 1 > Len(k) THEN 0 ELSE Len(k) - (m + 1) + 1
    <3>1. m + 1 \in Int /\ Len(k) \in Int
      BY <1>1
    <3>2. QED
      BY <3>1, FS_Interval
  <2>2. (IF m + 1 > Len(k) THEN 0 ELSE Len(k) - (m + 1) + 1) = Len(k) - m
    BY <1>1
  <2>3. QED
    BY <2>1, <2>2
<1>3. \A i \in I : Len(First(k, i)) = i
  BY <1>1, FirstProperties
<1> HIDE DEF I
<1>4. f \in [I -> N] /\ \A i, j \in I : f[i] = f[j] => i = j
  BY <1>3
<1>5. \A x \in N : \E i \in I : f[i] = x
  OBVIOUS
<1> HIDE DEF N, f
<1>6. f \in Bijection(I, N)
  BY <1>4, <1>5 DEF Bijection, Injection, Surjection, IsInjective
<1>7. ExistsBijection(I, N)
  BY <1>6 DEF ExistsBijection
<1>8. IsFiniteSet(N) /\ Cardinality(N) = Cardinality(I)
  BY <1>2, <1>7, FS_Bijection
<1>9. QED
  BY <1>2, <1>8 DEF N, I

(* _insert_helper: the new positions are evictable. *)
LEMMA InsertSound ==
  ASSUME NEW t, NEW H, NEW ln, Sound(t, H, ln), NEW k \in Path, NEW v, SlotsFor(v, k)
  PROVE  Sound(Insert(t, k, v), H, ln)
<1> DEFINE m == MatchLen(t, k)
           u == Split(t, First(k, m))
           s == Insert(t, k, v)
           N == {First(k, i) : i \in (m + 1)..Len(k)}
<1>1. /\ TreeOK(t) /\ Locks(t, H, ln) /\ Sizes(t, H, ln)
      /\ Len(k) \in Nat /\ m \in 0..Len(k) /\ m \in Nat
  BY PathProperties, MatchLenProperties DEF Sound
<1>2. First(k, m) \in Cached(t) \cup {Root}
  BY <1>1, MatchedProperties DEF Matched
<1>3. Sound(u, H, ln) /\ u.val = t.val
  BY <1>1, <1>2, SplitSound, SplitProperties
<1>4. Cached(u) = Cached(t)
  BY <1>3 DEF Cached
<1>5. CASE ~(m < Len(k))
  BY <1>3, <1>5 DEF Insert
<1>6. CASE m < Len(k)
  <2>1. s = AddLeaf(u, k, v, m)
    BY <1>6 DEF Insert
  <2>2. /\ s.evictable_size_ = u.evictable_size_ + (Len(k) - m)
        /\ s.protected_size_ = u.protected_size_
    <3>1. u \in [val : [Cached(u) -> Page], lock_ref : [Nodes(u) -> Int],
                 evictable_size_ : Int, protected_size_ : Int]
      BY <1>3 DEF Sound, TreeOK, TreeType
    <3> HIDE DEF u, m
    <3>2. QED
      BY <2>1, <3>1 DEF AddLeaf
  <2>3. /\ TreeOK(s) /\ Locks(s, H, ln) /\ Cached(s) = Cached(t) \cup N
        /\ \A i \in (m + 1)..Len(k) : First(k, i) \notin Cached(t)
    BY <1>1, InsertProperties, InsertLocks
  <2>4. IsFiniteSet(N) /\ Cardinality(N) = Len(k) - m
    <3> HIDE DEF m
    <3> QED
      BY <1>1, CountPrefixes
  <2>5. N \cap Cached(t) = {} /\ \A p \in N : p \in Path /\ p # Root
    <3>1. \A i \in (m + 1)..Len(k) : First(k, i) \in Path /\ Len(First(k, i)) = i /\ i > 0
      BY <1>1, FirstProperties
    <3>2. QED
      BY <2>3, <3>1, RootProperties
  <2> HIDE DEF N, u, s, m
  <2>6. Held(s, H, ln) = Held(t, H, ln)
    <3>1. \A p \in N : \A r \in H : ~(p \preceq ln[r])
      BY <1>1, <2>5, HeldIsCached
    <3>2. QED
      BY <2>3, <3>1 DEF Held
  <2>7. Held(u, H, ln) = Held(t, H, ln)
    BY <1>4 DEF Held
  <2>8. Cardinality(Cached(s)) = Cardinality(Cached(u)) + (Len(k) - m)
    <3>1. IsFiniteSet(Cached(t))
      BY <1>1 DEF TreeOK
    <3>2. QED
      BY <1>4, <2>3, <2>4, <2>5, <3>1, CountUnion
  <2>9. Sizes(s, H, ln)
    <3>1. Sizes(u, H, ln) /\ u.evictable_size_ \in Int /\ u.protected_size_ \in Int
      BY <1>3, CountTypes DEF Sound
    <3>2. Cardinality(Cached(u)) \in Nat
      BY <1>3, CountTypes DEF Sound
    <3>3. QED
      BY <1>1, <2>2, <2>6, <2>7, <2>8, <3>1, <3>2 DEF Sizes
  <2>10. QED
    BY <2>3, <2>9 DEF Sound, s
<1>7. QED
  BY <1>5, <1>6

(* The lock_ref of the node that a position lies in counts the holders that*)
(* hold at or below the position itself.                                   *)
LEMMA OwnerCounts ==
  ASSUME NEW t, TreeOK(t), NEW H, NEW ln, Locks(t, H, ln), NEW p \in Cached(t)
  PROVE  t.lock_ref[Owner(t, p)] = Cardinality({q \in H : p \preceq ln[q]})
<1> DEFINE o == Owner(t, p)
<1>1. o \in Nodes(t) /\ IsOwner(t, p, o)
  BY OwnerProperties
<1>2. p \in Path /\ p # Root /\ o \in Path /\ p \preceq o
  BY <1>1, PositionsArePaths DEF IsOwner
<1> HIDE DEF o
<1>3. ASSUME NEW q \in H
      PROVE  o \preceq ln[q] <=> p \preceq ln[q]
  <2>1. ln[q] \in Path
    BY PositionsArePaths, RootProperties DEF Locks
  <2>2. o \preceq ln[q] => p \preceq ln[q]
    BY <1>2, <2>1, PrefixTransitive
  <2>3. ASSUME p \preceq ln[q] PROVE o \preceq ln[q]
    BY <1>1, <1>2, <2>3, HeldIsCached DEF IsOwner
  <2>4. QED
    BY <2>2, <2>3
<1>4. {q \in H : o \preceq ln[q]} = {q \in H : p \preceq ln[q]}
  BY <1>3
<1>5. t.lock_ref[o] = Cardinality({q \in H : o \preceq ln[q]})
  BY <1>1 DEF Locks
<1>6. QED
  BY <1>4, <1>5 DEF o

(* inc_lock_ref protects what was evictable on the way to n. *)
LEMMA IncSound ==
  ASSUME NEW t, NEW H, IsFiniteSet(H), NEW ln, Sound(t, H, ln),
         NEW r, r \notin H, NEW n \in Nodes(t) \cup {Root}, NEW ln2, ln2[r] = n,
         \A q \in H : ln2[q] = ln[q]
  PROVE  Sound(IncLockRef(t, n), H \cup {r}, ln2)
<1> DEFINE s == IncLockRef(t, n)
           W == WithCount(t, n, 0)
<1>1. TreeOK(t) /\ Locks(t, H, ln) /\ Sizes(t, H, ln)
  BY DEF Sound
<1>2. n \in Path
  BY <1>1, PositionsArePaths, RootProperties
<1>3. TreeOK(s) /\ s.val = t.val /\ Locks(s, H \cup {r}, ln2)
  BY <1>1, <1>2, LockRefProperties, IncLockRefLocks
<1>4. /\ s.evictable_size_ = t.evictable_size_ - Cardinality(W)
      /\ s.protected_size_ = t.protected_size_ + Cardinality(W)
  <2>1. t \in [val : [Cached(t) -> Page], lock_ref : [Nodes(t) -> Int],
               evictable_size_ : Int, protected_size_ : Int]
    BY <1>1 DEF TreeOK, TreeType
  <2> HIDE DEF W
  <2>2. s = [t EXCEPT !.lock_ref = [m \in Nodes(t) |-> IF m \preceq n THEN t.lock_ref[m] + 1
                                                                      ELSE t.lock_ref[m]],
                      !.evictable_size_ = @ - Cardinality(W),
                      !.protected_size_ = @ + Cardinality(W)]
    BY DEF IncLockRef, W
  <2>3. QED
    BY <2>1, <2>2
<1>5. \A p \in Cached(t) : p \in W <=> p \preceq n /\ p \notin Held(t, H, ln)
  <2>1. SUFFICES ASSUME NEW p \in Cached(t)
                 PROVE  t.lock_ref[Owner(t, p)] = 0 <=> p \notin Held(t, H, ln)
    BY DEF WithCount
  <2> DEFINE A == {q \in H : p \preceq ln[q]}
  <2>2. t.lock_ref[Owner(t, p)] = Cardinality(A)
    BY <1>1, OwnerCounts
  <2>3. IsFiniteSet(A)
    BY FS_Subset
  <2>4. p \notin Held(t, H, ln) <=> A = {}
    BY DEF Held
  <2> HIDE DEF A
  <2>5. Cardinality(A) = 0 <=> A = {}
    BY <2>3, FS_EmptySet
  <2>6. QED
    BY <2>2, <2>4, <2>5
<1>6. W \in SUBSET Cached(t)
  BY DEF WithCount
<1> HIDE DEF W, s
<1>7. Cached(s) = Cached(t)
  BY <1>3 DEF Cached
<1>8. Held(s, H \cup {r}, ln2) = Held(t, H, ln) \cup W /\ Held(t, H, ln) \cap W = {}
  BY <1>5, <1>6, <1>7 DEF Held
<1>9. /\ Cardinality(Held(s, H \cup {r}, ln2)) = Cardinality(Held(t, H, ln)) + Cardinality(W)
      /\ Cardinality(Held(t, H, ln)) \in Nat /\ Cardinality(W) \in Nat
  <2>1. IsFiniteSet(Held(t, H, ln)) /\ IsFiniteSet(W)
    BY <1>1, <1>6, CountTypes
  <2>2. QED
    BY <1>8, <2>1, CountUnion
<1>10. Sizes(s, H \cup {r}, ln2)
  <2>1. t.evictable_size_ \in Int /\ t.protected_size_ \in Int
    BY <1>1, CountTypes
  <2>2. QED
    BY <1>1, <1>4, <1>7, <1>9, <2>1 DEF Sizes
<1>11. QED
  BY <1>3, <1>10 DEF Sound, s

(* dec_lock_ref gives up what only r protected. *)
LEMMA DecSound ==
  ASSUME NEW t, NEW H, IsFiniteSet(H), NEW ln, Sound(t, H, ln), NEW r \in H
  PROVE  Sound(DecLockRef(t, ln[r]), H \ {r}, ln)
<1> DEFINE n == ln[r]
           s == DecLockRef(t, n)
           W == WithCount(t, n, 1)
<1>1. TreeOK(t) /\ Locks(t, H, ln) /\ Sizes(t, H, ln)
  BY DEF Sound
<1>2. n \in Path
  BY <1>1, PositionsArePaths, RootProperties DEF Locks
<1>3. TreeOK(s) /\ s.val = t.val /\ Locks(s, H \ {r}, ln)
  <2>1. Locks(s, H \ {r}, ln)
    BY <1>1, DecLockRefLocks
  <2> HIDE DEF n
  <2>2. TreeOK(s) /\ s.val = t.val
    BY <1>1, <1>2, LockRefProperties
  <2>3. QED
    BY <2>1, <2>2
<1>4. /\ s.evictable_size_ = t.evictable_size_ + Cardinality(W)
      /\ s.protected_size_ = t.protected_size_ - Cardinality(W)
  <2>1. t \in [val : [Cached(t) -> Page], lock_ref : [Nodes(t) -> Int],
               evictable_size_ : Int, protected_size_ : Int]
    BY <1>1 DEF TreeOK, TreeType
  <2> HIDE DEF W, n
  <2>2. s = [t EXCEPT !.lock_ref = [m \in Nodes(t) |-> IF m \preceq n THEN t.lock_ref[m] - 1
                                                                      ELSE t.lock_ref[m]],
                      !.evictable_size_ = @ + Cardinality(W),
                      !.protected_size_ = @ - Cardinality(W)]
    BY DEF DecLockRef, W
  <2>3. QED
    BY <2>1, <2>2
<1>5. \A p \in Cached(t) : p \in W <=> p \preceq n /\ \A q \in H \ {r} : ~(p \preceq ln[q])
  <2>1. SUFFICES ASSUME NEW p \in Cached(t), p \preceq n
                 PROVE  t.lock_ref[Owner(t, p)] = 1 <=> \A q \in H \ {r} : ~(p \preceq ln[q])
    BY DEF WithCount
  <2> DEFINE A == {q \in H : p \preceq ln[q]}
  <2>2. t.lock_ref[Owner(t, p)] = Cardinality(A)
    BY <1>1, OwnerCounts
  <2>3. IsFiniteSet(A) /\ r \in A
    BY <2>1, FS_Subset
  <2>4. (\A q \in H \ {r} : ~(p \preceq ln[q])) <=> A \ {r} = {}
    OBVIOUS
  <2> HIDE DEF A
  <2>5. /\ IsFiniteSet(A \ {r}) /\ Cardinality(A \ {r}) = Cardinality(A) - 1
        /\ Cardinality(A) \in Nat
    BY <2>3, FS_RemoveElement, FS_CardinalityType
  <2>6. Cardinality(A \ {r}) = 0 <=> A \ {r} = {}
    BY <2>5, FS_EmptySet
  <2>7. QED
    BY <2>2, <2>4, <2>5, <2>6
<1>6. W \in SUBSET Cached(t)
  BY DEF WithCount
<1> HIDE DEF W, s
<1>7. Cached(s) = Cached(t)
  BY <1>3 DEF Cached
<1>8. Held(s, H \ {r}, ln) = Held(t, H, ln) \ W /\ W \in SUBSET Held(t, H, ln)
  BY <1>5, <1>6, <1>7 DEF Held
<1>9. /\ Cardinality(Held(s, H \ {r}, ln)) = Cardinality(Held(t, H, ln)) - Cardinality(W)
      /\ Cardinality(Held(t, H, ln)) \in Nat /\ Cardinality(W) \in Nat
  <2>1. IsFiniteSet(Held(t, H, ln))
    BY <1>1, CountTypes
  <2>2. QED
    BY <1>8, <2>1, CountDifference
<1>10. Sizes(s, H \ {r}, ln)
  <2>1. t.evictable_size_ \in Int /\ t.protected_size_ \in Int
    BY <1>1, CountTypes
  <2>2. QED
    BY <1>1, <1>4, <1>7, <1>9, <2>1 DEF Sizes
<1>11. QED
  BY <1>3, <1>10 DEF Sound, s

(* evict takes evictable positions only. *)
LEMMA EvictSound ==
  ASSUME NEW t, NEW H, IsFiniteSet(H), NEW ln, Sound(t, H, ln),
         NEW E \in SUBSET Nodes(t), Evictable(t, E)
  PROVE  Sound(Evict(t, E), H, ln)
<1> DEFINE s == Evict(t, E)
           C == Covered(t, E)
<1>1. TreeOK(t) /\ Locks(t, H, ln) /\ Sizes(t, H, ln)
  BY DEF Sound
<1>2. /\ TreeOK(s) /\ Cached(s) = Cached(t) \ C /\ Locks(s, H, ln)
      /\ \A r \in H : \A p \in Cached(t) : p \preceq ln[r] => p \in Cached(s)
  BY <1>1, EvictProperties, EvictLocks DEF Evictable
<1>3. C \in SUBSET Cached(t)
  BY DEF Covered
<1>4. /\ s.evictable_size_ = t.evictable_size_ - Cardinality(C)
      /\ s.protected_size_ = t.protected_size_
  <2>1. t \in [val : [Cached(t) -> Page], lock_ref : [Nodes(t) -> Int],
               evictable_size_ : Int, protected_size_ : Int]
    BY <1>1 DEF TreeOK, TreeType
  <2> HIDE DEF C
  <2>2. s = [t EXCEPT !.val = [p \in Cached(t) \ C |-> t.val[p]],
                      !.lock_ref = [n \in Nodes(t) \ E |-> t.lock_ref[n]],
                      !.evictable_size_ = @ - Cardinality(C)]
    BY DEF Evict, C
  <2>3. QED
    BY <2>1, <2>2
<1> HIDE DEF s, C
<1>5. Held(s, H, ln) = Held(t, H, ln)
  BY <1>2 DEF Held
<1>6. /\ Cardinality(Cached(s)) = Cardinality(Cached(t)) - Cardinality(C)
      /\ Cardinality(Cached(t)) \in Nat /\ Cardinality(C) \in Nat
  <2>1. IsFiniteSet(Cached(t))
    BY <1>1 DEF TreeOK
  <2>2. QED
    BY <1>2, <1>3, <2>1, CountDifference
<1>7. Sizes(s, H, ln)
  <2>1. t.evictable_size_ \in Int /\ t.protected_size_ \in Int
    BY <1>1, CountTypes
  <2>2. QED
    BY <1>1, <1>4, <1>5, <1>6, <2>1 DEF Sizes
<1>8. QED
  BY <1>2, <1>7 DEF Sound, s

---------------------------------------------------------------------------
(* Where the slots are                                                     *)

Values(t) == {t.val[p] : p \in Cached(t)}

(* no two positions of the tree share a slot *)
OneEach(t) == \A p, q \in Cached(t) : t.val[p] = t.val[q] => p = q

(* the slots of row v from position a to position b, and that they differ *)
Slots(v, a, b) == {v[i] : i \in a..b}

Distinct(v, a, b) == \A i, j \in a..b : v[i] = v[j] => i = j

(* The pool falls apart into the free slots F, the slots of tree t, the    *)
(* slots S of one request and the slots A of all the others.               *)
Apart(F, t, S, A) ==
  /\ F \cap Values(t) = {} /\ F \cap S = {} /\ F \cap A = {}
  /\ Values(t) \cap S = {} /\ Values(t) \cap A = {} /\ S \cap A = {}
  /\ Page = F \cup Values(t) \cup S \cup A
  /\ OneEach(t)

(* Only the slots of a tree matter. *)
LEMMA ApartVal ==
  ASSUME NEW F, NEW t, NEW S, NEW A, Apart(F, t, S, A), NEW s, s.val = t.val
  PROVE  Apart(F, s, S, A)
<1>1. Cached(s) = Cached(t)
  BY DEF Cached
<1>2. Values(s) = Values(t) /\ (OneEach(t) => OneEach(s))
  BY <1>1 DEF Values, OneEach
<1>3. QED
  BY <1>2 DEF Apart

(* alloc: slots of the free list become the request's *)
LEMMA ApartTake ==
  ASSUME NEW F, NEW t, NEW S, NEW A, Apart(F, t, S, A), NEW X \in SUBSET F
  PROVE  Apart(F \ X, t, S \cup X, A)
BY DEF Apart

(* free: the request gives up all its slots, none of which was free *)
LEMMA ApartGive ==
  ASSUME NEW F, NEW t, NEW S, NEW A, Apart(F, t, S, A)
  PROVE  Apart(F \cup S, t, {}, A) /\ F \cap S = {}
BY DEF Apart

(* evict: the slots of the removed nodes become free, and were not before *)
LEMMA ApartEvict ==
  ASSUME NEW F, NEW t, NEW S, NEW A, Apart(F, t, S, A), TreeOK(t),
         NEW E \in SUBSET Nodes(t), ClosedBelow(t, E)
  PROVE  /\ Apart(F \cup EvictedSlots(t, E), Evict(t, E), S, A)
         /\ F \cap EvictedSlots(t, E) = {}
<1> DEFINE s == Evict(t, E)
           X == EvictedSlots(t, E)
<1>1. /\ Cached(s) = Cached(t) \ Covered(t, E)
      /\ \A p \in Cached(s) : s.val[p] = t.val[p]
  BY EvictProperties
<1>2. Covered(t, E) \subseteq Cached(t)
  BY DEF Covered
<1>3. OneEach(t)
  BY DEF Apart
<1>4. X = {t.val[p] : p \in Covered(t, E)}
  BY DEF EvictedSlots
<1> HIDE DEF s, X
<1>5. Values(t) = Values(s) \cup X
  BY <1>1, <1>2, <1>4 DEF Values
<1>6. Values(s) \cap X = {}
  BY <1>1, <1>2, <1>3, <1>4 DEF Values, OneEach
<1>7. OneEach(s)
  BY <1>1, <1>3 DEF OneEach
<1>8. QED
  BY <1>5, <1>6, <1>7 DEF Apart, s, X

(* A row falls apart at two cuts. *)
LEMMA Slices ==
  ASSUME NEW v, NEW h \in Nat, NEW m \in Nat, NEW l \in Nat, NEW n \in Nat,
         h <= m, m <= l, l <= n, Distinct(v, h + 1, n)
  PROVE  /\ Slots(v, h + 1, n) = Slots(v, h + 1, m) \cup Slots(v, m + 1, l) \cup Slots(v, l + 1, n)
         /\ Slots(v, h + 1, m) \cap Slots(v, m + 1, l) = {}
         /\ Slots(v, h + 1, m) \cap Slots(v, l + 1, n) = {}
         /\ Slots(v, m + 1, l) \cap Slots(v, l + 1, n) = {}
         /\ Distinct(v, m + 1, l) /\ Distinct(v, l + 1, n)
<1>1. /\ (h + 1)..n = ((h + 1)..m) \cup ((m + 1)..l) \cup ((l + 1)..n)
      /\ ((h + 1)..m) \cap ((m + 1)..l) = {}
      /\ ((h + 1)..m) \cap ((l + 1)..n) = {}
      /\ ((m + 1)..l) \cap ((l + 1)..n) = {}
  OBVIOUS
<1> DEFINE I == (h + 1)..n
           I1 == (h + 1)..m
           I2 == (m + 1)..l
           I3 == (l + 1)..n
<1>2. /\ I = I1 \cup I2 \cup I3
      /\ I1 \cap I2 = {} /\ I1 \cap I3 = {} /\ I2 \cap I3 = {}
  BY <1>1
<1>3. /\ Slots(v, h + 1, n) = {v[i] : i \in I} /\ Slots(v, h + 1, m) = {v[i] : i \in I1}
      /\ Slots(v, m + 1, l) = {v[i] : i \in I2} /\ Slots(v, l + 1, n) = {v[i] : i \in I3}
      /\ \A i, j \in I : v[i] = v[j] => i = j
      /\ (\A i, j \in I2 : v[i] = v[j] => i = j) => Distinct(v, m + 1, l)
      /\ (\A i, j \in I3 : v[i] = v[j] => i = j) => Distinct(v, l + 1, n)
  BY DEF Slots, Distinct
<1> HIDE DEF I, I1, I2, I3
<1>4. /\ \A i, j \in I2 : v[i] = v[j] => i = j
      /\ \A i, j \in I3 : v[i] = v[j] => i = j
  BY <1>2, <1>3
<1>5. {v[i] : i \in I} = {v[i] : i \in I1} \cup {v[i] : i \in I2} \cup {v[i] : i \in I3}
  BY <1>2
<1>6. /\ {v[i] : i \in I1} \cap {v[i] : i \in I2} = {}
      /\ {v[i] : i \in I1} \cap {v[i] : i \in I3} = {}
      /\ {v[i] : i \in I2} \cap {v[i] : i \in I3} = {}
  BY <1>2, <1>3
<1>7. QED
  BY <1>3, <1>4, <1>5, <1>6

(* insert of key k with a row of n slots, of which the request shares the  *)
(* first h: the slots that the tree had already are freed, the tree takes  *)
(* the rest up to Len(k), and what is written beyond k stays the request's.*)
LEMMA ApartInsert ==
  ASSUME NEW t, TreeOK(t), NEW k \in Path, NEW v, SlotsFor(v, k),
         NEW h \in Nat, h <= MatchLen(t, k), NEW n \in Nat, Len(k) <= n,
         Distinct(v, h + 1, n),
         NEW F, NEW A, Apart(F, t, Slots(v, h + 1, n), A)
  PROVE  LET dup == Slots(v, h + 1, MatchLen(t, k))
         IN  /\ Apart(F \cup dup, Insert(t, k, v), Slots(v, Len(k) + 1, n), A)
             /\ F \cap dup = {}
             /\ Distinct(v, Len(k) + 1, n)
<1> DEFINE m == MatchLen(t, k)
           s == Insert(t, k, v)
           l == Len(k)
           D == Slots(v, h + 1, m)
           N == Slots(v, m + 1, l)
           R == Slots(v, l + 1, n)
<1>1. l \in Nat /\ m \in Nat /\ m <= l /\ m \in 0..l
  <2>1. Len(k) \in Nat /\ MatchLen(t, k) \in 0..Len(k)
    BY PathProperties, MatchLenProperties
  <2>2. QED
    BY <2>1
<1>2. /\ Slots(v, h + 1, n) = D \cup N \cup R
      /\ D \cap N = {} /\ D \cap R = {} /\ N \cap R = {}
      /\ Distinct(v, m + 1, l) /\ Distinct(v, l + 1, n)
  <2>1. h <= m /\ l <= n
    OBVIOUS
  <2> HIDE DEF m, l, D, N, R
  <2>2. /\ Slots(v, h + 1, n)
             = Slots(v, h + 1, m) \cup Slots(v, m + 1, l) \cup Slots(v, l + 1, n)
        /\ Slots(v, h + 1, m) \cap Slots(v, m + 1, l) = {}
        /\ Slots(v, h + 1, m) \cap Slots(v, l + 1, n) = {}
        /\ Slots(v, m + 1, l) \cap Slots(v, l + 1, n) = {}
        /\ Distinct(v, m + 1, l) /\ Distinct(v, l + 1, n)
    BY <1>1, <2>1, Slices, Zenon
  <2>3. QED
    BY <2>2 DEF D, N, R
<1>3. /\ Cached(s) = Cached(t) \cup {First(k, i) : i \in (m + 1)..l}
      /\ \A p \in Cached(t) : s.val[p] = t.val[p]
      /\ \A i \in (m + 1)..l : First(k, i) \notin Cached(t) /\ s.val[First(k, i)] = v[i]
  BY InsertProperties
<1>4. /\ OneEach(t) /\ Values(t) \cap (D \cup N \cup R) = {}
  BY <1>2 DEF Apart
<1>5. N = {v[i] : i \in (m + 1)..l}
  BY DEF Slots
<1>6. \A i, j \in (m + 1)..l : v[i] = v[j] => i = j
  BY <1>2 DEF Distinct
<1> HIDE DEF s, m, l, D, R, N
<1> DEFINE I == (m + 1)..l
<1> HIDE DEF I
<1>7. Values(s) = Values(t) \cup N
  BY <1>3, <1>5 DEF Values, I
<1>8. OneEach(s)
  <2>1. SUFFICES ASSUME NEW p \in Cached(s), NEW q \in Cached(s), s.val[p] = s.val[q]
                 PROVE  p = q
    BY DEF OneEach
  <2>2. \A x \in Cached(s) : \/ x \in Cached(t) /\ s.val[x] = t.val[x] /\ s.val[x] \in Values(t)
                            \/ \E i \in (m + 1)..l : x = First(k, i) /\ s.val[x] = v[i] /\ v[i] \in N
    BY <1>3, <1>5 DEF Values
  <2>3. Values(t) \cap N = {}
    BY <1>4
  <2>4. CASE p \in Cached(t) /\ q \in Cached(t)
    BY <1>3, <1>4, <2>1, <2>4 DEF OneEach
  <2>5. CASE s.val[p] \notin Values(t)
    <3>1. s.val[q] \notin Values(t)
      BY <2>1, <2>5
    <3>2. PICK i \in (m + 1)..l : p = First(k, i) /\ s.val[p] = v[i]
      BY <2>2, <2>5
    <3>3. PICK j \in (m + 1)..l : q = First(k, j) /\ s.val[q] = v[j]
      BY <2>2, <3>1
    <3>4. QED
      BY <1>6, <2>1, <3>2, <3>3
  <2>6. CASE s.val[p] \in Values(t)
    <3>1. s.val[q] \in Values(t) /\ s.val[p] \notin N /\ s.val[q] \notin N
      BY <2>1, <2>3, <2>6
    <3>2. p \in Cached(t) /\ q \in Cached(t)
      BY <2>2, <3>1
    <3>3. QED
      BY <2>4, <3>2
  <2>7. QED
    BY <2>5, <2>6
<1>9. Apart(F \cup D, s, R, A) /\ F \cap D = {}
  BY <1>2, <1>7, <1>8 DEF Apart
<1>10. QED
  BY <1>2, <1>9 DEF s, m, l, D, R

---------------------------------------------------------------------------
(* The inductive invariant                                                 *)

(* A request has a delayed slot only between its finish and the result of  *)
(* the forward that was in flight then.                                    *)
DelayedOK(r) == stage[r] # "finished" \/ results[r] = << >> => delayed[r] = {}

AInv ==
  /\ IInv /\ Sound(tree, Holders, last_node)
  /\ SlotOwnership
  /\ \A r \in Req : DelayedOK(r)

Others(r) == UNION {Own(q) : q \in Req \ {r}}

OwnRow(r) == Slots(row[r], Len(last_node[r]) + 1, Len(row[r]))

OwnDistinct(r) == Distinct(row[r], Len(last_node[r]) + 1, Len(row[r]))

(* what a step of request r does to the counters and to the slots *)
Accounted(r) ==
  /\ Sound(tree', Holders', last_node')
  /\ twice_freed' = {}
  /\ Apart(free_slots', tree', Own(r)', Others(r))
  /\ OwnDistinct(r)' /\ DelayedOK(r)'
  /\ \A q \in Req \ {r} : delayed'[q] = delayed[q]

(* The request that takes the next step, and all the others *)
LEMMA OwnershipApart ==
  ASSUME SlotOwnership, NEW r \in Req
  PROVE  /\ Apart(free_slots, tree, Own(r), Others(r))
         /\ OwnDistinct(r) /\ twice_freed = {}
<1>1. Values(tree) = TreeSlots /\ OneEach(tree)
  BY DEF SlotOwnership, Values, TreeSlots, OneEach
<1>2. UNION {Own(q) : q \in Req} = Own(r) \cup Others(r)
  BY DEF Others
<1>3. \A q \in Req \ {r} : Own(r) \cap Own(q) = {} /\ Own(q) \cap free_slots = {}
                           /\ Own(q) \cap TreeSlots = {}
  BY DEF SlotOwnership
<1>4. /\ Own(r) \cap Others(r) = {} /\ Others(r) \cap free_slots = {}
      /\ Others(r) \cap TreeSlots = {}
  BY <1>3 DEF Others
<1>5. /\ Own(r) \cap free_slots = {} /\ Own(r) \cap TreeSlots = {}
      /\ free_slots \cap TreeSlots = {}
      /\ Page = free_slots \cup TreeSlots \cup UNION {Own(q) : q \in Req}
      /\ twice_freed = {} /\ OwnDistinct(r)
  BY DEF SlotOwnership, OwnDistinct, Distinct
<1>6. Apart(free_slots, tree, Own(r), Others(r))
  BY <1>1, <1>2, <1>4, <1>5 DEF Apart
<1>7. QED
  BY <1>5, <1>6

LEMMA AccountedOwnership ==
  ASSUME SlotOwnership, NEW r \in Req, Alone(r), Accounted(r)
  PROVE  SlotOwnership'
<1>1. \A q \in Req \ {r} : Own(q)' = Own(q)
  BY DEF Alone, Accounted, Own
<1>2. /\ Apart(free_slots', tree', Own(r)', Others(r)) /\ OwnDistinct(r)'
      /\ twice_freed' = {}
  BY DEF Accounted
<1>3. Values(tree') = TreeSlots' /\ OneEach(tree')
  BY <1>2 DEF Apart, Values, TreeSlots
<1>4. \A q \in Req \ {r} : Own(q) \subseteq Others(r)
  BY DEF Others
<1>5. (UNION {Own(q) : q \in Req})' = Own(r)' \cup Others(r)
  BY <1>1 DEF Others
<1>6. /\ free_slots' \cap TreeSlots' = {} /\ free_slots' \cap Own(r)' = {}
      /\ free_slots' \cap Others(r) = {} /\ TreeSlots' \cap Own(r)' = {}
      /\ TreeSlots' \cap Others(r) = {} /\ Own(r)' \cap Others(r) = {}
      /\ Page = free_slots' \cup TreeSlots' \cup Own(r)' \cup Others(r)
  BY <1>2, <1>3 DEF Apart
<1>7. \A q \in Req : /\ Own(q)' \cap free_slots' = {}
                     /\ Own(q)' \cap TreeSlots' = {}
  BY <1>1, <1>4, <1>6
<1>8. \A x \in Req : \A q \in Req \ {x} : Own(x)' \cap Own(q)' = {}
  <2>1. SUFFICES ASSUME NEW x \in Req, NEW q \in Req \ {x}
                 PROVE  Own(x)' \cap Own(q)' = {}
    OBVIOUS
  <2>2. CASE x = r
    BY <1>1, <1>4, <1>6, <2>2
  <2>3. CASE q = r
    BY <1>1, <1>4, <1>6, <2>3
  <2>4. CASE x # r /\ q # r
    BY <1>1, <2>4 DEF SlotOwnership
  <2>5. QED
    BY <2>2, <2>3, <2>4
<1>9. \A q \in Req : OwnDistinct(q)'
  <2>1. \A q \in Req \ {r} : OwnDistinct(q)' <=> OwnDistinct(q)
    BY DEF Alone, OwnDistinct
  <2>2. \A q \in Req : OwnDistinct(q)
    BY OwnershipApart
  <2>3. QED
    BY <1>2, <2>1, <2>2
<1>10. QED
  BY <1>2, <1>3, <1>5, <1>6, <1>7, <1>8, <1>9
     DEF SlotOwnership, OneEach, OwnDistinct, Distinct

(* A step that is good for r, accounted for r, and leaves the others alone *)
LEMMA AccountedStep ==
  ASSUME AInv, NEW r \in Req, Good(r), Alone(r), Accounted(r)
  PROVE  AInv'
<1>1. IInv'
  BY GoodStep DEF AInv
<1>2. SlotOwnership'
  BY AccountedOwnership DEF AInv
<1>3. \A q \in Req : DelayedOK(q)'
  <2>1. \A q \in Req \ {r} : DelayedOK(q)'
    BY DEF AInv, DelayedOK, Alone, Accounted
  <2>2. QED
    BY <2>1 DEF Accounted
<1>4. QED
  BY <1>1, <1>2, <1>3 DEF AInv, Accounted

(* A holder owns the end of its row and nothing else. *)
LEMMA HolderOwns ==
  ASSUME AInv, NEW r \in Req, Holds(r)
  PROVE  /\ delayed[r] = {} /\ Own(r) = OwnRow(r)
         /\ Apart(free_slots, tree, OwnRow(r), Others(r))
         /\ OwnDistinct(r) /\ twice_freed = {}
<1>1. delayed[r] = {}
  BY DEF AInv, DelayedOK, Holds
<1>2. Own(r) = OwnRow(r)
  BY <1>1 DEF Own, OwnRow, Slots
<1>3. QED
  BY <1>1, <1>2, OwnershipApart DEF AInv

(* A request without a row owns at most its delayed slot. *)
LEMMA EmptyRow ==
  /\ Len(<< >>) = 0 /\ Len(Root) = 0
  /\ \A v : Slots(v, 0 + 1, 0) = {} /\ Distinct(v, 0 + 1, 0)
<1>1. Len(<< >>) = 0 /\ Len(Root) = 0
  BY RootProperties DEF Root
<1>2. (0 + 1)..0 = {}
  OBVIOUS
<1>3. QED
  BY <1>1, <1>2 DEF Slots, Distinct

LEMMA IdleOwns ==
  ASSUME AInv, NEW r \in Req, ~Holds(r)
  PROVE  /\ Own(r) = delayed[r]
         /\ Apart(free_slots, tree, delayed[r], Others(r)) /\ twice_freed = {}
<1>1. row[r] = << >> /\ last_node[r] = Root
  BY DEF AInv, IInv, Progress
<1>2. Own(r) = Slots(row[r], Len(last_node[r]) + 1, Len(row[r])) \cup delayed[r]
  BY DEF Own, Slots
<1>3. Own(r) = delayed[r]
  BY <1>1, <1>2, EmptyRow
<1>4. QED
  BY <1>3, OwnershipApart DEF AInv

LEMMA OwnNext ==
  ASSUME NEW r
  PROVE  /\ Own(r)' = Slots(row'[r], Len(last_node'[r]) + 1, Len(row'[r])) \cup delayed'[r]
         /\ OwnDistinct(r)' <=> Distinct(row'[r], Len(last_node'[r]) + 1, Len(row'[r]))
BY DEF Own, Slots, OwnDistinct

LEMMA IdleOwnsNext ==
  ASSUME NEW r, row'[r] = << >>, last_node'[r] = Root
  PROVE  Own(r)' = delayed'[r] /\ OwnDistinct(r)'
BY OwnNext, EmptyRow

---------------------------------------------------------------------------
(* One lemma per action                                                    *)

(* A step that moves no slot and no reference *)
LEMMA NothingMoves ==
  ASSUME AInv, NEW r \in Req, Holders' = Holders, DelayedOK(r)',
         UNCHANGED <<tree, free_slots, twice_freed, row, last_node, delayed>>
  PROVE  Accounted(r)
<1>1. Sound(tree', Holders', last_node')
  BY DEF AInv
<1>2. Own(r)' = Own(r) /\ (OwnDistinct(r) => OwnDistinct(r)')
  BY DEF Own, OwnDistinct
<1>3. QED
  BY <1>1, <1>2, OwnershipApart DEF AInv, Accounted

LEMMA ReceiveAccounts ==
  ASSUME AInv, NEW r \in Req, Receive(r)
  PROVE  Accounted(r)
<1>1. ReqTypes /\ DelayedOK(r)
  BY DEF AInv, IInv
<1>2. /\ stage[r] = "finished" /\ results[r] = << >>
      /\ stage' = [stage EXCEPT ![r] = "waiting"]
      /\ UNCHANGED <<tree, free_slots, twice_freed, row, last_node, results, delayed>>
  BY DEF Receive
<1>3. Holders' = Holders
  BY <1>1, <1>2 DEF ReqTypes, Holders, Holds
<1>4. DelayedOK(r)'
  BY <1>1, <1>2 DEF DelayedOK
<1>5. QED
  BY <1>2, <1>3, <1>4, NothingMoves

LEMMA ProcessChunkResultAccounts ==
  ASSUME AInv, NEW r \in Req, ProcessChunkResult(r)
  PROVE  Accounted(r)
<1>1. delayed[r] = {}
  BY HolderOwns DEF ProcessChunkResult
<1>2. UNCHANGED <<tree, free_slots, twice_freed, stage, row, last_node, delayed>>
  BY DEF ProcessChunkResult
<1>3. Holders' = Holders /\ DelayedOK(r)'
  BY <1>1, <1>2 DEF Holders, Holds, DelayedOK
<1>4. QED
  BY <1>2, <1>3, NothingMoves

LEMMA SkipRetractedAccounts ==
  ASSUME AInv, NEW r \in Req, SkipRetracted(r)
  PROVE  Accounted(r)
<1>1. delayed[r] = {}
  BY DEF AInv, DelayedOK, SkipRetracted
<1>2. UNCHANGED <<tree, free_slots, twice_freed, stage, row, last_node, delayed>>
  BY DEF SkipRetracted
<1>3. Holders' = Holders /\ DelayedOK(r)'
  BY <1>1, <1>2 DEF Holders, Holds, DelayedOK
<1>4. QED
  BY <1>2, <1>3, NothingMoves

LEMMA ComputePrefixMatchAccounts ==
  ASSUME AInv, NEW r \in Req, ComputePrefixMatch(r)
  PROVE  Accounted(r)
<1> DEFINE k == First(ids[r], Len(ids[r]) - 1)
<1>1. /\ ReqTypes /\ Progress(r) /\ TreeOK(tree) /\ Sound(tree, Holders, last_node)
      /\ DelayedOK(r)
  BY DEF AInv, IInv
<1>2. /\ stage[r] = "waiting" /\ tree' = MatchPrefix(tree, k)
      /\ UNCHANGED <<free_slots, twice_freed, stage, row, last_node, results, delayed>>
  BY DEF ComputePrefixMatch, reqVars
<1>3. k \in Path
  <2>1. ids[r] \in Path /\ Len(ids[r]) \in Nat /\ Len(ids[r]) > 0
    BY <1>1, <1>2, PathProperties DEF ReqTypes, Progress
  <2>2. Len(ids[r]) - 1 \in 0..Len(ids[r])
    BY <2>1
  <2>3. QED
    BY <2>1, <2>2, FirstProperties
<1> HIDE DEF k
<1>4. Sound(tree', Holders, last_node) /\ tree'.val = tree.val
  BY <1>1, <1>2, <1>3, MatchPrefixSound, MatchPrefixProperties
<1>5. Holders' = Holders /\ DelayedOK(r)'
  BY <1>1, <1>2 DEF Holders, Holds, DelayedOK
<1>6. Own(r)' = Own(r) /\ (OwnDistinct(r) => OwnDistinct(r)')
  BY <1>2 DEF Own, OwnDistinct
<1>7. /\ Apart(free_slots, tree, Own(r), Others(r)) /\ OwnDistinct(r) /\ twice_freed = {}
  BY OwnershipApart DEF AInv
<1>8. Apart(free_slots, tree', Own(r), Others(r))
  BY <1>4, <1>7, ApartVal
<1>9. QED
  BY <1>2, <1>4, <1>5, <1>6, <1>7, <1>8 DEF Accounted

(* row v has f slots, and those beyond the first m are the slots of X *)
NewPart(v, m, f, X) == Slots(v, m + 1, f) = X /\ Distinct(v, m + 1, f) /\ Len(v) = f

(* The new part of a row is what alloc handed out. *)
LEMMA RowOfSlots ==
  ASSUME NEW t, NEW k, NEW m \in Nat, NEW n \in Nat, NEW f, f = m + n,
         NEW F, NEW a \in Allocations(F, n)
  PROVE  NewPart(RowOf(t, k, m, a, n), m, f, SlotsOf(a, n)) /\ SlotsOf(a, n) \in SUBSET F
<1> DEFINE R == RowOf(t, k, m, a, n)
<1>1. a \in [1..n -> F] /\ \A i, j \in 1..n : a[i] = a[j] => i = j
  BY DEF Allocations
<1>2. m + n = f /\ f \in Nat
  OBVIOUS
<1>3. R = [i \in 1..f |-> IF i <= m THEN t.val[First(k, i)] ELSE a[i - m]]
  BY <1>2 DEF RowOf
<1>4. \A i \in (m + 1)..f : i - m \in 1..n /\ R[i] = a[i - m]
  BY <1>2, <1>3
<1>5. \A j \in 1..n : m + j \in (m + 1)..f /\ (m + j) - m = j
  BY <1>2
<1>6. Len(R) = f
  BY <1>3
<1> HIDE DEF R
<1>7. Slots(R, m + 1, f) \subseteq SlotsOf(a, n)
  BY <1>4 DEF Slots, SlotsOf
<1>8. SlotsOf(a, n) \subseteq Slots(R, m + 1, f)
  <2>1. \A j \in 1..n : R[m + j] = a[j]
    BY <1>4, <1>5
  <2>2. QED
    BY <1>5, <2>1 DEF Slots, SlotsOf
<1>9. Distinct(R, m + 1, f)
  <2>1. SUFFICES ASSUME NEW i \in (m + 1)..f, NEW j \in (m + 1)..f, R[i] = R[j]
                 PROVE  i = j
    BY DEF Distinct
  <2>2. i - m = j - m
    BY <1>1, <1>4, <2>1
  <2>3. QED
    BY <2>2
<1>10. SlotsOf(a, n) \in SUBSET F
  BY <1>1 DEF SlotsOf
<1>11. QED
  BY <1>6, <1>7, <1>8, <1>9, <1>10 DEF R, NewPart

(* alloc_token_slots: evict if the free list is too short, then alloc. *)
LEMMA ApartAlloc ==
  ASSUME NEW F, NEW t, NEW A, Apart(F, t, {}, A), TreeOK(t),
         NEW E \in SUBSET Nodes(t), Evictable(t, E),
         NEW X \in SUBSET FreeSlots(F, EvictedSlots(t, E))
  PROVE  /\ Apart(FreeSlots(F, EvictedSlots(t, E)) \ X, Evict(t, E), X, A)
         /\ F \cap EvictedSlots(t, E) = {}
<1> DEFINE G == FreeSlots(F, EvictedSlots(t, E))
<1>1. Apart(G, Evict(t, E), {}, A) /\ F \cap EvictedSlots(t, E) = {}
  BY ApartEvict DEF Evictable, FreeSlots
<1> HIDE DEF G
<1>2. Apart(G \ X, Evict(t, E), {} \cup X, A)
  BY <1>1, ApartTake DEF G
<1>3. {} \cup X = X
  OBVIOUS
<1>4. QED
  BY <1>1, <1>2, <1>3 DEF G

(* What alloc_token_slots evicts is evictable. *)
LEMMA ShortEvictable ==
  ASSUME NEW t, NEW free, NEW num, NEW E \in SUBSET Nodes(t),
         EvictIfShort(t, free, num, E)
  PROVE  Evictable(t, E)
BY DEF EvictIfShort, Evictions, Evictable, ClosedBelow

LEMMA AdmitAccounts ==
  ASSUME AInv, NEW r \in Req, Admit(r)
  PROVE  Accounted(r)
<1> DEFINE k == First(ids[r], Len(ids[r]) - 1)
           m == MatchLen(tree, k)
           n == First(k, m)
           u == MatchPrefix(tree, k)
           t == IncLockRef(u, n)
<1>1. /\ ReqTypes /\ Progress(r) /\ TreeOK(tree) /\ Sound(tree, Holders, last_node)
  BY DEF AInv, IInv
<1>2. PICK f \in (m + 1)..Len(ids[r]), E \in SUBSET Nodes(t) :
        /\ EvictIfShort(t, free_slots, f - m, E)
        /\ LET free == FreeSlots(free_slots, EvictedSlots(t, E))
           IN  /\ \E a \in Allocations(free, f - m) :
                    /\ free_slots' = free \ SlotsOf(a, f - m)
                    /\ row' = [row EXCEPT ![r] = RowOf(t, k, m, a, f - m)]
               /\ twice_freed' = twice_freed \cup (free_slots \cap EvictedSlots(t, E))
        /\ tree' = Evict(t, E)
        /\ last_node' = [last_node EXCEPT ![r] = n]
        /\ Launch(r, f)
        /\ UNCHANGED <<ids, delayed>>
  BY DEF Admit
<1>3. /\ stage[r] = "waiting" /\ ~Holds(r) /\ delayed[r] = {}
      /\ r \notin Holders /\ IsFiniteSet(Holders)
  BY HoldersFinite DEF Admit, Holds, Holders, AInv, DelayedOK
<1>4. k \in Path /\ Len(ids[r]) \in Nat
  <2>1. ids[r] \in Path /\ Len(ids[r]) \in Nat /\ Len(ids[r]) > 0
    BY <1>1, <1>3, PathProperties DEF ReqTypes, Progress
  <2>2. Len(ids[r]) - 1 \in 0..Len(ids[r])
    BY <2>1
  <2>3. QED
    BY <2>1, <2>2, FirstProperties
<1> HIDE DEF k
<1>5. /\ m \in Nat /\ Len(n) = m
      /\ u.val = tree.val /\ n \in Nodes(u) \cup {Root} /\ n \in Path /\ TreeOK(u)
      /\ Sound(u, Holders, last_node)
  <2>1. m \in 0..Len(k) /\ Len(k) \in Nat
    BY <1>4, MatchLenProperties, PathProperties
  <2>2. n = Matched(tree, k)
    BY DEF Matched
  <2> HIDE DEF n, m, u
  <2>3. m \in Nat /\ n \in Path /\ Len(n) = m
    BY <1>1, <1>4, <2>1, <2>2, MatchedProperties DEF m
  <2>4. u.val = tree.val /\ n \in Nodes(u) \cup {Root} /\ TreeOK(u)
    BY <1>1, <1>4, <2>2, MatchPrefixProperties DEF u
  <2>5. Sound(u, Holders, last_node)
    BY <1>1, <1>4, MatchPrefixSound DEF u
  <2>6. QED
    BY <2>3, <2>4, <2>5
<1> HIDE DEF m, n, u
<1>6. /\ last_node'[r] = n /\ \A q \in Holders : last_node'[q] = last_node[q]
  BY <1>1, <1>2, <1>3 DEF ReqTypes, Holders
<1>7. TreeOK(t) /\ t.val = tree.val /\ Sound(t, Holders \cup {r}, last_node')
  <2>1. TreeOK(t) /\ t.val = u.val
    BY <1>5, LockRefProperties
  <2>2. Sound(t, Holders \cup {r}, last_node')
    BY <1>3, <1>5, <1>6, IncSound
  <2>3. QED
    BY <1>5, <2>1, <2>2
<1> HIDE DEF t
<1>8. Evictable(t, E)
  BY <1>2, ShortEvictable
<1>9. Sound(tree', Holders \cup {r}, last_node')
  <2>1. IsFiniteSet(Holders \cup {r})
    BY <1>3, FS_AddElement
  <2>2. QED
    BY <1>2, <1>7, <1>8, <2>1, EvictSound
<1>10. Holders' = Holders \cup {r}
  BY <1>1, <1>2 DEF Launch, Holders, Holds, ReqTypes
<1> DEFINE free == FreeSlots(free_slots, EvictedSlots(t, E))
<1>11. PICK a \in Allocations(free, f - m) :
         /\ free_slots' = free \ SlotsOf(a, f - m)
         /\ row' = [row EXCEPT ![r] = RowOf(t, k, m, a, f - m)]
  BY <1>2
<1> DEFINE l == f - m
<1>12. l \in Nat /\ f = m + l
  BY <1>2, <1>4, <1>5
<1>13. /\ Own(r)' = SlotsOf(a, f - m) /\ OwnDistinct(r)' /\ delayed' = delayed
       /\ SlotsOf(a, f - m) \in SUBSET free
  <2>1. row'[r] = RowOf(t, k, m, a, f - m) /\ delayed' = delayed
    BY <1>1, <1>2, <1>11 DEF ReqTypes
  <2>2. Len(last_node'[r]) = m /\ delayed'[r] = {}
    BY <1>3, <1>5, <1>6, <2>1
  <2> HIDE DEF free
  <2>3. m \in Nat /\ l \in Nat /\ f = m + l /\ a \in Allocations(free, l)
    BY <1>5, <1>11, <1>12
  <2> HIDE DEF l
  <2>4. NewPart(RowOf(t, k, m, a, l), m, f, SlotsOf(a, l)) /\ SlotsOf(a, l) \in SUBSET free
    BY <2>3, RowOfSlots
  <2>5. QED
    BY <2>1, <2>2, <2>4, OwnNext DEF l, NewPart
<1> DEFINE X == SlotsOf(a, f - m)
<1>14. /\ Apart(free \ X, tree', X, Others(r))
       /\ free_slots \cap EvictedSlots(t, E) = {} /\ twice_freed = {}
  <2>1. Apart(free_slots, t, {}, Others(r)) /\ twice_freed = {}
    BY <1>3, <1>7, IdleOwns, ApartVal
  <2> HIDE DEF X
  <2>2. X \in SUBSET FreeSlots(free_slots, EvictedSlots(t, E))
    BY <1>13 DEF X
  <2>3. QED
    BY <1>2, <1>7, <1>8, <2>1, <2>2, ApartAlloc
<1>15. DelayedOK(r)'
  BY <1>3, <1>13 DEF DelayedOK
<1>16. QED
  BY <1>2, <1>9, <1>10, <1>11, <1>13, <1>14, <1>15 DEF Accounted

(* The part of k that the tree has is at least what a holder on the way to *)
(* k shares.                                                               *)
LEMMA SharedIsMatched ==
  ASSUME NEW t, TreeOK(t), NEW k \in Path, NEW n \in Nodes(t) \cup {Root}, n \preceq k
  PROVE  Len(n) <= MatchLen(t, k) /\ Len(n) \in Nat
<1>1. n \in Path
  BY PositionsArePaths, RootProperties
<1>2. /\ Len(n) \in 0..Len(k) /\ n = First(k, Len(n)) /\ Len(k) \in Nat /\ Len(n) \in Nat
      /\ MatchLen(t, k) \in 0..Len(k)
  BY <1>1, PathProperties, PrefixIsFirst, MatchLenProperties
<1>3. CASE n = Root
  BY <1>2, <1>3, RootProperties
<1>4. CASE n # Root
  <2>1. First(k, Len(n)) \in Cached(t) /\ Len(n) # 0
    BY <1>1, <1>2, <1>4, PositionsArePaths, RootProperties
  <2>2. Len(n) \in 1..Len(k)
    BY <1>2, <2>1
  <2>3. QED
    BY <1>2, <2>1, <2>2, MatchLenProperties
<1>5. QED
  BY <1>3, <1>4

(* cache_finished_req and cache_unfinished_req up to the references: insert*)
(* and free the duplicates.                                                *)
LEMMA CacheRow ==
  ASSUME AInv, NEW r \in Req, Holds(r), NEW k \in Path, k \preceq ids[r],
         Len(last_node[r]) <= Len(k), Len(k) <= Len(row[r])
  PROVE  LET t == Insert(tree, k, row[r])
         IN  /\ SlotsFor(row[r], k) /\ TreeOK(t)
             /\ Sound(t, Holders, last_node)
             /\ k \in Nodes(t) \cup {Root}
             /\ Apart(FreeSlots(free_slots, Duplicates(r, k)), t,
                      Slots(row[r], Len(k) + 1, Len(row[r])), Others(r))
             /\ Distinct(row[r], Len(k) + 1, Len(row[r]))
             /\ free_slots \cap Duplicates(r, k) = {} /\ twice_freed = {}
<1> DEFINE v == row[r]
           n == Len(row[r])
           h == Len(last_node[r])
           m == MatchLen(tree, k)
<1>1. /\ TreeOK(tree) /\ Sound(tree, Holders, last_node) /\ Locks(tree, Holders, last_node)
      /\ ids[r] \in Path /\ last_node[r] \in Path /\ row[r] \in Seq(Page)
      /\ last_node[r] \preceq ids[r] /\ r \in Holders
  BY DEF AInv, IInv, ReqTypes, Follows, Holders
<1>2. /\ Len(k) \in Nat /\ n \in Nat /\ Len(k) <= n /\ \A i \in 1..n : v[i] \in Page
  BY <1>1, PathProperties, RowElements
<1>3. SlotsFor(v, k)
  BY <1>2 DEF SlotsFor
<1>4. last_node[r] \preceq k /\ last_node[r] \in Nodes(tree) \cup {Root}
  BY <1>1, PrefixesInLine DEF Locks
<1>5. h <= m /\ h \in Nat
  BY <1>1, <1>4, SharedIsMatched
<1>6. /\ Apart(free_slots, tree, Slots(v, h + 1, n), Others(r)) /\ Distinct(v, h + 1, n)
      /\ twice_freed = {}
  BY HolderOwns DEF OwnRow, OwnDistinct
<1>7. Duplicates(r, k) = Slots(v, h + 1, m)
  BY DEF Duplicates, Slots
<1>8. /\ Apart(free_slots \cup Slots(v, h + 1, m), Insert(tree, k, v), Slots(v, Len(k) + 1, n),
               Others(r))
      /\ free_slots \cap Slots(v, h + 1, m) = {}
      /\ Distinct(v, Len(k) + 1, n)
  <2> HIDE DEF v, n, h
  <2> QED
    BY <1>1, <1>2, <1>3, <1>5, <1>6, ApartInsert
<1>9. TreeOK(Insert(tree, k, v)) /\ k \in Nodes(Insert(tree, k, v)) \cup {Root}
  BY <1>1, <1>3, InsertProperties
<1>10. Sound(Insert(tree, k, v), Holders, last_node)
  BY <1>1, <1>3, InsertSound
<1>11. QED
  BY <1>3, <1>6, <1>7, <1>8, <1>9, <1>10 DEF FreeSlots

(* cache_unfinished_req: the reference moves to k. *)
LEMMA MoveSound ==
  ASSUME NEW u, NEW H, IsFiniteSet(H), NEW ln, Sound(u, H, ln), NEW r \in H,
         NEW k \in Nodes(u) \cup {Root}, k \in Path,
         NEW ln2, ln2[r] = k, \A q \in H \ {r} : ln2[q] = ln[q]
  PROVE  LET s == IncLockRef(DecLockRef(MatchPrefix(u, k), ln[r]), k)
         IN  TreeOK(s) /\ Sound(s, H, ln2) /\ s.val = u.val
<1> DEFINE w == MatchPrefix(u, k)
           d == DecLockRef(w, ln[r])
           s == IncLockRef(d, k)
<1>1. TreeOK(u)
  BY DEF Sound
<1>2. /\ TreeOK(w) /\ w.val = u.val /\ Nodes(u) \subseteq Nodes(w) /\ Sound(w, H, ln)
  BY <1>1, MatchPrefixProperties, MatchPrefixSound
<1> HIDE DEF w
<1>3. ln[r] \in Path
  BY <1>2, PositionsArePaths, RootProperties DEF Sound, Locks
<1>4. TreeOK(d) /\ d.val = w.val /\ Nodes(d) = Nodes(w) /\ Sound(d, H \ {r}, ln)
  BY <1>2, <1>3, LockRefProperties, DecSound
<1> HIDE DEF d
<1>5. TreeOK(s) /\ s.val = d.val
  BY <1>4, LockRefProperties
<1>6. Sound(s, H, ln2)
  <2>1. IsFiniteSet(H \ {r}) /\ r \notin H \ {r} /\ (H \ {r}) \cup {r} = H
    BY FS_RemoveElement
  <2>2. k \in Nodes(d) \cup {Root}
    BY <1>2, <1>4
  <2>3. Sound(s, (H \ {r}) \cup {r}, ln2)
    BY <1>4, <2>1, <2>2, IncSound
  <2>4. QED
    BY <2>1, <2>3
<1>7. QED
  BY <1>2, <1>4, <1>5, <1>6 DEF w, d

LEMMA NextChunkAccounts ==
  ASSUME AInv, NEW r \in Req, NextChunk(r)
  PROVE  Accounted(r)
<1> DEFINE k == First(ids[r], fill_len[r])
           c == CacheUnfinishedReq(r, k)
           t == c.tree
           m == Len(k)
           u == Insert(tree, k, row[r])
<1>1. ReqTypes /\ Progress(r)
  BY DEF AInv, IInv
<1>2. PICK f \in (m + 1)..Len(ids[r]), E \in SUBSET Nodes(t) :
        /\ EvictIfShort(t, FreeSlots(free_slots, c.dup), f - m, E)
        /\ LET free == FreeSlots(FreeSlots(free_slots, c.dup), EvictedSlots(t, E))
           IN  /\ \E a \in Allocations(free, f - m) :
                    /\ free_slots' = free \ SlotsOf(a, f - m)
                    /\ row' = [row EXCEPT ![r] = RowOf(t, k, m, a, f - m)]
               /\ twice_freed' = twice_freed \cup (free_slots \cap c.dup)
                    \cup (FreeSlots(free_slots, c.dup) \cap EvictedSlots(t, E))
        /\ tree' = Evict(t, E)
        /\ last_node' = [last_node EXCEPT ![r] = k]
        /\ Launch(r, f)
        /\ UNCHANGED <<ids, delayed>>
  BY DEF NextChunk
<1>3. stage[r] = "chunked" /\ Holds(r) /\ r \in Holders /\ IsFiniteSet(Holders)
  BY HoldersFinite DEF NextChunk, Holds, Holders
<1>4. /\ k \in Path /\ k \preceq ids[r] /\ Len(last_node[r]) <= m /\ m = Len(row[r])
      /\ m \in Nat /\ Len(ids[r]) \in Nat
  <2>1. /\ ids[r] \in Path /\ fill_len[r] \in Nat
        /\ Len(row[r]) = fill_len[r] /\ fill_len[r] < Len(ids[r])
        /\ Len(last_node[r]) <= Len(row[r])
    BY <1>1, <1>3 DEF ReqTypes, Progress
  <2>2. Len(ids[r]) \in Nat
    BY <2>1, PathProperties
  <2>3. fill_len[r] \in 0..Len(ids[r]) /\ Len(ids[r]) \in fill_len[r]..Len(ids[r])
    BY <2>1, <2>2
  <2>4. k \in Path /\ Len(k) = fill_len[r] /\ k \preceq ids[r]
    BY <2>1, <2>3, FirstProperties, FirstIsPrefix
  <2>5. QED
    BY <2>1, <2>2, <2>4
<1> HIDE DEF k
<1>5. /\ Sound(u, Holders, last_node) /\ k \in Nodes(u) \cup {Root}
      /\ Apart(FreeSlots(free_slots, Duplicates(r, k)), u,
               Slots(row[r], m + 1, Len(row[r])), Others(r))
      /\ free_slots \cap Duplicates(r, k) = {} /\ twice_freed = {}
  <2>1. Len(k) <= Len(row[r])
    BY <1>4
  <2>2. QED
    BY <1>3, <1>4, <2>1, CacheRow
<1>6. Slots(row[r], m + 1, Len(row[r])) = {}
  <2>1. (m + 1)..m = {}
    BY <1>4
  <2>2. QED
    BY <1>4, <2>1 DEF Slots
<1>7. /\ t = IncLockRef(DecLockRef(MatchPrefix(u, k), last_node[r]), k)
      /\ c.dup = Duplicates(r, k)
  BY DEF CacheUnfinishedReq
<1> HIDE DEF c, t, u, m
<1>8. /\ last_node'[r] = k /\ \A q \in Holders \ {r} : last_node'[q] = last_node[q]
  BY <1>1, <1>2 DEF ReqTypes, Holders
<1>9. TreeOK(t) /\ Sound(t, Holders, last_node') /\ t.val = u.val
  BY <1>3, <1>4, <1>5, <1>7, <1>8, MoveSound
<1>10. Evictable(t, E)
  BY <1>2, ShortEvictable
<1>11. Sound(tree', Holders, last_node')
  BY <1>2, <1>3, <1>9, <1>10, EvictSound
<1>12. Holders' = Holders
  BY <1>1, <1>2, <1>3 DEF Launch, Holders, Holds, ReqTypes
<1> DEFINE F == FreeSlots(free_slots, c.dup)
           free == FreeSlots(F, EvictedSlots(t, E))
           l == f - m
<1>13. PICK a \in Allocations(free, f - m) :
         /\ free_slots' = free \ SlotsOf(a, f - m)
         /\ row' = [row EXCEPT ![r] = RowOf(t, k, m, a, f - m)]
  BY <1>2
<1>14. m \in Nat /\ l \in Nat /\ f = m + l /\ a \in Allocations(free, l)
  <2>1. l \in Nat /\ f = m + l
    BY <1>2, <1>4
  <2>2. QED
    BY <1>4, <1>13, <2>1
<1>15. /\ Own(r)' = SlotsOf(a, l) /\ OwnDistinct(r)' /\ delayed' = delayed
       /\ SlotsOf(a, l) \in SUBSET free /\ delayed[r] = {}
  <2>1. row'[r] = RowOf(t, k, m, a, l) /\ delayed' = delayed
    BY <1>1, <1>2, <1>13 DEF ReqTypes
  <2>2. Len(last_node'[r]) = m /\ delayed[r] = {}
    BY <1>3, <1>8, HolderOwns DEF m
  <2> HIDE DEF free, l
  <2>3. NewPart(RowOf(t, k, m, a, l), m, f, SlotsOf(a, l)) /\ SlotsOf(a, l) \in SUBSET free
    BY <1>14, RowOfSlots
  <2>4. QED
    BY <2>1, <2>2, <2>3, OwnNext DEF NewPart
<1> DEFINE X == SlotsOf(a, l)
<1>16. /\ Apart(free \ X, tree', X, Others(r)) /\ F \cap EvictedSlots(t, E) = {}
  <2>1. Apart(F, u, {}, Others(r))
    BY <1>5, <1>6, <1>7
  <2> HIDE DEF X, F
  <2>2. Apart(F, t, {}, Others(r))
    BY <1>9, <2>1, ApartVal
  <2>3. X \in SUBSET FreeSlots(F, EvictedSlots(t, E))
    BY <1>15 DEF X
  <2>4. QED
    BY <1>2, <1>9, <1>10, <2>2, <2>3, ApartAlloc
<1>17. DelayedOK(r)'
  BY <1>15 DEF DelayedOK
<1>18. twice_freed' = {}
  BY <1>2, <1>5, <1>7, <1>16
<1>19. free_slots' = free \ X
  BY <1>13
<1> HIDE DEF free, X, F, l
<1>20. QED
  BY <1>11, <1>12, <1>15, <1>16, <1>17, <1>18, <1>19 DEF Accounted, X

LEMMA LaunchDecodeAccounts ==
  ASSUME AInv, NEW r \in Req, LaunchDecode(r)
  PROVE  Accounted(r)
<1>1. ReqTypes /\ Progress(r) /\ TreeOK(tree) /\ Sound(tree, Holders, last_node)
  BY DEF AInv, IInv
<1>2. PICK E \in SUBSET Nodes(tree) :
        /\ EvictIfShort(tree, free_slots, 1, E)
        /\ LET free == FreeSlots(free_slots, EvictedSlots(tree, E))
           IN  \E s \in free : /\ free_slots' = free \ {s}
                               /\ row' = [row EXCEPT ![r] = Append(@, s)]
        /\ twice_freed' = twice_freed \cup (free_slots \cap EvictedSlots(tree, E))
        /\ tree' = Evict(tree, E)
  BY DEF LaunchDecode
<1>3. stage[r] = "running" /\ Holds(r) /\ UNCHANGED <<stage, last_node, delayed>>
  BY DEF LaunchDecode, Holds
<1>4. Evictable(tree, E)
  BY <1>2, ShortEvictable
<1>5. Sound(tree', Holders, last_node)
  BY <1>1, <1>2, <1>4, HoldersFinite, EvictSound
<1>6. Holders' = Holders
  BY <1>3 DEF Holders, Holds
<1> DEFINE free == FreeSlots(free_slots, EvictedSlots(tree, E))
<1>7. PICK s \in free : free_slots' = free \ {s} /\ row' = [row EXCEPT ![r] = Append(@, s)]
  BY <1>2
<1>8. /\ delayed[r] = {} /\ Apart(free_slots, tree, OwnRow(r), Others(r))
      /\ OwnDistinct(r) /\ twice_freed = {}
  BY <1>3, HolderOwns
<1>9. /\ Apart(free, tree', OwnRow(r), Others(r))
      /\ free_slots \cap EvictedSlots(tree, E) = {}
  BY <1>1, <1>2, <1>4, <1>8, ApartEvict DEF Evictable, FreeSlots
<1> HIDE DEF free
<1>10. Apart(free \ {s}, tree', OwnRow(r) \cup {s}, Others(r)) /\ s \notin OwnRow(r)
  <2>1. {s} \in SUBSET free
    BY <1>7
  <2>2. Apart(free \ {s}, tree', OwnRow(r) \cup {s}, Others(r))
    BY <1>9, <2>1, ApartTake
  <2>3. s \notin OwnRow(r)
    BY <1>7, <1>9 DEF Apart
  <2>4. QED
    BY <2>2, <2>3
<1>11. /\ Own(r)' = OwnRow(r) \cup {s} /\ OwnDistinct(r)'
  <2> DEFINE v == row[r]
             w == row'[r]
             h == Len(last_node[r])
             n == Len(row[r])
  <2>1. h \in Nat /\ h <= n /\ v \in Seq(Page) /\ n \in Nat /\ last_node'[r] = last_node[r]
    BY <1>1, <1>3, PathProperties DEF ReqTypes, Progress
  <2>2. w = Append(v, s)
    BY <1>1, <1>7 DEF ReqTypes
  <2>3. s \in Page
    BY <1>7, <1>9 DEF Apart
  <2>4. Len(w) = n + 1 /\ w[n + 1] = s /\ \A i \in 1..n : w[i] = v[i]
    <3> HIDE DEF w, v
    <3> QED
      BY <2>1, <2>2, <2>3, AppendProperties DEF v
  <2>5. /\ Own(r)' = Slots(w, h + 1, n + 1)
        /\ OwnDistinct(r)' <=> Distinct(w, h + 1, n + 1)
    BY <1>3, <1>8, <2>1, <2>4, OwnNext
  <2>6. OwnRow(r) = Slots(v, h + 1, n) /\ Distinct(v, h + 1, n)
    BY <1>8 DEF OwnRow, OwnDistinct
  <2> HIDE DEF v, w, h, n
  <2>7. (h + 1)..(n + 1) = ((h + 1)..n) \cup {n + 1} /\ \A i \in (h + 1)..n : w[i] = v[i]
    BY <2>1, <2>4
  <2>8. Slots(w, h + 1, n + 1) = Slots(v, h + 1, n) \cup {s}
    BY <2>4, <2>7 DEF Slots
  <2>9. Distinct(w, h + 1, n + 1)
    <3>1. \A i \in (h + 1)..n : v[i] # s
      BY <1>10, <2>6 DEF Slots
    <3>2. QED
      BY <2>4, <2>6, <2>7, <3>1 DEF Distinct
  <2>10. QED
    BY <2>5, <2>6, <2>8, <2>9
<1>12. DelayedOK(r)'
  BY <1>3, <1>8 DEF DelayedOK
<1>13. QED
  BY <1>2, <1>3, <1>5, <1>6, <1>7, <1>8, <1>9, <1>10, <1>11, <1>12 DEF Accounted

LEMMA FinishAccounts ==
  ASSUME AInv, NEW r \in Req, stage[r] = "running", results[r] # << >>,
         Head(results[r]) # "chunk", PopResult(r), Finish(r)
  PROVE  Accounted(r)
<1> DEFINE k == ids[r]
           u == Insert(tree, k, row[r])
           own == {row[r][i] : i \in (Len(k) + 1)..Len(row[r])}
<1>1. ReqTypes /\ Progress(r) /\ IInv
  BY DEF AInv, IInv
<1>2. /\ k \in Path /\ Len(k) \in Nat /\ Len(row[r]) \in Nat /\ Len(k) <= Len(row[r])
      /\ results' = [results EXCEPT ![r] = Tail(results[r])]
      /\ Tail(results[r]) \in Seq(Kind)
      /\ \/ Len(Tail(results[r])) = 0 /\ Len(row[r]) = Len(k)
         \/ Len(Tail(results[r])) = 1
  BY <1>1, TokenResult
<1>3. /\ tree' = DecLockRef(u, last_node[r])
      /\ free_slots' = FreeSlots(free_slots, Duplicates(r, k))
      /\ twice_freed' = twice_freed \cup (free_slots \cap Duplicates(r, k))
      /\ stage' = [stage EXCEPT ![r] = "finished"]
      /\ delayed' = [delayed EXCEPT ![r] = own]
      /\ row' = [row EXCEPT ![r] = << >>]
      /\ last_node' = [last_node EXCEPT ![r] = Root]
  BY DEF Finish, CacheFinishedReq
<1>4. Holds(r) /\ r \in Holders /\ IsFiniteSet(Holders)
  BY HoldersFinite DEF Holds, Holders
<1>5. own = Slots(row[r], Len(k) + 1, Len(row[r]))
  BY DEF Slots
<1>6. k \preceq ids[r] /\ Len(last_node[r]) <= Len(k) /\ last_node[r] \in Path
  <2>1. last_node[r] \preceq ids[r] /\ last_node[r] \in Path
    BY <1>1, <1>4 DEF IInv, Follows, ReqTypes
  <2>2. QED
    BY <1>2, <2>1, PrefixReflexive DEF \preceq
<1> HIDE DEF own
<1>7. /\ Sound(u, Holders, last_node) /\ TreeOK(u)
      /\ Apart(FreeSlots(free_slots, Duplicates(r, k)), u, own, Others(r))
      /\ free_slots \cap Duplicates(r, k) = {} /\ twice_freed = {}
  <2> HIDE DEF k
  <2> QED
    BY <1>2, <1>4, <1>5, <1>6, CacheRow
<1> HIDE DEF k, u
<1>8. Sound(tree', Holders \ {r}, last_node) /\ tree'.val = u.val
  BY <1>3, <1>4, <1>6, <1>7, DecSound, LockRefProperties
<1>9. Holders' = Holders \ {r}
  BY <1>1, <1>3 DEF Holders, Holds, ReqTypes
<1>10. \A q \in Holders' : last_node'[q] = last_node[q]
  BY <1>1, <1>3, <1>9 DEF Holders, ReqTypes
<1>11. Sound(tree', Holders', last_node')
  BY <1>8, <1>9, <1>10, SoundOf
<1>12. Apart(free_slots', tree', own, Others(r))
  BY <1>3, <1>7, <1>8, ApartVal
<1>13. /\ row'[r] = << >> /\ last_node'[r] = Root /\ delayed'[r] = own
       /\ stage'[r] = "finished" /\ results'[r] = Tail(results[r])
       /\ \A q \in Req \ {r} : delayed'[q] = delayed[q]
  BY <1>1, <1>2, <1>3 DEF ReqTypes
<1>14. Own(r)' = own /\ OwnDistinct(r)'
  BY <1>13, IdleOwnsNext
<1>15. DelayedOK(r)'
  <2>1. SUFFICES ASSUME Tail(results[r]) = << >>
                 PROVE  own = {}
    BY <1>13 DEF DelayedOK
  <2>2. Len(Tail(results[r])) = 0
    BY <2>1, EmptyRow
  <2>3. Len(row[r]) = Len(k)
    <3>1. ~(Len(Tail(results[r])) = 1)
      BY <2>2
    <3>2. QED
      BY <1>2, <3>1, Zenon
  <2>4. (Len(k) + 1)..Len(row[r]) = {}
    BY <1>2, <2>3
  <2>5. QED
    BY <1>5, <2>4 DEF Slots
<1>16. twice_freed' = {}
  BY <1>3, <1>7
<1>17. QED
  BY <1>11, <1>12, <1>13, <1>14, <1>15, <1>16 DEF Accounted

LEMMA PrefillGoesOnAccounts ==
  ASSUME AInv, NEW r \in Req, stage[r] = "running", results[r] # << >>,
         Head(results[r]) # "chunk", PopResult(r), NEW tok \in Token, PrefillGoesOn(r, tok)
  PROVE  Accounted(r)
<1> DEFINE k == ids[r]
           u == Insert(tree, k, row[r])
           t == IncLockRef(DecLockRef(MatchPrefix(u, k), last_node[r]), k)
           own == Slots(row[r], Len(k) + 1, Len(row[r]))
           R == RowRewritten(r, t, k, Len(row[r]))
<1>1. ReqTypes /\ Progress(r) /\ IInv
  BY DEF AInv, IInv
<1>2. k \in Path /\ Len(k) \in Nat /\ Len(row[r]) \in Nat /\ Len(k) <= Len(row[r])
  BY <1>1, TokenResult
<1>3. /\ tree' = t
      /\ free_slots' = FreeSlots(free_slots, Duplicates(r, k))
      /\ twice_freed' = twice_freed \cup (free_slots \cap Duplicates(r, k))
      /\ row' = [row EXCEPT ![r] = R]
      /\ last_node' = [last_node EXCEPT ![r] = k]
      /\ UNCHANGED <<stage, delayed>>
  BY DEF PrefillGoesOn, CacheUnfinishedReq
<1>4. Holds(r) /\ r \in Holders /\ IsFiniteSet(Holders) /\ Holders' = Holders
  BY <1>3, HoldersFinite DEF Holds, Holders
<1>5. k \preceq ids[r] /\ Len(last_node[r]) <= Len(k) /\ last_node[r] \in Path
  <2>1. last_node[r] \preceq ids[r] /\ last_node[r] \in Path
    BY <1>1, <1>4 DEF IInv, Follows, ReqTypes
  <2>2. QED
    BY <1>2, <2>1, PrefixReflexive DEF \preceq
<1>6. /\ R = [i \in 1..Len(row[r]) |-> IF Len(last_node[r]) < i /\ i <= Len(k)
                                        THEN t.val[First(k, i)] ELSE row[r][i]]
      /\ last_node'[r] = k /\ \A q \in Holders \ {r} : last_node'[q] = last_node[q]
      /\ row'[r] = R
  BY <1>1, <1>3 DEF RowRewritten, ReqTypes, Holders
<1> HIDE DEF k, own, R, t
<1>7. /\ Sound(u, Holders, last_node) /\ TreeOK(u) /\ k \in Nodes(u) \cup {Root}
      /\ Apart(FreeSlots(free_slots, Duplicates(r, k)), u, own, Others(r))
      /\ Distinct(row[r], Len(k) + 1, Len(row[r]))
      /\ free_slots \cap Duplicates(r, k) = {} /\ twice_freed = {} /\ delayed[r] = {}
  <2>1. delayed[r] = {}
    BY <1>4, HolderOwns
  <2>2. QED
    BY <1>2, <1>4, <1>5, <2>1, CacheRow DEF own
<1> HIDE DEF u
<1>8. Sound(tree', Holders', last_node') /\ tree'.val = u.val
  <2>1. TreeOK(t) /\ Sound(t, Holders, last_node') /\ t.val = u.val
    <3>1. t = IncLockRef(DecLockRef(MatchPrefix(u, k), last_node[r]), k)
      BY DEF t
    <3>2. last_node'[r] = k /\ \A q \in Holders \ {r} : last_node'[q] = last_node[q]
      BY <1>6
    <3>3. QED
      BY <1>2, <1>4, <1>7, <3>1, <3>2, MoveSound
  <2>2. QED
    BY <1>3, <1>4, <2>1
<1>9. Apart(free_slots', tree', own, Others(r))
  BY <1>3, <1>7, <1>8, ApartVal
<1>10. Len(R) = Len(row[r]) /\ \A i \in (Len(k) + 1)..Len(row[r]) : R[i] = row[r][i]
  <2>1. Len(R) = Len(row[r])
    BY <1>2, <1>6
  <2>2. QED
    BY <1>2, <1>6, <2>1
<1>11. Slots(R, Len(k) + 1, Len(R)) = own /\ Distinct(R, Len(k) + 1, Len(R))
  BY <1>7, <1>10 DEF own, Slots, Distinct
<1>12. Own(r)' = own /\ OwnDistinct(r)'
  <2>1. row'[r] = R /\ last_node'[r] = k /\ delayed'[r] = {}
    BY <1>3, <1>6, <1>7
  <2>2. QED
    BY <1>11, <2>1, OwnNext
<1>13. DelayedOK(r)' /\ delayed' = delayed
  BY <1>3, <1>7 DEF DelayedOK
<1>14. twice_freed' = {}
  BY <1>3, <1>7
<1>15. QED
  BY <1>8, <1>9, <1>12, <1>13, <1>14 DEF Accounted

LEMMA ProcessPrefillResultAccounts ==
  ASSUME AInv, NEW r \in Req, ProcessPrefillResult(r)
  PROVE  Accounted(r)
<1>1. /\ stage[r] = "running" /\ results[r] # << >> /\ Head(results[r]) # "chunk"
      /\ PopResult(r)
      /\ Finish(r) \/ \E tok \in Token : PrefillGoesOn(r, tok)
  BY DEF ProcessPrefillResult
<1>2. CASE Finish(r)
  BY <1>1, <1>2, FinishAccounts
<1>3. CASE \E tok \in Token : PrefillGoesOn(r, tok)
  BY <1>1, <1>3, PrefillGoesOnAccounts
<1>4. QED
  BY <1>1, <1>2, <1>3

LEMMA ProcessDecodeResultAccounts ==
  ASSUME AInv, NEW r \in Req, ProcessDecodeResult(r)
  PROVE  Accounted(r)
<1>1. /\ stage[r] = "running" /\ results[r] # << >> /\ Head(results[r]) # "chunk"
      /\ PopResult(r)
      /\ \/ Finish(r)
         \/ UNCHANGED <<tree, free_slots, twice_freed, stage, row, last_node, delayed>>
  BY DEF ProcessDecodeResult
<1>2. CASE Finish(r)
  BY <1>1, <1>2, FinishAccounts
<1>3. CASE UNCHANGED <<tree, free_slots, twice_freed, stage, row, last_node, delayed>>
  <2>1. delayed[r] = {}
    BY <1>1, HolderOwns DEF Holds
  <2>2. Holders' = Holders /\ DelayedOK(r)'
    BY <1>3, <2>1 DEF Holders, Holds, DelayedOK
  <2>3. QED
    BY <1>3, <2>2, NothingMoves
<1>4. QED
  BY <1>1, <1>2, <1>3

LEMMA FreeDelayedTokenAccounts ==
  ASSUME AInv, NEW r \in Req, FreeDelayedToken(r)
  PROVE  Accounted(r)
<1>1. ReqTypes /\ Progress(r) /\ Sound(tree, Holders, last_node)
  BY DEF AInv, IInv
<1>2. /\ stage[r] = "finished" /\ ~Holds(r)
      /\ free_slots' = free_slots \cup delayed[r]
      /\ twice_freed' = twice_freed \cup (free_slots \cap delayed[r])
      /\ delayed' = [delayed EXCEPT ![r] = {}]
      /\ UNCHANGED <<tree, stage, row, last_node>>
  BY DEF FreeDelayedToken, FreeSlots, Holds
<1>3. Apart(free_slots, tree, delayed[r], Others(r)) /\ twice_freed = {}
  BY <1>2, IdleOwns
<1>4. Apart(free_slots', tree', {}, Others(r)) /\ free_slots \cap delayed[r] = {}
  BY <1>2, <1>3, ApartGive
<1>5. delayed'[r] = {} /\ \A q \in Req \ {r} : delayed'[q] = delayed[q]
  BY <1>1, <1>2 DEF ReqTypes
<1>6. Own(r)' = {} /\ OwnDistinct(r)'
  <2>1. row'[r] = << >> /\ last_node'[r] = Root
    BY <1>1, <1>2 DEF Progress
  <2>2. QED
    BY <1>5, <2>1, IdleOwnsNext
<1>7. Holders' = Holders /\ DelayedOK(r)'
  BY <1>2, <1>5 DEF Holders, Holds, DelayedOK
<1>8. QED
  BY <1>1, <1>2, <1>3, <1>4, <1>5, <1>6, <1>7 DEF Accounted

LEMMA RetractAccounts ==
  ASSUME AInv, NEW r \in Req, Retract(r)
  PROVE  Accounted(r)
<1> DEFINE all == {n \in Nodes(tree) : Evictable(tree, {m \in Nodes(tree) : n \preceq m})}
           own == {row[r][i] : i \in (Len(last_node[r]) + 1)..Len(row[r])}
           u   == Evict(tree, all)
           t   == DecLockRef(u, last_node[r])
           got == FreeSlots(free_slots, EvictedSlots(tree, all))
           residual == RetractSteps * (Cardinality(Running) - 1)
                         - Cardinality(FreeSlots(got, own))
<1>1. ReqTypes /\ Progress(r) /\ TreeOK(tree) /\ Sound(tree, Holders, last_node)
  BY DEF AInv, IInv
<1>2. PICK E \in Evictions(t, IF residual > 0 THEN residual ELSE 0) :
        /\ tree' = Evict(t, E)
        /\ free_slots' = FreeSlots(FreeSlots(got, own), EvictedSlots(t, E))
        /\ twice_freed' = twice_freed \cup (free_slots \cap EvictedSlots(tree, all))
             \cup (got \cap own) \cup (FreeSlots(got, own) \cap EvictedSlots(t, E))
  BY DEF Retract
<1>3. /\ stage[r] = "running"
      /\ stage' = [stage EXCEPT ![r] = "waiting"]
      /\ row' = [row EXCEPT ![r] = << >>]
      /\ last_node' = [last_node EXCEPT ![r] = Root]
      /\ delayed' = delayed
  BY DEF Retract
<1>4. E \in SUBSET Nodes(t) /\ Evictable(t, E)
  BY DEF Evictions
<1>5. /\ Holds(r) /\ r \in Holders /\ IsFiniteSet(Holders) /\ last_node[r] \in Path
  BY <1>1, <1>3, HoldersFinite DEF Holders, Holds, ReqTypes
<1>6. /\ Apart(free_slots, tree, own, Others(r)) /\ twice_freed = {} /\ delayed[r] = {}
  <2>1. own = OwnRow(r)
    BY DEF OwnRow, Slots
  <2>2. QED
    BY <1>5, <2>1, HolderOwns
<1>7. all \in SUBSET Nodes(tree) /\ Evictable(tree, all)
  BY <1>1, AllEvictable
<1> HIDE DEF all, own, got, residual
<1>8. /\ Sound(u, Holders, last_node) /\ TreeOK(u)
      /\ Apart(got, u, own, Others(r))
      /\ free_slots \cap EvictedSlots(tree, all) = {}
  <2>1. Sound(u, Holders, last_node) /\ TreeOK(u)
    BY <1>1, <1>5, <1>7, EvictSound DEF Sound
  <2>2. /\ Apart(got, u, own, Others(r)) /\ free_slots \cap EvictedSlots(tree, all) = {}
    BY <1>1, <1>6, <1>7, ApartEvict DEF Evictable, FreeSlots, got
  <2>3. QED
    BY <2>1, <2>2
<1> HIDE DEF u
<1>9. Sound(t, Holders \ {r}, last_node) /\ TreeOK(t) /\ t.val = u.val
  BY <1>5, <1>8, DecSound, LockRefProperties
<1> HIDE DEF t
<1>10. Apart(FreeSlots(got, own), t, {}, Others(r)) /\ got \cap own = {}
  <2>1. Apart(got, t, own, Others(r))
    BY <1>8, <1>9, ApartVal
  <2>2. QED
    BY <2>1, ApartGive DEF FreeSlots
<1> DEFINE F == FreeSlots(got, own)
<1> HIDE DEF F
<1>11. /\ Apart(FreeSlots(F, EvictedSlots(t, E)), tree', {}, Others(r))
       /\ F \cap EvictedSlots(t, E) = {}
  <2>1. Apart(F, t, {}, Others(r)) /\ ClosedBelow(t, E)
    BY <1>4, <1>10 DEF F, Evictable
  <2>2. QED
    BY <1>2, <1>4, <1>9, <2>1, ApartEvict DEF FreeSlots
<1>12. Holders' = Holders \ {r} /\ IsFiniteSet(Holders \ {r})
  <2>1. Holders' = Holders \ {r}
    BY <1>1, <1>3 DEF Holders, Holds, ReqTypes
  <2>2. QED
    BY <1>5, <2>1, FS_RemoveElement
<1>13. Sound(tree', Holders', last_node)
  BY <1>2, <1>4, <1>9, <1>12, EvictSound
<1>14. \A q \in Holders' : last_node'[q] = last_node[q]
  BY <1>1, <1>3, <1>12 DEF Holders, ReqTypes
<1>15. Sound(tree', Holders', last_node')
  BY <1>13, <1>14, SoundOf
<1>16. Own(r)' = {} /\ OwnDistinct(r)'
  <2>1. row'[r] = << >> /\ last_node'[r] = Root /\ delayed'[r] = {}
    BY <1>1, <1>3, <1>6 DEF ReqTypes
  <2>2. QED
    BY <2>1, IdleOwnsNext
<1>17. DelayedOK(r)'
  BY <1>3, <1>6 DEF DelayedOK
<1>18. twice_freed' = {} /\ free_slots' = FreeSlots(F, EvictedSlots(t, E))
  BY <1>2, <1>6, <1>8, <1>10, <1>11 DEF F
<1>19. QED
  BY <1>3, <1>11, <1>15, <1>16, <1>17, <1>18 DEF Accounted

---------------------------------------------------------------------------
(* The inductive step                                                      *)

(* An empty tree counts nothing. *)
LEMMA NewTreeSound ==
  ASSUME NEW ln
  PROVE  Sound(NewTree, {}, ln) /\ Values(NewTree) = {}
<1>1. TreeOK(NewTree) /\ Cached(NewTree) = {} /\ Nodes(NewTree) = {}
  BY NewTreeOK
<1>2. Held(NewTree, {}, ln) = {}
  BY DEF Held
<1>3. NewTree.evictable_size_ = 0 /\ NewTree.protected_size_ = 0
  BY DEF NewTree
<1>4. Sizes(NewTree, {}, ln)
  BY <1>1, <1>2, <1>3, FS_EmptySet DEF Sizes
<1>5. Locks(NewTree, {}, ln)
  BY <1>1 DEF Locks
<1>6. QED
  BY <1>1, <1>4, <1>5 DEF Sound, Values

(* When nobody owns a slot, all of them are free. *)
LEMMA AllFree ==
  ASSUME tree = NewTree, free_slots = Page, twice_freed = {},
         \A r \in Req : row[r] = << >> /\ last_node[r] = Root /\ delayed[r] = {}
  PROVE  SlotOwnership
<1>1. Cached(tree) = {} /\ TreeSlots = {}
  BY NewTreeOK DEF TreeSlots
<1>2. ASSUME NEW r \in Req
      PROVE  Own(r) = {} /\ OwnDistinct(r)
  <2>1. Own(r) = Slots(row[r], Len(last_node[r]) + 1, Len(row[r])) \cup delayed[r]
    BY DEF Own, Slots
  <2>2. OwnDistinct(r) <=> Distinct(row[r], Len(last_node[r]) + 1, Len(row[r]))
    BY DEF OwnDistinct
  <2>3. QED
    BY <2>1, <2>2, EmptyRow
<1>3. UNION {Own(r) : r \in Req} = {}
  BY <1>2
<1>4. QED
  BY <1>1, <1>2, <1>3 DEF SlotOwnership, OwnDistinct, Distinct

LEMMA AccountInit ==
  ASSUME Init
  PROVE  AInv
<1>1. IInv
  BY InitInv
<1>2. Holders = {}
  BY DEF Init, Holders, Holds
<1>3. Sound(tree, Holders, last_node)
  BY <1>2, NewTreeSound DEF Init
<1>4. SlotOwnership
  BY AllFree DEF Init
<1>5. QED
  BY <1>1, <1>3, <1>4 DEF AInv, Init, DelayedOK

LEMMA FlushAccounts ==
  ASSUME AInv, Flush
  PROVE  AInv'
<1>1. /\ \A r \in Req : ~Holds(r) /\ results[r] = << >>
      /\ tree' = NewTree /\ free_slots' = Page
      /\ UNCHANGED <<twice_freed, stage, ids, fill_len, row, last_node, results, delayed>>
  BY DEF Flush, reqVars
<1>2. IInv'
  BY FlushStep DEF AInv
<1>3. Holders' = {}
  BY <1>1 DEF Holders, Holds
<1>4. Sound(tree', Holders', last_node')
  BY <1>1, <1>3, NewTreeSound
<1>5. /\ \A r \in Req : row[r] = << >> /\ last_node[r] = Root /\ delayed[r] = {}
      /\ \A r \in Req : DelayedOK(r)'
  BY <1>1 DEF AInv, IInv, Progress, DelayedOK
<1>6. twice_freed' = {} /\ \A r \in Req : row'[r] = << >> /\ last_node'[r] = Root /\ delayed'[r] = {}
  BY <1>1, <1>5 DEF AInv, SlotOwnership
<1>7. Cached(tree') = {} /\ TreeSlots' = {}
  BY <1>1, NewTreeOK DEF TreeSlots
<1>8. \A r \in Req : Own(r)' = {} /\ OwnDistinct(r)'
  BY <1>6, IdleOwnsNext
<1>9. (UNION {Own(r) : r \in Req})' = {}
  BY <1>8
<1>10. SlotOwnership'
  BY <1>1, <1>6, <1>7, <1>8, <1>9 DEF SlotOwnership, OwnDistinct, Distinct
<1>11. QED
  BY <1>2, <1>4, <1>5, <1>10 DEF AInv

LEMMA AccountNext ==
  ASSUME AInv, [Next]_vars
  PROVE  AInv'
<1>1. CASE Flush
  BY <1>1, FlushAccounts
<1>2. ASSUME NEW r \in Req,
             \/ Receive(r) \/ ComputePrefixMatch(r) \/ Admit(r) \/ NextChunk(r)
             \/ LaunchDecode(r) \/ Retract(r)
             \/ ProcessChunkResult(r) \/ ProcessPrefillResult(r) \/ ProcessDecodeResult(r)
             \/ FreeDelayedToken(r) \/ SkipRetracted(r)
      PROVE  AInv'
  <2>0. IInv
    BY DEF AInv
  <2>1. CASE Receive(r)
    BY <2>0, <2>1, ReceiveStep, ReceiveAccounts, AccountedStep
  <2>2. CASE ComputePrefixMatch(r)
    BY <2>0, <2>2, ComputePrefixMatchStep, ComputePrefixMatchAccounts, AccountedStep
  <2>3. CASE Admit(r)
    BY <2>0, <2>3, AdmitStep, AdmitAccounts, AccountedStep
  <2>4. CASE NextChunk(r)
    BY <2>0, <2>4, NextChunkStep, NextChunkAccounts, AccountedStep
  <2>5. CASE LaunchDecode(r)
    BY <2>0, <2>5, LaunchDecodeStep, LaunchDecodeAccounts, AccountedStep
  <2>6. CASE Retract(r)
    BY <2>0, <2>6, RetractStep, RetractAccounts, AccountedStep
  <2>7. CASE ProcessChunkResult(r)
    BY <2>0, <2>7, ProcessChunkResultStep, ProcessChunkResultAccounts, AccountedStep
  <2>8. CASE ProcessPrefillResult(r)
    BY <2>0, <2>8, ProcessPrefillResultStep, ProcessPrefillResultAccounts, AccountedStep
  <2>9. CASE ProcessDecodeResult(r)
    BY <2>0, <2>9, ProcessDecodeResultStep, ProcessDecodeResultAccounts, AccountedStep
  <2>10. CASE FreeDelayedToken(r)
    BY <2>0, <2>10, FreeDelayedTokenStep, FreeDelayedTokenAccounts, AccountedStep
  <2>11. CASE SkipRetracted(r)
    BY <2>0, <2>11, SkipRetractedStep, SkipRetractedAccounts, AccountedStep
  <2>12. QED
    BY <1>2, <2>1, <2>2, <2>3, <2>4, <2>5, <2>6, <2>7, <2>8, <2>9, <2>10, <2>11
<1>3. CASE UNCHANGED vars
  <2>1. IInv'
    BY <1>3, NextInv DEF AInv
  <2>2. Holders' = Holders /\ SlotOwnership' /\ \A r \in Req : DelayedOK(r)'
    BY <1>3 DEF vars, AInv, Holders, Holds, SlotOwnership, TreeSlots, Own, DelayedOK
  <2>3. Sound(tree', Holders', last_node')
    BY <1>3, <2>2 DEF vars, AInv
  <2>4. QED
    BY <2>1, <2>2, <2>3 DEF AInv
<1>4. QED
  BY <1>1, <1>2, <1>3 DEF Next

---------------------------------------------------------------------------
(* Theorems                                                                *)

(* AInv is an invariant of the cache. *)
THEOREM RadixCacheAccounts == Spec => []AInv
BY AccountInit, AccountNext, PTL DEF Spec

(* Every slot is in exactly one place: no interleaving of admissions,      *)
(* chunks, decodes, finishes, retractions and evictions frees a slot twice,*)
(* lends it twice or loses it.                                             *)
THEOREM RadixCacheSlots == Spec => []SlotOwnership
<1>1. AInv => SlotOwnership
  BY DEF AInv
<1>2. QED
  BY <1>1, RadixCacheAccounts, PTL

(* evictable_size_ and protected_size_ count the cached tokens that nobody *)
(* and that somebody references, however the references were moved.        *)
THEOREM RadixCacheSizes == Spec => []SizesExact
<1>1. ASSUME AInv PROVE SizesExact
  <2>1. Sizes(tree, Holders, last_node)
    BY <1>1 DEF AInv, Sound
  <2>2. Held(tree, Holders, last_node)
          = {p \in Cached(tree) : \E r \in Req : Holds(r) /\ p \preceq last_node[r]}
    BY DEF Held, Holders
  <2>3. QED
    BY <2>1, <2>2 DEF Sizes, SizesExact
<1>2. QED
  BY <1>1, RadixCacheAccounts, PTL
=============================================================================
