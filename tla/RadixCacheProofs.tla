--------------------------- MODULE RadixCacheProofs ---------------------------
(***************************************************************************)
(* The KV cache for any number of requests, prompts, tokens and slots: its *)
(* types, the shape of its tree, its reference counts and the rows of the  *)
(* requests that read it.  The first half is about module RadixTree: what  *)
(* the operations on a tree preserve.                                      *)
(***************************************************************************)
EXTENDS RadixCache, FiniteSetTheorems, SequenceTheorems, WellFoundedInduction, TLAPS

---------------------------------------------------------------------------
(* Paths and prefixes                                                      *)

(* A path is a sequence: its length, its domain, its elements. *)
LEMMA PathProperties ==
  ASSUME NEW p \in Path
  PROVE  /\ Len(p) \in Nat
         /\ \A i \in 1..Len(p) : p[i] \in Token
BY DEF Path

(* First(k, i) is the path of the first i tokens of k. *)
LEMMA FirstProperties ==
  ASSUME NEW k \in Path, NEW i \in 0..Len(k)
  PROVE  /\ First(k, i) \in Path
         /\ Len(First(k, i)) = i
         /\ \A j \in 1..i : First(k, i)[j] = k[j]
<1>1. Len(k) \in Nat /\ \A j \in 1..i : k[j] \in Token
  BY PathProperties
<1>2. /\ SubSeq(k, 1, i) \in Seq(Token)
      /\ Len(SubSeq(k, 1, i)) = IF 1 <= i THEN i - 1 + 1 ELSE 0
      /\ \A j \in 1..(i - 1 + 1) : SubSeq(k, 1, i)[j] = k[1 + j - 1]
  BY <1>1, SubSeqProperties
<1>3. QED
  BY <1>1, <1>2 DEF First, Path

(* Two paths that are prefixes of each other are equal. *)
LEMMA PrefixAntisymmetric ==
  ASSUME NEW p \in Path, NEW q \in Path, p \preceq q, q \preceq p
  PROVE  p = q
<1>1. Len(p) \in Nat /\ Len(q) \in Nat
  BY PathProperties
<1>2. Len(p) = Len(q) /\ \A i \in 1..Len(p) : p[i] = q[i]
  BY <1>1 DEF \preceq
<1>3. QED
  BY <1>2, SeqEqual DEF Path

LEMMA PrefixReflexive ==
  ASSUME NEW p \in Path
  PROVE  p \preceq p
BY PathProperties DEF \preceq

LEMMA PrefixTransitive ==
  ASSUME NEW p \in Path, NEW q \in Path, NEW s \in Path, p \preceq q, q \preceq s
  PROVE  p \preceq s
<1>1. Len(p) \in Nat /\ Len(q) \in Nat /\ Len(s) \in Nat
  BY PathProperties
<1>2. QED
  BY <1>1 DEF \preceq

(* The prefixes of one path are in line. *)
LEMMA PrefixesInLine ==
  ASSUME NEW p \in Path, NEW q \in Path, NEW s \in Path, p \preceq s, q \preceq s
  PROVE  /\ Len(p) <= Len(q) => p \preceq q
         /\ p \preceq q \/ q \preceq p
<1>1. Len(p) \in Nat /\ Len(q) \in Nat /\ Len(s) \in Nat
  BY PathProperties
<1>2. QED
  BY <1>1 DEF \preceq

(* A prefix of k is First(k, i) for its length i. *)
LEMMA PrefixIsFirst ==
  ASSUME NEW p \in Path, NEW k \in Path, p \preceq k
  PROVE  Len(p) \in 0..Len(k) /\ p = First(k, Len(p))
<1>1. Len(p) \in Nat /\ Len(k) \in Nat /\ Len(p) <= Len(k)
  BY PathProperties DEF \preceq
<1>2. /\ First(k, Len(p)) \in Path
      /\ Len(First(k, Len(p))) = Len(p)
      /\ \A j \in 1..Len(p) : First(k, Len(p))[j] = k[j]
  BY <1>1, FirstProperties
<1>3. \A j \in 1..Len(p) : p[j] = First(k, Len(p))[j]
  BY <1>2 DEF \preceq
<1>4. p = First(k, Len(p))
  BY <1>2, <1>3, SeqEqual DEF Path
<1>5. QED
  BY <1>1, <1>4

(* First(k, i) is a prefix of k and of every longer First(k, j). *)
LEMMA FirstIsPrefix ==
  ASSUME NEW k \in Path, NEW i \in 0..Len(k), NEW j \in i..Len(k)
  PROVE  First(k, i) \preceq k /\ First(k, i) \preceq First(k, j)
<1>1. Len(k) \in Nat /\ j \in 0..Len(k)
  BY PathProperties
<1>2. /\ Len(First(k, i)) = i /\ \A l \in 1..i : First(k, i)[l] = k[l]
      /\ Len(First(k, j)) = j /\ \A l \in 1..j : First(k, j)[l] = k[l]
  BY <1>1, FirstProperties
<1>3. QED
  BY <1>1, <1>2 DEF \preceq

(* First of a First *)
LEMMA FirstOfFirst ==
  ASSUME NEW k \in Path, NEW j \in 0..Len(k), NEW i \in 0..j
  PROVE  First(First(k, j), i) = First(k, i)
<1>1. Len(k) \in Nat /\ i \in 0..Len(k)
  BY PathProperties
<1>2. /\ First(k, j) \in Path /\ Len(First(k, j)) = j
      /\ First(k, i) \in Path /\ Len(First(k, i)) = i
  BY <1>1, FirstProperties
<1>3. First(k, i) \preceq First(k, j)
  BY <1>1, FirstIsPrefix
<1>4. QED
  BY <1>2, <1>3, PrefixIsFirst

LEMMA FirstFull ==
  ASSUME NEW k \in Path
  PROVE  First(k, Len(k)) = k
BY SubSeqFull DEF First, Path

LEMMA RootProperties ==
  /\ Root \in Path /\ Len(Root) = 0
  /\ \A p \in Path : /\ Len(p) = 0 <=> p = Root
                     /\ Root \preceq p
                     /\ p \preceq Root <=> p = Root
<1>1. Root \in Path /\ Len(Root) = 0
  BY EmptySeq DEF Root, Path
<1>2. ASSUME NEW p \in Path
      PROVE  /\ Len(p) = 0 <=> p = Root
             /\ Root \preceq p
             /\ p \preceq Root <=> p = Root
  <2>1. Len(p) = 0 <=> p = Root
    BY <1>1, EmptySeq DEF Root, Path
  <2>2. Root \preceq p
    BY <1>1, PathProperties DEF \preceq
  <2>3. p \preceq Root <=> p = Root
    BY <1>1, <2>2, PrefixAntisymmetric
  <2>4. QED
    BY <2>1, <2>2, <2>3
<1>3. QED
  BY <1>1, <1>2

---------------------------------------------------------------------------
(* The walk                                                                *)

(* A non-empty set of naturals up to n has a greatest element. *)
LEMMA GreatestNatural ==
  ASSUME NEW n \in Nat, NEW S \in SUBSET (0..n), S # {}
  PROVE  \E x \in S : \A y \in S : y <= x
<1> DEFINE T == {i \in Nat : n - i \in S}
<1>1. T \subseteq Nat /\ T # {}
  <2>1. PICK y \in S : TRUE
    OBVIOUS
  <2>2. y \in 0..n /\ n - y \in Nat /\ n - (n - y) = y
    BY <2>1
  <2>3. n - y \in T
    BY <2>1, <2>2
  <2>4. QED
    BY <2>3
<1>2. \E x \in T : \A y \in T : ~(<<y, x>> \in OpToRel(<, Nat))
  BY <1>1, WFMin, NatLessThanWellFounded
<1>3. PICK x \in T : \A y \in T : ~(y < x)
  BY <1>1, <1>2 DEF OpToRel
<1>4. n - x \in S /\ x \in Nat
  BY <1>3
<1>5. ASSUME NEW y \in S
      PROVE  y <= n - x
  <2>1. y \in 0..n /\ n - y \in Nat /\ n - (n - y) = y
    BY <1>5
  <2>2. n - y \in T
    BY <2>1
  <2>3. ~(n - y < x)
    BY <2>2, <1>3
  <2>4. QED
    BY <2>1, <2>3, <1>4
<1>6. QED
  BY <1>4, <1>5

(* MatchLen(t, k) is the length of the longest cached prefix of k. *)
LEMMA MatchLenProperties ==
  ASSUME NEW t, NEW k \in Path
  PROVE  /\ MatchLen(t, k) \in 0..Len(k)
         /\ MatchLen(t, k) > 0 => First(k, MatchLen(t, k)) \in Cached(t)
         /\ \A j \in 1..Len(k) : First(k, j) \in Cached(t) => j <= MatchLen(t, k)
<1> DEFINE P(i) == /\ i > 0 => First(k, i) \in Cached(t)
                   /\ \A j \in 1..Len(k) : First(k, j) \in Cached(t) => j <= i
           S == {j \in 0..Len(k) : j > 0 => First(k, j) \in Cached(t)}
<1>1. Len(k) \in Nat
  BY PathProperties
<1>2. S \in SUBSET (0..Len(k)) /\ 0 \in S
  BY <1>1
<1>3. PICK x \in S : \A y \in S : y <= x
  <2> HIDE DEF S
  <2> QED
    BY <1>1, <1>2, GreatestNatural
<1>4. x \in 0..Len(k) /\ P(x)
  BY <1>1, <1>3
<1>5. \E i \in 0..Len(k) : P(i)
  BY <1>4
<1>6. MatchLen(t, k) = CHOOSE i \in 0..Len(k) : P(i)
  BY DEF MatchLen
<1>7. MatchLen(t, k) \in 0..Len(k) /\ P(MatchLen(t, k))
  <2> HIDE DEF P
  <2> QED
    BY <1>5, <1>6
<1>8. QED
  BY <1>7

---------------------------------------------------------------------------
(* Trees                                                                   *)

(* a well-formed tree *)
TreeOK(t) == TreeType(t) /\ IsRadixTree(t) /\ IsFiniteSet(Cached(t))

(* The locks of tree t are those of the holders H, r in H holding ln[r]. *)
Locks(t, H, ln) ==
  /\ \A r \in H : ln[r] \in Nodes(t) \cup {Root}
  /\ \A n \in Nodes(t) : t.lock_ref[n] = Cardinality({r \in H : n \preceq ln[r]})

(* The empty tree is well-formed. *)
LEMMA NewTreeOK ==
  TreeOK(NewTree) /\ Cached(NewTree) = {} /\ Nodes(NewTree) = {}
<1>1. Cached(NewTree) = {} /\ Nodes(NewTree) = {}
  BY DEF NewTree, Cached, Nodes
<1>2. IsFiniteSet(Cached(NewTree))
  BY <1>1, FS_EmptySet
<1>3. TreeType(NewTree)
  BY <1>1 DEF NewTree, TreeType, Cached, Nodes
<1>4. QED
  BY <1>1, <1>2, <1>3 DEF TreeOK, IsRadixTree

(* The nodes of a tree are paths, not the root; so are its positions. *)
LEMMA PositionsArePaths ==
  ASSUME NEW t, TreeOK(t)
  PROVE  /\ \A p \in Cached(t) : p \in Path /\ Len(p) > 0 /\ p # Root
         /\ \A n \in Nodes(t) : n \in Cached(t) /\ n \in Path /\ n # Root
         /\ \A p \in Cached(t) : \A q \in Path : q \preceq p /\ q # Root => q \in Cached(t)
<1>1. /\ \A p \in Cached(t) : p \in Path /\ Len(p) > 0
      /\ \A n \in Nodes(t) : n \in Cached(t)
  BY DEF TreeOK, TreeType, IsRadixTree
<1>2. \A p \in Cached(t) : p # Root
  BY <1>1, RootProperties
<1>3. ASSUME NEW p \in Cached(t), NEW q \in Path, q \preceq p, q # Root
      PROVE  q \in Cached(t)
  <2>1. p \in Path /\ Len(q) \in 0..Len(p) /\ q = First(p, Len(q))
    BY <1>1, <1>3, PrefixIsFirst
  <2>2. Len(q) # 0
    BY <1>3, RootProperties
  <2>3. Len(q) \in 1..Len(p)
    BY <2>1, <2>2
  <2>4. First(p, Len(q)) \in Cached(t)
    BY <2>3 DEF TreeOK, IsRadixTree
  <2>5. QED
    BY <2>1, <2>4
<1>4. QED
  BY <1>1, <1>2, <1>3

LEMMA OwnerProperties ==
  ASSUME NEW t, TreeOK(t), NEW p \in Cached(t)
  PROVE  Owner(t, p) \in Nodes(t) /\ IsOwner(t, p, Owner(t, p))
<1>1. \E n \in Nodes(t) : IsOwner(t, p, n)
  BY DEF TreeOK, IsRadixTree
<1>2. QED
  BY <1>1 DEF Owner

(* Splitting changes no cached position: it adds node p, with the locks of *)
(* the node that p was in.                                                 *)
LEMMA SplitProperties ==
  ASSUME NEW t, TreeOK(t), NEW p \in Cached(t) \cup {Root}
  PROVE  /\ TreeOK(Split(t, p))
         /\ Split(t, p).val = t.val
         /\ Nodes(Split(t, p)) = Nodes(t) \cup ({p} \ {Root})
         /\ \A n \in Nodes(t) : Split(t, p).lock_ref[n] = t.lock_ref[n]
         /\ p # Root => /\ IsOwner(t, p, Owner(t, p))
                        /\ Split(t, p).lock_ref[p] = t.lock_ref[Owner(t, p)]
<1> DEFINE s == Split(t, p)
<1>1. CASE p = Root
  BY <1>1 DEF Split
<1>2. CASE p # Root /\ p \in Nodes(t)
  <2>1. s = t
    BY <1>2 DEF Split
  <2>2. IsOwner(t, p, Owner(t, p)) /\ Owner(t, p) \in Nodes(t)
    BY <1>2, OwnerProperties
  <2>3. p \in Path /\ Owner(t, p) \in Path
    BY <1>2, <2>2, PositionsArePaths
  <2>4. Owner(t, p) = p
    BY <1>2, <2>2, <2>3, PrefixReflexive, PrefixAntisymmetric DEF IsOwner
  <2>5. QED
    BY <1>2, <2>1, <2>2, <2>4
<1>3. CASE p # Root /\ p \notin Nodes(t)
  <2> DEFINE o == Owner(t, p)
  <2>1. p \in Cached(t) /\ o \in Nodes(t) /\ IsOwner(t, p, o)
    BY <1>3, OwnerProperties
  <2>2. p \in Path /\ o \in Path /\ (\A n \in Nodes(t) : n \in Path /\ n \in Cached(t))
    BY <2>1, PositionsArePaths
  <2>3. s = [t EXCEPT !.lock_ref = [n \in Nodes(t) \cup {p} |->
                                 IF n = p THEN t.lock_ref[o] ELSE t.lock_ref[n]]]
    BY <1>3 DEF Split
  <2>4. /\ t \in [val : [Cached(t) -> Page], lock_ref : [Nodes(t) -> Int],
                  evictable_size_ : Int, protected_size_ : Int]
        /\ Cached(t) \subseteq Path
    BY DEF TreeOK, TreeType
  <2>5. /\ s.val = t.val
        /\ s.lock_ref = [n \in Nodes(t) \cup {p} |->
                           IF n = p THEN t.lock_ref[o] ELSE t.lock_ref[n]]
        /\ s \in [val : [Cached(t) -> Page], lock_ref : [Nodes(t) \cup {p} -> Int],
                  evictable_size_ : Int, protected_size_ : Int]
    BY <2>1, <2>3, <2>4 DEF Nodes
  <2>6. Cached(s) = Cached(t) /\ Nodes(s) = Nodes(t) \cup {p}
    BY <2>5 DEF Cached, Nodes
  <2>7. TreeType(s)
    BY <2>2, <2>4, <2>5, <2>6 DEF TreeType
  <2>8. ASSUME NEW q \in Cached(t)
        PROVE  \E n \in Nodes(s) : IsOwner(s, q, n)
    <3>1. PICK n \in Nodes(t) : IsOwner(t, q, n)
      BY DEF TreeOK, IsRadixTree
    <3>2. q \in Path /\ n \in Path
      BY <2>2, <3>1, PositionsArePaths
    <3>3. CASE ~(q \preceq p)
      BY <2>6, <3>1, <3>3 DEF IsOwner
    <3>4. CASE q \preceq p
      <4>1. q \preceq o
        BY <2>1, <2>2, <3>2, <3>4, PrefixTransitive DEF IsOwner
      <4>2. n \preceq o
        BY <2>1, <3>1, <4>1 DEF IsOwner
      <4>3. n \preceq p \/ p \preceq n
        BY <2>1, <2>2, <3>2, <4>2, PrefixesInLine DEF IsOwner
      <4>4. CASE n \preceq p
        BY <2>6, <3>1, <4>4 DEF IsOwner
      <4>5. CASE p \preceq n
        <5>1. \A m \in Nodes(t) : q \preceq m => p \preceq m
          BY <2>2, <3>1, <3>2, <4>5, PrefixTransitive DEF IsOwner
        <5>2. IsOwner(s, q, p)
          BY <2>2, <2>6, <3>4, <5>1, PrefixReflexive DEF IsOwner
        <5>3. QED
          BY <2>6, <5>2
      <4>6. QED
        BY <4>3, <4>4, <4>5
    <3>5. QED
      BY <3>3, <3>4
  <2>9. IsRadixTree(s)
    BY <2>1, <2>2, <2>6, <2>8 DEF IsRadixTree, TreeOK
  <2>10. TreeOK(s)
    BY <2>6, <2>7, <2>9 DEF TreeOK
  <2>11. /\ \A n \in Nodes(t) : s.lock_ref[n] = t.lock_ref[n]
         /\ s.lock_ref[p] = t.lock_ref[o]
    BY <1>3, <2>5
  <2>12. QED
    BY <1>3, <2>1, <2>5, <2>6, <2>10, <2>11
<1>4. QED
  BY <1>1, <1>2, <1>3

(* Splitting keeps the locks in step with the holders. *)
LEMMA SplitLocks ==
  ASSUME NEW t, TreeOK(t), NEW p \in Cached(t) \cup {Root},
         NEW H, NEW ln, Locks(t, H, ln)
  PROVE  Locks(Split(t, p), H, ln)
<1> DEFINE s == Split(t, p)
<1>1. /\ Nodes(s) = Nodes(t) \cup ({p} \ {Root})
      /\ \A n \in Nodes(t) : s.lock_ref[n] = t.lock_ref[n]
      /\ p # Root => /\ IsOwner(t, p, Owner(t, p))
                     /\ s.lock_ref[p] = t.lock_ref[Owner(t, p)]
  BY SplitProperties
<1>2. \A r \in H : ln[r] \in Nodes(s) \cup {Root}
  BY <1>1 DEF Locks
<1>3. ASSUME NEW n \in Nodes(s)
      PROVE  s.lock_ref[n] = Cardinality({r \in H : n \preceq ln[r]})
  <2>1. CASE n \in Nodes(t)
    BY <1>1, <2>1 DEF Locks
  <2>2. CASE n \notin Nodes(t)
    <3> DEFINE o == Owner(t, p)
    <3>1. n = p /\ p # Root /\ p \in Cached(t)
      BY <1>1, <2>2
    <3>2. o \in Nodes(t) /\ IsOwner(t, p, o) /\ s.lock_ref[n] = t.lock_ref[o]
      BY <1>1, <3>1 DEF IsOwner
    <3>3. p \in Path /\ o \in Path /\ \A m \in Nodes(t) : m \in Path
      BY <3>1, <3>2, PositionsArePaths
    <3>4. \A r \in H : p \preceq ln[r] <=> o \preceq ln[r]
      <4>1. SUFFICES ASSUME NEW r \in H
                     PROVE  p \preceq ln[r] <=> o \preceq ln[r]
        OBVIOUS
      <4>2. CASE ln[r] = Root
        BY <3>1, <3>2, <3>3, <4>2, RootProperties, PositionsArePaths
      <4>3. CASE ln[r] \in Nodes(t)
        BY <3>2, <3>3, <4>3, PrefixTransitive DEF IsOwner
      <4>4. QED
        BY <4>2, <4>3 DEF Locks
    <3>5. {r \in H : n \preceq ln[r]} = {r \in H : o \preceq ln[r]}
      BY <3>1, <3>4
    <3>6. QED
      BY <3>2, <3>5 DEF Locks
  <2>3. QED
    BY <2>1, <2>2
<1>4. QED
  BY <1>2, <1>3 DEF Locks

(* The walk ends at a cached position or at the root. *)
LEMMA MatchedProperties ==
  ASSUME NEW t, TreeOK(t), NEW k \in Path
  PROVE  /\ Matched(t, k) \in Cached(t) \cup {Root}
         /\ Matched(t, k) \in Path /\ Matched(t, k) \preceq k
         /\ Len(Matched(t, k)) = MatchLen(t, k)
         /\ \A i \in 1..MatchLen(t, k) : First(k, i) \in Cached(t)
<1> DEFINE m == MatchLen(t, k)
<1>1. Len(k) \in Nat /\ m \in 0..Len(k) /\ (m > 0 => First(k, m) \in Cached(t))
  BY PathProperties, MatchLenProperties
<1>2. First(k, m) \in Path /\ Len(First(k, m)) = m
  BY <1>1, FirstProperties
<1>3. First(k, m) \preceq k
  BY <1>1, FirstIsPrefix
<1>4. m = 0 => First(k, m) = Root
  BY <1>2, RootProperties
<1>5. ASSUME NEW i \in 1..m
      PROVE  First(k, i) \in Cached(t)
  <2>1. i \in 0..Len(k) /\ m \in i..Len(k) /\ First(k, m) \in Cached(t)
    BY <1>1
  <2>2. First(k, i) \preceq First(k, m)
    BY <2>1, FirstIsPrefix
  <2>3. First(k, i) \in Path /\ Len(First(k, i)) = i
    BY <2>1, FirstProperties
  <2>4. First(k, i) # Root
    BY <2>3, RootProperties
  <2>5. QED
    BY <2>1, <2>2, <2>3, <2>4, PositionsArePaths
<1>6. QED
  BY <1>1, <1>2, <1>3, <1>4, <1>5 DEF Matched

(* v has a slot for every token of k *)
SlotsFor(v, k) == \A i \in 1..Len(k) : v[i] \in Page

(* AddLeaf below a node (or below the root), where nothing is cached yet. *)
LEMMA AddLeafProperties ==
  ASSUME NEW t, TreeOK(t), NEW k \in Path, NEW v,
         SlotsFor(v, k),
         MatchLen(t, k) < Len(k), Matched(t, k) \in Nodes(t) \cup {Root}
  PROVE  LET m == MatchLen(t, k)
             s == AddLeaf(t, k, v, m)
         IN  /\ TreeOK(s)
             /\ Nodes(s) = Nodes(t) \cup {k}
             /\ Cached(s) = Cached(t) \cup {First(k, i) : i \in (m + 1)..Len(k)}
             /\ \A p \in Cached(t) : s.val[p] = t.val[p]
             /\ \A i \in (m + 1)..Len(k) : /\ First(k, i) \notin Cached(t)
                                           /\ s.val[First(k, i)] = v[i]
             /\ k \notin Cached(t)
             /\ s.lock_ref[k] = 0
             /\ \A n \in Nodes(t) : s.lock_ref[n] = t.lock_ref[n]
<1> DEFINE m == MatchLen(t, k)
           s == AddLeaf(t, k, v, m)
           N == {First(k, i) : i \in (m + 1)..Len(k)}
           f == [p \in Cached(t) \cup N |-> IF p \in Cached(t) THEN t.val[p] ELSE v[Len(p)]]
           g == [n \in Nodes(t) \cup {k} |-> IF n = k THEN 0 ELSE t.lock_ref[n]]
<1>1. /\ Len(k) \in Nat /\ m \in 0..Len(k)
      /\ \A j \in 1..Len(k) : First(k, j) \in Cached(t) => j <= m
  BY PathProperties, MatchLenProperties
<1>2. \A i \in (m + 1)..Len(k) : /\ First(k, i) \in Path /\ Len(First(k, i)) = i
                                 /\ First(k, i) \notin Cached(t)
                                 /\ First(k, i) \preceq k
  <2>1. SUFFICES ASSUME NEW i \in (m + 1)..Len(k)
                 PROVE  /\ First(k, i) \in Path /\ Len(First(k, i)) = i
                        /\ First(k, i) \notin Cached(t)
                        /\ First(k, i) \preceq k
    OBVIOUS
  <2>2. i \in 0..Len(k) /\ i \in 1..Len(k) /\ i > m
    BY <1>1
  <2>3. First(k, i) \in Path /\ Len(First(k, i)) = i
    BY <2>2, FirstProperties
  <2>4. First(k, i) \preceq k
    BY <1>1, <2>2, FirstIsPrefix
  <2>5. QED
    BY <1>1, <2>2, <2>3, <2>4
<1>3. First(k, Len(k)) = k /\ Len(k) \in (m + 1)..Len(k)
  BY <1>1, FirstFull
<1>4. k \in N /\ k \notin Cached(t) /\ k \notin Nodes(t)
  BY <1>2, <1>3, PositionsArePaths
<1>5. \A p \in N : p \in Path /\ p \notin Cached(t) /\ v[Len(p)] \in Page /\ Len(p) > 0
  BY <1>1, <1>2 DEF SlotsFor
<1>6. t \in [val : [Cached(t) -> Page], lock_ref : [Nodes(t) -> Int],
             evictable_size_ : Int, protected_size_ : Int]
  BY DEF TreeOK, TreeType
<1>7. /\ f \in [Cached(t) \cup N -> Page]
      /\ g \in [Nodes(t) \cup {k} -> Int]
  <2>1. t.val \in [Cached(t) -> Page] /\ t.lock_ref \in [Nodes(t) -> Int]
    BY <1>6
  <2>2. \A p \in Cached(t) \cup N :
           (IF p \in Cached(t) THEN t.val[p] ELSE v[Len(p)]) \in Page
    BY <1>5, <2>1
  <2>3. \A n \in Nodes(t) \cup {k} : (IF n = k THEN 0 ELSE t.lock_ref[n]) \in Int
    BY <2>1
  <2> HIDE DEF N
  <2>4. QED
    BY <2>2, <2>3
<1>8. s = [t EXCEPT !.val = f, !.lock_ref = g, !.evictable_size_ = @ + (Len(k) - m)]
  BY DEF AddLeaf
<1>9. /\ s.val = f /\ s.lock_ref = g
      /\ s \in [val : [Cached(t) \cup N -> Page], lock_ref : [Nodes(t) \cup {k} -> Int],
                evictable_size_ : Int, protected_size_ : Int]
  <2> HIDE DEF f, g, N, s, m
  <2>1. t.evictable_size_ + (Len(k) - m) \in Int
    BY <1>1, <1>6
  <2>2. QED
    BY <1>6, <1>7, <1>8, <2>1
<1>10. Cached(s) = Cached(t) \cup N /\ Nodes(s) = Nodes(t) \cup {k}
  BY <1>9 DEF Cached, Nodes
<1>11. /\ \A p \in Cached(t) : s.val[p] = t.val[p]
       /\ \A p \in N : s.val[p] = v[Len(p)]
       /\ s.lock_ref[k] = 0
       /\ \A n \in Nodes(t) : s.lock_ref[n] = t.lock_ref[n]
  <2> HIDE DEF N, s
  <2>1. QED
    BY <1>4, <1>5, <1>9
<1>12. TreeType(s)
  <2> HIDE DEF N, s
  <2>1. Cached(t) \subseteq Path /\ Nodes(t) \subseteq Path
    BY DEF TreeOK, TreeType
  <2>2. QED
    BY <1>5, <1>9, <1>10, <2>1 DEF TreeType
<1>13. IsFiniteSet(Cached(s))
  <2>1. IsFiniteSet(N)
    <3> DEFINE h == [i \in (m + 1)..Len(k) |-> First(k, i)]
    <3>1. h \in Surjection((m + 1)..Len(k), N)
      BY DEF Surjection
    <3>2. IsFiniteSet((m + 1)..Len(k))
      BY <1>1, FS_Interval
    <3>3. QED
      BY <3>1, <3>2, FS_Surjection
  <2>2. IsFiniteSet(Cached(t))
    BY DEF TreeOK
  <2>3. IsFiniteSet(Cached(t) \cup N)
    <3> HIDE DEF N
    <3> QED
      BY <2>1, <2>2, FS_Union
  <2>4. QED
    BY <1>10, <2>3
<1>14. ASSUME NEW q \in Cached(s)
       PROVE  /\ Len(q) > 0
              /\ \E n \in Nodes(s) : IsOwner(s, q, n)
              /\ \A i \in 1..Len(q) : First(q, i) \in Cached(s)
  <2>1. CASE q \in N
    <3>1. PICK i \in (m + 1)..Len(k) : q = First(k, i)
      BY <2>1
    <3>2. q \in Path /\ Len(q) = i /\ q \preceq k /\ q # Root
      BY <1>1, <1>2, <3>1, RootProperties
    <3>3. \A n \in Nodes(t) : ~(q \preceq n)
      BY <1>2, <3>1, <3>2, PositionsArePaths
    <3>4. IsOwner(s, q, k)
      BY <1>10, <3>2, <3>3, PrefixReflexive DEF IsOwner
    <3>5. ASSUME NEW j \in 1..Len(q)
          PROVE  First(q, j) \in Cached(s)
      <4>1. i \in 0..Len(k) /\ j \in 0..i /\ j \in 1..Len(k)
        BY <1>1, <3>2
      <4>2. First(q, j) = First(k, j)
        BY <3>1, <4>1, FirstOfFirst
      <4>3. CASE j <= m
        BY <1>10, <4>1, <4>2, <4>3, MatchedProperties, <1>1
      <4>4. CASE j > m
        BY <1>1, <1>10, <4>1, <4>2, <4>4
      <4>5. QED
        BY <1>1, <4>1, <4>3, <4>4
    <3>6. QED
      BY <1>1, <1>10, <3>2, <3>4, <3>5
  <2>2. CASE q \in Cached(t)
    <3>1. /\ Len(q) > 0
          /\ \A i \in 1..Len(q) : First(q, i) \in Cached(s)
      BY <1>10, <2>2 DEF TreeOK, IsRadixTree
    <3>2. PICK n \in Nodes(t) : IsOwner(t, q, n)
      BY <2>2 DEF TreeOK, IsRadixTree
    <3>3. q \in Path /\ n \in Path /\ q # Root
      BY <2>2, <3>2, PositionsArePaths
    <3>4. q \preceq k => n \preceq k
      <4>1. SUFFICES ASSUME q \preceq k PROVE n \preceq k
        OBVIOUS
      <4>2. Len(q) \in 0..Len(k) /\ q = First(k, Len(q))
        BY <3>3, <4>1, PrefixIsFirst
      <4>3. Len(q) \in 1..Len(k) /\ Len(q) <= m
        BY <1>1, <2>2, <3>1, <4>2
      <4>4. /\ Matched(t, k) \in Path /\ Matched(t, k) \preceq k
            /\ Len(Matched(t, k)) = m
        BY MatchedProperties
      <4>5. q \preceq Matched(t, k)
        BY <3>3, <4>1, <4>3, <4>4, PrefixesInLine
      <4>6. Matched(t, k) \in Nodes(t)
        BY <3>3, <4>5, RootProperties
      <4>7. n \preceq Matched(t, k)
        BY <3>2, <4>5, <4>6 DEF IsOwner
      <4>8. QED
        BY <3>3, <4>4, <4>7, PrefixTransitive
    <3>5. IsOwner(s, q, n)
      BY <1>10, <3>2, <3>4 DEF IsOwner
    <3>6. QED
      BY <1>10, <3>1, <3>2, <3>5
  <2>3. QED
    BY <1>10, <2>1, <2>2
<1>15. Nodes(s) \subseteq Cached(s)
  BY <1>4, <1>10, PositionsArePaths
<1>16. TreeOK(s)
  BY <1>12, <1>13, <1>14, <1>15 DEF TreeOK, IsRadixTree
<1>17. \A i \in (m + 1)..Len(k) : /\ First(k, i) \notin Cached(t)
                                  /\ s.val[First(k, i)] = v[i]
  BY <1>2, <1>11
<1>18. QED
  BY <1>4, <1>10, <1>11, <1>16, <1>17

(* Insert makes k a node and every prefix of k a cached position; what was *)
(* cached keeps its slot.                                                  *)
LEMMA InsertProperties ==
  ASSUME NEW t, TreeOK(t), NEW k \in Path, NEW v,
         SlotsFor(v, k)
  PROVE  LET s == Insert(t, k, v)
         IN  /\ TreeOK(s)
             /\ Nodes(t) \subseteq Nodes(s) /\ k \in Nodes(s) \cup {Root}
             /\ Cached(s) = Cached(t) \cup {First(k, i) : i \in (MatchLen(t, k) + 1)..Len(k)}
             /\ \A p \in Cached(t) : s.val[p] = t.val[p]
             /\ \A i \in (MatchLen(t, k) + 1)..Len(k) :
                   First(k, i) \notin Cached(t) /\ s.val[First(k, i)] = v[i]
             /\ \A i \in 1..Len(k) : First(k, i) \in Cached(s)
<1> DEFINE m == MatchLen(t, k)
           u == Split(t, First(k, m))
           s == Insert(t, k, v)
<1>1. /\ Len(k) \in Nat /\ m \in 0..Len(k)
  BY PathProperties, MatchLenProperties
<1>2. /\ First(k, m) \in Cached(t) \cup {Root}
      /\ \A i \in 1..m : First(k, i) \in Cached(t)
  BY MatchedProperties DEF Matched
<1>3. /\ TreeOK(u) /\ u.val = t.val
      /\ Nodes(u) = Nodes(t) \cup ({First(k, m)} \ {Root})
  BY <1>2, SplitProperties
<1>4. Cached(u) = Cached(t)
  BY <1>3 DEF Cached
<1>5. MatchLen(u, k) = m
  BY <1>4 DEF MatchLen
<1>6. Matched(u, k) \in Nodes(u) \cup {Root}
  BY <1>3, <1>5 DEF Matched
<1>7. CASE m = Len(k)
  <2>1. s = u
    BY <1>1, <1>7 DEF Insert
  <2>2. First(k, m) = k /\ (m + 1)..Len(k) = {}
    BY <1>1, <1>7, FirstFull
  <2>3. QED
    BY <1>2, <1>3, <1>4, <1>7, <2>1, <2>2
<1>8. CASE m < Len(k)
  <2>1. s = AddLeaf(u, k, v, m)
    BY <1>8 DEF Insert
  <2>2. /\ TreeOK(s)
        /\ Nodes(s) = Nodes(u) \cup {k}
        /\ Cached(s) = Cached(u) \cup {First(k, i) : i \in (m + 1)..Len(k)}
        /\ \A p \in Cached(u) : s.val[p] = u.val[p]
        /\ \A i \in (m + 1)..Len(k) : /\ First(k, i) \notin Cached(u)
                                      /\ s.val[First(k, i)] = v[i]
    BY <1>3, <1>5, <1>6, <1>8, <2>1, AddLeafProperties
  <2>3. \A i \in 1..Len(k) : First(k, i) \in Cached(s)
    BY <1>1, <1>2, <1>4, <2>2
  <2>4. QED
    BY <1>3, <1>4, <2>2, <2>3
<1>9. QED
  BY <1>1, <1>7, <1>8

(* Insert keeps the locks in step: nobody holds the new leaf. *)
LEMMA InsertLocks ==
  ASSUME NEW t, TreeOK(t), NEW k \in Path, NEW v,
         SlotsFor(v, k),
         NEW H, NEW ln, Locks(t, H, ln)
  PROVE  Locks(Insert(t, k, v), H, ln)
<1> DEFINE m == MatchLen(t, k)
           u == Split(t, First(k, m))
           s == Insert(t, k, v)
<1>1. /\ Len(k) \in Nat /\ m \in 0..Len(k)
  BY PathProperties, MatchLenProperties
<1>2. First(k, m) \in Cached(t) \cup {Root}
  BY MatchedProperties DEF Matched
<1>3. /\ TreeOK(u) /\ u.val = t.val /\ Locks(u, H, ln)
      /\ Nodes(u) = Nodes(t) \cup ({First(k, m)} \ {Root})
  BY <1>2, SplitProperties, SplitLocks
<1>4. Cached(u) = Cached(t)
  BY <1>3 DEF Cached
<1>5. MatchLen(u, k) = m
  BY <1>4 DEF MatchLen
<1>6. Matched(u, k) \in Nodes(u) \cup {Root}
  BY <1>3, <1>5 DEF Matched
<1>7. CASE m = Len(k)
  BY <1>1, <1>3, <1>7 DEF Insert
<1>8. CASE m < Len(k)
  <2>1. s = AddLeaf(u, k, v, m)
    BY <1>8 DEF Insert
  <2>2. /\ Nodes(s) = Nodes(u) \cup {k} /\ k \notin Cached(u)
        /\ s.lock_ref[k] = 0
        /\ \A n \in Nodes(u) : s.lock_ref[n] = u.lock_ref[n]
    BY <1>3, <1>5, <1>6, <1>8, <2>1, AddLeafProperties
  <2>3. k # Root
    BY <1>1, <1>8, RootProperties
  <2>4. \A r \in H : ~(k \preceq ln[r])
    BY <1>3, <2>2, <2>3, PositionsArePaths, RootProperties DEF Locks
  <2>5. {r \in H : k \preceq ln[r]} = {}
    BY <2>4
  <2>6. s.lock_ref[k] = Cardinality({r \in H : k \preceq ln[r]})
    BY <2>2, <2>5, FS_EmptySet
  <2>7. QED
    BY <1>3, <2>2, <2>6 DEF Locks
<1>9. QED
  BY <1>1, <1>7, <1>8

---------------------------------------------------------------------------
(* Locks                                                                   *)

(* inc_lock_ref and dec_lock_ref change nothing but the counts. *)
LEMMA LockRefProperties ==
  ASSUME NEW t, TreeOK(t), NEW n \in Path
  PROVE  /\ TreeOK(IncLockRef(t, n)) /\ TreeOK(DecLockRef(t, n))
         /\ IncLockRef(t, n).val = t.val /\ DecLockRef(t, n).val = t.val
         /\ Nodes(IncLockRef(t, n)) = Nodes(t) /\ Nodes(DecLockRef(t, n)) = Nodes(t)
         /\ \A m \in Nodes(t) :
              /\ IncLockRef(t, n).lock_ref[m] = IF m \preceq n THEN t.lock_ref[m] + 1
                                                               ELSE t.lock_ref[m]
              /\ DecLockRef(t, n).lock_ref[m] = IF m \preceq n THEN t.lock_ref[m] - 1
                                                               ELSE t.lock_ref[m]
<1> DEFINE i == IncLockRef(t, n)
           d == DecLockRef(t, n)
           c0 == Cardinality(WithCount(t, n, 0))
           c1 == Cardinality(WithCount(t, n, 1))
           fi == [m \in Nodes(t) |-> IF m \preceq n THEN t.lock_ref[m] + 1 ELSE t.lock_ref[m]]
           fd == [m \in Nodes(t) |-> IF m \preceq n THEN t.lock_ref[m] - 1 ELSE t.lock_ref[m]]
<1>1. /\ t \in [val : [Cached(t) -> Page], lock_ref : [Nodes(t) -> Int],
                evictable_size_ : Int, protected_size_ : Int]
      /\ IsFiniteSet(Cached(t))
  BY DEF TreeOK, TreeType
<1>2. c0 \in Nat /\ c1 \in Nat
  <2>1. WithCount(t, n, 0) \in SUBSET Cached(t) /\ WithCount(t, n, 1) \in SUBSET Cached(t)
    BY DEF WithCount
  <2>2. IsFiniteSet(WithCount(t, n, 0)) /\ IsFiniteSet(WithCount(t, n, 1))
    BY <1>1, <2>1, FS_Subset
  <2>3. QED
    BY <2>2, FS_CardinalityType
<1>3. fi \in [Nodes(t) -> Int] /\ fd \in [Nodes(t) -> Int]
  BY <1>1
<1>4. /\ i = [t EXCEPT !.lock_ref = fi, !.evictable_size_ = @ - c0, !.protected_size_ = @ + c0]
      /\ d = [t EXCEPT !.lock_ref = fd, !.evictable_size_ = @ + c1, !.protected_size_ = @ - c1]
  BY DEF IncLockRef, DecLockRef
<1>5. /\ i.val = t.val /\ d.val = t.val /\ i.lock_ref = fi /\ d.lock_ref = fd
      /\ i \in [val : [Cached(t) -> Page], lock_ref : [Nodes(t) -> Int],
                evictable_size_ : Int, protected_size_ : Int]
      /\ d \in [val : [Cached(t) -> Page], lock_ref : [Nodes(t) -> Int],
                evictable_size_ : Int, protected_size_ : Int]
  <2> HIDE DEF i, d, c0, c1, fi, fd
  <2>1. /\ t.evictable_size_ - c0 \in Int /\ t.protected_size_ + c0 \in Int
        /\ t.evictable_size_ + c1 \in Int /\ t.protected_size_ - c1 \in Int
    BY <1>1, <1>2
  <2>2. QED
    BY <1>1, <1>3, <1>4, <2>1
<1>6. /\ Cached(i) = Cached(t) /\ Nodes(i) = Nodes(t)
      /\ Cached(d) = Cached(t) /\ Nodes(d) = Nodes(t)
  BY <1>5 DEF Cached, Nodes
<1>7. TreeType(i) /\ TreeType(d)
  <2> HIDE DEF i, d
  <2> QED
    BY <1>5, <1>6 DEF TreeOK, TreeType
<1>8. IsRadixTree(i) /\ IsRadixTree(d)
  <2> HIDE DEF i, d
  <2> QED
    BY <1>6 DEF TreeOK, IsRadixTree, IsOwner
<1>9. TreeOK(i) /\ TreeOK(d)
  <2> HIDE DEF i, d
  <2> QED
    BY <1>1, <1>6, <1>7, <1>8 DEF TreeOK
<1>10. QED
  BY <1>5, <1>6, <1>9

(* inc_lock_ref gives the locks of one more holder. *)
LEMMA IncLockRefLocks ==
  ASSUME NEW t, TreeOK(t), NEW H, IsFiniteSet(H), NEW ln, Locks(t, H, ln),
         NEW r, r \notin H, NEW n \in Nodes(t) \cup {Root}, NEW ln2, ln2[r] = n,
         \A q \in H : ln2[q] = ln[q]
  PROVE  Locks(IncLockRef(t, n), H \cup {r}, ln2)
<1>1. n \in Path
  BY PositionsArePaths, RootProperties
<1>2. /\ Nodes(IncLockRef(t, n)) = Nodes(t)
      /\ \A m \in Nodes(t) :
           IncLockRef(t, n).lock_ref[m] = IF m \preceq n THEN t.lock_ref[m] + 1
                                                         ELSE t.lock_ref[m]
  BY <1>1, LockRefProperties
<1>3. \A q \in H \cup {r} : ln2[q] \in Nodes(t) \cup {Root}
  BY DEF Locks
<1>4. ASSUME NEW m \in Nodes(t)
      PROVE  IncLockRef(t, n).lock_ref[m]
               = Cardinality({q \in H \cup {r} : m \preceq ln2[q]})
  <2> DEFINE A == {q \in H : m \preceq ln[q]}
             B == {q \in H \cup {r} : m \preceq ln2[q]}
  <2>1. IsFiniteSet(A) /\ r \notin A
    BY FS_Subset
  <2>2. t.lock_ref[m] = Cardinality(A)
    BY DEF Locks
  <2>3. CASE m \preceq n
    <3>1. B = A \cup {r}
      BY <2>3
    <3>2. Cardinality(A \cup {r}) = Cardinality(A) + 1
      <4> HIDE DEF A
      <4> QED
        BY <2>1, FS_AddElement
    <3>3. QED
      BY <1>2, <2>2, <2>3, <3>1, <3>2
  <2>4. CASE ~(m \preceq n)
    <3>1. B = A
      BY <2>4
    <3>2. QED
      BY <1>2, <2>2, <2>4, <3>1
  <2>5. QED
    BY <2>3, <2>4
<1>5. QED
  BY <1>2, <1>3, <1>4 DEF Locks

(* dec_lock_ref at a holder's node gives the locks of the other holders. *)
LEMMA DecLockRefLocks ==
  ASSUME NEW t, TreeOK(t), NEW H, IsFiniteSet(H), NEW ln, Locks(t, H, ln), NEW r \in H
  PROVE  Locks(DecLockRef(t, ln[r]), H \ {r}, ln)
<1> DEFINE n == ln[r]
<1>1. n \in Nodes(t) \cup {Root} /\ n \in Path
  BY PositionsArePaths, RootProperties DEF Locks
<1>2. /\ Nodes(DecLockRef(t, n)) = Nodes(t)
      /\ \A m \in Nodes(t) :
           DecLockRef(t, n).lock_ref[m] = IF m \preceq n THEN t.lock_ref[m] - 1
                                                         ELSE t.lock_ref[m]
  <2> HIDE DEF n
  <2> QED
    BY <1>1, LockRefProperties
<1>3. \A q \in H \ {r} : ln[q] \in Nodes(t) \cup {Root}
  BY DEF Locks
<1>4. ASSUME NEW m \in Nodes(t)
      PROVE  DecLockRef(t, n).lock_ref[m]
               = Cardinality({q \in H \ {r} : m \preceq ln[q]})
  <2> DEFINE A == {q \in H : m \preceq ln[q]}
             B == {q \in H \ {r} : m \preceq ln[q]}
  <2>1. IsFiniteSet(A)
    BY FS_Subset
  <2>2. t.lock_ref[m] = Cardinality(A)
    BY DEF Locks
  <2>3. CASE m \preceq n
    <3>1. B = A \ {r} /\ r \in A
      BY <2>3
    <3>2. Cardinality(A \ {r}) = Cardinality(A) - 1
      <4> HIDE DEF A
      <4> QED
        BY <2>1, <3>1, FS_RemoveElement
    <3>3. QED
      BY <1>2, <2>2, <2>3, <3>1, <3>2
  <2>4. CASE ~(m \preceq n)
    <3>1. B = A
      BY <2>4
    <3>2. QED
      BY <1>2, <2>2, <2>4, <3>1
  <2>5. QED
    BY <2>3, <2>4
<1>5. QED
  BY <1>2, <1>3, <1>4 DEF Locks

---------------------------------------------------------------------------
(* Eviction                                                                *)

(* Evicting a downward closed set of nodes leaves a tree: the nodes that   *)
(* stay keep their keys, and every position that stays keeps its slot.     *)
LEMMA EvictProperties ==
  ASSUME NEW t, TreeOK(t), NEW E \in SUBSET Nodes(t), ClosedBelow(t, E)
  PROVE  LET s == Evict(t, E)
         IN  /\ TreeOK(s)
             /\ Cached(s) = Cached(t) \ Covered(t, E)
             /\ Nodes(s) = Nodes(t) \ E
             /\ \A p \in Cached(s) : s.val[p] = t.val[p]
             /\ \A n \in Nodes(s) : s.lock_ref[n] = t.lock_ref[n]
<1> DEFINE s == Evict(t, E)
           C == Covered(t, E)
           f == [p \in Cached(t) \ C |-> t.val[p]]
           g == [n \in Nodes(t) \ E |-> t.lock_ref[n]]
           c == Cardinality(C)
<1>1. /\ t \in [val : [Cached(t) -> Page], lock_ref : [Nodes(t) -> Int],
                evictable_size_ : Int, protected_size_ : Int]
      /\ IsFiniteSet(Cached(t)) /\ Cached(t) \subseteq Path /\ Nodes(t) \subseteq Path
  BY DEF TreeOK, TreeType
<1>2. C \subseteq Cached(t)
  BY DEF Covered
<1>3. c \in Nat
  <2>1. IsFiniteSet(C)
    BY <1>1, <1>2, FS_Subset
  <2>2. QED
    BY <2>1, FS_CardinalityType
<1>4. s = [t EXCEPT !.val = f, !.lock_ref = g, !.evictable_size_ = @ - c]
  BY DEF Evict
<1>5. f \in [Cached(t) \ C -> Page] /\ g \in [Nodes(t) \ E -> Int]
  <2> HIDE DEF C
  <2> QED
    BY <1>1
<1>6. /\ s.val = f /\ s.lock_ref = g
      /\ s \in [val : [Cached(t) \ C -> Page], lock_ref : [Nodes(t) \ E -> Int],
                evictable_size_ : Int, protected_size_ : Int]
  <2> HIDE DEF s, C, f, g, c
  <2>1. t.evictable_size_ - c \in Int
    BY <1>1, <1>3
  <2>2. QED
    BY <1>1, <1>4, <1>5, <2>1
<1>7. Cached(s) = Cached(t) \ C /\ Nodes(s) = Nodes(t) \ E
  <2> HIDE DEF s, C
  <2> QED
    BY <1>6 DEF Cached, Nodes
<1>8. /\ \A p \in Cached(s) : s.val[p] = t.val[p]
      /\ \A n \in Nodes(s) : s.lock_ref[n] = t.lock_ref[n]
  <2> HIDE DEF s, C
  <2> QED
    BY <1>6, <1>7
<1>9. IsFiniteSet(Cached(s))
  <2>1. Cached(s) \in SUBSET Cached(t)
    BY <1>7
  <2>2. QED
    BY <1>1, <2>1, FS_Subset
<1>10. TreeType(s)
  <2> HIDE DEF s, C
  <2> QED
    BY <1>1, <1>6, <1>7 DEF TreeType
<1>11. Nodes(s) \subseteq Cached(s)
  <2>1. SUFFICES ASSUME NEW n \in Nodes(s)
                 PROVE  n \in Cached(s)
    OBVIOUS
  <2>2. n \in Nodes(t) /\ n \notin E /\ n \in Cached(t) /\ n \in Path
    BY <1>7, <2>1, PositionsArePaths
  <2>3. n \notin C
    BY <2>2, PrefixReflexive DEF Covered
  <2>4. QED
    BY <1>7, <2>2, <2>3
<1>12. ASSUME NEW p \in Cached(s)
       PROVE  /\ Len(p) > 0
              /\ \E n \in Nodes(s) : IsOwner(s, p, n)
              /\ \A i \in 1..Len(p) : First(p, i) \in Cached(s)
  <2>1. p \in Cached(t) /\ p \in Path /\ p \notin C
    BY <1>7, <1>12, PositionsArePaths
  <2>2. PICK n \in Nodes(t) : p \preceq n /\ n \notin E
    BY <2>1 DEF Covered
  <2>3. PICK o \in Nodes(t) : IsOwner(t, p, o)
    BY <2>1 DEF TreeOK, IsRadixTree
  <2>4. o \preceq n
    BY <2>2, <2>3 DEF IsOwner
  <2>5. o \notin E
    BY <2>2, <2>4 DEF ClosedBelow
  <2>6. IsOwner(s, p, o)
    BY <1>7, <2>3, <2>5 DEF IsOwner
  <2>7. ASSUME NEW i \in 1..Len(p)
        PROVE  First(p, i) \in Cached(s)
    <3>1. First(p, i) \in Cached(t)
      BY <2>1 DEF TreeOK, IsRadixTree
    <3>2. Len(p) \in Nat /\ i \in 0..Len(p) /\ Len(p) \in i..Len(p)
      BY <2>1, PathProperties
    <3>3. First(p, i) \preceq p
      BY <2>1, <3>2, FirstIsPrefix
    <3>4. First(p, i) \preceq n
      BY <1>1, <2>1, <2>2, <3>1, <3>3, PrefixTransitive
    <3>5. First(p, i) \notin C
      BY <2>2, <3>4 DEF Covered
    <3>6. QED
      BY <1>7, <3>1, <3>5
  <2>8. Len(p) > 0
    BY <2>1 DEF TreeOK, IsRadixTree
  <2>9. QED
    BY <1>7, <2>5, <2>6, <2>7, <2>8
<1>13. TreeOK(s)
  BY <1>9, <1>10, <1>11, <1>12 DEF TreeOK, IsRadixTree
<1>14. QED
  BY <1>7, <1>8, <1>13

(* Evicting unlocked nodes takes nothing from a holder: its node stays, and*)
(* so does every position above it.                                        *)
LEMMA EvictLocks ==
  ASSUME NEW t, TreeOK(t), NEW E \in SUBSET Nodes(t), Evictable(t, E),
         NEW H, IsFiniteSet(H), NEW ln, Locks(t, H, ln)
  PROVE  /\ Locks(Evict(t, E), H, ln)
         /\ \A r \in H : \A p \in Cached(t) :
              p \preceq ln[r] => p \in Cached(Evict(t, E))
<1> DEFINE s == Evict(t, E)
<1>1. /\ Cached(s) = Cached(t) \ Covered(t, E) /\ Nodes(s) = Nodes(t) \ E
      /\ \A n \in Nodes(s) : s.lock_ref[n] = t.lock_ref[n]
  BY EvictProperties DEF Evictable
<1>2. ASSUME NEW r \in H
      PROVE  ln[r] \notin E
  <2>1. SUFFICES ASSUME ln[r] \in E PROVE FALSE
    OBVIOUS
  <2> DEFINE A == {q \in H : ln[r] \preceq ln[q]}
  <2>2. ln[r] \in Nodes(t) /\ ln[r] \in Path
    BY <2>1, PositionsArePaths
  <2>3. r \in A
    BY <2>2, PrefixReflexive
  <2>4. IsFiniteSet(A)
    BY FS_Subset
  <2>5. Cardinality(A) # 0
    <3> HIDE DEF A
    <3> QED
      BY <2>3, <2>4, FS_EmptySet
  <2>6. t.lock_ref[ln[r]] = Cardinality(A)
    BY <2>2 DEF Locks
  <2>7. t.lock_ref[ln[r]] = 0
    BY <2>1 DEF Evictable
  <2>8. QED
    BY <2>5, <2>6, <2>7
<1>3. Locks(s, H, ln)
  BY <1>1, <1>2 DEF Locks
<1>4. ASSUME NEW r \in H, NEW p \in Cached(t), p \preceq ln[r]
      PROVE  p \in Cached(s)
  <2>1. ln[r] \in Nodes(t)
    BY <1>4, PositionsArePaths, RootProperties DEF Locks
  <2>2. p \notin Covered(t, E)
    BY <1>2, <1>4, <2>1 DEF Covered
  <2>3. QED
    BY <1>1, <2>2
<1>5. QED
  BY <1>3, <1>4

---------------------------------------------------------------------------
(* The inductive invariant                                                 *)

Holders == {r \in Req : Holds(r)}

(* the forwards in flight of a running request, and the row they write to: *)
(* every forward but a chunk's owes one token                              *)
InFlight(r) ==
  LET s == results[r]
  IN  \/ Len(s) = 0 /\ Len(row[r]) + 1 = Len(ids[r])
      \/ Len(s) = 1 /\ s[1] # "chunk" /\ Len(row[r]) = Len(ids[r])
      \/ Len(s) = 2 /\ s[1] = "chunk" /\ s[2] # "chunk" /\ Len(row[r]) = Len(ids[r])
      \/ Len(s) = 2 /\ s[1] # "chunk" /\ s[2] # "chunk" /\ Len(row[r]) = Len(ids[r]) + 1

(* how far request r has come, and how much of its row is written *)
Progress(r) ==
  /\ ~Holds(r) => row[r] = << >> /\ last_node[r] = Root
  /\ stage[r] # "finished" => Len(ids[r]) > 0
  /\ Holds(r) => Len(last_node[r]) <= Len(row[r])
  /\ stage[r] = "chunked" => /\ Len(row[r]) = fill_len[r]
                             /\ 0 < fill_len[r] /\ fill_len[r] < Len(ids[r])
                             /\ \A i \in 1..Len(results[r]) : results[r][i] = "chunk"
  /\ stage[r] = "running" => InFlight(r)

(* the shared part of r's row is what tree t holds for its prefix *)
Follows(t, r) ==
  /\ last_node[r] \preceq ids[r]
  /\ \A i \in 1..Len(last_node[r]) :
       /\ First(ids[r], i) \in Cached(t)
       /\ row[r][i] = t.val[First(ids[r], i)]

(* the types of everything but the tree *)
ReqTypes ==
  /\ stage \in [Req -> {"waiting", "chunked", "running", "finished"}]
  /\ ids \in [Req -> Path] /\ last_node \in [Req -> Path]
  /\ fill_len \in [Req -> Nat]
  /\ row \in [Req -> Seq(Page)]
  /\ results \in [Req -> Seq({"chunk", "extend", "decode"})]
  /\ delayed \in [Req -> SUBSET Page]

SlotTypes == free_slots \subseteq Page /\ twice_freed \subseteq Page

IInv ==
  /\ SlotTypes /\ ReqTypes
  /\ TreeOK(tree)
  /\ Locks(tree, Holders, last_node)
  /\ \A r \in Req : Progress(r) /\ (Holds(r) => Follows(tree, r))

(* what tree s keeps of tree t for the holders H *)
Pins(t, s, H, ln) ==
  \A r \in H : \A p \in Cached(t) :
    p \preceq ln[r] => p \in Cached(s) /\ s.val[p] = t.val[p]

---------------------------------------------------------------------------
(* What the tree operations of the cache do to the tree and the locks      *)

(* The locks depend on the holders' own nodes only. *)
LEMMA LocksOf ==
  ASSUME NEW t, NEW H, NEW ln, NEW ln2, Locks(t, H, ln), \A q \in H : ln2[q] = ln[q]
  PROVE  Locks(t, H, ln2)
<1>1. \A n : {q \in H : n \preceq ln2[q]} = {q \in H : n \preceq ln[q]}
  OBVIOUS
<1>2. QED
  BY <1>1 DEF Locks

(* match_prefix on a tree where all of k is cached ends at k. *)
LEMMA MatchPrefixProperties ==
  ASSUME NEW t, TreeOK(t), NEW k \in Path
  PROVE  LET s == MatchPrefix(t, k)
         IN  /\ TreeOK(s) /\ s.val = t.val /\ Cached(s) = Cached(t)
             /\ Nodes(t) \subseteq Nodes(s)
             /\ Matched(t, k) \in Nodes(s) \cup {Root}
             /\ \A H, ln : Locks(t, H, ln) => Locks(s, H, ln)
<1> DEFINE p == Matched(t, k)
           s == MatchPrefix(t, k)
<1>1. p \in Cached(t) \cup {Root} /\ s = Split(t, p)
  BY MatchedProperties DEF MatchPrefix
<1>2. TreeOK(s) /\ s.val = t.val /\ Nodes(s) = Nodes(t) \cup ({p} \ {Root})
  BY <1>1, SplitProperties
<1>3. Cached(s) = Cached(t)
  BY <1>2 DEF Cached
<1>4. \A H, ln : Locks(t, H, ln) => Locks(s, H, ln)
  BY <1>1, SplitLocks
<1>5. QED
  BY <1>2, <1>3, <1>4

(* Admission: the new holder's node is the end of the matched prefix. *)
LEMMA LockPrefix ==
  ASSUME NEW t, TreeOK(t), NEW k \in Path, NEW H, IsFiniteSet(H), NEW ln, Locks(t, H, ln),
         NEW r, r \notin H, NEW ln2, ln2[r] = Matched(t, k), \A q \in H : ln2[q] = ln[q]
  PROVE  LET s == IncLockRef(MatchPrefix(t, k), Matched(t, k))
         IN  /\ TreeOK(s) /\ s.val = t.val /\ Cached(s) = Cached(t)
             /\ Locks(s, H \cup {r}, ln2)
<1> DEFINE u == MatchPrefix(t, k)
           n == Matched(t, k)
           s == IncLockRef(u, n)
<1>1. /\ TreeOK(u) /\ u.val = t.val /\ Cached(u) = Cached(t)
      /\ n \in Nodes(u) \cup {Root} /\ Locks(u, H, ln)
  BY MatchPrefixProperties
<1>2. n \in Path
  BY MatchedProperties
<1> HIDE DEF u, n
<1>3. TreeOK(s) /\ s.val = u.val
  BY <1>1, <1>2, LockRefProperties
<1>4. Cached(s) = Cached(u)
  BY <1>3 DEF Cached
<1>5. ln2[r] = n
  BY DEF n
<1>6. Locks(s, H \cup {r}, ln2)
  BY <1>1, <1>5, IncLockRefLocks
<1>7. QED
  BY <1>1, <1>3, <1>4, <1>6 DEF u, n

(* cache_unfinished_req: all of k is cached, and r holds k instead of ln[r]*)
LEMMA MoveLock ==
  ASSUME NEW t, TreeOK(t), NEW k \in Path, NEW v, SlotsFor(v, k),
         NEW H, IsFiniteSet(H), NEW ln, Locks(t, H, ln), NEW r \in H,
         NEW ln2, ln2[r] = k, \A q \in H \ {r} : ln2[q] = ln[q]
  PROVE  LET s == IncLockRef(DecLockRef(MatchPrefix(Insert(t, k, v), k), ln[r]), k)
         IN  /\ TreeOK(s)
             /\ Locks(s, H, ln2)
             /\ \A p \in Cached(t) : p \in Cached(s) /\ s.val[p] = t.val[p]
             /\ \A i \in 1..Len(k) : First(k, i) \in Cached(s)
<1> DEFINE u == Insert(t, k, v)
           w == MatchPrefix(u, k)
           d == DecLockRef(w, ln[r])
           s == IncLockRef(d, k)
<1>1. /\ TreeOK(u) /\ Locks(u, H, ln) /\ k \in Nodes(u) \cup {Root}
      /\ \A p \in Cached(t) : p \in Cached(u) /\ u.val[p] = t.val[p]
      /\ \A i \in 1..Len(k) : First(k, i) \in Cached(u)
  BY InsertProperties, InsertLocks
<1>2. /\ TreeOK(w) /\ w.val = u.val /\ Cached(w) = Cached(u) /\ Locks(w, H, ln)
      /\ Nodes(u) \subseteq Nodes(w)
  <2> HIDE DEF u
  <2> QED
    BY <1>1, MatchPrefixProperties
<1> HIDE DEF u, w
<1>3. ln[r] \in Path
  BY <1>2, PositionsArePaths, RootProperties DEF Locks
<1>4. TreeOK(d) /\ d.val = w.val /\ Nodes(d) = Nodes(w) /\ Locks(d, H \ {r}, ln)
  BY <1>2, <1>3, LockRefProperties, DecLockRefLocks
<1> HIDE DEF d
<1>5. TreeOK(s) /\ s.val = d.val
  BY <1>4, LockRefProperties
<1>6. Locks(s, H, ln2)
  <2>1. IsFiniteSet(H \ {r}) /\ r \notin H \ {r} /\ (H \ {r}) \cup {r} = H
    BY FS_RemoveElement
  <2>2. k \in Nodes(d) \cup {Root}
    BY <1>1, <1>2, <1>4
  <2>3. Locks(s, (H \ {r}) \cup {r}, ln2)
    BY <1>4, <2>1, <2>2, IncLockRefLocks
  <2>4. QED
    BY <2>1, <2>3
<1>7. Cached(s) = Cached(u) /\ s.val = u.val
  BY <1>2, <1>4, <1>5 DEF Cached
<1>8. QED
  BY <1>1, <1>5, <1>6, <1>7 DEF u, w, d

(* Evicting unlocked nodes takes no slot from a holder. *)
LEMMA EvictKeeps ==
  ASSUME NEW t, TreeOK(t), NEW E \in SUBSET Nodes(t), Evictable(t, E),
         NEW H, IsFiniteSet(H), NEW ln, Locks(t, H, ln)
  PROVE  /\ TreeOK(Evict(t, E)) /\ Locks(Evict(t, E), H, ln)
         /\ Pins(t, Evict(t, E), H, ln)
         /\ EvictedSlots(t, E) \subseteq Page
<1>1. /\ TreeOK(Evict(t, E))
      /\ \A p \in Cached(Evict(t, E)) : Evict(t, E).val[p] = t.val[p]
  BY EvictProperties DEF Evictable
<1>2. /\ Locks(Evict(t, E), H, ln)
      /\ \A r \in H : \A p \in Cached(t) : p \preceq ln[r] => p \in Cached(Evict(t, E))
  BY EvictLocks
<1>3. Pins(t, Evict(t, E), H, ln)
  BY <1>1, <1>2 DEF Pins
<1>4. EvictedSlots(t, E) \subseteq Page
  <2>1. t.val \in [Cached(t) -> Page]
    BY DEF TreeOK, TreeType
  <2>2. QED
    BY <2>1 DEF EvictedSlots, Covered
<1>5. QED
  BY <1>1, <1>2, <1>3, <1>4

(* What alloc_token_slots evicts is evictable. *)
LEMMA EvictForSlots ==
  ASSUME NEW t, TreeOK(t), NEW free, NEW num, NEW E \in SUBSET Nodes(t),
         EvictIfShort(t, free, num, E),
         NEW H, IsFiniteSet(H), NEW ln, Locks(t, H, ln)
  PROVE  /\ TreeOK(Evict(t, E)) /\ Locks(Evict(t, E), H, ln)
         /\ Pins(t, Evict(t, E), H, ln)
         /\ EvictedSlots(t, E) \subseteq Page
<1>1. Evictable(t, E)
  BY DEF EvictIfShort, Evictions, Evictable, ClosedBelow
<1>2. QED
  BY <1>1, EvictKeeps

(* evict of as much as it can: all the nodes with nothing locked below *)
LEMMA AllEvictable ==
  ASSUME NEW t, TreeOK(t),
         NEW E, E = {n \in Nodes(t) : Evictable(t, {m \in Nodes(t) : n \preceq m})}
  PROVE  E \in SUBSET Nodes(t) /\ Evictable(t, E)
<1>1. \A n \in Nodes(t) : n \in Path
  BY PositionsArePaths
<1>2. ASSUME NEW n \in E
      PROVE  t.lock_ref[n] = 0 /\ \A m \in Nodes(t) : n \preceq m => m \in E
  <2>1. n \in Nodes(t) /\ Evictable(t, {m \in Nodes(t) : n \preceq m})
    BY <1>2
  <2>2. \A m \in Nodes(t) : n \preceq m => t.lock_ref[m] = 0
    BY <2>1 DEF Evictable
  <2>3. ASSUME NEW m \in Nodes(t), n \preceq m
        PROVE  m \in E
    <3>1. \A l \in Nodes(t) : m \preceq l => n \preceq l
      BY <1>1, <2>1, <2>3, PrefixTransitive
    <3>2. \A l \in Nodes(t) : m \preceq l => t.lock_ref[l] = 0
      BY <2>2, <3>1
    <3>3. ClosedBelow(t, {l \in Nodes(t) : m \preceq l})
      BY <1>1, PrefixTransitive DEF ClosedBelow
    <3>4. Evictable(t, {l \in Nodes(t) : m \preceq l})
      BY <3>2, <3>3 DEF Evictable
    <3>5. QED
      BY <3>4
  <2>4. QED
    BY <1>1, <2>1, <2>2, <2>3, PrefixReflexive
<1>3. QED
  BY <1>2 DEF Evictable, ClosedBelow

---------------------------------------------------------------------------
(* Rows and results                                                        *)

Kind == {"chunk", "extend", "decode"}

(* the results of r when a forward is launched, and when one is processed *)
LEMMA ResultFacts ==
  ASSUME NEW s \in Seq(Kind)
  PROVE  /\ Len(s) \in Nat
         /\ \A x \in Kind : /\ Append(s, x) \in Seq(Kind)
                            /\ Len(Append(s, x)) = Len(s) + 1
                            /\ \A i \in 1..Len(s) : Append(s, x)[i] = s[i]
                            /\ Append(s, x)[Len(s) + 1] = x
         /\ s # << >> => /\ Len(s) >= 1 /\ Head(s) = s[1]
                         /\ Tail(s) \in Seq(Kind) /\ Len(Tail(s)) = Len(s) - 1
                         /\ \A i \in 1..(Len(s) - 1) : Tail(s)[i] = s[i + 1]
<1>1. Len(s) \in Nat
  OBVIOUS
<1>2. ASSUME NEW x \in Kind
      PROVE  /\ Append(s, x) \in Seq(Kind)
             /\ Len(Append(s, x)) = Len(s) + 1
             /\ \A i \in 1..Len(s) : Append(s, x)[i] = s[i]
             /\ Append(s, x)[Len(s) + 1] = x
  BY AppendProperties
<1>3. ASSUME s # << >>
      PROVE  /\ Len(s) >= 1 /\ Head(s) = s[1]
             /\ Tail(s) \in Seq(Kind) /\ Len(Tail(s)) = Len(s) - 1
             /\ \A i \in 1..(Len(s) - 1) : Tail(s)[i] = s[i + 1]
  BY <1>3, HeadTailProperties, EmptySeq
<1>4. QED
  BY <1>1, <1>2, <1>3

(* A row of m slots of the tree and n new ones *)
LEMMA RowOfProperties ==
  ASSUME NEW t, NEW k, NEW m \in Nat, NEW n \in Nat, NEW a \in [1..n -> Page],
         \A i \in 1..m : t.val[First(k, i)] \in Page
  PROVE  /\ RowOf(t, k, m, a, n) \in Seq(Page)
         /\ Len(RowOf(t, k, m, a, n)) = m + n
         /\ \A i \in 1..m : RowOf(t, k, m, a, n)[i] = t.val[First(k, i)]
<1> DEFINE R == RowOf(t, k, m, a, n)
<1>1. R = [i \in 1..(m + n) |-> IF i <= m THEN t.val[First(k, i)] ELSE a[i - m]]
  BY DEF RowOf
<1>2. \A i \in 1..(m + n) : (IF i <= m THEN t.val[First(k, i)] ELSE a[i - m]) \in Page
  <2>1. SUFFICES ASSUME NEW i \in 1..(m + n), ~(i <= m) PROVE a[i - m] \in Page
    BY SMT
  <2>2. i - m \in 1..n
    BY <2>1
  <2>3. QED
    BY <2>2
<1>3. R \in [1..(m + n) -> Page]
  BY <1>1, <1>2
<1>4. m + n \in Nat
  OBVIOUS
<1>5. R \in Seq(Page) /\ Len(R) = m + n
  <2> HIDE DEF R
  <2> QED
    BY <1>3, <1>4
<1>6. QED
  BY <1>1, <1>5

LEMMA RowFromFunction ==
  ASSUME NEW n \in Nat, NEW s \in [1..n -> Page]
  PROVE  s \in Seq(Page) /\ Len(s) = n
OBVIOUS

(* The elements of a row *)
LEMMA RowElements ==
  ASSUME NEW s \in Seq(Page)
  PROVE  Len(s) \in Nat /\ \A i \in 1..Len(s) : s[i] \in Page
OBVIOUS

---------------------------------------------------------------------------
(* What a step of request r does for r, and that it leaves the others alone*)

Good(r) ==
  /\ SlotTypes' /\ ReqTypes'
  /\ TreeOK(tree')
  /\ Locks(tree', Holders', last_node')
  /\ Pins(tree, tree', Holders \cap Holders', last_node)
  /\ Progress(r)' /\ (Holds(r)' => Follows(tree, r)')

Alone(r) ==
  \A q \in Req \ {r} : /\ stage'[q] = stage[q] /\ ids'[q] = ids[q]
                       /\ row'[q] = row[q] /\ last_node'[q] = last_node[q]
                       /\ fill_len'[q] = fill_len[q] /\ results'[q] = results[q]

(* First(ids, i) lies on the way to a last_node that is at least as long. *)
LEMMA FirstAbove ==
  ASSUME NEW k \in Path, NEW n \in Path, n \preceq k, NEW i \in 1..Len(n)
  PROVE  /\ First(k, i) \preceq n /\ First(k, i) \in Path /\ Len(First(k, i)) = i
         /\ i \in 1..Len(k)
<1>1. Len(n) \in 0..Len(k) /\ n = First(k, Len(n)) /\ Len(k) \in Nat
  BY PrefixIsFirst, PathProperties
<1>2. i \in 0..Len(k) /\ Len(n) \in i..Len(k) /\ i \in 1..Len(k)
  BY <1>1
<1>3. First(k, i) \preceq First(k, Len(n))
  BY <1>2, FirstIsPrefix
<1>4. QED
  BY <1>1, <1>2, <1>3, FirstProperties

(* A step that is good for r and leaves the others alone keeps IInv. *)
LEMMA GoodStep ==
  ASSUME IInv, NEW r \in Req, Good(r), Alone(r)
  PROVE  IInv'
<1>1. ASSUME NEW q \in Req \ {r}
      PROVE  Progress(q)' /\ (Holds(q)' => Follows(tree, q)')
  <2>1. Progress(q) /\ (Holds(q) => Follows(tree, q))
    BY DEF IInv
  <2>2. /\ stage'[q] = stage[q] /\ ids'[q] = ids[q]
        /\ row'[q] = row[q] /\ last_node'[q] = last_node[q]
        /\ fill_len'[q] = fill_len[q] /\ results'[q] = results[q]
    BY DEF Alone
  <2>3. Progress(q)' /\ Holds(q)' = Holds(q)
    BY <2>1, <2>2 DEF Progress, InFlight, Holds
  <2>4. ASSUME Holds(q) PROVE Follows(tree, q)'
    <3>1. q \in Holders \cap Holders' /\ ids[q] \in Path /\ last_node[q] \in Path
      BY <2>3, <2>4 DEF Holders, IInv, ReqTypes
    <3>2. /\ last_node[q] \preceq ids[q]
          /\ \A i \in 1..Len(last_node[q]) :
               /\ First(ids[q], i) \in Cached(tree)
               /\ row[q][i] = tree.val[First(ids[q], i)]
      BY <2>1, <2>4 DEF Follows
    <3>3. \A i \in 1..Len(last_node[q]) :
             /\ First(ids[q], i) \in Cached(tree')
             /\ row[q][i] = tree'.val[First(ids[q], i)]
      BY <3>1, <3>2, FirstAbove DEF Good, Pins
    <3>4. QED
      BY <2>2, <3>2, <3>3 DEF Follows
  <2>5. QED
    BY <2>3, <2>4
<1>2. \A q \in Req : Progress(q)' /\ (Holds(q)' => Follows(tree, q)')
  BY <1>1 DEF Good
<1>3. QED
  BY <1>2 DEF Good, IInv

LEMMA HoldersFinite ==
  IsFiniteSet(Holders)
<1>1. Holders \subseteq Req /\ IsFiniteSet(Req)
  BY RadixCacheAssumption DEF Holders
<1>2. QED
  BY <1>1, FS_Subset

(* A step that leaves the tree and what the requests hold alone *)
LEMMA TreeUntouched ==
  ASSUME IInv, NEW r \in Req, tree' = tree, last_node' = last_node, Holders' = Holders
  PROVE  /\ TreeOK(tree') /\ Locks(tree', Holders', last_node')
         /\ Pins(tree, tree', Holders \cap Holders', last_node)
BY DEF IInv, Pins

LEMMA ReceiveStep ==
  ASSUME IInv, NEW r \in Req, Receive(r)
  PROVE  Good(r) /\ Alone(r)
<1>1. PICK p \in Prompt : ids' = [ids EXCEPT ![r] = p]
  BY DEF Receive
<1>2. p \in Path /\ Len(p) > 0
  BY <1>1, RadixCacheAssumption
<1>3. SlotTypes /\ ReqTypes /\ Progress(r)
  BY DEF IInv
<1>4. /\ stage' = [stage EXCEPT ![r] = "waiting"] /\ stage[r] = "finished"
      /\ UNCHANGED <<tree, free_slots, twice_freed, fill_len, row, last_node, results, delayed>>
  BY DEF Receive
<1>5. SlotTypes' /\ ReqTypes' /\ Alone(r)
  BY <1>1, <1>2, <1>3, <1>4 DEF SlotTypes, ReqTypes, Alone
<1>6. Holders' = Holders /\ ~Holds(r)' /\ ~Holds(r)
  BY <1>3, <1>4 DEF ReqTypes, Holders, Holds
<1>7. Progress(r)'
  BY <1>1, <1>2, <1>3, <1>4, <1>6 DEF Progress, Holds, ReqTypes
<1>8. QED
  BY <1>4, <1>5, <1>6, <1>7, TreeUntouched DEF Good

LEMMA ComputePrefixMatchStep ==
  ASSUME IInv, NEW r \in Req, ComputePrefixMatch(r)
  PROVE  Good(r) /\ Alone(r)
<1> DEFINE k == First(ids[r], Len(ids[r]) - 1)
<1>1. SlotTypes /\ ReqTypes /\ Progress(r) /\ TreeOK(tree) /\ Locks(tree, Holders, last_node)
  BY DEF IInv
<1>2. /\ stage[r] = "waiting" /\ tree' = MatchPrefix(tree, k)
      /\ UNCHANGED <<free_slots, twice_freed, stage, ids, fill_len, row, last_node, results,
                     delayed>>
  BY DEF ComputePrefixMatch, reqVars
<1>3. k \in Path
  <2>1. ids[r] \in Path /\ Len(ids[r]) \in Nat /\ Len(ids[r]) > 0
    BY <1>1, <1>2, PathProperties DEF ReqTypes, Progress
  <2>2. Len(ids[r]) - 1 \in 0..Len(ids[r])
    BY <2>1
  <2>3. QED
    BY <2>1, <2>2, FirstProperties
<1> HIDE DEF k
<1>4. /\ TreeOK(tree') /\ tree'.val = tree.val /\ Cached(tree') = Cached(tree)
      /\ Locks(tree', Holders, last_node)
  BY <1>1, <1>2, <1>3, MatchPrefixProperties
<1>5. SlotTypes' /\ ReqTypes' /\ Alone(r)
  BY <1>1, <1>2 DEF SlotTypes, ReqTypes, Alone
<1>6. Holders' = Holders /\ ~Holds(r)'
  BY <1>2 DEF Holders, Holds
<1>7. Pins(tree, tree', Holders \cap Holders', last_node)
  BY <1>4 DEF Pins
<1>8. Progress(r)'
  BY <1>1, <1>2 DEF Progress, InFlight, Holds
<1>9. QED
  BY <1>2, <1>4, <1>5, <1>6, <1>7, <1>8 DEF Good

LEMMA AdmitStep ==
  ASSUME IInv, NEW r \in Req, Admit(r)
  PROVE  Good(r) /\ Alone(r)
<1> DEFINE k == First(ids[r], Len(ids[r]) - 1)
           m == MatchLen(tree, k)
           n == First(k, m)
           t == IncLockRef(MatchPrefix(tree, k), n)
<1>1. /\ SlotTypes /\ ReqTypes /\ Progress(r) /\ TreeOK(tree)
      /\ Locks(tree, Holders, last_node)
  BY DEF IInv
<1>2. PICK f \in (m + 1)..Len(ids[r]), E \in SUBSET Nodes(t) :
        /\ EvictIfShort(t, free_slots, f - m, E)
        /\ LET free == FreeSlots(free_slots, EvictedSlots(t, E))
           IN  /\ \E a \in Allocations(free, f - m) :
                    /\ free_slots' = free \ SlotsOf(a, f - m)
                    /\ row' = [row EXCEPT ![r] = RowOf(t, k, m, a, f - m)]
               /\ twice_freed' = twice_freed \cup (free_slots \cap EvictedSlots(t, E))
        /\ tree' = Evict(t, E)
        /\ last_node' = [last_node EXCEPT ![r] = n]
        /\ Launch(r, f)
        /\ UNCHANGED <<ids, delayed>>
  BY DEF Admit
<1>3. stage[r] = "waiting" /\ results[r] = << >> /\ ~Holds(r)
  BY DEF Admit, Holds
<1>4. ids[r] \in Path /\ Len(ids[r]) \in Nat /\ Len(ids[r]) > 0 /\ Len(ids[r]) - 1 \in 0..Len(ids[r])
  <2>1. ids[r] \in Path /\ Len(ids[r]) > 0
    BY <1>1, <1>3 DEF ReqTypes, Progress
  <2>2. Len(ids[r]) \in Nat
    BY <2>1, PathProperties
  <2>3. QED
    BY <2>1, <2>2
<1>5. k \in Path /\ Len(k) = Len(ids[r]) - 1 /\ k \preceq ids[r]
  <2>1. Len(ids[r]) \in (Len(ids[r]) - 1)..Len(ids[r])
    BY <1>4
  <2>2. QED
    BY <1>4, <2>1, FirstProperties, FirstIsPrefix
<1>6. /\ m \in 0..Len(k) /\ m \in Nat /\ n = Matched(tree, k)
      /\ n \in Path /\ Len(n) = m /\ n \preceq k
      /\ \A i \in 1..m : First(k, i) \in Cached(tree)
  <2> HIDE DEF k
  <2>1. m \in 0..Len(k) /\ m \in Nat
    BY <1>5, MatchLenProperties, PathProperties
  <2>2. QED
    BY <1>1, <1>5, <2>1, MatchedProperties DEF Matched
<1>7. n \preceq ids[r]
  BY <1>4, <1>5, <1>6, PrefixTransitive
<1>8. \A i \in 1..m : First(ids[r], i) = First(k, i)
  <2>1. \A i \in 1..m : i \in 0..(Len(ids[r]) - 1)
    BY <1>4, <1>5, <1>6
  <2>2. QED
    BY <1>4, <2>1, FirstOfFirst
<1> HIDE DEF k, m, n
<1>9. /\ last_node'[r] = n /\ \A q \in Holders : last_node'[q] = last_node[q]
  BY <1>1, <1>2, <1>3 DEF ReqTypes, Holders
<1>10. /\ TreeOK(t) /\ t.val = tree.val /\ Cached(t) = Cached(tree)
       /\ Locks(t, Holders \cup {r}, last_node')
  <2>1. r \notin Holders /\ IsFiniteSet(Holders)
    BY <1>3, HoldersFinite DEF Holders
  <2>2. last_node'[r] = Matched(tree, k)
    BY <1>6, <1>9
  <2> DEFINE s == IncLockRef(MatchPrefix(tree, k), Matched(tree, k))
  <2>3. /\ TreeOK(s) /\ s.val = tree.val /\ Cached(s) = Cached(tree)
        /\ Locks(s, Holders \cup {r}, last_node')
    BY <1>1, <1>5, <1>9, <2>1, <2>2, LockPrefix
  <2>4. t = s
    BY <1>6
  <2> HIDE DEF s, t
  <2>5. QED
    BY <2>3, <2>4
<1> HIDE DEF t
<1>11. IsFiniteSet(Holders \cup {r})
  BY HoldersFinite, FS_AddElement
<1>12. /\ TreeOK(tree') /\ Locks(tree', Holders \cup {r}, last_node')
       /\ Pins(t, tree', Holders \cup {r}, last_node')
       /\ EvictedSlots(t, E) \subseteq Page
  BY <1>2, <1>10, <1>11, EvictForSlots
<1>13. PICK a \in Allocations(FreeSlots(free_slots, EvictedSlots(t, E)), f - m) :
         /\ free_slots' = FreeSlots(free_slots, EvictedSlots(t, E)) \ SlotsOf(a, f - m)
         /\ row' = [row EXCEPT ![r] = RowOf(t, k, m, a, f - m)]
  BY <1>2
<1>14. f - m \in Nat /\ a \in [1..(f - m) -> Page] /\ m + (f - m) = f /\ f \in Nat /\ m < f
  <2>1. f - m \in Nat /\ m + (f - m) = f /\ f \in Nat /\ m < f
    BY <1>2, <1>4, <1>6
  <2>2. FreeSlots(free_slots, EvictedSlots(t, E)) \subseteq Page
    BY <1>1, <1>12 DEF SlotTypes, FreeSlots
  <2>3. QED
    BY <1>13, <2>1, <2>2 DEF Allocations
<1>15. \A i \in 1..m : t.val[First(k, i)] \in Page
  <2>1. t.val \in [Cached(t) -> Page]
    BY <1>10 DEF TreeOK, TreeType
  <2>2. QED
    BY <1>6, <1>10, <2>1
<1>16. /\ row'[r] \in Seq(Page) /\ Len(row'[r]) = f
       /\ \A i \in 1..m : row'[r][i] = t.val[First(k, i)]
  <2>1. row'[r] = RowOf(t, k, m, a, f - m)
    BY <1>1, <1>13 DEF ReqTypes
  <2>2. QED
    BY <1>6, <1>14, <1>15, <2>1, RowOfProperties
<1>17. SlotTypes'
  BY <1>1, <1>2, <1>12, <1>13 DEF SlotTypes, FreeSlots
<1>18. ReqTypes' /\ Alone(r)
  <2>1. row' \in [Req -> Seq(Page)] /\ last_node' \in [Req -> Path]
    BY <1>1, <1>2, <1>6, <1>13, <1>16 DEF ReqTypes
  <2>2. QED
    BY <1>1, <1>2, <1>13, <1>14, <2>1 DEF ReqTypes, Alone, Launch
<1>19. /\ fill_len'[r] = f /\ ids' = ids
       /\ stage'[r] = IF f < Len(ids[r]) THEN "chunked" ELSE "running"
       /\ Len(results'[r]) = 1
       /\ results'[r][1] = IF f < Len(ids[r]) THEN "chunk" ELSE "extend"
  BY <1>1, <1>2, <1>3 DEF Launch, ReqTypes
<1>20. Holders' = Holders \cup {r}
  BY <1>1, <1>2, <1>19 DEF Launch, Holders, Holds, ReqTypes
<1>21. Pins(tree, tree', Holders \cap Holders', last_node)
  BY <1>9, <1>10, <1>12, <1>20 DEF Pins
<1>22. Progress(r)'
  <2>1. Len(last_node'[r]) <= Len(row'[r])
    BY <1>6, <1>9, <1>14, <1>16
  <2>2. CASE f < Len(ids[r])
    BY <1>4, <1>6, <1>14, <1>16, <1>19, <2>1, <2>2 DEF Progress, Holds
  <2>3. CASE ~(f < Len(ids[r]))
    <3>1. f = Len(ids[r])
      BY <1>2, <1>4, <1>6, <2>3
    <3>2. QED
      BY <1>4, <1>16, <1>19, <2>1, <2>3, <3>1 DEF Progress, Holds, InFlight
  <2>4. QED
    BY <2>2, <2>3
<1>23. Follows(tree, r)'
  <2>1. ASSUME NEW i \in 1..m
        PROVE  /\ First(ids[r], i) \in Cached(tree')
               /\ row'[r][i] = tree'.val[First(ids[r], i)]
    <3>1. First(ids[r], i) \preceq n /\ First(ids[r], i) \in Cached(t)
      BY <1>4, <1>6, <1>7, <1>8, <1>10, FirstAbove
    <3>2. QED
      BY <1>8, <1>9, <1>12, <1>16, <3>1 DEF Pins
  <2>2. QED
    BY <1>6, <1>7, <1>9, <1>19, <2>1 DEF Follows
<1>24. QED
  BY <1>12, <1>17, <1>18, <1>20, <1>21, <1>22, <1>23 DEF Good

LEMMA NextChunkStep ==
  ASSUME IInv, NEW r \in Req, NextChunk(r)
  PROVE  Good(r) /\ Alone(r)
<1> DEFINE k == First(ids[r], fill_len[r])
           c == CacheUnfinishedReq(r, k)
           t == c.tree
           m == Len(k)
<1>1. /\ SlotTypes /\ ReqTypes /\ Progress(r) /\ TreeOK(tree)
      /\ Locks(tree, Holders, last_node)
  BY DEF IInv
<1>2. PICK f \in (m + 1)..Len(ids[r]), E \in SUBSET Nodes(t) :
        /\ EvictIfShort(t, FreeSlots(free_slots, c.dup), f - m, E)
        /\ LET free == FreeSlots(FreeSlots(free_slots, c.dup), EvictedSlots(t, E))
           IN  /\ \E a \in Allocations(free, f - m) :
                    /\ free_slots' = free \ SlotsOf(a, f - m)
                    /\ row' = [row EXCEPT ![r] = RowOf(t, k, m, a, f - m)]
               /\ twice_freed' = twice_freed \cup (free_slots \cap c.dup)
                    \cup (FreeSlots(free_slots, c.dup) \cap EvictedSlots(t, E))
        /\ tree' = Evict(t, E)
        /\ last_node' = [last_node EXCEPT ![r] = k]
        /\ Launch(r, f)
        /\ UNCHANGED <<ids, delayed>>
  BY DEF NextChunk
<1>3. /\ stage[r] = "chunked" /\ Holds(r) /\ r \in Holders
      /\ results[r] \in Seq(Kind) /\ Len(results[r]) < 2 /\ Len(results[r]) \in Nat
      /\ \A i \in 1..Len(results[r]) : results[r][i] = "chunk"
  <2>1. stage[r] = "chunked" /\ Len(results[r]) < MaxInFlight
    BY DEF NextChunk
  <2>2. results[r] \in Seq(Kind) /\ \A i \in 1..Len(results[r]) : results[r][i] = "chunk"
    BY <1>1, <2>1 DEF Progress, ReqTypes, Kind
  <2>3. Len(results[r]) \in Nat
    BY <2>2, ResultFacts
  <2>4. QED
    BY <2>1, <2>2, <2>3, RadixCacheAssumption DEF Holds, Holders
<1>4. /\ ids[r] \in Path /\ Len(ids[r]) \in Nat /\ Len(row[r]) = fill_len[r]
      /\ fill_len[r] \in 0..Len(ids[r]) /\ Len(ids[r]) \in fill_len[r]..Len(ids[r])
      /\ last_node[r] \in Path /\ Len(last_node[r]) <= fill_len[r]
      /\ row[r] \in Seq(Page) /\ last_node[r] \preceq ids[r]
  <2>1. /\ ids[r] \in Path /\ last_node[r] \in Path /\ row[r] \in Seq(Page) /\ fill_len[r] \in Nat
        /\ Len(row[r]) = fill_len[r] /\ fill_len[r] < Len(ids[r])
        /\ Len(last_node[r]) <= Len(row[r])
    BY <1>1, <1>3 DEF ReqTypes, Progress
  <2>2. Len(ids[r]) \in Nat /\ last_node[r] \preceq ids[r]
    BY <1>3, <2>1, PathProperties DEF IInv, Follows
  <2>3. QED
    BY <2>1, <2>2
<1>5. k \in Path /\ m = fill_len[r] /\ k \preceq ids[r] /\ last_node[r] \preceq k
  <2>1. k \in Path /\ Len(k) = fill_len[r] /\ k \preceq ids[r]
    BY <1>4, FirstProperties, FirstIsPrefix
  <2>2. QED
    BY <1>4, <2>1, PrefixesInLine
<1>6. \A i \in 1..m : row[r][i] \in Page /\ First(ids[r], i) = First(k, i)
  <2>1. \A i \in 1..m : i \in 0..fill_len[r] /\ i \in 1..Len(row[r])
    BY <1>4, <1>5
  <2>2. QED
    BY <1>4, <2>1, FirstOfFirst, RowElements
<1> HIDE DEF k
<1>7. /\ last_node'[r] = k /\ \A q \in Holders \ {r} : last_node'[q] = last_node[q]
  BY <1>1, <1>2 DEF ReqTypes, Holders
<1>8. /\ t = IncLockRef(DecLockRef(MatchPrefix(Insert(tree, k, row[r]), k), last_node[r]), k)
      /\ c.dup = Duplicates(r, k)
  BY DEF CacheUnfinishedReq
<1>9. /\ TreeOK(t) /\ Locks(t, Holders, last_node')
      /\ \A p \in Cached(tree) : p \in Cached(t) /\ t.val[p] = tree.val[p]
      /\ \A i \in 1..m : First(k, i) \in Cached(t)
  <2>1. SlotsFor(row[r], k)
    BY <1>6 DEF SlotsFor
  <2>2. QED
    BY <1>1, <1>3, <1>5, <1>7, <1>8, <2>1, MoveLock, HoldersFinite
<1>10. c.dup \subseteq Page
  <2>1. /\ MatchLen(tree, k) \in 0..Len(k) /\ Len(last_node[r]) \in Nat
        /\ Len(k) \in Nat
    BY <1>4, <1>5, MatchLenProperties, PathProperties
  <2>2. \A i \in (Len(last_node[r]) + 1)..MatchLen(tree, k) : i \in 1..m
    BY <2>1
  <2>3. QED
    BY <1>6, <1>8, <2>2 DEF Duplicates
<1> HIDE DEF t, c, m
<1>11. /\ TreeOK(tree') /\ Locks(tree', Holders, last_node')
       /\ Pins(t, tree', Holders, last_node')
       /\ EvictedSlots(t, E) \subseteq Page
  BY <1>2, <1>9, HoldersFinite, EvictForSlots
<1> DEFINE free == FreeSlots(FreeSlots(free_slots, c.dup), EvictedSlots(t, E))
<1>12. free \subseteq Page
  BY <1>1, <1>10, <1>11 DEF SlotTypes, FreeSlots
<1>13. PICK a \in Allocations(free, f - m) :
         /\ free_slots' = free \ SlotsOf(a, f - m)
         /\ row' = [row EXCEPT ![r] = RowOf(t, k, m, a, f - m)]
  BY <1>2
<1> HIDE DEF free
<1>14. /\ f - m \in Nat /\ a \in [1..(f - m) -> Page] /\ m + (f - m) = f /\ f \in Nat
       /\ m \in Nat /\ m < f /\ f <= Len(ids[r])
  <2>1. /\ f - m \in Nat /\ m + (f - m) = f /\ f \in Nat /\ m \in Nat /\ m < f
        /\ f <= Len(ids[r])
    BY <1>2, <1>4, <1>5
  <2>2. QED
    BY <1>12, <1>13, <2>1 DEF Allocations
<1>15. \A i \in 1..m : t.val[First(k, i)] \in Page
  <2>1. t.val \in [Cached(t) -> Page]
    BY <1>9 DEF TreeOK, TreeType
  <2>2. QED
    BY <1>9, <2>1
<1>16. /\ row'[r] \in Seq(Page) /\ Len(row'[r]) = f
       /\ \A i \in 1..m : row'[r][i] = t.val[First(k, i)]
  <2>1. row'[r] = RowOf(t, k, m, a, f - m)
    BY <1>1, <1>13 DEF ReqTypes
  <2>2. QED
    BY <1>14, <1>15, <2>1, RowOfProperties
<1>17. SlotTypes'
  BY <1>1, <1>2, <1>10, <1>11, <1>12, <1>13 DEF SlotTypes, FreeSlots
<1>18. ReqTypes' /\ Alone(r)
  <2>1. row' \in [Req -> Seq(Page)] /\ last_node' \in [Req -> Path]
    BY <1>1, <1>2, <1>5, <1>13, <1>16 DEF ReqTypes
  <2>2. QED
    BY <1>1, <1>2, <1>13, <1>14, <2>1 DEF ReqTypes, Alone, Launch
<1>19. /\ fill_len'[r] = f /\ ids' = ids
       /\ stage'[r] = IF f < Len(ids[r]) THEN "chunked" ELSE "running"
       /\ results'[r] = Append(results[r], IF f < Len(ids[r]) THEN "chunk" ELSE "extend")
  BY <1>1, <1>2 DEF Launch, ReqTypes
<1>20. Holders' = Holders
  BY <1>1, <1>2, <1>3, <1>19 DEF Launch, Holders, Holds, ReqTypes
<1>21. Pins(tree, tree', Holders \cap Holders', last_node)
  <2>1. SUFFICES ASSUME NEW q \in Holders, NEW p \in Cached(tree), p \preceq last_node[q]
                 PROVE  p \in Cached(tree') /\ tree'.val[p] = tree.val[p]
    BY DEF Pins
  <2>2. p \preceq last_node'[q]
    <3>1. CASE q = r
      BY <1>1, <1>4, <1>5, <1>7, <2>1, <3>1, PrefixTransitive, PositionsArePaths
    <3>2. CASE q # r
      BY <1>7, <2>1, <3>2
    <3>3. QED
      BY <3>1, <3>2
  <2>3. QED
    BY <1>9, <1>11, <2>1, <2>2 DEF Pins
<1>22. Progress(r)'
  <2>1. Len(last_node'[r]) <= Len(row'[r])
    BY <1>7, <1>14, <1>16 DEF m
  <2>2. CASE f < Len(ids[r])
    <3>1. results'[r] = Append(results[r], "chunk") /\ "chunk" \in Kind
      BY <1>19, <2>2 DEF Kind
    <3>2. \A i \in 1..Len(results'[r]) : results'[r][i] = "chunk"
      BY <1>3, <3>1, ResultFacts
    <3>3. QED
      BY <1>4, <1>14, <1>16, <1>19, <2>1, <2>2, <3>2 DEF Progress, Holds
  <2>3. CASE ~(f < Len(ids[r]))
    <3>1. f = Len(ids[r])
      BY <1>4, <1>14, <2>3
    <3>2. results'[r] = Append(results[r], "extend") /\ "extend" \in Kind
      BY <1>19, <2>3 DEF Kind
    <3>3. \/ Len(results'[r]) = 1 /\ results'[r][1] # "chunk"
          \/ Len(results'[r]) = 2 /\ results'[r][1] = "chunk" /\ results'[r][2] # "chunk"
      BY <1>3, <3>2, ResultFacts
    <3>4. QED
      BY <1>4, <1>14, <1>16, <1>19, <2>1, <2>3, <3>1, <3>3 DEF Progress, Holds, InFlight
  <2>4. QED
    BY <2>2, <2>3
<1>23. Follows(tree, r)'
  <2>1. ASSUME NEW i \in 1..m
        PROVE  /\ First(ids[r], i) \in Cached(tree')
               /\ row'[r][i] = tree'.val[First(ids[r], i)]
    <3>1. First(ids[r], i) \preceq k /\ First(ids[r], i) \in Cached(t)
      BY <1>4, <1>5, <1>6, <1>9, FirstAbove DEF m
    <3>2. QED
      BY <1>3, <1>6, <1>7, <1>11, <1>16, <3>1 DEF Pins
  <2>2. QED
    BY <1>5, <1>7, <1>19, <2>1 DEF Follows, m
<1>24. QED
  BY <1>11, <1>17, <1>18, <1>20, <1>21, <1>22, <1>23 DEF Good

LEMMA LaunchDecodeStep ==
  ASSUME IInv, NEW r \in Req, LaunchDecode(r)
  PROVE  Good(r) /\ Alone(r)
<1>1. /\ SlotTypes /\ ReqTypes /\ Progress(r) /\ TreeOK(tree)
      /\ Locks(tree, Holders, last_node)
  BY DEF IInv
<1>2. PICK E \in SUBSET Nodes(tree) :
        /\ EvictIfShort(tree, free_slots, 1, E)
        /\ LET free == FreeSlots(free_slots, EvictedSlots(tree, E))
           IN  \E s \in free : /\ free_slots' = free \ {s}
                               /\ row' = [row EXCEPT ![r] = Append(@, s)]
        /\ twice_freed' = twice_freed \cup (free_slots \cap EvictedSlots(tree, E))
        /\ tree' = Evict(tree, E)
  BY DEF LaunchDecode
<1>3. /\ stage[r] = "running" /\ Len(results[r]) < MaxInFlight
      /\ results' = [results EXCEPT ![r] = Append(@, "decode")]
      /\ UNCHANGED <<stage, ids, fill_len, last_node, delayed>>
  BY DEF LaunchDecode
<1>4. /\ TreeOK(tree') /\ Locks(tree', Holders, last_node)
      /\ Pins(tree, tree', Holders, last_node)
      /\ EvictedSlots(tree, E) \subseteq Page
  BY <1>1, <1>2, HoldersFinite, EvictForSlots
<1>5. PICK s \in Page :
        /\ free_slots' \subseteq Page
        /\ row' = [row EXCEPT ![r] = Append(@, s)]
  BY <1>1, <1>2, <1>4 DEF SlotTypes, FreeSlots
<1>6. SlotTypes'
  BY <1>1, <1>2, <1>4, <1>5 DEF SlotTypes
<1>7. /\ row[r] \in Seq(Page) /\ row'[r] = Append(row[r], s) /\ row'[r] \in Seq(Page)
      /\ Len(row[r]) \in Nat /\ Len(row'[r]) = Len(row[r]) + 1
      /\ \A i \in 1..Len(row[r]) : row'[r][i] = row[r][i]
  BY <1>1, <1>5 DEF ReqTypes
<1>8. ReqTypes' /\ Alone(r)
  <2>1. row' \in [Req -> Seq(Page)]
    BY <1>1, <1>5, <1>7 DEF ReqTypes
  <2>2. QED
    BY <1>1, <1>3, <1>5, <2>1 DEF ReqTypes, Alone
<1>9. Holders' = Holders
  BY <1>3 DEF Holders, Holds
<1>10. Len(last_node[r]) <= Len(row[r]) /\ Len(last_node[r]) \in Nat /\ Len(ids[r]) \in Nat
  BY <1>1, <1>3, PathProperties DEF Progress, Holds, ReqTypes
<1>11. Progress(r)'
  <2>1. results[r] \in Seq(Kind) /\ Len(results[r]) \in Nat /\ "decode" \in Kind
    BY <1>1 DEF ReqTypes, Kind
  <2>2. results'[r] = Append(results[r], "decode") /\ InFlight(r)
    <3>1. results'[r] = Append(results[r], "decode")
      BY <1>1, <1>3 DEF ReqTypes
    <3>2. InFlight(r)
      BY <1>1, <1>3 DEF Progress
    <3>3. QED
      BY <3>1, <3>2
  <2>3. InFlight(r)'
    <3>1. CASE Len(results[r]) = 0
      <4>1. Len(results'[r]) = 1 /\ results'[r][1] = "decode"
        BY <2>1, <2>2, <3>1, ResultFacts
      <4>2. QED
        BY <1>3, <1>7, <1>10, <2>2, <3>1, <4>1 DEF InFlight
    <3>2. CASE Len(results[r]) = 1
      <4>1. results[r][1] # "chunk" /\ Len(row[r]) = Len(ids[r])
        BY <2>2, <3>2 DEF InFlight
      <4>2. /\ Len(results'[r]) = 2 /\ results'[r][1] # "chunk"
            /\ results'[r][2] = "decode"
        BY <2>1, <2>2, <3>2, <4>1, ResultFacts
      <4>3. QED
        BY <1>3, <1>7, <4>1, <4>2 DEF InFlight
    <3>3. Len(results[r]) = 0 \/ Len(results[r]) = 1
      <4>1. Len(results[r]) \in Nat /\ Len(results[r]) < MaxInFlight /\ MaxInFlight \in {1, 2}
        BY <1>3, <2>1, RadixCacheAssumption
      <4> DEFINE l == Len(results[r])
      <4> HIDE DEF l
      <4>2. l \in Nat /\ l < MaxInFlight /\ MaxInFlight \in {1, 2} => l = 0 \/ l = 1
        OBVIOUS
      <4>3. QED
        BY <4>1, <4>2 DEF l
    <3>4. QED
      BY <3>1, <3>2, <3>3
  <2>4. QED
    BY <1>1, <1>3, <1>7, <1>10, <2>3 DEF Progress, Holds
<1>12. Follows(tree, r)'
  <2>1. Follows(tree, r) /\ ids[r] \in Path /\ last_node[r] \in Path /\ r \in Holders
    BY <1>1, <1>3 DEF IInv, Holds, ReqTypes, Holders
  <2>2. \A i \in 1..Len(last_node[r]) :
          /\ First(ids[r], i) \in Cached(tree')
          /\ row[r][i] = tree'.val[First(ids[r], i)]
    BY <1>4, <2>1, FirstAbove DEF Pins, Follows
  <2>3. \A i \in 1..Len(last_node[r]) : row'[r][i] = row[r][i]
    BY <1>7, <1>10
  <2>4. QED
    BY <1>3, <2>1, <2>2, <2>3 DEF Follows
<1>13. QED
  BY <1>3, <1>4, <1>6, <1>8, <1>9, <1>11, <1>12 DEF Good

(* A result that brings a token comes with a row that is long enough for   *)
(* the ids so far; processing it shortens the queue.                       *)
LEMMA TokenResult ==
  ASSUME IInv, NEW r \in Req, stage[r] = "running", results[r] # << >>,
         Head(results[r]) # "chunk", PopResult(r)
  PROVE  /\ ids[r] \in Path /\ last_node[r] \in Path /\ row[r] \in Seq(Page)
         /\ Len(ids[r]) \in Nat /\ Len(row[r]) \in Nat /\ Len(ids[r]) <= Len(row[r])
         /\ \A i \in 1..Len(row[r]) : row[r][i] \in Page
         /\ results' = [results EXCEPT ![r] = Tail(results[r])]
         /\ Tail(results[r]) \in Seq(Kind)
         /\ \/ Len(Tail(results[r])) = 0 /\ Len(row[r]) = Len(ids[r])
            \/ /\ Len(Tail(results[r])) = 1 /\ Tail(results[r])[1] # "chunk"
               /\ Len(row[r]) = Len(ids[r]) + 1
<1>1. ids[r] \in Path /\ last_node[r] \in Path /\ row[r] \in Seq(Page) /\ results[r] \in Seq(Kind)
  BY DEF IInv, ReqTypes, Kind
<1>2. InFlight(r)
  BY DEF IInv, Progress
<1>3. /\ Len(ids[r]) \in Nat /\ Len(row[r]) \in Nat
      /\ \A i \in 1..Len(row[r]) : row[r][i] \in Page
  BY <1>1, PathProperties, RowElements
<1> DEFINE s == results[r]
<1>4. s \in Seq(Kind) /\ s # << >>
  BY <1>1
<1>5. /\ Len(s) \in Nat /\ Len(s) >= 1 /\ s[1] # "chunk"
      /\ Tail(s) \in Seq(Kind) /\ Len(Tail(s)) = Len(s) - 1
      /\ \A i \in 1..(Len(s) - 1) : Tail(s)[i] = s[i + 1]
  <2>1. Head(s) # "chunk"
    OBVIOUS
  <2> HIDE DEF s
  <2>2. QED
    BY <1>4, <2>1, ResultFacts
<1>6. \/ Len(s) = 1 /\ Len(row[r]) = Len(ids[r])
      \/ Len(s) = 2 /\ s[2] # "chunk" /\ Len(row[r]) = Len(ids[r]) + 1
  BY <1>2, <1>5 DEF InFlight
<1>7. results' = [results EXCEPT ![r] = Tail(results[r])]
  BY DEF PopResult
<1> HIDE DEF s
<1>8. /\ \/ Len(Tail(s)) = 0 /\ Len(row[r]) = Len(ids[r])
         \/ Len(Tail(s)) = 1 /\ Tail(s)[1] # "chunk" /\ Len(row[r]) = Len(ids[r]) + 1
      /\ Len(ids[r]) <= Len(row[r])
  BY <1>3, <1>5, <1>6
<1>9. QED
  BY <1>1, <1>3, <1>5, <1>7, <1>8 DEF s

LEMMA DuplicatesAreSlots ==
  ASSUME NEW r, NEW k \in Path, last_node[r] \in Path,
         \A i \in 1..Len(k) : row[r][i] \in Page
  PROVE  Duplicates(r, k) \subseteq Page
<1>1. MatchLen(tree, k) \in 0..Len(k) /\ Len(last_node[r]) \in Nat /\ Len(k) \in Nat
  BY MatchLenProperties, PathProperties
<1>2. \A i \in (Len(last_node[r]) + 1)..MatchLen(tree, k) : i \in 1..Len(k)
  BY <1>1
<1>3. QED
  BY <1>2 DEF Duplicates

LEMMA FinishStep ==
  ASSUME IInv, NEW r \in Req, stage[r] = "running", results[r] # << >>,
         Head(results[r]) # "chunk", PopResult(r), Finish(r)
  PROVE  Good(r) /\ Alone(r)
<1>1. /\ SlotTypes /\ ReqTypes /\ Progress(r) /\ TreeOK(tree)
      /\ Locks(tree, Holders, last_node)
  BY DEF IInv
<1>2. /\ ids[r] \in Path /\ last_node[r] \in Path /\ row[r] \in Seq(Page)
      /\ Len(ids[r]) \in Nat /\ Len(row[r]) \in Nat /\ Len(ids[r]) <= Len(row[r])
      /\ \A i \in 1..Len(row[r]) : row[r][i] \in Page
      /\ results' = [results EXCEPT ![r] = Tail(results[r])]
      /\ Tail(results[r]) \in Seq(Kind)
  BY TokenResult
<1> DEFINE c == CacheFinishedReq(r, ids[r])
           own == {row[r][i] : i \in (Len(ids[r]) + 1)..Len(row[r])}
<1>3. /\ tree' = c.tree
      /\ free_slots' = FreeSlots(free_slots, c.dup)
      /\ twice_freed' = twice_freed \cup (free_slots \cap c.dup)
      /\ stage' = [stage EXCEPT ![r] = "finished"]
      /\ delayed' = [delayed EXCEPT ![r] = own]
      /\ row' = [row EXCEPT ![r] = << >>]
      /\ last_node' = [last_node EXCEPT ![r] = Root]
      /\ ids' = [ids EXCEPT ![r] = << >>]
      /\ fill_len' = [fill_len EXCEPT ![r] = 0]
  BY DEF Finish
<1>4. /\ c.tree = DecLockRef(Insert(tree, ids[r], row[r]), last_node[r])
      /\ c.dup = Duplicates(r, ids[r])
  BY DEF CacheFinishedReq
<1> HIDE DEF c
<1>5. \A i \in 1..Len(ids[r]) : row[r][i] \in Page
  BY <1>2
<1>6. r \in Holders /\ IsFiniteSet(Holders)
  BY HoldersFinite DEF Holders, Holds
<1>7. Holders' = Holders \ {r} /\ ~Holds(r)'
  BY <1>1, <1>3 DEF Holders, Holds, ReqTypes
<1>8. /\ TreeOK(tree') /\ Locks(tree', Holders', last_node)
      /\ \A p \in Cached(tree) : p \in Cached(tree') /\ tree'.val[p] = tree.val[p]
  <2> DEFINE k == ids[r]
             u == Insert(tree, k, row[r])
  <2>1. tree' = DecLockRef(u, last_node[r])
    BY <1>3, <1>4
  <2>2. SlotsFor(row[r], k) /\ k \in Path
    BY <1>2, <1>5 DEF SlotsFor
  <2> HIDE DEF own, k
  <2>3. /\ TreeOK(u) /\ Locks(u, Holders, last_node)
        /\ \A p \in Cached(tree) : p \in Cached(u) /\ u.val[p] = tree.val[p]
    BY <1>1, <2>2, InsertProperties, InsertLocks
  <2> HIDE DEF u
  <2>4. TreeOK(tree') /\ tree'.val = u.val
    BY <1>2, <2>1, <2>3, LockRefProperties
  <2>5. Locks(tree', Holders \ {r}, last_node)
    BY <1>6, <2>1, <2>3, DecLockRefLocks
  <2>6. Locks(tree', Holders', last_node)
    BY <1>7, <2>5
  <2>7. Cached(tree') = Cached(u)
    BY <2>4 DEF Cached
  <2>8. QED
    BY <2>3, <2>4, <2>6, <2>7
<1>9. \A q \in Holders' : last_node'[q] = last_node[q]
  BY <1>1, <1>3, <1>7 DEF Holders, ReqTypes
<1>10. Locks(tree', Holders', last_node')
  BY <1>8, <1>9, LocksOf
<1>11. Pins(tree, tree', Holders \cap Holders', last_node)
  BY <1>8 DEF Pins
<1>12. c.dup \subseteq Page /\ own \subseteq Page
  BY <1>2, <1>4, <1>5, DuplicatesAreSlots
<1>13. SlotTypes'
  BY <1>1, <1>3, <1>12 DEF SlotTypes, FreeSlots
<1> HIDE DEF own
<1>14. ReqTypes' /\ Alone(r)
  <2>1. results' \in [Req -> Seq({"chunk", "extend", "decode"})]
    BY <1>1, <1>2 DEF ReqTypes, Kind
  <2>2. ids' \in [Req -> Path] /\ last_node' \in [Req -> Path] /\ row' \in [Req -> Seq(Page)]
    <3>1. << >> \in Path /\ Root \in Path /\ << >> \in Seq(Page)
      BY RootProperties DEF Root
    <3>2. QED
      BY <1>1, <1>3, <3>1 DEF ReqTypes
  <2>3. stage' \in [Req -> {"waiting", "chunked", "running", "finished"}]
    BY <1>1, <1>3 DEF ReqTypes
  <2>4. fill_len' \in [Req -> Nat] /\ delayed' \in [Req -> SUBSET Page]
    BY <1>1, <1>3, <1>12 DEF ReqTypes
  <2>5. Alone(r)
    BY <1>1, <1>2, <1>3 DEF ReqTypes, Alone
  <2>6. QED
    BY <2>1, <2>2, <2>3, <2>4, <2>5 DEF ReqTypes
<1>15. Progress(r)'
  <2>1. stage'[r] = "finished" /\ row'[r] = << >> /\ last_node'[r] = Root
    BY <1>1, <1>3 DEF ReqTypes
  <2>2. QED
    BY <1>7, <2>1 DEF Progress, Holds
<1>16. QED
  BY <1>7, <1>8, <1>10, <1>11, <1>13, <1>14, <1>15 DEF Good

LEMMA PrefillGoesOnStep ==
  ASSUME IInv, NEW r \in Req, stage[r] = "running", results[r] # << >>,
         Head(results[r]) # "chunk", PopResult(r), NEW tok \in Token, PrefillGoesOn(r, tok)
  PROVE  Good(r) /\ Alone(r)
<1> DEFINE k == ids[r]
           c == CacheUnfinishedReq(r, k)
           t == c.tree
<1>1. /\ SlotTypes /\ ReqTypes /\ Progress(r) /\ TreeOK(tree)
      /\ Locks(tree, Holders, last_node)
  BY DEF IInv
<1>2. /\ k \in Path /\ last_node[r] \in Path /\ row[r] \in Seq(Page)
      /\ Len(k) \in Nat /\ Len(row[r]) \in Nat /\ Len(k) <= Len(row[r])
      /\ \A i \in 1..Len(row[r]) : row[r][i] \in Page
      /\ results' = [results EXCEPT ![r] = Tail(results[r])]
      /\ Tail(results[r]) \in Seq(Kind)
      /\ \/ Len(Tail(results[r])) = 0 /\ Len(row[r]) = Len(k)
         \/ /\ Len(Tail(results[r])) = 1 /\ Tail(results[r])[1] # "chunk"
            /\ Len(row[r]) = Len(k) + 1
  BY TokenResult
<1>3. /\ tree' = t
      /\ free_slots' = FreeSlots(free_slots, c.dup)
      /\ twice_freed' = twice_freed \cup (free_slots \cap c.dup)
      /\ row' = [row EXCEPT ![r] = RowRewritten(r, t, k, Len(row[r]))]
      /\ last_node' = [last_node EXCEPT ![r] = k]
      /\ ids' = [ids EXCEPT ![r] = Append(k, tok)]
      /\ UNCHANGED <<stage, fill_len, delayed>>
  BY DEF PrefillGoesOn
<1>4. /\ t = IncLockRef(DecLockRef(MatchPrefix(Insert(tree, k, row[r]), k), last_node[r]), k)
      /\ c.dup = Duplicates(r, k)
  BY DEF CacheUnfinishedReq
<1>5. \A i \in 1..Len(k) : row[r][i] \in Page
  BY <1>2
<1>6. r \in Holders /\ IsFiniteSet(Holders) /\ Holders' = Holders
  BY <1>3, HoldersFinite DEF Holders, Holds
<1>7. c.dup \subseteq Page
  BY <1>2, <1>4, <1>5, DuplicatesAreSlots
<1> HIDE DEF c, t
<1>8. last_node'[r] = k /\ \A q \in Holders \ {r} : last_node'[q] = last_node[q]
  BY <1>1, <1>3 DEF ReqTypes, Holders
<1> HIDE DEF k
<1>9. /\ TreeOK(t) /\ Locks(t, Holders, last_node')
      /\ \A p \in Cached(tree) : p \in Cached(t) /\ t.val[p] = tree.val[p]
      /\ \A i \in 1..Len(k) : First(k, i) \in Cached(t)
  <2>1. SlotsFor(row[r], k)
    BY <1>5 DEF SlotsFor
  <2>2. QED
    BY <1>1, <1>2, <1>4, <1>6, <1>8, <2>1, MoveLock
<1>10. Pins(tree, tree', Holders \cap Holders', last_node)
  BY <1>3, <1>9 DEF Pins
<1>11. SlotTypes'
  BY <1>1, <1>3, <1>7 DEF SlotTypes, FreeSlots
<1> DEFINE R == RowRewritten(r, t, k, Len(row[r]))
<1>12. R = [i \in 1..Len(row[r]) |-> IF Len(last_node[r]) < i /\ i <= Len(k)
                                     THEN t.val[First(k, i)] ELSE row[r][i]]
  BY DEF RowRewritten
<1>13. \A i \in 1..Len(k) : t.val[First(k, i)] \in Page
  <2>1. t.val \in [Cached(t) -> Page]
    BY <1>9 DEF TreeOK, TreeType
  <2>2. QED
    BY <1>9, <2>1
<1>14. R \in Seq(Page) /\ Len(R) = Len(row[r])
  <2>1. R \in [1..Len(row[r]) -> Page]
    BY <1>2, <1>12, <1>13
  <2> HIDE DEF R
  <2>2. QED
    BY <1>2, <2>1, RowFromFunction
<1>15. /\ last_node[r] \preceq k
       /\ \A i \in 1..Len(last_node[r]) :
            First(k, i) \in Cached(tree) /\ row[r][i] = tree.val[First(k, i)]
  BY DEF IInv, Follows, Holds, k
<1>16. \A i \in 1..Len(k) : R[i] = t.val[First(k, i)]
  <2>1. SUFFICES ASSUME NEW i \in 1..Len(k)
                 PROVE  R[i] = t.val[First(k, i)]
    OBVIOUS
  <2>2. i \in 1..Len(row[r]) /\ Len(last_node[r]) \in Nat
    BY <1>2, PathProperties
  <2>3. CASE i <= Len(last_node[r])
    <3>1. First(k, i) \in Cached(tree) /\ row[r][i] = tree.val[First(k, i)]
      BY <1>2, <1>15, <2>2, <2>3
    <3>2. R[i] = row[r][i]
      BY <1>2, <1>12, <2>2, <2>3
    <3>3. QED
      BY <1>9, <3>1, <3>2
  <2>4. CASE Len(last_node[r]) < i
    BY <1>2, <1>12, <2>2, <2>4
  <2>5. QED
    BY <1>2, <2>2, <2>3, <2>4
<1> HIDE DEF R
<1>17. row'[r] = R /\ ids'[r] = Append(k, tok)
  BY <1>1, <1>3 DEF ReqTypes, R
<1>18. /\ Append(k, tok) \in Path /\ Len(Append(k, tok)) = Len(k) + 1
       /\ \A i \in 1..Len(k) : Append(k, tok)[i] = k[i]
  BY <1>2, AppendProperties DEF Path
<1>19. ReqTypes' /\ Alone(r)
  <2>1. results' \in [Req -> Seq({"chunk", "extend", "decode"})]
    BY <1>1, <1>2 DEF ReqTypes, Kind
  <2>2. ids' \in [Req -> Path] /\ last_node' \in [Req -> Path] /\ row' \in [Req -> Seq(Page)]
    BY <1>1, <1>2, <1>3, <1>14, <1>18 DEF ReqTypes, R
  <2>3. QED
    BY <1>1, <1>2, <1>3, <2>1, <2>2 DEF ReqTypes, Alone
<1>20. k \preceq Append(k, tok) /\ \A i \in 1..Len(k) : First(Append(k, tok), i) = First(k, i)
  <2>1. k \preceq Append(k, tok)
    BY <1>2, <1>18 DEF \preceq
  <2>2. k = First(Append(k, tok), Len(k)) /\ Len(k) \in 0..Len(Append(k, tok))
    BY <1>2, <1>18, <2>1, PrefixIsFirst
  <2>3. \A i \in 1..Len(k) : i \in 0..Len(k)
    BY <1>2
  <2>4. \A i \in 1..Len(k) : First(First(Append(k, tok), Len(k)), i) = First(Append(k, tok), i)
    BY <1>18, <2>2, <2>3, FirstOfFirst
  <2>5. QED
    BY <2>1, <2>2, <2>4
<1>21. Follows(tree, r)'
  <2>1. last_node'[r] \preceq ids'[r]
    BY <1>8, <1>17, <1>20
  <2>2. ASSUME NEW i \in 1..Len(k)
        PROVE  /\ First(ids'[r], i) \in Cached(tree')
               /\ row'[r][i] = tree'.val[First(ids'[r], i)]
    <3>1. First(ids'[r], i) = First(k, i)
      BY <1>17, <1>20
    <3>2. QED
      BY <1>3, <1>9, <1>16, <1>17, <3>1
  <2>3. QED
    BY <1>8, <2>1, <2>2 DEF Follows
<1>22. Progress(r)'
  <2>1. results'[r] = Tail(results[r]) /\ stage'[r] = "running"
    BY <1>1, <1>2, <1>3 DEF ReqTypes
  <2>2. InFlight(r)'
    BY <1>2, <1>14, <1>17, <1>18, <2>1 DEF InFlight
  <2>3. Len(last_node'[r]) <= Len(row'[r]) /\ Len(ids'[r]) > 0
    BY <1>2, <1>8, <1>14, <1>17, <1>18
  <2>4. QED
    BY <2>1, <2>2, <2>3 DEF Progress, Holds
<1>23. QED
  BY <1>3, <1>6, <1>9, <1>10, <1>11, <1>19, <1>21, <1>22 DEF Good

LEMMA ProcessChunkResultStep ==
  ASSUME IInv, NEW r \in Req, ProcessChunkResult(r)
  PROVE  Good(r) /\ Alone(r)
<1>1. SlotTypes /\ ReqTypes /\ Progress(r) /\ (Holds(r) => Follows(tree, r))
  BY DEF IInv
<1>2. /\ Holds(r) /\ results[r] # << >> /\ Head(results[r]) = "chunk"
      /\ results' = [results EXCEPT ![r] = Tail(results[r])]
      /\ UNCHANGED <<tree, free_slots, twice_freed, stage, ids, fill_len, row, last_node, delayed>>
  BY DEF ProcessChunkResult, PopResult
<1>3. results[r] \in Seq(Kind)
  BY <1>1 DEF ReqTypes, Kind
<1>4. results'[r] = Tail(results[r])
  BY <1>1, <1>2 DEF ReqTypes
<1> DEFINE s == results[r]
           u == Tail(s)
<1>5. /\ Len(s) \in Nat /\ Len(s) >= 1 /\ s[1] = "chunk"
      /\ u \in Seq(Kind) /\ Len(u) = Len(s) - 1
      /\ \A i \in 1..(Len(s) - 1) : u[i] = s[i + 1]
  BY <1>2, <1>3, ResultFacts
<1>6. SlotTypes' /\ ReqTypes' /\ Alone(r)
  <2>1. results' \in [Req -> Seq({"chunk", "extend", "decode"})]
    BY <1>1, <1>2, <1>5 DEF ReqTypes, Kind
  <2>2. QED
    BY <1>1, <1>2, <2>1 DEF SlotTypes, ReqTypes, Alone
<1>7. Holders' = Holders
  BY <1>2 DEF Holders, Holds
<1>8. Follows(tree, r)'
  BY <1>1, <1>2 DEF Follows
<1>9. Progress(r)'
  <2>1. CASE stage[r] = "chunked"
    <3>1. \A i \in 1..Len(s) : s[i] = "chunk"
      BY <1>1, <2>1 DEF Progress
    <3>2. \A i \in 1..Len(u) : i \in 1..(Len(s) - 1) /\ i + 1 \in 1..Len(s)
      BY <1>5
    <3>3. \A i \in 1..Len(u) : u[i] = "chunk"
      BY <1>5, <3>1, <3>2
    <3>4. QED
      BY <1>1, <1>2, <1>4, <2>1, <3>3 DEF Progress, Holds
  <2>2. CASE stage[r] = "running"
    <3>1. InFlight(r)
      BY <1>1, <2>2 DEF Progress
    <3>2. Len(s) = 2 /\ s[2] # "chunk" /\ Len(row[r]) = Len(ids[r])
      BY <1>5, <3>1 DEF InFlight
    <3>3. Len(u) = 1 /\ u[1] # "chunk"
      BY <1>5, <3>2
    <3> HIDE DEF s, u
    <3>4. results'[r] = u
      BY <1>4 DEF s, u
    <3>5. InFlight(r)'
      BY <1>2, <3>2, <3>3, <3>4 DEF InFlight
    <3>6. QED
      BY <1>1, <1>2, <2>2, <3>5 DEF Progress, Holds
  <2>3. QED
    BY <1>2, <2>1, <2>2 DEF Holds
<1>10. QED
  BY <1>2, <1>6, <1>7, <1>8, <1>9, TreeUntouched DEF Good

LEMMA ProcessPrefillResultStep ==
  ASSUME IInv, NEW r \in Req, ProcessPrefillResult(r)
  PROVE  Good(r) /\ Alone(r)
<1>1. /\ stage[r] = "running" /\ results[r] # << >> /\ Head(results[r]) # "chunk"
      /\ PopResult(r)
      /\ Finish(r) \/ \E tok \in Token : PrefillGoesOn(r, tok)
  BY DEF ProcessPrefillResult
<1>2. QED
  BY <1>1, FinishStep, PrefillGoesOnStep

LEMMA ProcessDecodeResultStep ==
  ASSUME IInv, NEW r \in Req, ProcessDecodeResult(r)
  PROVE  Good(r) /\ Alone(r)
<1>1. /\ stage[r] = "running" /\ results[r] # << >> /\ Head(results[r]) # "chunk"
      /\ PopResult(r)
      /\ \/ Finish(r)
         \/ /\ \E tok \in Token : ids' = [ids EXCEPT ![r] = Append(@, tok)]
            /\ UNCHANGED <<tree, free_slots, twice_freed, stage, fill_len, row, last_node,
                           delayed>>
  BY DEF ProcessDecodeResult
<1>2. CASE Finish(r)
  BY <1>1, <1>2, FinishStep
<1>3. CASE /\ \E tok \in Token : ids' = [ids EXCEPT ![r] = Append(@, tok)]
           /\ UNCHANGED <<tree, free_slots, twice_freed, stage, fill_len, row, last_node,
                          delayed>>
  <2>1. PICK tok \in Token : ids' = [ids EXCEPT ![r] = Append(ids[r], tok)]
    BY <1>3
  <2>2. SlotTypes /\ ReqTypes /\ Progress(r) /\ Follows(tree, r)
    BY <1>1 DEF IInv, Holds
  <2>3. /\ ids[r] \in Path /\ last_node[r] \in Path /\ Len(ids[r]) \in Nat /\ Len(row[r]) \in Nat
        /\ results' = [results EXCEPT ![r] = Tail(results[r])]
        /\ Tail(results[r]) \in Seq(Kind)
        /\ \/ Len(Tail(results[r])) = 0 /\ Len(row[r]) = Len(ids[r])
           \/ /\ Len(Tail(results[r])) = 1 /\ Tail(results[r])[1] # "chunk"
              /\ Len(row[r]) = Len(ids[r]) + 1
    BY <1>1, TokenResult
  <2> DEFINE k == ids[r]
             l == Append(k, tok)
             u == Tail(results[r])
  <2>4. /\ l \in Path /\ Len(l) = Len(k) + 1 /\ \A i \in 1..Len(k) : l[i] = k[i]
    BY <2>3, AppendProperties DEF Path
  <2>5. k \preceq l
    BY <2>3, <2>4 DEF \preceq
  <2>6. results'[r] = u /\ ids'[r] = l
    BY <2>1, <2>2, <2>3 DEF ReqTypes
  <2> HIDE DEF l, u
  <2>7. SlotTypes' /\ ReqTypes' /\ Alone(r)
    <3>1. ids' \in [Req -> Path]
      BY <2>1, <2>2, <2>4 DEF ReqTypes, l
    <3>2. results' \in [Req -> Seq({"chunk", "extend", "decode"})]
      BY <2>2, <2>3 DEF ReqTypes, Kind
    <3>3. QED
      BY <1>3, <2>1, <2>2, <2>3, <3>1, <3>2 DEF SlotTypes, ReqTypes, Alone
  <2>8. Holders' = Holders
    BY <1>3 DEF Holders, Holds
  <2>9. Follows(tree, r)'
    <3> DEFINE n == last_node[r]
    <3>1. /\ n \preceq k /\ n \in Path
          /\ \A i \in 1..Len(n) : First(k, i) \in Cached(tree)
                                  /\ row[r][i] = tree.val[First(k, i)]
      BY <2>2, <2>3 DEF Follows
    <3>2. n \preceq l
      BY <2>3, <2>4, <2>5, <3>1, PrefixTransitive
    <3>3. \A i \in 1..Len(n) : First(l, i) = First(k, i)
      <4>1. k = First(l, Len(k)) /\ Len(k) \in 0..Len(l) /\ Len(n) \in 0..Len(k)
        BY <2>3, <2>4, <2>5, <3>1, PrefixIsFirst
      <4>2. \A i \in 1..Len(n) : i \in 0..Len(k)
        BY <2>3, <4>1
      <4>3. \A i \in 1..Len(n) : First(First(l, Len(k)), i) = First(l, i)
        BY <2>4, <4>1, <4>2, FirstOfFirst
      <4>4. QED
        BY <4>1, <4>3
    <3>4. QED
      BY <1>3, <2>6, <3>1, <3>2, <3>3 DEF Follows
  <2>10. Progress(r)'
    <3>1. InFlight(r)'
      BY <1>3, <2>3, <2>4, <2>6 DEF InFlight, u
    <3>2. Len(ids'[r]) > 0
      BY <2>3, <2>4, <2>6
    <3>3. QED
      BY <1>1, <1>3, <2>2, <3>1, <3>2 DEF Progress, Holds
  <2>11. QED
    BY <1>3, <2>7, <2>8, <2>9, <2>10, TreeUntouched DEF Good
<1>4. QED
  BY <1>1, <1>2, <1>3

LEMMA FreeDelayedTokenStep ==
  ASSUME IInv, NEW r \in Req, FreeDelayedToken(r)
  PROVE  Good(r) /\ Alone(r)
<1>1. SlotTypes /\ ReqTypes /\ Progress(r)
  BY DEF IInv
<1>2. /\ stage[r] = "finished" /\ results[r] # << >>
      /\ results' = [results EXCEPT ![r] = Tail(results[r])]
      /\ free_slots' = FreeSlots(free_slots, delayed[r])
      /\ twice_freed' = twice_freed \cup (free_slots \cap delayed[r])
      /\ delayed' = [delayed EXCEPT ![r] = {}]
      /\ UNCHANGED <<tree, stage, ids, fill_len, row, last_node>>
  BY DEF FreeDelayedToken, PopResult
<1>3. results[r] \in Seq(Kind)
  BY <1>1 DEF ReqTypes, Kind
<1>4. Tail(results[r]) \in Seq(Kind)
  BY <1>2, <1>3, ResultFacts
<1>5. SlotTypes' /\ ReqTypes' /\ Alone(r)
  <2>1. results' \in [Req -> Seq({"chunk", "extend", "decode"})]
    BY <1>1, <1>2, <1>4 DEF ReqTypes, Kind
  <2>2. delayed[r] \subseteq Page /\ delayed' \in [Req -> SUBSET Page]
    BY <1>1, <1>2 DEF ReqTypes
  <2>3. SlotTypes'
    BY <1>1, <1>2, <2>2 DEF SlotTypes, FreeSlots
  <2>4. QED
    BY <1>1, <1>2, <2>1, <2>2, <2>3 DEF ReqTypes, Alone
<1>6. Holders' = Holders /\ ~Holds(r)' /\ ~Holds(r)
  BY <1>2 DEF Holders, Holds
<1>7. Progress(r)'
  BY <1>1, <1>2, <1>6 DEF Progress, Holds
<1>8. QED
  BY <1>2, <1>5, <1>6, <1>7, TreeUntouched DEF Good

LEMMA SkipRetractedStep ==
  ASSUME IInv, NEW r \in Req, SkipRetracted(r)
  PROVE  Good(r) /\ Alone(r)
<1>1. SlotTypes /\ ReqTypes /\ Progress(r)
  BY DEF IInv
<1>2. /\ stage[r] = "waiting" /\ results[r] # << >>
      /\ results' = [results EXCEPT ![r] = Tail(results[r])]
      /\ UNCHANGED <<tree, free_slots, twice_freed, stage, ids, fill_len, row, last_node, delayed>>
  BY DEF SkipRetracted, PopResult
<1>3. results[r] \in Seq(Kind)
  BY <1>1 DEF ReqTypes, Kind
<1>4. Tail(results[r]) \in Seq(Kind)
  BY <1>2, <1>3, ResultFacts
<1>5. SlotTypes' /\ ReqTypes' /\ Alone(r)
  <2>1. results' \in [Req -> Seq({"chunk", "extend", "decode"})]
    BY <1>1, <1>2, <1>4 DEF ReqTypes, Kind
  <2>2. QED
    BY <1>1, <1>2, <2>1 DEF SlotTypes, ReqTypes, Alone
<1>6. Holders' = Holders /\ ~Holds(r)' /\ ~Holds(r)
  BY <1>2 DEF Holders, Holds
<1>7. Progress(r)'
  BY <1>1, <1>2, <1>6 DEF Progress, Holds
<1>8. QED
  BY <1>2, <1>5, <1>6, <1>7, TreeUntouched DEF Good

LEMMA RetractStep ==
  ASSUME IInv, NEW r \in Req, Retract(r)
  PROVE  Good(r) /\ Alone(r)
<1> DEFINE all == {n \in Nodes(tree) : Evictable(tree, {m \in Nodes(tree) : n \preceq m})}
           own == {row[r][i] : i \in (Len(last_node[r]) + 1)..Len(row[r])}
           u   == Evict(tree, all)
           t   == DecLockRef(u, last_node[r])
           got == FreeSlots(free_slots, EvictedSlots(tree, all))
           residual == RetractSteps * (Cardinality(Running) - 1)
                         - Cardinality(FreeSlots(got, own))
<1>1. /\ SlotTypes /\ ReqTypes /\ Progress(r) /\ TreeOK(tree)
      /\ Locks(tree, Holders, last_node)
  BY DEF IInv
<1>2. PICK E \in Evictions(t, IF residual > 0 THEN residual ELSE 0) :
        /\ tree' = Evict(t, E)
        /\ free_slots' = FreeSlots(FreeSlots(got, own), EvictedSlots(t, E))
        /\ twice_freed' = twice_freed \cup (free_slots \cap EvictedSlots(tree, all))
             \cup (got \cap own) \cup (FreeSlots(got, own) \cap EvictedSlots(t, E))
  BY DEF Retract
<1>3. /\ stage[r] = "running"
      /\ stage' = [stage EXCEPT ![r] = "waiting"]
      /\ row' = [row EXCEPT ![r] = << >>]
      /\ last_node' = [last_node EXCEPT ![r] = Root]
      /\ fill_len' = [fill_len EXCEPT ![r] = 0]
      /\ UNCHANGED <<ids, results, delayed>>
  BY DEF Retract
<1>4. E \in SUBSET Nodes(t) /\ Evictable(t, E)
  BY DEF Evictions
<1>5. /\ TreeOK(u) /\ Locks(u, Holders, last_node) /\ Pins(tree, u, Holders, last_node)
      /\ EvictedSlots(tree, all) \subseteq Page
  <2>1. all \in SUBSET Nodes(tree) /\ Evictable(tree, all)
    BY <1>1, AllEvictable
  <2> HIDE DEF all
  <2>2. QED
    BY <1>1, <2>1, EvictKeeps, HoldersFinite
<1>6. r \in Holders /\ IsFiniteSet(Holders) /\ last_node[r] \in Path
  BY <1>1, <1>3, HoldersFinite DEF Holders, Holds, ReqTypes
<1>7. Holders' = Holders \ {r} /\ ~Holds(r)'
  BY <1>1, <1>3 DEF Holders, Holds, ReqTypes
<1>8. own \subseteq Page
  <2>1. row[r] \in Seq(Page) /\ Len(last_node[r]) \in Nat
    BY <1>1, <1>6, PathProperties DEF ReqTypes
  <2>2. QED
    BY <2>1, RowElements
<1>9. got \subseteq Page
  BY <1>1, <1>5 DEF SlotTypes, FreeSlots
<1> HIDE DEF all, own, got, u, residual
<1>10. TreeOK(t) /\ t.val = u.val
  BY <1>5, <1>6, LockRefProperties
<1>11. Cached(t) = Cached(u)
  BY <1>10 DEF Cached
<1>12. Locks(t, Holders \ {r}, last_node)
  BY <1>5, <1>6, DecLockRefLocks
<1>13. Locks(t, Holders', last_node) /\ IsFiniteSet(Holders')
  <2>1. IsFiniteSet(Holders \ {r})
    BY <1>6, FS_RemoveElement
  <2> HIDE DEF t
  <2>2. QED
    BY <1>7, <1>12, <2>1
<1> HIDE DEF t
<1>14. /\ TreeOK(tree') /\ Locks(tree', Holders', last_node)
       /\ Pins(t, tree', Holders', last_node)
       /\ EvictedSlots(t, E) \subseteq Page
  BY <1>2, <1>4, <1>10, <1>13, EvictKeeps
<1>15. \A q \in Holders' : last_node'[q] = last_node[q]
  BY <1>1, <1>3, <1>7 DEF Holders, ReqTypes
<1>16. Locks(tree', Holders', last_node')
  BY <1>14, <1>15, LocksOf
<1>17. Pins(tree, tree', Holders \cap Holders', last_node)
  BY <1>5, <1>10, <1>11, <1>14 DEF Pins
<1>18. SlotTypes'
  BY <1>1, <1>2, <1>5, <1>8, <1>9, <1>14 DEF SlotTypes, FreeSlots
<1>19. ReqTypes' /\ Alone(r)
  <2>1. last_node' \in [Req -> Path] /\ row' \in [Req -> Seq(Page)]
    <3>1. Root \in Path /\ << >> \in Seq(Page)
      BY RootProperties
    <3>2. QED
      BY <1>1, <1>3, <3>1 DEF ReqTypes
  <2>2. QED
    BY <1>1, <1>3, <2>1 DEF ReqTypes, Alone
<1>20. Progress(r)'
  <2>1. stage'[r] = "waiting" /\ row'[r] = << >> /\ last_node'[r] = Root
    BY <1>1, <1>3 DEF ReqTypes
  <2>2. Len(ids'[r]) > 0
    BY <1>1, <1>3 DEF Progress
  <2>3. QED
    BY <1>7, <2>1, <2>2 DEF Progress, Holds
<1>21. QED
  BY <1>7, <1>14, <1>16, <1>17, <1>18, <1>19, <1>20 DEF Good

---------------------------------------------------------------------------
(* The inductive step                                                      *)

LEMMA FlushStep ==
  ASSUME IInv, Flush
  PROVE  IInv' /\ Pins(tree, tree', Holders \cap Holders', last_node)
<1>1. /\ \A r \in Req : ~Holds(r)
      /\ tree' = NewTree /\ free_slots' = Page
      /\ UNCHANGED <<twice_freed, stage, ids, fill_len, row, last_node, results, delayed>>
  BY DEF Flush, reqVars
<1>2. Holders = {} /\ Holders' = {}
  BY <1>1 DEF Holders, Holds
<1>3. TreeOK(tree') /\ Nodes(tree') = {}
  BY <1>1, NewTreeOK
<1>4. Locks(tree', Holders', last_node') /\ Pins(tree, tree', Holders \cap Holders', last_node)
  BY <1>2, <1>3 DEF Locks, Pins
<1>5. SlotTypes' /\ ReqTypes'
  BY <1>1 DEF IInv, SlotTypes, ReqTypes
<1>6. \A r \in Req : Progress(r)' /\ ~Holds(r)'
  BY <1>1 DEF IInv, Progress, InFlight, Holds
<1>7. QED
  BY <1>3, <1>4, <1>5, <1>6 DEF IInv

LEMMA InitInv ==
  ASSUME Init
  PROVE  IInv
<1>1. \A r \in Req : ~Holds(r) /\ Progress(r)
  BY DEF Init, Holds, Progress
<1>2. Holders = {}
  BY <1>1 DEF Holders
<1>3. TreeOK(tree) /\ Nodes(tree) = {}
  BY NewTreeOK DEF Init
<1>4. Locks(tree, Holders, last_node)
  BY <1>2, <1>3 DEF Locks
<1>5. SlotTypes /\ ReqTypes
  <2>1. << >> \in Path /\ Root \in Path /\ << >> \in Seq(Page)
    BY RootProperties DEF Root
  <2>2. QED
    BY <2>1 DEF Init, SlotTypes, ReqTypes
<1>6. QED
  BY <1>1, <1>3, <1>4, <1>5 DEF IInv

(* One step per action: the invariant, and the slots that holders keep. *)
LEMMA NextInv ==
  ASSUME IInv, [Next]_vars
  PROVE  IInv' /\ Pins(tree, tree', Holders \cap Holders', last_node)
<1>1. CASE Flush
  BY <1>1, FlushStep
<1>2. ASSUME NEW r \in Req,
             \/ Receive(r) \/ ComputePrefixMatch(r) \/ Admit(r) \/ NextChunk(r)
             \/ LaunchDecode(r) \/ Retract(r)
             \/ ProcessChunkResult(r) \/ ProcessPrefillResult(r) \/ ProcessDecodeResult(r)
             \/ FreeDelayedToken(r) \/ SkipRetracted(r)
      PROVE  IInv' /\ Pins(tree, tree', Holders \cap Holders', last_node)
  <2>1. CASE Receive(r)
    BY <2>1, ReceiveStep, GoodStep DEF Good
  <2>2. CASE ComputePrefixMatch(r)
    BY <2>2, ComputePrefixMatchStep, GoodStep DEF Good
  <2>3. CASE Admit(r)
    BY <2>3, AdmitStep, GoodStep DEF Good
  <2>4. CASE NextChunk(r)
    BY <2>4, NextChunkStep, GoodStep DEF Good
  <2>5. CASE LaunchDecode(r)
    BY <2>5, LaunchDecodeStep, GoodStep DEF Good
  <2>6. CASE Retract(r)
    BY <2>6, RetractStep, GoodStep DEF Good
  <2>7. CASE ProcessChunkResult(r)
    BY <2>7, ProcessChunkResultStep, GoodStep DEF Good
  <2>8. CASE ProcessPrefillResult(r)
    BY <2>8, ProcessPrefillResultStep, GoodStep DEF Good
  <2>9. CASE ProcessDecodeResult(r)
    BY <2>9, ProcessDecodeResultStep, GoodStep DEF Good
  <2>10. CASE FreeDelayedToken(r)
    BY <2>10, FreeDelayedTokenStep, GoodStep DEF Good
  <2>11. CASE SkipRetracted(r)
    BY <2>11, SkipRetractedStep, GoodStep DEF Good
  <2>12. QED
    BY <1>2, <2>1, <2>2, <2>3, <2>4, <2>5, <2>6, <2>7, <2>8, <2>9, <2>10, <2>11
<1>3. CASE UNCHANGED vars
  <2>1. IInv'
    BY <1>3 DEF vars, IInv, SlotTypes, ReqTypes, Holders, Holds, Progress, InFlight, Follows
  <2>2. Pins(tree, tree', Holders \cap Holders', last_node)
    BY <1>3 DEF vars, Pins
  <2>3. QED
    BY <2>1, <2>2
<1>4. QED
  BY <1>1, <1>2, <1>3 DEF Next

---------------------------------------------------------------------------
(* Theorems                                                                *)

(* IInv is an invariant of the cache. *)
THEOREM RadixCacheInv == Spec => []IInv
BY InitInv, NextInv, PTL DEF Spec

(* The tree, the allocator and the requests keep their types: every slot   *)
(* number that reaches a row or the free list is one of the pool's.        *)
THEOREM RadixCacheTypes == Spec => []TypeOK
<1>1. IInv => TypeOK
  BY DEF IInv, TypeOK, SlotTypes, ReqTypes, TreeOK
<1>2. QED
  BY <1>1, RadixCacheInv, PTL

(* The tree is a radix tree after every split, insertion and eviction, for *)
(* any number of requests and any keys.                                    *)
THEOREM RadixCacheShape == Spec => []TreeShape
<1>1. IInv => TreeShape
  BY DEF IInv, TreeShape, TreeOK
<1>2. QED
  BY <1>1, RadixCacheInv, PTL

(* Every lock_ref counts the requests that hold a node at or below it, and *)
(* no request's last_node is evicted.                                      *)
THEOREM RadixCacheLocks == Spec => []LockRefExact
<1>1. ASSUME IInv PROVE LockRefExact
  <2>1. Locks(tree, Holders, last_node)
    BY <1>1 DEF IInv
  <2>2. \A n : {r \in Holders : n \preceq last_node[r]}
                 = {r \in Req : Holds(r) /\ n \preceq last_node[r]}
    BY DEF Holders
  <2>3. \A r \in Req : Holds(r) => last_node[r] \in Nodes(tree) \cup {Root}
    BY <2>1 DEF Locks, Holders
  <2>4. QED
    BY <2>1, <2>2, <2>3 DEF Locks, LockRefExact
<1>2. QED
  BY <1>1, RadixCacheInv, PTL

(* The shared part of a request's row is the tree's, whoever cached it. *)
THEOREM RadixCacheRows == Spec => []RowsFollowTree
<1>1. IInv => RowsFollowTree
  BY DEF IInv, RowsFollowTree, Follows
<1>2. QED
  BY <1>1, RadixCacheInv, PTL

(* No step, of the request itself or of another one, takes a slot of the   *)
(* prefix that a request holds before and after it.                        *)
THEOREM RadixCachePins == Spec => PrefixPinned
<1>1. ASSUME IInv, [Next]_vars
      PROVE  [\A r \in Req : \A p \in Cached(tree) :
                Holds(r) /\ Holds(r)' /\ p \preceq last_node[r]
                  => p \in Cached(tree') /\ tree'.val[p] = tree.val[p]]_vars
  <2>1. Pins(tree, tree', Holders \cap Holders', last_node)
    BY <1>1, NextInv
  <2>2. \A r \in Req : Holds(r) /\ Holds(r)' => r \in Holders \cap Holders'
    BY DEF Holders
  <2>3. QED
    BY <2>1, <2>2 DEF Pins
<1>2. QED
  BY <1>1, RadixCacheInv, PTL DEF Spec, PrefixPinned
=============================================================================
