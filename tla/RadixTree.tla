------------------------------ MODULE RadixTree ------------------------------
(***************************************************************************)
(* The radix tree of cached prefixes (mem_cache/radix_cache.py) as a value *)
(* and the operations of class RadixCache on it.                           *)
(*                                                                         *)
(* A tree t is a record:                                                   *)
(*   t.val        maps every cached prefix (a non-empty path of blocks) to *)
(*                the KV slot that holds the KV entry of its last block;   *)
(*   t.lock_ref   maps every TreeNode to its reference count.  A node is   *)
(*                named by its END PATH, the concatenation of the keys from*)
(*                the root down to it.  _split_node gives the UPPER half a *)
(*                new object and leaves the lower half in the old one, so  *)
(*                the end path of a TreeNode object never changes: the name*)
(*                is the object's identity, which Req.last_node keeps.     *)
(*   t.evictable_size_, t.protected_size_   the two counters.              *)
(* The root is the empty path; it is locked for ever (reset: lock_ref = 1) *)
(* and never evicted, so it is not an entry of t.lock_ref.                 *)
(*                                                                         *)
(* A block is one token when page_size = 1 and one page of page_size tokens*)
(* otherwise: every key that reaches the tree is cut to whole pages first. *)
(***************************************************************************)
EXTENDS Integers, Sequences, FiniteSets

CONSTANTS Token,    \* the blocks a key is made of
          Page      \* the KV slots (pages) of the pool

ASSUME PageAssumption == IsFiniteSet(Page)

Root == << >>
Path == Seq(Token)

(* p is an ancestor-or-self position of q *)
p \preceq q == /\ Len(p) <= Len(q)
               /\ \A i \in 1..Len(p) : p[i] = q[i]

First(k, i) == SubSeq(k, 1, i)

Nodes(t)  == DOMAIN t.lock_ref
Cached(t) == DOMAIN t.val

(* n is the TreeNode whose key covers position p: the least node below p *)
IsOwner(t, p, n) == /\ n \in Nodes(t)
                    /\ p \preceq n
                    /\ \A m \in Nodes(t) : p \preceq m => n \preceq m

Owner(t, p) == CHOOSE n \in Nodes(t) : IsOwner(t, p, n)

(* what a tree is made of *)
TreeType(t) ==
  /\ t \in [val : [Cached(t) -> Page], lock_ref : [Nodes(t) -> Int],
            evictable_size_ : Int, protected_size_ : Int]
  /\ Cached(t) \subseteq Path /\ Nodes(t) \subseteq Path

(* The shape of a radix tree: closed under prefixes, and every cached      *)
(* position lies in the key of exactly one node.                           *)
IsRadixTree(t) ==
  /\ Nodes(t) \subseteq Cached(t)
  /\ \A p \in Cached(t) : /\ Len(p) > 0
                           /\ \E n \in Nodes(t) : IsOwner(t, p, n)
                           /\ \A i \in 1..Len(p) : First(p, i) \in Cached(t)

(* reset *)
NewTree == [val             |-> [p \in {} |-> 0],
            lock_ref        |-> [p \in {} |-> 0],
            evictable_size_ |-> 0,
            protected_size_ |-> 0]

---------------------------------------------------------------------------
(* The walk of _match_prefix_helper and of _insert_helper: child by child, *)
(* as long as the keys agree.  It reaches the longest cached prefix of k.  *)
MatchLen(t, k) == CHOOSE i \in 0..Len(k) :
                    /\ i > 0 => First(k, i) \in Cached(t)
                    /\ \A j \in 1..Len(k) : First(k, j) \in Cached(t) => j <= i

Matched(t, k) == First(k, MatchLen(t, k))

(* _split_node forgets the reader's references (mutation). *)
SplitUnlocked(t, p) ==
  IF p = Root \/ p \in Nodes(t) THEN t
  ELSE [t EXCEPT !.lock_ref = [n \in Nodes(t) \cup {p} |->
                                 IF n = p THEN 0 ELSE t.lock_ref[n]]]

(* _split_node: if the walk ends inside a node's key, the upper part of the*)
(* key becomes a node of its own, with the references of the lower part.   *)
Split(t, p) ==
  IF p = Root \/ p \in Nodes(t) THEN t
  ELSE [t EXCEPT !.lock_ref = [n \in Nodes(t) \cup {p} |->
                                 IF n = p THEN t.lock_ref[Owner(t, p)]
                                          ELSE t.lock_ref[n]]]

(* match_prefix returns Matched(t, k) as last_node (and the slots along it)*)
(* and leaves the tree split there.                                        *)
MatchPrefix(t, k) == Split(t, Matched(t, k))

(* The new leaf keeps the key's tokens for its value (mutation). *)
AddLeafOfTokens(t, k, v, m) ==
  [t EXCEPT !.val = [p \in Cached(t) \cup {First(k, i) : i \in (m + 1)..Len(k)} |->
                       IF p \in Cached(t) THEN t.val[p] ELSE k[Len(p)]],
            !.lock_ref = [n \in Nodes(t) \cup {k} |->
                            IF n = k THEN 0 ELSE t.lock_ref[n]],
            !.evictable_size_ = @ + (Len(k) - m)]

(* _insert_helper: the part of k that is not cached becomes a new leaf with*)
(* the caller's slots; the caller learns MatchLen(t, k).                   *)
AddLeaf(t, k, v, m) ==
  [t EXCEPT !.val = [p \in Cached(t) \cup {First(k, i) : i \in (m + 1)..Len(k)} |->
                       IF p \in Cached(t) THEN t.val[p] ELSE v[Len(p)]],
            !.lock_ref = [n \in Nodes(t) \cup {k} |->
                            IF n = k THEN 0 ELSE t.lock_ref[n]],
            !.evictable_size_ = @ + (Len(k) - m)]

Insert(t, k, v) ==
  LET m == MatchLen(t, k)
      s == Split(t, First(k, m))
  IN  IF m < Len(k) THEN AddLeaf(s, k, v, m) ELSE s

---------------------------------------------------------------------------
(* inc_lock_ref and dec_lock_ref walk from node n to the root.  The nodes  *)
(* they meet cover the positions up to n; the nodes whose count changes    *)
(* between 0 and 1 carry their length from one counter to the other.       *)
WithCount(t, n, c) == {p \in Cached(t) : p \preceq n /\ t.lock_ref[Owner(t, p)] = c}

IncLockRef(t, n) ==
  LET delta == Cardinality(WithCount(t, n, 0))
  IN  [t EXCEPT !.lock_ref = [m \in Nodes(t) |-> IF m \preceq n THEN t.lock_ref[m] + 1
                                                                 ELSE t.lock_ref[m]],
                !.evictable_size_ = @ - delta,
                !.protected_size_ = @ + delta]

(* dec_lock_ref moves the sizes one reference too late (mutation). *)
DecLockRefLate(t, n) ==
  LET delta == Cardinality(WithCount(t, n, 0))
  IN  [t EXCEPT !.lock_ref = [m \in Nodes(t) |-> IF m \preceq n THEN t.lock_ref[m] - 1
                                                                 ELSE t.lock_ref[m]],
                !.evictable_size_ = @ + delta,
                !.protected_size_ = @ - delta]

DecLockRef(t, n) ==
  LET delta == Cardinality(WithCount(t, n, 1))
  IN  [t EXCEPT !.lock_ref = [m \in Nodes(t) |-> IF m \preceq n THEN t.lock_ref[m] - 1
                                                                 ELSE t.lock_ref[m]],
                !.evictable_size_ = @ + delta,
                !.protected_size_ = @ - delta]

---------------------------------------------------------------------------
(* evict pops leaves with lock_ref 0, least recently used first, and a     *)
(* parent once its last child is gone.  Which leaves are older is left     *)
(* open: a set E of nodes can be what one call removes if it is closed     *)
(* downwards, unlocked, and the call did not stop early or late.           *)
(* A leaf takes the keys of its ancestors with it (mutation). *)
CoveredPath(t, E) == {p \in Cached(t) : \E n \in E : p \preceq n}

(* the positions in the keys of the nodes of E, for an E closed downwards *)
Covered(t, E) == {p \in Cached(t) : \A n \in Nodes(t) : p \preceq n => n \in E}

ClosedBelow(t, E) == \A m \in E : \A n \in Nodes(t) : m \preceq n => n \in E

(* The lock_ref test is missing in evict (mutation). *)
EvictableAnyway(t, E) == ClosedBelow(t, E)

Evictable(t, E) == ClosedBelow(t, E) /\ \A n \in E : t.lock_ref[n] = 0

(* the loop runs while num_evicted < num_tokens and leaves are left *)
Evictions(t, num) ==
  {E \in SUBSET Nodes(t) :
     /\ Evictable(t, E)
     /\ \/ Cardinality(Covered(t, E)) >= num
        \/ \A n \in Nodes(t) : Evictable(t, {m \in Nodes(t) : n \preceq m}) => n \in E
     /\ \/ E = {}
        \/ \E last \in E : /\ ClosedBelow(t, E \ {last})
                           /\ Cardinality(Covered(t, E \ {last})) < num}

Evict(t, E) ==
  LET gone == Covered(t, E)
  IN  [t EXCEPT !.val = [p \in Cached(t) \ gone |-> t.val[p]],
                !.lock_ref = [n \in Nodes(t) \ E |-> t.lock_ref[n]],
                !.evictable_size_ = @ - Cardinality(gone)]

(* the slots that evict hands back to the allocator *)
EvictedSlots(t, E) == {t.val[p] : p \in Covered(t, E)}
=============================================================================
