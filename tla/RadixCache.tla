------------------------------ MODULE RadixCache ------------------------------
(***************************************************************************)
(* The KV cache at work: the radix tree, the slot allocator                *)
(* (TokenToKVPoolAllocator) and the request rows (ReqToTokenPool), used by *)
(* requests that are admitted, prefilled in chunks, decoded, retracted and *)
(* finished.  This is the page_size = 1 configuration, in which a block is *)
(* one token and a slot holds one token's KV entry.                        *)
(*                                                                         *)
(* The actions are taken request by request: a loop of the scheduler over a*)
(* batch is the sequence of its per-request steps.  Which request is served*)
(* when (the scheduler's policy) is left open, so the properties hold for  *)
(* every policy.  MaxInFlight = 1 is event_loop_normal; MaxInFlight = 2 is *)
(* event_loop_overlap, which launches the next forward of a request before *)
(* it has processed the result of the previous one.                        *)
(***************************************************************************)
EXTENDS RadixTree

CONSTANTS Req,           \* request objects
          Prompt,        \* the prompts a request may bring
          MaxLen,        \* bound on len(origin_input_ids + output_ids)
          MaxInFlight,   \* forwards launched and not yet processed, per request
          RetractSteps   \* global_config.retract_decode_steps

ASSUME RadixCacheAssumption ==
  /\ IsFiniteSet(Req)
  /\ Prompt \subseteq {p \in Path : Len(p) > 0}
  /\ MaxLen \in Nat
  /\ MaxInFlight \in {1, 2}
  /\ RetractSteps \in Nat \ {0}

VARIABLES
  tree,         \* the radix tree
  free_slots,   \* the allocator's free slots, as a set
  twice_freed,  \* slots that were freed while they were in the free list
  stage,        \* where a request is: waiting, chunked, running or finished
  ids,          \* origin_input_ids + output_ids
  fill_len,     \* len(fill_ids): how far the prefill has been launched
  row,          \* req_to_token[req_pool_idx, :len]
  last_node,    \* Req.last_node; at page_size 1, len(prefix_indices) = Len(last_node)
  results,      \* forwards launched and not yet processed, oldest first
  delayed       \* out_cache_loc of the forward launched before a finish was known

vars == <<tree, free_slots, twice_freed, stage, ids, fill_len, row, last_node,
          results, delayed>>

reqVars == <<stage, ids, fill_len, row, last_node, results, delayed>>

(* a request that owns a row and a reference on the tree *)
Holds(r) == stage[r] \in {"chunked", "running"}

Running == {r \in Req : stage[r] = "running"}

---------------------------------------------------------------------------
(* TokenToKVPoolAllocator                                                  *)

(* free appends, and does not look whether a slot is free already *)
FreeSlots(free, S) == free \cup S

(* alloc hands out slots of the free list; which ones is left open *)
Allocations(free, n) == {a \in [1..n -> free] : \A i, j \in 1..n : a[i] = a[j] => i = j}

SlotsOf(a, n) == {a[i] : i \in 1..n}

(* alloc_token_slots(num): evict(num) if the free list is too short, then  *)
(* alloc.  Out of memory raises RuntimeError: the step does not exist.     *)
(* E is what evict removes.                                                *)
EvictIfShort(t, free, num, E) ==
  IF Cardinality(free) < num THEN E \in Evictions(t, num) ELSE E = {}

---------------------------------------------------------------------------
(* cache_finished_req and cache_unfinished_req with key k: the slots of the*)
(* row that the tree already had from another request are freed.           *)
Duplicates(r, k) ==
  {row[r][i] : i \in (Len(last_node[r]) + 1)..MatchLen(tree, k)}

(* cache_unfinished_req forgets that a part was its own prefix (mutation). *)
CacheUnfinishedFromZero(r, k) ==
  LET t == Insert(tree, k, row[r])
  IN  [tree |-> IncLockRef(DecLockRef(t, last_node[r]), k),
       dup  |-> {row[r][i] : i \in 1..MatchLen(tree, k)}]

(* cache_unfinished_req: insert, free the duplicates, move the reference   *)
(* from the old last_node to the node that now ends at k.                  *)
CacheUnfinishedReq(r, k) ==
  LET t == Insert(tree, k, row[r])
  IN  [tree |-> IncLockRef(DecLockRef(MatchPrefix(t, k), last_node[r]), k),
       dup  |-> Duplicates(r, k)]

(* cache_finished_req: insert, free the duplicates, drop the reference. *)
CacheFinishedReq(r, k) ==
  [tree |-> DecLockRef(Insert(tree, k, row[r]), last_node[r]),
   dup  |-> Duplicates(r, k)]

(* the row of key k along tree t, followed by the slots in a *)
RowOf(t, k, m, a, n) == [i \in 1..(m + n) |-> IF i <= m THEN t.val[First(k, i)] ELSE a[i - m]]

(* the row is not rewritten with the tree's slots (mutation) *)
RowKept(r, t, k, len) == row[r]

(* req_to_token_pool.write with the slots that match_prefix returned *)
RowRewritten(r, t, k, len) ==
  [i \in 1..len |-> IF Len(last_node[r]) < i /\ i <= Len(k) THEN t.val[First(k, i)]
                                                            ELSE row[r][i]]

---------------------------------------------------------------------------
Init ==
  /\ tree = NewTree
  /\ free_slots = Page
  /\ twice_freed = {}
  /\ stage = [r \in Req |-> "finished"]
  /\ ids = [r \in Req |-> << >>]
  /\ fill_len = [r \in Req |-> 0]
  /\ row = [r \in Req |-> << >>]
  /\ last_node = [r \in Req |-> Root]
  /\ results = [r \in Req |-> << >>]
  /\ delayed = [r \in Req |-> {}]

(* handle_generate_request: a new request joins the waiting queue. *)
Receive(r) ==
  /\ stage[r] = "finished" /\ results[r] = << >>
  /\ \E p \in Prompt : ids' = [ids EXCEPT ![r] = p]
  /\ stage' = [stage EXCEPT ![r] = "waiting"]
  /\ UNCHANGED <<tree, free_slots, twice_freed, fill_len, row, last_node, results, delayed>>

(* SchedulePolicy._compute_prefix_matches: a waiting request looks up its  *)
(* prefix, which may split a node, and is not admitted.                    *)
ComputePrefixMatch(r) ==
  /\ stage[r] = "waiting"
  /\ tree' = MatchPrefix(tree, First(ids[r], Len(ids[r]) - 1))
  /\ UNCHANGED <<free_slots, twice_freed>> /\ UNCHANGED reqVars

(* The chunk launched for r now ends at position f. *)
Launch(r, f) ==
  /\ fill_len' = [fill_len EXCEPT ![r] = f]
  /\ stage' = [stage EXCEPT ![r] = IF f < Len(ids[r]) THEN "chunked" ELSE "running"]
  /\ results' = [results EXCEPT ![r] = Append(@, IF f < Len(ids[r]) THEN "chunk" ELSE "extend")]

(* init_next_round_input, add_one_req, prepare_for_extend: match the prefix*)
(* but for the last token, lock it, evict if needed, allocate the rest of  *)
(* the chunk.  At most one request is being chunked.                       *)
Admit(r) ==
  LET k == First(ids[r], Len(ids[r]) - 1)
      m == MatchLen(tree, k)
      t == IncLockRef(MatchPrefix(tree, k), First(k, m))
  IN  /\ stage[r] = "waiting" /\ results[r] = << >>
      /\ \A q \in Req : stage[q] # "chunked"
      /\ \E f \in (m + 1)..Len(ids[r]) :
         \E E \in SUBSET Nodes(t) :
           /\ EvictIfShort(t, free_slots, f - m, E)
           /\ LET free == FreeSlots(free_slots, EvictedSlots(t, E))
              IN  /\ \E a \in Allocations(free, f - m) :
                       /\ free_slots' = free \ SlotsOf(a, f - m)
                       /\ row' = [row EXCEPT ![r] = RowOf(t, k, m, a, f - m)]
                  /\ twice_freed' = twice_freed \cup (free_slots \cap EvictedSlots(t, E))
           /\ tree' = Evict(t, E)
           /\ last_node' = [last_node EXCEPT ![r] = First(k, m)]
           /\ Launch(r, f)
           /\ UNCHANGED <<ids, delayed>>

(* get_next_batch_to_run with a chunked_req: cache what is prefilled so    *)
(* far, then add_chunked_req and prepare_for_extend for the next chunk.    *)
NextChunk(r) ==
  LET k == First(ids[r], fill_len[r])
      c == CacheUnfinishedReq(r, k)
      t == c.tree
      m == Len(k)
  IN  /\ stage[r] = "chunked" /\ Len(results[r]) < MaxInFlight
      /\ \E f \in (m + 1)..Len(ids[r]) :
         \E E \in SUBSET Nodes(t) :
           /\ EvictIfShort(t, FreeSlots(free_slots, c.dup), f - m, E)
           /\ LET free == FreeSlots(FreeSlots(free_slots, c.dup), EvictedSlots(t, E))
              IN  /\ \E a \in Allocations(free, f - m) :
                       /\ free_slots' = free \ SlotsOf(a, f - m)
                       /\ row' = [row EXCEPT ![r] = RowOf(t, k, m, a, f - m)]
                  /\ twice_freed' = twice_freed \cup (free_slots \cap c.dup)
                       \cup (FreeSlots(free_slots, c.dup) \cap EvictedSlots(t, E))
           /\ tree' = Evict(t, E)
           /\ last_node' = [last_node EXCEPT ![r] = k]
           /\ Launch(r, f)
           /\ UNCHANGED <<ids, delayed>>

(* prepare_for_decode: one more slot for every running request. *)
LaunchDecode(r) ==
  /\ stage[r] = "running" /\ Len(results[r]) < MaxInFlight
  /\ \E E \in SUBSET Nodes(tree) :
       /\ EvictIfShort(tree, free_slots, 1, E)
       /\ LET free == FreeSlots(free_slots, EvictedSlots(tree, E))
          IN  \E s \in free : /\ free_slots' = free \ {s}
                              /\ row' = [row EXCEPT ![r] = Append(@, s)]
       /\ twice_freed' = twice_freed \cup (free_slots \cap EvictedSlots(tree, E))
       /\ tree' = Evict(tree, E)
  /\ results' = [results EXCEPT ![r] = Append(@, "decode")]
  /\ UNCHANGED <<stage, ids, fill_len, last_node, delayed>>

(* req.output_ids.append(next_token_id); check_finished finds it finished, *)
(* by a stop token or at max_new_tokens: cache_finished_req.  A forward    *)
(* that is in flight already (overlap) keeps its slot until its result.    *)
Finish(r) ==
  LET c == CacheFinishedReq(r, ids[r])
  IN  /\ tree' = c.tree
      /\ free_slots' = FreeSlots(free_slots, c.dup)
      /\ twice_freed' = twice_freed \cup (free_slots \cap c.dup)
      /\ stage' = [stage EXCEPT ![r] = "finished"]
      /\ delayed' = [delayed EXCEPT ![r] = {row[r][i] : i \in (Len(ids[r]) + 1)..Len(row[r])}]
      /\ row' = [row EXCEPT ![r] = << >>]
      /\ last_node' = [last_node EXCEPT ![r] = Root]
      /\ ids' = [ids EXCEPT ![r] = << >>]
      /\ fill_len' = [fill_len EXCEPT ![r] = 0]

(* process_batch_result_prefill for a request that goes on: append the     *)
(* token, cache_unfinished_req.                                            *)
PrefillGoesOn(r, tok) ==
  LET k == ids[r]
      c == CacheUnfinishedReq(r, k)
  IN  /\ tree' = c.tree
      /\ free_slots' = FreeSlots(free_slots, c.dup)
      /\ twice_freed' = twice_freed \cup (free_slots \cap c.dup)
      /\ row' = [row EXCEPT ![r] = RowRewritten(r, c.tree, k, Len(@))]
      /\ last_node' = [last_node EXCEPT ![r] = k]
      /\ ids' = [ids EXCEPT ![r] = Append(@, tok)]
      /\ UNCHANGED <<stage, fill_len, delayed>>

PopResult(r) == results' = [results EXCEPT ![r] = Tail(@)]

(* process_batch_result_prefill: a chunk that is not the last one only     *)
(* counts down is_chunked.                                                 *)
ProcessChunkResult(r) ==
  /\ Holds(r) /\ results[r] # << >> /\ Head(results[r]) = "chunk"
  /\ PopResult(r)
  /\ UNCHANGED <<tree, free_slots, twice_freed, stage, ids, fill_len, row, last_node, delayed>>

ProcessPrefillResult(r) ==
  /\ stage[r] = "running" /\ results[r] # << >> /\ Head(results[r]) = "extend"
  /\ PopResult(r)
  /\ \/ Finish(r)
     \/ /\ Len(ids[r]) + 1 < MaxLen
        /\ \E tok \in Token : PrefillGoesOn(r, tok)

(* process_batch_result_decode of a request that was not finished *)
ProcessDecodeResult(r) ==
  /\ stage[r] = "running" /\ results[r] # << >> /\ Head(results[r]) = "decode"
  /\ PopResult(r)
  /\ \/ Finish(r)
     \/ /\ Len(ids[r]) + 1 < MaxLen
        /\ \E tok \in Token : ids' = [ids EXCEPT ![r] = Append(@, tok)]
        /\ UNCHANGED <<tree, free_slots, twice_freed, stage, fill_len, row, last_node, delayed>>

(* process_batch_result_decode of a request that finished one step ago:    *)
(* "Free the one extra delayed token".                                     *)
FreeDelayedToken(r) ==
  /\ stage[r] = "finished" /\ results[r] # << >>
  /\ PopResult(r)
  /\ free_slots' = FreeSlots(free_slots, delayed[r])
  /\ twice_freed' = twice_freed \cup (free_slots \cap delayed[r])
  /\ delayed' = [delayed EXCEPT ![r] = {}]
  /\ UNCHANGED <<tree, stage, ids, fill_len, row, last_node>>

(* a result that comes back for a retracted request is ignored *)
SkipRetracted(r) ==
  /\ stage[r] = "waiting" /\ results[r] # << >>
  /\ PopResult(r)
  /\ UNCHANGED <<tree, free_slots, twice_freed, stage, ids, fill_len, row, last_node, delayed>>

(* update_running_batch when check_decode_mem fails: evict did not help,   *)
(* retract_decode gives up r's own slots, drops its reference and evicts   *)
(* until RetractSteps tokens are there for each request that stays; it goes*)
(* on with the next request while they are not.                            *)
Retract(r) ==
  LET all == {n \in Nodes(tree) : Evictable(tree, {m \in Nodes(tree) : n \preceq m})}
      own == {row[r][i] : i \in (Len(last_node[r]) + 1)..Len(row[r])}
      t   == DecLockRef(Evict(tree, all), last_node[r])
      got == FreeSlots(free_slots, EvictedSlots(tree, all))
      residual == RetractSteps * (Cardinality(Running) - 1)
                    - Cardinality(FreeSlots(got, own))
  IN  /\ stage[r] = "running" /\ Len(results[r]) < MaxInFlight
      /\ Cardinality(Running) > 1
      /\ Cardinality(got) < RetractSteps * Cardinality(Running)
      /\ \E E \in Evictions(t, IF residual > 0 THEN residual ELSE 0) :
           /\ tree' = Evict(t, E)
           /\ free_slots' = FreeSlots(FreeSlots(got, own), EvictedSlots(t, E))
           /\ twice_freed' = twice_freed \cup (free_slots \cap EvictedSlots(tree, all))
                \cup (got \cap own) \cup (FreeSlots(got, own) \cap EvictedSlots(t, E))
      /\ stage' = [stage EXCEPT ![r] = "waiting"]
      /\ row' = [row EXCEPT ![r] = << >>]
      /\ last_node' = [last_node EXCEPT ![r] = Root]
      /\ fill_len' = [fill_len EXCEPT ![r] = 0]
      /\ UNCHANGED <<ids, results, delayed>>

(* flush_cache of an idle cache: reset and clear. *)
Flush ==
  /\ \A r \in Req : ~Holds(r) /\ results[r] = << >>
  /\ tree # NewTree
  /\ tree' = NewTree
  /\ free_slots' = Page
  /\ UNCHANGED twice_freed /\ UNCHANGED reqVars

Next ==
  \/ Flush
  \/ \E r \in Req :
       \/ Receive(r) \/ ComputePrefixMatch(r) \/ Admit(r) \/ NextChunk(r)
       \/ LaunchDecode(r) \/ Retract(r)
       \/ ProcessChunkResult(r) \/ ProcessPrefillResult(r) \/ ProcessDecodeResult(r)
       \/ FreeDelayedToken(r) \/ SkipRetracted(r)

Spec == Init /\ [][Next]_vars

---------------------------------------------------------------------------
(* Properties                                                              *)

Own(r) == {row[r][i] : i \in (Len(last_node[r]) + 1)..Len(row[r])} \cup delayed[r]

TreeSlots == {tree.val[p] : p \in Cached(tree)}

(* Type invariant of the tree, the allocator and the requests. *)
TypeOK ==
  /\ TreeType(tree)
  /\ free_slots \subseteq Page /\ twice_freed \subseteq Page
  /\ stage \in [Req -> {"waiting", "chunked", "running", "finished"}]
  /\ ids \in [Req -> Path] /\ last_node \in [Req -> Path]
  /\ fill_len \in [Req -> Nat]
  /\ row \in [Req -> Seq(Page)]
  /\ results \in [Req -> Seq({"chunk", "extend", "decode"})]
  /\ delayed \in [Req -> SUBSET Page]

(* The tree keeps the shape of a radix tree through splits, insertions and *)
(* evictions: it is closed under prefixes and every cached position belongs*)
(* to exactly one node (_split_node, _insert_helper, _delete_leaf).        *)
TreeShape == IsRadixTree(tree)

(* A node's lock_ref is the number of requests whose last_node lies at or  *)
(* below it: no reference is lost or kept by a split, a re-insertion, a    *)
(* retraction or a finish, and last_node is never evicted under a request  *)
(* (inc_lock_ref, dec_lock_ref, _split_node, evict).                       *)
LockRefExact ==
  /\ \A r \in Req : Holds(r) => last_node[r] \in Nodes(tree) \cup {Root}
  /\ \A n \in Nodes(tree) :
       tree.lock_ref[n] = Cardinality({r \in Req : Holds(r) /\ n \preceq last_node[r]})

(* Every slot is in exactly one place: the free list, the tree, one        *)
(* request's own part of its row, or one forward in flight for a finished  *)
(* request.  No slot is freed twice, lent twice or lost (free, alloc,      *)
(* cache_finished_req, cache_unfinished_req, retract_decode, evict).       *)
SlotOwnership ==
  /\ twice_freed = {}
  /\ free_slots \cap TreeSlots = {}
  /\ \A p, q \in Cached(tree) : tree.val[p] = tree.val[q] => p = q
  /\ \A r \in Req : /\ Own(r) \cap free_slots = {}
                    /\ Own(r) \cap TreeSlots = {}
                    /\ \A q \in Req \ {r} : Own(r) \cap Own(q) = {}
                    /\ \A i, j \in (Len(last_node[r]) + 1)..Len(row[r]) :
                          row[r][i] = row[r][j] => i = j
  /\ Page = free_slots \cup TreeSlots \cup UNION {Own(r) : r \in Req}

(* The shared part of a request's row is what the tree holds for the same  *)
(* tokens: attention reads the KV entries of this very prefix, also after  *)
(* another request cached it first (req_to_token_pool.write).              *)
RowsFollowTree ==
  \A r \in Req : Holds(r) =>
    /\ last_node[r] \preceq ids[r]
    /\ \A i \in 1..Len(last_node[r]) :
         /\ First(ids[r], i) \in Cached(tree)
         /\ row[r][i] = tree.val[First(ids[r], i)]

(* The two counters count what they are said to count: the cached tokens   *)
(* nobody references and the ones somebody does (evictable_size,           *)
(* protected_size); the admission test of PrefillAdder relies on them.     *)
SizesExact ==
  /\ tree.protected_size_ =
       Cardinality({p \in Cached(tree) : \E r \in Req : Holds(r) /\ p \preceq last_node[r]})
  /\ tree.evictable_size_ + tree.protected_size_ = Cardinality(Cached(tree))

(* As long as a request keeps its reference, evict and the requests around *)
(* it never remove or replace a slot of its prefix.                        *)
PrefixPinned ==
  [][\A r \in Req : \A p \in Cached(tree) :
       Holds(r) /\ Holds(r)' /\ p \preceq last_node[r]
         => p \in Cached(tree') /\ tree'.val[p] = tree.val[p]]_vars
=============================================================================
