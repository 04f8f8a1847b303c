----------------------------- MODULE HiRadixCache -----------------------------
(***************************************************************************)
(* The hierarchical cache: a radix tree whose nodes live in device memory, *)
(* in host memory or in both (mem_cache/hiradix_cache.py), the two threads *)
(* that copy between them (managers/cache_controller.py), and the scheduler*)
(* loop that drives it (event_loop_normal, one rank, page_size = 1, no     *)
(* chunked prefill, first come first served).                              *)
(*                                                                         *)
(* The tree is the one of module RadixTree.  `cache` is a record with the  *)
(* fields of a RadixTree (val: the device slot of a position that is on    *)
(* the device; lock_ref; the two sizes) and those HiRadixCache adds:       *)
(*   host         the host slot of every backed-up position;               *)
(*   hit          hit_count of every node;                                 *)
(*   loading      the nodes whose flag `loading` is set;                   *)
(*   writes       ongoing_write_through, the nodes being backed up;        *)
(*   loads        ongoing_load_back: the end node of a load -> its start;  *)
(*   free_slots, free_host      the free lists of the two pools, as sets;  *)
(*   write_queue, load_queue    the operations handed to the threads.      *)
(* A node is `evicted` when its positions have no device slot.             *)
(*                                                                         *)
(* An operation of the cache is written as the SET of caches it may leave: *)
(* which leaf is the least recently used is left open.                     *)
(***************************************************************************)
EXTENDS RadixTree

CONSTANTS Req,           \* request objects
          Prompt,        \* the prompts a request may bring
          MaxNew,        \* max_new_tokens of a prompt
          HostSlot,      \* the slots of the host pool
          Output,        \* the tokens the model may generate
          Configs,       \* the servers considered: see ConfigType
          LoadThreshold, \* load_back_threshold
          MaxRunning,    \* max_micro_batch_size
          RetractSteps,  \* global_config.retract_decode_steps
          MaxArrivals,   \* bound on the requests received
          PromptLoader   \* the load thread resets the counter before the forward reads it

(* threshold: write_through_threshold, 1 for write_through and more for    *)
(* write_through_selective; ratio: new_token_ratio, which lies between     *)
(* min_new_token_ratio and 1: 0 stands for values too small to count.      *)
ConfigType == [threshold : Nat \ {0}, ratio : {0, 1}]

ASSUME HiRadixCacheAssumption ==
  /\ Req \subseteq Nat /\ Page \subseteq Nat /\ HostSlot \subseteq Nat
  /\ Cardinality(HostSlot) > Cardinality(Page)     \* HostKVCache.__init__ asserts it
  /\ Configs \subseteq ConfigType /\ Output \subseteq Token

VARIABLES
  config,         \* this server
  cache,          \* the tree, the free lists and the queues
  dev_kv,         \* what a device slot holds: the prefix whose KV entry it is
  host_kv,        \* what a host slot holds
  write_buffer,   \* operations whose data the auxiliary write thread has read
  ack_write,      \* ack_write_queue
  load_event,     \* load_cache_event
  load_batch,     \* the operations the load thread is working on
  layer_done,     \* LayerDoneCounter: every layer of the current batch is there
  ack_load,       \* ack_load_queue
  pc,             \* where the scheduler thread is
  queue,          \* waiting_queue
  can_run,        \* can_run_list, then the prefill batch that is run
  todo,           \* requests of the batch whose result is not processed yet
  running,        \* running_batch.reqs, finished ones included until the filter
  batch_is_full,
  offset,         \* rem_total_token_offset of the PrefillAdder
  ids,            \* origin_input_ids + output_ids
  max_new,        \* sampling_params.max_new_tokens
  left,           \* max_new_tokens - len(output_ids); 0 when finished
  row,            \* req_to_token[req_pool_idx, :len]
  last_node,      \* Req.last_node
  arrived,        \* requests received
  crashed         \* an assertion or an out-of-memory error stopped the scheduler

threadVars == <<write_buffer, ack_write, load_batch, layer_done, ack_load>>
reqVars    == <<ids, max_new, left, row, last_node>>
vars == <<config, cache, dev_kv, host_kv, threadVars, load_event, pc, queue, can_run,
          todo, running, batch_is_full, offset, reqVars, arrived, crashed>>

---------------------------------------------------------------------------
(* The tree                                                                *)

InTree(c)      == DOMAIN c.val \cup DOMAIN c.host
Evicted(c, n)  == n # Root /\ n \notin DOMAIN c.val
Backuped(c, n) == n \in DOMAIN c.host

(* the positions in the keys of the nodes of N *)
Keys(c, N) == {p \in InTree(c) : Owner(c, p) \in N}

(* the deepest ancestor-or-self of n that is on the device *)
OnDevice(c, n) == First(n, CHOOSE i \in 0..Len(n) :
                             /\ ~Evicted(c, First(n, i))
                             /\ \A j \in (i + 1)..Len(n) : Evicted(c, First(n, j)))

On(f, S) == [x \in DOMAIN f \cap S |-> f[x]]

(* g wins over f *)
Over(f, g) == [x \in DOMAIN f \cup DOMAIN g |-> IF x \in DOMAIN g THEN g[x] ELSE f[x]]

(* the slot at place n of the free list, which is taken as ascending *)
Nth(S, n) == CHOOSE s \in S : Cardinality({u \in S : u < s}) = n

(* alloc: a slot for every position of P, the upper position first *)
Alloc(S, P) == [p \in P |-> Nth(S, Cardinality({q \in P : Len(q) < Len(p)}))]

ValuesOf(f) == {f[x] : x \in DOMAIN f}

(* _split_node: the upper part gets the flags of the lower part and starts *)
(* with a hit_count of its own.                                            *)
SplitNode(c, p) ==
  IF p = Root \/ p \in Nodes(c) THEN c
  ELSE [Split(c, p) EXCEPT !.hit = Over(c.hit, [n \in {p} |-> 0]),
                           !.loading = IF Owner(c, p) \in @ THEN @ \cup {p} ELSE @]

(* nodes leave the tree, with the host slots of their keys *)
Unlink(c, N) ==
  LET stay == Nodes(c) \ N
      keys == Keys(c, stay)
  IN  [c EXCEPT !.val = On(@, keys), !.host = On(@, keys),
                !.lock_ref = On(@, stay), !.hit = On(@, stay)]

(* Which nodes one call of evict or evict_host takes out of the candidates *)
(* N: leaves first, until num tokens are found; `live` are the nodes that  *)
(* keep their ancestors from being leaves.                                 *)
Removals(c, N, live, num) ==
  LET Closed(E) == \A m \in E : \A n \in live : m \preceq n => n \in E
      Size(E)   == Cardinality(Keys(c, E))
  IN  {E \in SUBSET N :
         /\ Closed(E)
         /\ \/ Size(E) >= num
            \/ \A n \in N : {m \in live : n \preceq m} \subseteq N => n \in E
         /\ \/ E = {}
            \/ \E last \in E : Closed(E \ {last}) /\ Size(E \ {last}) < num}

---------------------------------------------------------------------------
(* Backing up: HiCacheController.write, write_backup, inc_hit_count        *)

(* evict_host: only nodes that are evicted from the device, leaves first *)
EvictHost(c, num) ==
  LET gone == {n \in Nodes(c) : Evicted(c, n)}
  IN  {[Unlink(c, E) EXCEPT
          !.free_host = @ \cup {c.host[p] : p \in Keys(c, E)}] :
         E \in Removals(c, gone, Nodes(c), num)}

(* The node is not locked while it is written (mutation). *)
WriteUnlocked(c, n) ==
  LET P   == Keys(c, {n})
      dst == Alloc(c.free_host, P)
  IN  [c EXCEPT !.host = Over(@, dst),
                !.free_host = @ \ ValuesOf(dst),
                !.writes = @ \cup {n},
                !.write_queue = Append(@, [node |-> n, src |-> On(c.val, P), dst |-> dst])]

(* write: host slots for the key of n, an operation for the write thread *)
Write(c, n) ==
  LET P   == Keys(c, {n})
      dst == Alloc(c.free_host, P)
  IN  IncLockRef([c EXCEPT !.host = Over(@, dst),
                           !.free_host = @ \ ValuesOf(dst),
                           !.writes = @ \cup {n},
                           !.write_queue = Append(@, [node |-> n, src |-> On(c.val, P),
                                                      dst |-> dst])], n)

CanWrite(c, n) == Cardinality(c.free_host) >= Cardinality(Keys(c, {n}))

WriteBackup(c, n) ==
  IF CanWrite(c, n) THEN {Write(c, n)}
  ELSE {IF CanWrite(d, n) THEN Write(d, n) ELSE d :
          d \in EvictHost(c, Cardinality(Keys(c, {n})))}

(* A backup does not start the count again (mutation). *)
IncHitCountKept(c, n) ==
  IF Backuped(c, n) THEN {c}
  ELSE IF c.hit[n] + 1 < config.threshold THEN {[c EXCEPT !.hit[n] = @ + 1]}
  ELSE {[d EXCEPT !.hit[n] = @ + 1] : d \in WriteBackup(c, n)}

IncHitCount(c, n) ==
  IF Backuped(c, n) THEN {c}
  ELSE IF c.hit[n] + 1 < config.threshold THEN {[c EXCEPT !.hit[n] = @ + 1]}
  ELSE {[d EXCEPT !.hit[n] = 0] : d \in WriteBackup(c, n)}

---------------------------------------------------------------------------
(* Walking: _match_prefix_helper and _insert_helper                        *)

(* how far the child of First(k, i) towards k agrees with k *)
Step(c, k, i) ==
  LET child == Owner(c, First(k, i + 1))
  IN  CHOOSE j \in (i + 1)..Len(k) :
        /\ First(k, j) \preceq child
        /\ j < Len(k) => ~(First(k, j + 1) \preceq child)

HasChild(c, k, i) == i < Len(k) /\ First(k, i + 1) \in InTree(c)

(* match_prefix: the pairs of a cache and the last node, evicted or not. A *)
(* node that is hit may be written, and the host eviction this takes may   *)
(* remove nodes further down the walk.                                     *)
RECURSIVE MatchFrom(_, _, _)
MatchFrom(c, k, i) ==
  IF ~HasChild(c, k, i) THEN {[cache |-> c, node |-> First(k, i)]}
  ELSE LET j == Step(c, k, i)
       IN  UNION {MatchFrom(d, k, j) : d \in IncHitCount(SplitNode(c, First(k, j)), First(k, j))}

Match(c, k) == MatchFrom(c, k, 0)

Between(k, i, j) == {First(k, m) : m \in (i + 1)..j}

(* insert: an evicted node takes the caller's slots, a node on the device  *)
(* is hit, the rest of the key becomes a leaf.                             *)
RECURSIVE InsertFrom(_, _, _, _)
InsertFrom(c, k, v, i) ==
  LET Given(d, j) == [d EXCEPT !.val = Over(@, [p \in Between(k, i, j) |-> v[Len(p)]]),
                               !.evictable_size_ = @ + (j - i)]
  IN  IF i = Len(k) THEN {c}
      ELSE IF HasChild(c, k, i)
      THEN LET j == Step(c, k, i)
               s == SplitNode(c, First(k, j))
           IN  UNION {InsertFrom(d, k, v, j) :
                        d \in IF Evicted(s, First(k, j)) THEN {Given(s, j)}
                              ELSE IncHitCount(s, First(k, j))}
      ELSE IncHitCount([Given(c, Len(k)) EXCEPT
                          !.lock_ref = Over(@, [n \in {k} |-> 0]),
                          !.hit = Over(@, [n \in {k} |-> 0])], k)

(* Nodes that are only on the host count as well (mutation). *)
KnownAnywhere(c, k) == CHOOSE i \in 0..Len(k) :
  /\ i > 0 => First(k, i) \in InTree(c)
  /\ i < Len(k) => First(k, i + 1) \notin InTree(c)

(* the length insert returns: what was on the device already *)
Known(c, k) == MatchLen(c, k)

---------------------------------------------------------------------------
(* Evicting from the device, loading back                                  *)

(* evict: _evict_backuped keeps the node and its host copy; _evict_regular *)
(* deletes the node from its parent, and what hangs below it with it.      *)
EvictDevice(c, num) ==
  LET here == {n \in Nodes(c) : ~Evicted(c, n)}
      Outcome(E) ==
        LET cut  == {n \in E : ~Backuped(c, n)}
            d    == Unlink(c, {m \in Nodes(c) : \E n \in cut : n \preceq m})
            keys == Keys(c, E)
        IN  [d EXCEPT !.val = On(@, DOMAIN @ \ keys),
                      !.free_slots = @ \cup {c.val[p] : p \in keys},
                      !.evictable_size_ = @ - Cardinality(keys)]
  IN  {Outcome(E) : E \in Removals(c, {n \in here : c.lock_ref[n] = 0}, here, num)}

(* alloc_token_slots without the error: evict first if the list is short *)
EvictIfShort(c, num) ==
  IF Cardinality(c.free_slots) >= num THEN {c} ELSE EvictDevice(c, num)

(* load_back of an evicted node: all of its evicted path or nothing *)
LoadBack(c, node) ==
  LET P   == {p \in InTree(c) : p \preceq node /\ p \notin DOMAIN c.val}
      anc == OnDevice(c, node)
      Load(d) ==
        LET dst == Alloc(d.free_slots, P)
        IN  IncLockRef(
              [DecLockRef(d, anc) EXCEPT
                 !.val = Over(@, dst),
                 !.free_slots = @ \ ValuesOf(dst),
                 !.evictable_size_ = @ + Cardinality(P),
                 !.loads = Over(@, [n \in {node} |-> anc]),
                 !.loading = @ \cup {n \in Nodes(d) : n \in P},
                 !.load_queue = @ \cup {[node |-> node, src |-> On(c.host, P), dst |-> dst]}],
              node)
  IN  IF Cardinality(P) < LoadThreshold THEN {c}
      ELSE {IF Cardinality(d.free_slots) >= Cardinality(P) THEN Load(d) ELSE DecLockRef(d, anc) :
              d \in EvictIfShort(IncLockRef(c, anc), Cardinality(P))}

---------------------------------------------------------------------------
(* What a finished copy releases                                           *)

(* writing_check: every acknowledged node is unlocked *)
RECURSIVE WritingCheck(_, _)
WritingCheck(c, acks) ==
  IF acks = << >> THEN c
  ELSE WritingCheck([DecLockRef(c, Head(acks)) EXCEPT !.writes = @ \ {Head(acks)}], Tail(acks))

(* loading_check: unlock the end node, clear `loading` up to the start *)
RECURSIVE LoadingCheck(_, _)
LoadingCheck(c, acks) ==
  IF acks = << >> THEN c
  ELSE LET n == Head(acks)
       IN  LoadingCheck([DecLockRef(c, n) EXCEPT
                           !.loading = @ \ {m \in Nodes(c) : m \preceq n /\ Len(m) > Len(c.loads[n])},
                           !.loads = On(@, DOMAIN @ \ {n})], Tail(acks))

---------------------------------------------------------------------------
(* The scheduler                                                           *)

Init ==
  /\ config \in Configs
  /\ cache = [val |-> [p \in {} |-> 0], host |-> [p \in {} |-> 0],
              lock_ref |-> [p \in {} |-> 0], hit |-> [p \in {} |-> 0],
              evictable_size_ |-> 0, protected_size_ |-> 0,
              loading |-> {}, writes |-> {}, loads |-> [p \in {} |-> Root],
              free_slots |-> Page, free_host |-> HostSlot,
              write_queue |-> << >>, load_queue |-> {}]
  /\ dev_kv = [s \in Page |-> Root] /\ host_kv = [s \in HostSlot |-> Root]
  /\ write_buffer = << >> /\ ack_write = << >>
  /\ load_event = FALSE /\ load_batch = {} /\ layer_done = TRUE /\ ack_load = << >>
  /\ pc = "loop" /\ queue = << >> /\ can_run = {} /\ todo = {} /\ running = {}
  /\ batch_is_full = FALSE /\ offset = 0
  /\ ids = [r \in Req |-> << >>] /\ max_new = [r \in Req |-> 0] /\ left = [r \in Req |-> 0]
  /\ row = [r \in Req |-> << >>] /\ last_node = [r \in Req |-> Root]
  /\ arrived = 0 /\ crashed = FALSE

Waiting == {queue[i] : i \in DOMAIN queue}
Holding == {r \in can_run \cup running : left[r] > 0}

(* handle_generate_request *)
Receive(r) ==
  /\ pc = "loop" /\ arrived < MaxArrivals
  /\ r \notin Waiting \cup can_run \cup running
  /\ \E p \in Prompt : /\ ids' = [ids EXCEPT ![r] = p]
                       /\ max_new' = [max_new EXCEPT ![r] = MaxNew[p]]
                       /\ left' = [left EXCEPT ![r] = MaxNew[p]]
  /\ queue' = Append(queue, r)
  /\ arrived' = arrived + 1
  /\ UNCHANGED <<config, cache, dev_kv, host_kv, threadVars, load_event, pc, can_run,
                 todo, running, batch_is_full, offset, row, last_node, crashed>>

RECURSIVE SumLeft(_)
SumLeft(R) == IF R = {} THEN 0
              ELSE LET r == CHOOSE r \in R : TRUE IN left[r] + SumLeft(R \ {r})

(* get_new_batch_prefill up to the loop over the waiting queue: nothing of *)
(* it runs when the running batch is full or nobody waits.                 *)
StartPrefill ==
  /\ pc = "loop" /\ queue # << >> /\ ~batch_is_full
  /\ IF Cardinality(running) >= MaxRunning
     THEN /\ batch_is_full' = TRUE
          /\ pc' = "decode"
          /\ UNCHANGED <<cache, ack_write, ack_load, offset>>
     ELSE /\ cache' = LoadingCheck(WritingCheck(cache, ack_write), ack_load)
          /\ ack_write' = << >> /\ ack_load' = << >>
          /\ offset' = config.ratio * SumLeft(running)
          /\ pc' = "admit"
          /\ UNCHANGED batch_is_full
  /\ UNCHANGED <<config, dev_kv, host_kv, write_buffer, load_event, load_batch,
                 layer_done, queue, can_run, todo, running, reqVars, arrived, crashed>>

(* ... and when they are, the loop goes on to the running batch *)
SkipPrefill ==
  /\ pc = "loop" /\ (queue = << >> \/ batch_is_full) /\ running # {}
  /\ pc' = "decode"
  /\ UNCHANGED <<config, cache, dev_kv, host_kv, threadVars, load_event, queue, can_run,
                 todo, running, batch_is_full, offset, reqVars, arrived, crashed>>

(* The tokens promised to other requests are not subtracted (mutation). *)
RemTotalUnreserved(c, off) == Cardinality(c.free_slots) + c.evictable_size_

RemTotal(c, off) == Cardinality(c.free_slots) + c.evictable_size_ - off

(* add_one_req gave NO_TOKEN for a request that was matched into cache c *)
NoToken(c) ==
  /\ cache' = c
  /\ batch_is_full' = (can_run # {} \/ running # {})
  /\ pc' = "prepare"
  /\ UNCHANGED <<queue, can_run, offset, row, last_node>>

(* r joins can_run_list with the device prefix node of cache c *)
Add(r, c, node) ==
  LET ext == Len(ids[r]) - Len(node)
      off == offset + ext + max_new[r]
  IN  /\ cache' = IncLockRef(c, node)
      /\ last_node' = [last_node EXCEPT ![r] = node]
      /\ row' = [row EXCEPT ![r] = [i \in 1..Len(node) |-> c.val[First(node, i)]]]
      /\ queue' = Tail(queue)
      /\ can_run' = can_run \cup {r}
      /\ offset' = off
      /\ IF RemTotal(cache', off) <= 0
         THEN pc' = "prepare" /\ batch_is_full' = TRUE
         ELSE UNCHANGED <<pc, batch_is_full>>

(* one round of the loop over the waiting queue: init_next_round_input and *)
(* add_one_req for its head.                                               *)
AdmitNext ==
  /\ pc = "admit" /\ queue # << >>
  /\ Cardinality(can_run) + Cardinality(running) < MaxRunning
  /\ LET r == Head(queue)
     IN  \E m \in Match(cache, First(ids[r], Len(ids[r]) - 1)) :
           LET dev    == OnDevice(m.cache, m.node)
               total  == Len(ids[r]) - Len(dev) + max_new[r]
               locked == IncLockRef(m.cache, dev)
           IN  IF \/ total >= RemTotal(m.cache, offset)
                  \/ total > RemTotal(locked, offset)
               THEN NoToken(m.cache)
               ELSE \E c \in IF Evicted(locked, m.node) THEN LoadBack(locked, m.node)
                                                        ELSE {locked} :
                      Add(r, DecLockRef(c, dev), OnDevice(c, m.node))
  /\ UNCHANGED <<config, dev_kv, host_kv, threadVars, load_event, todo, running, ids,
                 max_new, left, arrived, crashed>>

(* the loop ends: the queue is empty or the running batch would be full *)
EndAdmit ==
  /\ pc = "admit"
  /\ \/ queue = << >> /\ UNCHANGED batch_is_full
     \/ /\ queue # << >>
        /\ Cardinality(can_run) + Cardinality(running) >= MaxRunning
        /\ batch_is_full' = TRUE
  /\ pc' = "prepare"
  /\ UNCHANGED <<config, cache, dev_kv, host_kv, threadVars, load_event, queue, can_run,
                 todo, running, offset, reqVars, arrived, crashed>>

(* nobody could be admitted *)
NoPrefill ==
  /\ pc = "prepare" /\ can_run = {}
  /\ pc' = IF running = {} THEN "loop" ELSE "decode"
  /\ UNCHANGED <<config, cache, dev_kv, host_kv, threadVars, load_event, queue, can_run,
                 todo, running, batch_is_full, offset, reqVars, arrived, crashed>>

(* the positions of the requests of R that have no slot yet *)
Missing(R) == UNION {{<<r, i>> : i \in (Len(row[r]) + 1)..Len(ids[r])} : r \in R}

(* out_cache_loc: slots of c for them, request by request *)
OutCacheLoc(c, R) ==
  [x \in Missing(R) |->
     Nth(c.free_slots, Cardinality({y \in Missing(R) : \/ y[1] < x[1]
                                                       \/ y[1] = x[1] /\ y[2] < x[2]}))]

(* alloc_token_slots for the requests of R out of c, and the next place of *)
(* the scheduler                                                           *)
Allocate(c, R) ==
  LET loc == OutCacheLoc(c, R)
  IN  /\ cache' = [c EXCEPT !.free_slots = @ \ ValuesOf(loc)]
      /\ row' = [r \in Req |-> IF r \in R
                               THEN [i \in 1..Len(ids[r]) |-> IF i <= Len(row[r]) THEN row[r][i]
                                                              ELSE loc[<<r, i>>]]
                               ELSE row[r]]
      /\ pc' = "forward"

Fits(c, num) == Cardinality(c.free_slots) >= num

(* the end of get_new_batch_prefill: ready_to_load_cache, then             *)
(* prepare_for_extend, which raises "Prefill out of memory".               *)
PrepareForExtend ==
  /\ pc = "prepare" /\ can_run # {}
  /\ load_event' = TRUE
  /\ \E c \in EvictIfShort(cache, Cardinality(Missing(can_run))) :
       IF Fits(c, Cardinality(Missing(can_run)))
       THEN Allocate(c, can_run) /\ UNCHANGED crashed
       ELSE cache' = c /\ crashed' = TRUE /\ pc' = "stopped" /\ UNCHANGED row
  /\ UNCHANGED <<config, dev_kv, host_kv, threadVars, queue, can_run, todo, running,
                 batch_is_full, offset, ids, max_new, left, last_node, arrived>>

(* update_running_batch: filter the finished ones, check_decode_mem, then  *)
(* prepare_for_decode or retract_decode, whose assertion is "No space left *)
(* for only one request".                                                  *)
UpdateRunningBatch ==
  LET R == {r \in running : left[r] > 0}
  IN  /\ pc = "decode"
      /\ running' = R
      /\ batch_is_full' = (batch_is_full /\ R = running)
      /\ IF R = {} THEN pc' = "loop" /\ UNCHANGED <<cache, row, crashed>>
         ELSE \E c \in EvictIfShort(cache, Cardinality(R)) :
                IF Fits(c, Cardinality(R))
                THEN Allocate(c, R) /\ UNCHANGED crashed
                ELSE /\ cache' = c
                     /\ crashed' = (Cardinality(R) = 1)
                     /\ pc' = IF Cardinality(R) = 1 THEN "stopped" ELSE "retract"
                     /\ UNCHANGED row
      /\ UNCHANGED <<config, dev_kv, host_kv, threadVars, load_event, queue, can_run,
                     todo, offset, ids, max_new, left, last_node, arrived>>

(* one round of retract_decode: r gives up its own slots and its reference *)
(* and goes back to the waiting queue.                                     *)
RetractDecode(r) ==
  LET own  == {row[r][i] : i \in (Len(last_node[r]) + 1)..Len(row[r])}
      c1   == [DecLockRef(cache, last_node[r]) EXCEPT !.free_slots = @ \cup own]
      rest == Cardinality(running) - 1
      residual == rest * RetractSteps - Cardinality(c1.free_slots)
  IN  /\ pc = "retract" /\ r \in running
      /\ \E c \in EvictDevice(c1, IF residual > 0 THEN residual ELSE 0) :
           /\ cache' = c
           /\ LET short == ~Fits(c, rest * RetractSteps)
              IN  /\ crashed' = (short /\ rest = 1 /\ ~Fits(c, 1))
                  /\ pc' = IF crashed' THEN "stopped"
                           ELSE IF short /\ rest > 1 THEN "retract" ELSE "decode"
      /\ running' = running \ {r}
      /\ batch_is_full' = FALSE
      /\ queue' = Append(queue, r)
      /\ row' = [row EXCEPT ![r] = << >>]
      /\ last_node' = [last_node EXCEPT ![r] = Root]
      /\ UNCHANGED <<config, dev_kv, host_kv, threadVars, load_event, can_run, todo,
                     offset, ids, max_new, left, arrived>>

Batch == IF can_run # {} THEN can_run ELSE running

(* the first position a forward computes for r *)
NewFrom(r) == IF r \in can_run THEN Len(last_node[r]) + 1 ELSE Len(ids[r])

(* The KV buffers are read without waiting (mutation). *)
NotAwaited == TRUE

(* LayerDoneCounter.wait_until, which get_key_buffer and get_value_buffer  *)
(* call for every layer of an extend batch.                                *)
WaitUntil ==
  can_run # {} => /\ layer_done
                  /\ PromptLoader => ~(load_event /\ cache.load_queue # {})

(* run_batch: a KV entry is right if those before it are.                  *)
Forward ==
  /\ pc = "forward" /\ WaitUntil
  /\ dev_kv' = [s \in Page |->
       IF \E r \in Batch : \E i \in NewFrom(r)..Len(row[r]) : row[r][i] = s
       THEN LET r == CHOOSE r \in Batch : \E i \in NewFrom(r)..Len(row[r]) : row[r][i] = s
                i == CHOOSE i \in NewFrom(r)..Len(row[r]) : row[r][i] = s
            IN  IF \A j \in 1..(NewFrom(r) - 1) : dev_kv[row[r][j]] = First(ids[r], j)
                THEN First(ids[r], i) ELSE Root
       ELSE dev_kv[s]]
  /\ todo' = Batch
  /\ pc' = "result"
  /\ UNCHANGED <<config, cache, host_kv, threadVars, load_event, queue, can_run, running,
                 batch_is_full, offset, reqVars, arrived, crashed>>

(* the slots of r's row that the tree has from another request *)
Duplicates(r) == {row[r][i] : i \in (Len(last_node[r]) + 1)..Known(cache, ids[r])}

(* check_finished: cache_finished_req *)
Finish(r) ==
  /\ \E c \in InsertFrom(cache, ids[r], row[r], 0) :
       cache' = DecLockRef([c EXCEPT !.free_slots = @ \cup Duplicates(r)], last_node[r])
  /\ ids' = [ids EXCEPT ![r] = << >>]
  /\ left' = [left EXCEPT ![r] = 0]
  /\ row' = [row EXCEPT ![r] = << >>]
  /\ last_node' = [last_node EXCEPT ![r] = Root]
  /\ batch_is_full' = (batch_is_full /\ r \notin can_run)
  /\ UNCHANGED running

(* the request goes on after its prefill: cache_unfinished_req, and the    *)
(* batch is merged into the running batch                                  *)
CacheUnfinished(r, tok) ==
  /\ \E c \in InsertFrom(cache, ids[r], row[r], 0) :
     \E m \in Match(c, ids[r]) :
       LET d == [m.cache EXCEPT !.free_slots = @ \cup Duplicates(r)]
       IN  /\ cache' = IncLockRef(DecLockRef(d, last_node[r]), m.node)
           /\ row' = [row EXCEPT ![r] = [i \in DOMAIN @ |->
                        IF i <= Len(last_node[r]) THEN @[i] ELSE d.val[First(ids[r], i)]]]
           /\ last_node' = [last_node EXCEPT ![r] = m.node]
  /\ running' = running \cup {r}
  /\ ids' = [ids EXCEPT ![r] = Append(@, tok)]
  /\ left' = [left EXCEPT ![r] = @ - 1]
  /\ UNCHANGED batch_is_full

(* a decoded token that does not finish the request *)
AppendToken(r, tok) ==
  /\ ids' = [ids EXCEPT ![r] = Append(@, tok)]
  /\ left' = [left EXCEPT ![r] = @ - 1]
  /\ UNCHANGED <<cache, row, last_node, running, batch_is_full>>

(* process_batch_result, request by request; a stop token may come early *)
ProcessResult(r) ==
  /\ pc = "result" /\ r \in todo
  /\ \/ Finish(r)
     \/ /\ left[r] > 1
        /\ \E tok \in Output : IF r \in can_run THEN CacheUnfinished(r, tok)
                                               ELSE AppendToken(r, tok)
  /\ todo' = todo \ {r}
  /\ IF todo' = {} THEN pc' = "loop" /\ can_run' = {} ELSE UNCHANGED <<pc, can_run>>
  /\ UNCHANGED <<config, dev_kv, host_kv, threadVars, load_event, queue, offset, max_new,
                 arrived, crashed>>

(* flush_cache of an idle server: both threads are joined, every queue and *)
(* both pools are cleared.                                                 *)
Flush ==
  /\ pc = "loop" /\ queue = << >> /\ running = {} /\ Nodes(cache) # {}
  /\ cache' = [cache EXCEPT !.val = On(@, {}), !.host = On(@, {}), !.lock_ref = On(@, {}),
                            !.hit = On(@, {}), !.evictable_size_ = 0, !.protected_size_ = 0,
                            !.loading = {}, !.writes = {}, !.loads = On(@, {}),
                            !.free_slots = Page, !.free_host = HostSlot,
                            !.write_queue = << >>, !.load_queue = {}]
  /\ write_buffer' = << >> /\ ack_write' = << >> /\ ack_load' = << >>
  /\ load_batch' = {} /\ layer_done' = TRUE
  /\ UNCHANGED <<config, dev_kv, host_kv, load_event, pc, queue, can_run, todo, running,
                 batch_is_full, offset, reqVars, arrived, crashed>>

---------------------------------------------------------------------------
(* The threads of HiCacheController                                        *)

schedulerVars == <<config, pc, queue, can_run, todo, running, batch_is_full, offset,
                   reqVars, arrived, crashed>>

(* write_aux_func reads the device slots of the oldest operation; merging  *)
(* small operations only lets several of them advance together.            *)
WriteAux ==
  /\ cache.write_queue # << >>
  /\ LET op == Head(cache.write_queue)
     IN  write_buffer' = Append(write_buffer,
           [node |-> op.node, dst |-> op.dst,
            data |-> [p \in DOMAIN op.src |-> dev_kv[op.src[p]]]])
  /\ cache' = [cache EXCEPT !.write_queue = Tail(@)]
  /\ UNCHANGED <<dev_kv, host_kv, ack_write, load_event, load_batch, layer_done, ack_load>>
  /\ UNCHANGED schedulerVars

(* kv[s] becomes data[p] for every position p that dst sends to slot s *)
Copied(kv, dst, data) ==
  [s \in DOMAIN kv |-> IF s \in ValuesOf(dst)
                       THEN data[CHOOSE p \in DOMAIN dst : dst[p] = s] ELSE kv[s]]

(* write_thread_func_buffer: assign_flat_data, complete_io, acknowledge *)
WriteHost ==
  /\ write_buffer # << >>
  /\ LET op == Head(write_buffer)
     IN  /\ host_kv' = Copied(host_kv, op.dst, op.data)
         /\ ack_write' = Append(ack_write, op.node)
  /\ write_buffer' = Tail(write_buffer)
  /\ UNCHANGED <<cache, dev_kv, load_event, load_batch, layer_done, ack_load>>
  /\ UNCHANGED schedulerVars

(* load_thread_func_layer_by_layer: woken by the event, it takes every     *)
(* queued operation and resets the counter                                 *)
TakeLoads ==
  /\ load_event /\ load_batch = {}
  /\ load_event' = FALSE
  /\ load_batch' = cache.load_queue
  /\ layer_done' = (layer_done /\ cache.load_queue = {})
  /\ cache' = [cache EXCEPT !.load_queue = {}]
  /\ UNCHANGED <<dev_kv, host_kv, write_buffer, ack_write, ack_load>>
  /\ UNCHANGED schedulerVars

(* ... copies the layers, counting them *)
LoadLayers ==
  /\ load_batch # {} /\ ~layer_done
  /\ dev_kv' = [s \in Page |->
       IF \E op \in load_batch : s \in ValuesOf(op.dst)
       THEN LET op == CHOOSE op \in load_batch : s \in ValuesOf(op.dst)
            IN  host_kv[op.src[CHOOSE p \in DOMAIN op.dst : op.dst[p] = s]]
       ELSE dev_kv[s]]
  /\ layer_done' = TRUE
  /\ UNCHANGED <<cache, host_kv, write_buffer, ack_write, load_event, load_batch, ack_load>>
  /\ UNCHANGED schedulerVars

(* ... and acknowledges the nodes, one by one *)
AckLoad ==
  /\ load_batch # {} /\ layer_done
  /\ \E op \in load_batch : /\ ack_load' = Append(ack_load, op.node)
                            /\ load_batch' = load_batch \ {op}
  /\ UNCHANGED <<cache, dev_kv, host_kv, write_buffer, ack_write, load_event, layer_done>>
  /\ UNCHANGED schedulerVars

Next ==
  \/ StartPrefill \/ SkipPrefill \/ AdmitNext \/ EndAdmit \/ NoPrefill \/ PrepareForExtend
  \/ UpdateRunningBatch \/ Forward \/ Flush
  \/ \E r \in Req : Receive(r) \/ ProcessResult(r) \/ RetractDecode(r)
  \/ WriteAux \/ WriteHost \/ TakeLoads \/ LoadLayers \/ AckLoad

Spec == Init /\ [][Next]_vars

---------------------------------------------------------------------------
(* Properties                                                              *)

Own(r) == {row[r][i] : i \in (Len(last_node[r]) + 1)..Len(row[r])}

(* Type invariant of the cache, the threads and the scheduler. *)
TypeOK ==
  /\ TreeType([f \in {"val", "lock_ref", "evictable_size_", "protected_size_"} |-> cache[f]])
  /\ cache.host \in [DOMAIN cache.host -> HostSlot] /\ DOMAIN cache.host \subseteq Path
  /\ cache.hit \in [Nodes(cache) -> 0..(config.threshold - 1)]
  /\ cache.loading \subseteq Nodes(cache) /\ cache.writes \subseteq Nodes(cache)
  /\ DOMAIN cache.loads \subseteq Nodes(cache)
  /\ cache.free_slots \subseteq Page /\ cache.free_host \subseteq HostSlot
  /\ dev_kv \in [Page -> Path] /\ host_kv \in [HostSlot -> Path]
  /\ pc \in {"loop", "admit", "prepare", "forward", "result", "decode", "retract", "stopped"}
  /\ Holding \subseteq Req /\ offset \in Nat
  /\ row \in [Req -> Seq(Page)] /\ ids \in [Req -> Path]

(* References are exact: a node is locked once for every request at or     *)
(* below it, every backup and every load under way that ends at or below   *)
(* it, and for nothing else, through splits of nodes that are being copied;*)
(* the nodes of a load keep their flag, so the assertion of loading_check  *)
(* holds (inc_lock_ref, dec_lock_ref, _split_node, writing_check).         *)
LocksExact ==
  /\ \A n \in Nodes(cache) :
       cache.lock_ref[n] = Cardinality({r \in Holding : n \preceq last_node[r]})
                         + Cardinality({w \in cache.writes : n \preceq w})
                         + Cardinality({e \in DOMAIN cache.loads : n \preceq e})
  /\ \A e \in DOMAIN cache.loads : \A n \in Nodes(cache) :
       n \preceq e /\ Len(n) > Len(cache.loads[e]) => n \in cache.loading
  /\ \A r \in Holding : last_node[r] \in Nodes(cache) \cup {Root}

(* Each slot of both pools is in one place: no device slot is lost, lent   *)
(* twice or freed under a request; no host slot is free and in the tree;   *)
(* under write_through none is lost either; and what check_memory compares *)
(* is exact (alloc, free, evict, evict_host, load_back, _insert_helper).   *)
MemoryExact ==
  LET tree == ValuesOf(cache.val)
      hosted == ValuesOf(cache.host)
  IN  /\ Cardinality(tree) = Cardinality(DOMAIN cache.val)
      /\ Page = cache.free_slots \cup tree \cup UNION {Own(r) : r \in Holding}
      /\ Cardinality(cache.free_slots) + cache.evictable_size_ + cache.protected_size_
           + Cardinality(UNION {Own(r) : r \in Holding}) = Cardinality(Page)
      /\ cache.free_slots \cap tree = {}
      /\ \A r \in Holding : Own(r) \cap (cache.free_slots \cup tree) = {}
      /\ Cardinality(hosted) = Cardinality(DOMAIN cache.host)
      /\ hosted \cap cache.free_host = {}
      /\ config.threshold = 1 => hosted \cup cache.free_host = HostSlot

(* A slot holds what the tree says it holds: a node on the device that is  *)
(* not being loaded has the KV entries of its own tokens, and so has the   *)
(* host copy once it is written; nothing is read before it was copied or   *)
(* after its slot went to someone else (write, load, wait_until).          *)
KVCorrect ==
  /\ \A p \in DOMAIN cache.val :
       Owner(cache, p) \notin cache.loading => dev_kv[cache.val[p]] = p
  /\ \A p \in DOMAIN cache.host :
       (\A w \in cache.writes : ~(p \preceq w)) => host_kv[cache.host[p]] = p
  /\ pc = "result" => \A r \in todo : \A i \in DOMAIN row[r] :
                        dev_kv[row[r][i]] = First(ids[r], i)

(* The scheduler is never stopped by "Prefill out of memory" or by "No     *)
(* space left for only one request" (alloc_token_slots, retract_decode).   *)
NoCrash == ~crashed

(* ... at least not when every node is written as soon as it is inserted   *)
(* and a request's whole output is reserved: then what PrefillAdder counted*)
(* as evictable can be evicted when the batch needs it, whatever is being  *)
(* copied meanwhile (rem_total_tokens, evictable_size, write_backup).      *)
ReservedFits == config.threshold = 1 /\ config.ratio = 1 => ~crashed
=============================================================================
