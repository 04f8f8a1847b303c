--------------------------- MODULE Disaggregation ---------------------------
(***************************************************************************)
(* Prefill/decode disaggregation with the Mooncake backend: one prefill and *)
(* one decode server of the same tensor-parallel size.  A request is sent  *)
(* to both.  The decode server reserves memory and tells the prefill server*)
(* where it is; the prefill server computes the prompt chunk by chunk and  *)
(* its transfer threads write the KV cache, and at last the first token,   *)
(* into the decode server's memory.                                        *)
(*                                                                         *)
(* The ranks of a server run the same scheduler code on the same requests  *)
(* and agree on every poll (poll_and_all_reduce), so a handler of the event*)
(* loop is one step for all ranks; request_status, the transfer threads,   *)
(* the receiving threads and the sockets are per rank.  A handler that     *)
(* finds nothing to do is a stuttering step.  A page is the KV cache of one*)
(* chunk.  Both loops are the normal ones; overlap is module OverlapWorker.*)
(***************************************************************************)
EXTENDS Queues

CONSTANTS
  Req,
  InputLen,      \* [Req -> Nat]: pages, and chunks, of the prompt
  MaxNew,        \* [Req -> Nat]: tokens of the answer
  Rows,          \* the decode server's req_to_token_pool and max_running_requests
  Reserved,      \* num_reserved_decode_tokens
  PrefillMeta, DecodeMeta,   \* metadata buffers of the two servers
  Configs        \* the deployments to check

(* The tensor-parallel ranks of each server, the size of the decode        *)
(* server's token_to_kv_pool, the requests that come, and the faults: a    *)
(* bootstrap server that does not answer, a transfer that fails, a prefill *)
(* server that dies.                                                       *)
ConfigType == [ranks : SUBSET Nat, pages : Nat, reqs : SUBSET Req,
               faults : SUBSET {"fetch", "send", "crash"}]

(* An answer that fits the reservation; longer ones may be retracted. *)
ASSUME DisaggregationAssumption ==
  /\ IsFiniteSet(Req)
  /\ InputLen \in [Req -> Nat \ {0}] /\ MaxNew \in [Req -> Nat \ {0}]
  /\ {Rows, Reserved, PrefillMeta, DecodeMeta} \subseteq Nat \ {0}
  /\ \A r \in Req : MaxNew[r] <= Reserved + 1
  /\ \A c \in Configs : /\ c \in ConfigType /\ IsFiniteSet(c.ranks) /\ c.ranks # {}
                        /\ \A r \in c.reqs : InputLen[r] + Reserved <= c.pages

(* KVPoll, and the absence of an entry of request_status *)
Absent == -1
Failed == 0
Bootstrapping == 1
WaitingForInput == 2
Success == 4

VARIABLES
  config,                   \* the member of Configs at work; no step changes it
  alive,                    \* the prefill server has not crashed
  \* the prefill server
  p_arrived, bootstrap_queue, p_waiting, sent, inflight_queue, pending,
  p_free, p_meta, p_aux, p_status, p_conclude, p_done,
  transfer_infos, transfer_queue, worker, failed_sessions,
  \* the sockets
  to_prefill, to_decode,
  \* the decode server
  d_arrived, connected, rooms_tracker, prealloc_queue, waiting_for_input, transfer_q,
  d_waiting, last_batch, running_batch, d_free, d_meta, d_status, d_conclude,
  row, free_pages, free_rows, out_len, first_token, retracted, d_done,
  \* its memory on every rank, which the transfer threads write
  kv, aux

prefillVars == <<p_arrived, bootstrap_queue, p_waiting, sent, inflight_queue, pending,
                 p_free, p_meta, p_aux, p_conclude, p_done>>
threadVars  == <<transfer_infos, transfer_queue, worker, failed_sessions>>
decodeVars  == <<d_arrived, prealloc_queue, waiting_for_input, transfer_q, d_waiting, last_batch,
                 running_batch, d_free, d_meta, d_conclude, row, free_pages, free_rows, out_len,
                 first_token, retracted, d_done>>
connVars    == <<connected, rooms_tracker>>
memVars     == <<kv, aux>>
vars        == <<config, alive, prefillVars, p_status, threadVars, to_prefill, to_decode,
                 decodeVars, connVars, d_status, memVars>>

Rank   == config.ranks
Pages  == config.pages
faults == config.faults

Empty == << >>
NoChunk == [room |-> Empty, page |-> 0, is_last |-> FALSE]
Nothing == <<Empty, 0>>

Init ==
  /\ config \in Configs /\ alive = TRUE
  /\ p_arrived = {} /\ bootstrap_queue = Empty /\ p_waiting = Empty /\ inflight_queue = Empty
  /\ sent = [r \in Req |-> 0] /\ pending = {} /\ p_done = [r \in Req |-> "no"]
  /\ p_free = [i \in 1..PrefillMeta |-> i] /\ p_meta = [r \in Req |-> 0]
  /\ p_aux = [i \in 1..PrefillMeta |-> Nothing]
  /\ p_status = [k \in Rank |-> [r \in Req |-> Absent]] /\ p_conclude = p_status
  /\ transfer_infos = [k \in Rank |-> {}] /\ transfer_queue = [k \in Rank |-> Empty]
  /\ worker = [k \in Rank |-> NoChunk] /\ failed_sessions = {}
  /\ to_prefill = [k \in Rank |-> Empty] /\ to_decode = [k \in Rank |-> Empty]
  /\ d_arrived = {} /\ connected = {} /\ rooms_tracker = [k \in Rank |-> {}]
  /\ prealloc_queue = Empty /\ waiting_for_input = {} /\ transfer_q = Empty
  /\ d_waiting = Empty /\ last_batch = {} /\ running_batch = {}
  /\ d_free = [i \in 1..DecodeMeta |-> i] /\ d_meta = [r \in Req |-> 0]
  /\ d_status = p_status /\ d_conclude = p_status
  /\ row = [r \in Req |-> Empty] /\ free_pages = 1..Pages /\ free_rows = Rows
  /\ out_len = [r \in Req |-> 0] /\ first_token = [r \in Req |-> {}] /\ retracted = FALSE
  /\ d_done = [r \in Req |-> "no"]
  /\ kv = [k \in Rank |-> [p \in 1..Pages |-> Nothing]]
  /\ aux = [k \in Rank |-> [i \in 1..DecodeMeta |-> Nothing]]

---------------------------------------------------------------------------
(* What both sides share                                                   *)

(* update_status: never back, except to Failed *)
Updated(old, new) ==
  IF old = Absent \/ new = Failed THEN new ELSE IF new > old THEN new ELSE old

(* KVSender.poll and KVReceiver.poll: a final status is remembered *)
Poll(status, conclude, k, r) ==
  IF conclude[k][r] # Absent THEN conclude[k][r] ELSE status[k][r]

(* conclude_state after the polls; the senders and receivers of gone are   *)
(* dropped                                                                 *)
Concluded(status, conclude, polled, gone) ==
  [k \in Rank |-> [r \in Req |->
     IF r \in gone THEN Absent
     ELSE IF r \in polled /\ Poll(status, conclude, k, r) \in {Success, Failed}
     THEN Poll(status, conclude, k, r) ELSE conclude[k][r]]]

(* The ranks agree on the best status of any of them (mutation). *)
BestPoll(S) == Max(S)

(* the reduction of poll_and_all_reduce *)
ReduceOp(S) == Min(S)

AllReduce(status, conclude, r) == ReduceOp({Poll(status, conclude, k, r) : k \in Rank})

(* clear, in every rank *)
Cleared(status, S) == [k \in Rank |-> [r \in Req |-> IF r \in S THEN Absent ELSE status[k][r]]]

Firsts(queue, n) == SubSeq(queue, 1, n)
Rest(queue, n) == SubSeq(queue, n + 1, Len(queue))

(* the values of f at the elements of a queue *)
Values(f, queue) == [i \in 1..Len(queue) |-> f[queue[i]]]

(* f, with the i-th of the values for the i-th element of a queue *)
Given(f, queue, values) ==
  [r \in Req |-> IF r \in ToSet(queue) THEN values[PlaceOf(queue, r)] ELSE f[r]]

---------------------------------------------------------------------------
(* The prefill server's scheduler                                          *)

(* PrefillBootstrapQueue.add: a sender in every rank *)
ArrivePrefill(r) ==
  /\ alive /\ r \in config.reqs \ p_arrived /\ pending = {}
  /\ p_arrived' = p_arrived \cup {r} /\ bootstrap_queue' = Append(bootstrap_queue, r)
  /\ p_status' = [k \in Rank |-> [p_status[k] EXCEPT ![r] = Updated(@, Bootstrapping)]]
  /\ UNCHANGED <<config, alive, p_waiting, sent, inflight_queue, pending, p_free, p_meta, p_aux,
                 p_conclude, p_done, to_prefill, to_decode, d_status>>
  /\ UNCHANGED <<threadVars, decodeVars, connVars, memVars>>

(* MooncakeKVSender.poll: the time-out of a sender in Bootstrapping counts *)
(* from init_time, which init sets, after the bootstrap.                   *)
TimedOut(r) ==
  /\ \E k \in Rank : p_status[k][r] = Bootstrapping
  /\ p_meta[r] # 0

(* pop_bootstrapped, with the requests of T timed out: in the order of the *)
(* queue, up to the first one that finds no metadata buffer.               *)
PopBootstrapped(T) ==
  LET poll(r)  == IF r \in T THEN Failed ELSE AllReduce(p_status, p_conclude, r)
      ready    == Queued(bootstrap_queue, {r \in Req : poll(r) \notin {Failed, Bootstrapping}})
      n        == Min({Len(ready), Len(p_free)})
      taken    == Firsts(ready, n)
      seen     == IF n = Len(ready) THEN ToSet(bootstrap_queue)
                  ELSE {r \in ToSet(bootstrap_queue) :
                          \E i, j \in DOMAIN bootstrap_queue :
                            i < j /\ bootstrap_queue[i] = r /\ bootstrap_queue[j] = ready[n + 1]}
      lost     == {r \in seen : poll(r) = Failed}
  IN  /\ alive /\ pending = {}
      /\ ToSet(taken) \cup lost # {}
      /\ bootstrap_queue' = Without(bootstrap_queue, ToSet(taken) \cup lost)
      /\ p_waiting' = p_waiting \o taken
      /\ p_meta' = Given(p_meta, taken, p_free) /\ p_free' = Rest(p_free, n)
      /\ p_conclude' = Concluded(p_status, p_conclude, ToSet(bootstrap_queue), lost)
      /\ p_status' = Cleared(p_status, lost)
      /\ p_done' = [r \in Req |-> IF r \in lost THEN "failed" ELSE p_done[r]]
      /\ UNCHANGED <<config, alive, p_arrived, sent, inflight_queue, pending, p_aux, to_prefill,
                     to_decode, d_status>>
      /\ UNCHANGED <<threadVars, decodeVars, connVars, memVars>>

Bootstrap == \E T \in SUBSET {r \in ToSet(bootstrap_queue) : TimedOut(r)} : PopBootstrapped(T)

(* process_prefill_chunk, get_new_batch_prefill and                        *)
(* process_batch_result_disagg_prefill: the next chunk of the first request*)
(* goes to the transfer queue of every rank that has not failed it; after  *)
(* the last chunk the request is in flight.                                *)
PrefillChunk ==
  LET r    == Head(p_waiting)
      last == sent[r] + 1 = InputLen[r]
      put  == {k \in Rank : p_status[k][r] \notin {Absent, Failed}}
  IN  /\ alive /\ pending = {} /\ p_waiting # Empty
      /\ sent' = [sent EXCEPT ![r] = @ + 1]
      /\ p_waiting' = IF last THEN Tail(p_waiting) ELSE p_waiting
      /\ inflight_queue' = IF last THEN Append(inflight_queue, r) ELSE inflight_queue
      /\ p_aux' = IF last THEN [p_aux EXCEPT ![p_meta[r]] = <<r, 1>>] ELSE p_aux
      /\ transfer_queue' = [k \in Rank |->
           IF k \in put
           THEN Append(transfer_queue[k], [room |-> r, page |-> sent[r] + 1, is_last |-> last])
           ELSE transfer_queue[k]]
      /\ pending' = {<<k, r>> : k \in put}
      /\ UNCHANGED <<config, alive, p_arrived, bootstrap_queue, p_free, p_meta, p_conclude, p_done,
                     p_status, transfer_infos, worker, failed_sessions, to_prefill, to_decode,
                     d_status>>
      /\ UNCHANGED <<decodeVars, connVars, memVars>>

(* the end of add_transfer_request, after the chunk is in the queue *)
AfterPut(k, r) ==
  /\ alive /\ <<k, r>> \in pending /\ pending' = pending \ {<<k, r>>}
  /\ p_status' = [p_status EXCEPT ![k][r] = Updated(@, WaitingForInput)]
  /\ UNCHANGED <<config, alive, p_arrived, bootstrap_queue, p_waiting, sent, inflight_queue, p_free,
                 p_meta, p_aux, p_conclude, p_done, to_prefill, to_decode, d_status>>
  /\ UNCHANGED <<threadVars, decodeVars, connVars, memVars>>

(* Only a request that was transferred gives its buffer back (mutation). *)
ReleasedOnSuccess(done, lost) == done

(* the requests whose metadata buffer is freed *)
Released(done, lost) == done \cup lost

(* process_disagg_prefill_inflight_queue *)
PollInflight ==
  LET poll(r) == AllReduce(p_status, p_conclude, r)
      done    == {r \in ToSet(inflight_queue) : poll(r) = Success}
      lost    == {r \in ToSet(inflight_queue) : poll(r) = Failed}
      freed   == Queued(inflight_queue, Released(done, lost))
  IN  /\ alive /\ pending = {} /\ done \cup lost # {}
      /\ inflight_queue' = Queued(inflight_queue, {r \in Req : poll(r) = WaitingForInput})
      /\ p_conclude' = Concluded(p_status, p_conclude, ToSet(inflight_queue), done \cup lost)
      /\ p_status' = Cleared(p_status, done \cup lost)
      /\ p_free' = p_free \o Values(p_meta, freed)
      /\ p_done' = [r \in Req |-> IF r \in done THEN "ok" ELSE IF r \in lost THEN "failed" ELSE p_done[r]]
      /\ UNCHANGED <<config, alive, p_arrived, bootstrap_queue, p_waiting, sent, pending, p_meta,
                     p_aux, to_prefill, to_decode, d_status>>
      /\ UNCHANGED <<threadVars, decodeVars, connVars, memVars>>

---------------------------------------------------------------------------
(* The prefill server's threads, one of each per rank                      *)

(* bootstrap_thread *)
BootstrapThread(k) ==
  LET m == Head(to_prefill[k])
  IN  /\ alive /\ to_prefill[k] # Empty
      /\ to_prefill' = [to_prefill EXCEPT ![k] = Tail(@)]
      /\ IF m.type = "register"
         THEN failed_sessions' = failed_sessions \ {k} /\ UNCHANGED <<transfer_infos, p_status>>
         ELSE /\ transfer_infos' = [transfer_infos EXCEPT ![k] = @ \cup {m.room}]
              /\ p_status' = [p_status EXCEPT ![k][m.room] = Updated(@, WaitingForInput)]
              /\ UNCHANGED failed_sessions
      /\ UNCHANGED <<config, alive, transfer_queue, worker, to_decode, d_status>>
      /\ UNCHANGED <<prefillVars, decodeVars, connVars, memVars>>

(* transfer_worker: queue.get *)
TransferStart(k) ==
  /\ alive /\ worker[k] = NoChunk /\ transfer_queue[k] # Empty
  /\ worker' = [worker EXCEPT ![k] = Head(transfer_queue[k])]
  /\ transfer_queue' = [transfer_queue EXCEPT ![k] = Tail(@)]
  /\ UNCHANGED <<config, alive, p_status, transfer_infos, failed_sessions, to_prefill, to_decode,
                 d_status>>
  /\ UNCHANGED <<prefillVars, decodeVars, connVars, memVars>>

(* sync_status_to_decode_endpoint *)
SyncStatus(k, r, status) == [to_decode EXCEPT ![k] = Append(@, [room |-> r, status |-> status])]

(* What a chunk does to the rank's memory and status.  An outcome is "kv", *)
(* the KV cache was not sent, "aux", the first token was not, or "ok".     *)
TransferEnd(k, outcome) ==
  LET c      == worker[k]
      r      == c.room
      known  == r \in transfer_infos[k]
      dead   == known /\ k \in failed_sessions
      kvfail == known /\ ~dead /\ outcome = "kv"
      writes == known /\ ~dead /\ ~kvfail
      final  == writes /\ c.is_last
      status == IF dead \/ kvfail \/ (final /\ outcome = "aux") THEN Failed
                ELSE IF final THEN Success ELSE Absent
      new    == IF status = Absent THEN p_status[k][r] ELSE Updated(p_status[k][r], status)
  IN  /\ alive /\ c # NoChunk
      /\ outcome # "ok" => "send" \in faults /\ known /\ ~dead /\ (outcome = "aux" => c.is_last)
      /\ worker' = [worker EXCEPT ![k] = NoChunk]
      /\ kv' = IF writes THEN [kv EXCEPT ![k][row[r][c.page]] = <<r, c.page>>] ELSE kv
      /\ aux' = IF final /\ outcome = "ok" THEN [aux EXCEPT ![k][d_meta[r]] = p_aux[p_meta[r]]] ELSE aux
      /\ failed_sessions' = IF kvfail THEN failed_sessions \cup {k} ELSE failed_sessions
      /\ p_status' = [p_status EXCEPT ![k][r] = new]
      /\ to_decode' = IF status = Absent THEN to_decode ELSE SyncStatus(k, r, status)
      /\ transfer_infos' = IF new \in {Absent, Success}
                           THEN [transfer_infos EXCEPT ![k] = @ \ {r}] ELSE transfer_infos
      /\ UNCHANGED <<config, alive, transfer_queue, to_prefill, d_status>>
      /\ UNCHANGED <<prefillVars, decodeVars, connVars>>

Crash ==
  /\ alive /\ "crash" \in faults /\ alive' = FALSE
  /\ UNCHANGED <<config, p_status, to_prefill, to_decode, d_status>>
  /\ UNCHANGED <<prefillVars, threadVars, decodeVars, connVars, memVars>>

---------------------------------------------------------------------------
(* The decode server's scheduler                                           *)

(* A receiver that fails to reach the bootstrap server leaves no status    *)
(* (mutation).                                                             *)
StatusIfReached(ok) == IF ok THEN WaitingForInput ELSE Absent

(* how MooncakeKVReceiver.__init__ leaves the status *)
ReceiverStatus(ok) == IF ok THEN WaitingForInput ELSE Failed

(* DecodePreallocQueue.add: a receiver in every rank.  A rank without a    *)
(* connection asks the bootstrap server, which runs in the prefill server. *)
ArriveDecode(r) ==
  /\ r \in config.reqs \ d_arrived /\ d_arrived' = d_arrived \cup {r}
  /\ \E ok \in SUBSET Rank :
       /\ connected \subseteq ok
       /\ ok # Rank => "fetch" \in faults \/ ~alive
       /\ ~alive => ok = connected
       /\ connected' = ok
       /\ d_status' = [k \in Rank |-> [d_status[k] EXCEPT ![r] = ReceiverStatus(k \in ok)]]
       /\ rooms_tracker' = [k \in Rank |-> IF k \in ok THEN rooms_tracker[k] \cup {r} ELSE rooms_tracker[k]]
       /\ to_prefill' = [k \in Rank |-> IF k \in ok \ connected
                                        THEN Append(to_prefill[k], [type |-> "register", room |-> Empty])
                                        ELSE to_prefill[k]]
  /\ prealloc_queue' = Append(prealloc_queue, r)
  /\ UNCHANGED <<config, alive, p_status, to_decode, waiting_for_input, transfer_q, d_waiting,
                 last_batch, running_batch, d_free, d_meta, d_conclude, row, free_pages, free_rows,
                 out_len, first_token, retracted, d_done>>
  /\ UNCHANGED <<prefillVars, threadVars, memVars>>

(* The last extend batch is not counted (mutation). *)
AllocatableOfQueues ==
  Cardinality(free_pages) - Reserved * (Cardinality(running_batch) + Len(transfer_q) + Len(d_waiting))

(* _allocatable_tokens *)
AllocatableTokens ==
  Cardinality(free_pages)
  - Reserved * (Cardinality(running_batch) + Len(transfer_q) + Len(d_waiting) + Cardinality(last_batch))

(* the pages of the prompts of the first n requests of a queue *)
PromptPages(queue, n) ==
  LET upto[i \in 0..n] == IF i = 0 THEN 0 ELSE upto[i - 1] + InputLen[queue[i]]
  IN  upto[n]

(* pop_preallocated, with _update_handshake_waiters and _pre_alloc *)
PopPreallocated ==
  LET queued  == ToSet(prealloc_queue)
      polled  == IF queued \subseteq waiting_for_input THEN {} ELSE queued
      poll(r) == AllReduce(d_status, d_conclude, r)
      lost    == {r \in polled : poll(r) = Failed}
      waiters == waiting_for_input \cup {r \in polled : poll(r) = WaitingForInput}
      cand    == Queued(prealloc_queue, waiters \ lost)
      fits(n) == /\ n <= free_rows /\ n <= Len(d_free)
                 /\ PromptPages(cand, n) + Reserved * n <= AllocatableTokens
      n       == Max({i \in 0..Len(cand) : i = 0 \/ fits(i)})
      taken   == Firsts(cand, n)
      pages   == SetToSeq(free_pages)
      rows    == [i \in 1..n |-> SubSeq(pages, PromptPages(cand, i - 1) + 1, PromptPages(cand, i))]
  IN  /\ ToSet(taken) \cup lost # {} \/ waiters # waiting_for_input
      /\ prealloc_queue' = Without(prealloc_queue, ToSet(taken) \cup lost)
      /\ waiting_for_input' = waiters
      /\ transfer_q' = transfer_q \o taken
      /\ row' = Given(row, taken, rows)
      /\ free_pages' = free_pages \ UNION {ToSet(row'[r]) : r \in ToSet(taken)}
      /\ free_rows' = free_rows - n
      /\ d_meta' = Given(d_meta, taken, d_free) /\ d_free' = Rest(d_free, n)
      /\ to_prefill' = [k \in Rank |-> to_prefill[k] \o [i \in 1..Len(taken) |-> [type |-> "init", room |-> taken[i]]]]
      /\ d_conclude' = Concluded(d_status, d_conclude, polled, lost)
      /\ d_status' = Cleared(d_status, lost)
      /\ d_done' = [r \in Req |-> IF r \in lost THEN "failed" ELSE d_done[r]]
      /\ UNCHANGED <<config, alive, p_status, to_decode, d_arrived, d_waiting, last_batch,
                     running_batch, out_len, first_token, retracted>>
      /\ UNCHANGED <<prefillVars, threadVars, connVars, memVars>>

(* pop_transferred *)
PopTransferred ==
  LET poll(r) == AllReduce(d_status, d_conclude, r)
      done    == {r \in ToSet(transfer_q) : poll(r) = Success}
      lost    == {r \in ToSet(transfer_q) : poll(r) = Failed}
      freed   == Queued(transfer_q, done \cup lost)
  IN  /\ done \cup lost # {}
      /\ transfer_q' = Without(transfer_q, done \cup lost)
      /\ d_waiting' = d_waiting \o Queued(transfer_q, done)
      /\ first_token' = [r \in Req |-> IF r \in done THEN {aux[k][d_meta[r]] : k \in Rank} ELSE first_token[r]]
      /\ out_len' = [r \in Req |-> IF r \in done THEN 1 ELSE out_len[r]]
      /\ free_pages' = free_pages \cup UNION {ToSet(row[r]) : r \in lost}
      /\ free_rows' = free_rows + Cardinality(lost)
      /\ d_free' = d_free \o Values(d_meta, freed)
      /\ d_conclude' = Concluded(d_status, d_conclude, ToSet(transfer_q), done \cup lost)
      /\ d_status' = Cleared(d_status, done \cup lost)
      /\ d_done' = [r \in Req |-> IF r \in lost THEN "failed" ELSE d_done[r]]
      /\ UNCHANGED <<config, alive, p_status, to_prefill, to_decode, d_arrived, prealloc_queue,
                     waiting_for_input, last_batch, running_batch, d_meta, row, retracted>>
      /\ UNCHANGED <<prefillVars, threadVars, connVars, memVars>>

Merged == running_batch \cup last_batch

(* get_new_prebuilt_batch, after the merge of the last extend batch *)
Prebuilt ==
  LET n == Min({Len(d_waiting), Rows - Cardinality(Merged)})
  IN  /\ n > 0
      /\ running_batch' = Merged /\ last_batch' = ToSet(Firsts(d_waiting, n))
      /\ d_waiting' = Rest(d_waiting, n)
      /\ UNCHANGED <<config, alive, p_status, to_prefill, to_decode, d_status, d_arrived,
                     prealloc_queue, waiting_for_input, transfer_q, d_free, d_meta, d_conclude, row,
                     free_pages, free_rows, out_len, first_token, retracted, d_done>>
      /\ UNCHANGED <<prefillVars, threadVars, connVars, memVars>>

(* update_running_batch, the forward and process_batch_result_decode: every*)
(* running request gets a page and a token.  Without the pages the batch   *)
(* would be retracted.                                                     *)
Decode ==
  LET B     == {r \in Merged : d_done[r] = "no"}
      list  == SetToSeq(B)
      fits  == Len(list) <= Cardinality(free_pages)
      pages == SetToSeq(free_pages)
      page(r) == pages[PlaceOf(list, r)]
      ends  == {r \in B : out_len[r] + 1 >= MaxNew[r]}
  IN  /\ Merged # {} /\ ~retracted
      /\ d_waiting = Empty \/ Cardinality(Merged) >= Rows
      /\ last_batch' = {}
      /\ IF ~fits
         THEN /\ retracted' = TRUE /\ running_batch' = B
              /\ UNCHANGED <<row, kv, out_len, free_pages, free_rows, d_done>>
         ELSE /\ running_batch' = B /\ UNCHANGED retracted
              /\ row' = [r \in Req |-> IF r \in B THEN Append(row[r], page(r)) ELSE row[r]]
              /\ kv' = [k \in Rank |-> [p \in 1..Pages |->
                   IF \E r \in B : page(r) = p
                   THEN LET r == CHOOSE r \in B : page(r) = p IN <<r, InputLen[r] + out_len[r]>>
                   ELSE kv[k][p]]]
              /\ out_len' = [r \in Req |-> IF r \in B THEN out_len[r] + 1 ELSE out_len[r]]
              /\ free_pages' = (free_pages \ {page(r) : r \in B}) \cup UNION {ToSet(row'[r]) : r \in ends}
              /\ free_rows' = free_rows + Cardinality(ends)
              /\ d_done' = [r \in Req |-> IF r \in ends THEN "ok" ELSE d_done[r]]
      /\ UNCHANGED <<config, alive, p_status, to_prefill, to_decode, d_status, d_arrived,
                     prealloc_queue, waiting_for_input, transfer_q, d_waiting, d_free, d_meta,
                     d_conclude, first_token, aux>>
      /\ UNCHANGED <<prefillVars, threadVars, connVars>>

---------------------------------------------------------------------------
(* The decode server's threads, one of each per rank                       *)

(* decode_thread *)
DecodeThread(k) ==
  LET m == Head(to_decode[k])
  IN  /\ to_decode[k] # Empty
      /\ to_decode' = [to_decode EXCEPT ![k] = Tail(@)]
      /\ d_status' = [d_status EXCEPT ![k][m.room] = Updated(@, m.status)]
      /\ UNCHANGED <<config, alive, p_status, to_prefill>>
      /\ UNCHANGED <<prefillVars, threadVars, decodeVars, connVars, memVars>>

(* Only a request whose handshake is not over is given up (mutation). *)
AffectedInHandshake(k) == {r \in rooms_tracker[k] : d_status[k][r] = Bootstrapping}

(* affected_rooms *)
AffectedRooms(k) == {r \in rooms_tracker[k] : d_status[k][r] \notin {Absent, Success}}

(* heartbeat_checker and _handle_node_failure, after max_failures *)
Heartbeat(k) ==
  /\ ~alive /\ k \in connected /\ connected' = connected \ {k}
  /\ rooms_tracker' = [rooms_tracker EXCEPT ![k] = {}]
  /\ d_status' = [d_status EXCEPT ![k] = [r \in Req |->
       IF r \in AffectedRooms(k) THEN Failed ELSE d_status[k][r]]]
  /\ UNCHANGED <<config, alive, p_status, to_prefill, to_decode>>
  /\ UNCHANGED <<prefillVars, threadVars, decodeVars, memVars>>

---------------------------------------------------------------------------
PrefillThreads(k) == BootstrapThread(k) \/ TransferStart(k) \/ \E o \in {"ok", "kv", "aux"} : TransferEnd(k, o)

(* The load balancer sends a request to both servers; every loop and every *)
(* thread keeps running.  Each step is taken a bounded number of times, so *)
(* that fairness of them together is fairness of each.                     *)
Progress ==
  \/ \E r \in Req : ArrivePrefill(r) \/ ArriveDecode(r)
  \/ Bootstrap \/ PrefillChunk \/ PollInflight
  \/ \E k \in Rank, r \in Req : AfterPut(k, r)
  \/ PopPreallocated \/ PopTransferred \/ Prebuilt \/ Decode
  \/ \E k \in Rank : PrefillThreads(k) \/ DecodeThread(k) \/ Heartbeat(k)

Next == Progress \/ Crash

Fairness == WF_vars(Progress)

Spec == Init /\ [][Next]_vars /\ Fairness

---------------------------------------------------------------------------
(* Properties                                                              *)

StatusType == [Rank -> [Req -> {Absent, Failed, Bootstrapping, WaitingForInput, Success}]]

(* Type invariant.  request_status is a dictionary that several threads    *)
(* fill and clear: every status that a poll reads is there (check_status   *)
(* would raise), on every rank.                                            *)
TypeOK ==
  /\ {p_status, p_conclude, d_status, d_conclude} \subseteq StatusType
  /\ \A k \in Rank, r \in ToSet(bootstrap_queue \o inflight_queue) :
       Poll(p_status, p_conclude, k, r) # Absent
  /\ \A k \in Rank, r \in ToSet(prealloc_queue \o transfer_q) :
       Poll(d_status, d_conclude, k, r) # Absent
  /\ free_pages \subseteq 1..Pages /\ free_rows \in 0..Rows
  /\ out_len \in [Req -> Nat] /\ sent \in [Req -> Nat]
  /\ p_done \in [Req -> {"no", "ok", "failed"}] /\ d_done \in [Req -> {"no", "ok", "failed"}]

InDecode == ToSet(d_waiting) \cup last_batch \cup {r \in running_batch : d_done[r] = "no"}

(* A request decodes only with its own KV cache, complete on every rank    *)
(* and not overwritten by a transfer for another request, and with its own *)
(* first token (pop_transferred, the reuse of pages and metadata buffers). *)
(* With several ranks, a transfer that fails on one does not stop the      *)
(* others from writing into memory the decode server takes back: excluded. *)
KVIntact ==
  "send" \notin faults \/ Cardinality(Rank) = 1 =>
    \A r \in InDecode :
      /\ first_token[r] = {<<r, 1>>}
      /\ \A k \in Rank, i \in DOMAIN row[r] : kv[k][row[r][i]] = <<r, i>>

Holders == ToSet(transfer_q) \cup InDecode

(* Metadata buffers, pages and rows are free or held by one request of one *)
(* queue, on both servers, also after failed handshakes and transfers and  *)
(* after a crash.                                                          *)
BuffersBalanced ==
  LET p_held == p_waiting \o inflight_queue
  IN  /\ ToSet(p_free) \cup {p_meta[r] : r \in ToSet(p_held)} = 1..PrefillMeta
      /\ Len(p_free) + Len(p_held) = PrefillMeta
      /\ ToSet(d_free) \cup {d_meta[r] : r \in ToSet(transfer_q)} = 1..DecodeMeta
      /\ Len(d_free) + Len(transfer_q) = DecodeMeta
      /\ free_pages \cup UNION {ToSet(row[r]) : r \in Holders} = 1..Pages
      /\ Cardinality(free_pages) + SumOver([r \in Req |-> Len(row[r])], Holders) = Pages
      /\ free_rows + Cardinality(Holders) = Rows

(* An answer that fits num_reserved_decode_tokens is never retracted: the  *)
(* pre-allocation counts every request that will still grow, in whichever  *)
(* queue or batch it is (_allocatable_tokens).                             *)
NoRetraction == ~retracted

(* Every request is answered: by the decode server even when a handshake   *)
(* fails or the prefill server dies, by the prefill server when nothing    *)
(* fails.  A failed transfer is excluded: AfterPut may overwrite its status*)
(* and leave the request in the inflight queue.                            *)
AllReturned ==
  \A r \in Req :
    /\ "send" \notin faults /\ r \in d_arrived ~> d_done[r] # "no"
    /\ faults = {} /\ r \in p_arrived ~> p_done[r] # "no"

(* SGLANG_DISAGGREGATION_BOOTSTRAP_TIMEOUT: "Timeout (seconds) for         *)
(* receiving destination KV indices during request initialization": a      *)
(* request does not stay in the bootstrap queue for ever.                  *)
BootstrapEnds == \A r \in Req : r \in ToSet(bootstrap_queue) ~> r \notin ToSet(bootstrap_queue)
=============================================================================
