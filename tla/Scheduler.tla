------------------------------ MODULE Scheduler ------------------------------
(***************************************************************************)
(* The scheduler process (managers/scheduler.py): event_loop_normal and    *)
(* event_loop_overlap with their queues and batches, chunked prefill, mixed*)
(* batches, retraction, abort, flush_cache and the weight update, driven by*)
(* a tokenizer manager that sends requests and control messages.           *)
(*                                                                         *)
(* Memory is counted, page_size 1: avail is what is free or evictable.     *)
(* Prefix hits are left out: every request is charged its full length (the *)
(* tree itself is module RadixCache).  One iteration of the loop is a      *)
(* sequence of steps: Receive (any number), Schedule, ProcessResult.  An   *)
(* exception or a failed assertion ends the process: it sets crashed.      *)
(***************************************************************************)
EXTENDS Queues

CONSTANTS
  Req, NoReq,
  Configs          \* the servers and workloads to check

(* A server and the load it meets: what the command line and the model fix *)
(* at start, the lengths of the requests, and what the clients may do.     *)
ConfigType ==
  [input_len         : [Req -> Nat \ {0}],   \* len(origin_input_ids)
   max_new_tokens    : [Req -> Nat \ {0}],   \* sampling_params.max_new_tokens
   bad_req           : SUBSET Req,           \* requests that fail validation
   max_total_tokens  : Nat \ {0},            \* max_total_num_tokens
   max_reqs          : Nat \ {0},            \* rows of req_to_token_pool, max_micro_batch_size
   chunk_size        : Nat \ {0},            \* chunked_prefill_size
   max_prefill       : Nat \ {0},            \* max_prefill_tokens
   clip_new          : Nat \ {0},            \* CLIP_MAX_NEW_TOKENS_ESTIMATION
   retract_steps     : Nat \ {0},            \* global_config.retract_decode_steps
   enable_overlap    : BOOLEAN,
   is_mixed_chunk    : BOOLEAN,
   controls          : SUBSET {"abort", "flush", "update"},   \* messages besides requests
   max_controls      : Nat]                  \* bound: how many of them

ASSUME SchedulerAssumption ==
  /\ NoReq \notin Req /\ IsFiniteSet(Req)
  /\ \A c \in Configs : c \in ConfigType

VARIABLES
  config,        \* the member of Configs at work; no step changes it
  \* the tokenizer manager: what it believes of each request
  client,        \* "new", "open" (holds the reader lock), "closed"
  updating,      \* a weight update holds the writer lock
  controls,      \* control messages sent so far
  inbox,         \* tokenizer manager -> scheduler, in order
  \* the scheduler
  pc,            \* "recv" or "result": where the loop is
  waiting_queue, running_batch, batch_is_full, chunked_req,
  cur_batch, last_batch, result_queue,
  crashed,
  \* the memory pools
  avail,         \* token slots free or evictable
  slots,         \* free rows of req_to_token_pool
  \* the requests
  in_len, out_len,   \* len(origin_input_ids), len(output_ids)
  kv,                \* token slots in the request's row
  delayed,           \* slots of a forward launched before the finish was known
  finished, to_abort, is_retracted, is_chunked,
  answered           \* requests whose last output was streamed

envVars   == <<client, updating, controls>>
queueVars == <<waiting_queue, running_batch, batch_is_full, chunked_req>>
batchVars == <<cur_batch, last_batch, result_queue>>
memVars   == <<avail, slots, kv, delayed>>
reqVars   == <<in_len, out_len, finished, to_abort, is_retracted, is_chunked, answered>>
vars      == <<config, envVars, inbox, pc, queueVars, batchVars, crashed, memVars, reqVars>>

InputLen       == config.input_len
MaxNewTokens   == config.max_new_tokens
BadReq         == config.bad_req
MaxTotalTokens == config.max_total_tokens
MaxReqs        == config.max_reqs
ChunkSize      == config.chunk_size
MaxPrefill     == config.max_prefill
ClipNew        == config.clip_new
RetractSteps   == config.retract_steps
EnableOverlap  == config.enable_overlap
IsMixedChunk   == config.is_mixed_chunk
Controls       == config.controls
MaxControls    == config.max_controls

NoBatch == [mode |-> "none", reqs |-> {}, chunked |-> NoReq]

Least(a, b) == IF a <= b THEN a ELSE b

Init ==
  /\ config \in Configs
  /\ client = [r \in Req |-> "new"] /\ updating = FALSE /\ controls = 0 /\ inbox = << >>
  /\ pc = "recv" /\ crashed = "no"
  /\ waiting_queue = << >> /\ running_batch = {} /\ batch_is_full = FALSE /\ chunked_req = NoReq
  /\ cur_batch = NoBatch /\ last_batch = NoBatch /\ result_queue = << >>
  /\ avail = MaxTotalTokens /\ slots = MaxReqs
  /\ in_len = InputLen /\ out_len = [r \in Req |-> 0]
  /\ kv = [r \in Req |-> 0] /\ delayed = [r \in Req |-> 0]
  /\ finished = [r \in Req |-> FALSE] /\ to_abort = [r \in Req |-> FALSE]
  /\ is_retracted = [r \in Req |-> FALSE] /\ is_chunked = [r \in Req |-> 0]
  /\ answered = {}

---------------------------------------------------------------------------
(* The tokenizer manager                                                   *)

schedulerVars == <<config, pc, queueVars, batchVars, crashed, memVars, reqVars>>

Message(m, r) == [type |-> m, req |-> r]

(* generate_request, inside reader_lock *)
SendGenerate(r) ==
  /\ client[r] = "new" /\ ~updating
  /\ client' = [client EXCEPT ![r] = "open"]
  /\ inbox' = Append(inbox, Message("generate", r))
  /\ UNCHANGED <<updating, controls>> /\ UNCHANGED schedulerVars

(* the last output arrives; the task leaves reader_lock *)
ReceiveOutput(r) ==
  /\ client[r] = "open" /\ r \in answered
  /\ client' = [client EXCEPT ![r] = "closed"]
  /\ UNCHANGED <<updating, controls, inbox>> /\ UNCHANGED schedulerVars

(* _wait_one_response: the client is gone.  AbortReq is sent, and the      *)
(* exception leaves reader_lock at once.                                   *)
Disconnect(r) ==
  /\ "abort" \in Controls /\ controls < MaxControls
  /\ client[r] = "open"
  /\ client' = [client EXCEPT ![r] = "closed"]
  /\ controls' = controls + 1
  /\ inbox' = Append(inbox, Message("abort", r))
  /\ UNCHANGED updating /\ UNCHANGED schedulerVars

(* flush_cache takes no lock *)
SendFlush ==
  /\ "flush" \in Controls /\ controls < MaxControls
  /\ controls' = controls + 1
  /\ inbox' = Append(inbox, Message("flush", NoReq))
  /\ UNCHANGED <<client, updating>> /\ UNCHANGED schedulerVars

(* update_weights_from_disk, inside writer_lock *)
SendUpdate ==
  /\ "update" \in Controls /\ controls < MaxControls
  /\ ~updating /\ \A r \in Req : client[r] # "open"
  /\ controls' = controls + 1 /\ updating' = TRUE
  /\ inbox' = Append(inbox, Message("update", NoReq))
  /\ UNCHANGED client /\ UNCHANGED schedulerVars

---------------------------------------------------------------------------
(* process_input_requests: one message                                     *)

(* handle_generate_request; a request that fails validation is queued with *)
(* a one-token prompt and its finished_reason set.                         *)
HandleGenerate(r) ==
  /\ waiting_queue' = Append(waiting_queue, r)
  /\ in_len' = [in_len EXCEPT ![r] = IF r \in BadReq THEN 1 ELSE @]
  /\ finished' = [finished EXCEPT ![r] = r \in BadReq]
  /\ UNCHANGED <<running_batch, batch_is_full, chunked_req, out_len, to_abort, is_retracted,
                 is_chunked, answered, updating, crashed>>
  /\ UNCHANGED batchVars /\ UNCHANGED memVars

(* abort_request: drop it from the waiting queue; mark it in the batches.  *)
HandleAbort(r) ==
  /\ waiting_queue' = Without(waiting_queue, {r})
  /\ to_abort' = [to_abort EXCEPT ![r] = @ \/ (r \in running_batch \cup cur_batch.reqs /\ ~finished[r])]
  /\ UNCHANGED <<running_batch, batch_is_full, chunked_req, in_len, out_len, finished,
                 is_retracted, is_chunked, answered, updating, crashed>>
  /\ UNCHANGED batchVars /\ UNCHANGED memVars

(* flush_cache always goes ahead (mutation). *)
FlushAlwaysAllowed == TRUE

(* the guard of flush_cache (pp_size = 1) *)
FlushAllowed == waiting_queue = << >> /\ running_batch = {}

(* flush_cache when it goes ahead: the pools and the tree are cleared *)
FlushEffect ==
  /\ cur_batch' = NoBatch /\ last_batch' = NoBatch
  /\ avail' = MaxTotalTokens /\ slots' = MaxReqs
  /\ UNCHANGED <<result_queue, kv, delayed>>

HandleFlush ==
  /\ IF FlushAllowed THEN FlushEffect ELSE UNCHANGED batchVars /\ UNCHANGED memVars
  /\ UNCHANGED <<updating, crashed>> /\ UNCHANGED queueVars /\ UNCHANGED reqVars

(* update_weights_from_disk: "assert flash_cache_success" *)
HandleUpdate ==
  /\ IF FlushAllowed THEN FlushEffect /\ UNCHANGED crashed
                     ELSE crashed' = "flush" /\ UNCHANGED batchVars /\ UNCHANGED memVars
  /\ updating' = FALSE
  /\ UNCHANGED queueVars /\ UNCHANGED reqVars

Receive ==
  /\ pc = "recv" /\ crashed = "no" /\ inbox # << >>
  /\ inbox' = Tail(inbox)
  /\ LET m == Head(inbox)
     IN  CASE m.type = "generate" -> HandleGenerate(m.req)
           [] m.type = "abort"    -> HandleAbort(m.req)
           [] m.type = "flush"    -> HandleFlush
           [] m.type = "update"   -> HandleUpdate
  /\ UNCHANGED <<config, client, controls, pc>>

---------------------------------------------------------------------------
(* get_next_batch_to_run, first part: the chunked request is taken out     *)
(* (its row is given back), the last prefill batch joins running_batch.    *)

(* The chunked request is merged like the others (mutation). *)
ExcludedNone == {}

Excluded == {chunked_req, last_batch.chunked}

MergedReqs == IF last_batch.mode = "extend"
              THEN {r \in last_batch.reqs : ~finished[r] /\ r \notin Excluded} ELSE {}
Merged == running_batch \cup MergedReqs
FullAfterMerge == batch_is_full /\ ~(last_batch.mode = "extend" /\ MergedReqs # last_batch.reqs)
                                /\ ~(running_batch = {} /\ MergedReqs # {})
(* The chunked request keeps its row and gets another one (mutation). *)
SlotsKept == slots

SlotsAfterMerge == IF chunked_req # NoReq THEN slots + 1 ELSE slots

(* filter_batch *)
Unfinished(B) == {r \in B : ~finished[r]}

---------------------------------------------------------------------------
(* PrefillAdder.  reserve is what it sets aside for the running requests:  *)
(* the sum of their remaining max_new_tokens times new_token_ratio.        *)

SeqLen(r) == in_len[r] + out_len[r]
NewTokens(r) == Least(MaxNewTokens[r], ClipNew)
MixedTokens == IF IsMixedChunk THEN Cardinality(Merged) ELSE 0

NewAdder(reserve) ==
  [rem_total |-> avail - MixedTokens - reserve,
   cur_rem   |-> avail - MixedTokens,
   rem_input |-> MaxPrefill - MixedTokens,
   rem_chunk |-> ChunkSize - MixedTokens,
   can_run   |-> {},
   len       |-> [r \in Req |-> 0],     \* len(fill_ids) after this round
   chunked   |-> NoReq,
   full      |-> FALSE,
   stop      |-> FALSE]

(* _prefill_one_req *)
PrefillOne(a, r, fill, ext, new) ==
  [a EXCEPT !.can_run = @ \cup {r}, !.len[r] = fill,
            !.rem_total = @ - ext - new, !.cur_rem = @ - ext,
            !.rem_input = @ - ext, !.rem_chunk = @ - ext]

(* add_chunked_req: no memory test *)
AddChunked(a, r) ==
  LET ext == Least(SeqLen(r) - kv[r], a.rem_chunk)
      more == SeqLen(r) - kv[r] > a.rem_chunk
  IN  [PrefillOne(a, r, kv[r] + ext, ext, IF more THEN 0 ELSE NewTokens(r))
         EXCEPT !.chunked = IF more THEN r ELSE NoReq]

(* budget_state *)
Budget(a) ==
  LET no_token == a.rem_total <= 0 \/ a.cur_rem <= 0
  IN  [a EXCEPT !.full = no_token,
                !.stop = no_token \/ a.rem_input <= 0 \/ a.rem_chunk <= 0]

(* One round of the loop of get_new_batch_prefill, with add_one_req. *)
AddOne(a, r) ==
  LET ext == SeqLen(r)
  IN  IF \/ Cardinality(a.can_run) >= MaxReqs - Cardinality(Merged)
         \/ ext + NewTokens(r) >= a.rem_total
      THEN [a EXCEPT !.full = TRUE, !.stop = TRUE]
      ELSE IF \/ ext > a.rem_input /\ a.can_run # {}
              \/ ext > a.rem_chunk /\ a.rem_chunk <= 0
      THEN [a EXCEPT !.stop = TRUE]
      ELSE IF ext <= a.rem_chunk
      THEN Budget(PrefillOne(a, r, ext, ext, NewTokens(r)))
      ELSE Budget([PrefillOne(a, r, a.rem_chunk, a.rem_chunk, 0) EXCEPT !.chunked = r])

(* get_new_batch_prefill is not entered when nothing may be added *)
PrefillAllowed == \/ chunked_req # NoReq
                  \/ /\ ~FullAfterMerge /\ waiting_queue # << >>
                     /\ Cardinality(Merged) < MaxReqs

FirstAdder(reserve) ==
  IF chunked_req # NoReq THEN AddChunked(NewAdder(reserve), chunked_req) ELSE NewAdder(reserve)

Adder(reserve) ==
  LET upto[i \in 0..Len(waiting_queue)] ==
        IF i = 0 THEN FirstAdder(reserve)
        ELSE IF upto[i - 1].stop THEN upto[i - 1]
        ELSE AddOne(upto[i - 1], waiting_queue[i])
  IN  IF PrefillAllowed THEN upto[Len(waiting_queue)] ELSE NewAdder(reserve)

(* batch_is_full as get_new_batch_prefill leaves it *)
FullAfterPrefill(a) ==
  \/ FullAfterMerge
  \/ chunked_req = NoReq /\ waiting_queue # << >> /\ Cardinality(Merged) >= MaxReqs
  \/ a.full

(* new_token_ratio moves between its minimum and 1; the product is rounded *)
(* down, which decides the comparisons of integers with it.                *)
Reserves == 0..SumOver([r \in Req |-> Least(MaxNewTokens[r] - out_len[r], ClipNew)], Merged)

---------------------------------------------------------------------------
Crash(why) ==
  /\ crashed' = why
  /\ UNCHANGED <<config, client, updating, controls, inbox, pc>> /\ UNCHANGED queueVars
  /\ UNCHANGED batchVars /\ UNCHANGED memVars /\ UNCHANGED reqVars

(* A result is queued for an iteration that ran nothing (mutation). *)
QueueAlways(b) ==
  /\ cur_batch' = b
  /\ result_queue' = IF EnableOverlap THEN Append(result_queue, b) ELSE result_queue
  /\ pc' = "result"
  /\ UNCHANGED last_batch

(* run_batch, and result_queue.append in the overlap loop *)
RunBatch(b) ==
  /\ cur_batch' = b
  /\ result_queue' = IF EnableOverlap /\ b # NoBatch THEN Append(result_queue, b) ELSE result_queue
  /\ pc' = "result"
  /\ UNCHANGED last_batch

(* A prefill batch: prepare_for_extend allocates rows and tokens; a mixed  *)
(* batch also carries one decode token of every running request.           *)
SchedulePrefill(a) ==
  LET mix  == IF IsMixedChunk THEN Unfinished(Merged) ELSE {}
      need == SumOver([r \in Req |-> a.len[r] - kv[r]], a.can_run)
  IN  /\ a.can_run # {}
      /\ IF \/ Cardinality(a.can_run) > SlotsAfterMerge
            \/ need + Cardinality(mix) > avail
         THEN Crash("out of memory")
         ELSE /\ waiting_queue' = Without(waiting_queue, a.can_run)
              /\ chunked_req' = a.chunked
              /\ is_chunked' = [r \in Req |-> IF r = a.chunked THEN is_chunked[r] + 1
                                                               ELSE is_chunked[r]]
              /\ is_retracted' = [r \in Req |-> is_retracted[r] /\ r \notin a.can_run]
              /\ avail' = avail - need - Cardinality(mix)
              /\ slots' = SlotsAfterMerge - Cardinality(a.can_run)
              /\ kv' = [r \in Req |-> IF r \in a.can_run THEN a.len[r]
                                      ELSE IF r \in mix THEN kv[r] + 1 ELSE kv[r]]
              /\ running_batch' = IF IsMixedChunk THEN {} ELSE Merged
              /\ batch_is_full' = FullAfterPrefill(a)
              /\ RunBatch([mode |-> "extend", reqs |-> a.can_run \cup mix, chunked |-> a.chunked])
              /\ UNCHANGED <<config, client, updating, controls, inbox, crashed, delayed, in_len,
                             out_len, finished, to_abort, answered>>

(* retract_decode sorts by (len(output_ids), -len(origin_input_ids)) and   *)
(* pops the smallest                                                       *)
GivenUpBefore(x, y) == \/ out_len[x] < out_len[y]
                       \/ out_len[x] = out_len[y] /\ in_len[x] > in_len[y]

Regained(R) == avail + SumOver(kv, R)

(* the sets retract_decode can retract from batch B *)
Retractions(B) ==
  IF Cardinality(B) = 1 THEN {{}}
  ELSE {R \in SUBSET B :
          /\ R # {} /\ R # B
          /\ \A x \in R, y \in B \ R : ~GivenUpBefore(y, x)
          /\ Regained(R) >= RetractSteps * Cardinality(B \ R) \/ Cardinality(B \ R) = 1
          /\ \E x \in R : /\ \A y \in R : ~GivenUpBefore(x, y)
                          /\ \/ R = {x}
                             \/ Regained(R \ {x}) < RetractSteps * (Cardinality(B \ R) + 1)}

(* check_decode_mem finds room for every batch (mutation). *)
DecodeAlwaysFits(B) == TRUE

(* check_decode_mem: one token for every request of the batch *)
DecodeFits(B) == avail >= Cardinality(B)

(* The retracted requests are not queued again (mutation). *)
Forgotten(R) == {<< >>}

(* _extend_requests_to_queue: the orders in which the loop retracts R *)
RetractOrders(R) ==
  {s \in [1..Cardinality(R) -> R] :
     \A i, j \in DOMAIN s : i < j => s[i] # s[j] /\ ~GivenUpBefore(s[j], s[i])}

(* update_running_batch: check_decode_mem, retract_decode if it fails,     *)
(* prepare_for_decode.                                                     *)
ScheduleDecode(a) ==
  LET B == Unfinished(Merged)
  IN  /\ a.can_run = {} /\ B # {}
      /\ \E R \in IF DecodeFits(B) THEN {{}} ELSE Retractions(B) :
           LET stay == B \ R
           IN  IF Regained(R) < Cardinality(stay)
               THEN Crash("out of memory")
               ELSE /\ running_batch' = stay
                    /\ batch_is_full' = (FullAfterPrefill(a) /\ stay = Merged)
                    /\ \E order \in RetractOrders(R) : waiting_queue' = waiting_queue \o order
                    /\ avail' = Regained(R) - Cardinality(stay)
                    /\ slots' = slots + Cardinality(R)
                    /\ kv' = [r \in Req |-> IF r \in R THEN 0
                                            ELSE IF r \in stay THEN kv[r] + 1 ELSE kv[r]]
                    /\ is_retracted' = [r \in Req |-> is_retracted[r] \/ r \in R]
                    /\ is_chunked' = [r \in Req |-> IF r \in R THEN 0 ELSE is_chunked[r]]
                    /\ RunBatch([mode |-> "decode", reqs |-> stay, chunked |-> NoReq])
                    /\ UNCHANGED <<config, client, updating, controls, inbox, crashed, chunked_req,
                                   delayed, in_len, out_len, finished, to_abort, answered>>

(* Nothing to run.  check_memory is called unless a result is outstanding. *)
ScheduleNothing(a) ==
  /\ a.can_run = {} /\ Unfinished(Merged) = {}
  /\ IF /\ EnableOverlap => last_batch = NoBatch
        /\ avail # MaxTotalTokens \/ slots # MaxReqs
     THEN Crash("memory leak")
     ELSE /\ running_batch' = {}
          /\ batch_is_full' = (FullAfterPrefill(a) /\ Merged = {})
          /\ RunBatch(NoBatch)
          /\ UNCHANGED <<config, client, updating, controls, inbox, crashed, waiting_queue, chunked_req>>
          /\ UNCHANGED memVars /\ UNCHANGED reqVars

---------------------------------------------------------------------------
(* No batch looks for a request that finished meanwhile (mutation). *)
LateNever(b) == {}

(* The requests of b that finished after b was launched: only the token    *)
(* slot that b took for them is freed.                                     *)
Late(b) ==
  {r \in b.reqs : /\ ~is_retracted[r] /\ finished[r] /\ EnableOverlap
                  /\ b.mode = "decode" \/ IsMixedChunk}

(* The whole row is cached, the slot of the forward in flight too          *)
(* (mutation).                                                             *)
CachedRow(r) == kv[r]

(* cache_finished_req: what it caches becomes evictable.  The last token of*)
(* a request has no KV entry.                                              *)
CachedLen(r) == SeqLen(r)

(* process_batch_result_prefill and process_batch_result_decode for batch  *)
(* b; eos are the requests whose new token ends them.                      *)
Process(b, eos) ==
  LET live   == {r \in b.reqs : ~is_retracted[r]}
      late   == Late(b)
      chunk  == {r \in live \ late : b.mode = "extend" /\ is_chunked[r] > 0}
      step   == live \ (late \cup chunk)
      ending == {r \in step : finished[r] \/ to_abort[r] \/ out_len[r] + 1 >= MaxNewTokens[r]
                              \/ r \in eos}
  IN  /\ eos \subseteq step
      /\ is_chunked' = [r \in Req |-> IF r \in chunk THEN is_chunked[r] - 1 ELSE is_chunked[r]]
      /\ out_len' = [r \in Req |-> IF r \in step THEN out_len[r] + 1 ELSE out_len[r]]
      /\ finished' = [r \in Req |-> finished[r] \/ r \in ending]
      /\ avail' = avail + Cardinality(late) + SumOver([r \in Req |-> CachedLen(r)], ending)
      /\ slots' = slots + Cardinality(ending)
      /\ kv' = [r \in Req |-> IF r \in ending THEN 0 ELSE kv[r]]
      /\ delayed' = [r \in Req |-> IF r \in ending THEN kv[r] - SeqLen(r)
                                   ELSE IF r \in late THEN delayed[r] - 1 ELSE delayed[r]]
      /\ answered' = answered \cup ending
      /\ UNCHANGED <<in_len, to_abort, is_retracted>>

ProcessResult ==
  /\ pc = "result" /\ crashed = "no"
  /\ IF EnableOverlap
     THEN IF last_batch = NoBatch
          THEN UNCHANGED result_queue /\ UNCHANGED reqVars /\ UNCHANGED memVars
          ELSE /\ \E eos \in SUBSET Head(result_queue).reqs : Process(Head(result_queue), eos)
               /\ result_queue' = Tail(result_queue)
     ELSE /\ \E eos \in SUBSET cur_batch.reqs : Process(cur_batch, eos)
          /\ UNCHANGED result_queue
  /\ last_batch' = cur_batch
  /\ pc' = "recv"
  /\ UNCHANGED <<config, client, updating, controls, inbox, crashed, cur_batch>> /\ UNCHANGED queueVars

---------------------------------------------------------------------------
Schedule ==
  /\ pc = "recv" /\ crashed = "no"
  /\ \E reserve \in Reserves :
       LET a == Adder(reserve)
       IN  SchedulePrefill(a) \/ ScheduleDecode(a) \/ ScheduleNothing(a)

Environment == \/ \E r \in Req : SendGenerate(r) \/ Disconnect(r)
               \/ SendFlush \/ SendUpdate

Next == \/ Environment
        \/ \E r \in Req : ReceiveOutput(r)
        \/ Receive \/ Schedule \/ ProcessResult

(* The loop never blocks: recv_requests drains the socket, and the forward *)
(* of a batch returns (the watchdog ends the process otherwise).  The      *)
(* tokenizer manager reads its socket.  Nobody has to send anything.       *)
Fairness == /\ SF_vars(Receive)
            /\ WF_vars(Schedule) /\ WF_vars(ProcessResult)
            /\ \A r \in Req : WF_vars(ReceiveOutput(r))

Spec == Init /\ [][Next]_vars /\ Fairness

---------------------------------------------------------------------------
(* Properties                                                              *)

BatchType == [mode : {"none", "extend", "decode"}, reqs : SUBSET Req, chunked : Req \cup {NoReq}]

(* Type invariant: the pools never count below zero or above their size.   *)
TypeOK ==
  /\ config \in Configs
  /\ client \in [Req -> {"new", "open", "closed"}] /\ updating \in BOOLEAN
  /\ inbox \in Seq([type : {"generate", "abort", "flush", "update"}, req : Req \cup {NoReq}])
  /\ pc \in {"recv", "result"}
  /\ crashed \in {"no", "flush", "out of memory", "memory leak"}
  /\ waiting_queue \in Seq(Req) /\ running_batch \subseteq Req
  /\ batch_is_full \in BOOLEAN /\ chunked_req \in Req \cup {NoReq}
  /\ cur_batch \in BatchType /\ last_batch \in BatchType /\ result_queue \in Seq(BatchType)
  /\ avail \in 0..MaxTotalTokens /\ slots \in 0..MaxReqs
  /\ kv \in [Req -> Nat] /\ delayed \in [Req -> Nat]
  /\ in_len \in [Req -> Nat] /\ out_len \in [Req -> Nat]
  /\ finished \in [Req -> BOOLEAN] /\ to_abort \in [Req -> BOOLEAN]
  /\ is_retracted \in [Req -> BOOLEAN] /\ is_chunked \in [Req -> Nat]
  /\ answered \subseteq Req

(* The scheduler process never stops itself: no allocation that was        *)
(* admitted fails, and the idle self-check (check_memory) finds no leak.   *)
(* A mixed batch may run out of memory: its decode part has no retraction. *)
(* The assertion that ends a weight update is not included: a request that *)
(* has finished stays in running_batch until the next filter_batch, so the *)
(* flush can be refused and crashed = "flush" is reachable.  It holds for  *)
(* the servers of the run, which have a row to spare where the overlap     *)
(* loop meets an invalid request (README, section 6).                      *)
NoCrash == /\ crashed # "memory leak"
           /\ crashed = "out of memory" => IsMixedChunk

(* the requests the scheduler can still reach *)
Reachable == (running_batch \cup cur_batch.reqs \cup last_batch.reqs \cup {chunked_req}) \ {NoReq}

(* Every token slot and every row is free or on the account of exactly one *)
(* request that the scheduler still reaches, through chunks, retractions,  *)
(* aborts, late results and flushes.                                       *)
MemoryBalanced ==
  /\ avail + SumOver(kv, Reachable) + SumOver(delayed, Req) = MaxTotalTokens
  /\ slots + Cardinality({r \in Reachable : kv[r] > 0}) = MaxReqs

InFlight == IF last_batch.mode = "extend" THEN last_batch.reqs ELSE {}

(* A request is in one place: one that holds memory is in running_batch,   *)
(* in the prefill batch about to be merged, or is the chunked request, and *)
(* one in the waiting queue holds nothing and is queued once               *)
(* (get_next_batch_to_run, update_running_batch, filter_batch).  A client  *)
(* that flushes the cache breaks it: see FlushOnlyWhenIdle.                *)
OnePlace ==
  pc = "recv" /\ "flush" \notin Controls =>
    /\ \A r \in Req : kv[r] > 0 => r \in running_batch \cup InFlight \cup {chunked_req}
    /\ running_batch \cap InFlight = {}
    /\ \A i, j \in DOMAIN waiting_queue :
         /\ kv[waiting_queue[i]] = 0
         /\ waiting_queue[i] = waiting_queue[j] => i = j
    /\ chunked_req # NoReq => chunked_req \in last_batch.reqs

(* The overlap loop pops a result for the batch it launched one iteration  *)
(* ago: result_queue never runs empty under popleft nor gets ahead.        *)
ResultsInStep ==
  Len(result_queue) =
    IF EnableOverlap
    THEN (IF last_batch # NoBatch THEN 1 ELSE 0)
         + (IF pc = "result" /\ cur_batch # NoBatch THEN 1 ELSE 0)
    ELSE 0

(* A request that was sent is answered, whoever was admitted, retracted or *)
(* aborted around it.                                                      *)
AllAnswered == \A r \in Req : client[r] = "open" ~> client[r] = "closed"

(* A request whose client is gone ends up holding no memory and leaves the *)
(* queue for good, wherever AbortReq found it (abort_request, to_abort).   *)
AbortedLeaves ==
  \A r \in Req : <>[](client[r] = "closed" => /\ kv[r] = 0 /\ delayed[r] = 0
                                               /\ r \notin ToSet(waiting_queue))

(* A flush that goes ahead takes no request's memory away: "When there are *)
(* running or waiting requests, the operation will not be performed".      *)
FlushOnlyWhenIdle ==
  [][Len(inbox') < Len(inbox) /\ Head(inbox).type = "flush" /\ FlushAllowed
       => \A r \in Req : kv[r] = 0 /\ delayed[r] = 0]_vars

(* While no client disconnects, the writer lock and the guard of the flush *)
(* keep the flush of a weight update away from every request that still    *)
(* holds memory, the delayed slot of a finished one included.              *)
UpdateOnlyWhenIdle ==
  [][Len(inbox') < Len(inbox) /\ Head(inbox).type = "update" /\ FlushAllowed
       /\ "abort" \notin Controls
       => \A r \in Req : kv[r] = 0 /\ delayed[r] = 0]_vars

(* An output is never streamed again once the request was answered, and no *)
(* token is appended to a finished request by a late result.               *)
NoTokenAfterFinish ==
  [][\A r \in Req : r \in answered => out_len'[r] = out_len[r] /\ r \in answered']_vars
=============================================================================
