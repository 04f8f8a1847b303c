---------------------------- MODULE OverlapWorker ----------------------------
(***************************************************************************)
(* The two threads of the overlap schedule: event_loop_overlap launches a  *)
(* batch before it has seen the tokens of the one before, and              *)
(* TpModelWorkerClient (managers/tp_worker_overlap_thread.py) runs the     *)
(* batches on a forward thread.  A token that is not known yet travels as  *)
(* a placeholder, an index into future_token_ids_map, a ring of            *)
(* 3 * max_running_requests indices; two events (launch_done and           *)
(* sampling_info_done) keep the threads in step.                           *)
(*                                                                         *)
(* Which batch comes next follows get_next_batch_to_run (chunked request   *)
(* first, then new requests, then decode) with memory that never runs      *)
(* short; module Scheduler has the memory.  A token is <<r, n>>, the n-th  *)
(* of request r; a chunk that is not the last one yields <<r, 0>>.         *)
(***************************************************************************)
EXTENDS Integers, Sequences, FiniteSets, SequencesExt

CONSTANTS
  Req, NoReq,
  Chunks,        \* [Req -> Nat]: how many chunks its prompt takes
  MaxNew,        \* [Req -> Nat]: tokens it generates
  Grammar,       \* requests with a grammar
  MaxRunning     \* max_running_requests

ASSUME OverlapAssumption ==
  /\ NoReq \notin Req /\ IsFiniteSet(Req) /\ Grammar \subseteq Req
  /\ Chunks \in [Req -> Nat \ {0}] /\ MaxNew \in [Req -> Nat \ {0}]
  /\ MaxRunning \in Nat \ {0}

(* The ring holds one batch of placeholders only (mutation). *)
LimitOneBatch == MaxRunning

Limit == 3 * MaxRunning      \* future_token_ids_limit
MapSize == 5 * MaxRunning    \* len(future_token_ids_map)

VARIABLES
  arrived,                  \* requests received so far
  \* the scheduler thread
  spc,                      \* "schedule", "get" or "process"
  waiting_queue, running_batch, chunked_req, cur_batch, last_batch, result_queue,
  left,                     \* chunks of the prompt still to launch
  launched,                 \* tokens launched, the ones in flight included
  future,                   \* output_ids of the batch: the placeholder of the last token
  output_ids,               \* how many tokens the scheduler has seen
  future_token_ids_ct,
  result,                   \* what resolve_last_batch_result took from output_queue
  \* events, as the ids of the batches they are set for
  batch_ct, launch_done, sampling_info_done,
  vocab_mask,               \* output_ids when update_regex_vocab_mask ran last
  \* the forward thread
  input_queue, output_queue, fpc, f_batch, f_input, future_token_ids_map

schedVars == <<spc, waiting_queue, running_batch, chunked_req, cur_batch, last_batch, result_queue,
               left, launched, future, output_ids, future_token_ids_ct, result, batch_ct,
               sampling_info_done, vocab_mask>>
fwdVars   == <<launch_done, fpc, f_batch, f_input, future_token_ids_map>>
vars      == <<arrived, schedVars, input_queue, output_queue, fwdVars>>

NoBatch == [id |-> 0, mode |-> "none", entries |-> << >>, ct |-> 0, chunked |-> NoReq]
ReqsOf(b) == {b.entries[i].req : i \in DOMAIN b.entries}
Finished(r) == output_ids[r] >= MaxNew[r]
NoToken == <<NoReq, 0>>

Init ==
  /\ arrived = {} /\ spc = "schedule" /\ waiting_queue = << >> /\ running_batch = {}
  /\ chunked_req = NoReq /\ cur_batch = NoBatch /\ last_batch = NoBatch /\ result_queue = << >>
  /\ left = Chunks /\ launched = [r \in Req |-> 0] /\ future = [r \in Req |-> 0]
  /\ output_ids = [r \in Req |-> 0] /\ future_token_ids_ct = 0 /\ result = << >>
  /\ batch_ct = 0 /\ launch_done = {} /\ sampling_info_done = {}
  /\ vocab_mask = [r \in Req |-> 0]
  /\ input_queue = << >> /\ output_queue = << >> /\ fpc = "get" /\ f_batch = NoBatch
  /\ f_input = << >> /\ future_token_ids_map = [i \in 0..(MapSize - 1) |-> NoToken]

Arrive(r) ==
  /\ r \notin arrived /\ arrived' = arrived \cup {r}
  /\ waiting_queue' = Append(waiting_queue, r)
  /\ UNCHANGED <<spc, running_batch, chunked_req, cur_batch, last_batch, result_queue, left,
                 launched, future, output_ids, future_token_ids_ct, result, batch_ct,
                 sampling_info_done, vocab_mask, input_queue, output_queue>>
  /\ UNCHANGED fwdVars

---------------------------------------------------------------------------
(* The scheduler thread                                                    *)

(* get_next_batch_to_run: the last prefill batch joins running_batch *)
Merged == running_batch \cup
  IF last_batch.mode = "extend"
  THEN {r \in ReqsOf(last_batch) : ~Finished(r) /\ r \notin {chunked_req, last_batch.chunked}}
  ELSE {}

(* A request that is not prefilled to the end generates no token. *)
PrefillEntry(r) == [req |-> r, n |-> IF left[r] > 1 THEN 0 ELSE launched[r] + 1, src |-> 0]

(* prepare_for_decode: input_ids are the placeholders of the last launch *)
DecodeEntry(r) == [req |-> r, n |-> launched[r] + 1, src |-> future[r]]

(* can_run_list when k waiting requests are admitted *)
CanRunList(k) ==
  (IF chunked_req = NoReq THEN << >> ELSE <<chunked_req>>) \o SubSeq(waiting_queue, 1, k)

(* How many waiting requests get_new_batch_prefill can admit: the chunked  *)
(* request runs alone unless this is its last chunk; then come waiting     *)
(* requests in order while there is room, at most the last of them cut     *)
(* into a chunk.                                                           *)
Prefills ==
  {k \in 0..Len(waiting_queue) :
     /\ k = 0 => chunked_req # NoReq
     /\ k > 0 => /\ Len(CanRunList(k)) <= MaxRunning - Cardinality(Merged)
                 /\ chunked_req # NoReq => left[chunked_req] = 1
     /\ \A i \in 1..(k - 1) : left[waiting_queue[i]] = 1}

(* The counter of placeholders does not wrap (mutation). *)
AdvanceNoWrap(ct, entries) == ct + Len(entries)

(* the next free index of the ring *)
Advance(ct, entries) == (ct + Len(entries)) % Limit

(* the dummy first batch starts the pipeline *)
DummyFirst(b) ==
  IF last_batch = NoBatch
  THEN sampling_info_done' = sampling_info_done \cup {b.id} /\ vocab_mask' = output_ids
  ELSE UNCHANGED <<sampling_info_done, vocab_mask>>

(* run_batch and forward_batch_generation *)
Launch(mode, entries, chunked) ==
  LET b == [id |-> batch_ct + 1, mode |-> mode, entries |-> entries,
            ct |-> future_token_ids_ct, chunked |-> chunked]
      slot(r) == future_token_ids_ct + (CHOOSE i \in DOMAIN entries : entries[i].req = r)
  IN  /\ batch_ct' = batch_ct + 1
      /\ cur_batch' = b /\ result_queue' = Append(result_queue, b)
      /\ input_queue' = Append(input_queue, b)
      /\ future' = [r \in Req |-> IF r \in ReqsOf(b) THEN slot(r) ELSE future[r]]
      /\ future_token_ids_ct' = Advance(future_token_ids_ct, entries)
      /\ launched' = [r \in Req |-> IF \E i \in DOMAIN entries : entries[i].req = r /\ entries[i].n > 0
                                    THEN launched[r] + 1 ELSE launched[r]]
      /\ DummyFirst(b)
      /\ spc' = IF last_batch = NoBatch THEN "schedule" ELSE "get"
      /\ last_batch' = IF last_batch = NoBatch THEN b ELSE last_batch

(* waiting_queue keeps what is not in can_run_list: no request is queued   *)
(* twice, so that is what follows the admitted ones.                       *)
SchedulePrefill ==
  /\ spc = "schedule"
  /\ \E k \in Prefills :
       LET list == CanRunList(k)
           cut  == {r \in ToSet(list) : left[r] > 1}
           c    == IF cut = {} THEN NoReq ELSE CHOOSE r \in cut : TRUE
       IN  /\ chunked_req' = c
           /\ waiting_queue' = SubSeq(waiting_queue, k + 1, Len(waiting_queue))
           /\ left' = [r \in Req |-> IF r \in cut THEN left[r] - 1 ELSE left[r]]
           /\ running_batch' = Merged
           /\ Launch("extend", [i \in DOMAIN list |-> PrefillEntry(list[i])], c)
  /\ UNCHANGED <<arrived, output_ids, result, output_queue>> /\ UNCHANGED fwdVars

ScheduleDecode ==
  LET B == {r \in Merged : ~Finished(r)}
      list == SetToSeq(B)
  IN  /\ spc = "schedule" /\ Prefills = {} /\ B # {}
      /\ running_batch' = B
      /\ Launch("decode", [i \in DOMAIN list |-> DecodeEntry(list[i])], NoReq)
      /\ UNCHANGED <<arrived, waiting_queue, chunked_req, left, output_ids, result, output_queue>>
      /\ UNCHANGED fwdVars

(* Nothing to run, but the last batch has a result to process. *)
ScheduleNothing ==
  /\ spc = "schedule" /\ Prefills = {} /\ {r \in Merged : ~Finished(r)} = {}
  /\ last_batch # NoBatch
  /\ running_batch' = {} /\ cur_batch' = NoBatch /\ spc' = "get"
  /\ UNCHANGED <<arrived, waiting_queue, chunked_req, last_batch, result_queue, left, launched,
                 future, output_ids, future_token_ids_ct, result, batch_ct, sampling_info_done,
                 vocab_mask, input_queue, output_queue>>
  /\ UNCHANGED fwdVars

(* resolve_last_batch_result: output_queue.get *)
GetResult ==
  /\ spc = "get" /\ output_queue # << >>
  /\ result' = Head(output_queue) /\ output_queue' = Tail(output_queue)
  /\ spc' = "process"
  /\ UNCHANGED <<arrived, waiting_queue, running_batch, chunked_req, cur_batch, last_batch,
                 result_queue, left, launched, future, output_ids, future_token_ids_ct, batch_ct,
                 sampling_info_done, vocab_mask, input_queue>>
  /\ UNCHANGED fwdVars

(* The newest launch is taken from the wrong end of result_queue (mutation). *)
PoppedLast == Last(result_queue)

(* result_queue.popleft *)
Popped == Head(result_queue)

(* resolve_last_batch_result: launch_done.wait of the current batch; then  *)
(* process_batch_result and set_next_batch_sampling_info_done.             *)
ProcessResult ==
  LET entries == Popped.entries
  IN  /\ spc = "process"
      /\ cur_batch # NoBatch => cur_batch.id \in launch_done
      /\ output_ids' = [r \in Req |->
           IF ~Finished(r) /\ \E i \in DOMAIN entries : entries[i].req = r /\ entries[i].n > 0
           THEN output_ids[r] + 1 ELSE output_ids[r]]
      /\ IF cur_batch = NoBatch
         THEN UNCHANGED <<sampling_info_done, vocab_mask>>
         ELSE sampling_info_done' = sampling_info_done \cup {cur_batch.id} /\ vocab_mask' = output_ids'
      /\ result_queue' = Tail(result_queue) /\ result' = << >>
      /\ last_batch' = cur_batch /\ spc' = "schedule"
      /\ UNCHANGED <<arrived, waiting_queue, running_batch, chunked_req, cur_batch, left, launched,
                     future, future_token_ids_ct, batch_ct, input_queue, output_queue>>
      /\ UNCHANGED fwdVars

---------------------------------------------------------------------------
(* The forward thread                                                      *)

(* input_queue.get and resolve_future_token_ids *)
ForwardGet ==
  /\ fpc = "get" /\ input_queue # << >>
  /\ input_queue' = Tail(input_queue) /\ f_batch' = Head(input_queue)
  /\ LET e == Head(input_queue).entries
     IN  f_input' = [i \in DOMAIN e |-> IF e[i].src = 0 THEN NoToken
                                        ELSE future_token_ids_map[e[i].src]]
  /\ fpc' = "forward"
  /\ UNCHANGED <<arrived, output_queue, launch_done, future_token_ids_map>> /\ UNCHANGED schedVars

(* launch_done is set after the sampling (mutation). *)
LaunchDoneLate == UNCHANGED launch_done

LaunchDone == launch_done' = launch_done \cup {f_batch.id}

(* the forward pass is launched *)
Forward ==
  /\ fpc = "forward" /\ LaunchDone /\ fpc' = "sample"
  /\ UNCHANGED <<arrived, input_queue, output_queue, f_batch, f_input, future_token_ids_map>>
  /\ UNCHANGED schedVars

(* The sampler does not wait for the grammar masks (mutation). *)
MaskNotAwaited == TRUE

(* _preprocess_logits *)
MaskReady == ReqsOf(f_batch) \cap Grammar # {} => f_batch.id \in sampling_info_done

(* sample, the write to future_token_ids_map and output_queue.put *)
Sample ==
  LET tokens == [i \in DOMAIN f_batch.entries |-> <<f_batch.entries[i].req, f_batch.entries[i].n>>]
  IN  /\ fpc = "sample" /\ MaskReady
      /\ future_token_ids_map' =
           [i \in DOMAIN future_token_ids_map |->
              IF i - f_batch.ct \in DOMAIN tokens THEN tokens[i - f_batch.ct]
                                                  ELSE future_token_ids_map[i]]
      /\ output_queue' = Append(output_queue, tokens)
      /\ launch_done' = launch_done \cup {f_batch.id}
      /\ fpc' = "get"
      /\ UNCHANGED <<arrived, input_queue, f_batch, f_input>> /\ UNCHANGED schedVars

---------------------------------------------------------------------------
SchedulerThread == SchedulePrefill \/ ScheduleDecode \/ ScheduleNothing \/ GetResult \/ ProcessResult
ForwardThread == ForwardGet \/ Forward \/ Sample

Next == (\E r \in Req : Arrive(r)) \/ SchedulerThread \/ ForwardThread

(* Both threads run for ever and the GPU finishes what it is given. *)
Fairness == WF_vars(SchedulerThread) /\ WF_vars(ForwardThread)

Spec == Init /\ [][Next]_vars /\ Fairness

---------------------------------------------------------------------------
(* Properties                                                              *)

BatchType == [id : Nat, mode : {"none", "extend", "decode"}, ct : 0..(Limit - 1),
              chunked : Req \cup {NoReq},
              entries : Seq([req : Req, n : Nat, src : 0..(MapSize - 1)])]

(* Type invariant: what a batch writes lies inside future_token_ids_map.   *)
TypeOK ==
  /\ arrived \subseteq Req /\ spc \in {"schedule", "get", "process"}
  /\ fpc \in {"get", "forward", "sample"}
  /\ waiting_queue \in Seq(Req) /\ running_batch \subseteq Req /\ chunked_req \in Req \cup {NoReq}
  /\ {cur_batch, last_batch, f_batch} \subseteq BatchType
  /\ result_queue \in Seq(BatchType) /\ input_queue \in Seq(BatchType)
  /\ \A b \in {cur_batch, f_batch} : b.ct + Len(b.entries) < MapSize
  /\ left \in [Req -> Nat] /\ launched \in [Req -> Nat] /\ output_ids \in [Req -> Nat]
  /\ future \in [Req -> 0..(MapSize - 1)] /\ future_token_ids_ct \in 0..(Limit - 1)

(* Every placeholder is resolved to the token it stands for: the previous  *)
(* token of the same request, however many batches ran in between          *)
(* (resolve_future_token_ids, future_token_ids_limit).                     *)
FuturesResolved ==
  \A i \in DOMAIN f_input :
    f_batch.entries[i].src # 0 =>
      f_input[i] = <<f_batch.entries[i].req, f_batch.entries[i].n - 1>>

(* The grammar mask with which a token is sampled knows every earlier      *)
(* token of its request, although the batch was launched before they were  *)
(* seen (sampling_info_done).                                              *)
MaskCurrent ==
  fpc = "sample" /\ MaskReady =>
    \A i \in DOMAIN f_batch.entries :
      LET e == f_batch.entries[i]
      IN  e.req \in Grammar /\ e.n > 0 => vocab_mask[e.req] = e.n - 1

(* The result taken from output_queue belongs to the batch at the head of  *)
(* result_queue, so every token reaches its own request.                   *)
ResultMatches ==
  spc = "process" =>
    /\ Len(result) = Len(Popped.entries)
    /\ \A i \in DOMAIN result : LET e == Popped.entries[i]
                                IN  result[i] = <<e.req, e.n>>

(* Every request gets all its tokens: the threads never wait for each      *)
(* other in a circle (launch_done, sampling_info_done, the two queues).    *)
AllGenerated == \A r \in Req : r \in arrived ~> Finished(r)
=============================================================================
