----------------------------- MODULE MCScheduler -----------------------------
(* Finite instances of Scheduler. *)
EXTENDS Scheduler, TLC

CONSTANTS r1, r2, r3

(* The overlap loop.  r1 has a long prompt (it is chunked), the others     *)
(* short prompts and longer answers.                                       *)
Base ==
  [input_len |-> [r \in Req |-> IF r = r1 THEN 3 ELSE 1],
   max_new_tokens |-> [r \in Req |-> IF r = r1 THEN 2 ELSE 3],
   bad_req |-> {}, max_total_tokens |-> 7, max_reqs |-> 2, chunk_size |-> 2,
   max_prefill |-> 4, clip_new |-> 8, retract_steps |-> 1,
   enable_overlap |-> TRUE, is_mixed_chunk |-> FALSE,
   controls |-> {}, max_controls |-> 0]

(* an invalid request and two disconnects; a pool that forces retractions  *)
Overlap == [Base EXCEPT !.bad_req = {r3} \cap Req, !.max_reqs = 3,
                        !.controls = {"abort"}, !.max_controls = 2]

(* r1 has a longer prompt and a short answer: the others decode between    *)
(* its chunks, or in the same batch (mixed).                               *)
LongPrompt == [Base EXCEPT !.input_len = [r \in Req |-> IF r = r1 THEN 4 ELSE 1],
                           !.max_new_tokens = [r \in Req |-> IF r = r1 THEN 1 ELSE 4]]

Normal == [LongPrompt EXCEPT !.chunk_size = 4, !.enable_overlap = FALSE,
                             !.controls = {"abort", "flush"}, !.max_controls = 2]

Mixed == [LongPrompt EXCEPT !.max_total_tokens = 11, !.max_reqs = 3, !.chunk_size = 3,
                            !.is_mixed_chunk = TRUE,
                            !.controls = {"abort"}, !.max_controls = 1]

Update == [Base EXCEPT !.controls = {"update"}, !.max_controls = 2]

SafetyConfigs == {Overlap, Normal, Mixed, Update}

LivenessConfigs == {[Base EXCEPT !.controls = {"abort"}, !.max_controls = 1]}

FlushConfigs == {[Base EXCEPT !.controls = {"flush"}, !.max_controls = 1]}

MixedAbortConfigs == {[Base EXCEPT !.bad_req = {r2}, !.is_mixed_chunk = TRUE]}

(* equal requests whose answer is long for the pool *)
RetractConfigs == {[Base EXCEPT !.input_len = [r \in Req |-> 1],
                                !.max_new_tokens = [r \in Req |-> 6],
                                !.max_total_tokens = 9]}
=============================================================================
