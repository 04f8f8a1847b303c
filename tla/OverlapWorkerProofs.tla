------------------------- MODULE OverlapWorkerProofs -------------------------
(***************************************************************************)
(* Proofs about OverlapWorker for every set of requests, every prompt and  *)
(* answer length and every max_running_requests: the type invariant, with  *)
(* the bound on the ring of placeholders it contains, ResultMatches and    *)
(* MaskCurrent; and FuturesResolved when the prompts are short.            *)
(*                                                                         *)
(* The invariant says where every launched batch is.  The scheduler has at *)
(* most two batches in flight, the last one and the current one (Shape);   *)
(* the batches of result_queue are, in this order, those whose result the  *)
(* scheduler holds, those in output_queue, the one the forward thread      *)
(* works on and those in input_queue (Aligned).  Counts says which token   *)
(* each entry of the two batches stands for: the next one of its request   *)
(* after what the scheduler has seen, or the one after that.  Places keeps *)
(* a request that has generated nothing apart from those that decode, and  *)
(* Room bounds the requests in the machine by max_running_requests.        *)
(*                                                                         *)
(* The last part adds RInv, about the ring: where a placeholder lies       *)
(* relative to the counter and how many can be handed out before the next  *)
(* decode batch (Apart), and what the map will hold once the batches in    *)
(* flight are sampled (Contents).                                          *)
(***************************************************************************)
EXTENDS OverlapWorker, FiniteSetTheorems, SequenceTheorems, TLAPS

EntryType == [req : Req, n : Nat, src : 0..(MapSize - 1)]
TokenType == Req \X Nat

(* What Sample puts into output_queue for a batch. *)
Tokens(b) == [i \in DOMAIN b.entries |-> <<b.entries[i].req, b.entries[i].n>>]

(* Whether batch b generates a token of r, as a number. *)
Generates(b, r) == \E i \in DOMAIN b.entries : b.entries[i].req = r /\ b.entries[i].n > 0
Gen(b, r) == IF Generates(b, r) THEN 1 ELSE 0

(* The batch launched last, and the one launched over the last batch. *)
Newest == IF spc = "schedule" THEN last_batch ELSE cur_batch
Ahead  == IF spc = "schedule" THEN NoBatch ELSE cur_batch

Fits(b) == b.ct + Len(b.entries) < MapSize

PlaceTypes ==
  /\ arrived \subseteq Req /\ waiting_queue \in Seq(Req) /\ running_batch \subseteq Req
  /\ chunked_req \in Req \cup {NoReq} /\ left \in [Req -> Nat]

PipeTypes ==
  /\ spc \in {"schedule", "get", "process"} /\ fpc \in {"get", "forward", "sample"}
  /\ cur_batch \in BatchType /\ last_batch \in BatchType /\ f_batch \in BatchType
  /\ Fits(cur_batch) /\ Fits(f_batch)
  /\ result_queue \in Seq(BatchType) /\ input_queue \in Seq(BatchType)
  /\ \A i \in 1..Len(input_queue) : Fits(input_queue[i])
  /\ output_queue \in Seq(Seq(TokenType)) /\ result \in Seq(TokenType)
  /\ launched \in [Req -> Nat] /\ output_ids \in [Req -> Nat] /\ vocab_mask \in [Req -> Nat]
  /\ future \in [Req -> 0..(MapSize - 1)] /\ future_token_ids_ct \in 0..(Limit - 1)
  /\ batch_ct \in Nat /\ sampling_info_done \subseteq 0..batch_ct /\ cur_batch.id <= batch_ct

InFlight(b) == IF b = NoBatch THEN 0 ELSE 1

Shape ==
  /\ Len(result_queue) = InFlight(last_batch) + InFlight(Ahead)
  /\ last_batch # NoBatch => result_queue[1] = last_batch
  /\ Ahead # NoBatch => result_queue[2] = Ahead
  /\ spc # "schedule" => last_batch # NoBatch

Taken == IF spc = "process" THEN 1 ELSE 0
Busy  == IF fpc = "get" THEN 0 ELSE 1

Aligned ==
  /\ Len(result_queue) = Taken + Len(output_queue) + Busy + Len(input_queue)
  /\ spc = "process" => result = Tokens(result_queue[1])
  /\ \A i \in 1..Len(output_queue) : output_queue[i] = Tokens(result_queue[Taken + i])
  /\ fpc # "get" => f_batch = result_queue[Taken + Len(output_queue) + 1]
  /\ \A i \in 1..Len(input_queue) :
       input_queue[i] = result_queue[Taken + Len(output_queue) + Busy + i]

Masks ==
  /\ last_batch # NoBatch => vocab_mask = output_ids
  /\ spc # "schedule" /\ cur_batch # NoBatch => cur_batch.id \notin sampling_info_done

Counts ==
  /\ \A r \in Req : ~Finished(r) =>
       launched[r] = output_ids[r] + Gen(last_batch, r) + Gen(Ahead, r)
  /\ \A i \in DOMAIN last_batch.entries :
       LET e == last_batch.entries[i] IN e.n > 0 => e.n = output_ids[e.req] + 1
  /\ \A i \in DOMAIN Ahead.entries :
       LET e == Ahead.entries[i]
       IN  e.n > 0 => ~Finished(e.req) /\ e.n = output_ids[e.req] + Gen(last_batch, e.req) + 1

(* A request that no batch has finished the prompt of. *)
Fresh(r) == r \notin arrived \/ r \in ToSet(waiting_queue) \/ r = chunked_req

Places ==
  /\ \A i, j \in 1..Len(waiting_queue) : waiting_queue[i] = waiting_queue[j] => i = j
  /\ ToSet(waiting_queue) \subseteq arrived /\ chunked_req \in arrived \cup {NoReq}
  /\ chunked_req \notin ToSet(waiting_queue) /\ chunked_req \notin running_batch
  /\ running_batch \cup ReqsOf(Newest) \subseteq arrived \ ToSet(waiting_queue)
  /\ \A r \in Req : Fresh(r) => launched[r] = 0 /\ output_ids[r] = 0

Occupied == running_batch \cup ReqsOf(Newest) \cup ({chunked_req} \ {NoReq})
Room == IsFiniteSet(Occupied) /\ Cardinality(Occupied) <= MaxRunning

IInv == PlaceTypes /\ PipeTypes /\ Shape /\ Aligned /\ Masks /\ Counts /\ Places /\ Room

---------------------------------------------------------------------------
(* Operators                                                               *)

(* The sizes of the ring and of its array. *)
LEMMA RingSizes ==
  /\ Limit \in Nat /\ MapSize \in Nat /\ Limit > 0 /\ MaxRunning \in Nat /\ MaxRunning > 0
  /\ \A ct \in 0..(Limit - 1), n \in 0..MaxRunning : ct + n < MapSize
BY OverlapAssumption DEF Limit, MapSize

(* The counter of placeholders stays inside the ring. *)
LEMMA AdvanceInRing ==
  ASSUME NEW ct \in 0..(Limit - 1), NEW e, Len(e) \in Nat
  PROVE  Advance(ct, e) \in 0..(Limit - 1)
<1>1. Limit \in Nat /\ Limit > 0
  BY RingSizes
<1>2. ct + Len(e) \in Nat
  BY <1>1
<1> QED BY <1>1, <1>2, SMT DEF Advance

(* NoBatch is a batch, and an empty one. *)
LEMMA NoBatchType ==
  /\ NoBatch \in BatchType /\ Fits(NoBatch) /\ NoBatch.id = 0 /\ NoBatch.entries = << >>
  /\ ReqsOf(NoBatch) = {} /\ DOMAIN NoBatch.entries = {}
<1>1. NoBatch.entries = << >> /\ NoBatch.id = 0 /\ NoBatch.ct = 0
  BY DEF NoBatch
<1>2. << >> \in Seq(EntryType) /\ Len(<< >>) = 0 /\ DOMAIN << >> = {}
  OBVIOUS
<1>3. 0 \in 0..(Limit - 1) /\ 0 < MapSize
  BY OverlapAssumption DEF Limit, MapSize
<1>4. NoBatch \in BatchType
  BY <1>2, <1>3 DEF NoBatch, BatchType, EntryType
<1> QED BY <1>1, <1>2, <1>3, <1>4 DEF Fits, ReqsOf

(* The fields of a batch. *)
LEMMA BatchFields ==
  ASSUME NEW b \in BatchType
  PROVE  /\ b.id \in Nat /\ b.ct \in 0..(Limit - 1) /\ b.entries \in Seq(EntryType)
         /\ Len(b.entries) \in Nat /\ DOMAIN b.entries = 1..Len(b.entries)
         /\ \A i \in DOMAIN b.entries : b.entries[i].req \in Req /\ b.entries[i].n \in Nat
         /\ ReqsOf(b) \subseteq Req
<1>1. b.id \in Nat /\ b.ct \in 0..(Limit - 1) /\ b.entries \in Seq(EntryType)
  BY DEF BatchType, EntryType
<1>2. /\ DOMAIN b.entries = 1..Len(b.entries) /\ Len(b.entries) \in Nat
      /\ \A i \in DOMAIN b.entries : b.entries[i] \in EntryType
  BY <1>1, ElementOfSeq, LenProperties
<1>3. \A e \in EntryType : e.req \in Req /\ e.n \in Nat
  BY DEF EntryType
<1> QED BY <1>1, <1>2, <1>3 DEF ReqsOf

(* Gen is a number, and 0 for the empty batch. *)
LEMMA GenType == \A b, r : Gen(b, r) \in {0, 1} /\ Gen(NoBatch, r) = 0
BY NoBatchType DEF Gen, Generates

(* SetToSeq lists a finite set. *)
LEMMA SetToSeqLists ==
  ASSUME NEW S, IsFiniteSet(S)
  PROVE  /\ SetToSeq(S) \in Seq(S) /\ Len(SetToSeq(S)) = Cardinality(S)
         /\ DOMAIN SetToSeq(S) = 1..Cardinality(S)
<1>1. Cardinality(S) \in Nat /\ \E f \in [1..Cardinality(S) -> S] : IsInjective(f)
  <2>1. Cardinality(S) \in Nat /\ ExistsBijection(1..Cardinality(S), S)
    BY FS_CardinalityType
  <2>2. PICK f \in Bijection(1..Cardinality(S), S) : TRUE
    BY <2>1 DEF ExistsBijection
  <2>3. f \in [1..Cardinality(S) -> S] /\ IsInjective(f)
    BY <2>2 DEF Bijection, Injection, IsInjective
  <2> QED BY <2>1, <2>3
<1>2. SetToSeq(S) \in [1..Cardinality(S) -> S]
  BY <1>1 DEF SetToSeq
<1> QED BY <1>1, <1>2

---------------------------------------------------------------------------
(* The forward thread                                                      *)

(* A step of the forward thread leaves the scheduler's part alone. *)
LEMMA ForwardKeeps ==
  ASSUME IInv, UNCHANGED <<arrived, schedVars>>
  PROVE  PlaceTypes' /\ Shape' /\ Masks' /\ Counts' /\ Places' /\ Room'
<1> USE DEF IInv, schedVars
<1>1. PlaceTypes'
  BY DEF PlaceTypes
<1>2. Shape'
  BY DEF Shape, Ahead, InFlight
<1>3. Masks'
  BY DEF Masks
<1>4. Counts'
  BY DEF Counts, Ahead, Finished, Gen, Generates
<1>5. Places'
  BY DEF Places, Fresh, Newest, ReqsOf
<1>6. Room'
  BY DEF Room, Occupied, Newest, ReqsOf
<1> QED BY <1>1, <1>2, <1>3, <1>4, <1>5, <1>6

(* input_queue.get: the batch moves from the queue to the thread. *)
LEMMA ForwardGetInv == ASSUME IInv, ForwardGet PROVE IInv'
<1>1. input_queue \in Seq(BatchType) /\ input_queue # << >> /\ Len(input_queue) >= 1
      /\ Head(input_queue) = input_queue[1] /\ Head(input_queue) \in BatchType
      /\ Tail(input_queue) \in Seq(BatchType) /\ Len(Tail(input_queue)) = Len(input_queue) - 1
      /\ \A i \in 1..Len(Tail(input_queue)) : Tail(input_queue)[i] = input_queue[i + 1]
  BY HeadTailProperties DEF ForwardGet, IInv, PipeTypes
<1>2. PipeTypes'
  <2>1. Fits(f_batch')
    BY <1>1 DEF ForwardGet, IInv, PipeTypes
  <2>2. \A i \in 1..Len(input_queue') : Fits(input_queue'[i])
    BY <1>1 DEF ForwardGet, IInv, PipeTypes
  <2> QED BY <1>1, <2>1, <2>2 DEF ForwardGet, IInv, PipeTypes, schedVars, Fits
<1>3. Aligned'
  <2>1. /\ fpc = "get" /\ fpc' = "forward" /\ Busy = 0 /\ Busy' = 1 /\ Taken' = Taken
        /\ UNCHANGED <<spc, result_queue, result, output_queue>>
        /\ f_batch' = input_queue[1] /\ input_queue' = Tail(input_queue)
    BY <1>1 DEF ForwardGet, Busy, Taken, schedVars
  <2>2. Aligned
    BY DEF IInv
  <2>3. Taken \in {0, 1} /\ Len(output_queue) \in Nat
    BY DEF Taken, IInv, PipeTypes
  <2>4. Len(result_queue') = Taken' + Len(output_queue') + Busy' + Len(input_queue')
    BY <1>1, <2>1, <2>2, <2>3 DEF Aligned
  <2>5. f_batch' = result_queue'[Taken' + Len(output_queue') + 1]
    <3>1. input_queue[1] = result_queue[Taken + Len(output_queue) + Busy + 1]
      BY <1>1, <2>2 DEF Aligned
    <3>2. Taken + Len(output_queue) + Busy + 1 = Taken + Len(output_queue) + 1
      BY <2>1, <2>3
    <3> QED BY <2>1, <3>1, <3>2
  <2>6. ASSUME NEW i \in 1..Len(input_queue')
        PROVE  input_queue'[i] = result_queue'[Taken' + Len(output_queue') + Busy' + i]
    <3>1. i + 1 \in 1..Len(input_queue) /\ input_queue'[i] = input_queue[i + 1]
      BY <1>1, <2>1
    <3>2. input_queue[i + 1] = result_queue[Taken + Len(output_queue) + Busy + (i + 1)]
      BY <2>2, <3>1 DEF Aligned
    <3>3. Taken + Len(output_queue) + Busy + (i + 1) = Taken' + Len(output_queue') + Busy' + i
      BY <2>1, <2>3
    <3> QED BY <2>1, <3>1, <3>2, <3>3
  <2> QED BY <2>1, <2>2, <2>4, <2>5, <2>6 DEF Aligned, Tokens
<1> QED BY <1>2, <1>3, ForwardKeeps DEF ForwardGet, IInv, schedVars

(* The pass is launched: only launch_done is set. *)
LEMMA ForwardInv == ASSUME IInv, Forward PROVE IInv'
<1>1. PipeTypes'
  BY DEF Forward, IInv, PipeTypes, schedVars, Fits
<1>2. Aligned'
  <2>1. Busy' = Busy /\ Taken' = Taken /\ fpc # "get" /\ fpc' # "get"
    BY DEF Forward, schedVars, Busy, Taken
  <2> QED BY <2>1 DEF Forward, IInv, Aligned, schedVars, Tokens
<1> QED BY <1>1, <1>2, ForwardKeeps DEF Forward, IInv, schedVars

(* Sample: the tokens of the batch follow those already in output_queue. *)
LEMMA SampleInv == ASSUME IInv, Sample PROVE IInv'
<1>1. /\ fpc = "sample" /\ fpc' = "get" /\ Busy = 1 /\ Busy' = 0 /\ Taken' = Taken
      /\ UNCHANGED <<spc, result_queue, result, input_queue, f_batch>>
      /\ output_queue' = Append(output_queue, Tokens(f_batch))
  BY DEF Sample, Busy, Taken, schedVars, Tokens
<1>2. Tokens(f_batch) \in Seq(TokenType)
  <2>1. f_batch \in BatchType
    BY DEF IInv, PipeTypes
  <2>2. \A i \in 1..Len(f_batch.entries) :
          <<f_batch.entries[i].req, f_batch.entries[i].n>> \in TokenType
    BY <2>1, BatchFields DEF TokenType
  <2> QED BY <2>1, <2>2, BatchFields DEF Tokens
<1>3. /\ output_queue \in Seq(Seq(TokenType)) /\ output_queue' \in Seq(Seq(TokenType))
      /\ Len(output_queue) \in Nat /\ Len(output_queue') = Len(output_queue) + 1
      /\ \A i \in 1..Len(output_queue) : output_queue'[i] = output_queue[i]
      /\ output_queue'[Len(output_queue) + 1] = Tokens(f_batch)
  BY <1>1, <1>2, AppendProperties DEF IInv, PipeTypes
<1>4. PipeTypes'
  BY <1>3 DEF Sample, IInv, PipeTypes, schedVars, Fits
<1>5. Aligned'
  <2>1. Aligned /\ Taken \in {0, 1} /\ Len(input_queue) \in Nat
    BY DEF IInv, Taken, PipeTypes
  <2>2. Len(result_queue') = Taken' + Len(output_queue') + Busy' + Len(input_queue')
    BY <1>1, <1>3, <2>1 DEF Aligned
  <2>3. ASSUME NEW i \in 1..Len(output_queue')
        PROVE  output_queue'[i] = Tokens(result_queue[Taken + i])
    <3>1. CASE i \in 1..Len(output_queue)
      BY <1>3, <2>1, <3>1 DEF Aligned
    <3>2. CASE i = Len(output_queue) + 1
      <4>1. f_batch = result_queue[Taken + Len(output_queue) + 1]
        BY <1>1, <2>1 DEF Aligned
      <4>2. Taken + Len(output_queue) + 1 = Taken + i
        BY <1>3, <2>1, <3>2
      <4> QED BY <1>3, <3>2, <4>1, <4>2
    <3> QED BY <1>3, <3>1, <3>2
  <2>4. ASSUME NEW i \in 1..Len(input_queue)
        PROVE  input_queue[i] = result_queue[Taken + Len(output_queue') + Busy' + i]
    <3>1. input_queue[i] = result_queue[Taken + Len(output_queue) + Busy + i]
      BY <2>1 DEF Aligned
    <3>2. Taken + Len(output_queue) + Busy + i = Taken + Len(output_queue') + Busy' + i
      BY <1>1, <1>3, <2>1
    <3> QED BY <3>1, <3>2
  <2>5. spc' = "process" => result' = Tokens(result_queue'[1])
    BY <1>1, <2>1 DEF Aligned
  <2>6. \A i \in 1..Len(input_queue') :
          input_queue'[i] = result_queue'[Taken' + Len(output_queue') + Busy' + i]
    BY <1>1, <2>4
  <2>7. \A i \in 1..Len(output_queue') : output_queue'[i] = Tokens(result_queue'[Taken' + i])
    BY <1>1, <2>3
  <2> QED BY <1>1, <2>2, <2>5, <2>6, <2>7 DEF Aligned, Tokens
<1> QED BY <1>4, <1>5, ForwardKeeps DEF Sample, IInv, schedVars

---------------------------------------------------------------------------
(* The scheduler thread                                                    *)

(* The elements of a sequence after Append. *)
LEMMA ToSetAppend ==
  ASSUME NEW S, NEW s \in Seq(S), NEW x \in S
  PROVE  ToSet(Append(s, x)) = ToSet(s) \cup {x}
<1>1. /\ DOMAIN Append(s, x) = 1..(Len(s) + 1) /\ DOMAIN s = 1..Len(s) /\ Len(s) \in Nat
      /\ \A i \in 1..Len(s) : Append(s, x)[i] = s[i]
      /\ Append(s, x)[Len(s) + 1] = x
  BY AppendProperties
<1>2. 1..(Len(s) + 1) = (1..Len(s)) \cup {Len(s) + 1}
  BY <1>1
<1> QED BY <1>1, <1>2 DEF ToSet

(* A new request is queued once and has generated nothing. *)
LEMMA ArriveInv == ASSUME IInv, NEW r \in Req, Arrive(r) PROVE IInv'
<1>1. /\ r \notin arrived /\ arrived' = arrived \cup {r}
      /\ waiting_queue \in Seq(Req) /\ waiting_queue' = Append(waiting_queue, r)
      /\ ToSet(waiting_queue') = ToSet(waiting_queue) \cup {r}
  BY ToSetAppend DEF Arrive, IInv, PlaceTypes
<1>2. PlaceTypes'
  BY <1>1, AppendProperties DEF Arrive, IInv, PlaceTypes
<1>3. PipeTypes' /\ Shape' /\ Masks'
  BY DEF Arrive, IInv, PipeTypes, Shape, Ahead, InFlight, Masks, fwdVars, Fits
<1>4. Aligned'
  <2>1. UNCHANGED <<spc, fpc, result_queue, result, output_queue, input_queue, f_batch, Taken, Busy>>
    BY DEF Arrive, fwdVars, Taken, Busy
  <2> QED BY <2>1 DEF IInv, Aligned, Tokens
<1>5. Counts'
  BY DEF Arrive, IInv, Counts, Ahead, Finished, Gen, Generates
<1>6. UNCHANGED <<Newest, running_batch, chunked_req, launched, output_ids>>
  BY DEF Arrive, Newest
<1>7. Places'
  <2>1. Places /\ chunked_req # r
    BY <1>1, OverlapAssumption DEF IInv, Places
  <2>2. r \notin ToSet(waiting_queue)
    BY <1>1, <2>1 DEF Places
  <2>3. \A i, j \in 1..Len(waiting_queue') : waiting_queue'[i] = waiting_queue'[j] => i = j
    <3>1. /\ Len(waiting_queue) \in Nat /\ Len(waiting_queue') = Len(waiting_queue) + 1
          /\ \A i \in 1..Len(waiting_queue) : waiting_queue'[i] = waiting_queue[i]
          /\ waiting_queue'[Len(waiting_queue) + 1] = r
      BY <1>1, AppendProperties
    <3>2. \A i \in 1..Len(waiting_queue) : waiting_queue[i] # r
      BY <1>1, <2>2 DEF ToSet
    <3>3. \A i, j \in 1..Len(waiting_queue) : waiting_queue[i] = waiting_queue[j] => i = j
      BY <2>1 DEF Places
    <3> QED BY <3>1, <3>2, <3>3
  <2>4. \A q \in Req : Fresh(q)' => Fresh(q)
    BY <1>1, <1>6 DEF Fresh
  <2>5. ReqsOf(Newest)' = ReqsOf(Newest)
    BY <1>6 DEF ReqsOf
  <2>6. /\ ToSet(waiting_queue') \subseteq arrived' /\ chunked_req' \in arrived' \cup {NoReq}
        /\ chunked_req' \notin ToSet(waiting_queue') /\ chunked_req' \notin running_batch'
        /\ running_batch' \cup ReqsOf(Newest)' \subseteq arrived' \ ToSet(waiting_queue')
    BY <1>1, <1>6, <2>1, <2>5 DEF Places
  <2>7. \A q \in Req : Fresh(q)' => launched'[q] = 0 /\ output_ids'[q] = 0
    BY <1>6, <2>1, <2>4 DEF Places
  <2> QED BY <2>3, <2>6, <2>7 DEF Places
<1>8. Room'
  BY <1>6 DEF IInv, Room, Occupied, ReqsOf
<1> QED BY <1>2, <1>3, <1>4, <1>5, <1>7, <1>8 DEF IInv

(* Nothing is launched: the last batch alone is in flight. *)
LEMMA ScheduleNothingInv == ASSUME IInv, ScheduleNothing PROVE IInv'
<1>1. /\ spc = "schedule" /\ spc' = "get" /\ cur_batch' = NoBatch /\ running_batch' = {}
      /\ last_batch # NoBatch /\ Newest' = NoBatch /\ Ahead' = NoBatch /\ Ahead = NoBatch
      /\ Taken = 0 /\ Taken' = 0 /\ Busy' = Busy
  BY DEF ScheduleNothing, Newest, Ahead, Taken, Busy, fwdVars
<1>2. PlaceTypes'
  BY DEF ScheduleNothing, IInv, PlaceTypes
<1>3. PipeTypes'
  BY NoBatchType DEF ScheduleNothing, IInv, PipeTypes, Fits, fwdVars
<1>4. Shape' /\ Masks'
  BY <1>1 DEF ScheduleNothing, IInv, Shape, InFlight, Masks
<1>5. Aligned'
  BY <1>1 DEF ScheduleNothing, IInv, Aligned, Tokens, fwdVars
<1>6. Counts'
  BY <1>1 DEF ScheduleNothing, IInv, Counts, Finished, Gen, Generates
<1>7. ReqsOf(Newest)' = {} /\ ReqsOf(NoBatch) = {}
  BY <1>1, NoBatchType DEF ReqsOf
<1>8. Places'
  BY <1>1, <1>7 DEF ScheduleNothing, IInv, Places, Fresh
<1>9. Room'
  <2>1. Occupied' \subseteq Occupied
    BY <1>1, <1>7 DEF ScheduleNothing, Occupied
  <2>2. IsFiniteSet(Occupied) /\ Cardinality(Occupied) <= MaxRunning
    BY DEF IInv, Room
  <2>3. IsFiniteSet(Occupied') /\ Cardinality(Occupied') <= Cardinality(Occupied)
        /\ Cardinality(Occupied') \in Nat /\ Cardinality(Occupied) \in Nat
    BY <2>1, <2>2, FS_Subset, FS_CardinalityType
  <2> QED BY <2>2, <2>3, RingSizes DEF Room
<1> QED BY <1>2, <1>3, <1>4, <1>5, <1>6, <1>8, <1>9 DEF IInv

(* resolve_last_batch_result takes the oldest result. *)
LEMMA GetResultInv == ASSUME IInv, GetResult PROVE IInv'
<1>1. /\ spc = "get" /\ spc' = "process" /\ Newest' = Newest /\ Ahead' = Ahead
      /\ Taken = 0 /\ Taken' = 1 /\ Busy' = Busy
      /\ UNCHANGED <<result_queue, input_queue, fpc, f_batch>>
      /\ result' = Head(output_queue) /\ output_queue' = Tail(output_queue)
  BY DEF GetResult, Newest, Ahead, Taken, Busy, fwdVars
<1>2. /\ output_queue \in Seq(Seq(TokenType)) /\ Len(output_queue) \in Nat
      /\ Len(output_queue) >= 1
      /\ result' = output_queue[1] /\ result' \in Seq(TokenType)
      /\ output_queue' \in Seq(Seq(TokenType)) /\ Len(output_queue') = Len(output_queue) - 1
      /\ \A i \in 1..Len(output_queue') : output_queue'[i] = output_queue[i + 1]
  BY <1>1, HeadTailProperties DEF GetResult, IInv, PipeTypes
<1>3. PlaceTypes'
  BY DEF GetResult, IInv, PlaceTypes
<1>4. PipeTypes'
  BY <1>1, <1>2 DEF GetResult, IInv, PipeTypes, Fits, fwdVars
<1>5. Shape' /\ Masks'
  BY <1>1 DEF GetResult, IInv, Shape, InFlight, Masks
<1>6. Aligned'
  <2>1. Aligned /\ Busy \in {0, 1} /\ Len(input_queue) \in Nat
    BY DEF IInv, Busy, PipeTypes
  <2>2. Len(result_queue') = Taken' + Len(output_queue') + Busy' + Len(input_queue')
    BY <1>1, <1>2, <2>1 DEF Aligned
  <2>3. result' = Tokens(result_queue[1])
    <3>1. output_queue[1] = Tokens(result_queue[Taken + 1])
      BY <1>2, <2>1 DEF Aligned
    <3>2. Taken + 1 = 1
      BY <1>1
    <3> QED BY <1>2, <3>1, <3>2
  <2>4. ASSUME NEW i \in 1..Len(output_queue')
        PROVE  output_queue'[i] = Tokens(result_queue[Taken' + i])
    <3>1. i + 1 \in 1..Len(output_queue)
      BY <1>2
    <3>2. output_queue[i + 1] = Tokens(result_queue[Taken + (i + 1)])
      BY <2>1, <3>1 DEF Aligned
    <3>3. Taken + (i + 1) = Taken' + i
      BY <1>1
    <3> QED BY <1>2, <3>2, <3>3
  <2>5. Taken' + Len(output_queue') = Taken + Len(output_queue)
    BY <1>1, <1>2
  <2>6. /\ fpc' # "get" => f_batch' = result_queue'[Taken' + Len(output_queue') + 1]
        /\ \A i \in 1..Len(input_queue') :
             input_queue'[i] = result_queue'[Taken' + Len(output_queue') + Busy' + i]
    BY <1>1, <2>1, <2>5 DEF Aligned
  <2> QED BY <1>1, <2>2, <2>3, <2>4, <2>6 DEF Aligned, Tokens
<1>7. Counts'
  BY <1>1 DEF GetResult, IInv, Counts, Finished, Gen, Generates
<1>8. ReqsOf(Newest)' = ReqsOf(Newest)
  BY <1>1 DEF ReqsOf
<1>9. Places'
  BY <1>8 DEF GetResult, IInv, Places, Fresh
<1>10. Room'
  BY <1>8 DEF GetResult, IInv, Room, Occupied
<1> QED BY <1>3, <1>4, <1>5, <1>6, <1>7, <1>9, <1>10 DEF IInv

(* Processing the last batch counts the tokens it generated. *)
LEMMA ProcessResultInv == ASSUME IInv, ProcessResult PROVE IInv'
<1>1. /\ spc = "process" /\ spc' = "schedule" /\ last_batch' = cur_batch /\ cur_batch' = cur_batch
      /\ Newest' = Newest /\ Ahead' = NoBatch /\ Ahead = cur_batch
      /\ Taken = 1 /\ Taken' = 0 /\ Busy' = Busy
      /\ result_queue' = Tail(result_queue) /\ result' = << >>
      /\ UNCHANGED <<arrived, waiting_queue, running_batch, chunked_req, left, launched, future,
                     future_token_ids_ct, batch_ct, input_queue, output_queue, fpc, f_batch>>
  BY DEF ProcessResult, Newest, Ahead, Taken, Busy, fwdVars
<1>2. /\ result_queue \in Seq(BatchType) /\ Len(result_queue) \in Nat /\ Len(result_queue) >= 1
      /\ result_queue' \in Seq(BatchType) /\ Len(result_queue') = Len(result_queue) - 1
      /\ Head(result_queue) = result_queue[1]
      /\ \A i \in 1..Len(result_queue') : result_queue'[i] = result_queue[i + 1]
  <2>1. Len(result_queue) >= 1
    BY <1>1 DEF IInv, Shape, InFlight
  <2>2. result_queue \in Seq(BatchType) /\ result_queue # << >>
    BY <2>1 DEF IInv, PipeTypes
  <2> QED BY <1>1, <2>1, <2>2, HeadTailProperties
<1>3. Popped = last_batch /\ last_batch # NoBatch
  BY <1>1, <1>2 DEF IInv, Shape, Popped
<1>4. /\ output_ids' \in [Req -> Nat]
      /\ \A r \in Req : /\ ~Finished(r) => output_ids'[r] = output_ids[r] + Gen(last_batch, r)
                        /\ Finished(r) => output_ids'[r] = output_ids[r]
  <2>1. output_ids \in [Req -> Nat]
    BY DEF IInv, PipeTypes
  <2>2. output_ids' = [r \in Req |-> IF ~Finished(r) /\ Generates(last_batch, r)
                                     THEN output_ids[r] + 1 ELSE output_ids[r]]
    BY <1>3 DEF ProcessResult, Generates
  <2> QED BY <2>1, <2>2 DEF Gen
<1>5. /\ cur_batch = NoBatch => UNCHANGED <<sampling_info_done, vocab_mask>>
      /\ cur_batch # NoBatch => /\ sampling_info_done' = sampling_info_done \cup {cur_batch.id}
                                /\ vocab_mask' = output_ids'
  BY DEF ProcessResult
<1>6. PlaceTypes'
  BY <1>1 DEF IInv, PlaceTypes
<1>7. PipeTypes'
  <2>1. sampling_info_done' \subseteq 0..batch_ct' /\ vocab_mask' \in [Req -> Nat]
    <3>1. /\ sampling_info_done \subseteq 0..batch_ct /\ batch_ct \in Nat
          /\ cur_batch.id \in 0..batch_ct /\ vocab_mask \in [Req -> Nat]
      <4>1. /\ sampling_info_done \subseteq 0..batch_ct /\ batch_ct \in Nat
            /\ vocab_mask \in [Req -> Nat] /\ cur_batch \in BatchType /\ cur_batch.id <= batch_ct
        BY DEF IInv, PipeTypes
      <4> QED BY <4>1, BatchFields
    <3> QED BY <1>1, <1>4, <1>5, <3>1
  <2>2. result' \in Seq(TokenType)
    BY <1>1
  <2> QED BY <1>1, <1>2, <1>4, <2>1, <2>2 DEF IInv, PipeTypes, Fits
<1>8. Shape'
  <2>1. /\ Len(result_queue) = 1 + InFlight(cur_batch) /\ InFlight(NoBatch) = 0
        /\ cur_batch # NoBatch => result_queue[2] = cur_batch /\ InFlight(cur_batch) = 1
    BY <1>1, <1>3 DEF IInv, Shape, InFlight
  <2>2. Len(result_queue') = InFlight(last_batch)' + InFlight(Ahead)'
    BY <1>1, <1>2, <2>1 DEF InFlight
  <2>3. cur_batch # NoBatch => result_queue'[1] = cur_batch
    <3>1. cur_batch # NoBatch => 1 \in 1..Len(result_queue')
      BY <1>2, <2>1
    <3> QED BY <1>2, <2>1, <3>1
  <2> QED BY <1>1, <2>2, <2>3 DEF Shape
<1>9. Masks'
  BY <1>1, <1>5 DEF Masks
<1>10. Aligned'
  <2>1. Aligned /\ Busy \in {0, 1} /\ Len(input_queue) \in Nat /\ Len(output_queue) \in Nat
    BY DEF IInv, Busy, PipeTypes
  <2>2. Len(result_queue') = Taken' + Len(output_queue') + Busy' + Len(input_queue')
    BY <1>1, <1>2, <2>1 DEF Aligned
  <2>3. \A k : k \in 1..Len(result_queue') => result_queue'[k] = result_queue[k + 1]
    BY <1>2
  <2>4. ASSUME NEW i \in 1..Len(output_queue)
        PROVE  output_queue[i] = Tokens(result_queue'[Taken' + i])
    <3>1. output_queue[i] = Tokens(result_queue[Taken + i])
      BY <2>1 DEF Aligned
    <3>2. Taken + i = i + 1 /\ Taken' + i = i /\ i \in 1..Len(result_queue')
      BY <1>1, <2>1, <2>2
    <3> QED BY <2>3, <3>1, <3>2
  <2>5. fpc # "get" => f_batch = result_queue'[Taken' + Len(output_queue) + 1]
    <3> SUFFICES ASSUME fpc # "get" PROVE f_batch = result_queue'[Taken' + Len(output_queue) + 1]
      OBVIOUS
    <3>1. f_batch = result_queue[Taken + Len(output_queue) + 1]
      BY <2>1 DEF Aligned
    <3>2. /\ Taken + Len(output_queue) + 1 = (Len(output_queue) + 1) + 1
          /\ Taken' + Len(output_queue) + 1 = Len(output_queue) + 1
          /\ Len(output_queue) + 1 \in 1..Len(result_queue')
      BY <1>1, <2>1, <2>2 DEF Busy
    <3> QED BY <2>3, <3>1, <3>2
  <2>6. ASSUME NEW i \in 1..Len(input_queue)
        PROVE  input_queue[i] = result_queue'[Taken' + Len(output_queue) + Busy + i]
    <3>1. input_queue[i] = result_queue[Taken + Len(output_queue) + Busy + i]
      BY <2>1 DEF Aligned
    <3>2. /\ Taken + Len(output_queue) + Busy + i = (Len(output_queue) + Busy + i) + 1
          /\ Taken' + Len(output_queue) + Busy + i = Len(output_queue) + Busy + i
          /\ Len(output_queue) + Busy + i \in 1..Len(result_queue')
      BY <1>1, <2>1, <2>2
    <3> QED BY <2>3, <3>1, <3>2
  <2>7. \A i \in 1..Len(output_queue') : output_queue'[i] = Tokens(result_queue'[Taken' + i])
    BY <1>1, <2>4
  <2>8. /\ fpc' # "get" => f_batch' = result_queue'[Taken' + Len(output_queue') + 1]
        /\ \A i \in 1..Len(input_queue') :
             input_queue'[i] = result_queue'[Taken' + Len(output_queue') + Busy' + i]
    BY <1>1, <2>5, <2>6
  <2> QED BY <1>1, <2>2, <2>7, <2>8 DEF Aligned, Tokens
<1>11. \A r \in Req : /\ Finished(r)' => output_ids'[r] >= MaxNew[r]
                      /\ ~Finished(r)' => ~Finished(r)
  <2>1. output_ids \in [Req -> Nat] /\ MaxNew \in [Req -> Nat]
    BY OverlapAssumption DEF IInv, PipeTypes
  <2> QED BY <1>4, <2>1, GenType DEF Finished
<1>12. Counts'
  <2>1. Counts
    BY DEF IInv
  <2>2. \A r \in Req : /\ Gen(last_batch, r)' = Gen(cur_batch, r) /\ Gen(Ahead, r)' = 0
                       /\ Gen(Ahead, r) = Gen(cur_batch, r)
    BY <1>1, GenType DEF Gen, Generates
  <2>3. ASSUME NEW r \in Req, ~Finished(r)'
        PROVE  launched'[r] = output_ids'[r] + Gen(last_batch, r)' + Gen(Ahead, r)'
    <3>1. launched[r] = output_ids[r] + Gen(last_batch, r) + Gen(Ahead, r)
      BY <1>11, <2>1, <2>3 DEF Counts
    <3>2. output_ids'[r] = output_ids[r] + Gen(last_batch, r)
      BY <1>4, <1>11, <2>3
    <3>3. output_ids[r] \in Nat /\ output_ids'[r] \in Nat /\ Gen(cur_batch, r) \in {0, 1}
      BY <1>4, GenType DEF IInv, PipeTypes
    <3> QED BY <1>1, <2>2, <3>1, <3>2, <3>3
  <2>4. ASSUME NEW i \in DOMAIN cur_batch.entries, cur_batch.entries[i].n > 0
        PROVE  cur_batch.entries[i].n = output_ids'[cur_batch.entries[i].req] + 1
    <3>1. cur_batch.entries[i].req \in Req
      BY BatchFields DEF IInv, PipeTypes
    <3>2. /\ ~Finished(cur_batch.entries[i].req)
          /\ cur_batch.entries[i].n = output_ids[cur_batch.entries[i].req]
                                        + Gen(last_batch, cur_batch.entries[i].req) + 1
      BY <1>1, <2>1, <2>4 DEF Counts
    <3>3. output_ids'[cur_batch.entries[i].req]
            = output_ids[cur_batch.entries[i].req] + Gen(last_batch, cur_batch.entries[i].req)
      BY <1>4, <3>1, <3>2
    <3> QED BY <3>2, <3>3
  <2>5. DOMAIN Ahead'.entries = {}
    BY <1>1, NoBatchType
  <2> QED BY <1>1, <2>3, <2>4, <2>5 DEF Counts
<1>13. ReqsOf(Newest)' = ReqsOf(Newest)
  BY <1>1 DEF ReqsOf
<1>14. Places'
  <2>1. Places /\ Counts
    BY DEF IInv
  <2>2. ASSUME NEW r \in Req, Fresh(r) PROVE launched[r] = 0 /\ output_ids'[r] = 0
    <3>1. launched[r] = 0 /\ output_ids[r] = 0
      BY <2>1, <2>2 DEF Places
    <3>2. ~Finished(r)
      <4>1. MaxNew[r] \in Nat /\ MaxNew[r] > 0
        BY OverlapAssumption
      <4> QED BY <3>1, <4>1 DEF Finished
    <3>3. Gen(last_batch, r) = 0
      <4>1. launched[r] = output_ids[r] + Gen(last_batch, r) + Gen(Ahead, r)
        BY <2>1, <3>2 DEF Counts
      <4>2. Gen(last_batch, r) \in {0, 1} /\ Gen(Ahead, r) \in {0, 1}
        BY GenType
      <4> QED BY <3>1, <4>1, <4>2
    <3> QED BY <1>4, <3>1, <3>2, <3>3
  <2>3. \A r \in Req : Fresh(r)' => Fresh(r)
    BY <1>1 DEF Fresh
  <2> QED BY <1>1, <1>13, <2>1, <2>2, <2>3 DEF Places
<1>15. Room'
  BY <1>1, <1>13 DEF IInv, Room, Occupied
<1> QED BY <1>6, <1>7, <1>8, <1>9, <1>10, <1>12, <1>14, <1>15 DEF IInv

(* run_batch: the new batch goes to the end of both queues, its           *)
(* placeholders lie inside the ring, and it is the next batch whatever     *)
(* list of requests it was built from.                                     *)
LEMMA LaunchPipe ==
  ASSUME IInv, spc = "schedule", UNCHANGED <<output_ids, result, output_queue>>, UNCHANGED fwdVars,
         NEW mode \in {"extend", "decode"}, NEW entries \in Seq(EntryType),
         Len(entries) \in 0..MaxRunning, NEW chunked \in Req \cup {NoReq},
         \A i \in DOMAIN entries : entries[i].n > 0 =>
           ~Finished(entries[i].req) /\ entries[i].n = launched[entries[i].req] + 1,
         Launch(mode, entries, chunked)
  PROVE  /\ PipeTypes' /\ Shape' /\ Aligned' /\ Masks' /\ Counts'
         /\ Newest'.entries = entries
         /\ \A r \in Req : ~(\E i \in DOMAIN entries : entries[i].req = r /\ entries[i].n > 0)
                             => launched'[r] = launched[r]
<1> DEFINE b == [id |-> batch_ct + 1, mode |-> mode, entries |-> entries,
                 ct |-> future_token_ids_ct, chunked |-> chunked]
<1>1. /\ batch_ct' = batch_ct + 1 /\ cur_batch' = b
      /\ result_queue' = Append(result_queue, b) /\ input_queue' = Append(input_queue, b)
      /\ future_token_ids_ct' = Advance(future_token_ids_ct, entries)
      /\ spc' = (IF last_batch = NoBatch THEN "schedule" ELSE "get")
      /\ last_batch' = (IF last_batch = NoBatch THEN b ELSE last_batch)
      /\ UNCHANGED <<fpc, f_batch, output_ids, result, output_queue>>
  BY DEF Launch, fwdVars
<1>2. /\ last_batch = NoBatch => /\ sampling_info_done' = sampling_info_done \cup {b.id}
                                 /\ vocab_mask' = output_ids
      /\ last_batch # NoBatch => UNCHANGED <<sampling_info_done, vocab_mask>>
  BY DEF Launch, DummyFirst
<1>3. launched' = [r \in Req |-> IF Generates(b, r) THEN launched[r] + 1 ELSE launched[r]]
  BY DEF Launch, Generates
<1>4. /\ batch_ct \in Nat /\ future_token_ids_ct \in 0..(Limit - 1) /\ launched \in [Req -> Nat]
      /\ output_ids \in [Req -> Nat] /\ vocab_mask \in [Req -> Nat]
      /\ sampling_info_done \subseteq 0..batch_ct /\ last_batch \in BatchType
      /\ result_queue \in Seq(BatchType) /\ input_queue \in Seq(BatchType)
      /\ Len(result_queue) \in Nat /\ Len(input_queue) \in Nat /\ Len(output_queue) \in Nat
  BY DEF IInv, PipeTypes
<1>5. /\ b \in BatchType /\ b # NoBatch /\ b.id = batch_ct + 1 /\ b.entries = entries
      /\ Fits(b)
  <2>1. b.id = batch_ct + 1 /\ b.entries = entries /\ b.ct = future_token_ids_ct
    OBVIOUS
  <2>2. b \in BatchType
    BY <1>4 DEF BatchType, EntryType
  <2>3. b # NoBatch
    BY <1>4, <2>1, NoBatchType
  <2>4. future_token_ids_ct + Len(entries) < MapSize
    BY <1>4, RingSizes
  <2> QED BY <2>1, <2>2, <2>3, <2>4 DEF Fits
<1>6. future' \in [Req -> 0..(MapSize - 1)]
  <2>1. \A r \in ReqsOf(b) :
          (CHOOSE i \in DOMAIN entries : entries[i].req = r) \in DOMAIN entries
    BY <1>5 DEF ReqsOf
  <2>2. \A i \in DOMAIN entries : future_token_ids_ct + i \in 0..(MapSize - 1)
    <3>1. DOMAIN entries = 1..Len(entries) /\ Len(entries) \in 0..MaxRunning
      BY LenProperties
    <3>2. MapSize \in Nat /\ future_token_ids_ct + Len(entries) < MapSize
      BY <1>4, RingSizes
    <3> QED BY <1>4, <3>1, <3>2
  <2>3. future' = [r \in Req |-> IF r \in ReqsOf(b)
                     THEN future_token_ids_ct + (CHOOSE i \in DOMAIN entries : entries[i].req = r)
                     ELSE future[r]]
    BY DEF Launch
  <2>4. future \in [Req -> 0..(MapSize - 1)]
    BY DEF IInv, PipeTypes
  <2> HIDE DEF b
  <2> QED BY <2>1, <2>2, <2>3, <2>4
<1>7. future_token_ids_ct' \in 0..(Limit - 1)
  BY <1>1, <1>4, AdvanceInRing
<1> HIDE DEF b
<1>8. /\ result_queue' \in Seq(BatchType) /\ Len(result_queue') = Len(result_queue) + 1
      /\ \A i \in 1..Len(result_queue) : result_queue'[i] = result_queue[i]
      /\ result_queue'[Len(result_queue) + 1] = b
      /\ input_queue' \in Seq(BatchType) /\ Len(input_queue') = Len(input_queue) + 1
      /\ \A i \in 1..Len(input_queue) : input_queue'[i] = input_queue[i]
      /\ input_queue'[Len(input_queue) + 1] = b
  BY <1>1, <1>4, <1>5, AppendProperties
<1>9. /\ launched' \in [Req -> Nat]
      /\ \A r \in Req : launched'[r] = launched[r] + Gen(b, r)
  BY <1>3, <1>4 DEF Gen
<1>10. PipeTypes'
  <2>1. \A i \in 1..Len(input_queue') : Fits(input_queue'[i])
    <3>1. \A i \in 1..Len(input_queue) : Fits(input_queue[i])
      BY DEF IInv, PipeTypes
    <3>2. \A i \in 1..Len(input_queue') : i \in 1..Len(input_queue) \/ i = Len(input_queue) + 1
      BY <1>4, <1>8
    <3> QED BY <1>5, <1>8, <3>1, <3>2
  <2>2. sampling_info_done' \subseteq 0..batch_ct' /\ batch_ct' \in Nat
    <3>1. batch_ct' \in Nat /\ b.id \in 0..batch_ct' /\ 0..batch_ct \subseteq 0..batch_ct'
      BY <1>1, <1>4, <1>5
    <3> QED BY <1>2, <1>4, <3>1
  <2>3. vocab_mask' \in [Req -> Nat] /\ last_batch' \in BatchType /\ cur_batch'.id <= batch_ct'
    BY <1>1, <1>2, <1>4, <1>5
  <2>4. spc' \in {"schedule", "get", "process"}
    BY <1>1
  <2>5. /\ fpc' \in {"get", "forward", "sample"} /\ f_batch' \in BatchType /\ Fits(f_batch')
        /\ output_queue' \in Seq(Seq(TokenType)) /\ result' \in Seq(TokenType)
        /\ output_ids' \in [Req -> Nat]
    BY <1>1 DEF IInv, PipeTypes
  <2>6. cur_batch' \in BatchType /\ Fits(cur_batch')
    BY <1>1, <1>5
  <2> QED BY <1>6, <1>7, <1>8, <1>9, <2>1, <2>2, <2>3, <2>4, <2>5, <2>6 DEF PipeTypes, Fits
<1>11. /\ Ahead = NoBatch /\ Newest' = b /\ Taken = 0 /\ Taken' = 0 /\ Busy' = Busy
       /\ last_batch = NoBatch => last_batch' = b /\ Ahead' = NoBatch /\ spc' = "schedule"
       /\ last_batch # NoBatch => last_batch' = last_batch /\ Ahead' = b /\ spc' = "get"
  BY <1>1 DEF Ahead, Newest, Taken, Busy
<1>12. Shape'
  <2>1. /\ InFlight(NoBatch) = 0 /\ InFlight(b) = 1
        /\ last_batch # NoBatch => InFlight(last_batch) = 1
    BY <1>5 DEF InFlight
  <2>2. /\ Len(result_queue) = InFlight(last_batch) + InFlight(NoBatch)
        /\ last_batch # NoBatch => result_queue[1] = last_batch
    BY <1>11 DEF IInv, Shape
  <2>3. CASE last_batch = NoBatch
    <3>1. Len(result_queue) = 0 /\ Len(result_queue') = 1 /\ result_queue'[1] = b
      BY <1>8, <2>1, <2>2, <2>3
    <3>2. InFlight(last_batch)' = 1 /\ InFlight(Ahead)' = 0
      BY <1>5, <1>11, <2>3 DEF InFlight
    <3> QED BY <1>11, <2>3, <3>1, <3>2 DEF Shape
  <2>4. CASE last_batch # NoBatch
    <3>1. Len(result_queue) = 1 /\ Len(result_queue') = 2 /\ result_queue'[2] = b
      BY <1>8, <2>1, <2>2, <2>4
    <3>2. result_queue'[1] = last_batch
      <4>1. 1 \in 1..Len(result_queue)
        BY <3>1
      <4> QED BY <1>8, <2>2, <2>4, <4>1
    <3>3. InFlight(last_batch)' = 1 /\ InFlight(Ahead)' = 1
      BY <1>5, <1>11, <2>4 DEF InFlight
    <3> QED BY <1>11, <2>4, <3>1, <3>2, <3>3 DEF Shape
  <2> QED BY <2>3, <2>4
<1>13. Aligned'
  <2>1. Aligned /\ Busy \in {0, 1}
    BY DEF IInv, Busy
  <2>2. /\ Len(result_queue) = Len(output_queue) + Busy + Len(input_queue)
        /\ Len(result_queue') = Taken' + Len(output_queue') + Busy' + Len(input_queue')
    BY <1>1, <1>4, <1>8, <1>11, <2>1 DEF Aligned
  <2>3. ASSUME NEW i \in 1..Len(output_queue)
        PROVE  output_queue[i] = Tokens(result_queue'[Taken' + i])
    <3>1. output_queue[i] = Tokens(result_queue[Taken + i])
      BY <2>1 DEF Aligned
    <3>2. Taken + i = i /\ Taken' + i = i /\ i \in 1..Len(result_queue)
      BY <1>4, <1>11, <2>1, <2>2
    <3> QED BY <1>8, <3>1, <3>2
  <2>4. fpc # "get" => f_batch = result_queue'[Taken' + Len(output_queue) + 1]
    <3> SUFFICES ASSUME fpc # "get" PROVE f_batch = result_queue'[Taken' + Len(output_queue) + 1]
      OBVIOUS
    <3>1. f_batch = result_queue[Taken + Len(output_queue) + 1]
      BY <2>1 DEF Aligned
    <3>2. /\ Taken + Len(output_queue) + 1 = Len(output_queue) + 1
          /\ Taken' + Len(output_queue) + 1 = Len(output_queue) + 1
          /\ Len(output_queue) + 1 \in 1..Len(result_queue)
      BY <1>4, <1>11, <2>1, <2>2 DEF Busy
    <3> QED BY <1>8, <3>1, <3>2
  <2>5. ASSUME NEW i \in 1..Len(input_queue')
        PROVE  input_queue'[i] = result_queue'[Taken' + Len(output_queue) + Busy + i]
    <3>1. Taken' + Len(output_queue) + Busy + i = Len(output_queue) + Busy + i
      BY <1>4, <1>11, <2>1
    <3>2. CASE i \in 1..Len(input_queue)
      <4>1. input_queue[i] = result_queue[Taken + Len(output_queue) + Busy + i]
        BY <2>1, <3>2 DEF Aligned
      <4>2. /\ Taken + Len(output_queue) + Busy + i = Len(output_queue) + Busy + i
            /\ Len(output_queue) + Busy + i \in 1..Len(result_queue)
        BY <1>4, <1>11, <2>1, <2>2, <3>2
      <4> QED BY <1>8, <3>1, <3>2, <4>1, <4>2
    <3>3. CASE i = Len(input_queue) + 1
      <4>1. Len(output_queue) + Busy + i = Len(result_queue) + 1
        BY <1>4, <2>1, <2>2, <3>3
      <4> QED BY <1>8, <3>1, <3>3, <4>1
    <3> QED BY <1>4, <1>8, <3>2, <3>3
  <2>6. \A i \in 1..Len(output_queue') : output_queue'[i] = Tokens(result_queue'[Taken' + i])
    BY <1>1, <2>3
  <2>7. /\ fpc' # "get" => f_batch' = result_queue'[Taken' + Len(output_queue') + 1]
        /\ \A i \in 1..Len(input_queue') :
             input_queue'[i] = result_queue'[Taken' + Len(output_queue') + Busy' + i]
    BY <1>1, <1>11, <2>4, <2>5
  <2> QED BY <1>11, <2>2, <2>6, <2>7 DEF Aligned, Tokens
<1>14. Masks'
  <2>1. b.id \notin sampling_info_done
    BY <1>4, <1>5
  <2>2. last_batch # NoBatch => vocab_mask = output_ids
    BY DEF IInv, Masks
  <2> QED BY <1>1, <1>2, <1>11, <2>1, <2>2 DEF Masks
<1>15. Counts'
  <2>1. /\ \A r \in Req : ~Finished(r) => launched[r] = output_ids[r] + Gen(last_batch, r)
        /\ \A i \in DOMAIN last_batch.entries :
             last_batch.entries[i].n > 0 =>
               last_batch.entries[i].n = output_ids[last_batch.entries[i].req] + 1
    <3>1. Counts /\ \A r \in Req : Gen(Ahead, r) = 0 /\ Gen(last_batch, r) \in {0, 1}
      BY <1>11, GenType DEF IInv
    <3>2. \A r \in Req : ~Finished(r) =>
            launched[r] = output_ids[r] + Gen(last_batch, r) + Gen(Ahead, r)
      BY <3>1 DEF Counts
    <3>3. ASSUME NEW r \in Req, ~Finished(r)
          PROVE  launched[r] = output_ids[r] + Gen(last_batch, r)
      <4>1. launched[r] = output_ids[r] + Gen(last_batch, r) + Gen(Ahead, r)
        BY <3>2, <3>3
      <4>2. output_ids[r] \in Nat /\ Gen(last_batch, r) \in {0, 1} /\ Gen(Ahead, r) = 0
        BY <1>4, <3>1
      <4> QED BY <4>1, <4>2
    <3> QED BY <3>1, <3>3 DEF Counts
  <2>2. \A r \in Req : Finished(r)' <=> Finished(r)
    BY <1>1 DEF Finished
  <2>3. \A r \in Req : /\ Gen(last_batch, r) \in {0, 1} /\ Gen(b, r) \in {0, 1}
                       /\ Gen(NoBatch, r) = 0
    BY GenType
  <2>4. \A i \in DOMAIN entries : entries[i].req \in Req
    BY <1>5, BatchFields
  <2>5. ASSUME NEW i \in DOMAIN entries, entries[i].n > 0
        PROVE  /\ ~Finished(entries[i].req)
               /\ entries[i].n = output_ids[entries[i].req] + Gen(last_batch, entries[i].req) + 1
    BY <2>1, <2>4, <2>5
  <2>6. CASE last_batch = NoBatch
    <3>1. \A r \in Req : /\ Gen(last_batch, r)' = Gen(b, r) /\ Gen(Ahead, r)' = 0
                         /\ Gen(last_batch, r) = 0
      BY <1>11, <2>3, <2>6 DEF Gen, Generates
    <3>2. \A r \in Req : ~Finished(r)' =>
            launched'[r] = output_ids'[r] + Gen(last_batch, r)' + Gen(Ahead, r)'
      BY <1>1, <1>4, <1>9, <2>1, <2>2, <2>3, <3>1
    <3>3. \A i \in DOMAIN entries : entries[i].n > 0 =>
            entries[i].n = output_ids[entries[i].req] + 1
      BY <1>4, <2>4, <2>5, <3>1
    <3>4. DOMAIN Ahead'.entries = {} /\ last_batch'.entries = entries
      BY <1>5, <1>11, <2>6, NoBatchType
    <3> QED BY <1>1, <3>2, <3>3, <3>4 DEF Counts
  <2>7. CASE last_batch # NoBatch
    <3>1. \A r \in Req : Gen(last_batch, r)' = Gen(last_batch, r) /\ Gen(Ahead, r)' = Gen(b, r)
      BY <1>11, <2>7 DEF Gen, Generates
    <3>2. \A r \in Req : ~Finished(r)' =>
            launched'[r] = output_ids'[r] + Gen(last_batch, r)' + Gen(Ahead, r)'
      BY <1>1, <1>4, <1>9, <2>1, <2>2, <2>3, <3>1
    <3>3. Ahead'.entries = entries /\ last_batch'.entries = last_batch.entries
      BY <1>5, <1>11, <2>7
    <3>4. ASSUME NEW i \in DOMAIN entries, entries[i].n > 0
          PROVE  /\ ~Finished(entries[i].req)'
                 /\ entries[i].n = output_ids'[entries[i].req]
                                     + Gen(last_batch, entries[i].req)' + 1
      BY <1>1, <2>2, <2>4, <2>5, <3>1, <3>4
    <3>5. \A i \in DOMAIN last_batch.entries : last_batch.entries[i].n > 0 =>
            last_batch.entries[i].n = output_ids'[last_batch.entries[i].req] + 1
      BY <1>1, <2>1
    <3> QED BY <3>2, <3>3, <3>4, <3>5 DEF Counts
  <2> QED BY <2>6, <2>7
<1>16. \A r \in Req : ~(\E i \in DOMAIN entries : entries[i].req = r /\ entries[i].n > 0)
                        => launched'[r] = launched[r]
  BY <1>3, <1>4, <1>5 DEF Generates
<1> QED BY <1>5, <1>10, <1>11, <1>12, <1>13, <1>14, <1>15, <1>16

(* A sequence has at most as many elements as its length. *)
LEMMA ToSetCardinality ==
  ASSUME NEW S, NEW s \in Seq(S)
  PROVE  IsFiniteSet(ToSet(s)) /\ Cardinality(ToSet(s)) <= Len(s)
<1>1. Len(s) \in Nat /\ DOMAIN s = 1..Len(s) /\ s \in [1..Len(s) -> S]
  BY LenProperties
<1>2. s \in Surjection(1..Len(s), ToSet(s))
  BY <1>1 DEF Surjection, ToSet
<1>3. IsFiniteSet(1..Len(s)) /\ Cardinality(1..Len(s)) = Len(s)
  BY <1>1, FS_Interval
<1> QED BY <1>2, <1>3, FS_Surjection

(* What joins running_batch was in it or in the last batch. *)
LEMMA MergedPlaces ==
  ASSUME IInv, spc = "schedule"
  PROVE  /\ Merged \subseteq Req /\ Merged \subseteq Occupied
         /\ Merged \subseteq arrived \ ToSet(waiting_queue) /\ chunked_req \notin Merged
         /\ IsFiniteSet(Merged) /\ Cardinality(Merged) \in Nat /\ Cardinality(Merged) <= MaxRunning
<1>1. Merged \subseteq running_batch \cup ReqsOf(Newest) /\ chunked_req \notin Merged
  BY DEF Merged, Newest, IInv, Places
<1>2. /\ running_batch \cup ReqsOf(Newest) \subseteq arrived \ ToSet(waiting_queue)
      /\ arrived \subseteq Req
  BY DEF IInv, Places, PlaceTypes
<1>3. Merged \subseteq Occupied
  BY <1>1 DEF Occupied
<1>4. IsFiniteSet(Occupied) /\ Cardinality(Occupied) <= MaxRunning /\ Cardinality(Occupied) \in Nat
  BY FS_CardinalityType DEF IInv, Room
<1>5. IsFiniteSet(Merged) /\ Cardinality(Merged) <= Cardinality(Occupied) /\ Cardinality(Merged) \in Nat
  BY <1>3, <1>4, FS_Subset, FS_CardinalityType
<1> QED BY <1>1, <1>2, <1>3, <1>4, <1>5, RingSizes

(* A request that waits, or whose prompt is not done, is not finished. *)
LEMMA FreshUnfinished ==
  ASSUME IInv, NEW r \in Req, Fresh(r)
  PROVE  launched[r] = 0 /\ output_ids[r] = 0 /\ ~Finished(r)
<1>1. launched[r] = 0 /\ output_ids[r] = 0
  BY DEF IInv, Places
<1>2. MaxNew[r] \in Nat /\ MaxNew[r] > 0
  BY OverlapAssumption
<1> QED BY <1>1, <1>2 DEF Finished

(* What can_run_list and the rest of waiting_queue hold. *)
LEMMA CanRunListPlaces ==
  ASSUME IInv, NEW k \in 0..Len(waiting_queue)
  PROVE  /\ CanRunList(k) \in Seq(Req)
         /\ ToSet(CanRunList(k)) = ({chunked_req} \ {NoReq}) \cup {waiting_queue[i] : i \in 1..k}
         /\ Len(CanRunList(k)) = k + (IF chunked_req = NoReq THEN 0 ELSE 1)
         /\ SubSeq(waiting_queue, k + 1, Len(waiting_queue)) \in Seq(Req)
         /\ ToSet(SubSeq(waiting_queue, k + 1, Len(waiting_queue)))
              \subseteq ToSet(waiting_queue) \ ToSet(CanRunList(k))
         /\ \A i, j \in 1..Len(SubSeq(waiting_queue, k + 1, Len(waiting_queue))) :
              SubSeq(waiting_queue, k + 1, Len(waiting_queue))[i]
                = SubSeq(waiting_queue, k + 1, Len(waiting_queue))[j] => i = j
<1> DEFINE w == waiting_queue
           first == IF chunked_req = NoReq THEN << >> ELSE <<chunked_req>>
           head == SubSeq(waiting_queue, 1, k)
           rest == SubSeq(waiting_queue, k + 1, Len(waiting_queue))
<1>1. /\ w \in Seq(Req) /\ Len(w) \in Nat /\ k \in 0..Len(w) /\ DOMAIN w = 1..Len(w)
      /\ chunked_req \in Req \cup {NoReq} /\ \A i \in 1..Len(w) : w[i] \in Req
  BY LenProperties, ElementOfSeq DEF IInv, PlaceTypes
<1>2. /\ head \in Seq(Req) /\ Len(head) = k /\ \A i \in 1..k : head[i] = w[i]
  <2>1. /\ head = [i \in 1..k |-> w[i]]
    BY <1>1
  <2> QED BY <1>1, <2>1
<1>3. /\ rest \in Seq(Req) /\ Len(rest) = Len(w) - k /\ DOMAIN rest = 1..(Len(w) - k)
      /\ \A i \in 1..(Len(w) - k) : rest[i] = w[k + i] /\ k + i \in 1..Len(w)
  <2>1. rest = [i \in 1..(Len(w) - k) |-> w[k + i]]
    BY <1>1
  <2>2. \A i \in 1..(Len(w) - k) : k + i \in 1..Len(w)
    BY <1>1
  <2>3. Len(w) - k \in Nat /\ \A i \in 1..(Len(w) - k) : w[k + i] \in Req
    BY <1>1, <2>2
  <2>4. \A n \in Nat : \A f \in [1..n -> Req] : f \in Seq(Req) /\ Len(f) = n /\ DOMAIN f = 1..n
    OBVIOUS
  <2> HIDE DEF rest, w
  <2>5. rest \in [1..(Len(w) - k) -> Req]
    BY <2>1, <2>3
  <2>6. rest \in Seq(Req) /\ Len(rest) = Len(w) - k /\ DOMAIN rest = 1..(Len(w) - k)
    BY <2>3, <2>4, <2>5
  <2>7. \A i \in 1..(Len(w) - k) : rest[i] = w[k + i]
    BY <2>1
  <2> QED BY <2>2, <2>6, <2>7
<1>4. /\ first \in Seq(Req) /\ Len(first) = (IF chunked_req = NoReq THEN 0 ELSE 1)
      /\ chunked_req # NoReq => first[1] = chunked_req
  BY <1>1
<1> DEFINE list == CanRunList(k)
<1>5. list = first \o head
  BY DEF CanRunList
<1> HIDE DEF first, head, rest, w, list
<1>6. /\ list \in Seq(Req) /\ Len(list) = Len(first) + k /\ DOMAIN list = 1..(Len(first) + k)
      /\ \A i \in 1..(Len(first) + k) :
           list[i] = IF i <= Len(first) THEN first[i] ELSE head[i - Len(first)]
  <2>1. first \in Seq(Req) /\ head \in Seq(Req) /\ Len(head) = k
    BY <1>2, <1>4
  <2>2. /\ first \o head \in Seq(Req) /\ Len(first \o head) = Len(first) + Len(head)
        /\ \A i \in 1..(Len(first) + Len(head)) :
             (first \o head)[i] = IF i <= Len(first) THEN first[i] ELSE head[i - Len(first)]
    BY <2>1, ConcatProperties
  <2>3. DOMAIN (first \o head) = 1..Len(first \o head)
    BY <2>2, LenProperties
  <2> QED BY <1>5, <2>1, <2>2, <2>3
<1>7. ToSet(list) = ({chunked_req} \ {NoReq}) \cup {w[i] : i \in 1..k}
  <2>1. ASSUME NEW i \in 1..(Len(first) + k)
        PROVE  list[i] \in ({chunked_req} \ {NoReq}) \cup {w[j] : j \in 1..k}
    <3>1. CASE i <= Len(first)
      <4>1. chunked_req # NoReq /\ i = 1
        BY <1>1, <1>4, <3>1
      <4> QED BY <1>4, <1>6, <3>1, <4>1
    <3>2. CASE ~(i <= Len(first))
      <4>1. i - Len(first) \in 1..k
        BY <1>1, <1>4, <3>2
      <4> QED BY <1>2, <1>6, <3>2, <4>1
    <3> QED BY <3>1, <3>2
  <2>2. chunked_req # NoReq => chunked_req \in ToSet(list)
    <3>1. chunked_req # NoReq => 1 \in 1..(Len(first) + k) /\ 1 <= Len(first)
      BY <1>1, <1>4
    <3> QED BY <1>4, <1>6, <3>1 DEF ToSet
  <2>3. ASSUME NEW j \in 1..k PROVE w[j] \in ToSet(list)
    <3>1. /\ Len(first) + j \in 1..(Len(first) + k) /\ ~(Len(first) + j <= Len(first))
          /\ (Len(first) + j) - Len(first) = j
      BY <1>1, <1>4
    <3>2. list[Len(first) + j] = w[j]
      BY <1>2, <1>6, <3>1
    <3> QED BY <1>6, <3>1, <3>2 DEF ToSet
  <2>4. ToSet(list) \subseteq ({chunked_req} \ {NoReq}) \cup {w[j] : j \in 1..k}
    BY <1>6, <2>1 DEF ToSet
  <2> QED BY <2>2, <2>3, <2>4
<1>8. \A i, j \in 1..Len(w) : w[i] = w[j] => i = j
  BY DEF IInv, Places, w
<1>9. ToSet(rest) \subseteq ToSet(w) \ ToSet(list)
  <2>1. chunked_req \notin ToSet(w)
    BY DEF IInv, Places, w
  <2>2. ASSUME NEW i \in 1..(Len(w) - k)
        PROVE  rest[i] \in ToSet(w) /\ \A j \in 1..k : rest[i] # w[j]
    <3>1. \A j \in 1..k : j \in 1..Len(w) /\ j # k + i
      BY <1>1
    <3> QED BY <1>1, <1>3, <1>8, <3>1 DEF ToSet
  <2>3. \A x \in ToSet(rest) : x \in ToSet(w) /\ \A j \in 1..k : x # w[j]
    BY <1>3, <2>2 DEF ToSet
  <2>4. \A x \in ToSet(rest) : x \notin ({chunked_req} \ {NoReq}) \cup {w[j] : j \in 1..k}
    BY <2>1, <2>3
  <2> QED BY <1>7, <2>3, <2>4
<1>10. ASSUME NEW i \in 1..Len(rest), NEW j \in 1..Len(rest), rest[i] = rest[j] PROVE i = j
  <2>1. k + i = k + j
    BY <1>3, <1>8, <1>10
  <2> QED BY <1>1, <1>3, <2>1
<1>11. Len(list) = k + (IF chunked_req = NoReq THEN 0 ELSE 1)
  BY <1>1, <1>4, <1>6
<1> QED BY <1>3, <1>6, <1>7, <1>9, <1>10, <1>11 DEF w, rest, list

(* A new prefill batch: its requests leave the waiting queue, and none of  *)
(* them has generated a token.                                             *)
LEMMA SchedulePrefillInv == ASSUME IInv, SchedulePrefill PROVE IInv'
<1>1. PICK k \in Prefills :
        LET list == CanRunList(k)
            cut  == {r \in ToSet(list) : left[r] > 1}
            c    == IF cut = {} THEN NoReq ELSE CHOOSE r \in cut : TRUE
        IN  /\ chunked_req' = c
            /\ waiting_queue' = SubSeq(waiting_queue, k + 1, Len(waiting_queue))
            /\ left' = [r \in Req |-> IF r \in cut THEN left[r] - 1 ELSE left[r]]
            /\ running_batch' = Merged
            /\ Launch("extend", [i \in DOMAIN list |-> PrefillEntry(list[i])], c)
  BY DEF SchedulePrefill
<1> DEFINE list == CanRunList(k)
           cut == {r \in ToSet(list) : left[r] > 1}
           entries == [i \in DOMAIN list |-> PrefillEntry(list[i])]
<1>2. /\ spc = "schedule" /\ UNCHANGED <<output_ids, result, output_queue>> /\ UNCHANGED fwdVars
      /\ UNCHANGED arrived
  BY DEF SchedulePrefill
<1>3. /\ chunked_req' \in cut \cup {NoReq} /\ running_batch' = Merged
      /\ left' = [r \in Req |-> IF r \in cut THEN left[r] - 1 ELSE left[r]]
      /\ Launch("extend", entries, chunked_req')
  BY <1>1
<1>4. /\ k \in 0..Len(waiting_queue) /\ (k = 0 => chunked_req # NoReq)
      /\ k > 0 => Len(list) <= MaxRunning - Cardinality(Merged)
      /\ k \in Nat /\ Len(waiting_queue) \in Nat /\ DOMAIN waiting_queue = 1..Len(waiting_queue)
  <2>1. /\ k \in 0..Len(waiting_queue) /\ (k = 0 => chunked_req # NoReq)
        /\ k > 0 => Len(list) <= MaxRunning - Cardinality(Merged)
    BY DEF Prefills
  <2>2. Len(waiting_queue) \in Nat /\ DOMAIN waiting_queue = 1..Len(waiting_queue)
    BY DEF IInv, PlaceTypes
  <2> QED BY <2>1, <2>2
<1>5. /\ list \in Seq(Req)
      /\ ToSet(list) = ({chunked_req} \ {NoReq}) \cup {waiting_queue[i] : i \in 1..k}
      /\ Len(list) = k + (IF chunked_req = NoReq THEN 0 ELSE 1)
      /\ waiting_queue' \in Seq(Req)
      /\ ToSet(waiting_queue') \subseteq ToSet(waiting_queue) \ ToSet(list)
      /\ \A i, j \in 1..Len(waiting_queue') : waiting_queue'[i] = waiting_queue'[j] => i = j
  <2>1. waiting_queue' = SubSeq(waiting_queue, k + 1, Len(waiting_queue))
    BY <1>1
  <2> DEFINE rest == SubSeq(waiting_queue, k + 1, Len(waiting_queue))
  <2>2. /\ list \in Seq(Req)
        /\ ToSet(list) = ({chunked_req} \ {NoReq}) \cup {waiting_queue[i] : i \in 1..k}
        /\ Len(list) = k + (IF chunked_req = NoReq THEN 0 ELSE 1)
        /\ rest \in Seq(Req) /\ ToSet(rest) \subseteq ToSet(waiting_queue) \ ToSet(list)
        /\ \A i, j \in 1..Len(rest) : rest[i] = rest[j] => i = j
    <3>1. k \in 0..Len(waiting_queue)
      BY <1>4
    <3> QED BY <3>1, CanRunListPlaces
  <2>3. waiting_queue' = rest
    BY <2>1
  <2> HIDE DEF rest
  <2> QED BY <2>2, <2>3
<1>6. /\ Len(list) \in Nat /\ DOMAIN list = 1..Len(list) /\ \A i \in DOMAIN list : list[i] \in Req
      /\ ToSet(list) \subseteq Req
  BY <1>5, LenProperties, ElementOfSeq DEF ToSet
<1>7. /\ Merged \subseteq Req /\ Merged \subseteq Occupied
      /\ Merged \subseteq arrived \ ToSet(waiting_queue) /\ chunked_req \notin Merged
      /\ IsFiniteSet(Merged) /\ Cardinality(Merged) \in Nat /\ Cardinality(Merged) <= MaxRunning
  BY <1>2, MergedPlaces
<1>8. Len(list) \in 0..MaxRunning
  <2>1. CASE k = 0
    BY <1>4, <1>5, <2>1, RingSizes
  <2>2. CASE k > 0
    BY <1>4, <1>6, <1>7, <2>2, RingSizes
  <2> QED BY <1>4, <2>1, <2>2
<1>9. {waiting_queue[i] : i \in 1..k} \subseteq ToSet(waiting_queue)
  <2>1. 1..k \subseteq DOMAIN waiting_queue
    BY <1>4
  <2> QED BY <2>1 DEF ToSet
<1>10. /\ \A r \in ToSet(list) : Fresh(r) /\ launched[r] = 0 /\ ~Finished(r) /\ r \in arrived
  <2>1. \A r \in ToSet(list) : r \in Req /\ Fresh(r)
    BY <1>5, <1>6, <1>9 DEF Fresh
  <2>2. ToSet(list) \subseteq arrived
    BY <1>5, <1>9 DEF IInv, Places
  <2> QED BY <2>1, <2>2, FreshUnfinished
<1>11. /\ left \in [Req -> Nat] /\ launched \in [Req -> Nat] /\ arrived \subseteq Req
       /\ chunked_req \in Req \cup {NoReq}
  BY DEF IInv, PlaceTypes, PipeTypes
<1>12. /\ DOMAIN entries = DOMAIN list
       /\ \A i \in DOMAIN list : /\ entries[i] = PrefillEntry(list[i]) /\ list[i] \in ToSet(list)
                                 /\ entries[i].req = list[i]
                                 /\ entries[i].n = IF left[list[i]] > 1 THEN 0
                                                   ELSE launched[list[i]] + 1
  BY DEF PrefillEntry, ToSet
<1>13. entries \in Seq(EntryType) /\ Len(entries) = Len(list)
  <2>1. 0 \in 0..(MapSize - 1)
    BY RingSizes, OverlapAssumption DEF MapSize
  <2>2. \A r \in Req : PrefillEntry(r) \in EntryType
    BY <1>11, <2>1 DEF PrefillEntry, EntryType
  <2>3. \A i \in 1..Len(list) : PrefillEntry(list[i]) \in EntryType
    BY <1>6, <2>2
  <2>4. entries = [i \in 1..Len(list) |-> PrefillEntry(list[i])]
    BY <1>6
  <2>5. entries \in [1..Len(list) -> EntryType]
    BY <2>3, <2>4
  <2> HIDE DEF entries, list
  <2> QED BY <1>6, <2>5
<1> HIDE DEF entries, list
<1>14. \A i \in DOMAIN entries : entries[i].n > 0 =>
         ~Finished(entries[i].req) /\ entries[i].n = launched[entries[i].req] + 1
  BY <1>10, <1>12
<1>15. chunked_req' \in Req \cup {NoReq}
  BY <1>3, <1>6
<1>16. /\ PipeTypes' /\ Shape' /\ Aligned' /\ Masks' /\ Counts' /\ Newest'.entries = entries
       /\ \A r \in Req : ~(\E i \in DOMAIN entries : entries[i].req = r /\ entries[i].n > 0)
                           => launched'[r] = launched[r]
  BY <1>2, <1>3, <1>8, <1>13, <1>14, <1>15, LaunchPipe
<1>17. PlaceTypes'
  <2>1. \A r \in Req : r \in cut => left[r] - 1 \in Nat
    BY <1>11
  <2>2. left' \in [Req -> Nat]
    <3> HIDE DEF cut
    <3> QED BY <1>3, <1>11, <2>1
  <2> QED BY <1>2, <1>3, <1>5, <1>7, <1>11, <1>15, <2>2 DEF PlaceTypes
<1>18. ReqsOf(Newest)' = ToSet(list)
  <2>1. ReqsOf(Newest)' = {entries[i].req : i \in DOMAIN entries}
    BY <1>16 DEF ReqsOf
  <2> QED BY <1>12, <2>1 DEF ToSet
<1>19. Places'
  <2>1. ToSet(waiting_queue) \subseteq arrived
    BY DEF IInv, Places
  <2>2. Merged \cap ToSet(list) = {}
    BY <1>5, <1>7, <1>9
  <2>3. NoReq \notin Merged /\ NoReq \notin ToSet(waiting_queue')
    BY <1>5, <1>7, <2>1, <1>11, OverlapAssumption
  <2>4. /\ ToSet(waiting_queue') \subseteq arrived' /\ chunked_req' \in arrived' \cup {NoReq}
        /\ chunked_req' \notin ToSet(waiting_queue') /\ chunked_req' \notin running_batch'
        /\ running_batch' \cup ReqsOf(Newest)' \subseteq arrived' \ ToSet(waiting_queue')
    BY <1>2, <1>3, <1>5, <1>7, <1>10, <1>18, <2>1, <2>2, <2>3
  <2>5. ASSUME NEW r \in Req, Fresh(r)' PROVE launched'[r] = 0 /\ output_ids'[r] = 0
    <3>1. Fresh(r) /\ (r \in ToSet(list) => r \in cut)
      <4>1. CASE r \notin arrived'
        BY <1>2, <1>10, <4>1 DEF Fresh
      <4>2. CASE r \in ToSet(waiting_queue')
        BY <1>5, <4>2 DEF Fresh
      <4>3. CASE r = chunked_req'
        BY <1>3, <1>10, <4>3, OverlapAssumption
      <4> QED BY <2>5, <4>1, <4>2, <4>3 DEF Fresh
    <3>2. ~(\E i \in DOMAIN entries : entries[i].req = r /\ entries[i].n > 0)
      BY <1>12, <3>1
    <3>3. launched'[r] = launched[r]
      BY <1>16, <3>2
    <3>4. launched[r] = 0 /\ output_ids[r] = 0
      BY <3>1, FreshUnfinished
    <3> QED BY <1>2, <3>3, <3>4
  <2> QED BY <1>5, <2>4, <2>5 DEF Places
<1>20. Room'
  <2>1. Occupied' = Merged \cup ToSet(list)
    BY <1>3, <1>18 DEF Occupied
  <2>2. CASE k = 0
    <3>1. {waiting_queue[i] : i \in 1..k} = {}
      BY <2>2
    <3>2. Merged \cup ToSet(list) \subseteq Occupied
      BY <1>5, <1>7, <3>1 DEF Occupied
    <3>3. IsFiniteSet(Occupied) /\ Cardinality(Occupied) <= MaxRunning /\ Cardinality(Occupied) \in Nat
      BY FS_CardinalityType DEF IInv, Room
    <3>4. /\ IsFiniteSet(Occupied') /\ Cardinality(Occupied') <= Cardinality(Occupied)
          /\ Cardinality(Occupied') \in Nat
      BY <2>1, <3>2, <3>3, FS_Subset, FS_CardinalityType
    <3> QED BY <3>3, <3>4, RingSizes DEF Room
  <2>3. CASE k > 0
    <3>1. /\ IsFiniteSet(ToSet(list)) /\ Cardinality(ToSet(list)) <= Len(list)
          /\ Cardinality(ToSet(list)) \in Nat
      BY <1>5, ToSetCardinality, FS_CardinalityType
    <3>2. /\ IsFiniteSet(Merged \cup ToSet(list))
          /\ Cardinality(Merged \cup ToSet(list))
               = Cardinality(Merged) + Cardinality(ToSet(list)) - Cardinality(Merged \cap ToSet(list))
      BY <1>7, <3>1, FS_Union
    <3>3. Cardinality(Merged \cap ToSet(list)) \in Nat
      <4>1. IsFiniteSet(Merged \cap ToSet(list))
        BY <1>7, FS_Intersection
      <4> QED BY <4>1, FS_CardinalityType
    <3>4. Cardinality(Merged \cup ToSet(list)) <= MaxRunning
      BY <1>4, <1>6, <1>7, <2>3, <3>1, <3>2, <3>3, RingSizes DEF list
    <3> QED BY <2>1, <3>2, <3>4 DEF Room
  <2> QED BY <1>4, <2>2, <2>3
<1> QED BY <1>16, <1>17, <1>19, <1>20 DEF IInv

(* A decode batch: the unfinished requests of running_batch, when no       *)
(* prompt is half done.                                                    *)
LEMMA ScheduleDecodeInv == ASSUME IInv, ScheduleDecode PROVE IInv'
<1> DEFINE B == {r \in Merged : ~Finished(r)}
           list == SetToSeq(B)
           entries == [i \in DOMAIN list |-> DecodeEntry(list[i])]
<1>1. /\ spc = "schedule" /\ Prefills = {} /\ running_batch' = B
      /\ Launch("decode", entries, NoReq)
      /\ UNCHANGED <<arrived, waiting_queue, chunked_req, left, output_ids, result, output_queue>>
      /\ UNCHANGED fwdVars
  BY DEF ScheduleDecode
<1>2. chunked_req = NoReq
  <2>1. 0 \in 0..Len(waiting_queue) /\ 1..(0 - 1) = {} /\ ~(0 > 0)
    BY DEF IInv, PlaceTypes
  <2> QED BY <1>1, <2>1 DEF Prefills
<1>3. /\ Merged \subseteq Req /\ Merged \subseteq Occupied
      /\ Merged \subseteq arrived \ ToSet(waiting_queue) /\ chunked_req \notin Merged
      /\ IsFiniteSet(Merged) /\ Cardinality(Merged) \in Nat /\ Cardinality(Merged) <= MaxRunning
  BY <1>1, MergedPlaces
<1>4. B \subseteq Merged /\ \A r \in B : ~Finished(r)
  OBVIOUS
<1> HIDE DEF B
<1>5. /\ IsFiniteSet(B) /\ Cardinality(B) \in Nat /\ Cardinality(B) <= Cardinality(Merged)
  BY <1>3, <1>4, FS_Subset, FS_CardinalityType
<1>6. /\ list \in Seq(B) /\ Len(list) = Cardinality(B) /\ DOMAIN list = 1..Len(list)
      /\ \A i \in DOMAIN list : list[i] \in B
  BY <1>5, SetToSeqLists, ElementOfSeq
<1>7. Len(list) \in 0..MaxRunning
  BY <1>3, <1>5, <1>6, RingSizes
<1>8. /\ launched \in [Req -> Nat] /\ future \in [Req -> 0..(MapSize - 1)]
      /\ arrived \subseteq Req
  BY DEF IInv, PlaceTypes, PipeTypes
<1>9. /\ DOMAIN entries = DOMAIN list
      /\ \A i \in DOMAIN list : /\ entries[i].req = list[i]
                                /\ entries[i].n = launched[list[i]] + 1
  BY DEF DecodeEntry
<1>10. entries \in Seq(EntryType) /\ Len(entries) = Len(list)
  <2>1. \A r \in Req : DecodeEntry(r) \in EntryType
    BY <1>8 DEF DecodeEntry, EntryType
  <2>2. \A i \in 1..Len(list) : DecodeEntry(list[i]) \in EntryType
    BY <1>3, <1>4, <1>6, <2>1
  <2>3. entries = [i \in 1..Len(list) |-> DecodeEntry(list[i])]
    BY <1>6
  <2>4. entries \in [1..Len(list) -> EntryType]
    BY <2>2, <2>3
  <2> HIDE DEF entries, list
  <2> QED BY <1>7, <2>4
<1> HIDE DEF entries, list
<1>11. \A i \in DOMAIN entries : entries[i].n > 0 =>
         ~Finished(entries[i].req) /\ entries[i].n = launched[entries[i].req] + 1
  BY <1>4, <1>6, <1>9
<1>12. /\ PipeTypes' /\ Shape' /\ Aligned' /\ Masks' /\ Counts' /\ Newest'.entries = entries
       /\ \A r \in Req : ~(\E i \in DOMAIN entries : entries[i].req = r /\ entries[i].n > 0)
                           => launched'[r] = launched[r]
  BY <1>1, <1>7, <1>10, <1>11, LaunchPipe
<1>13. PlaceTypes'
  BY <1>1, <1>3, <1>4 DEF IInv, PlaceTypes
<1>14. ReqsOf(Newest)' \subseteq B
  <2>1. ReqsOf(Newest)' = {entries[i].req : i \in DOMAIN entries}
    BY <1>12 DEF ReqsOf
  <2> QED BY <1>6, <1>9, <2>1
<1>15. Places'
  <2>1. Places
    BY DEF IInv
  <2>2. ASSUME NEW r \in Req, Fresh(r)' PROVE launched'[r] = 0 /\ output_ids'[r] = 0
    <3>1. Fresh(r)
      BY <1>1, <2>2 DEF Fresh
    <3>2. r \notin B
      BY <1>3, <1>4, <3>1 DEF Fresh
    <3>3. launched'[r] = launched[r]
      BY <1>6, <1>9, <1>12, <3>2
    <3> QED BY <1>1, <2>1, <3>1, <3>3 DEF Places
  <2>3. /\ running_batch' \cup ReqsOf(Newest)' \subseteq arrived' \ ToSet(waiting_queue')
        /\ chunked_req' \notin running_batch'
    BY <1>1, <1>3, <1>4, <1>14
  <2> QED BY <1>1, <2>1, <2>2, <2>3 DEF Places
<1>16. Room'
  <2>1. Occupied' = B
    BY <1>1, <1>2, <1>14 DEF Occupied
  <2> QED BY <1>3, <1>5, <2>1, RingSizes DEF Room
<1> QED BY <1>12, <1>13, <1>15, <1>16 DEF IInv

---------------------------------------------------------------------------
(* The invariant                                                           *)

(* It holds when both threads start. *)
LEMMA InitInv == Init => IInv
<1> SUFFICES ASSUME Init PROVE IInv
  OBVIOUS
<1>1. /\ arrived = {} /\ spc = "schedule" /\ waiting_queue = << >> /\ running_batch = {}
      /\ chunked_req = NoReq /\ cur_batch = NoBatch /\ last_batch = NoBatch /\ f_batch = NoBatch
      /\ result_queue = << >> /\ input_queue = << >> /\ output_queue = << >> /\ result = << >>
      /\ left = Chunks /\ fpc = "get" /\ batch_ct = 0 /\ sampling_info_done = {}
      /\ future_token_ids_ct = 0 /\ launched = [r \in Req |-> 0]
      /\ output_ids = [r \in Req |-> 0] /\ vocab_mask = [r \in Req |-> 0]
      /\ future = [r \in Req |-> 0]
  BY DEF Init
<1>2. Ahead = NoBatch /\ Newest = NoBatch /\ Taken = 0 /\ Busy = 0
  BY <1>1 DEF Ahead, Newest, Taken, Busy
<1>3. Len(<< >>) = 0 /\ 1..0 = {} /\ ToSet(<< >>) = {}
  BY DEF ToSet
<1>4. PlaceTypes
  BY <1>1, OverlapAssumption DEF PlaceTypes
<1>5. PipeTypes
  <2>1. 0 \in 0..(MapSize - 1) /\ 0 \in 0..(Limit - 1)
    BY OverlapAssumption DEF MapSize, Limit
  <2> QED BY <1>1, <1>3, <2>1, NoBatchType DEF PipeTypes
<1>6. Shape
  BY <1>1, <1>2, <1>3 DEF Shape, InFlight
<1>7. Aligned
  BY <1>1, <1>2, <1>3 DEF Aligned
<1>8. Masks
  BY <1>1 DEF Masks
<1>9. Counts
  BY <1>1, <1>2, GenType, NoBatchType DEF Counts
<1>10. Places
  BY <1>1, <1>2, <1>3, NoBatchType DEF Places
<1>11. Room
  <2>1. Occupied = {}
    BY <1>1, <1>2, NoBatchType DEF Occupied
  <2> QED BY <2>1, FS_EmptySet, RingSizes DEF Room
<1> QED BY <1>4, <1>5, <1>6, <1>7, <1>8, <1>9, <1>10, <1>11 DEF IInv

(* Every step of either thread keeps it. *)
LEMMA NextInv == IInv /\ [Next]_vars => IInv'
<1> SUFFICES ASSUME IInv, [Next]_vars PROVE IInv'
  OBVIOUS
<1>1. ASSUME NEW r \in Req, Arrive(r) PROVE IInv'
  BY <1>1, ArriveInv
<1>2. CASE SchedulePrefill
  BY <1>2, SchedulePrefillInv
<1>3. CASE ScheduleDecode
  BY <1>3, ScheduleDecodeInv
<1>4. CASE ScheduleNothing
  BY <1>4, ScheduleNothingInv
<1>5. CASE GetResult
  BY <1>5, GetResultInv
<1>6. CASE ProcessResult
  BY <1>6, ProcessResultInv
<1>7. CASE ForwardGet
  BY <1>7, ForwardGetInv
<1>8. CASE Forward
  BY <1>8, ForwardInv
<1>9. CASE Sample
  BY <1>9, SampleInv
<1>10. CASE UNCHANGED vars
  <2>1. UNCHANGED <<arrived, schedVars>> /\ UNCHANGED <<input_queue, output_queue>>
        /\ UNCHANGED fwdVars
    BY <1>10 DEF vars
  <2>2. PlaceTypes' /\ Shape' /\ Masks' /\ Counts' /\ Places' /\ Room'
    BY <2>1, ForwardKeeps
  <2>3. PipeTypes'
    BY <2>1 DEF IInv, PipeTypes, schedVars, fwdVars, Fits
  <2>4. Aligned'
    <3>1. UNCHANGED <<spc, fpc, result_queue, result, output_queue, input_queue, f_batch, Taken, Busy>>
      BY <2>1 DEF schedVars, fwdVars, Taken, Busy
    <3> QED BY <3>1 DEF IInv, Aligned, Tokens
  <2> QED BY <2>2, <2>3, <2>4 DEF IInv
<1> QED BY <1>1, <1>2, <1>3, <1>4, <1>5, <1>6, <1>7, <1>8, <1>9, <1>10
        DEF Next, SchedulerThread, ForwardThread

(* It implies the type invariant. *)
LEMMA InvTypes == IInv => TypeOK
BY DEF IInv, PlaceTypes, PipeTypes, TypeOK, Fits

(* It implies that the scheduler holds the result of the batch it pops. *)
LEMMA InvResults == IInv => ResultMatches
<1> SUFFICES ASSUME IInv, spc = "process"
             PROVE  /\ Len(result) = Len(Popped.entries)
                    /\ \A i \in DOMAIN result : LET e == Popped.entries[i]
                                                IN  result[i] = <<e.req, e.n>>
  BY DEF ResultMatches
<1>1. result_queue \in Seq(BatchType) /\ Len(result_queue) >= 1
  BY DEF IInv, PipeTypes, Shape, InFlight, Ahead
<1>2. Popped = result_queue[1] /\ Popped \in BatchType
  BY <1>1 DEF Popped
<1>3. result = Tokens(Popped)
  BY <1>2 DEF IInv, Aligned
<1>4. /\ DOMAIN result = DOMAIN Popped.entries
      /\ \A i \in DOMAIN result : result[i] = <<Popped.entries[i].req, Popped.entries[i].n>>
  BY <1>3 DEF Tokens
<1>5. DOMAIN Popped.entries = 1..Len(Popped.entries) /\ Len(Popped.entries) \in Nat
  BY <1>2, BatchFields
<1>6. DOMAIN result = 1..Len(result) /\ Len(result) \in Nat
  BY DEF IInv, PipeTypes
<1>7. Len(result) = Len(Popped.entries)
  BY <1>4, <1>5, <1>6
<1> QED BY <1>4, <1>7

(* It implies that a mask that may be used is up to date. *)
LEMMA InvMask == IInv => MaskCurrent
<1> SUFFICES ASSUME IInv, fpc = "sample", MaskReady,
                    NEW i \in DOMAIN f_batch.entries,
                    f_batch.entries[i].req \in Grammar, f_batch.entries[i].n > 0
             PROVE  vocab_mask[f_batch.entries[i].req] = f_batch.entries[i].n - 1
  BY DEF MaskCurrent
<1>1. f_batch.id \in sampling_info_done
  BY DEF MaskReady, ReqsOf
<1>2. f_batch = last_batch /\ last_batch # NoBatch
  <2>1. /\ f_batch = result_queue[Taken + Len(output_queue) + 1]
        /\ Len(result_queue) = Taken + Len(output_queue) + 1 + Len(input_queue)
    BY DEF IInv, Aligned, Busy
  <2>2. Taken \in {0, 1} /\ Len(output_queue) \in Nat /\ Len(input_queue) \in Nat
    BY DEF Taken, IInv, PipeTypes
  <2>3. /\ Len(result_queue) = InFlight(last_batch) + InFlight(Ahead)
        /\ InFlight(last_batch) \in {0, 1} /\ InFlight(Ahead) \in {0, 1}
        /\ InFlight(Ahead) = 1 => InFlight(last_batch) = 1
    BY DEF IInv, Shape, InFlight, Ahead
  <2>4. CASE Taken + Len(output_queue) + 1 = 1
    <3>1. InFlight(last_batch) = 1
      BY <2>1, <2>2, <2>3, <2>4
    <3> QED BY <2>1, <2>4, <3>1 DEF InFlight, IInv, Shape
  <2>5. CASE Taken + Len(output_queue) + 1 = 2
    <3>1. InFlight(Ahead) = 1
      BY <2>1, <2>2, <2>3, <2>5
    <3>2. f_batch = Ahead /\ Ahead # NoBatch
      BY <2>1, <2>5, <3>1 DEF InFlight, IInv, Shape
    <3>3. f_batch.id \notin sampling_info_done
      BY <3>2 DEF IInv, Masks, Ahead
    <3> QED BY <1>1, <3>3
  <2>6. Taken + Len(output_queue) + 1 \in {1, 2}
    BY <2>1, <2>2, <2>3
  <2> QED BY <2>4, <2>5, <2>6
<1>3. vocab_mask = output_ids
  BY <1>2 DEF IInv, Masks
<1>4. f_batch.entries[i].n = output_ids[f_batch.entries[i].req] + 1
  BY <1>2 DEF IInv, Counts
<1>5. f_batch.entries[i].req \in Req /\ output_ids \in [Req -> Nat]
  BY BatchFields DEF IInv, PipeTypes
<1> QED BY <1>3, <1>4, <1>5

---------------------------------------------------------------------------
(* Theorems                                                                *)

(* Type correctness of both threads, for any max_running_requests: the    *)
(* running requests never exceed it, so what a batch writes lies inside    *)
(* future_token_ids_map, five times as long, wherever in the ring of three *)
(* times that length it starts.                                            *)
THEOREM OverlapTypes == Spec => []TypeOK
<1>1. Init => IInv
  BY InitInv
<1>2. IInv /\ [Next]_vars => IInv'
  BY NextInv
<1>3. IInv => TypeOK
  BY InvTypes
<1> QED BY <1>1, <1>2, <1>3, PTL DEF Spec

(* resolve_last_batch_result returns the result of the batch that          *)
(* result_queue.popleft returns, whatever the two threads do in between:   *)
(* every token reaches its own request.                                    *)
THEOREM OverlapResults == Spec => []ResultMatches
<1>1. Init => IInv
  BY InitInv
<1>2. IInv /\ [Next]_vars => IInv'
  BY NextInv
<1>3. IInv => ResultMatches
  BY InvResults
<1> QED BY <1>1, <1>2, <1>3, PTL DEF Spec

(* A token of a request with a grammar is sampled only under the mask that *)
(* knows all its earlier tokens: sampling_info_done of a batch is set no   *)
(* earlier than the batch before it has been processed, and the mask does  *)
(* not change again before the batch is sampled.                           *)
THEOREM OverlapMasks == Spec => []MaskCurrent
<1>1. Init => IInv
  BY InitInv
<1>2. IInv /\ [Next]_vars => IInv'
  BY NextInv
<1>3. IInv => MaskCurrent
  BY InvMask
<1> QED BY <1>1, <1>2, <1>3, PTL DEF Spec

---------------------------------------------------------------------------
(* Placeholders                                                            *)

(* No prompt takes more than c chunks, and the chunks of all the requests  *)
(* but one that can be in the machine do not go round the ring.            *)
Short(c) == c \in Nat \ {0} /\ (MaxRunning - 1) * c < Limit /\ \A r \in Req : Chunks[r] <= c
ShortPrompts == \E c : Short(c)
Longest == CHOOSE c : Short(c)

(* The requests whose next entry will be a decode of their placeholder. *)
Decoding == running_batch \cup (ReqsOf(Newest) \ {chunked_req})

(* How many placeholders can be handed out before the next decode batch:   *)
(* get_new_batch_prefill admits requests until the batch is full, and none *)
(* leaves it before.                                                       *)
ToCome == (MaxRunning - Cardinality(Occupied)) * Longest
          + IF chunked_req = NoReq THEN 0 ELSE left[chunked_req]

(* Placeholder p was handed out a steps of the ring before ct, and will    *)
(* not be met again by the next `room` steps.                              *)
Near(p, ct, room) ==
  \E a \in Nat, q \in Int : ct + q * Limit = p + a /\ a + room < Limit

(* What Sample writes into future_token_ids_map for batch b. *)
Writes(b, p)  == p - b.ct \in DOMAIN b.entries
TokenAt(b, p) == <<b.entries[p - b.ct].req, b.entries[p - b.ct].n>>

(* Index p of map m has token t once the first k batches of q are sampled, *)
(* when d of them are.                                                     *)
HoldsIn(m, q, d, p, t, k) ==
  \/ m[p] = t /\ \A j \in (d + 1)..k : ~Writes(q[j], p)
  \/ \E j \in (d + 1)..k : /\ Writes(q[j], p) /\ TokenAt(q[j], p) = t
                           /\ \A i \in (j + 1)..k : ~Writes(q[i], p)

(* How many batches of result_queue are sampled. *)
Done == Taken + Len(output_queue)
Holds(p, t, k) == HoldsIn(future_token_ids_map, result_queue, Done, p, t, k)

Prompts == \A r \in Req : left[r] >= 1 /\ left[r] <= Chunks[r]

(* A request stays in the machine from its first batch to its first decode *)
(* batch: it is not finished when the batch is merged.                     *)
Kept ==
  /\ Newest.chunked = chunked_req
  /\ Newest.mode = "none" => ReqsOf(Newest) = {}
  /\ Newest.mode = "decode" => ReqsOf(Newest) \subseteq running_batch
  /\ Newest.mode = "extend" => \A r \in ReqsOf(Newest) :
       output_ids[r] = 0 /\ (spc # "schedule" => Gen(last_batch, r) = 0)

(* The ring does not come back to a placeholder that is still needed. *)
Apart == \A r \in Decoding : Near(future[r], future_token_ids_ct, ToCome)

(* A placeholder will have its token when the batches in flight are        *)
(* sampled, and those of a batch when the batches before it are.           *)
Contents ==
  /\ DOMAIN future_token_ids_map = 0..(MapSize - 1)
  /\ \A r \in Decoding : Holds(future[r], <<r, launched[r]>>, Len(result_queue))
  /\ \A j \in (Done + Busy + 1)..Len(result_queue) : \A i \in DOMAIN result_queue[j].entries :
       LET e == result_queue[j].entries[i]
       IN  e.src # 0 => Holds(e.src, <<e.req, e.n - 1>>, j - 1)

RInv == Prompts /\ Kept /\ Apart /\ Contents /\ FuturesResolved

(* The ring has no index twice within its length. *)
LEMMA RingApart ==
  ASSUME NEW p \in Nat, NEW ct \in Nat, NEW room \in Nat, Near(p, ct, room),
         NEW j \in Nat, 1 <= j, j <= room
  PROVE  p # ct + j
<1>1. PICK a \in Nat, q \in Int : ct + q * Limit = p + a /\ a + room < Limit
  BY DEF Near
<1>2. Limit \in Nat /\ Limit > 0
  BY RingSizes
<1>3. SUFFICES ASSUME p = ct + j PROVE FALSE
  OBVIOUS
<1>4. PICK x : x = q * Limit
  OBVIOUS
<1>5. x \in Int
  BY <1>1, <1>2, <1>4
<1>6. x = j + a /\ x >= 1 /\ x < Limit
  BY <1>1, <1>2, <1>3, <1>4, <1>5
<1>7. q <= 0 => x <= 0
  BY <1>2, <1>4
<1>8. q >= 1 => x >= Limit
  BY <1>2, <1>4
<1> QED BY <1>1, <1>2, <1>5, <1>6, <1>7, <1>8

(* Advancing the counter leaves the ring where it was. *)
LEMMA RingWraps ==
  ASSUME NEW ct \in 0..(Limit - 1), NEW e, Len(e) \in Nat
  PROVE  \E k \in Int : Advance(ct, e) + k * Limit = ct + Len(e)
<1>1. PICK l \in Nat : l = Limit /\ l > 0
  BY RingSizes
<1>2. ct + Len(e) \in Nat
  BY <1>1
<1>3. PICK n \in Nat : n = ct + Len(e)
  BY <1>2
<1>4. n \div l \in Int /\ n % l \in Int /\ (n % l) + (n \div l) * l = n
  BY <1>1, SMT
<1>5. PICK k : k = n \div l
  OBVIOUS
<1>6. Advance(ct, e) = n % l
  BY <1>1, <1>3 DEF Advance
<1>7. k \in Int /\ Advance(ct, e) + k * Limit = ct + Len(e)
  BY <1>1, <1>3, <1>4, <1>5, <1>6
<1> QED BY <1>7

(* A placeholder that is left alone comes nearer to the counter. *)
LEMMA NearAdvances ==
  ASSUME NEW p \in Nat, NEW ct \in 0..(Limit - 1), NEW room \in Nat, NEW room2 \in Nat,
         Near(p, ct, room), NEW e, Len(e) \in Nat, room2 + Len(e) <= room
  PROVE  Near(p, Advance(ct, e), room2)
<1>1. PICK a \in Nat, q \in Int : ct + q * Limit = p + a /\ a + room < Limit
  BY DEF Near
<1>2. PICK k \in Int : Advance(ct, e) + k * Limit = ct + Len(e)
  BY RingWraps
<1>3. Limit \in Nat /\ Advance(ct, e) \in Nat
  BY RingSizes, AdvanceInRing
<1>4. (q + k) * Limit = q * Limit + k * Limit /\ q * Limit \in Int /\ k * Limit \in Int
  BY <1>3
<1>5. PICK b \in Nat : b = a + Len(e)
  OBVIOUS
<1>6. PICK z \in Int : z = q + k
  OBVIOUS
<1>7. Advance(ct, e) + z * Limit = p + b
  BY <1>1, <1>2, <1>3, <1>4, <1>5, <1>6
<1>8. b + room2 < Limit
  BY <1>1, <1>3, <1>5
<1> QED BY <1>7, <1>8 DEF Near

(* A new placeholder. *)
LEMMA NearNew ==
  ASSUME NEW ct \in 0..(Limit - 1), NEW room2 \in Nat, NEW e, Len(e) \in Nat,
         NEW i \in 1..Len(e), (Len(e) - 1) + room2 < Limit
  PROVE  Near(ct + i, Advance(ct, e), room2)
<1>1. PICK k \in Int : Advance(ct, e) + k * Limit = ct + Len(e)
  BY RingWraps
<1>2. Limit \in Nat
  BY RingSizes
<1>3. PICK b \in Nat : b = Len(e) - i
  <2>1. Len(e) - i \in Nat
    OBVIOUS
  <2> QED BY <2>1
<1>4. Advance(ct, e) + k * Limit = (ct + i) + b
  BY <1>1, <1>2, <1>3
<1>5. b + room2 < Limit
  BY <1>2, <1>3
<1> QED BY <1>4, <1>5 DEF Near

(* A batch at the end of the queue: what holds before still does, ... *)
LEMMA HoldsBefore ==
  ASSUME NEW m, NEW q, NEW q2, NEW d \in Nat, NEW p, NEW t, NEW k \in Nat,
         \A j \in 1..k : q2[j] = q[j], HoldsIn(m, q, d, p, t, k)
  PROVE  HoldsIn(m, q2, d, p, t, k)
<1>1. \A j \in (d + 1)..k : j \in 1..k /\ \A i \in (j + 1)..k : i \in 1..k
  OBVIOUS
<1> QED BY <1>1 DEF HoldsIn

(* ... and after the batch too, if it writes elsewhere, ... *)
LEMMA HoldsPast ==
  ASSUME NEW m, NEW q, NEW d \in Nat, NEW p, NEW t, NEW k \in Nat,
         HoldsIn(m, q, d, p, t, k), ~Writes(q[k + 1], p)
  PROVE  HoldsIn(m, q, d, p, t, k + 1)
<1>1. \A j \in (d + 1)..(k + 1) : j \in (d + 1)..k \/ j = k + 1
  OBVIOUS
<1>2. \A j \in (d + 1)..k : \A i \in (j + 1)..(k + 1) : i \in (j + 1)..k \/ i = k + 1
  OBVIOUS
<1>3. \A j \in (d + 1)..k : j \in (d + 1)..(k + 1)
  OBVIOUS
<1>4. CASE m[p] = t /\ \A j \in (d + 1)..k : ~Writes(q[j], p)
  BY <1>1, <1>4 DEF HoldsIn
<1>5. CASE \E j \in (d + 1)..k : /\ Writes(q[j], p) /\ TokenAt(q[j], p) = t
                                 /\ \A i \in (j + 1)..k : ~Writes(q[i], p)
  BY <1>2, <1>3, <1>5 DEF HoldsIn
<1> QED BY <1>4, <1>5 DEF HoldsIn

(* ... and what it writes holds. *)
LEMMA HoldsLast ==
  ASSUME NEW m, NEW q, NEW d \in Nat, NEW p, NEW t, NEW k \in Nat, d <= k,
         Writes(q[k + 1], p), TokenAt(q[k + 1], p) = t
  PROVE  HoldsIn(m, q, d, p, t, k + 1)
<1>1. k + 1 \in (d + 1)..(k + 1) /\ (k + 1 + 1)..(k + 1) = {}
  OBVIOUS
<1> QED BY <1>1 DEF HoldsIn

(* The first batch is sampled already and leaves the queue. *)
LEMMA HoldsShifted ==
  ASSUME NEW m, NEW q, NEW q2, NEW d \in Nat, d >= 1, NEW p, NEW t, NEW k \in Nat,
         \A j \in 1..k : q2[j] = q[j + 1], HoldsIn(m, q, d, p, t, k + 1)
  PROVE  HoldsIn(m, q2, d - 1, p, t, k)
<1>1. /\ \A j \in ((d - 1) + 1)..k : j \in 1..k /\ j + 1 \in (d + 1)..(k + 1)
      /\ \A j \in (d + 1)..(k + 1) : j - 1 \in ((d - 1) + 1)..k /\ j - 1 \in 1..k /\ (j - 1) + 1 = j
      /\ \A j \in (d + 1)..(k + 1) : \A i \in ((j - 1) + 1)..k : i \in 1..k /\ i + 1 \in (j + 1)..(k + 1)
  OBVIOUS
<1>2. CASE m[p] = t /\ \A j \in (d + 1)..(k + 1) : ~Writes(q[j], p)
  <2>1. \A j \in ((d - 1) + 1)..k : ~Writes(q2[j], p)
    BY <1>1, <1>2
  <2> QED BY <1>2, <2>1 DEF HoldsIn
<1>3. CASE \E j \in (d + 1)..(k + 1) : /\ Writes(q[j], p) /\ TokenAt(q[j], p) = t
                                       /\ \A i \in (j + 1)..(k + 1) : ~Writes(q[i], p)
  <2>1. PICK j \in (d + 1)..(k + 1) : /\ Writes(q[j], p) /\ TokenAt(q[j], p) = t
                                      /\ \A i \in (j + 1)..(k + 1) : ~Writes(q[i], p)
    BY <1>3
  <2>2. PICK l : l = j - 1
    OBVIOUS
  <2>3. l \in ((d - 1) + 1)..k /\ q2[l] = q[j]
    BY <1>1, <2>2
  <2>4. \A i \in (l + 1)..k : ~Writes(q2[i], p)
    BY <1>1, <2>1, <2>2
  <2> QED BY <2>1, <2>3, <2>4 DEF HoldsIn
<1> QED BY <1>2, <1>3 DEF HoldsIn

(* The next batch is sampled. *)
LEMMA HoldsSampled ==
  ASSUME NEW m, NEW m2, NEW q, NEW d \in Nat, NEW p, NEW t, NEW k \in Nat, k >= d + 1,
         m2[p] = IF Writes(q[d + 1], p) THEN TokenAt(q[d + 1], p) ELSE m[p],
         HoldsIn(m, q, d, p, t, k)
  PROVE  HoldsIn(m2, q, d + 1, p, t, k)
<1>1. /\ d + 1 \in (d + 1)..k
      /\ \A j \in (d + 1)..k : j = d + 1 \/ j \in ((d + 1) + 1)..k
      /\ \A j \in ((d + 1) + 1)..k : j \in (d + 1)..k
  OBVIOUS
<1>2. CASE m[p] = t /\ \A j \in (d + 1)..k : ~Writes(q[j], p)
  BY <1>1, <1>2 DEF HoldsIn
<1>3. CASE \E j \in (d + 1)..k : /\ Writes(q[j], p) /\ TokenAt(q[j], p) = t
                                 /\ \A i \in (j + 1)..k : ~Writes(q[i], p)
  <2>1. PICK j \in (d + 1)..k : /\ Writes(q[j], p) /\ TokenAt(q[j], p) = t
                                /\ \A i \in (j + 1)..k : ~Writes(q[i], p)
    BY <1>3
  <2>2. CASE j = d + 1
    BY <2>1, <2>2 DEF HoldsIn
  <2>3. CASE j \in ((d + 1) + 1)..k
    BY <2>1, <2>3 DEF HoldsIn
  <2> QED BY <1>1, <2>2, <2>3
<1> QED BY <1>2, <1>3 DEF HoldsIn

(* The ring is the same when the scheduler launches nothing. *)
LEMMA RingKept ==
  ASSUME Newest' = Newest,
         UNCHANGED <<running_batch, chunked_req, left, future, future_token_ids_ct>>
  PROVE  /\ Decoding' = Decoding /\ ToCome' = ToCome
         /\ (Prompts => Prompts') /\ (Apart => Apart')
<1>1. Decoding' = Decoding /\ Occupied' = Occupied
  BY DEF Decoding, Occupied
<1>2. ToCome' = ToCome
  BY <1>1 DEF ToCome
<1> QED BY <1>1, <1>2 DEF Prompts, Apart

(* Where the batches are, as numbers. *)
LEMMA QueueNumbers ==
  ASSUME IInv
  PROVE  /\ Len(result_queue) \in Nat /\ Len(output_queue) \in Nat /\ Len(input_queue) \in Nat
         /\ Done \in Nat /\ Busy \in Nat /\ Done + Busy <= Len(result_queue)
         /\ Len(result_queue) = Done + Busy + Len(input_queue)
         /\ \A i \in 1..Len(result_queue) : result_queue[i] \in BatchType
         /\ result_queue \in Seq(BatchType)
<1>1. result_queue \in Seq(BatchType) /\ output_queue \in Seq(Seq(TokenType))
      /\ input_queue \in Seq(BatchType)
  BY DEF IInv, PipeTypes
<1>2. Len(result_queue) \in Nat /\ Len(output_queue) \in Nat /\ Len(input_queue) \in Nat
      /\ \A i \in 1..Len(result_queue) : result_queue[i] \in BatchType
  BY <1>1, LenProperties, ElementOfSeq
<1>3. Taken \in Nat /\ Busy \in Nat
  BY DEF Taken, Busy
<1>4. Len(result_queue) = Taken + Len(output_queue) + Busy + Len(input_queue)
  BY DEF IInv, Aligned
<1> QED BY <1>1, <1>2, <1>3, <1>4 DEF Done

(* resolve_future_token_ids: the batches before are all sampled. *)
LEMMA ForwardGetRing == ASSUME IInv, RInv, ForwardGet PROVE RInv'
<1>1. /\ fpc = "get" /\ fpc' = "forward" /\ input_queue # << >> /\ f_batch' = Head(input_queue)
      /\ f_input' = [i \in DOMAIN Head(input_queue).entries |->
                       IF Head(input_queue).entries[i].src = 0 THEN NoToken
                       ELSE future_token_ids_map[Head(input_queue).entries[i].src]]
      /\ UNCHANGED <<output_queue, future_token_ids_map>> /\ UNCHANGED schedVars
  BY DEF ForwardGet
<1>2. /\ Newest' = Newest /\ Done' = Done /\ Taken' = Taken
      /\ UNCHANGED <<running_batch, chunked_req, left, future, future_token_ids_ct, launched,
                     output_ids, last_batch, result_queue, spc>>
  BY <1>1 DEF schedVars, Newest, Done, Taken
<1>3. Decoding' = Decoding /\ Prompts' /\ Apart'
  BY <1>2, RingKept DEF RInv
<1>4. Kept'
  BY <1>2 DEF RInv, Kept, Gen, Generates
<1>5. Busy = 0 /\ Busy' = 1
  BY <1>1 DEF Busy
<1>6. Contents'
  <2>1. \A j \in (Done + Busy' + 1)..Len(result_queue) : j \in (Done + Busy + 1)..Len(result_queue)
    BY <1>5, QueueNumbers
  <2> QED BY <1>1, <1>2, <1>3, <2>1 DEF RInv, Contents, Holds
<1>7. /\ input_queue \in Seq(BatchType) /\ Len(input_queue) \in Nat
      /\ Head(input_queue) = input_queue[1] /\ 1 \in 1..Len(input_queue)
  <2>1. input_queue \in Seq(BatchType)
    BY DEF IInv, PipeTypes
  <2> QED BY <1>1, <2>1
<1>8. PICK j : j = Done + 1
  OBVIOUS
<1>9. Head(input_queue) = result_queue[j] /\ j \in (Done + Busy + 1)..Len(result_queue)
  <2>1. input_queue[1] = result_queue[Taken + Len(output_queue) + Busy + 1]
    BY <1>7 DEF IInv, Aligned
  <2>2. Taken + Len(output_queue) + Busy + 1 = j
    BY <1>5, <1>8, QueueNumbers DEF Done
  <2>3. j \in (Done + Busy + 1)..Len(result_queue)
    BY <1>5, <1>7, <1>8, QueueNumbers
  <2> QED BY <1>7, <2>1, <2>2, <2>3
<1>10. FuturesResolved'
  <2>1. ASSUME NEW i \in DOMAIN f_input', f_batch'.entries[i].src # 0
        PROVE  f_input'[i] = <<f_batch'.entries[i].req, f_batch'.entries[i].n - 1>>
    <3>1. PICK e : e = result_queue[j].entries[i]
      OBVIOUS
    <3>2. /\ i \in DOMAIN result_queue[j].entries /\ f_batch'.entries[i] = e /\ e.src # 0
          /\ f_input'[i] = future_token_ids_map[e.src]
      BY <1>1, <1>9, <2>1, <3>1
    <3>3. Holds(e.src, <<e.req, e.n - 1>>, j - 1)
      BY <1>9, <3>1, <3>2 DEF RInv, Contents
    <3>4. (Done + 1)..(j - 1) = {}
      BY <1>8, QueueNumbers
    <3>5. future_token_ids_map[e.src] = <<e.req, e.n - 1>>
      BY <3>3, <3>4 DEF Holds, HoldsIn
    <3> QED BY <3>2, <3>5
  <2> QED BY <2>1 DEF FuturesResolved
<1> QED BY <1>3, <1>4, <1>6, <1>10 DEF RInv

(* The forward pass touches no placeholder. *)
LEMMA ForwardRing == ASSUME IInv, RInv, Forward PROVE RInv'
<1>1. /\ Newest' = Newest /\ Done' = Done /\ Busy' = Busy
      /\ UNCHANGED <<running_batch, chunked_req, left, future, future_token_ids_ct, launched,
                     output_ids, last_batch, result_queue, spc, future_token_ids_map, f_batch, f_input>>
  BY DEF Forward, schedVars, Newest, Done, Taken, Busy
<1>2. Decoding' = Decoding /\ Prompts' /\ Apart'
  BY <1>1, RingKept DEF RInv
<1>3. Kept'
  BY <1>1 DEF RInv, Kept, Gen, Generates
<1>4. Contents' /\ FuturesResolved'
  BY <1>1, <1>2 DEF RInv, Contents, Holds, FuturesResolved
<1> QED BY <1>2, <1>3, <1>4 DEF RInv

(* The write to future_token_ids_map. *)
LEMMA SampleRing == ASSUME IInv, RInv, Sample PROVE RInv'
<1>1. /\ fpc = "sample" /\ fpc' = "get" /\ UNCHANGED <<f_batch, f_input>> /\ UNCHANGED schedVars
      /\ future_token_ids_map' =
           [p \in DOMAIN future_token_ids_map |->
              IF p - f_batch.ct \in DOMAIN Tokens(f_batch) THEN Tokens(f_batch)[p - f_batch.ct]
              ELSE future_token_ids_map[p]]
      /\ output_queue' = Append(output_queue, Tokens(f_batch))
  BY DEF Sample, Tokens
<1>2. /\ Newest' = Newest /\ Taken' = Taken
      /\ UNCHANGED <<running_batch, chunked_req, left, future, future_token_ids_ct, launched,
                     output_ids, last_batch, result_queue, spc>>
  BY <1>1 DEF schedVars, Newest, Taken
<1>3. Decoding' = Decoding /\ Prompts' /\ Apart'
  BY <1>2, RingKept DEF RInv
<1>4. Kept'
  BY <1>2 DEF RInv, Kept, Gen, Generates
<1>5. Busy = 1 /\ Busy' = 0
  BY <1>1 DEF Busy
<1>6. Done' = Done + 1
  <2>1. Len(output_queue') = Len(output_queue) + 1
    BY <1>1 DEF IInv, PipeTypes
  <2>2. Taken \in Nat /\ Len(output_queue) \in Nat
    BY QueueNumbers DEF Taken
  <2> QED BY <1>2, <2>1, <2>2 DEF Done
<1>7. f_batch = result_queue[Done + 1]
  BY <1>1 DEF IInv, Aligned, Done
<1>8. DOMAIN future_token_ids_map = 0..(MapSize - 1)
  BY DEF RInv, Contents
<1>9. ASSUME NEW p \in 0..(MapSize - 1), NEW t, NEW k \in Nat, k >= Done + 1, Holds(p, t, k)
      PROVE  Holds(p, t, k)'
  <2>1. DOMAIN Tokens(f_batch) = DOMAIN f_batch.entries
        /\ \A i \in DOMAIN f_batch.entries : Tokens(f_batch)[i] = <<f_batch.entries[i].req, f_batch.entries[i].n>>
    BY DEF Tokens
  <2>2. future_token_ids_map'[p] = IF Writes(f_batch, p) THEN TokenAt(f_batch, p)
                                   ELSE future_token_ids_map[p]
    BY <1>1, <1>8, <2>1 DEF Writes, TokenAt
  <2>3. PICK d \in Nat : d = Done
    BY QueueNumbers
  <2>4. HoldsIn(future_token_ids_map, result_queue, d, p, t, k)
    BY <1>9, <2>3 DEF Holds
  <2>5. PICK m2 : m2 = future_token_ids_map'
    OBVIOUS
  <2>6. m2[p] = IF Writes(result_queue[d + 1], p) THEN TokenAt(result_queue[d + 1], p)
                ELSE future_token_ids_map[p]
    BY <1>7, <2>2, <2>3, <2>5
  <2>7. k >= d + 1
    BY <1>9, <2>3
  <2>8. HoldsIn(m2, result_queue, d + 1, p, t, k)
    BY <2>4, <2>6, <2>7, HoldsSampled
  <2> QED BY <1>2, <1>6, <2>3, <2>5, <2>8 DEF Holds
<1>10. Len(result_queue) \in Nat /\ Len(result_queue) >= Done + 1 /\ Done \in Nat
  BY <1>5, QueueNumbers
<1>11. \A r \in Decoding : Holds(future[r], <<r, launched[r]>>, Len(result_queue))'
  <2>1. \A r \in Decoding : future[r] \in 0..(MapSize - 1)
    BY DEF IInv, PipeTypes, PlaceTypes, Places, Decoding
  <2>2. SUFFICES ASSUME NEW r \in Decoding
                 PROVE  Holds(future[r], <<r, launched[r]>>, Len(result_queue))'
    OBVIOUS
  <2>3. PICK p, t, k : p = future[r] /\ t = <<r, launched[r]>> /\ k = Len(result_queue)
    OBVIOUS
  <2>4. Holds(p, t, k) /\ p \in 0..(MapSize - 1) /\ k \in Nat /\ k >= Done + 1
    BY <1>10, <2>1, <2>3 DEF RInv, Contents
  <2>5. Holds(p, t, k)'
    BY <1>9, <2>4
  <2> QED BY <1>2, <2>3, <2>5
<1>12. ASSUME NEW j \in (Done' + Busy' + 1)..Len(result_queue),
              NEW i \in DOMAIN result_queue[j].entries, result_queue[j].entries[i].src # 0
       PROVE  Holds(result_queue[j].entries[i].src,
                    <<result_queue[j].entries[i].req, result_queue[j].entries[i].n - 1>>, j - 1)'
  <2>1. PICK e : e = result_queue[j].entries[i]
    OBVIOUS
  <2>2. j \in (Done + Busy + 1)..Len(result_queue) /\ j - 1 \in Nat /\ j - 1 >= Done + 1
        /\ j \in 1..Len(result_queue)
    BY <1>5, <1>6, <1>10
  <2>3. e \in EntryType
    <3>1. result_queue[j] \in BatchType
      BY <2>2, QueueNumbers
    <3>2. result_queue[j].entries \in Seq(EntryType)
      BY <3>1, BatchFields
    <3> QED BY <1>12, <2>1, <3>2, ElementOfSeq, LenProperties
  <2>4. PICK p, t, k : p = e.src /\ t = <<e.req, e.n - 1>> /\ k = j - 1
    OBVIOUS
  <2>5. p \in 0..(MapSize - 1)
    BY <2>3, <2>4 DEF EntryType
  <2>6. Holds(p, t, k)
    BY <1>12, <2>1, <2>2, <2>4 DEF RInv, Contents
  <2>7. Holds(p, t, k)'
    BY <1>9, <2>2, <2>4, <2>5, <2>6
  <2> QED BY <1>2, <2>1, <2>4, <2>7
<1>13. Contents'
  <2>1. DOMAIN future_token_ids_map' = 0..(MapSize - 1)
    BY <1>1, <1>8
  <2> QED BY <1>2, <1>3, <1>11, <1>12, <2>1 DEF Contents
<1>14. FuturesResolved'
  BY <1>1 DEF RInv, FuturesResolved
<1> QED BY <1>3, <1>4, <1>13, <1>14 DEF RInv

(* A request that arrives only waits. *)
LEMMA ArriveRing == ASSUME IInv, RInv, NEW r \in Req, Arrive(r) PROVE RInv'
<1>1. /\ Newest' = Newest /\ Done' = Done /\ Busy' = Busy
      /\ UNCHANGED <<running_batch, chunked_req, left, future, future_token_ids_ct, launched,
                     output_ids, last_batch, result_queue, spc, future_token_ids_map, f_batch, f_input>>
  BY DEF Arrive, fwdVars, Newest, Done, Taken, Busy
<1>2. Decoding' = Decoding /\ Prompts' /\ Apart'
  BY <1>1, RingKept DEF RInv
<1>3. Kept'
  BY <1>1 DEF RInv, Kept, Gen, Generates
<1>4. Contents' /\ FuturesResolved'
  BY <1>1, <1>2 DEF RInv, Contents, Holds, FuturesResolved
<1> QED BY <1>2, <1>3, <1>4 DEF RInv

(* resolve_last_batch_result takes a result that was sampled already. *)
LEMMA GetResultRing == ASSUME IInv, RInv, GetResult PROVE RInv'
<1>1. /\ spc = "get" /\ spc' = "process" /\ output_queue # << >> /\ output_queue' = Tail(output_queue)
      /\ UNCHANGED <<running_batch, chunked_req, left, future, future_token_ids_ct, launched, cur_batch,
                     output_ids, last_batch, result_queue, future_token_ids_map, f_batch, f_input, fpc>>
  BY DEF GetResult, fwdVars
<1>2. Newest' = Newest /\ Busy' = Busy
  BY <1>1 DEF Newest, Busy
<1>3. Done' = Done
  <2>1. output_queue \in Seq(Seq(TokenType))
    BY DEF IInv, PipeTypes
  <2>2. Len(output_queue) \in Nat /\ Len(output_queue') = Len(output_queue) - 1
    BY <1>1, <2>1
  <2> QED BY <1>1, <2>2 DEF Done, Taken
<1>4. Decoding' = Decoding /\ Prompts' /\ Apart'
  BY <1>1, <1>2, RingKept DEF RInv
<1>5. Kept'
  BY <1>1, <1>2 DEF RInv, Kept, Gen, Generates
<1>6. Contents' /\ FuturesResolved'
  BY <1>1, <1>2, <1>3, <1>4 DEF RInv, Contents, Holds, FuturesResolved
<1> QED BY <1>4, <1>5, <1>6 DEF RInv

(* No prompt is half done when get_new_batch_prefill finds nothing. *)
LEMMA NoChunk == ASSUME IInv, Prefills = {} PROVE chunked_req = NoReq
<1>1. 0 \in 0..Len(waiting_queue) /\ 1..(0 - 1) = {} /\ ~(0 > 0)
  BY DEF IInv, PlaceTypes
<1> QED BY <1>1 DEF Prefills

(* An idle iteration leaves nobody with a placeholder. *)
LEMMA ScheduleNothingRing == ASSUME IInv, RInv, ScheduleNothing PROVE RInv'
<1>1. /\ spc = "schedule" /\ spc' = "get" /\ Prefills = {} /\ running_batch' = {} /\ cur_batch' = NoBatch
      /\ UNCHANGED <<chunked_req, left, future, future_token_ids_ct, launched, output_queue,
                     output_ids, last_batch, result_queue, future_token_ids_map, f_batch, f_input, fpc>>
  BY DEF ScheduleNothing, fwdVars
<1>2. Newest' = NoBatch /\ Busy' = Busy /\ Done' = Done
  BY <1>1 DEF Newest, Busy, Done, Taken
<1>3. chunked_req = NoReq
  BY <1>1, NoChunk
<1>4. ReqsOf(Newest)' = {}
  BY <1>2, NoBatchType
<1>5. Decoding' = {}
  BY <1>1, <1>4 DEF Decoding
<1>6. Kept'
  BY <1>1, <1>2, <1>3, <1>4 DEF Kept, NoBatch
<1>7. Prompts' /\ Apart'
  BY <1>1, <1>5 DEF RInv, Prompts, Apart
<1>8. Contents' /\ FuturesResolved'
  BY <1>1, <1>2, <1>5 DEF RInv, Contents, Holds, FuturesResolved
<1> QED BY <1>6, <1>7, <1>8 DEF RInv

(* process_batch_result: the oldest batch leaves result_queue, and none of *)
(* its tokens is of a request that is in its first batch.                  *)
LEMMA ProcessResultRing == ASSUME IInv, RInv, ProcessResult PROVE RInv'
<1>1. /\ spc = "process" /\ spc' = "schedule" /\ last_batch' = cur_batch
      /\ result_queue' = Tail(result_queue)
      /\ output_ids' = [r \in Req |->
           IF ~Finished(r) /\ \E i \in DOMAIN Popped.entries :
                Popped.entries[i].req = r /\ Popped.entries[i].n > 0
           THEN output_ids[r] + 1 ELSE output_ids[r]]
      /\ UNCHANGED <<running_batch, chunked_req, left, future, future_token_ids_ct, launched,
                     cur_batch, output_queue, future_token_ids_map, f_batch, f_input, fpc>>
  BY DEF ProcessResult, fwdVars
<1>2. Newest = cur_batch /\ Newest' = cur_batch /\ Busy' = Busy
  BY <1>1 DEF Newest, Busy
<1>3. Done >= 1 /\ Done' = Done - 1 /\ Done \in Nat
  BY <1>1, QueueNumbers DEF Done, Taken
<1>4. /\ result_queue \in Seq(BatchType) /\ result_queue # << >> /\ Popped = result_queue[1]
      /\ Len(result_queue) \in Nat /\ Len(result_queue') = Len(result_queue) - 1
      /\ \A j \in 1..Len(result_queue') : result_queue'[j] = result_queue[j + 1]
  <2>1. result_queue \in Seq(BatchType) /\ Len(result_queue) \in Nat /\ Len(result_queue) >= 1
    BY <1>3, QueueNumbers
  <2>2. result_queue # << >>
    BY <2>1
  <2> QED BY <1>1, <2>1, <2>2, HeadTailProperties DEF Popped
<1>5. Decoding' = Decoding /\ Prompts' /\ Apart'
  BY <1>1, <1>2, RingKept DEF RInv
<1>6. Kept'
  <2>1. Popped = last_batch
    BY <1>1, <1>4 DEF IInv, Shape
  <2>2. ASSUME NEW r \in ReqsOf(cur_batch), cur_batch.mode = "extend" PROVE output_ids'[r] = 0
    <3>1. output_ids[r] = 0 /\ Gen(last_batch, r) = 0
      BY <1>1, <1>2, <2>2 DEF RInv, Kept
    <3>2. ~Generates(last_batch, r)
      BY <3>1 DEF Gen
    <3>3. r \in Req
      BY BatchFields DEF IInv, PipeTypes
    <3> QED BY <1>1, <2>1, <3>1, <3>2, <3>3 DEF Generates
  <2> QED BY <1>1, <1>2, <2>2 DEF RInv, Kept
<1>7. ASSUME NEW p, NEW t, NEW k \in Nat, k <= Len(result_queue'), Holds(p, t, k + 1)
      PROVE  Holds(p, t, k)'
  <2>1. PICK q2, d : q2 = result_queue' /\ d = Done
    OBVIOUS
  <2>2. HoldsIn(future_token_ids_map, result_queue, d, p, t, k + 1)
    BY <1>7, <2>1 DEF Holds
  <2>3. \A j \in 1..k : q2[j] = result_queue[j + 1]
    <3>1. \A j \in 1..k : j \in 1..Len(result_queue')
      BY <1>4, <1>7
    <3> QED BY <1>4, <2>1, <3>1
  <2>4. HoldsIn(future_token_ids_map, q2, d - 1, p, t, k)
    BY <1>3, <2>1, <2>2, <2>3, HoldsShifted
  <2> QED BY <1>1, <1>3, <2>1, <2>4 DEF Holds
<1>8. ASSUME NEW r \in Decoding PROVE Holds(future[r], <<r, launched[r]>>, Len(result_queue))'
  <2>1. PICK p, t, k : p = future[r] /\ t = <<r, launched[r]>> /\ k = Len(result_queue')
    OBVIOUS
  <2>2. k \in Nat /\ k + 1 = Len(result_queue) /\ k <= Len(result_queue')
    BY <1>3, <1>4, <2>1, QueueNumbers
  <2>3. Holds(p, t, k + 1)
    BY <2>1, <2>2 DEF RInv, Contents
  <2>4. Holds(p, t, k)'
    BY <1>7, <2>2, <2>3
  <2> QED BY <1>1, <2>1, <2>4
<1>9. ASSUME NEW j \in (Done' + Busy' + 1)..Len(result_queue'),
             NEW i \in DOMAIN result_queue'[j].entries, result_queue'[j].entries[i].src # 0
      PROVE  Holds(result_queue[j].entries[i].src,
                   <<result_queue[j].entries[i].req, result_queue[j].entries[i].n - 1>>, j - 1)'
  <2>1. PICK e : e = result_queue'[j].entries[i]
    OBVIOUS
  <2>2. /\ j + 1 \in (Done + Busy + 1)..Len(result_queue) /\ j \in 1..Len(result_queue')
        /\ j - 1 \in Nat /\ (j - 1) + 1 = j /\ (j + 1) - 1 = j /\ j - 1 <= Len(result_queue')
    BY <1>2, <1>3, <1>4, QueueNumbers
  <2>3. result_queue'[j] = result_queue[j + 1]
    BY <1>4, <2>2
  <2>4. PICK p, t, k : p = e.src /\ t = <<e.req, e.n - 1>> /\ k = j - 1
    OBVIOUS
  <2>5. Holds(p, t, (j + 1) - 1)
    BY <1>9, <2>1, <2>2, <2>3, <2>4 DEF RInv, Contents
  <2>6. Holds(p, t, k + 1)
    BY <2>2, <2>4, <2>5
  <2>7. Holds(p, t, k)'
    BY <1>7, <2>2, <2>4, <2>6
  <2> QED BY <2>1, <2>4, <2>7
<1>10. Contents'
  BY <1>1, <1>5, <1>8, <1>9 DEF RInv, Contents
<1>11. FuturesResolved'
  BY <1>1 DEF RInv, FuturesResolved
<1> QED BY <1>5, <1>6, <1>10, <1>11 DEF RInv

(* A product of naturals. *)
LEMMA Multiples ==
  ASSUME NEW m \in Nat, NEW k \in Nat, NEW c \in Nat \ {0}
  PROVE  /\ m * c \in Nat /\ k * c \in Nat /\ (m + k) * c = m * c + k * c /\ k * c >= k
         /\ k >= 1 => k * c >= (k - 1) + c
<1>1. m * c \in Nat /\ k * c \in Nat /\ (m + k) * c = m * c + k * c
  OBVIOUS
<1>2. \A n \in Nat : n * c >= n
  <2>1. SUFFICES ASSUME NEW n \in Nat PROVE n * c >= n
    OBVIOUS
  <2>2. PICK b \in Nat : c = b + 1
    <3>1. c - 1 \in Nat /\ c = (c - 1) + 1
      OBVIOUS
    <3> QED BY <3>1
  <2>3. n * c = n * b + n /\ n * b \in Nat
    BY <2>2
  <2> QED BY <2>3
<1>3. k >= 1 => k * c >= (k - 1) + c
  <2>1. SUFFICES ASSUME k >= 1 PROVE k * c >= (k - 1) + c
    OBVIOUS
  <2>2. PICK n \in Nat : k = n + 1
    <3>1. k - 1 \in Nat /\ k = (k - 1) + 1
      BY <2>1
    <3> QED BY <3>1
  <2>3. k * c = n * c + c /\ n * c \in Nat /\ n * c >= n
    BY <1>2, <2>2
  <2> QED BY <2>2, <2>3
<1> QED BY <1>1, <1>2, <1>3

(* A prefill batch takes its placeholders from those to come: n requests   *)
(* are in the machine, k come in, x and y are the chunks that the chunked  *)
(* request lacks before and after.                                         *)
LEMMA PrefillTakes ==
  ASSUME NEW M \in Nat, NEW n \in Nat, NEW k \in Nat, NEW d \in {0, 1}, NEW c \in Nat \ {0},
         NEW x \in Nat, NEW y \in Nat, n + k <= M,
         k = 0 => d = 1 /\ y + 1 = x, k > 0 => x = d /\ y < c
  PROVE  ((M - (n + k)) * c + y) + (k + d) <= (M - n) * c + x
<1>1. PICK m \in Nat : m = M - (n + k)
  <2>1. M - (n + k) \in Nat
    OBVIOUS
  <2> QED BY <2>1
<1>2. M - n = m + k
  BY <1>1
<1>3. PICK u, v, w : u = m * c /\ v = k * c /\ w = (m + k) * c
  OBVIOUS
<1>4. u \in Nat /\ v \in Nat /\ w = u + v /\ v >= k /\ (k >= 1 => v >= (k - 1) + c)
  BY <1>3, Multiples
<1>5. (u + y) + (k + d) <= w + x
  BY <1>4
<1> QED BY <1>1, <1>2, <1>3, <1>5

(* A new batch of l placeholders and all that can follow it fit the ring:  *)
(* n requests are in the machine, y chunks of one of them are to come.     *)
LEMMA LaunchFits ==
  ASSUME NEW M \in Nat, NEW n \in Nat, NEW l \in Nat, NEW c \in Nat \ {0}, NEW y \in Nat,
         1 <= l, l <= n, n <= M, y # 0 => y < c /\ l >= 2
  PROVE  (l - 1) + ((M - n) * c + y) <= (M - 1) * c
<1>1. PICK m \in Nat : m = M - n
  <2>1. M - n \in Nat
    OBVIOUS
  <2> QED BY <2>1
<1>2. PICK i \in Nat : i = l - 1
  <2>1. l - 1 \in Nat
    OBVIOUS
  <2> QED BY <2>1
<1>3. PICK j \in Nat : j = n - l
  <2>1. n - l \in Nat
    OBVIOUS
  <2> QED BY <2>1
<1>4. M - 1 = (m + j) + i
  BY <1>1, <1>2, <1>3
<1>5. PICK u, v, w : u = m * c /\ v = j * c /\ w = i * c
  OBVIOUS
<1>6. /\ u \in Nat /\ v \in Nat /\ w \in Nat /\ (m + j) * c = u + v
      /\ w >= i /\ (i >= 1 => w >= (i - 1) + c)
  BY <1>5, Multiples
<1>7. ((m + j) + i) * c = (m + j) * c + i * c
  <2>1. m + j \in Nat
    OBVIOUS
  <2> QED BY <2>1, Multiples
<1>8. i + (u + y) <= (u + v) + w
  BY <1>2, <1>6
<1> QED BY <1>1, <1>2, <1>4, <1>5, <1>6, <1>7, <1>8

(* What the bound on the prompts says. *)
LEMMA LongestShort ==
  ASSUME ShortPrompts
  PROVE  Longest \in Nat \ {0} /\ (MaxRunning - 1) * Longest < Limit
         /\ \A r \in Req : Chunks[r] <= Longest
BY DEF ShortPrompts, Short, Longest

(* A launch, whatever its entries: the placeholders that are still needed  *)
(* are left alone and the new ones get their tokens.                       *)
LEMMA LaunchRing ==
  ASSUME IInv, IInv', RInv, spc = "schedule", UNCHANGED output_queue, UNCHANGED fwdVars,
         NEW mode, NEW entries \in Seq(EntryType), NEW chunked, Launch(mode, entries, chunked),
         \A r \in Decoding' : r \in Req,
         \A r \in Decoding' : r \in {entries[i].req : i \in DOMAIN entries} \/ r \in Decoding,
         \A i \in DOMAIN entries : entries[i].req \in Decoding' =>
           entries[i].n = launched'[entries[i].req],
         \A r \in Decoding : r \in Decoding' /\ r \notin {entries[i].req : i \in DOMAIN entries}
           => launched'[r] = launched[r],
         ToCome \in Nat, ToCome' \in Nat,
         \A r \in Decoding' : r \notin {entries[i].req : i \in DOMAIN entries}
           => ToCome' + Len(entries) <= ToCome,
         \A r \in Decoding' : r \in {entries[i].req : i \in DOMAIN entries}
           => (Len(entries) - 1) + ToCome' < Limit,
         \A i \in DOMAIN entries : entries[i].src # 0 =>
           /\ entries[i].req \in Decoding /\ entries[i].src = future[entries[i].req]
           /\ entries[i].n = launched[entries[i].req] + 1
  PROVE  Apart' /\ Contents' /\ FuturesResolved'
<1> DEFINE b == [id |-> batch_ct + 1, mode |-> mode, entries |-> entries,
                 ct |-> future_token_ids_ct, chunked |-> chunked]
           Reqs == {entries[i].req : i \in DOMAIN entries}
<1>1. PICK ct : ct = future_token_ids_ct
  OBVIOUS
<1>2. /\ result_queue' = Append(result_queue, b)
      /\ future_token_ids_ct' = Advance(ct, entries)
      /\ spc' \in {"schedule", "get"}
      /\ UNCHANGED <<future_token_ids_map, f_batch, f_input, fpc, output_queue>>
  BY <1>1 DEF Launch, fwdVars
<1>3. b.entries = entries /\ b.ct = ct
  BY <1>1
<1>4. future' = [r \in Req |-> IF r \in Reqs
                   THEN ct + (CHOOSE i \in DOMAIN entries : entries[i].req = r)
                   ELSE future[r]]
  BY <1>1 DEF Launch, ReqsOf
<1>5. /\ ct \in 0..(Limit - 1) /\ ct \in Nat /\ future \in [Req -> 0..(MapSize - 1)]
      /\ Len(entries) \in Nat /\ DOMAIN entries = 1..Len(entries)
      /\ \A i \in DOMAIN entries : entries[i].req \in Req /\ entries[i].n \in Nat
                                   /\ entries[i].src \in 0..(MapSize - 1)
      /\ MapSize \in Nat
  <2>1. ct \in 0..(Limit - 1) /\ future \in [Req -> 0..(MapSize - 1)]
    BY <1>1 DEF IInv, PipeTypes
  <2>2. Limit \in Nat /\ MapSize \in Nat
    BY RingSizes
  <2>3. Len(entries) \in Nat /\ DOMAIN entries = 1..Len(entries)
        /\ \A i \in DOMAIN entries : entries[i] \in EntryType
    BY ElementOfSeq, LenProperties
  <2> QED BY <2>1, <2>2, <2>3 DEF EntryType
<1>6. /\ result_queue \in Seq(BatchType) /\ result_queue' \in Seq(BatchType)
      /\ Len(result_queue) \in Nat /\ Len(result_queue') = Len(result_queue) + 1
      /\ \A j \in 1..Len(result_queue) : result_queue'[j] = result_queue[j]
      /\ result_queue'[Len(result_queue) + 1] = b
  <2>1. result_queue \in Seq(BatchType) /\ Len(result_queue) \in Nat
    BY QueueNumbers
  <2>2. result_queue' \in Seq(BatchType)
    BY DEF IInv, PipeTypes
  <2> HIDE DEF b
  <2> QED BY <1>2, <2>1, <2>2
<1>7. Done' = Done /\ Busy' = Busy /\ Done \in Nat /\ Done <= Len(result_queue) /\ Busy \in Nat
      /\ Done + Busy <= Len(result_queue)
  <2>1. Taken = 0 /\ Taken' = 0 /\ Busy' = Busy
    BY <1>2 DEF Taken, Busy
  <2>2. Done \in Nat /\ Busy \in Nat /\ Done + Busy <= Len(result_queue) /\ Len(result_queue) \in Nat
    BY QueueNumbers
  <2> QED BY <1>2, <2>1, <2>2 DEF Done
<1> HIDE DEF b
<1>8. ASSUME NEW r \in Decoding', r \in Reqs
      PROVE  \E i \in DOMAIN entries : entries[i].req = r /\ future'[r] = ct + i
  <2>1. PICK i : i = CHOOSE j \in DOMAIN entries : entries[j].req = r
    OBVIOUS
  <2>2. i \in DOMAIN entries /\ entries[i].req = r
    BY <1>8, <2>1
  <2> QED BY <1>4, <1>8, <2>1, <2>2
<1>9. ASSUME NEW r \in Decoding', r \notin Reqs
      PROVE  r \in Decoding /\ future'[r] = future[r] /\ future[r] \in Nat
             /\ Near(future[r], ct, ToCome) /\ ToCome' + Len(entries) <= ToCome
  <2>1. r \in Req /\ r \in Decoding
    BY <1>9
  <2>2. Near(future[r], ct, ToCome)
    BY <1>1, <2>1 DEF RInv, Apart
  <2>3. future[r] \in Nat /\ future'[r] = future[r]
    BY <1>4, <1>5, <1>9, <2>1
  <2> QED BY <1>9, <2>1, <2>2, <2>3
<1>10. Apart'
  <2>1. SUFFICES ASSUME NEW r \in Decoding' PROVE Near(future'[r], future_token_ids_ct', ToCome')
    BY DEF Apart
  <2>2. CASE r \in Reqs
    <3>1. PICK i \in DOMAIN entries : entries[i].req = r /\ future'[r] = ct + i
      BY <1>8, <2>2
    <3>2. PICK room : room = ToCome'
      OBVIOUS
    <3>3. Near(ct + i, Advance(ct, entries), room)
      BY <1>5, <2>2, <3>2, NearNew
    <3> QED BY <1>2, <3>1, <3>2, <3>3
  <2>3. CASE r \notin Reqs
    <3>1. PICK p, room, room2 : p = future[r] /\ room = ToCome /\ room2 = ToCome'
      OBVIOUS
    <3>2. p \in Nat /\ Near(p, ct, room) /\ room2 + Len(entries) <= room /\ future'[r] = p
      BY <1>9, <2>3, <3>1
    <3>3. Near(p, Advance(ct, entries), room2)
      BY <1>5, <3>1, <3>2, NearAdvances
    <3> QED BY <1>2, <3>1, <3>2, <3>3
  <2> QED BY <2>2, <2>3
<1>11. PICK q, q2, d, l : q = result_queue /\ q2 = result_queue' /\ d = Done /\ l = Len(result_queue)
  OBVIOUS
<1>12. l \in Nat /\ d \in Nat /\ d <= l /\ q2[l + 1] = b /\ \A j \in 1..l : q2[j] = q[j]
  BY <1>6, <1>7, <1>11
<1>13. ASSUME NEW p, NEW t, NEW k \in Nat, k <= l, Holds(p, t, k)
       PROVE  Holds(p, t, k)' /\ HoldsIn(future_token_ids_map, q2, d, p, t, k)
  <2>1. HoldsIn(future_token_ids_map, q, d, p, t, k)
    BY <1>11, <1>13 DEF Holds
  <2>2. \A j \in 1..k : q2[j] = q[j]
    BY <1>12, <1>13
  <2>3. HoldsIn(future_token_ids_map, q2, d, p, t, k)
    BY <1>12, <2>1, <2>2, HoldsBefore
  <2> QED BY <1>2, <1>7, <1>11, <2>3 DEF Holds
<1>14. ASSUME NEW p, NEW t, HoldsIn(future_token_ids_map, q2, d, p, t, l + 1)
       PROVE  Holds(p, t, Len(result_queue))'
  BY <1>2, <1>6, <1>7, <1>11, <1>14 DEF Holds
<1>15. ASSUME NEW r \in Decoding' PROVE Holds(future[r], <<r, launched[r]>>, Len(result_queue))'
  <2>1. PICK p, t : p = future'[r] /\ t = <<r, launched'[r]>>
    OBVIOUS
  <2>2. CASE r \in Reqs
    <3>1. PICK i \in DOMAIN entries : entries[i].req = r /\ p = ct + i
      BY <1>8, <2>1, <2>2
    <3>2. entries[i].n = launched'[r]
      BY <3>1
    <3>3. p - ct = i
      BY <1>5, <3>1
    <3>4. Writes(q2[l + 1], p) /\ TokenAt(q2[l + 1], p) = t
      BY <1>3, <1>12, <2>1, <3>1, <3>2, <3>3 DEF Writes, TokenAt
    <3>5. HoldsIn(future_token_ids_map, q2, d, p, t, l + 1)
      BY <1>12, <3>4, HoldsLast
    <3>6. Holds(p, t, Len(result_queue))'
      BY <1>14, <3>5
    <3> QED BY <2>1, <3>6
  <2>3. CASE r \notin Reqs
    <3>1. /\ r \in Decoding /\ p = future[r] /\ p \in Nat /\ Near(p, ct, ToCome)
          /\ ToCome' + Len(entries) <= ToCome
      BY <1>9, <2>1, <2>3
    <3>2. t = <<r, launched[r]>>
      BY <2>1, <2>3, <3>1
    <3>3. ~Writes(q2[l + 1], p)
      <4>1. ASSUME p - ct \in 1..Len(entries) PROVE FALSE
        <5>1. PICK j \in Nat : j = p - ct
          BY <4>1
        <5>2. PICK room \in Nat : room = ToCome
          OBVIOUS
        <5>3. 1 <= j /\ j <= room /\ p = ct + j
          BY <1>5, <3>1, <4>1, <5>1, <5>2
        <5>4. Near(p, ct, room)
          BY <3>1, <5>2
        <5> QED BY <1>5, <3>1, <5>3, <5>4, RingApart
      <4> QED BY <1>3, <1>5, <1>12, <4>1 DEF Writes
    <3>4. Holds(p, t, l)
      BY <1>11, <3>1, <3>2 DEF RInv, Contents
    <3>5. HoldsIn(future_token_ids_map, q2, d, p, t, l)
      BY <1>12, <1>13, <3>4
    <3>6. HoldsIn(future_token_ids_map, q2, d, p, t, l + 1)
      BY <1>12, <3>3, <3>5, HoldsPast
    <3>7. Holds(p, t, Len(result_queue))'
      BY <1>14, <3>6
    <3> QED BY <2>1, <3>7
  <2> QED BY <2>2, <2>3
<1>16. ASSUME NEW j \in (Done' + Busy' + 1)..Len(result_queue'),
              NEW i \in DOMAIN result_queue'[j].entries, result_queue'[j].entries[i].src # 0
       PROVE  Holds(result_queue[j].entries[i].src,
                    <<result_queue[j].entries[i].req, result_queue[j].entries[i].n - 1>>, j - 1)'
  <2>1. PICK e : e = result_queue'[j].entries[i]
    OBVIOUS
  <2>2. PICK p, t, k : p = e.src /\ t = <<e.req, e.n - 1>> /\ k = j - 1
    OBVIOUS
  <2>3. k \in Nat /\ k <= l /\ (j \in (Done + Busy + 1)..Len(result_queue) \/ j = Len(result_queue) + 1)
    BY <1>6, <1>7, <1>11, <2>2
  <2>4. Holds(p, t, k)
    <3>1. CASE j \in (Done + Busy + 1)..Len(result_queue)
      <4>1. j \in 1..Len(result_queue)
        BY <1>6, <1>7, <3>1
      <4>2. e = result_queue[j].entries[i] /\ i \in DOMAIN result_queue[j].entries /\ e.src # 0
        BY <1>6, <1>16, <2>1, <4>1
      <4> QED BY <2>2, <3>1, <4>2 DEF RInv, Contents
    <3>2. CASE j = Len(result_queue) + 1
      <4>1. i \in DOMAIN entries /\ e = entries[i] /\ e.src # 0
        BY <1>3, <1>6, <1>16, <2>1, <3>2
      <4>2. e.req \in Decoding /\ e.src = future[e.req] /\ e.n = launched[e.req] + 1
        BY <4>1
      <4>3. launched[e.req] \in Nat
        BY <1>5, <4>1 DEF IInv, PipeTypes
      <4>4. e.n - 1 = launched[e.req]
        BY <4>2, <4>3
      <4>5. k = Len(result_queue)
        BY <1>6, <2>2, <3>2
      <4> QED BY <2>2, <4>2, <4>4, <4>5 DEF RInv, Contents
    <3> QED BY <2>3, <3>1, <3>2
  <2>5. Holds(p, t, k)'
    BY <1>13, <2>3, <2>4
  <2> QED BY <2>1, <2>2, <2>5
<1>17. Contents'
  BY <1>2, <1>15, <1>16 DEF RInv, Contents
<1>18. FuturesResolved'
  BY <1>2 DEF RInv, FuturesResolved
<1> QED BY <1>10, <1>17, <1>18

(* The merge keeps every request of the last batch but the chunked one. *)
LEMMA MergedAll ==
  ASSUME IInv, RInv, spc = "schedule"
  PROVE  Merged = Decoding /\ Occupied = Merged \cup ({chunked_req} \ {NoReq})
<1>1. Newest = last_batch /\ last_batch \in BatchType /\ ReqsOf(last_batch) \subseteq Req
  BY BatchFields DEF Newest, IInv, PipeTypes
<1>2. last_batch.mode \in {"none", "extend", "decode"}
  BY <1>1 DEF BatchType
<1>3. last_batch.chunked = chunked_req /\ chunked_req \notin running_batch
  BY <1>1 DEF RInv, Kept, IInv, Places
<1>4. CASE last_batch.mode = "extend"
  <2>1. \A r \in ReqsOf(last_batch) : ~Finished(r)
    <3>1. SUFFICES ASSUME NEW r \in ReqsOf(last_batch) PROVE ~Finished(r)
      OBVIOUS
    <3>2. output_ids[r] = 0
      BY <1>1, <1>4 DEF RInv, Kept
    <3>3. MaxNew[r] \in Nat \ {0}
      BY <1>1, OverlapAssumption
    <3> QED BY <3>2, <3>3 DEF Finished
  <2>2. Merged = running_batch \cup (ReqsOf(last_batch) \ {chunked_req})
    BY <1>3, <1>4, <2>1 DEF Merged
  <2>3. chunked_req \in ReqsOf(last_batch) => chunked_req # NoReq
    BY <1>1, OverlapAssumption
  <2> QED BY <1>1, <2>2, <2>3 DEF Decoding, Occupied
<1>5. CASE last_batch.mode # "extend"
  <2>1. ReqsOf(last_batch) \subseteq running_batch
    BY <1>1, <1>2, <1>5 DEF RInv, Kept
  <2>2. Merged = running_batch
    BY <1>5 DEF Merged
  <2> QED BY <1>1, <2>1, <2>2 DEF Decoding, Occupied
<1> QED BY <1>4, <1>5

(* The new batch is the newest one. *)
LEMMA LaunchNewest ==
  ASSUME IInv, spc = "schedule", NEW mode, NEW entries, NEW chunked, Launch(mode, entries, chunked)
  PROVE  /\ Newest'.mode = mode /\ Newest'.chunked = chunked /\ Newest'.entries = entries
         /\ spc' # "schedule" => last_batch' = last_batch /\ last_batch # NoBatch
         /\ launched' = [r \in Req |-> IF \E i \in DOMAIN entries : entries[i].req = r /\ entries[i].n > 0
                                       THEN launched[r] + 1 ELSE launched[r]]
<1> DEFINE b == [id |-> batch_ct + 1, mode |-> mode, entries |-> entries,
                 ct |-> future_token_ids_ct, chunked |-> chunked]
<1>1. /\ cur_batch' = b
      /\ spc' = (IF last_batch = NoBatch THEN "schedule" ELSE "get")
      /\ last_batch' = (IF last_batch = NoBatch THEN b ELSE last_batch)
      /\ launched' = [r \in Req |-> IF \E i \in DOMAIN entries : entries[i].req = r /\ entries[i].n > 0
                                    THEN launched[r] + 1 ELSE launched[r]]
  BY DEF Launch
<1>2. b.mode = mode /\ b.chunked = chunked /\ b.entries = entries
  OBVIOUS
<1> HIDE DEF b
<1>3. Newest' = b
  BY <1>1 DEF Newest
<1> QED BY <1>1, <1>2, <1>3

(* SetToSeq misses nobody. *)
LEMMA SetToSeqCovers ==
  ASSUME NEW S, IsFiniteSet(S)
  PROVE  \A x \in S : \E i \in 1..Cardinality(S) : SetToSeq(S)[i] = x
<1>1. Cardinality(S) \in Nat /\ \E f \in [1..Cardinality(S) -> S] : IsInjective(f)
  <2>1. Cardinality(S) \in Nat /\ ExistsBijection(1..Cardinality(S), S)
    BY FS_CardinalityType
  <2>2. PICK f \in Bijection(1..Cardinality(S), S) : TRUE
    BY <2>1 DEF ExistsBijection
  <2>3. f \in [1..Cardinality(S) -> S] /\ IsInjective(f)
    BY <2>2 DEF Bijection, Injection, IsInjective
  <2> QED BY <2>1, <2>3
<1>2. PICK f : f = SetToSeq(S)
  OBVIOUS
<1>3. f \in [1..Cardinality(S) -> S] /\ IsInjective(f)
  BY <1>1, <1>2 DEF SetToSeq
<1> DEFINE R == {f[i] : i \in 1..Cardinality(S)}
<1>4. R \subseteq S
  BY <1>3
<1>5. f \in Bijection(1..Cardinality(S), R)
  BY <1>3 DEF Bijection, Injection, Surjection, IsInjective
<1>6. IsFiniteSet(1..Cardinality(S)) /\ Cardinality(1..Cardinality(S)) = Cardinality(S)
  BY <1>1, FS_Interval
<1> HIDE DEF R
<1>7. IsFiniteSet(R) /\ Cardinality(R) = Cardinality(S)
  BY <1>5, <1>6, FS_Bijection DEF ExistsBijection
<1>8. R = S
  BY <1>4, <1>7, FS_Subset
<1> QED BY <1>2, <1>8 DEF R

(* A decode batch renews the placeholder of every request that goes on. *)
LEMMA ScheduleDecodeRing == ASSUME IInv, IInv', RInv, ShortPrompts, ScheduleDecode PROVE RInv'
<1>1. PICK B : B = {r \in Merged : ~Finished(r)}
  OBVIOUS
<1>2. PICK list : list = SetToSeq(B)
  OBVIOUS
<1>3. PICK entries : entries = [i \in DOMAIN list |-> DecodeEntry(list[i])]
  OBVIOUS
<1>4. /\ spc = "schedule" /\ Prefills = {} /\ B # {} /\ running_batch' = B
      /\ Launch("decode", entries, NoReq)
      /\ UNCHANGED <<chunked_req, left, output_ids, output_queue>> /\ UNCHANGED fwdVars
  BY <1>1, <1>2, <1>3 DEF ScheduleDecode
<1>5. chunked_req = NoReq /\ chunked_req' = NoReq
  BY <1>4, NoChunk
<1>6. /\ Merged \subseteq Req /\ IsFiniteSet(Merged) /\ Cardinality(Merged) \in Nat
      /\ Cardinality(Merged) <= MaxRunning /\ Merged = Decoding
  BY <1>4, MergedPlaces, MergedAll
<1>7. B \subseteq Merged /\ B \subseteq Req
  BY <1>1, <1>6
<1>8. /\ IsFiniteSet(B) /\ Cardinality(B) \in Nat /\ Cardinality(B) <= Cardinality(Merged)
      /\ Cardinality(B) >= 1
  <2>1. IsFiniteSet(B) /\ Cardinality(B) \in Nat /\ Cardinality(B) <= Cardinality(Merged)
    BY <1>6, <1>7, FS_Subset, FS_CardinalityType
  <2>2. Cardinality(B) # 0
    BY <1>4, <2>1, FS_EmptySet
  <2> QED BY <2>1, <2>2
<1>9. /\ Len(list) = Cardinality(B) /\ DOMAIN list = 1..Cardinality(B)
      /\ \A i \in DOMAIN list : list[i] \in B
      /\ \A r \in B : \E i \in DOMAIN list : list[i] = r
  <2>1. list \in Seq(B) /\ Len(list) = Cardinality(B) /\ DOMAIN list = 1..Cardinality(B)
    BY <1>2, <1>8, SetToSeqLists
  <2>2. \A i \in DOMAIN list : list[i] \in B
    BY <2>1, ElementOfSeq
  <2> QED BY <1>2, <1>8, <2>1, <2>2, SetToSeqCovers
<1>10. launched \in [Req -> Nat] /\ future \in [Req -> 0..(MapSize - 1)]
  BY DEF IInv, PipeTypes
<1>11. /\ DOMAIN entries = 1..Cardinality(B)
       /\ \A i \in DOMAIN entries : /\ entries[i].req = list[i] /\ entries[i].req \in B
                                    /\ entries[i].n = launched[list[i]] + 1
                                    /\ entries[i].src = future[list[i]]
  BY <1>3, <1>9 DEF DecodeEntry
<1>12. entries \in Seq(EntryType) /\ Len(entries) = Cardinality(B)
  <2>1. \A r \in Req : DecodeEntry(r) \in EntryType
    BY <1>10 DEF DecodeEntry, EntryType
  <2>2. \A i \in 1..Cardinality(B) : DecodeEntry(list[i]) \in EntryType
    BY <1>7, <1>9, <2>1
  <2>3. entries \in [1..Cardinality(B) -> EntryType]
    BY <1>3, <1>9, <2>2
  <2> QED BY <1>8, <2>3
<1>13. {entries[i].req : i \in DOMAIN entries} = B
  <2>1. \A r \in B : \E i \in DOMAIN entries : entries[i].req = r
    BY <1>9, <1>11
  <2> QED BY <1>11, <2>1
<1>14. /\ Newest'.mode = "decode" /\ Newest'.chunked = NoReq /\ Newest'.entries = entries
       /\ launched' = [r \in Req |-> IF \E i \in DOMAIN entries : entries[i].req = r /\ entries[i].n > 0
                                     THEN launched[r] + 1 ELSE launched[r]]
  BY <1>4, LaunchNewest
<1>15. ReqsOf(Newest)' = B
  BY <1>13, <1>14 DEF ReqsOf
<1>16. Decoding' = B /\ Occupied' = B
  BY <1>4, <1>5, <1>15 DEF Decoding, Occupied
<1>17. PICK c, n, M : c = Longest /\ n = Cardinality(B) /\ M = MaxRunning
  OBVIOUS
<1>18. /\ c \in Nat \ {0} /\ (M - 1) * c < Limit /\ n \in Nat /\ M \in Nat /\ n <= M /\ 1 <= n
       /\ Limit \in Nat
  BY <1>6, <1>8, <1>17, LongestShort, RingSizes
<1>19. ToCome' = (M - n) * c
  <2>1. M - n \in Nat /\ (M - n) * c \in Nat
    BY <1>18
  <2> QED BY <1>5, <1>16, <1>17, <2>1 DEF ToCome
<1>20. ToCome' \in Nat /\ (n - 1) + ToCome' < Limit
  <2>1. (n - 1) + ((M - n) * c + 0) <= (M - 1) * c
    BY <1>18, LaunchFits
  <2>2. M - n \in Nat /\ (M - n) * c \in Nat /\ (M - 1) * c \in Int
    BY <1>18
  <2> QED BY <1>18, <1>19, <2>1, <2>2
<1>21. ToCome \in Nat
  <2>1. Cardinality(Occupied) \in Nat /\ Cardinality(Occupied) <= MaxRunning
    BY FS_CardinalityType DEF IInv, Room
  <2>2. PICK k \in Nat : k = MaxRunning - Cardinality(Occupied)
    <3>1. MaxRunning - Cardinality(Occupied) \in Nat
      BY <2>1, RingSizes
    <3> QED BY <3>1
  <2>3. k * c \in Nat
    BY <1>18
  <2> QED BY <1>5, <1>17, <2>2, <2>3 DEF ToCome
<1>22. \A i \in DOMAIN entries : entries[i].n = launched'[entries[i].req]
  <2>1. SUFFICES ASSUME NEW i \in DOMAIN entries PROVE entries[i].n = launched'[entries[i].req]
    OBVIOUS
  <2>2. PICK r : r = entries[i].req
    OBVIOUS
  <2>3. r \in Req /\ launched[r] \in Nat /\ entries[i].n = launched[r] + 1
    BY <1>7, <1>10, <1>11, <2>2
  <2>4. entries[i].n > 0
    BY <2>3
  <2> QED BY <1>14, <2>2, <2>3, <2>4
<1>23. \A i \in DOMAIN entries :
         /\ entries[i].req \in Decoding /\ entries[i].src = future[entries[i].req]
         /\ entries[i].n = launched[entries[i].req] + 1
  BY <1>6, <1>7, <1>11
<1>24. Apart' /\ Contents' /\ FuturesResolved'
  <2>1. \A r \in Decoding' : r \in Req /\ r \in {entries[i].req : i \in DOMAIN entries}
    BY <1>7, <1>13, <1>16
  <2>2. (Len(entries) - 1) + ToCome' < Limit
    BY <1>12, <1>17, <1>20
  <2> QED BY <1>4, <1>12, <1>20, <1>21, <1>22, <1>23, <2>1, <2>2, LaunchRing
<1>25. Prompts'
  BY <1>4 DEF RInv, Prompts
<1>26. Kept'
  BY <1>4, <1>5, <1>14, <1>15 DEF Kept
<1> QED BY <1>24, <1>25, <1>26 DEF RInv

(* At most the last request of can_run_list is cut, and the chunked        *)
(* request only when it runs alone.                                        *)
LEMMA OneCut ==
  ASSUME IInv, NEW k \in Prefills, NEW cut, cut = {r \in ToSet(CanRunList(k)) : left[r] > 1}
  PROVE  /\ k \in Nat /\ k <= Len(waiting_queue) /\ Len(waiting_queue) \in Nat
         /\ k = 0 => chunked_req # NoReq /\ cut \subseteq {chunked_req}
         /\ k > 0 => cut \subseteq {waiting_queue[k]} /\ (chunked_req # NoReq => left[chunked_req] = 1)
<1>1. Len(waiting_queue) \in Nat /\ left \in [Req -> Nat] /\ waiting_queue \in Seq(Req)
  BY DEF IInv, PlaceTypes
<1>2. /\ k \in 0..Len(waiting_queue) /\ (k = 0 => chunked_req # NoReq)
      /\ (k > 0 => (chunked_req # NoReq => left[chunked_req] = 1))
      /\ \A i \in 1..(k - 1) : left[waiting_queue[i]] = 1
  BY DEF Prefills
<1>3. k \in Nat /\ k <= Len(waiting_queue)
  BY <1>1, <1>2
<1>4. ToSet(CanRunList(k)) = ({chunked_req} \ {NoReq}) \cup {waiting_queue[i] : i \in 1..k}
  BY <1>2, CanRunListPlaces
<1>5. CASE k = 0
  <2>1. {waiting_queue[i] : i \in 1..k} = {}
    BY <1>5
  <2> QED BY <1>1, <1>2, <1>3, <1>4, <1>5, <2>1
<1>6. CASE k > 0
  <2>1. SUFFICES ASSUME NEW r \in cut PROVE r = waiting_queue[k]
    BY <1>1, <1>2, <1>3, <1>6
  <2>2. left[r] > 1 /\ r \in ({chunked_req} \ {NoReq}) \cup {waiting_queue[i] : i \in 1..k}
    BY <1>4
  <2>3. r # chunked_req \/ r = NoReq
    BY <1>2, <1>6, <2>2
  <2>4. PICK i \in 1..k : r = waiting_queue[i]
    BY <2>2, <2>3
  <2>5. i \notin 1..(k - 1)
    BY <1>2, <2>2, <2>4
  <2>6. i = k
    BY <1>3, <2>5
  <2> QED BY <2>4, <2>6
<1> QED BY <1>3, <1>5, <1>6

(* The first k requests of waiting_queue are k requests. *)
LEMMA FirstWaiting ==
  ASSUME IInv, NEW k \in 0..Len(waiting_queue), NEW W, W = {waiting_queue[i] : i \in 1..k}
  PROVE  IsFiniteSet(W) /\ Cardinality(W) = k /\ W \subseteq ToSet(waiting_queue)
<1>1. /\ waiting_queue \in Seq(Req) /\ Len(waiting_queue) \in Nat
      /\ DOMAIN waiting_queue = 1..Len(waiting_queue)
      /\ \A i, j \in 1..Len(waiting_queue) : waiting_queue[i] = waiting_queue[j] => i = j
  BY LenProperties DEF IInv, PlaceTypes, Places
<1>2. \A i \in 1..k : i \in 1..Len(waiting_queue)
  BY <1>1
<1>3. PICK f : f = [i \in 1..k |-> waiting_queue[i]]
  OBVIOUS
<1>4. f \in Bijection(1..k, W)
  BY <1>1, <1>2, <1>3 DEF Bijection, Injection, Surjection, IsInjective
<1>5. IsFiniteSet(1..k) /\ Cardinality(1..k) = k
  BY <1>1, FS_Interval
<1>6. IsFiniteSet(W) /\ Cardinality(W) = k
  BY <1>4, <1>5, FS_Bijection DEF ExistsBijection
<1> QED BY <1>1, <1>2, <1>6 DEF ToSet

(* A prefill batch: the placeholders of the running requests stay out of   *)
(* its way, and so will those it hands out.                                *)
LEMMA SchedulePrefillRing == ASSUME IInv, IInv', RInv, ShortPrompts, SchedulePrefill PROVE RInv'
<1>1. PICK k \in Prefills :
        LET list == CanRunList(k)
            cut  == {r \in ToSet(list) : left[r] > 1}
            c    == IF cut = {} THEN NoReq ELSE CHOOSE r \in cut : TRUE
        IN  /\ chunked_req' = c
            /\ waiting_queue' = SubSeq(waiting_queue, k + 1, Len(waiting_queue))
            /\ left' = [r \in Req |-> IF r \in cut THEN left[r] - 1 ELSE left[r]]
            /\ running_batch' = Merged
            /\ Launch("extend", [i \in DOMAIN list |-> PrefillEntry(list[i])], c)
  BY DEF SchedulePrefill
<1>2. PICK list : list = CanRunList(k)
  OBVIOUS
<1>3. PICK cut : cut = {r \in ToSet(list) : left[r] > 1}
  OBVIOUS
<1>4. PICK entries : entries = [i \in DOMAIN list |-> PrefillEntry(list[i])]
  OBVIOUS
<1>5. /\ chunked_req' = (IF cut = {} THEN NoReq ELSE CHOOSE r \in cut : TRUE)
      /\ left' = [r \in Req |-> IF r \in cut THEN left[r] - 1 ELSE left[r]]
      /\ running_batch' = Merged /\ Launch("extend", entries, chunked_req')
      /\ spc = "schedule" /\ UNCHANGED <<output_ids, output_queue>> /\ UNCHANGED fwdVars
  <2>1. /\ chunked_req' = (IF cut = {} THEN NoReq ELSE CHOOSE r \in cut : TRUE)
        /\ left' = [r \in Req |-> IF r \in cut THEN left[r] - 1 ELSE left[r]]
        /\ running_batch' = Merged
    BY <1>1, <1>2, <1>3
  <2>2. Launch("extend", entries, IF cut = {} THEN NoReq ELSE CHOOSE r \in cut : TRUE)
    BY <1>1, <1>2, <1>3, <1>4
  <2>3. Launch("extend", entries, chunked_req')
    BY <2>1, <2>2
  <2>4. spc = "schedule" /\ UNCHANGED <<output_ids, output_queue>> /\ UNCHANGED fwdVars
    BY DEF SchedulePrefill
  <2> QED BY <2>1, <2>3, <2>4
<1>6. /\ left \in [Req -> Nat] /\ launched \in [Req -> Nat] /\ chunked_req \in Req \cup {NoReq}
      /\ output_ids \in [Req -> Nat]
  BY DEF IInv, PlaceTypes, PipeTypes
<1>7. /\ k \in Nat /\ k \in 0..Len(waiting_queue)
      /\ k = 0 => chunked_req # NoReq /\ cut \subseteq {chunked_req}
      /\ k > 0 => cut \subseteq {waiting_queue[k]} /\ (chunked_req # NoReq => left[chunked_req] = 1)
  BY <1>2, <1>3, OneCut
<1>8. PICK W : W = {waiting_queue[i] : i \in 1..k}
  OBVIOUS
<1>9. IsFiniteSet(W) /\ Cardinality(W) = k /\ W \subseteq ToSet(waiting_queue)
  BY <1>7, <1>8, FirstWaiting
<1>10. PICK d : d = IF chunked_req = NoReq THEN 0 ELSE 1
  OBVIOUS
<1>11. /\ list \in Seq(Req) /\ ToSet(list) = ({chunked_req} \ {NoReq}) \cup W
       /\ Len(list) = k + d /\ d \in {0, 1}
  BY <1>2, <1>7, <1>8, <1>10, CanRunListPlaces
<1>12. /\ Len(list) \in Nat /\ DOMAIN list = 1..Len(list) /\ \A i \in DOMAIN list : list[i] \in Req
       /\ ToSet(list) \subseteq Req /\ NoReq \notin Req
  BY <1>11, LenProperties, ElementOfSeq, OverlapAssumption DEF ToSet
<1>13. /\ Merged \subseteq Req /\ Merged \cap ToSet(waiting_queue) = {} /\ chunked_req \notin Merged
       /\ IsFiniteSet(Merged) /\ Merged = Decoding
       /\ Occupied = Merged \cup ({chunked_req} \ {NoReq})
       /\ chunked_req \notin ToSet(waiting_queue)
  BY <1>5, MergedPlaces, MergedAll DEF IInv, Places
<1>14. \A r \in ToSet(list) : r \in Req /\ launched[r] = 0 /\ output_ids[r] = 0 /\ ~Finished(r)
  <2>1. \A r \in ToSet(list) : r \in Req /\ Fresh(r)
    BY <1>9, <1>11, <1>12 DEF Fresh
  <2> QED BY <2>1, FreshUnfinished
<1>15. /\ DOMAIN entries = 1..Len(list)
       /\ \A i \in DOMAIN entries : /\ entries[i].req = list[i] /\ list[i] \in ToSet(list)
                                    /\ entries[i].n = (IF left[list[i]] > 1 THEN 0 ELSE launched[list[i]] + 1)
                                    /\ entries[i].src = 0
  BY <1>4, <1>12 DEF PrefillEntry, ToSet
<1>16. entries \in Seq(EntryType) /\ Len(entries) = k + d
  <2>1. 0 \in 0..(MapSize - 1)
    BY RingSizes, OverlapAssumption DEF MapSize
  <2>2. \A r \in Req : PrefillEntry(r) \in EntryType
    BY <1>6, <2>1 DEF PrefillEntry, EntryType
  <2>3. \A i \in 1..Len(list) : PrefillEntry(list[i]) \in EntryType
    BY <1>12, <2>2
  <2>4. entries \in [1..Len(list) -> EntryType]
    BY <1>4, <1>12, <2>3
  <2> QED BY <1>11, <1>12, <2>4
<1>17. {entries[i].req : i \in DOMAIN entries} = ToSet(list)
  BY <1>12, <1>15 DEF ToSet
<1>18. /\ Newest'.mode = "extend" /\ Newest'.chunked = chunked_req' /\ Newest'.entries = entries
       /\ spc' # "schedule" => last_batch' = last_batch /\ last_batch # NoBatch
       /\ launched' = [r \in Req |-> IF \E i \in DOMAIN entries : entries[i].req = r /\ entries[i].n > 0
                                     THEN launched[r] + 1 ELSE launched[r]]
  BY <1>5, LaunchNewest
<1>19. ReqsOf(Newest)' = ToSet(list)
  BY <1>17, <1>18 DEF ReqsOf
<1>20. /\ cut \subseteq ToSet(list) /\ (cut = {} => chunked_req' = NoReq)
       /\ (cut # {} => chunked_req' \in cut) /\ \A r \in cut : r = chunked_req'
  <2>1. \A r, s \in cut : r = s
    BY <1>7
  <2>2. cut # {} => chunked_req' \in cut
    BY <1>5
  <2> QED BY <1>3, <1>5, <2>1, <2>2
<1>21. Decoding' = Merged \cup (ToSet(list) \ {chunked_req'})
  BY <1>5, <1>19 DEF Decoding
<1>22. Occupied' = Occupied \cup W
  <2>1. Occupied' = Merged \cup ToSet(list)
    BY <1>5, <1>19, <1>20 DEF Occupied
  <2> QED BY <1>11, <1>13, <2>1
<1>23. PICK c, n, M, x, y : /\ c = Longest /\ n = Cardinality(Occupied) /\ M = MaxRunning
                            /\ x = IF chunked_req = NoReq THEN 0 ELSE left[chunked_req]
                            /\ y = IF chunked_req' = NoReq THEN 0 ELSE left'[chunked_req']
  OBVIOUS
<1>24. n \in Nat /\ d <= n /\ n + k <= M /\ M \in Nat /\ Cardinality(Occupied') = n + k
  <2>1. IsFiniteSet(Occupied) /\ Cardinality(Occupied) \in Nat
    BY FS_CardinalityType DEF IInv, Room
  <2>2. Occupied \cap W = {}
    BY <1>9, <1>13
  <2>3. Cardinality(Occupied \cup W) = Cardinality(Occupied) + Cardinality(W) - Cardinality(Occupied \cap W)
    BY <1>9, <2>1, FS_Union
  <2>4. Cardinality(Occupied \cap W) = 0
    BY <2>2, FS_EmptySet
  <2>5. Cardinality(Occupied') = n + k
    BY <1>7, <1>9, <1>22, <1>23, <2>1, <2>3, <2>4
  <2>6. Cardinality(Occupied') <= MaxRunning
    BY DEF IInv, Room
  <2>7. d <= n
    <3>1. CASE d = 0
      BY <1>23, <2>1, <3>1
    <3>2. CASE d = 1
      <4>1. chunked_req \in Occupied
        BY <1>10, <1>13, <3>2
      <4>2. n # 0
        BY <1>23, <2>1, <4>1, FS_EmptySet
      <4> QED BY <1>23, <2>1, <3>2, <4>2
    <3> QED BY <1>11, <3>1, <3>2
  <2> QED BY <1>23, <2>1, <2>5, <2>6, <2>7, RingSizes
<1>25. c \in Nat \ {0} /\ (M - 1) * c < Limit /\ Limit \in Nat /\ \A r \in Req : Chunks[r] <= c
  BY <1>23, LongestShort, RingSizes
<1>26. \A r \in Req : left[r] \in Nat /\ left[r] >= 1 /\ left[r] <= c
  <2>1. SUFFICES ASSUME NEW r \in Req PROVE left[r] \in Nat /\ left[r] >= 1 /\ left[r] <= c
    OBVIOUS
  <2>2. left[r] >= 1 /\ left[r] <= Chunks[r] /\ left[r] \in Nat /\ Chunks[r] \in Nat
    BY <1>6, OverlapAssumption DEF RInv, Prompts
  <2> QED BY <1>25, <2>2
<1>27. chunked_req' # NoReq => /\ chunked_req' \in cut /\ chunked_req' \in Req /\ left[chunked_req'] > 1
                               /\ y = left[chunked_req'] - 1
  <2>1. chunked_req' # NoReq => chunked_req' \in cut
    BY <1>20
  <2>2. \A r \in cut : r \in Req /\ left[r] > 1
    BY <1>3, <1>12
  <2>3. \A r \in cut : left'[r] = left[r] - 1
    BY <1>5, <2>2
  <2> QED BY <1>23, <2>1, <2>2, <2>3
<1>28. y \in Nat /\ y < c
  <2>1. CASE chunked_req' = NoReq
    BY <1>23, <1>25, <2>1
  <2>2. CASE chunked_req' # NoReq
    <3>1. PICK z : z = left[chunked_req']
      OBVIOUS
    <3>2. z \in Nat /\ z > 1 /\ z <= c /\ y = z - 1
      BY <1>26, <1>27, <2>2, <3>1
    <3> QED BY <1>25, <3>2
  <2> QED BY <2>1, <2>2
<1>29. x \in Nat /\ (k = 0 => d = 1 /\ y + 1 = x) /\ (k > 0 => x = d)
  <2>1. x \in Nat
    BY <1>6, <1>23
  <2>2. k > 0 => x = d
    BY <1>7, <1>10, <1>23
  <2>3. ASSUME k = 0 PROVE d = 1 /\ y + 1 = x
    <3>1. chunked_req # NoReq /\ chunked_req \in Req /\ d = 1 /\ x = left[chunked_req]
      BY <1>6, <1>7, <1>10, <1>23, <2>3
    <3>2. x >= 1
      BY <1>26, <3>1
    <3>3. CASE left[chunked_req] > 1
      <4>1. chunked_req \in cut
        BY <1>3, <1>11, <3>1, <3>3
      <4>2. chunked_req' = chunked_req
        BY <1>20, <4>1
      <4>3. y = x - 1
        BY <1>27, <3>1, <4>2
      <4> QED BY <2>1, <3>1, <4>3
    <3>4. CASE ~(left[chunked_req] > 1)
      <4>1. cut = {}
        BY <1>3, <1>7, <2>3, <3>4
      <4>2. y = 0
        BY <1>20, <1>23, <4>1
      <4> QED BY <2>1, <3>1, <3>2, <3>4, <4>2
    <3> QED BY <3>3, <3>4
  <2> QED BY <2>1, <2>2, <2>3
<1>30. /\ ToCome = (M - n) * c + x /\ ToCome' = (M - (n + k)) * c + y
       /\ ToCome \in Nat /\ ToCome' \in Nat
  <2>1. ToCome = (M - n) * c + x /\ ToCome' = (M - (n + k)) * c + y
    BY <1>23, <1>24 DEF ToCome
  <2>2. M - n \in Nat /\ M - (n + k) \in Nat
    BY <1>7, <1>24
  <2>3. (M - n) * c \in Nat /\ (M - (n + k)) * c \in Nat
    BY <1>25, <2>2
  <2> QED BY <1>28, <1>29, <2>1, <2>3
<1>31. ToCome' + Len(entries) <= ToCome
  <2>1. ((M - (n + k)) * c + y) + (k + d) <= (M - n) * c + x
    BY <1>7, <1>11, <1>24, <1>25, <1>28, <1>29, PrefillTakes
  <2> QED BY <1>16, <1>30, <2>1
<1>32. ASSUME NEW r \in ToSet(list), r # chunked_req' PROVE (Len(entries) - 1) + ToCome' < Limit
  <2>1. PICK l, n2 : l = k + d /\ n2 = n + k
    OBVIOUS
  <2>2. l \in Nat /\ n2 \in Nat /\ 1 <= l /\ l <= n2 /\ n2 <= M
    BY <1>7, <1>11, <1>24, <1>29, <2>1
  <2>3. y # 0 => l >= 2
    <3>1. SUFFICES ASSUME y # 0, l = 1 PROVE FALSE
      BY <2>2
    <3>2. chunked_req' \in ToSet(list)
      BY <1>20, <1>23, <3>1
    <3>3. CASE k = 0
      <4>1. W = {}
        BY <1>8, <3>3
      <4> QED BY <1>11, <1>32, <3>2, <4>1
    <3>4. CASE k = 1 /\ d = 0
      <4>1. chunked_req = NoReq /\ W = {waiting_queue[1]}
        BY <1>8, <1>10, <3>4
      <4> QED BY <1>11, <1>32, <3>2, <4>1
    <3> QED BY <1>7, <1>11, <2>1, <3>1, <3>3, <3>4
  <2>4. (l - 1) + ((M - n2) * c + y) <= (M - 1) * c
    BY <1>24, <1>25, <1>28, <2>2, <2>3, LaunchFits
  <2>5. PICK u, v : u = (M - n2) * c + y /\ v = (M - 1) * c
    OBVIOUS
  <2>6. ToCome' = u /\ Len(entries) = l /\ v < Limit /\ (l - 1) + u <= v
    BY <1>16, <1>25, <1>30, <2>1, <2>4, <2>5
  <2>7. u \in Nat /\ v \in Int
    <3>1. M - 1 \in Int
      BY <1>24
    <3> QED BY <1>25, <1>30, <2>5, <2>6, <3>1
  <2> QED BY <1>25, <2>2, <2>6, <2>7
<1>33. \A i \in DOMAIN entries : entries[i].req \in Decoding' => entries[i].n = launched'[entries[i].req]
  <2>1. SUFFICES ASSUME NEW i \in DOMAIN entries, entries[i].req \in Decoding'
                 PROVE  entries[i].n = launched'[entries[i].req]
    OBVIOUS
  <2>2. PICK r : r = entries[i].req
    OBVIOUS
  <2>3. r \in ToSet(list) /\ r = list[i] /\ r \in Req
    BY <1>12, <1>15, <2>2
  <2>4. r \notin Merged
    BY <1>9, <1>11, <1>13, <2>3
  <2>5. r # chunked_req'
    BY <1>21, <2>1, <2>2, <2>4
  <2>6. ~(left[r] > 1)
    BY <1>3, <1>20, <2>3, <2>5
  <2>7. entries[i].n = launched[r] + 1 /\ launched[r] \in Nat
    BY <1>6, <1>15, <2>3, <2>6
  <2>8. entries[i].n > 0
    BY <2>7
  <2> QED BY <1>18, <2>2, <2>3, <2>7, <2>8
<1>34. Apart' /\ Contents' /\ FuturesResolved'
  <2>1. \A r \in Decoding' : r \in Req
    BY <1>12, <1>13, <1>21
  <2>2. \A r \in Decoding' : r \in {entries[i].req : i \in DOMAIN entries} \/ r \in Decoding
    BY <1>13, <1>17, <1>21
  <2>3. \A r \in Decoding : r \in Decoding' /\ r \notin {entries[i].req : i \in DOMAIN entries}
          => launched'[r] = launched[r]
    BY <1>13, <1>18
  <2>4. \A r \in Decoding' : r \in {entries[i].req : i \in DOMAIN entries}
          => (Len(entries) - 1) + ToCome' < Limit
    <3>1. \A r \in Decoding' : r \in ToSet(list) => r # chunked_req'
      BY <1>9, <1>11, <1>13, <1>21
    <3> QED BY <1>17, <1>32, <3>1
  <2>5. \A i \in DOMAIN entries : entries[i].src # 0 => FALSE
    BY <1>15
  <2> QED BY <1>5, <1>16, <1>30, <1>31, <1>33, <2>1, <2>2, <2>3, <2>4, <2>5, LaunchRing
<1>35. Prompts'
  <2>1. SUFFICES ASSUME NEW r \in Req PROVE left'[r] >= 1 /\ left'[r] <= Chunks[r]
    BY DEF Prompts
  <2>2. left[r] \in Nat /\ left[r] >= 1 /\ left[r] <= Chunks[r] /\ Chunks[r] \in Nat
    BY <1>6, OverlapAssumption DEF RInv, Prompts
  <2>3. left'[r] = IF r \in cut THEN left[r] - 1 ELSE left[r]
    BY <1>5
  <2>4. r \in cut => left[r] > 1
    BY <1>3
  <2> QED BY <2>2, <2>3, <2>4
<1>36. Kept'
  <2>1. ASSUME NEW r \in ToSet(list) PROVE output_ids'[r] = 0 /\ (spc' # "schedule" => Gen(last_batch', r) = 0)
    <3>1. output_ids[r] = 0 /\ launched[r] = 0 /\ ~Finished(r) /\ r \in Req
      BY <1>14
    <3>2. launched[r] = output_ids[r] + Gen(last_batch, r) + Gen(Ahead, r)
      BY <3>1 DEF IInv, Counts
    <3>3. Gen(last_batch, r) \in {0, 1} /\ Gen(Ahead, r) \in {0, 1}
      BY GenType
    <3>4. Gen(last_batch, r) = 0
      BY <3>1, <3>2, <3>3
    <3> QED BY <1>5, <1>18, <3>1, <3>4
  <2> QED BY <1>18, <1>19, <2>1 DEF Kept, Gen, Generates
<1> QED BY <1>34, <1>35, <1>36 DEF RInv

(* It holds when both threads start. *)
LEMMA InitRing == Init => RInv
<1> SUFFICES ASSUME Init PROVE RInv
  OBVIOUS
<1>1. /\ spc = "schedule" /\ running_batch = {} /\ chunked_req = NoReq /\ last_batch = NoBatch
      /\ result_queue = << >> /\ output_queue = << >> /\ left = Chunks /\ fpc = "get"
      /\ f_input = << >> /\ future_token_ids_map = [i \in 0..(MapSize - 1) |-> NoToken]
  BY DEF Init
<1>2. Newest = NoBatch /\ ReqsOf(Newest) = {} /\ Done = 0 /\ Busy = 0 /\ Len(result_queue) = 0
  BY <1>1, NoBatchType DEF Newest, Done, Taken, Busy
<1>3. Decoding = {}
  BY <1>1, <1>2 DEF Decoding
<1>4. Prompts
  <2>1. \A r \in Req : Chunks[r] \in Nat \ {0}
    BY OverlapAssumption
  <2>2. \A x \in Nat \ {0} : x >= 1 /\ x <= x
    OBVIOUS
  <2> QED BY <1>1, <2>1, <2>2 DEF Prompts
<1>5. Kept
  BY <1>1, <1>2 DEF Kept, NoBatch
<1>6. Apart
  BY <1>3 DEF Apart
<1>7. Contents
  <2>1. (Done + Busy + 1)..Len(result_queue) = {}
    BY <1>2
  <2> QED BY <1>1, <1>3, <2>1 DEF Contents
<1>8. FuturesResolved
  BY <1>1 DEF FuturesResolved
<1> QED BY <1>4, <1>5, <1>6, <1>7, <1>8 DEF RInv

(* Every step keeps it, as long as the prompts are short. *)
LEMMA NextRing == IInv /\ IInv' /\ RInv /\ ShortPrompts /\ [Next]_vars => RInv'
<1> SUFFICES ASSUME IInv, IInv', RInv, ShortPrompts, [Next]_vars PROVE RInv'
  OBVIOUS
<1>1. CASE \E r \in Req : Arrive(r)
  BY <1>1, ArriveRing
<1>2. CASE SchedulerThread
  BY <1>2, SchedulePrefillRing, ScheduleDecodeRing, ScheduleNothingRing, GetResultRing,
     ProcessResultRing DEF SchedulerThread
<1>3. CASE ForwardThread
  BY <1>3, ForwardGetRing, ForwardRing, SampleRing DEF ForwardThread
<1>4. CASE UNCHANGED vars
  <2>1. /\ Newest' = Newest /\ Done' = Done /\ Busy' = Busy
        /\ UNCHANGED <<running_batch, chunked_req, left, future, future_token_ids_ct, launched,
                       output_ids, last_batch, result_queue, spc, future_token_ids_map, f_batch, f_input>>
    BY <1>4 DEF vars, schedVars, fwdVars, Newest, Done, Taken, Busy
  <2>2. Decoding' = Decoding /\ Prompts' /\ Apart'
    BY <2>1, RingKept DEF RInv
  <2>3. Kept'
    BY <2>1 DEF RInv, Kept, Gen, Generates
  <2>4. Contents' /\ FuturesResolved'
    BY <2>1, <2>2 DEF RInv, Contents, Holds, FuturesResolved
  <2> QED BY <2>2, <2>3, <2>4 DEF RInv
<1> QED BY <1>1, <1>2, <1>3, <1>4 DEF Next

(* Every placeholder is resolved to the token it stands for, if the chunks *)
(* of max_running_requests - 1 prompts never go round the ring of          *)
(* 3 * max_running_requests indices (future_token_ids_limit): at most three*)
(* chunks for every prompt are always few enough.                          *)
THEOREM OverlapFutures == Spec /\ ShortPrompts => []FuturesResolved
<1>1. Init /\ ShortPrompts => IInv /\ RInv /\ ShortPrompts
  BY InitInv, InitRing
<1>2. (IInv /\ RInv /\ ShortPrompts) /\ [Next]_vars => (IInv /\ RInv /\ ShortPrompts)'
  <2>1. ShortPrompts' = ShortPrompts
    BY DEF ShortPrompts, Short, Limit
  <2> QED BY <2>1, NextInv, NextRing
<1>3. IInv /\ RInv /\ ShortPrompts => FuturesResolved
  BY DEF RInv
<1> QED BY <1>1, <1>2, <1>3, PTL DEF Spec
=============================================================================
