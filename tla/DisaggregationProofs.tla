------------------------ MODULE DisaggregationProofs ------------------------
(***************************************************************************)
(* The safety properties of module Disaggregation, for every deployment.   *)
(*                                                                         *)
(* The inductive invariant has three parts.  Memory: the types, a request  *)
(* in one queue of each server, the statuses that are polled, the metadata *)
(* buffers and the pages divided among those that hold them, and pages     *)
(* enough for all that the requests may still ask for.  Protocol, which    *)
(* needs Memory: the chunks in order, and what each side knows of the other*)
(* at each stage of a request.  Transfers, which needs both and holds where*)
(* a failed transfer ends the request on every rank: while a rank has      *)
(* something to transfer both servers wait for it, what it has transferred *)
(* is written, and what decodes is intact.                                 *)
(***************************************************************************)
EXTENDS Disaggregation, QueueLemmas

---------------------------------------------------------------------------
(* The inductive invariant: types                                          *)

StatusValue == {Absent, Failed, Bootstrapping, WaitingForInput, Success}
FinalValue == {Absent, Failed, Success}
Chunk      == [room : Req, page : Nat \ {0}, is_last : BOOLEAN]
ToPrefill  == [type : {"register"}, room : {Empty}] \cup [type : {"init"}, room : Req]
ToDecode   == [room : Req, status : {Failed, Success}]
Outcome    == {"no", "ok", "failed"}
PBuffer    == 1..PrefillMeta
DBuffer    == 1..DecodeMeta
Page       == 1..Pages

PrefillTypes ==
  /\ config \in Configs /\ alive \in BOOLEAN /\ p_arrived \in SUBSET Req
  /\ bootstrap_queue \in Seq(Req) /\ p_waiting \in Seq(Req) /\ inflight_queue \in Seq(Req)
  /\ Distinct(bootstrap_queue) /\ Distinct(p_waiting) /\ Distinct(inflight_queue)
  /\ sent \in [Req -> Nat] /\ pending \in SUBSET (Rank \X Req) /\ p_done \in [Req -> Outcome]
  /\ p_free \in Seq(PBuffer) /\ p_meta \in [Req -> PBuffer \cup {0}] /\ DOMAIN p_aux = PBuffer
  /\ p_status \in [Rank -> [Req -> StatusValue]] /\ p_conclude \in [Rank -> [Req -> FinalValue]]

ThreadTypes ==
  /\ transfer_infos \in [Rank -> SUBSET Req] /\ transfer_queue \in [Rank -> Seq(Chunk)]
  /\ worker \in [Rank -> Chunk \cup {NoChunk}] /\ failed_sessions \in SUBSET Rank
  /\ to_prefill \in [Rank -> Seq(ToPrefill)] /\ to_decode \in [Rank -> Seq(ToDecode)]
  /\ connected \in SUBSET Rank
  /\ DOMAIN kv = Rank /\ \A k \in Rank : DOMAIN kv[k] = Page
  /\ DOMAIN aux = Rank /\ \A k \in Rank : DOMAIN aux[k] = DBuffer

DecodeTypes ==
  /\ d_arrived \in SUBSET Req /\ waiting_for_input \in SUBSET Req
  /\ prealloc_queue \in Seq(Req) /\ transfer_q \in Seq(Req) /\ d_waiting \in Seq(Req)
  /\ Distinct(prealloc_queue) /\ Distinct(transfer_q) /\ Distinct(d_waiting)
  /\ last_batch \in SUBSET Req /\ running_batch \in SUBSET Req
  /\ d_free \in Seq(DBuffer) /\ d_meta \in [Req -> DBuffer \cup {0}]
  /\ d_status \in [Rank -> [Req -> StatusValue]] /\ d_conclude \in [Rank -> [Req -> FinalValue]]
  /\ row \in [Req -> Seq(Page)] /\ free_pages \in SUBSET Page /\ free_rows \in Nat
  /\ out_len \in [Req -> Nat] /\ d_done \in [Req -> Outcome]

(* A request is in one queue or batch of each server. *)
PrefillPlaces ==
  /\ ToSet(bootstrap_queue) \cup ToSet(p_waiting) \cup ToSet(inflight_queue) \subseteq p_arrived
  /\ ToSet(bootstrap_queue) \cap ToSet(p_waiting) = {}
  /\ ToSet(bootstrap_queue) \cap ToSet(inflight_queue) = {}
  /\ ToSet(p_waiting) \cap ToSet(inflight_queue) = {}

DecodePlaces ==
  /\ ToSet(prealloc_queue) \cup Holders \cup running_batch \subseteq d_arrived
  /\ ToSet(prealloc_queue) \cap (Holders \cup running_batch) = {}
  /\ ToSet(transfer_q) \cap (ToSet(d_waiting) \cup last_batch \cup running_batch) = {}
  /\ ToSet(d_waiting) \cap (last_batch \cup running_batch) = {}
  /\ last_batch \cap running_batch = {}
  /\ \A r \in Req : d_done[r] # "no" => r \in d_arrived \ (ToSet(prealloc_queue) \cup ToSet(transfer_q)
                                                          \cup ToSet(d_waiting) \cup last_batch)

(* A status that is polled is there, and past the bootstrap it is one of   *)
(* three.                                                                  *)
PrefillStatuses ==
  \A k \in Rank, r \in Req :
    /\ r \in ToSet(bootstrap_queue) => p_status[k][r] # Absent
    /\ p_conclude[k][r] # Absent => r \in p_arrived
    /\ r \in ToSet(p_waiting) \cup ToSet(inflight_queue) \/ p_conclude[k][r] # Absent
         => p_status[k][r] \in {Failed, WaitingForInput, Success}

DecodeStatuses ==
  \A k \in Rank : \A r \in ToSet(prealloc_queue) \cup ToSet(transfer_q) : d_status[k][r] # Absent

---------------------------------------------------------------------------
(* The inductive invariant: buffers and pages                              *)

(* The values of free, and of meta at the requests of H, are the elements  *)
(* of M, each once.                                                        *)
Split(free, meta, H, M) ==
  /\ Distinct(free)
  /\ \A r \in H : meta[r] \in M /\ meta[r] \notin ToSet(free)
  /\ \A r, q \in H : meta[r] = meta[q] => r = q
  /\ ToSet(free) \cup {meta[r] : r \in H} = M

PHeld == ToSet(p_waiting) \cup ToSet(inflight_queue)

(* The set free, and the rows of the requests of H, are the set P, each    *)
(* element once.                                                           *)
Parted(free, rows, H, P) ==
  /\ Apart(rows, H) /\ \A r \in H : ToSet(rows[r]) \cap free = {}
  /\ free \cup UNION {ToSet(rows[r]) : r \in H} = P

Paged ==
  /\ Parted(free_pages, row, Holders, Page)
  /\ \A r \in ToSet(transfer_q) : Len(row[r]) = InputLen[r]
  /\ \A r \in InDecode : out_len[r] >= 1 /\ Len(row[r]) = InputLen[r] + out_len[r] - 1
  /\ free_rows + Cardinality(Holders) = Rows

(* The pages that r may still ask for. *)
Due(r) == IF r \in ToSet(transfer_q) THEN Reserved
          ELSE IF out_len[r] + 1 >= MaxNew[r] THEN 1 ELSE MaxNew[r] - out_len[r]
Claim == [r \in Req |-> Len(row[r]) + Due(r)]

Growth == SumOver(Claim, Holders) <= Pages /\ ~retracted

PrefillMemory == PrefillTypes /\ PrefillPlaces /\ PrefillStatuses /\ Split(p_free, p_meta, PHeld, PBuffer)
DecodeMemory ==
  /\ DecodeTypes /\ DecodePlaces /\ DecodeStatuses /\ Split(d_free, d_meta, ToSet(transfer_q), DBuffer)
  /\ Paged /\ Growth

Memory == PrefillMemory /\ ThreadTypes /\ DecodeMemory

---------------------------------------------------------------------------
(* What the operators compute                                              *)

(* The function PromptPages defines, up to n. *)
IsUpto(f, queue, n) == f = [i \in 0..n |-> IF i = 0 THEN 0 ELSE f[i - 1] + InputLen[queue[i]]]

(* It exists. *)
LEMMA UptoExists ==
  ASSUME NEW queue
  PROVE  \A n \in Nat : \E f : IsUpto(f, queue, n)
<1> DEFINE T == {n \in Nat : \E f : IsUpto(f, queue, n)}
<1>1. 0 \in T
  <2>1. IsUpto([i \in 0..0 |-> 0], queue, 0)
    BY DEF IsUpto
  <2> QED BY <2>1
<1>2. ASSUME NEW n \in Nat, n \in T PROVE n + 1 \in T
  <2>1. PICK f : IsUpto(f, queue, n)
    BY <1>2
  <2> DEFINE g == [i \in 0..(n + 1) |-> IF i = n + 1 THEN f[n] + InputLen[queue[n + 1]] ELSE f[i]]
  <2>2. ASSUME NEW i \in 0..(n + 1)
        PROVE  g[i] = IF i = 0 THEN 0 ELSE g[i - 1] + InputLen[queue[i]]
    <3>1. CASE i = 0
      BY <2>1, <3>1 DEF IsUpto
    <3>2. CASE i = n + 1
      <4>1. g[n] = f[n] /\ g[n + 1] = f[n] + InputLen[queue[n + 1]] /\ i - 1 = n
        BY <3>2
      <4> QED BY <3>2, <4>1
    <3>3. CASE i # 0 /\ i # n + 1
      <4>1. i \in 0..n /\ i - 1 \in 0..n /\ i - 1 # n + 1
        BY <3>3
      <4>2. g[i] = f[i] /\ g[i - 1] = f[i - 1]
        BY <3>3, <4>1
      <4>3. f[i] = f[i - 1] + InputLen[queue[i]]
        BY <2>1, <3>3, <4>1 DEF IsUpto
      <4> QED BY <3>3, <4>2, <4>3
    <3> QED BY <3>1, <3>2, <3>3
  <2>3. IsUpto(g, queue, n + 1)
    <3>1. DOMAIN g = 0..(n + 1)
      OBVIOUS
    <3>2. g = [i \in 0..(n + 1) |-> g[i]]
      OBVIOUS
    <3> HIDE DEF g
    <3> QED BY <2>2, <3>2 DEF IsUpto
  <2> QED BY <2>3
<1> HIDE DEF T
<1>3. Nat \subseteq T
  BY <1>1, <1>2, SetInduction
<1> QED BY <1>3 DEF T

(* PromptPages adds the prompts up. *)
LEMMA PromptPagesStep ==
  ASSUME NEW queue \in Seq(Req)
  PROVE  /\ PromptPages(queue, 0) = 0
         /\ \A n \in 1..Len(queue) : PromptPages(queue, n) = PromptPages(queue, n - 1) + InputLen[queue[n]]
<1> DEFINE u(n) == CHOOSE f : IsUpto(f, queue, n)
<1>1. \A n \in Nat : IsUpto(u(n), queue, n)
  BY UptoExists
<1>2. \A n \in Nat : PromptPages(queue, n) = u(n)[n]
  BY DEF PromptPages, IsUpto
<1> HIDE DEF u
<1>3. PromptPages(queue, 0) = 0
  BY <1>1, <1>2 DEF IsUpto
<1>4. ASSUME NEW n \in Nat \ {0} PROVE u(n)[n - 1] = u(n - 1)[n - 1]
  <2> DEFINE T == {i \in Nat : i <= n - 1 => u(n)[i] = u(n - 1)[i]}
  <2>1. 0 \in T
    BY <1>1 DEF IsUpto
  <2>2. ASSUME NEW i \in Nat, i \in T PROVE i + 1 \in T
    <3> SUFFICES ASSUME i + 1 <= n - 1 PROVE u(n)[i + 1] = u(n - 1)[i + 1]
      OBVIOUS
    <3>1. u(n)[i] = u(n - 1)[i]
      BY <2>2
    <3>2. i + 1 \in 0..n /\ i + 1 \in 0..(n - 1) /\ i + 1 # 0 /\ (i + 1) - 1 = i /\ n - 1 \in Nat
      OBVIOUS
    <3>3. u(n)[i + 1] = u(n)[(i + 1) - 1] + InputLen[queue[i + 1]]
      BY <1>1, <3>2 DEF IsUpto
    <3>4. u(n - 1)[i + 1] = u(n - 1)[(i + 1) - 1] + InputLen[queue[i + 1]]
      BY <1>1, <3>2 DEF IsUpto
    <3> QED BY <3>1, <3>2, <3>3, <3>4
  <2> HIDE DEF T
  <2>3. Nat \subseteq T
    BY <2>1, <2>2, SetInduction
  <2>4. n - 1 \in T
    BY <2>3
  <2> QED BY <2>4 DEF T
<1>5. ASSUME NEW n \in 1..Len(queue) PROVE PromptPages(queue, n) = PromptPages(queue, n - 1) + InputLen[queue[n]]
  <2>1. n \in Nat \ {0} /\ n - 1 \in Nat /\ n \in 0..n /\ n # 0
    OBVIOUS
  <2>2. u(n)[n] = u(n)[n - 1] + InputLen[queue[n]]
    BY <1>1, <2>1 DEF IsUpto
  <2> QED BY <1>2, <1>4, <2>1, <2>2
<1> QED BY <1>3, <1>5

(* PromptPages counts up: the intervals it bounds are in order. *)
LEMMA PromptPagesOrder ==
  ASSUME NEW queue \in Seq(Req)
  PROVE  /\ \A n \in 0..Len(queue) : PromptPages(queue, n) \in Nat
         /\ \A i, j \in 0..Len(queue) : i <= j => PromptPages(queue, i) <= PromptPages(queue, j)
<1> DEFINE P(n) == PromptPages(queue, n)
           T == {n \in Nat : n <= Len(queue) => P(n) \in Nat /\ \A i \in 0..n : P(i) \in Nat /\ P(i) <= P(n)}
<1>0. P(0) = 0 /\ \A n \in 1..Len(queue) : P(n) = P(n - 1) + InputLen[queue[n]]
  BY PromptPagesStep
<1>a. \A n \in 1..Len(queue) : InputLen[queue[n]] \in Nat
  BY DisaggregationAssumption
<1> HIDE DEF P
<1>1. 0 \in T
  BY <1>0
<1>2. ASSUME NEW n \in Nat, n \in T PROVE n + 1 \in T
  <2> SUFFICES ASSUME n + 1 <= Len(queue)
               PROVE  P(n + 1) \in Nat /\ \A i \in 0..(n + 1) : P(i) \in Nat /\ P(i) <= P(n + 1)
    OBVIOUS
  <2>1. n + 1 \in 1..Len(queue) /\ (n + 1) - 1 = n /\ n <= Len(queue)
    OBVIOUS
  <2>2. P(n + 1) = P(n) + InputLen[queue[n + 1]]
    BY <1>0, <2>1
  <2>3. P(n) \in Nat /\ \A i \in 0..n : P(i) \in Nat /\ P(i) <= P(n)
    BY <1>2, <2>1
  <2>4. InputLen[queue[n + 1]] \in Nat
    BY <1>a, <2>1
  <2>5. P(n + 1) \in Nat /\ P(n) <= P(n + 1)
    BY <2>2, <2>3, <2>4
  <2>6. ASSUME NEW i \in 0..(n + 1) PROVE P(i) \in Nat /\ P(i) <= P(n + 1)
    <3>1. CASE i = n + 1
      BY <2>5, <3>1
    <3>2. CASE i # n + 1
      <4>1. i \in 0..n
        BY <3>2
      <4>2. P(i) \in Nat /\ P(i) <= P(n)
        BY <2>3, <4>1
      <4> QED BY <2>2, <2>3, <2>4, <4>2
    <3> QED BY <3>1, <3>2
  <2> QED BY <2>5, <2>6
<1>3. Nat \subseteq T
  <2> HIDE DEF T
  <2> QED BY <1>1, <1>2, SetInduction
<1>4. ASSUME NEW n \in 0..Len(queue) PROVE P(n) \in Nat /\ \A i \in 0..n : P(i) <= P(n)
  <2>1. n \in T
    BY <1>3
  <2> QED BY <2>1
<1>5. ASSUME NEW i \in 0..Len(queue), NEW j \in 0..Len(queue), i <= j PROVE P(i) <= P(j)
  <2>1. i \in 0..j
    BY <1>5
  <2> QED BY <1>4, <2>1
<1> QED BY <1>4, <1>5 DEF P

(* PromptPages is the sum over the requests it goes through. *)
LEMMA PromptPagesSum ==
  ASSUME NEW queue \in Seq(Req), Distinct(queue), NEW n \in 0..Len(queue)
  PROVE  PromptPages(queue, n) = SumOver(InputLen, ToSet(Firsts(queue, n)))
<1> DEFINE F(i) == ToSet(Firsts(queue, i))
           T == {i \in Nat : i <= Len(queue) => PromptPages(queue, i) = SumOver(InputLen, F(i))}
<1>0. PromptPages(queue, 0) = 0 
      /\ \A i \in 1..Len(queue) : PromptPages(queue, i) = PromptPages(queue, i - 1) + InputLen[queue[i]]
  BY PromptPagesStep
<1>1. \A i \in 0..Len(queue) : F(i) = {queue[j] : j \in 1..i}
  <2> TAKE i \in 0..Len(queue)
  <2>1. 1 \in 1..(Len(queue) + 1) /\ i >= 1 - 1
    OBVIOUS
  <2> QED BY <2>1, PartDistinct DEF Firsts
<1>a. InputLen \in [Req -> Int] /\ IsFiniteSet(Req)
  BY DisaggregationAssumption
<1> HIDE DEF F
<1>2. 0 \in T
  <2>1. F(0) = {}
    BY <1>1
  <2> QED BY <1>0, <2>1, SumEmpty
<1>3. ASSUME NEW i \in Nat, i \in T PROVE i + 1 \in T
  <2> SUFFICES ASSUME i + 1 <= Len(queue) PROVE PromptPages(queue, i + 1) = SumOver(InputLen, F(i + 1))
    OBVIOUS
  <2>1. i + 1 \in 1..Len(queue) /\ (i + 1) - 1 = i /\ i \in 0..Len(queue) /\ i + 1 \in 0..Len(queue)
    OBVIOUS
  <2>2. PromptPages(queue, i + 1) = PromptPages(queue, i) + InputLen[queue[i + 1]]
    BY <1>0, <2>1
  <2>3. F(i) = {queue[j] : j \in 1..i} /\ F(i + 1) = {queue[j] : j \in 1..(i + 1)}
    BY <1>1, <2>1
  <2>4. F(i + 1) = F(i) \cup {queue[i + 1]}
    <3>1. \A j \in 1..(i + 1) : j \in 1..i \/ j = i + 1
      OBVIOUS
    <3>2. \A j \in 1..i : j \in 1..(i + 1)
      OBVIOUS
    <3>3. i + 1 \in 1..(i + 1)
      OBVIOUS
    <3> QED BY <2>3, <3>1, <3>2, <3>3
  <2>5. F(i) \in SUBSET Req /\ queue[i + 1] \in Req \ F(i)
    <3>1. \A j \in 1..i : j \in 1..Len(queue) /\ j # i + 1
      BY <2>1
    <3>2. \A j \in 1..i : queue[j] # queue[i + 1] /\ queue[j] \in Req
      BY <2>1, <3>1 DEF Distinct
    <3> QED BY <2>1, <2>3, <3>2
  <2>6. IsFiniteSet(F(i))
    BY <1>a, <2>5, FS_Subset
  <2>7. SumOver(InputLen, F(i) \cup {queue[i + 1]}) = InputLen[queue[i + 1]] + SumOver(InputLen, F(i))
    <3>1. PICK G, x : G = F(i) /\ x = queue[i + 1]
      OBVIOUS
    <3>2. G \in SUBSET Req /\ x \in Req \ G /\ IsFiniteSet(G)
      BY <2>5, <2>6, <3>1
    <3>3. SumOver(InputLen, G \cup {x}) = InputLen[x] + SumOver(InputLen, G)
      BY <1>a, <3>2, SumAdd
    <3> QED BY <3>1, <3>3
  <2>8. PromptPages(queue, i) = SumOver(InputLen, F(i))
    BY <1>3, <2>1
  <2>9. SumOver(InputLen, F(i)) \in Int /\ InputLen[queue[i + 1]] \in Int
    BY <1>a, <2>5, <2>6, SumType
  <2>10. SumOver(InputLen, F(i + 1)) = InputLen[queue[i + 1]] + SumOver(InputLen, F(i))
    BY <2>4, <2>7
  <2> QED BY <2>2, <2>8, <2>9, <2>10
<1>4. Nat \subseteq T
  <2> HIDE DEF T
  <2> QED BY <1>2, <1>3, SetInduction
<1>5. n \in T
  BY <1>4
<1> QED BY <1>5 DEF F

(* The first requests of a queue. *)
LEMMA FirstsResult ==
  ASSUME NEW X, NEW queue \in Seq(X), Distinct(queue), NEW n \in 0..Len(queue)
  PROVE  /\ Firsts(queue, n) \in Seq(X) /\ Len(Firsts(queue, n)) = n /\ Distinct(Firsts(queue, n))
         /\ ToSet(Firsts(queue, n)) = {queue[i] : i \in 1..n}
         /\ \A i \in 1..n : Firsts(queue, n)[i] = queue[i]
<1>1. 1 \in 1..(Len(queue) + 1) /\ n >= 1 - 1 /\ n - 1 + 1 = n /\ \A i \in 1..n : 1 + i - 1 = i
  OBVIOUS
<1>2. /\ SubSeq(queue, 1, n) \in Seq(X) /\ Len(SubSeq(queue, 1, n)) = n - 1 + 1
      /\ Distinct(SubSeq(queue, 1, n)) /\ ToSet(SubSeq(queue, 1, n)) = {queue[i] : i \in 1..n}
      /\ \A i \in 1..(n - 1 + 1) : SubSeq(queue, 1, n)[i] = queue[1 + i - 1]
  BY <1>1, PartDistinct
<1> QED BY <1>1, <1>2 DEF Firsts

(* The others. *)
LEMMA RestResult ==
  ASSUME NEW X, NEW queue \in Seq(X), Distinct(queue), NEW n \in 0..Len(queue)
  PROVE  /\ Rest(queue, n) \in Seq(X) /\ Len(Rest(queue, n)) = Len(queue) - n /\ Distinct(Rest(queue, n))
         /\ ToSet(Rest(queue, n)) = {queue[i] : i \in (n + 1)..Len(queue)}
<1>1. /\ n + 1 \in 1..(Len(queue) + 1) /\ Len(queue) \in 0..Len(queue) /\ Len(queue) >= n + 1 - 1
      /\ Len(queue) - (n + 1) + 1 = Len(queue) - n
  OBVIOUS
<1>2. PICK m : m = n + 1
  OBVIOUS
<1>3. PICK l : l = Len(queue)
  OBVIOUS
<1>4. /\ SubSeq(queue, m, l) \in Seq(X) /\ Len(SubSeq(queue, m, l)) = l - m + 1
      /\ Distinct(SubSeq(queue, m, l)) /\ ToSet(SubSeq(queue, m, l)) = {queue[i] : i \in m..l}
  <2>1. m \in 1..(Len(queue) + 1) /\ l \in 0..Len(queue) /\ l >= m - 1
    BY <1>1, <1>2, <1>3
  <2> QED BY ONLY <2>1, queue \in Seq(X), Distinct(queue), PartDistinct
<1>5. Rest(queue, n) = SubSeq(queue, m, l)
  BY <1>2, <1>3 DEF Rest
<1> QED BY <1>1, <1>2, <1>3, <1>4, <1>5

(* The first requests and the others are all, and none is both. *)
LEMMA FirstsRest ==
  ASSUME NEW X, NEW queue \in Seq(X), Distinct(queue), NEW n \in 0..Len(queue)
  PROVE  /\ ToSet(Firsts(queue, n)) \cup ToSet(Rest(queue, n)) = ToSet(queue)
         /\ ToSet(Firsts(queue, n)) \cap ToSet(Rest(queue, n)) = {}
<1>1. ToSet(Firsts(queue, n)) = {queue[i] : i \in 1..n}
  BY FirstsResult
<1>2. ToSet(Rest(queue, n)) = {queue[i] : i \in (n + 1)..Len(queue)}
  BY RestResult
<1>3. ToSet(queue) = {queue[i] : i \in 1..Len(queue)}
  BY ToSetIs
<1>4. /\ \A i \in 1..Len(queue) : i \in 1..n \/ i \in (n + 1)..Len(queue)
      /\ \A i \in 1..n : i \in 1..Len(queue)
      /\ \A i \in (n + 1)..Len(queue) : i \in 1..Len(queue)
      /\ \A i \in 1..n : \A j \in (n + 1)..Len(queue) : i # j
  OBVIOUS
<1>5. \A i \in 1..n : \A j \in (n + 1)..Len(queue) : queue[i] # queue[j]
  BY <1>4 DEF Distinct
<1> QED BY <1>1, <1>2, <1>3, <1>4, <1>5

(* Given changes f at the elements of the queue. *)
LEMMA GivenResult ==
  ASSUME NEW X, NEW f \in [Req -> X], NEW queue \in Seq(Req), Distinct(queue),
         NEW values \in Seq(X), Len(queue) <= Len(values)
  PROVE  /\ Given(f, queue, values) \in [Req -> X]
         /\ \A i \in 1..Len(queue) : Given(f, queue, values)[queue[i]] = values[i]
         /\ \A r \in Req \ ToSet(queue) : Given(f, queue, values)[r] = f[r]
<1>1. /\ \A r \in ToSet(queue) : PlaceOf(queue, r) \in 1..Len(queue) /\ queue[PlaceOf(queue, r)] = r
      /\ \A i \in 1..Len(queue) : PlaceOf(queue, queue[i]) = i
  BY PlaceOfResult
<1>2. \A r \in ToSet(queue) : values[PlaceOf(queue, r)] \in X
  <2>1. \A i \in 1..Len(queue) : i \in 1..Len(values)
    OBVIOUS
  <2>2. \A i \in 1..Len(values) : values[i] \in X
    OBVIOUS
  <2> QED BY <1>1, <2>1, <2>2
<1>3. Given(f, queue, values) \in [Req -> X]
  BY <1>2 DEF Given
<1>4. ASSUME NEW i \in 1..Len(queue) PROVE Given(f, queue, values)[queue[i]] = values[i]
  <2>1. queue[i] \in Req /\ queue[i] \in ToSet(queue)
    BY ToSetIs
  <2> QED BY <1>1, <2>1 DEF Given
<1>5. \A r \in Req \ ToSet(queue) : Given(f, queue, values)[r] = f[r]
  BY DEF Given
<1> QED BY <1>3, <1>4, <1>5

(* The first free buffers go to the requests that are taken. *)
LEMMA SplitTake ==
  ASSUME NEW M, NEW free \in Seq(M), NEW meta \in [Req -> M \cup {0}], NEW H \in SUBSET Req,
         Split(free, meta, H, M),
         NEW taken \in Seq(Req), Distinct(taken), ToSet(taken) \cap H = {}, Len(taken) <= Len(free)
  PROVE  /\ Split(Rest(free, Len(taken)), Given(meta, taken, free), H \cup ToSet(taken), M)
         /\ Rest(free, Len(taken)) \in Seq(M) /\ Given(meta, taken, free) \in [Req -> M \cup {0}]
         /\ Len(Rest(free, Len(taken))) = Len(free) - Len(taken)
         /\ \A r \in Req \ ToSet(taken) : Given(meta, taken, free)[r] = meta[r]
<1> DEFINE n == Len(taken)
           rest == Rest(free, n)
           new == Given(meta, taken, free)
<1>1. n \in 0..Len(free) /\ \A i \in 1..n : i \in 1..Len(free)
  OBVIOUS
<1>2. \A i \in 1..n : free[i] \in M /\ free[i] \in M \cup {0}
  BY <1>1
<1>3. /\ rest \in Seq(M) /\ Len(rest) = Len(free) - n /\ Distinct(rest)
      /\ ToSet(rest) = {free[i] : i \in (n + 1)..Len(free)}
  BY <1>1, RestResult DEF Split
<1>4. /\ new \in [Req -> M \cup {0}] /\ (\A i \in 1..n : new[taken[i]] = free[i])
      /\ \A r \in Req \ ToSet(taken) : new[r] = meta[r]
  <2>1. PICK X : X = M \cup {0}
    OBVIOUS
  <2>2. meta \in [Req -> X] /\ free \in Seq(X)
    BY <2>1
  <2>3. /\ Given(meta, taken, free) \in [Req -> X]
        /\ \A i \in 1..Len(taken) : Given(meta, taken, free)[taken[i]] = free[i]
        /\ \A r \in Req \ ToSet(taken) : Given(meta, taken, free)[r] = meta[r]
    <3> HIDE DEF n, rest, new
    <3> QED BY <2>2, GivenResult
  <2> QED BY <2>1, <2>3
<1>5. ToSet(taken) = {taken[i] : i \in 1..n} /\ ToSet(free) = {free[i] : i \in 1..Len(free)}
  BY ToSetIs
<1>6. \A r \in H : r \in Req \ ToSet(taken)
  OBVIOUS
<1> HIDE DEF n, rest, new
<1>7. /\ Distinct(free) /\ ToSet(free) \cup {meta[r] : r \in H} = M
      /\ \A r \in H : meta[r] \in M /\ meta[r] \notin ToSet(free)
      /\ \A r, q \in H : meta[r] = meta[q] => r = q
  BY DEF Split
<1>8. /\ \A i \in (n + 1)..Len(free) : i \in 1..Len(free)
      /\ \A i \in 1..n : \A j \in (n + 1)..Len(free) : i # j
      /\ \A i \in 1..Len(free) : i \in 1..n \/ i \in (n + 1)..Len(free)
  BY <1>1
<1>9. ASSUME NEW r \in ToSet(taken) PROVE \E i \in 1..n : r = taken[i] /\ new[r] = free[i]
  BY <1>4, <1>5
<1>10. ASSUME NEW r \in ToSet(taken) PROVE new[r] \in M /\ new[r] \notin ToSet(rest) /\ new[r] \in ToSet(free)
  <2>1. PICK i \in 1..n : r = taken[i] /\ new[r] = free[i]
    BY <1>9
  <2>2. \A j \in (n + 1)..Len(free) : free[j] # free[i]
    BY <1>1, <1>7, <1>8 DEF Distinct
  <2> QED BY <1>1, <1>2, <1>3, <1>5, <2>1, <2>2
<1>11. ASSUME NEW r \in H PROVE new[r] = meta[r] /\ new[r] \in M /\ new[r] \notin ToSet(rest) /\ new[r] \notin ToSet(free)
  <2>1. new[r] = meta[r]
    BY <1>4, <1>6
  <2>2. ToSet(rest) \subseteq ToSet(free)
    BY <1>3, <1>5, <1>8
  <2> QED BY <1>7, <2>1, <2>2
<1>12. ASSUME NEW r \in H \cup ToSet(taken), NEW q \in H \cup ToSet(taken), new[r] = new[q] PROVE r = q
  <2>1. CASE r \in H /\ q \in H
    BY <1>7, <1>11, <1>12, <2>1
  <2>2. CASE r \in ToSet(taken) /\ q \in ToSet(taken)
    <3>1. PICK i \in 1..n : r = taken[i] /\ new[r] = free[i]
      BY <1>9, <2>2
    <3>2. PICK j \in 1..n : q = taken[j] /\ new[q] = free[j]
      BY <1>9, <2>2
    <3>3. i = j
      BY <1>1, <1>7, <1>12, <3>1, <3>2 DEF Distinct
    <3> QED BY <3>1, <3>2, <3>3
  <2>3. CASE r \in H /\ q \in ToSet(taken)
    BY <1>10, <1>11, <1>12, <2>3
  <2>4. CASE r \in ToSet(taken) /\ q \in H
    BY <1>10, <1>11, <1>12, <2>4
  <2> QED BY <2>1, <2>2, <2>3, <2>4
<1>13. ASSUME NEW x \in M PROVE x \in ToSet(rest) \cup {new[r] : r \in H \cup ToSet(taken)}
  <2>1. CASE x \in ToSet(free)
    <3>1. PICK i \in 1..Len(free) : x = free[i]
      BY <1>5, <2>1
    <3>2. CASE i \in 1..n
      <4>1. new[taken[i]] = x /\ taken[i] \in ToSet(taken)
        BY <1>4, <1>5, <3>1, <3>2
      <4> QED BY <4>1
    <3>3. CASE i \in (n + 1)..Len(free)
      BY <1>3, <3>1, <3>3
    <3> QED BY <1>8, <3>2, <3>3
  <2>2. CASE x \notin ToSet(free)
    <3>1. PICK r \in H : x = meta[r]
      BY <1>7, <2>2
    <3>2. x = new[r]
      BY <1>11, <3>1
    <3> QED BY <3>2
  <2> QED BY <2>1, <2>2
<1>14. ToSet(rest) \subseteq M
  BY <1>3, <1>8
<1>15. Split(rest, new, H \cup ToSet(taken), M)
  <2>1. \A r \in H \cup ToSet(taken) : new[r] \in M /\ new[r] \notin ToSet(rest)
    BY <1>10, <1>11
  <2>2. ToSet(rest) \cup {new[r] : r \in H \cup ToSet(taken)} = M
    BY <1>13, <1>14, <2>1
  <2> QED BY <1>3, <1>12, <2>1, <2>2 DEF Split
<1> QED BY <1>3, <1>4, <1>15 DEF rest, new, n

(* The buffers of requests that are over come back. *)
LEMMA SplitGive ==
  ASSUME NEW M, NEW free \in Seq(M), NEW meta \in [Req -> M \cup {0}], NEW H \in SUBSET Req,
         Split(free, meta, H, M),
         NEW freed \in Seq(Req), Distinct(freed), ToSet(freed) \subseteq H
  PROVE  /\ Split(free \o Values(meta, freed), meta, H \ ToSet(freed), M)
         /\ free \o Values(meta, freed) \in Seq(M)
<1> DEFINE vals == Values(meta, freed)
<1>1. ToSet(freed) = {freed[i] : i \in 1..Len(freed)} /\ \A i \in 1..Len(freed) : freed[i] \in H
  BY ToSetIs
<1>2. /\ Distinct(free) /\ ToSet(free) \cup {meta[r] : r \in H} = M
      /\ \A r \in H : meta[r] \in M /\ meta[r] \notin ToSet(free)
      /\ \A r, q \in H : meta[r] = meta[q] => r = q
  BY DEF Split
<1>3. /\ vals = [i \in 1..Len(freed) |-> meta[freed[i]]] /\ Len(vals) = Len(freed)
      /\ \A i \in 1..Len(freed) : vals[i] = meta[freed[i]]
  BY DEF Values
<1>4. vals \in Seq(M)
  BY <1>1, <1>2, <1>3
<1> HIDE DEF vals
<1>5. ASSUME NEW i \in 1..Len(vals), NEW j \in 1..Len(vals), vals[i] = vals[j] PROVE i = j
  <2>1. meta[freed[i]] = meta[freed[j]]
    BY <1>3, <1>5
  <2>2. freed[i] = freed[j]
    BY <1>1, <1>2, <1>3, <2>1
  <2> QED BY <1>3, <2>2 DEF Distinct
<1>6. ToSet(vals) = {meta[r] : r \in ToSet(freed)}
  <2>1. ToSet(vals) = {vals[i] : i \in 1..Len(vals)}
    BY <1>4, ToSetIs
  <2>2. \A i \in 1..Len(freed) : vals[i] = meta[freed[i]] /\ freed[i] \in ToSet(freed)
    BY <1>1, <1>3
  <2>3. \A r \in ToSet(freed) : \E i \in 1..Len(freed) : vals[i] = meta[r]
    BY <1>1, <1>3
  <2>4. ASSUME NEW v \in ToSet(vals) PROVE v \in {meta[r] : r \in ToSet(freed)}
    BY <1>3, <2>1, <2>2
  <2>5. ASSUME NEW r \in ToSet(freed) PROVE meta[r] \in ToSet(vals)
    BY <1>3, <2>1, <2>3
  <2> QED BY ONLY <2>4, <2>5
<1>7. ToSet(free) \cap ToSet(vals) = {}
  BY <1>2, <1>6
<1>8. free \o vals \in Seq(M) /\ Distinct(free \o vals) /\ ToSet(free \o vals) = ToSet(free) \cup ToSet(vals)
  BY <1>2, <1>4, <1>5, <1>7, ConcatDistinct DEF Distinct
<1>9. \A r \in H \ ToSet(freed) : meta[r] \in M /\ meta[r] \notin ToSet(free) \cup ToSet(vals)
  BY <1>2, <1>6
<1>10. (ToSet(free) \cup ToSet(vals)) \cup {meta[r] : r \in H \ ToSet(freed)} = M
  BY <1>2, <1>6
<1>11. Split(free \o vals, meta, H \ ToSet(freed), M)
  BY <1>2, <1>8, <1>9, <1>10 DEF Split
<1> QED BY <1>8, <1>11 DEF vals

(* There are as many buffers as there were. *)
LEMMA SplitCount ==
  ASSUME NEW M, IsFiniteSet(M), NEW free \in Seq(M), NEW meta \in [Req -> M \cup {0}], NEW H \in SUBSET Req,
         Split(free, meta, H, M)
  PROVE  Len(free) + Cardinality(H) = Cardinality(M)
<1> DEFINE V == {meta[r] : r \in H}
<1>1. /\ Distinct(free) /\ ToSet(free) \cup V = M
      /\ \A r \in H : meta[r] \in M /\ meta[r] \notin ToSet(free)
      /\ \A r, q \in H : meta[r] = meta[q] => r = q
  BY DEF Split
<1>2. IsFiniteSet(ToSet(free)) /\ Cardinality(ToSet(free)) = Len(free)
  BY <1>1, DistinctCardinality
<1>3. IsFiniteSet(V) /\ Cardinality(V) = Cardinality(H)
  <2>0. IsFiniteSet(H)
    BY DisaggregationAssumption, FS_Subset
  <2> DEFINE g == [r \in H |-> meta[r]]
  <2>1. g \in [H -> V] /\ (\A v \in V : \E r \in H : g[r] = v) /\ \A r, q \in H : g[r] = g[q] => r = q
    BY <1>1
  <2> HIDE DEF g, V
  <2>2. g \in Bijection(H, V)
    BY <2>1 DEF Bijection, Injection, Surjection, IsInjective
  <2> QED BY <2>0, <2>2, FS_Bijection DEF ExistsBijection
<1>4. ToSet(free) \cap V = {}
  BY <1>1
<1> HIDE DEF V
<1>5. Cardinality(ToSet(free) \cup V) = Cardinality(ToSet(free)) + Cardinality(V)
  BY <1>2, <1>3, <1>4, UnionCardinality
<1>7. Cardinality(ToSet(free) \cup V) = Cardinality(M)
  BY <1>1
<1> QED BY <1>2, <1>3, <1>5, <1>7

---------------------------------------------------------------------------
(* Statuses and polls                                                      *)

(* The deployment. *)
LEMMA ConfigFacts ==
  ASSUME config \in Configs
  PROVE  /\ IsFiniteSet(Rank) /\ Rank # {} /\ Pages \in Nat
         /\ IsFiniteSet(Page) /\ Cardinality(Page) = Pages
         /\ \A r \in config.reqs : r \in Req
<1>1. /\ config \in ConfigType /\ IsFiniteSet(config.ranks) /\ config.ranks # {}
  BY DisaggregationAssumption
<1>2. config.pages \in Nat /\ config.reqs \in SUBSET Req
  BY <1>1 DEF ConfigType
<1>3. IsFiniteSet(1..config.pages) /\ Cardinality(1..config.pages) = config.pages
  BY <1>2, FS_Interval
<1> QED BY <1>1, <1>2, <1>3 DEF Rank, Pages, Page

(* The bounds are positive, and the buffers are as many. *)
LEMMA ConstantFacts ==
  /\ IsFiniteSet(Req) /\ InputLen \in [Req -> Nat \ {0}] /\ MaxNew \in [Req -> Nat \ {0}]
  /\ Rows \in Nat \ {0} /\ Reserved \in Nat \ {0} /\ PrefillMeta \in Nat /\ DecodeMeta \in Nat
  /\ \A r \in Req : MaxNew[r] <= Reserved + 1
  /\ IsFiniteSet(PBuffer) /\ Cardinality(PBuffer) = PrefillMeta
  /\ IsFiniteSet(DBuffer) /\ Cardinality(DBuffer) = DecodeMeta
<1>1. PrefillMeta \in Nat /\ DecodeMeta \in Nat
  BY DisaggregationAssumption
<1>2. IsFiniteSet(1..PrefillMeta) /\ Cardinality(1..PrefillMeta) = PrefillMeta
  BY <1>1, FS_Interval
<1>3. IsFiniteSet(1..DecodeMeta) /\ Cardinality(1..DecodeMeta) = DecodeMeta
  BY <1>1, FS_Interval
<1> QED BY <1>1, <1>2, <1>3, DisaggregationAssumption DEF PBuffer, DBuffer

(* update_status leaves a status past the bootstrap. *)
LEMMA UpdatedResult ==
  ASSUME NEW old \in StatusValue, NEW new \in {Failed, WaitingForInput, Success}
  PROVE  Updated(old, new) \in StatusValue /\ Updated(old, new) \in {Failed, WaitingForInput, Success}
BY DEF StatusValue, Updated, Absent, Failed, Bootstrapping, WaitingForInput, Success

(* A poll is a status of some rank, and none of another rank is less. *)
LEMMA AllReduceResult ==
  ASSUME config \in Configs, NEW status \in [Rank -> [Req -> StatusValue]],
         NEW conclude \in [Rank -> [Req -> FinalValue]], NEW r \in Req
  PROVE  /\ \A k \in Rank : Poll(status, conclude, k, r) \in StatusValue
         /\ \E k \in Rank : AllReduce(status, conclude, r) = Poll(status, conclude, k, r)
         /\ \A k \in Rank : AllReduce(status, conclude, r) <= Poll(status, conclude, k, r)
         /\ AllReduce(status, conclude, r) \in StatusValue
<1> DEFINE S == {Poll(status, conclude, k, r) : k \in Rank}
<1>1. \A k \in Rank : Poll(status, conclude, k, r) \in StatusValue
  BY DEF Poll, StatusValue, FinalValue
<1>2. PICK low \in Int, high \in Int : low = -1 /\ high = 4
  OBVIOUS
<1>3. IsFiniteSet(low..high)
  BY FS_Interval
<1>c. StatusValue \subseteq low..high
  BY <1>2 DEF StatusValue, Absent, Failed, Bootstrapping, WaitingForInput, Success
<1>4. S \subseteq StatusValue /\ S # {}
  BY <1>1, ConfigFacts
<1>5. IsFiniteSet(S) /\ S \in SUBSET Int
  <2>1. S \subseteq low..high
    BY <1>4, <1>c
  <2>2. low..high \subseteq Int
    OBVIOUS
  <2> HIDE DEF S
  <2> QED BY <1>3, <2>1, <2>2, FS_Subset
<1>a. \A k \in Rank : Poll(status, conclude, k, r) \in S
  OBVIOUS
<1>b. \A x \in S : \E k \in Rank : x = Poll(status, conclude, k, r)
  OBVIOUS
<1>6. AllReduce(status, conclude, r) = Min(S)
  BY DEF AllReduce, ReduceOp
<1> HIDE DEF S
<1>7. Min(S) \in S /\ \A x \in S : Min(S) <= x
  BY <1>4, <1>5, MinMaxResult
<1> QED BY <1>1, <1>6, <1>7, <1>a, <1>b

(* A status after clear. *)
LEMMA ClearedAt ==
  ASSUME NEW status, NEW gone, NEW k \in Rank, NEW r \in Req
  PROVE  Cleared(status, gone)[k][r] = IF r \in gone THEN Absent ELSE status[k][r]
BY DEF Cleared

(* The statuses after a poll, one by one. *)
LEMMA ConcludedAt ==
  ASSUME NEW status, NEW conclude, NEW polled, NEW gone, NEW k \in Rank, NEW r \in Req
  PROVE  /\ Cleared(status, gone)[k][r] = IF r \in gone THEN Absent ELSE status[k][r]
         /\ Concluded(status, conclude, polled, gone)[k][r]
              = IF r \in gone THEN Absent
                ELSE IF r \in polled /\ Poll(status, conclude, k, r) \in {Success, Failed}
                THEN Poll(status, conclude, k, r) ELSE conclude[k][r]
BY DEF Concluded, Cleared

(* Their types. *)
LEMMA ConcludedTypes ==
  ASSUME NEW status \in [Rank -> [Req -> StatusValue]],
         NEW conclude \in [Rank -> [Req -> FinalValue]], NEW polled, NEW gone
  PROVE  /\ Concluded(status, conclude, polled, gone) \in [Rank -> [Req -> FinalValue]]
         /\ Cleared(status, gone) \in [Rank -> [Req -> StatusValue]]
<1>1. \A k \in Rank, r \in Req : conclude[k][r] \in FinalValue /\ status[k][r] \in StatusValue
  OBVIOUS
<1>2. Concluded(status, conclude, polled, gone) \in [Rank -> [Req -> FinalValue]]
  BY <1>1 DEF Concluded, FinalValue
<1>3. Cleared(status, gone) \in [Rank -> [Req -> StatusValue]]
  BY <1>1 DEF Cleared, StatusValue
<1> QED BY <1>2, <1>3

---------------------------------------------------------------------------
(* The prefill server's queues, statuses and buffers                       *)

(* Steps that leave them alone. *)
LEMMA PrefillKeeps ==
  ASSUME PrefillMemory, UNCHANGED <<config, prefillVars, p_status>>, alive' \in BOOLEAN
  PROVE  PrefillMemory'
BY DEF PrefillMemory, PrefillTypes, PrefillPlaces, PrefillStatuses, Split, PHeld, prefillVars, Rank

(* Steps that only set one status, past the bootstrap. *)
LEMMA PrefillStatusStep ==
  ASSUME PrefillMemory, UNCHANGED <<config, alive, p_arrived, bootstrap_queue, p_waiting, sent,
           inflight_queue, p_free, p_meta, p_aux, p_conclude, p_done>>,
         pending' \subseteq pending,
         NEW k \in Rank, NEW r \in Req, NEW v, p_status' = [p_status EXCEPT ![k][r] = v],
         v = p_status[k][r] \/ v \in {Failed, WaitingForInput, Success}
  PROVE  PrefillMemory'
<1>1. v \in StatusValue
  BY DEF PrefillMemory, PrefillTypes, StatusValue
<1>2. Rank' = Rank
  BY DEF Rank
<1>3. p_status \in [Rank -> [Req -> StatusValue]]
  BY DEF PrefillMemory, PrefillTypes
<1>4. p_status' \in [Rank -> [Req -> StatusValue]]
  BY <1>1, <1>3
<1>5. \A x \in Rank, q \in Req : p_status'[x][q] = IF x = k /\ q = r THEN v ELSE p_status[x][q]
  BY <1>3
<1>6. PrefillTypes'
  BY <1>2, <1>4 DEF PrefillMemory, PrefillTypes
<1>7. PrefillStatuses'
  <2> SUFFICES ASSUME NEW x \in Rank, NEW q \in Req
               PROVE  /\ q \in ToSet(bootstrap_queue) => p_status'[x][q] # Absent
                      /\ p_conclude[x][q] # Absent => q \in p_arrived
                      /\ q \in ToSet(p_waiting) \cup ToSet(inflight_queue) \/ p_conclude[x][q] # Absent
                           => p_status'[x][q] \in {Failed, WaitingForInput, Success}
    BY <1>2 DEF PrefillStatuses
  <2>1. /\ q \in ToSet(bootstrap_queue) => p_status[x][q] # Absent
        /\ p_conclude[x][q] # Absent => q \in p_arrived
        /\ q \in ToSet(p_waiting) \cup ToSet(inflight_queue) \/ p_conclude[x][q] # Absent
             => p_status[x][q] \in {Failed, WaitingForInput, Success}
    BY DEF PrefillMemory, PrefillStatuses
  <2>2. v \in {Failed, WaitingForInput, Success} => v # Absent
    BY DEF Failed, WaitingForInput, Success, Absent
  <2> QED BY <1>5, <2>1, <2>2
<1> QED BY <1>6, <1>7 DEF PrefillMemory, PrefillPlaces, PHeld

(* A new request has a sender in every rank. *)
LEMMA ArrivePrefillMemory ==
  ASSUME PrefillMemory, NEW r \in Req, ArrivePrefill(r)
  PROVE  PrefillMemory'
<1> USE DEF PrefillMemory, ArrivePrefill
<1>1. Rank' = Rank
  BY DEF Rank
<1>2. r \notin p_arrived /\ r \notin ToSet(bootstrap_queue)
  BY DEF PrefillPlaces
<1>3. /\ bootstrap_queue' \in Seq(Req) /\ Distinct(bootstrap_queue')
      /\ ToSet(bootstrap_queue') = ToSet(bootstrap_queue) \cup {r}
  BY <1>2, AppendDistinct DEF PrefillTypes
<1>4. p_status \in [Rank -> [Req -> StatusValue]]
  BY DEF PrefillTypes
<1>5. /\ p_status' \in [Rank -> [Req -> StatusValue]]
      /\ \A k \in Rank, q \in Req : q # r => p_status'[k][q] = p_status[k][q]
      /\ \A k \in Rank : p_status'[k][r] = Updated(p_status[k][r], Bootstrapping)
  BY <1>4 DEF Updated, StatusValue
<1>6. \A k \in Rank : p_status'[k][r] # Absent /\ p_conclude[k][r] = Absent
  <2> TAKE k \in Rank
  <2>1. p_status[k][r] \in StatusValue
    BY <1>4
  <2>2. p_conclude[k][r] = Absent
    BY <1>2 DEF PrefillStatuses
  <2> QED BY <1>5, <2>1, <2>2 DEF Updated, StatusValue, Absent, Failed, Bootstrapping, WaitingForInput, Success
<1>7. PrefillTypes'
  BY <1>1, <1>3, <1>5 DEF PrefillTypes
<1>8. PrefillPlaces'
  BY <1>2, <1>3 DEF PrefillPlaces
<1>9. PrefillStatuses'
  BY <1>1, <1>2, <1>3, <1>5, <1>6 DEF PrefillStatuses, PrefillPlaces
<1> QED BY <1>7, <1>8, <1>9 DEF Split, PHeld

(* What a poll of the bootstrap queue finds: a request that is ready is    *)
(* past the bootstrap on every rank.                                       *)
LEMMA PolledReady ==
  ASSUME PrefillMemory, NEW r \in ToSet(bootstrap_queue), r \in Req,
         AllReduce(p_status, p_conclude, r) \notin {Failed, Bootstrapping}
  PROVE  \A k \in Rank : p_status[k][r] \in {Failed, WaitingForInput, Success}
<1> TAKE k \in Rank
<1>1. config \in Configs /\ p_status \in [Rank -> [Req -> StatusValue]]
      /\ p_conclude \in [Rank -> [Req -> FinalValue]]
  BY DEF PrefillMemory, PrefillTypes
<1>2. /\ \E x \in Rank : AllReduce(p_status, p_conclude, r) = Poll(p_status, p_conclude, x, r)
      /\ AllReduce(p_status, p_conclude, r) <= Poll(p_status, p_conclude, k, r)
      /\ AllReduce(p_status, p_conclude, r) \in StatusValue
  BY <1>1, AllReduceResult
<1>3. \A x \in Rank : p_status[x][r] # Absent
  BY DEF PrefillMemory, PrefillStatuses
<1>4. AllReduce(p_status, p_conclude, r) # Absent
  BY <1>2, <1>3 DEF Poll
<1>5. AllReduce(p_status, p_conclude, r) \in {WaitingForInput, Success}
  BY <1>2, <1>4 DEF StatusValue
<1>6. CASE p_conclude[k][r] # Absent
  BY <1>6 DEF PrefillMemory, PrefillStatuses
<1>7. CASE p_conclude[k][r] = Absent
  <2>1. Poll(p_status, p_conclude, k, r) = p_status[k][r] /\ p_status[k][r] \in StatusValue
    BY <1>1, <1>7 DEF Poll
  <2> QED BY <1>2, <1>5, <2>1 DEF StatusValue, Absent, Failed, Bootstrapping, WaitingForInput, Success
<1> QED BY <1>6, <1>7

(* Concluding a poll keeps the statuses in order: whoever is polled has a  *)
(* status.                                                                 *)
LEMMA ConcludedStatuses ==
  ASSUME PrefillMemory, NEW polled, NEW gone, NEW k \in Rank, NEW r \in Req,
         r \in polled => r \in p_arrived /\ p_status[k][r] # Absent,
         NEW s, s = Cleared(p_status, gone)[k][r],
         NEW c, c = Concluded(p_status, p_conclude, polled, gone)[k][r]
  PROVE  /\ c # Absent => r \in p_arrived /\ s \in {Failed, WaitingForInput, Success}
         /\ r \notin gone => s = p_status[k][r]
<1>1. p_conclude[k][r] # Absent => p_status[k][r] \in {Failed, WaitingForInput, Success} /\ r \in p_arrived
  BY DEF PrefillMemory, PrefillStatuses
<1>2. /\ s = IF r \in gone THEN Absent ELSE p_status[k][r]
      /\ c = IF r \in gone THEN Absent
            ELSE IF r \in polled /\ Poll(p_status, p_conclude, k, r) \in {Success, Failed}
            THEN Poll(p_status, p_conclude, k, r) ELSE p_conclude[k][r]
  BY ConcludedAt
<1>3. ASSUME c # Absent PROVE r \in p_arrived /\ s \in {Failed, WaitingForInput, Success}
  <2>1. r \notin gone /\ s = p_status[k][r]
    BY <1>2, <1>3
  <2>2. CASE p_conclude[k][r] # Absent
    BY <1>1, <2>1, <2>2
  <2>3. CASE p_conclude[k][r] = Absent
    <3>1. r \in polled /\ p_status[k][r] \in {Success, Failed}
      BY <1>2, <1>3, <2>1, <2>3 DEF Poll
    <3> QED BY <2>1, <3>1
  <2> QED BY <2>2, <2>3
<1> QED BY <1>2, <1>3

(* pop_bootstrapped gives a buffer to each request it takes. *)
LEMMA PopBootstrappedMemory ==
  ASSUME PrefillMemory, NEW T, PopBootstrapped(T)
  PROVE  PrefillMemory'
<1> DEFINE poll(r) == IF r \in T THEN Failed ELSE AllReduce(p_status, p_conclude, r)
           ready == Queued(bootstrap_queue, {r \in Req : poll(r) \notin {Failed, Bootstrapping}})
           n     == Min({Len(ready), Len(p_free)})
           taken == Firsts(ready, n)
           seen  == IF n = Len(ready) THEN ToSet(bootstrap_queue)
                    ELSE {r \in ToSet(bootstrap_queue) :
                            \E i, j \in DOMAIN bootstrap_queue :
                              i < j /\ bootstrap_queue[i] = r /\ bootstrap_queue[j] = ready[n + 1]}
           lost  == {r \in seen : poll(r) = Failed}
<1>1. /\ bootstrap_queue' = Without(bootstrap_queue, ToSet(taken) \cup lost)
      /\ p_waiting' = p_waiting \o taken
      /\ p_meta' = Given(p_meta, taken, p_free) /\ p_free' = Rest(p_free, n)
      /\ p_conclude' = Concluded(p_status, p_conclude, ToSet(bootstrap_queue), lost)
      /\ p_status' = Cleared(p_status, lost)
      /\ p_done' = [r \in Req |-> IF r \in lost THEN "failed" ELSE p_done[r]]
      /\ UNCHANGED <<config, alive, p_arrived, sent, inflight_queue, pending, p_aux>>
  BY DEF PopBootstrapped
<1>2. /\ bootstrap_queue \in Seq(Req) /\ Distinct(bootstrap_queue) /\ p_free \in Seq(PBuffer)
      /\ p_waiting \in Seq(Req) /\ Distinct(p_waiting) /\ p_meta \in [Req -> PBuffer \cup {0}]
      /\ p_status \in [Rank -> [Req -> StatusValue]] /\ p_conclude \in [Rank -> [Req -> FinalValue]]
      /\ inflight_queue \in Seq(Req) /\ p_done \in [Req -> Outcome]
  BY DEF PrefillMemory, PrefillTypes
<1>3. /\ ready \in Seq(Req) /\ Distinct(ready)
      /\ ToSet(ready) = ToSet(bootstrap_queue) \cap {r \in Req : poll(r) \notin {Failed, Bootstrapping}}
  BY <1>2, QueuedDistinct
<1>4. n \in 0..Len(ready) /\ n <= Len(p_free)
  <2>1. Len(ready) \in Nat /\ Len(p_free) \in Nat
    <3> HIDE DEF ready
    <3> QED BY <1>2, <1>3
  <2> HIDE DEF ready
  <2>2. n \in {Len(ready), Len(p_free)} /\ n <= Len(ready) /\ n <= Len(p_free)
    <3>1. PICK a \in Int, b \in Int : a = Len(ready) /\ b = Len(p_free)
      BY <2>1
    <3>2. Min({a, b}) \in {a, b} /\ Min({a, b}) <= a /\ Min({a, b}) <= b
      BY MinOfTwo
    <3> QED BY <3>1, <3>2
  <2> QED BY <2>1, <2>2
<1>5. /\ taken \in Seq(Req) /\ Len(taken) = n /\ Distinct(taken) /\ ToSet(taken) = {ready[i] : i \in 1..n}
  <2> HIDE DEF ready, n
  <2> QED BY <1>3, <1>4, FirstsResult
<1>6. ToSet(taken) \subseteq ToSet(ready)
  <2> HIDE DEF ready, taken, n
  <2>1. \A i \in 1..n : i \in 1..Len(ready)
    BY <1>4
  <2> QED BY <1>3, <1>5, <2>1, ToSetIs
<1>7. /\ ToSet(taken) \subseteq ToSet(bootstrap_queue)
      /\ \A r \in ToSet(taken) : poll(r) # Failed /\ AllReduce(p_status, p_conclude, r) \notin {Failed, Bootstrapping}
  BY <1>3, <1>6
<1>8. lost \subseteq ToSet(bootstrap_queue) /\ ToSet(taken) \cap lost = {}
  BY <1>7
<1>9. ToSet(taken) \in SUBSET Req /\ ToSet(bootstrap_queue) \in SUBSET Req /\ PHeld \in SUBSET Req
  <2> HIDE DEF taken
  <2>1. ToSet(taken) \in SUBSET Req /\ ToSet(bootstrap_queue) \in SUBSET Req
    BY <1>2, <1>5, ToSetIn
  <2>2. ToSet(p_waiting) \in SUBSET Req /\ ToSet(inflight_queue) \in SUBSET Req
    BY <1>2, ToSetIn
  <2> QED BY <2>1, <2>2 DEF PHeld
<1>10. \A r \in ToSet(taken) : \A k \in Rank : p_status[k][r] \in {Failed, WaitingForInput, Success}
  BY <1>7, <1>9, PolledReady
<1> HIDE DEF poll, ready, n, taken, seen, lost
<1>11. /\ ToSet(taken) \cap PHeld = {} /\ ToSet(taken) \cap ToSet(p_waiting) = {}
       /\ ToSet(taken) \cap ToSet(inflight_queue) = {} /\ lost \cap PHeld = {}
  BY <1>7, <1>8 DEF PrefillMemory, PrefillPlaces, PHeld
<1>12. /\ Split(p_free', p_meta', PHeld \cup ToSet(taken), PBuffer)
       /\ p_free' \in Seq(PBuffer) /\ p_meta' \in [Req -> PBuffer \cup {0}]
  <2>1. Split(p_free, p_meta, PHeld, PBuffer)
    BY DEF PrefillMemory
  <2>2. Len(taken) <= Len(p_free)
    BY <1>4, <1>5
  <2>3. /\ Split(Rest(p_free, Len(taken)), Given(p_meta, taken, p_free), PHeld \cup ToSet(taken), PBuffer)
        /\ Rest(p_free, Len(taken)) \in Seq(PBuffer) /\ Given(p_meta, taken, p_free) \in [Req -> PBuffer \cup {0}]
    BY <1>2, <1>5, <1>9, <1>11, <2>1, <2>2, SplitTake
  <2> QED BY <1>1, <1>5, <2>3
<1>13. /\ bootstrap_queue' \in Seq(Req) /\ Distinct(bootstrap_queue')
       /\ ToSet(bootstrap_queue') = ToSet(bootstrap_queue) \ (ToSet(taken) \cup lost)
  BY <1>1, <1>2, WithoutDistinct
<1>14. /\ p_waiting' \in Seq(Req) /\ Distinct(p_waiting') /\ ToSet(p_waiting') = ToSet(p_waiting) \cup ToSet(taken)
  BY <1>1, <1>2, <1>5, <1>11, ConcatDistinct
<1>15. Rank' = Rank
  BY <1>1 DEF Rank
<1>16. p_status' \in [Rank -> [Req -> StatusValue]] /\ p_conclude' \in [Rank -> [Req -> FinalValue]]
  BY <1>1, <1>2, ConcludedTypes
<1>17. PrefillTypes'
  <2>1. p_done' \in [Req -> Outcome]
    BY <1>1, <1>2 DEF Outcome
  <2> QED BY <1>1, <1>2, <1>12, <1>13, <1>14, <1>15, <1>16, <2>1 DEF PrefillMemory, PrefillTypes
<1>18. PrefillPlaces'
  BY <1>1, <1>7, <1>11, <1>13, <1>14 DEF PrefillMemory, PrefillPlaces
<1>19. PrefillStatuses'
  <2> SUFFICES ASSUME NEW k \in Rank, NEW r \in Req
               PROVE  /\ r \in ToSet(bootstrap_queue') => p_status'[k][r] # Absent
                      /\ p_conclude'[k][r] # Absent => r \in p_arrived
                      /\ r \in ToSet(p_waiting') \cup ToSet(inflight_queue) \/ p_conclude'[k][r] # Absent
                           => p_status'[k][r] \in {Failed, WaitingForInput, Success}
    BY <1>1, <1>15 DEF PrefillStatuses
  <2>1. /\ r \in ToSet(bootstrap_queue) => r \in p_arrived /\ p_status[k][r] # Absent
        /\ r \in ToSet(p_waiting) \cup ToSet(inflight_queue) => p_status[k][r] \in {Failed, WaitingForInput, Success}
    BY DEF PrefillMemory, PrefillStatuses, PrefillPlaces
  <2>2. /\ p_conclude'[k][r] # Absent => r \in p_arrived /\ p_status'[k][r] \in {Failed, WaitingForInput, Success}
        /\ r \notin lost => p_status'[k][r] = p_status[k][r]
    <3>1. PICK s, c : s = p_status'[k][r] /\ c = p_conclude'[k][r]
      OBVIOUS
    <3>2. /\ s = Cleared(p_status, lost)[k][r]
          /\ c = Concluded(p_status, p_conclude, ToSet(bootstrap_queue), lost)[k][r]
      BY <1>1, <3>1
    <3>3. /\ c # Absent => r \in p_arrived /\ s \in {Failed, WaitingForInput, Success}
          /\ r \notin lost => s = p_status[k][r]
      BY <2>1, <3>2, ConcludedStatuses
    <3> QED BY <3>1, <3>3
  <2>3. r \in ToSet(p_waiting') \cup ToSet(inflight_queue) => r \notin lost /\ p_status[k][r] \in {Failed, WaitingForInput, Success}
    BY <1>8, <1>10, <1>11, <1>14, <2>1 DEF PHeld
  <2> QED BY <1>13, <2>1, <2>2, <2>3
<1>20. PHeld' = PHeld \cup ToSet(taken)
  BY <1>1, <1>14 DEF PHeld
<1> QED BY <1>12, <1>17, <1>18, <1>19, <1>20 DEF PrefillMemory

(* The next chunk of the first request. *)
LEMMA PrefillChunkMemory ==
  ASSUME PrefillMemory, PrefillChunk
  PROVE  PrefillMemory'
<1> DEFINE r    == Head(p_waiting)
           last == sent[r] + 1 = InputLen[r]
           put  == {k \in Rank : p_status[k][r] \notin {Absent, Failed}}
<1>1. /\ p_waiting # Empty
      /\ sent' = [sent EXCEPT ![r] = @ + 1]
      /\ p_waiting' = IF last THEN Tail(p_waiting) ELSE p_waiting
      /\ inflight_queue' = IF last THEN Append(inflight_queue, r) ELSE inflight_queue
      /\ p_aux' = IF last THEN [p_aux EXCEPT ![p_meta[r]] = <<r, 1>>] ELSE p_aux
      /\ pending' = {<<k, r>> : k \in put}
      /\ UNCHANGED <<config, alive, p_arrived, bootstrap_queue, p_free, p_meta, p_conclude, p_done, p_status>>
  BY DEF PrefillChunk
<1>2. /\ p_waiting \in Seq(Req) /\ Distinct(p_waiting) /\ inflight_queue \in Seq(Req)
      /\ Distinct(inflight_queue) /\ sent \in [Req -> Nat] /\ DOMAIN p_aux = PBuffer
  BY DEF PrefillMemory, PrefillTypes
<1>3. /\ r \in ToSet(p_waiting) /\ r \in Req /\ Tail(p_waiting) \in Seq(Req) /\ Distinct(Tail(p_waiting))
      /\ ToSet(Tail(p_waiting)) = ToSet(p_waiting) \ {r}
  BY <1>1, <1>2, TailDistinct DEF Empty
<1>4. r \notin ToSet(inflight_queue) /\ r \notin ToSet(bootstrap_queue) /\ r \in p_arrived
  BY <1>3 DEF PrefillMemory, PrefillPlaces
<1>5. /\ Append(inflight_queue, r) \in Seq(Req) /\ Distinct(Append(inflight_queue, r))
      /\ ToSet(Append(inflight_queue, r)) = ToSet(inflight_queue) \cup {r}
  <2> HIDE DEF r
  <2> QED BY <1>2, <1>3, <1>4, AppendDistinct
<1> HIDE DEF r, last, put
<1>6. /\ p_waiting' \in Seq(Req) /\ Distinct(p_waiting')
      /\ inflight_queue' \in Seq(Req) /\ Distinct(inflight_queue')
      /\ ToSet(p_waiting') \cup ToSet(inflight_queue') = PHeld
      /\ ToSet(p_waiting') \cap ToSet(inflight_queue') = {}
  <2>1. ToSet(p_waiting) \cap ToSet(inflight_queue) = {}
    BY DEF PrefillMemory, PrefillPlaces
  <2>2. CASE last
    BY <1>1, <1>3, <1>5, <2>1, <2>2 DEF PHeld
  <2>3. CASE ~last
    BY <1>1, <1>2, <2>1, <2>3 DEF PHeld
  <2> QED BY <2>2, <2>3
<1>7. Rank' = Rank /\ pending' \in SUBSET (Rank \X Req)
  <2>1. put \subseteq Rank
    BY DEF put
  <2> QED BY <1>1, <1>3, <2>1 DEF Rank
<1>8. sent' \in [Req -> Nat] /\ DOMAIN p_aux' = PBuffer
  <2>1. sent[r] + 1 \in Nat
    BY <1>2, <1>3
  <2>2. sent' \in [Req -> Nat]
    BY <1>1, <1>2, <2>1
  <2>3. DOMAIN [p_aux EXCEPT ![p_meta[r]] = <<r, 1>>] = DOMAIN p_aux
    OBVIOUS
  <2>4. DOMAIN p_aux' = PBuffer
    BY <1>1, <1>2, <2>3
  <2> QED BY <2>2, <2>4
<1>9. PrefillTypes'
  BY <1>1, <1>6, <1>7, <1>8 DEF PrefillMemory, PrefillTypes
<1>10. PrefillPlaces'
  BY <1>1, <1>6 DEF PrefillMemory, PrefillPlaces, PHeld
<1>11. PHeld' = PHeld
  BY <1>6 DEF PHeld
<1>12. PrefillStatuses'
  <2>1. ToSet(p_waiting') \cup ToSet(inflight_queue') = ToSet(p_waiting) \cup ToSet(inflight_queue)
    BY <1>6 DEF PHeld
  <2> QED BY <1>1, <1>7, <2>1 DEF PrefillMemory, PrefillStatuses
<1> QED BY <1>1, <1>9, <1>10, <1>11, <1>12 DEF PrefillMemory

(* The end of add_transfer_request. *)
LEMMA AfterPutMemory ==
  ASSUME PrefillMemory, NEW k \in Rank, NEW r \in Req, AfterPut(k, r)
  PROVE  PrefillMemory'
<1>1. p_status[k][r] \in StatusValue
  BY DEF PrefillMemory, PrefillTypes
<1>2. Updated(p_status[k][r], WaitingForInput) \in {Failed, WaitingForInput, Success}
  BY <1>1, UpdatedResult
<1>3. PICK v : v = Updated(p_status[k][r], WaitingForInput)
  OBVIOUS
<1>4. /\ p_status' = [p_status EXCEPT ![k][r] = v] /\ pending' \subseteq pending
      /\ UNCHANGED <<config, alive, p_arrived, bootstrap_queue, p_waiting, sent, inflight_queue, p_free,
                     p_meta, p_aux, p_conclude, p_done>>
  BY <1>3 DEF AfterPut
<1> QED BY <1>2, <1>3, <1>4, PrefillStatusStep

(* Requests that are transferred, or failed, give their buffers back. *)
LEMMA PollInflightMemory ==
  ASSUME PrefillMemory, PollInflight
  PROVE  PrefillMemory'
<1> DEFINE poll(r) == AllReduce(p_status, p_conclude, r)
           done    == {r \in ToSet(inflight_queue) : poll(r) = Success}
           lost    == {r \in ToSet(inflight_queue) : poll(r) = Failed}
           gone    == done \cup lost
           freed   == Queued(inflight_queue, gone)
           stays   == {r \in Req : poll(r) = WaitingForInput}
<1>1. /\ inflight_queue' = Queued(inflight_queue, stays)
      /\ p_conclude' = Concluded(p_status, p_conclude, ToSet(inflight_queue), gone)
      /\ p_status' = Cleared(p_status, gone)
      /\ p_free' = p_free \o Values(p_meta, freed)
      /\ p_done' = [r \in Req |-> IF r \in done THEN "ok" ELSE IF r \in lost THEN "failed" ELSE p_done[r]]
      /\ UNCHANGED <<config, alive, p_arrived, bootstrap_queue, p_waiting, sent, pending, p_meta, p_aux>>
  BY DEF PollInflight, Released
<1>2. /\ config \in Configs /\ inflight_queue \in Seq(Req) /\ Distinct(inflight_queue) /\ p_free \in Seq(PBuffer)
      /\ p_waiting \in Seq(Req) /\ p_meta \in [Req -> PBuffer \cup {0}]
      /\ p_status \in [Rank -> [Req -> StatusValue]] /\ p_conclude \in [Rank -> [Req -> FinalValue]]
      /\ p_done \in [Req -> Outcome]
  BY DEF PrefillMemory, PrefillTypes
<1>3. ToSet(inflight_queue) \in SUBSET Req /\ ToSet(p_waiting) \in SUBSET Req
  BY <1>2, ToSetIn
<1>4. ToSet(inflight_queue) \cap stays = ToSet(inflight_queue) \ gone
  <2> SUFFICES ASSUME NEW r \in ToSet(inflight_queue)
               PROVE  poll(r) = WaitingForInput <=> poll(r) \notin {Success, Failed}
    BY <1>3
  <2>1. r \in Req /\ \A k \in Rank : p_status[k][r] \in {Failed, WaitingForInput, Success}
    BY <1>3 DEF PrefillMemory, PrefillStatuses
  <2>2. \A k \in Rank : p_conclude[k][r] \in {Absent, Failed, Success}
    BY <1>2, <2>1 DEF FinalValue
  <2>3. \E k \in Rank : poll(r) = Poll(p_status, p_conclude, k, r)
    BY <1>2, <2>1, AllReduceResult
  <2>4. poll(r) \in {Failed, WaitingForInput, Success}
    BY <2>1, <2>2, <2>3 DEF Poll
  <2> QED BY <2>4 DEF Failed, WaitingForInput, Success
<1>5. gone \subseteq ToSet(inflight_queue) /\ gone \subseteq PHeld
  BY DEF PHeld
<1>6. ToSet(inflight_queue) \cap gone = gone
  BY <1>5
<1> HIDE DEF poll, done, lost, gone, freed, stays
<1>7. /\ inflight_queue' \in Seq(Req) /\ Distinct(inflight_queue')
      /\ ToSet(inflight_queue') = ToSet(inflight_queue) \ gone
  BY <1>1, <1>2, <1>4, QueuedDistinct
<1>8. freed \in Seq(Req) /\ Distinct(freed) /\ ToSet(freed) = gone
  BY <1>2, <1>6, QueuedDistinct DEF freed
<1>9. /\ Split(p_free', p_meta, PHeld \ gone, PBuffer) /\ p_free' \in Seq(PBuffer)
  <2>1. Split(p_free, p_meta, PHeld, PBuffer) /\ PHeld \in SUBSET Req
    BY <1>3 DEF PrefillMemory, PHeld
  <2>2. ToSet(freed) \subseteq PHeld
    BY <1>5, <1>8
  <2>3. /\ Split(p_free \o Values(p_meta, freed), p_meta, PHeld \ ToSet(freed), PBuffer)
        /\ p_free \o Values(p_meta, freed) \in Seq(PBuffer)
    BY <1>2, <1>8, <2>1, <2>2, SplitGive
  <2> QED BY <1>1, <1>8, <2>3
<1>10. Rank' = Rank
  BY <1>1 DEF Rank
<1>11. p_status' \in [Rank -> [Req -> StatusValue]] /\ p_conclude' \in [Rank -> [Req -> FinalValue]]
  BY <1>1, <1>2, ConcludedTypes
<1>12. PrefillTypes'
  <2>1. p_done' \in [Req -> Outcome]
    BY <1>1, <1>2 DEF Outcome
  <2> QED BY <1>1, <1>7, <1>9, <1>10, <1>11, <2>1 DEF PrefillMemory, PrefillTypes
<1>13. PrefillPlaces'
  BY <1>1, <1>7 DEF PrefillMemory, PrefillPlaces
<1>14. gone \cap (ToSet(p_waiting) \cup ToSet(bootstrap_queue)) = {}
  BY <1>5 DEF PrefillMemory, PrefillPlaces
<1>15. PrefillStatuses'
  <2> SUFFICES ASSUME NEW k \in Rank, NEW r \in Req
               PROVE  /\ r \in ToSet(bootstrap_queue) => p_status'[k][r] # Absent
                      /\ p_conclude'[k][r] # Absent => r \in p_arrived
                      /\ r \in ToSet(p_waiting) \cup ToSet(inflight_queue') \/ p_conclude'[k][r] # Absent
                           => p_status'[k][r] \in {Failed, WaitingForInput, Success}
    BY <1>1, <1>10 DEF PrefillStatuses
  <2>1. /\ r \in ToSet(bootstrap_queue) => p_status[k][r] # Absent
        /\ r \in ToSet(inflight_queue) => r \in p_arrived /\ p_status[k][r] # Absent
        /\ r \in ToSet(p_waiting) \cup ToSet(inflight_queue) => p_status[k][r] \in {Failed, WaitingForInput, Success}
    BY DEF PrefillMemory, PrefillStatuses, PrefillPlaces, Failed, WaitingForInput, Success, Absent
  <2>2. /\ p_conclude'[k][r] # Absent => r \in p_arrived /\ p_status'[k][r] \in {Failed, WaitingForInput, Success}
        /\ r \notin gone => p_status'[k][r] = p_status[k][r]
    <3>1. PICK s, c : s = p_status'[k][r] /\ c = p_conclude'[k][r]
      OBVIOUS
    <3>2. /\ s = Cleared(p_status, gone)[k][r]
          /\ c = Concluded(p_status, p_conclude, ToSet(inflight_queue), gone)[k][r]
      BY <1>1, <3>1
    <3>3. /\ c # Absent => r \in p_arrived /\ s \in {Failed, WaitingForInput, Success}
          /\ r \notin gone => s = p_status[k][r]
      BY <2>1, <3>2, ConcludedStatuses
    <3> QED BY <3>1, <3>3
  <2> QED BY <1>7, <1>14, <2>1, <2>2
<1>16. PHeld' = PHeld \ gone
  BY <1>1, <1>7, <1>14 DEF PHeld
<1> QED BY <1>1, <1>9, <1>12, <1>13, <1>15, <1>16 DEF PrefillMemory

(* The handshake of the decode server. *)
LEMMA BootstrapThreadMemory ==
  ASSUME PrefillMemory, ThreadTypes, NEW k \in Rank, BootstrapThread(k)
  PROVE  PrefillMemory'
<1> DEFINE m == Head(to_prefill[k])
<1>1. m \in ToPrefill
  BY DEF ThreadTypes, BootstrapThread, Empty
<1>2. UNCHANGED <<config, alive, prefillVars>>
  BY DEF BootstrapThread
<1>3. CASE m.type = "register"
  <2>1. UNCHANGED p_status
    BY <1>3 DEF BootstrapThread
  <2>2. alive \in BOOLEAN
    BY DEF PrefillMemory, PrefillTypes
  <2> QED BY <1>2, <2>1, <2>2, PrefillKeeps
<1>4. CASE m.type # "register"
  <2>1. m.room \in Req
    BY <1>1, <1>4 DEF ToPrefill
  <2>2. PICK r \in Req : r = m.room
    BY <2>1
  <2>3. PICK v : v = Updated(p_status[k][r], WaitingForInput)
    OBVIOUS
  <2>4. p_status' = [p_status EXCEPT ![k][r] = v]
    BY <1>4, <2>2, <2>3 DEF BootstrapThread
  <2>5. p_status[k][r] \in StatusValue
    BY DEF PrefillMemory, PrefillTypes
  <2>6. v \in {Failed, WaitingForInput, Success}
    BY <2>3, <2>5, UpdatedResult
  <2>7. pending' \subseteq pending
    BY <1>2 DEF prefillVars
  <2> QED BY <1>2, <2>4, <2>6, <2>7, PrefillStatusStep DEF prefillVars
<1> QED BY <1>3, <1>4

(* The end of a transfer. *)
LEMMA TransferEndMemory ==
  ASSUME PrefillMemory, ThreadTypes, NEW k \in Rank, NEW outcome, TransferEnd(k, outcome)
  PROVE  PrefillMemory'
<1>1. worker[k].room \in Req
  BY DEF ThreadTypes, TransferEnd, Chunk
<1>2. PICK r \in Req : r = worker[k].room
  BY <1>1
<1>3. p_status[k][r] \in StatusValue
  BY DEF PrefillMemory, PrefillTypes
<1>4. /\ Updated(p_status[k][r], Failed) \in {Failed, WaitingForInput, Success}
      /\ Updated(p_status[k][r], Success) \in {Failed, WaitingForInput, Success}
  BY <1>3, UpdatedResult
<1>5. PICK v : /\ p_status' = [p_status EXCEPT ![k][r] = v]
               /\ v = p_status[k][r] \/ v = Updated(p_status[k][r], Failed) \/ v = Updated(p_status[k][r], Success)
  BY <1>2 DEF TransferEnd
<1>6. UNCHANGED <<config, alive, prefillVars>>
  BY DEF TransferEnd
<1>7. pending' \subseteq pending
  BY <1>6 DEF prefillVars
<1> QED BY <1>4, <1>5, <1>6, <1>7, PrefillStatusStep DEF prefillVars

---------------------------------------------------------------------------
(* The decode server's queues, statuses, buffers and pages                 *)

(* Steps that leave them alone. *)
LEMMA DecodeKeeps ==
  ASSUME DecodeMemory, UNCHANGED <<config, decodeVars, d_status>>
  PROVE  DecodeMemory'
<1> USE DEF DecodeMemory, decodeVars
<1>1. Rank' = Rank /\ Pages' = Pages /\ Page' = Page
  BY DEF Rank, Pages, Page
<1>2. Holders' = Holders /\ InDecode' = InDecode
  BY DEF Holders, InDecode
<1>3. DecodeTypes'
  BY <1>1 DEF DecodeTypes
<1>4. DecodePlaces'
  BY <1>2 DEF DecodePlaces
<1>5. DecodeStatuses'
  BY <1>1 DEF DecodeStatuses
<1>6. Paged'
  BY <1>1, <1>2 DEF Paged
<1>7. Claim' = Claim
  BY DEF Claim, Due
<1>8. Growth'
  BY <1>1, <1>2, <1>7 DEF Growth
<1> QED BY <1>3, <1>4, <1>5, <1>6, <1>8

(* Steps that only change statuses, and clear none. *)
LEMMA DecodeStatusStep ==
  ASSUME DecodeMemory, UNCHANGED <<config, decodeVars>>, d_status' \in [Rank -> [Req -> StatusValue]],
         \A k \in Rank, r \in Req : d_status[k][r] # Absent => d_status'[k][r] # Absent
  PROVE  DecodeMemory'
<1> USE DEF DecodeMemory, decodeVars
<1>1. Rank' = Rank /\ Pages' = Pages /\ Page' = Page
  BY DEF Rank, Pages, Page
<1>2. Holders' = Holders /\ InDecode' = InDecode
  BY DEF Holders, InDecode
<1>3. DecodeTypes'
  BY <1>1 DEF DecodeTypes
<1>4. DecodePlaces'
  BY <1>2 DEF DecodePlaces
<1>5. DecodeStatuses'
  <2>1. ToSet(prealloc_queue) \in SUBSET Req /\ ToSet(transfer_q) \in SUBSET Req
    BY ToSetIn DEF DecodeTypes
  <2> QED BY <1>1, <2>1 DEF DecodeStatuses
<1>6. Paged'
  BY <1>1, <1>2 DEF Paged
<1>7. Claim' = Claim
  BY DEF Claim, Due
<1>8. Growth'
  BY <1>1, <1>2, <1>7 DEF Growth
<1> QED BY <1>3, <1>4, <1>5, <1>6, <1>8

(* The receiving thread. *)
LEMMA DecodeThreadMemory ==
  ASSUME DecodeMemory, ThreadTypes, NEW k \in Rank, DecodeThread(k)
  PROVE  DecodeMemory'
<1>1. Head(to_decode[k]) \in ToDecode
  BY DEF ThreadTypes, DecodeThread, Empty
<1>2. PICK r \in Req, v \in {Failed, Success} : r = Head(to_decode[k]).room /\ v = Head(to_decode[k]).status
  BY <1>1 DEF ToDecode
<1>3. d_status' = [d_status EXCEPT ![k][r] = Updated(@, v)] /\ UNCHANGED <<config, decodeVars>>
  BY <1>2 DEF DecodeThread
<1>4. d_status \in [Rank -> [Req -> StatusValue]]
  BY DEF DecodeMemory, DecodeTypes
<1>5. Updated(d_status[k][r], v) \in StatusValue /\ Updated(d_status[k][r], v) # Absent
  <2>1. d_status[k][r] \in StatusValue /\ v \in {Failed, WaitingForInput, Success}
    BY <1>4
  <2>2. Updated(d_status[k][r], v) \in StatusValue /\ Updated(d_status[k][r], v) \in {Failed, WaitingForInput, Success}
    BY <2>1, UpdatedResult
  <2> QED BY <2>2 DEF Absent, Failed, WaitingForInput, Success
<1>6. PICK w : w = Updated(d_status[k][r], v)
  OBVIOUS
<1>7. d_status' = [d_status EXCEPT ![k][r] = w]
  BY <1>3, <1>6
<1>8. d_status' \in [Rank -> [Req -> StatusValue]]
  BY <1>4, <1>5, <1>6, <1>7
<1>9. \A x \in Rank, q \in Req : d_status[x][q] # Absent => d_status'[x][q] # Absent
  BY <1>4, <1>5, <1>6, <1>7
<1> QED BY <1>3, <1>8, <1>9, DecodeStatusStep

(* The node of the prefill server is given up. *)
LEMMA HeartbeatMemory ==
  ASSUME DecodeMemory, NEW k \in Rank, Heartbeat(k)
  PROVE  DecodeMemory'
<1>1. d_status \in [Rank -> [Req -> StatusValue]]
  BY DEF DecodeMemory, DecodeTypes
<1>2. /\ d_status' = [d_status EXCEPT ![k] = [r \in Req |->
            IF r \in AffectedRooms(k) THEN Failed ELSE d_status[k][r]]]
      /\ UNCHANGED <<config, decodeVars>>
  BY DEF Heartbeat
<1>3. d_status' \in [Rank -> [Req -> StatusValue]]
  BY <1>1, <1>2 DEF StatusValue
<1>4. \A x \in Rank, q \in Req : d_status[x][q] # Absent => d_status'[x][q] # Absent
  BY <1>1, <1>2 DEF Failed, Absent
<1> QED BY <1>2, <1>3, <1>4, DecodeStatusStep

(* A new request has a receiver in every rank. *)
LEMMA ArriveDecodeMemory ==
  ASSUME DecodeMemory, NEW r \in Req, ArriveDecode(r)
  PROVE  DecodeMemory'
<1> USE DEF DecodeMemory
<1>0. /\ UNCHANGED <<config, waiting_for_input, transfer_q, d_waiting,
                 last_batch, running_batch, d_free, d_meta, d_conclude, row, free_pages, free_rows,
                 out_len, first_token, retracted, d_done>>
      /\ prealloc_queue' = Append(prealloc_queue, r) /\ r \notin d_arrived /\ d_arrived' = d_arrived \cup {r}
  BY DEF ArriveDecode
<1>1. Rank' = Rank /\ Pages' = Pages /\ Page' = Page
  BY <1>0 DEF Rank, Pages, Page
<1>2. Holders' = Holders /\ InDecode' = InDecode
  BY <1>0 DEF Holders, InDecode
<1>3. r \notin ToSet(prealloc_queue) /\ r \notin Holders \cup running_batch
  BY <1>0 DEF DecodePlaces
<1>4. /\ prealloc_queue' \in Seq(Req) /\ Distinct(prealloc_queue')
      /\ ToSet(prealloc_queue') = ToSet(prealloc_queue) \cup {r}
  BY <1>0, <1>3, AppendDistinct DEF DecodeTypes
<1>5. PICK ok : d_status' = [k \in Rank |-> [d_status[k] EXCEPT ![r] = ReceiverStatus(k \in ok)]]
  BY DEF ArriveDecode
<1>6. d_status \in [Rank -> [Req -> StatusValue]]
  BY DEF DecodeTypes
<1>7. \A k : ReceiverStatus(k \in ok) \in StatusValue /\ ReceiverStatus(k \in ok) # Absent
  BY DEF ReceiverStatus, StatusValue, WaitingForInput, Failed, Absent
<1>8. d_status' \in [Rank -> [Req -> StatusValue]]
  BY <1>5, <1>6, <1>7
<1>9. \A k \in Rank, q \in Req : d_status'[k][q] # Absent \/ (q # r /\ d_status'[k][q] = d_status[k][q])
  BY <1>5, <1>6, <1>7
<1>10. DecodeTypes'
  BY <1>0, <1>1, <1>4, <1>8 DEF DecodeTypes
<1>11. DecodePlaces'
  BY <1>0, <1>2, <1>3, <1>4 DEF DecodePlaces
<1>12. DecodeStatuses'
  <2>1. ToSet(prealloc_queue) \in SUBSET Req /\ ToSet(transfer_q) \in SUBSET Req
    BY ToSetIn DEF DecodeTypes
  <2> QED BY <1>0, <1>1, <1>4, <1>9, <2>1 DEF DecodeStatuses
<1>13. Paged'
  BY <1>0, <1>1, <1>2 DEF Paged
<1>14. Claim' = Claim
  BY <1>0 DEF Claim, Due
<1>15. Growth'
  BY <1>0, <1>1, <1>2, <1>14 DEF Growth
<1> QED BY <1>0, <1>10, <1>11, <1>12, <1>13, <1>15

(* The requests that hold memory, and what they may still ask for. *)
LEMMA HolderFacts ==
  ASSUME DecodeMemory
  PROVE  /\ Holders \in SUBSET Req /\ IsFiniteSet(Holders) /\ InDecode \subseteq Holders
         /\ ToSet(transfer_q) \subseteq Holders /\ ToSet(transfer_q) \cap InDecode = {}
         /\ ToSet(prealloc_queue) \in SUBSET Req /\ ToSet(transfer_q) \in SUBSET Req
         /\ ToSet(d_waiting) \in SUBSET Req
<1>1. /\ ToSet(prealloc_queue) \in SUBSET Req /\ ToSet(transfer_q) \in SUBSET Req
      /\ ToSet(d_waiting) \in SUBSET Req /\ last_batch \in SUBSET Req /\ running_batch \in SUBSET Req
  BY ToSetIn DEF DecodeMemory, DecodeTypes
<1>2. Holders \in SUBSET Req
  BY <1>1 DEF Holders, InDecode
<1>3. IsFiniteSet(Holders)
  BY <1>2, ConstantFacts, FS_Subset
<1> QED BY <1>1, <1>2, <1>3 DEF Holders, InDecode, DecodeMemory, DecodePlaces

(* Free pages and rows together are the pool. *)
LEMMA PageCount ==
  ASSUME DecodeMemory, config \in Configs
  PROVE  /\ IsFiniteSet(free_pages) /\ Cardinality(free_pages) \in Nat
         /\ SumOver([r \in Req |-> Len(row[r])], Holders) \in Nat
         /\ Cardinality(free_pages) + SumOver([r \in Req |-> Len(row[r])], Holders) = Pages
<1> DEFINE U == UNION {ToSet(row[r]) : r \in Holders}
           len == [r \in Req |-> Len(row[r])]
<1>1. /\ row \in [Req -> Seq(Page)] /\ free_pages \in SUBSET Page
      /\ Apart(row, Holders) /\ \A r \in Holders : ToSet(row[r]) \cap free_pages = {}
      /\ free_pages \cup U = Page
  BY DEF DecodeMemory, DecodeTypes, Paged, Parted
<1>2. Holders \in SUBSET Req /\ IsFiniteSet(Holders)
  BY HolderFacts
<1>3. IsFiniteSet(U) /\ Cardinality(U) = SumOver(len, Holders)
  <2>1. PICK f : f = len
    OBVIOUS
  <2>2. /\ IsFiniteSet(UNION {ToSet(row[r]) : r \in Holders})
        /\ Cardinality(UNION {ToSet(row[r]) : r \in Holders}) = SumOver(f, Holders)
    BY <1>1, <1>2, <2>1, FamilyCardinality
  <2> QED BY <2>1, <2>2
<1>4. IsFiniteSet(Page) /\ Cardinality(Page) = Pages
  BY ConfigFacts
<1>5. IsFiniteSet(free_pages)
  BY <1>1, <1>4, FS_Subset
<1>6. free_pages \cap U = {}
  BY <1>1
<1> HIDE DEF U, len
<1>7. Cardinality(free_pages \cup U) = Cardinality(free_pages) + Cardinality(U)
  BY <1>3, <1>5, <1>6, UnionCardinality
<1>8. Cardinality(free_pages) \in Nat /\ Cardinality(U) \in Nat
  BY <1>3, <1>5, FS_CardinalityType
<1>9. Cardinality(free_pages \cup U) = Pages
  BY <1>1, <1>4
<1>10. Cardinality(free_pages) + SumOver(len, Holders) = Pages
  BY <1>3, <1>7, <1>9
<1> QED BY <1>3, <1>5, <1>8, <1>10 DEF len

(* The pages a request may still ask for are within the reservation. *)
LEMMA DueBounds ==
  ASSUME DecodeMemory
  PROVE  /\ \A r \in Req : Due(r) \in Int /\ Due(r) >= 1
         /\ \A r \in Holders : Due(r) <= Reserved
         /\ Claim \in [Req -> Int] /\ \A r \in Req : Claim[r] = Len(row[r]) + Due(r) /\ Claim[r] >= 0
<1>1. /\ out_len \in [Req -> Nat] /\ row \in [Req -> Seq(Page)]
      /\ \A r \in InDecode : out_len[r] >= 1
  BY DEF DecodeMemory, DecodeTypes, Paged
<1>2. Reserved \in Nat \ {0} /\ MaxNew \in [Req -> Nat \ {0}] /\ \A r \in Req : MaxNew[r] <= Reserved + 1
  BY ConstantFacts
<1>3. ASSUME NEW r \in Req PROVE Due(r) \in Int /\ Due(r) >= 1
  <2>1. out_len[r] \in Nat /\ MaxNew[r] \in Nat
    BY <1>1, <1>2
  <2> QED BY <1>2, <2>1 DEF Due
<1>4. ASSUME NEW r \in Holders PROVE Due(r) <= Reserved
  <2>1. r \in Req /\ (r \in ToSet(transfer_q) \/ r \in InDecode)
    BY HolderFacts DEF Holders
  <2>2. out_len[r] \in Nat /\ MaxNew[r] \in Nat /\ MaxNew[r] <= Reserved + 1
    BY <1>1, <1>2, <2>1
  <2>3. CASE r \in ToSet(transfer_q)
    BY <1>2, <2>3 DEF Due
  <2>4. CASE r \notin ToSet(transfer_q)
    <3>1. out_len[r] >= 1
      BY <1>1, <2>1, <2>4
    <3> QED BY <1>2, <2>2, <2>4, <3>1 DEF Due
  <2> QED BY <2>3, <2>4
<1>5. \A r \in Req : Len(row[r]) \in Nat
  BY <1>1
<1>6. Claim \in [Req -> Int] /\ \A r \in Req : Claim[r] = Len(row[r]) + Due(r) /\ Claim[r] >= 0
  <2>1. \A r \in Req : Len(row[r]) + Due(r) \in Int /\ Len(row[r]) + Due(r) >= 0
    BY <1>3, <1>5
  <2> QED BY <2>1 DEF Claim
<1> QED BY <1>3, <1>4, <1>6

(* get_new_prebuilt_batch moves requests; what they hold stays. *)
LEMMA PrebuiltMemory ==
  ASSUME DecodeMemory, Prebuilt
  PROVE  DecodeMemory' /\ InDecode' = InDecode
<1> DEFINE n == Min({Len(d_waiting), Rows - Cardinality(Merged)})
<1> USE DEF DecodeMemory
<1>1. /\ n > 0 /\ running_batch' = Merged /\ last_batch' = ToSet(Firsts(d_waiting, n))
      /\ d_waiting' = Rest(d_waiting, n)
      /\ UNCHANGED <<config, d_status, d_arrived, prealloc_queue, waiting_for_input, transfer_q, d_free, d_meta,
                     d_conclude, row, free_pages, free_rows, out_len, first_token, retracted, d_done>>
  BY DEF Prebuilt
<1>2. d_waiting \in Seq(Req) /\ Distinct(d_waiting) /\ Len(d_waiting) \in Nat
  BY DEF DecodeTypes
<1>3. n \in 0..Len(d_waiting)
  <2>1. Cardinality(Merged) \in Nat
    <3>1. Merged \in SUBSET Req
      BY DEF Merged, DecodeTypes
    <3>2. IsFiniteSet(Merged)
      BY <3>1, ConstantFacts, FS_Subset
    <3> QED BY <3>2, FS_CardinalityType
  <2>2. PICK b \in Int : b = Rows - Cardinality(Merged)
    BY <2>1, ConstantFacts
  <2>3. n \in {Len(d_waiting), b} /\ n <= Len(d_waiting)
    <3>1. PICK a \in Int : a = Len(d_waiting)
      BY <1>2
    <3>2. Min({a, b}) \in {a, b} /\ Min({a, b}) <= a
      BY MinOfTwo
    <3> QED BY <2>2, <3>1, <3>2
  <2> HIDE DEF n
  <2> QED BY <1>1, <1>2, <2>2, <2>3
<1> HIDE DEF n
<1>4. /\ d_waiting' \in Seq(Req) /\ Distinct(d_waiting')
  BY <1>1, <1>2, <1>3, RestResult
<1>5. ToSet(d_waiting') \cup last_batch' = ToSet(d_waiting) /\ ToSet(d_waiting') \cap last_batch' = {}
  BY <1>1, <1>2, <1>3, FirstsRest
<1>6. Rank' = Rank /\ Pages' = Pages /\ Page' = Page
  BY <1>1 DEF Rank, Pages, Page
<1>7. InDecode' = InDecode /\ Holders' = Holders
  <2>1. \A r \in last_batch : d_done[r] = "no"
    BY DEF DecodePlaces, DecodeTypes
  <2>2. InDecode' = InDecode
    BY <1>1, <1>5, <2>1 DEF InDecode, Merged
  <2> QED BY <1>1, <2>2 DEF Holders
<1>8. DecodeTypes'
  <2>1. running_batch' \in SUBSET Req
    BY <1>1 DEF Merged, DecodeTypes
  <2>2. last_batch' \in SUBSET Req
    BY <1>5, HolderFacts
  <2> QED BY <1>1, <1>4, <1>6, <2>1, <2>2 DEF DecodeTypes
<1>9. DecodePlaces'
  <2>1. running_batch' = running_batch \cup last_batch /\ last_batch \subseteq Holders
    BY <1>1 DEF Merged, Holders, InDecode
  <2> QED BY <1>1, <1>5, <1>7, <2>1 DEF DecodePlaces
<1>10. DecodeStatuses' /\ Split(d_free, d_meta, ToSet(transfer_q), DBuffer)'
  BY <1>1, <1>6 DEF DecodeStatuses
<1>11. Paged'
  BY <1>1, <1>6, <1>7 DEF Paged
<1>12. Claim' = Claim
  BY <1>1 DEF Claim, Due
<1>13. Growth'
  BY <1>1, <1>6, <1>7, <1>12 DEF Growth
<1> QED BY <1>7, <1>8, <1>9, <1>10, <1>11, <1>13

---------------------------------------------------------------------------
(* Pages                                                                   *)

(* The rows of the requests of L come back. *)
LEMMA PartedDrop ==
  ASSUME NEW free, NEW rows, NEW H, NEW P, Parted(free, rows, H, P), NEW L \in SUBSET H
  PROVE  Parted(free \cup UNION {ToSet(rows[r]) : r \in L}, rows, H \ L, P)
BY DEF Parted, Apart

(* The requests of B have one more page. *)
Grown(new, rows, B, pg) == new = [r \in Req |-> IF r \in B THEN Append(rows[r], pg[r]) ELSE rows[r]]

(* Each request of B gets one more free page. *)
LEMMA PartedGrow ==
  ASSUME NEW free, NEW X, NEW rows \in [Req -> Seq(X)], NEW H \in SUBSET Req, NEW P, Parted(free, rows, H, P),
         NEW B \in SUBSET H, NEW pg \in [B -> free], \A r, q \in B : pg[r] = pg[q] => r = q, free \subseteq X,
         NEW grown, Grown(grown, rows, B, pg)
  PROVE  Parted(free \ {pg[r] : r \in B}, grown, H, P) /\ grown \in [Req -> Seq(X)]
<1>0. grown = [r \in Req |-> IF r \in B THEN Append(rows[r], pg[r]) ELSE rows[r]]
  BY DEF Grown
<1>1. /\ \A r \in H : Distinct(rows[r])
      /\ \A r, q \in H : r # q => ToSet(rows[r]) \cap ToSet(rows[q]) = {}
      /\ \A r \in H : ToSet(rows[r]) \cap free = {}
      /\ free \cup UNION {ToSet(rows[r]) : r \in H} = P
  BY DEF Parted, Apart
<1>2. ASSUME NEW r \in B
      PROVE  /\ grown[r] \in Seq(X) /\ Distinct(grown[r]) /\ ToSet(grown[r]) = ToSet(rows[r]) \cup {pg[r]}
             /\ pg[r] \in free
  <2>1. r \in Req /\ r \in H /\ rows[r] \in Seq(X) /\ pg[r] \in X /\ pg[r] \in free
    OBVIOUS
  <2>2. pg[r] \notin ToSet(rows[r]) /\ Distinct(rows[r])
    BY <1>1, <2>1
  <2>3. grown[r] = Append(rows[r], pg[r])
    BY <1>0, <2>1
  <2>4. PICK s, x : s = rows[r] /\ x = pg[r]
    OBVIOUS
  <2>5. Append(s, x) \in Seq(X) /\ Distinct(Append(s, x)) /\ ToSet(Append(s, x)) = ToSet(s) \cup {x}
    BY <2>1, <2>2, <2>4, AppendDistinct
  <2> QED BY <2>1, <2>3, <2>4, <2>5
<1>3. \A r \in Req \ B : grown[r] = rows[r] /\ grown[r] \in Seq(X)
  BY <1>0
<1>4. grown \in [Req -> Seq(X)]
  BY <1>0, <1>2, <1>3
<1>5. \A r \in H : ToSet(grown[r]) = IF r \in B THEN ToSet(rows[r]) \cup {pg[r]} ELSE ToSet(rows[r])
  BY <1>2, <1>3
<1>6. \A r \in H : Distinct(grown[r])
  BY <1>1, <1>2, <1>3
<1>7. ASSUME NEW r \in H, NEW q \in H, r # q PROVE ToSet(grown[r]) \cap ToSet(grown[q]) = {}
  <2>1. /\ ToSet(rows[r]) \cap ToSet(rows[q]) = {}
        /\ ToSet(rows[r]) \cap free = {} /\ ToSet(rows[q]) \cap free = {}
    BY <1>1, <1>7
  <2>2. r \in B /\ q \in B => pg[r] # pg[q]
    BY <1>7
  <2>3. /\ \A x \in ToSet(grown[r]) : x \in ToSet(rows[r]) \/ (r \in B /\ x = pg[r] /\ x \in free)
        /\ \A x \in ToSet(grown[q]) : x \in ToSet(rows[q]) \/ (q \in B /\ x = pg[q] /\ x \in free)
    BY <1>2, <1>5
  <2> QED BY <2>1, <2>2, <2>3
<1>8. ASSUME NEW r \in H PROVE ToSet(grown[r]) \cap (free \ {pg[q] : q \in B}) = {}
  <2>1. \A x \in ToSet(grown[r]) : x \in ToSet(rows[r]) \/ (r \in B /\ x = pg[r])
    BY <1>5
  <2>2. ToSet(rows[r]) \cap free = {}
    BY <1>1
  <2> QED BY <2>1, <2>2
<1>9. (free \ {pg[q] : q \in B}) \cup UNION {ToSet(grown[r]) : r \in H} = P
  <2>0. PICK F, U : F = {pg[q] : q \in B} /\ U = UNION {ToSet(grown[r]) : r \in H}
    OBVIOUS
  <2>a. /\ \A r \in H : ToSet(grown[r]) \subseteq U
        /\ \A x \in U : \E r \in H : x \in ToSet(grown[r])
        /\ \A x \in F : \E q \in B : x = pg[q]
        /\ \A r \in H : ToSet(rows[r]) \subseteq P
    BY <1>1, <2>0
  <2>1. ASSUME NEW x \in P PROVE x \in (free \ F) \cup U
    <3>1. CASE x \in F
      <4>1. PICK q \in B : x = pg[q]
        BY <2>a, <3>1
      <4>2. x \in ToSet(grown[q]) /\ q \in H
        BY <1>2, <4>1
      <4> QED BY <2>a, <4>2
    <3>2. CASE x \in free /\ x \notin F
      BY <3>2
    <3>3. CASE x \notin free
      <4>1. PICK r \in H : x \in ToSet(rows[r])
        BY <1>1, <3>3
      <4>2. x \in ToSet(grown[r])
        BY <1>5, <4>1
      <4> QED BY <2>a, <4>2
    <3> QED BY <3>1, <3>2, <3>3
  <2>2. ASSUME NEW x \in U PROVE x \in P
    <3>1. PICK r \in H : x \in ToSet(grown[r])
      BY <2>a
    <3>2. x \in ToSet(rows[r]) \/ (r \in B /\ x = pg[r])
      BY <1>5, <3>1
    <3> QED BY <1>1, <1>2, <2>a, <3>2
  <2>3. free \subseteq P
    BY <1>1
  <2>4. (free \ F) \cup U = P
    BY <2>1, <2>2, <2>3
  <2> QED BY <2>0, <2>4
<1>10. Apart(grown, H)
  BY <1>6, <1>7 DEF Apart
<1>11. Parted(free \ {pg[r] : r \in B}, grown, H, P)
  BY <1>8, <1>9, <1>10 DEF Parted
<1> QED BY <1>4, <1>11

(* New requests get rows of free pages. *)
LEMMA PartedNew ==
  ASSUME NEW free, NEW rows, NEW H, NEW P, Parted(free, rows, H, P), NEW N, N \cap H = {},
         NEW new, \A r \in H : new[r] = rows[r], Apart(new, N), \A r \in N : ToSet(new[r]) \subseteq free
  PROVE  Parted(free \ UNION {ToSet(new[r]) : r \in N}, new, H \cup N, P)
<1>1. /\ \A r \in H : Distinct(rows[r])
      /\ \A r, q \in H : r # q => ToSet(rows[r]) \cap ToSet(rows[q]) = {}
      /\ \A r \in H : ToSet(rows[r]) \cap free = {}
      /\ free \cup UNION {ToSet(rows[r]) : r \in H} = P
  BY DEF Parted, Apart
<1>2. /\ \A r \in N : Distinct(new[r])
      /\ \A r, q \in N : r # q => ToSet(new[r]) \cap ToSet(new[q]) = {}
  BY DEF Apart
<1>3. Apart(new, H \cup N)
  <2>1. \A r \in H \cup N : Distinct(new[r])
    BY <1>1, <1>2
  <2>2. ASSUME NEW r \in H \cup N, NEW q \in H \cup N, r # q PROVE ToSet(new[r]) \cap ToSet(new[q]) = {}
    <3>1. CASE r \in H /\ q \in H
      BY <1>1, <2>2, <3>1
    <3>2. CASE r \in N /\ q \in N
      BY <1>2, <2>2, <3>2
    <3>3. CASE r \in H /\ q \in N
      BY <1>1, <3>3
    <3>4. CASE r \in N /\ q \in H
      BY <1>1, <3>4
    <3> QED BY <3>1, <3>2, <3>3, <3>4
  <2> QED BY <2>1, <2>2 DEF Apart
<1> DEFINE U == UNION {ToSet(new[r]) : r \in N}
<1>4. \A r \in N : ToSet(new[r]) \subseteq U
  OBVIOUS
<1>5. U \subseteq free
  OBVIOUS
<1>6. \A x \in U : \E r \in N : x \in ToSet(new[r])
  OBVIOUS
<1> HIDE DEF U
<1>7. \A r \in H \cup N : ToSet(new[r]) \cap (free \ U) = {}
  <2> TAKE r \in H \cup N
  <2>1. CASE r \in H
    BY <1>1, <2>1
  <2>2. CASE r \in N
    BY <1>4, <2>2
  <2> QED BY <2>1, <2>2
<1>8. (free \ U) \cup UNION {ToSet(new[r]) : r \in H \cup N} = P
  <2>1. ASSUME NEW x \in P PROVE x \in (free \ U) \cup UNION {ToSet(new[r]) : r \in H \cup N}
    <3>1. CASE x \in U
      BY <1>6, <3>1
    <3>2. CASE x \in free /\ x \notin U
      BY <3>2
    <3>3. CASE x \notin free
      <4>1. PICK r \in H : x \in ToSet(rows[r])
        BY <1>1, <3>3
      <4>2. new[r] = rows[r]
        OBVIOUS
      <4> QED BY <4>1, <4>2
    <3> QED BY <3>1, <3>2, <3>3
  <2>2. ASSUME NEW r \in H \cup N, NEW x \in ToSet(new[r]) PROVE x \in P
    <3>1. CASE r \in H
      BY <1>1, <2>2, <3>1
    <3>2. CASE r \in N
      BY <1>1, <1>4, <1>5, <2>2, <3>2
    <3> QED BY <3>1, <3>2
  <2>3. free \subseteq P
    BY <1>1
  <2> QED BY <2>1, <2>2, <2>3
<1>9. Parted(free \ U, new, H \cup N, P)
  BY <1>3, <1>7, <1>8 DEF Parted
<1> QED BY <1>9 DEF U

(* A step after which no holder of memory claims more. *)
LEMMA GrowthStep ==
  ASSUME DecodeMemory, config \in Configs, config' = config, row' \in [Req -> Seq(Page)], out_len' \in [Req -> Nat],
         Holders' \subseteq Holders, ~retracted',
         \A r \in Holders' : Len(row'[r]) + Due(r)' <= Len(row[r]) + Due(r)
  PROVE  Growth'
<1>1. Holders \in SUBSET Req /\ IsFiniteSet(Holders)
  BY HolderFacts
<1>2. Claim \in [Req -> Int] /\ \A r \in Req : Claim[r] = Len(row[r]) + Due(r) /\ Claim[r] >= 0
  BY DueBounds
<1>3. PICK f : f = Claim'
  OBVIOUS
<1>4. Reserved \in Nat /\ MaxNew \in [Req -> Nat \ {0}]
  BY ConstantFacts
<1>5. ASSUME NEW r \in Req PROVE Due(r)' \in Int /\ Len(row'[r]) \in Nat
  <2>1. out_len'[r] \in Nat /\ MaxNew[r] \in Nat
    BY <1>4
  <2> QED BY <1>4, <2>1 DEF Due
<1>6. f \in [Req -> Int] /\ \A r \in Req : f[r] = Len(row'[r]) + Due(r)'
  BY <1>3, <1>5 DEF Claim
<1>7. \A r \in Holders' : f[r] <= Claim[r]
  BY <1>1, <1>2, <1>6
<1>8. PICK H \in SUBSET Holders : H = Holders'
  OBVIOUS
<1>9. SumOver(f, H) <= SumOver(Claim, Holders)
  <2>1. \A r \in H : f[r] <= Claim[r]
    BY <1>7, <1>8
  <2>2. \A r \in Holders : Claim[r] >= 0
    BY <1>1, <1>2
  <2> QED BY <1>1, <1>2, <1>6, <2>1, <2>2, SumBound
<1>10. SumOver(f, H) \in Int /\ SumOver(Claim, Holders) \in Int
  <2>1. IsFiniteSet(H) /\ H \in SUBSET Req
    BY <1>1, FS_Subset
  <2> QED BY <1>1, <1>2, <1>6, <2>1, SumType
<1>11. SumOver(Claim, Holders) <= Pages
  BY DEF DecodeMemory, Growth
<1>12. SumOver(f, H) <= Pages
  <2>1. PICK a \in Int, b \in Int : a = SumOver(f, H) /\ b = SumOver(Claim, Holders)
    BY <1>10
  <2>2. Pages \in Int
    BY ConfigFacts
  <2> QED BY <1>9, <1>11, <2>1, <2>2
<1>13. SumOver(Claim', Holders') <= Pages'
  BY <1>3, <1>8, <1>12 DEF Pages
<1> QED BY <1>13 DEF Growth

---------------------------------------------------------------------------
(* The decode server's steps that give and take memory                     *)

(* pop_transferred *)
LEMMA PopTransferredMemory ==
  ASSUME DecodeMemory, config \in Configs, PopTransferred
  PROVE  DecodeMemory'
<1> DEFINE poll(r) == AllReduce(d_status, d_conclude, r)
           done    == {r \in ToSet(transfer_q) : poll(r) = Success}
           lost    == {r \in ToSet(transfer_q) : poll(r) = Failed}
           gone    == done \cup lost
           freed   == Queued(transfer_q, gone)
<1>1. /\ transfer_q' = Without(transfer_q, gone)
      /\ d_waiting' = d_waiting \o Queued(transfer_q, done)
      /\ out_len' = [r \in Req |-> IF r \in done THEN 1 ELSE out_len[r]]
      /\ free_pages' = free_pages \cup UNION {ToSet(row[r]) : r \in lost}
      /\ free_rows' = free_rows + Cardinality(lost)
      /\ d_free' = d_free \o Values(d_meta, freed)
      /\ d_conclude' = Concluded(d_status, d_conclude, ToSet(transfer_q), gone)
      /\ d_status' = Cleared(d_status, gone)
      /\ d_done' = [r \in Req |-> IF r \in lost THEN "failed" ELSE d_done[r]]
      /\ UNCHANGED <<config, d_arrived, prealloc_queue, waiting_for_input, last_batch, running_batch,
                     d_meta, row, retracted>>
  BY DEF PopTransferred
<1>2. /\ transfer_q \in Seq(Req) /\ Distinct(transfer_q) /\ d_waiting \in Seq(Req) /\ Distinct(d_waiting)
      /\ d_free \in Seq(DBuffer) /\ d_meta \in [Req -> DBuffer \cup {0}]
      /\ d_status \in [Rank -> [Req -> StatusValue]] /\ d_conclude \in [Rank -> [Req -> FinalValue]]
      /\ row \in [Req -> Seq(Page)] /\ free_pages \in SUBSET Page /\ free_rows \in Nat
      /\ out_len \in [Req -> Nat] /\ d_done \in [Req -> Outcome]
  BY DEF DecodeMemory, DecodeTypes
<1>3. /\ Holders \in SUBSET Req /\ IsFiniteSet(Holders) /\ InDecode \subseteq Holders
      /\ ToSet(transfer_q) \subseteq Holders /\ ToSet(transfer_q) \cap InDecode = {}
      /\ ToSet(prealloc_queue) \in SUBSET Req /\ ToSet(transfer_q) \in SUBSET Req
      /\ ToSet(d_waiting) \in SUBSET Req
  BY HolderFacts
<1>4. /\ done \subseteq ToSet(transfer_q) /\ lost \subseteq ToSet(transfer_q) /\ done \cap lost = {}
      /\ ToSet(transfer_q) \cap done = done /\ ToSet(transfer_q) \cap gone = gone
      /\ gone \subseteq ToSet(transfer_q) /\ gone = done \cup lost
  BY DEF Success, Failed
<1> HIDE DEF poll, done, lost, gone, freed
<1>5. /\ ToSet(transfer_q) \cap (ToSet(d_waiting) \cup last_batch \cup running_batch) = {}
      /\ \A r \in ToSet(transfer_q) : d_done[r] = "no"
  BY <1>3 DEF DecodeMemory, DecodePlaces
<1>6. transfer_q' \in Seq(Req) /\ Distinct(transfer_q') /\ ToSet(transfer_q') = ToSet(transfer_q) \ gone
  BY <1>1, <1>2, WithoutDistinct
<1>7. freed \in Seq(Req) /\ Distinct(freed) /\ ToSet(freed) = gone
  BY <1>2, <1>4, QueuedDistinct DEF freed
<1>8. d_waiting' \in Seq(Req) /\ Distinct(d_waiting') /\ ToSet(d_waiting') = ToSet(d_waiting) \cup done
  <2>1. PICK q : q = Queued(transfer_q, done)
    OBVIOUS
  <2>2. q \in Seq(Req) /\ Distinct(q) /\ ToSet(q) = done
    <3>1. /\ Queued(transfer_q, done) \in Seq(Req) /\ Distinct(Queued(transfer_q, done))
          /\ ToSet(Queued(transfer_q, done)) = ToSet(transfer_q) \cap done
      BY <1>2, QueuedDistinct
    <3> QED BY <1>4, <2>1, <3>1
  <2>3. ToSet(d_waiting) \cap ToSet(q) = {}
    BY <1>4, <1>5, <2>2
  <2>4. d_waiting \o q \in Seq(Req) /\ Distinct(d_waiting \o q) /\ ToSet(d_waiting \o q) = ToSet(d_waiting) \cup ToSet(q)
    BY <1>2, <2>2, <2>3, ConcatDistinct
  <2> QED BY <1>1, <2>1, <2>2, <2>4
<1>9. /\ Split(d_free', d_meta, ToSet(transfer_q) \ gone, DBuffer) /\ d_free' \in Seq(DBuffer)
  <2>1. Split(d_free, d_meta, ToSet(transfer_q), DBuffer)
    BY DEF DecodeMemory
  <2>2. ToSet(freed) \subseteq ToSet(transfer_q)
    BY <1>4, <1>7
  <2>3. /\ Split(d_free \o Values(d_meta, freed), d_meta, ToSet(transfer_q) \ ToSet(freed), DBuffer)
        /\ d_free \o Values(d_meta, freed) \in Seq(DBuffer)
    BY <1>2, <1>3, <1>7, <2>1, <2>2, SplitGive
  <2> QED BY <1>1, <1>7, <2>3
<1>10. Rank' = Rank /\ Pages' = Pages /\ Page' = Page
  BY <1>1 DEF Rank, Pages, Page
<1>11. d_status' \in [Rank -> [Req -> StatusValue]] /\ d_conclude' \in [Rank -> [Req -> FinalValue]]
  BY <1>1, <1>2, ConcludedTypes
<1>12. InDecode' = InDecode \cup done /\ Holders' = Holders \ lost
  <2>1. \A r \in running_batch : r \in Req /\ r \notin lost
    BY <1>4, <1>5 DEF DecodeMemory, DecodeTypes
  <2>2. \A r \in running_batch : d_done'[r] = d_done[r]
    BY <1>1, <2>1
  <2>3. InDecode' = InDecode \cup done
    BY <1>1, <1>8, <2>2 DEF InDecode
  <2> QED BY <1>3, <1>4, <1>6, <2>3 DEF Holders
<1>13. Parted(free_pages', row, Holders \ lost, Page)
  <2>1. Parted(free_pages, row, Holders, Page) /\ lost \in SUBSET Holders
    BY <1>3, <1>4 DEF DecodeMemory, Paged
  <2>2. Parted(free_pages \cup UNION {ToSet(row[r]) : r \in lost}, row, Holders \ lost, Page)
    BY <2>1, PartedDrop
  <2> QED BY <1>1, <2>2
<1>14. /\ Cardinality(Holders \ lost) = Cardinality(Holders) - Cardinality(lost)
       /\ Cardinality(Holders) \in Nat /\ Cardinality(lost) \in Nat
  BY <1>3, <1>4, DifferenceCardinality
<1>15. DecodeTypes'
  <2>1. d_done' \in [Req -> Outcome] /\ out_len' \in [Req -> Nat] /\ free_rows' \in Nat
    BY <1>1, <1>2, <1>14 DEF Outcome
  <2>2. free_pages' \subseteq Page
    BY <1>13 DEF Parted
  <2> QED BY <1>1, <1>6, <1>8, <1>9, <1>10, <1>11, <2>1, <2>2 DEF DecodeMemory, DecodeTypes
<1>16. DecodePlaces'
  <2>1. /\ ToSet(prealloc_queue) \cup Holders \cup running_batch \subseteq d_arrived
        /\ ToSet(prealloc_queue) \cap (Holders \cup running_batch) = {}
        /\ ToSet(d_waiting) \cap (last_batch \cup running_batch) = {}
        /\ last_batch \cap running_batch = {}
        /\ \A r \in Req : d_done[r] # "no" => r \in d_arrived \ (ToSet(prealloc_queue) \cup ToSet(transfer_q)
                                                          \cup ToSet(d_waiting) \cup last_batch)
    BY DEF DecodeMemory, DecodePlaces
  <2>2. \A r \in Req : d_done'[r] # "no" => r \in lost \/ d_done[r] # "no"
    BY <1>1
  <2>3. \A r \in Req : d_done'[r] # "no" => r \in d_arrived \ (ToSet(prealloc_queue) \cup ToSet(transfer_q')
                                                          \cup ToSet(d_waiting') \cup last_batch)
    <3> TAKE r \in Req
    <3> HAVE d_done'[r] # "no"
    <3>1. CASE r \in lost
      <4>1. r \in Holders /\ r \notin ToSet(transfer_q') /\ r \notin ToSet(d_waiting') /\ r \notin last_batch
        BY <1>3, <1>4, <1>5, <1>6, <1>8, <3>1
      <4> QED BY <2>1, <4>1
    <3>2. CASE r \notin lost
      <4>1. r \notin done
        BY <1>4, <1>5, <2>2, <3>2
      <4> QED BY <1>6, <1>8, <2>1, <2>2, <3>2, <4>1
    <3> QED BY <3>1, <3>2
  <2>4. ToSet(transfer_q') \cap (ToSet(d_waiting') \cup last_batch \cup running_batch) = {}
    BY <1>4, <1>5, <1>6, <1>8
  <2>5. ToSet(d_waiting') \cap (last_batch \cup running_batch) = {}
    BY <1>4, <1>5, <1>8, <2>1
  <2>6. Holders' \subseteq Holders
    BY <1>12
  <2> QED BY <1>1, <2>1, <2>3, <2>4, <2>5, <2>6 DEF DecodePlaces
<1>17. DecodeStatuses'
  <2> SUFFICES ASSUME NEW k \in Rank, NEW r \in ToSet(prealloc_queue) \cup ToSet(transfer_q') PROVE d_status'[k][r] # Absent
    BY <1>1, <1>10 DEF DecodeStatuses
  <2>1. r \in Req /\ r \notin gone /\ r \in ToSet(prealloc_queue) \cup ToSet(transfer_q)
    BY <1>3, <1>4, <1>6 DEF DecodeMemory, DecodePlaces
  <2>2. d_status'[k][r] = d_status[k][r]
    BY <1>1, <2>1, ClearedAt
  <2> QED BY <2>1, <2>2 DEF DecodeMemory, DecodeStatuses
<1>18. Paged'
  <2>1. /\ \A r \in ToSet(transfer_q) : Len(row[r]) = InputLen[r]
        /\ \A r \in InDecode : out_len[r] >= 1 /\ Len(row[r]) = InputLen[r] + out_len[r] - 1
        /\ free_rows + Cardinality(Holders) = Rows
    BY DEF DecodeMemory, Paged
  <2>2. ASSUME NEW r \in InDecode' PROVE out_len'[r] >= 1 /\ Len(row[r]) = InputLen[r] + out_len'[r] - 1
    <3>1. CASE r \in done
      <4>1. r \in Req /\ out_len'[r] = 1 /\ Len(row[r]) = InputLen[r] /\ InputLen[r] \in Nat
        BY <1>1, <1>3, <1>4, <2>1, <3>1, ConstantFacts
      <4> QED BY <4>1
    <3>2. CASE r \notin done
      <4>1. r \in Req /\ r \in InDecode /\ out_len'[r] = out_len[r]
        BY <1>1, <1>3, <1>12, <3>2
      <4> QED BY <2>1, <4>1
    <3> QED BY <3>1, <3>2
  <2>3. free_rows' + Cardinality(Holders \ lost) = Rows
    BY <1>1, <1>2, <1>14, <2>1
  <2>4. free_rows' + Cardinality(Holders') = Rows
    BY <1>12, <2>3
  <2>5. Parted(free_pages', row', Holders', Page')
    BY <1>1, <1>10, <1>12, <1>13
  <2>6. \A r \in ToSet(transfer_q') : Len(row'[r]) = InputLen[r]
    BY <1>1, <1>6, <2>1
  <2> QED BY <1>1, <2>2, <2>4, <2>5, <2>6 DEF Paged
<1>19. Growth'
  <2>1. ASSUME NEW r \in Holders' PROVE Len(row'[r]) + Due(r)' <= Len(row[r]) + Due(r)
    <3>1. r \in Req /\ r \notin lost /\ r \in Holders
      BY <1>3, <1>12
    <3>2. /\ Len(row[r]) \in Nat /\ row'[r] = row[r] /\ out_len[r] \in Nat /\ MaxNew[r] \in Nat
          /\ Reserved \in Nat \ {0} /\ MaxNew[r] <= Reserved + 1
      BY <1>1, <1>2, <3>1, ConstantFacts
    <3>3. CASE r \in done
      <4>1. r \in ToSet(transfer_q) /\ r \notin ToSet(transfer_q') /\ out_len'[r] = 1
        BY <1>1, <1>4, <1>6, <3>1, <3>3
      <4>2. Due(r) = Reserved /\ Due(r)' = IF 1 + 1 >= MaxNew[r] THEN 1 ELSE MaxNew[r] - 1
        BY <4>1 DEF Due
      <4> QED BY <3>2, <4>2
    <3>4. CASE r \notin done
      <4>1. (r \in ToSet(transfer_q) <=> r \in ToSet(transfer_q')) /\ out_len'[r] = out_len[r]
        BY <1>1, <1>4, <1>6, <3>1, <3>4
      <4>2. Due(r)' = Due(r)
        BY <4>1 DEF Due
      <4>3. Due(r) \in Int
        BY <3>1, DueBounds
      <4> QED BY <3>2, <4>2, <4>3
    <3> QED BY <3>3, <3>4
  <2>2. Holders' \subseteq Holders /\ ~retracted' /\ config' = config
    BY <1>1, <1>12 DEF DecodeMemory, Growth
  <2>3. row' \in [Req -> Seq(Page)] /\ out_len' \in [Req -> Nat]
    BY <1>1, <1>2
  <2> QED BY <2>1, <2>2, <2>3, GrowthStep
<1>20. Split(d_free, d_meta, ToSet(transfer_q), DBuffer)'
  BY <1>1, <1>6, <1>9
<1> QED BY <1>15, <1>16, <1>17, <1>18, <1>19, <1>20 DEF DecodeMemory

(* _allocatable_tokens leaves out what the requests that hold memory may   *)
(* still ask for.                                                          *)
LEMMA AllocationBound ==
  ASSUME DecodeMemory, config \in Configs
  PROVE  /\ AllocatableTokens \in Int /\ AllocatableTokens <= Cardinality(free_pages)
         /\ AllocatableTokens + SumOver(Claim, Holders) <= Pages
<1> DEFINE count == Cardinality(running_batch) + Len(transfer_q) + Len(d_waiting) + Cardinality(last_batch)
           R == {r \in running_batch : d_done[r] = "no"}
           W == ToSet(d_waiting)
           Q == ToSet(transfer_q)
<1>1. Holders \in SUBSET Req /\ IsFiniteSet(Holders)
  BY HolderFacts
<1>2. /\ running_batch \in SUBSET Req /\ last_batch \in SUBSET Req
      /\ transfer_q \in Seq(Req) /\ Distinct(transfer_q) /\ d_waiting \in Seq(Req) /\ Distinct(d_waiting)
      /\ row \in [Req -> Seq(Page)]
  BY DEF DecodeMemory, DecodeTypes
<1>3. IsFiniteSet(running_batch) /\ IsFiniteSet(last_batch)
  BY <1>2, ConstantFacts, FS_Subset
<1>4. IsFiniteSet(Q) /\ Cardinality(Q) = Len(transfer_q) /\ IsFiniteSet(W) /\ Cardinality(W) = Len(d_waiting)
  BY <1>2, DistinctCardinality
<1>5. IsFiniteSet(R) /\ Cardinality(R) <= Cardinality(running_batch)
  <2>1. R \in SUBSET running_batch
    OBVIOUS
  <2> HIDE DEF R
  <2> QED BY <1>3, <2>1, DifferenceCardinality
<1>6. /\ Cardinality(running_batch) \in Nat /\ Cardinality(last_batch) \in Nat
      /\ Len(transfer_q) \in Nat /\ Len(d_waiting) \in Nat /\ Cardinality(R) \in Nat
  <2> HIDE DEF R
  <2> QED BY <1>2, <1>3, <1>5, FS_CardinalityType
<1>7. /\ Q \cap (W \cup last_batch \cup R) = {} /\ W \cap (last_batch \cup R) = {} /\ last_batch \cap R = {}
      /\ Holders = Q \cup (W \cup (last_batch \cup R))
  BY DEF DecodeMemory, DecodePlaces, Holders, InDecode
<1> HIDE DEF R, W, Q
<1>8. Cardinality(Holders) \in Nat /\ Cardinality(Holders) <= count
  <2>1. PICK A : A = last_batch \cup R
    OBVIOUS
  <2>2. IsFiniteSet(A) /\ Cardinality(A) = Cardinality(last_batch) + Cardinality(R)
    BY <1>3, <1>5, <1>7, <2>1, UnionCardinality
  <2>3. PICK B : B = W \cup A
    OBVIOUS
  <2>4. IsFiniteSet(B) /\ Cardinality(B) = Cardinality(W) + Cardinality(A)
    BY <1>4, <1>7, <2>1, <2>2, <2>3, UnionCardinality
  <2>5. Holders = Q \cup B /\ Q \cap B = {}
    BY <1>7, <2>1, <2>3
  <2>6. Cardinality(Q \cup B) = Cardinality(Q) + Cardinality(B)
    BY <1>4, <2>4, <2>5, UnionCardinality
  <2>7. Cardinality(Holders) = Cardinality(Q) + Cardinality(B)
    BY <2>5, <2>6
  <2>8. Cardinality(Holders) = Len(transfer_q) + (Len(d_waiting) + (Cardinality(last_batch) + Cardinality(R)))
    BY <1>4, <2>2, <2>4, <2>7
  <2> QED BY <1>5, <1>6, <2>8
<1>9. count \in Nat /\ Reserved \in Nat
  BY <1>6, ConstantFacts
<1>10. PICK len : len = [r \in Req |-> Len(row[r])]
  OBVIOUS
<1>11. PICK res : res = [r \in Req |-> Reserved]
  OBVIOUS
<1>12. PICK g : g = [r \in Req |-> Len(row[r]) + Reserved]
  OBVIOUS
<1>13. /\ len \in [Req -> Int] /\ res \in [Req -> Int] /\ g \in [Req -> Int]
       /\ \A r \in Req : /\ len[r] = Len(row[r]) /\ res[r] = Reserved /\ g[r] = len[r] + res[r]
                         /\ g[r] >= 0 /\ len[r] \in Nat
  BY <1>2, <1>9, <1>10, <1>11, <1>12
<1>14. SumOver(g, Holders) = SumOver(len, Holders) + SumOver(res, Holders)
  <2>1. \A r \in Holders : g[r] = len[r] + res[r]
    BY <1>1, <1>13
  <2>2. len \in [Req -> Int] /\ res \in [Req -> Int] /\ g \in [Req -> Int]
    BY <1>13
  <2>3. PICK H : H = Holders
    OBVIOUS
  <2>4. H \in SUBSET Req /\ IsFiniteSet(H) /\ \A r \in H : g[r] = len[r] + res[r]
    BY <1>1, <2>1, <2>3
  <2>5. SumOver(g, H) = SumOver(len, H) + SumOver(res, H)
    BY ONLY <2>2, <2>4, SumLinear
  <2> QED BY <2>3, <2>5
<1>15. SumOver(res, Holders) = Reserved * Cardinality(Holders)
  <2>1. \A r \in Holders : res[r] = Reserved
    BY <1>1, <1>13
  <2>2. Reserved \in Int /\ res \in [Req -> Int]
    BY <1>9, <1>13
  <2> QED BY <1>1, <2>1, <2>2, SumConstant
<1>16. Claim \in [Req -> Int] /\ SumOver(Claim, Holders) <= SumOver(g, Holders)
  <2>1. /\ Claim \in [Req -> Int] /\ \A r \in Req : Claim[r] = Len(row[r]) + Due(r) /\ Due(r) \in Int
        /\ \A r \in Holders : Due(r) <= Reserved
    BY DueBounds
  <2>2. \A r \in Holders : Claim[r] <= g[r]
    <3> TAKE r \in Holders
    <3>1. /\ r \in Req /\ Claim[r] = len[r] + Due(r) /\ Due(r) \in Int /\ Due(r) <= Reserved
          /\ g[r] = len[r] + Reserved /\ len[r] \in Nat
      BY <1>1, <1>13, <2>1
    <3> QED BY <1>9, <3>1
  <2>3. \A r \in Holders : g[r] >= 0
    BY <1>1, <1>13
  <2>4. g \in [Req -> Int] /\ Holders \in SUBSET Holders
    BY <1>13
  <2> QED BY <1>1, <2>1, <2>2, <2>3, <2>4, SumBound
<1>17. /\ Cardinality(free_pages) \in Nat /\ SumOver(len, Holders) \in Nat
       /\ Cardinality(free_pages) + SumOver(len, Holders) = Pages /\ Pages \in Nat
  BY <1>10, PageCount, ConfigFacts
<1>18. SumOver(Claim, Holders) \in Int
  BY <1>1, <1>16, SumType
<1>19. Reserved * Cardinality(Holders) <= Reserved * count /\ Reserved * count \in Nat /\ Reserved * Cardinality(Holders) \in Nat
  <2> HIDE DEF count
  <2>1. PICK h \in Nat : h = Cardinality(Holders)
    BY <1>8
  <2>2. PICK d \in Nat : count = h + d
    <3>1. count - h \in Nat /\ count = h + (count - h)
      BY <1>8, <1>9, <2>1
    <3> QED BY <3>1
  <2>3. Reserved * (h + d) = Reserved * h + Reserved * d
    BY <1>9
  <2>4. Reserved * d \in Nat /\ Reserved * h \in Nat
    BY <1>9
  <2>5. Reserved * count = Reserved * h + Reserved * d
    BY <2>2, <2>3
  <2> QED BY <2>1, <2>4, <2>5
<1>20. AllocatableTokens = Cardinality(free_pages) - Reserved * count
  BY DEF AllocatableTokens
<1> HIDE DEF count
<1>21. PICK x \in Nat, y \in Nat : x = Reserved * Cardinality(Holders) /\ y = Reserved * count
  BY <1>19
<1>22. AllocatableTokens = Cardinality(free_pages) - y /\ x <= y
  BY <1>19, <1>20, <1>21
<1>23. SumOver(g, Holders) = SumOver(len, Holders) + x
  BY <1>14, <1>15, <1>21
<1> QED BY <1>16, <1>17, <1>18, <1>21, <1>22, <1>23

(* The rows of the first n requests are consecutive parts of the pages. *)
AreRows(rows, pages, cand, n) ==
  rows = [i \in 1..n |-> SubSeq(pages, PromptPages(cand, i - 1) + 1, PromptPages(cand, i))]

(* They are apart, and as long as the prompts. *)
LEMMA RowsTaken ==
  ASSUME NEW cand \in Seq(Req), NEW n \in 0..Len(cand), NEW X, NEW pages \in Seq(X), Distinct(pages),
         PromptPages(cand, n) <= Len(pages),
         NEW rows, AreRows(rows, pages, cand, n)
  PROVE  /\ rows \in Seq(Seq(X)) /\ Len(rows) = n
         /\ \A i \in 1..n : /\ Distinct(rows[i]) /\ Len(rows[i]) = InputLen[cand[i]]
                            /\ ToSet(rows[i]) \subseteq ToSet(pages)
         /\ \A i, j \in 1..n : i # j => ToSet(rows[i]) \cap ToSet(rows[j]) = {}
<1>0. rows = [i \in 1..n |-> SubSeq(pages, PromptPages(cand, i - 1) + 1, PromptPages(cand, i))]
  BY DEF AreRows
<1>1. /\ \A i \in 0..Len(cand) : PromptPages(cand, i) \in Nat
      /\ \A i, j \in 0..Len(cand) : i <= j => PromptPages(cand, i) <= PromptPages(cand, j)
  BY PromptPagesOrder
<1>2. \A i \in 1..Len(cand) : PromptPages(cand, i) = PromptPages(cand, i - 1) + InputLen[cand[i]]
  BY PromptPagesStep
<1>3. InputLen \in [Req -> Nat \ {0}]
  BY ConstantFacts
<1>4. ASSUME NEW i \in 1..n
      PROVE  /\ PromptPages(cand, i - 1) + 1 \in 1..(Len(pages) + 1) /\ PromptPages(cand, i) \in 0..Len(pages)
             /\ PromptPages(cand, i) >= (PromptPages(cand, i - 1) + 1) - 1
             /\ PromptPages(cand, i) - (PromptPages(cand, i - 1) + 1) + 1 = InputLen[cand[i]]
  <2>1. i \in 0..Len(cand) /\ i - 1 \in 0..Len(cand) /\ i \in 1..Len(cand) /\ n \in 0..Len(cand) /\ i <= n /\ i - 1 <= n
    OBVIOUS
  <2>2. /\ PromptPages(cand, i) \in Nat /\ PromptPages(cand, i - 1) \in Nat /\ PromptPages(cand, n) \in Nat
        /\ PromptPages(cand, i) <= PromptPages(cand, n) /\ PromptPages(cand, i - 1) <= PromptPages(cand, n)
    BY <1>1, <2>1
  <2>3. PromptPages(cand, i) = PromptPages(cand, i - 1) + InputLen[cand[i]]
    BY <1>2, <2>1
  <2>4. InputLen[cand[i]] \in Nat
    BY <1>3, <2>1
  <2>5. Len(pages) \in Nat
    OBVIOUS
  <2>6. PICK a \in Nat, b \in Nat, c \in Nat, l \in Nat, d \in Nat :
          /\ a = PromptPages(cand, i - 1) /\ b = PromptPages(cand, i) /\ c = PromptPages(cand, n)
          /\ l = Len(pages) /\ d = InputLen[cand[i]]
    BY <2>2, <2>4, <2>5
  <2>7. b <= c /\ a <= c /\ c <= l /\ b = a + d
    BY <2>2, <2>3, <2>6
  <2>8. a + 1 \in 1..(l + 1) /\ b \in 0..l /\ b >= (a + 1) - 1 /\ b - (a + 1) + 1 = d
    BY <2>7
  <2> QED BY <2>6, <2>8
<1>5. ASSUME NEW i \in 1..n
      PROVE  /\ rows[i] \in Seq(X) /\ Len(rows[i]) = InputLen[cand[i]] /\ Distinct(rows[i])
             /\ ToSet(rows[i]) = {pages[x] : x \in (PromptPages(cand, i - 1) + 1)..PromptPages(cand, i)}
             /\ \A x \in (PromptPages(cand, i - 1) + 1)..PromptPages(cand, i) : x \in 1..Len(pages)
  <2>1. PICK a, b : a = PromptPages(cand, i - 1) + 1 /\ b = PromptPages(cand, i)
    OBVIOUS
  <2>2. a \in 1..(Len(pages) + 1) /\ b \in 0..Len(pages) /\ b >= a - 1 /\ b - a + 1 = InputLen[cand[i]]
    BY <1>4, <2>1
  <2>3. rows[i] = SubSeq(pages, a, b)
    BY <1>0, <2>1
  <2>4. /\ SubSeq(pages, a, b) \in Seq(X) /\ Len(SubSeq(pages, a, b)) = b - a + 1
        /\ Distinct(SubSeq(pages, a, b)) /\ ToSet(SubSeq(pages, a, b)) = {pages[x] : x \in a..b}
    BY <2>2, PartDistinct
  <2>5. \A x \in a..b : x \in 1..Len(pages)
    BY <2>2
  <2> QED BY <2>1, <2>2, <2>3, <2>4, <2>5
<1>6. rows \in Seq(Seq(X)) /\ Len(rows) = n
  <2>1. PICK D : D = 1..n
    OBVIOUS
  <2>2. \A i \in D : rows[i] \in Seq(X)
    BY <1>5, <2>1
  <2>3. rows = [i \in D |-> rows[i]]
    BY <1>0, <2>1
  <2>4. rows \in [D -> Seq(X)]
    BY <2>2, <2>3
  <2>5. PICK Y : Y = Seq(X)
    OBVIOUS
  <2>6. rows \in [1..n -> Y] /\ n \in Nat
    BY <2>1, <2>4, <2>5
  <2>7. rows \in Seq(Y) /\ Len(rows) = n
    BY ONLY <2>6
  <2> QED BY <2>5, <2>7
<1>7. ASSUME NEW i \in 1..n, NEW j \in 1..n, i < j PROVE ToSet(rows[i]) \cap ToSet(rows[j]) = {}
  <2>1. i \in 0..Len(cand) /\ j - 1 \in 0..Len(cand) /\ i <= j - 1
    BY <1>7
  <2>2. PromptPages(cand, i) <= PromptPages(cand, j - 1) /\ PromptPages(cand, i) \in Nat /\ PromptPages(cand, j - 1) \in Nat
    BY <1>1, <2>1
  <2>3. PICK a, b, c, d : /\ a = PromptPages(cand, i - 1) + 1 /\ b = PromptPages(cand, i)
                          /\ c = PromptPages(cand, j - 1) + 1 /\ d = PromptPages(cand, j)
    OBVIOUS
  <2>4. \A x \in a..b : \A y \in c..d : x # y
    <3>1. b < c /\ b \in Int /\ c \in Int
      BY <2>2, <2>3
    <3>2. a \in Int /\ d \in Int
      BY <1>4, <2>3
    <3> QED BY <3>1, <3>2
  <2>5. /\ ToSet(rows[i]) = {pages[x] : x \in a..b} /\ \A x \in a..b : x \in 1..Len(pages)
        /\ ToSet(rows[j]) = {pages[x] : x \in c..d} /\ \A x \in c..d : x \in 1..Len(pages)
    BY <1>5, <2>3
  <2>6. \A x \in a..b : \A y \in c..d : pages[x] # pages[y]
    BY <2>4, <2>5 DEF Distinct
  <2> QED BY <2>5, <2>6
<1>8. ASSUME NEW i \in 1..n, NEW j \in 1..n, i # j PROVE ToSet(rows[i]) \cap ToSet(rows[j]) = {}
  <2>1. CASE i < j
    BY <1>7, <2>1
  <2>2. CASE j < i
    BY <1>7, <2>2
  <2> QED BY <1>8, <2>1, <2>2
<1>9. \A i \in 1..n : ToSet(rows[i]) \subseteq ToSet(pages)
  <2> TAKE i \in 1..n
  <2>1. PICK a, b : a = PromptPages(cand, i - 1) + 1 /\ b = PromptPages(cand, i)
    OBVIOUS
  <2>2. ToSet(rows[i]) = {pages[x] : x \in a..b} /\ \A x \in a..b : x \in 1..Len(pages)
    BY <1>5, <2>1
  <2>3. ToSet(pages) = {pages[x] : x \in 1..Len(pages)}
    BY ToSetIs
  <2> QED BY <2>2, <2>3
<1> QED BY <1>5, <1>6, <1>8, <1>9

(* A set of numbers up to l has a greatest one. *)
LEMMA GreatestIn ==
  ASSUME NEW l \in Nat, NEW S, S \subseteq 0..l, 0 \in S
  PROVE  Max(S) \in S
<1>1. S \in SUBSET Int /\ S # {}
  OBVIOUS
<1>2. IsFiniteSet(0..l)
  BY FS_Interval
<1>3. IsFiniteSet(S)
  BY <1>2, FS_Subset
<1> QED BY <1>1, <1>3, MinMaxResult

(* Requests with new rows claim their prompt and the reservation. *)
LEMMA GrowthNew ==
  ASSUME DecodeMemory, config \in Configs, config' = config, row' \in [Req -> Seq(Page)], out_len' = out_len,
         ~retracted', NEW N \in SUBSET Req, N \cap Holders = {}, Holders' = Holders \cup N,
         ToSet(transfer_q') = ToSet(transfer_q) \cup N, \A r \in Holders : row'[r] = row[r],
         \A r \in N : Len(row'[r]) = InputLen[r],
         SumOver(InputLen, N) + Reserved * Cardinality(N) + SumOver(Claim, Holders) <= Pages
  PROVE  Growth'
<1>1. Holders \in SUBSET Req /\ IsFiniteSet(Holders)
  BY HolderFacts
<1>2. Claim \in [Req -> Int] /\ \A r \in Req : Claim[r] = Len(row[r]) + Due(r)
  BY DueBounds
<1>3. PICK f : f = Claim'
  OBVIOUS
<1>4. Reserved \in Nat /\ MaxNew \in [Req -> Nat \ {0}] /\ InputLen \in [Req -> Nat \ {0}]
  BY ConstantFacts
<1>a. out_len \in [Req -> Nat]
  BY DEF DecodeMemory, DecodeTypes
<1>5. ASSUME NEW r \in Req PROVE Due(r)' \in Int /\ Len(row'[r]) \in Nat
  <2>1. out_len'[r] \in Nat /\ MaxNew[r] \in Nat
    BY <1>4, <1>a
  <2> QED BY <1>4, <2>1 DEF Due
<1>6. f \in [Req -> Int] /\ \A r \in Req : f[r] = Len(row'[r]) + Due(r)'
  BY <1>3, <1>5 DEF Claim
<1>7. \A r \in Holders : f[r] = Claim[r]
  <2> TAKE r \in Holders
  <2>1. r \in Req /\ r \notin N /\ row'[r] = row[r]
    BY <1>1
  <2>2. Due(r)' = Due(r)
    BY <2>1 DEF Due
  <2> QED BY <1>2, <1>6, <2>1, <2>2
<1>8. \A r \in N : f[r] = InputLen[r] + Reserved
  <2> TAKE r \in N
  <2>1. r \in Req /\ Due(r)' = Reserved
    BY DEF Due
  <2> QED BY <1>6, <2>1
<1>9. IsFiniteSet(N)
  BY ConstantFacts, FS_Subset
<1>10. SumOver(f, Holders \cup N) = SumOver(f, Holders) + SumOver(f, N)
  BY <1>1, <1>6, <1>9, SumUnion
<1>11. SumOver(f, Holders) = SumOver(Claim, Holders)
  <2>1. f \in [Req -> Int] /\ Claim \in [Req -> Int]
    BY <1>2, <1>6
  <2> QED BY <1>1, <1>7, <2>1, SumSame
<1>12. SumOver(f, N) = SumOver(InputLen, N) + Reserved * Cardinality(N)
  <2>1. PICK c : c = [r \in Req |-> Reserved]
    OBVIOUS
  <2>2. c \in [Req -> Int] /\ \A r \in N : c[r] = Reserved
    BY <1>4, <2>1
  <2>3. f \in [Req -> Int] /\ InputLen \in [Req -> Int] /\ Reserved \in Int
    BY <1>4, <1>6
  <2>4. SumOver(c, N) = Reserved * Cardinality(N)
    BY ONLY N \in SUBSET Req, <1>9, <2>2, <2>3, SumConstant
  <2>5. \A r \in N : f[r] = InputLen[r] + c[r]
    BY <1>8, <2>2
  <2>6. SumOver(f, N) = SumOver(InputLen, N) + SumOver(c, N)
    BY ONLY N \in SUBSET Req, <1>9, <2>2, <2>3, <2>5, SumLinear
  <2> QED BY <2>4, <2>6
<1>13. SumOver(f, Holders \cup N) <= Pages
  <2>1. SumOver(Claim, Holders) \in Int
    BY <1>1, <1>2, SumType
  <2>2. SumOver(InputLen, N) \in Int
    <3>1. InputLen \in [Req -> Int]
      BY <1>4
    <3> QED BY <1>9, <3>1, SumType
  <2>3. Cardinality(N) \in Nat
    BY <1>9, FS_CardinalityType
  <2>4. Reserved * Cardinality(N) \in Int
    BY <1>4, <2>3
  <2> QED BY <1>10, <1>11, <1>12, <2>1, <2>2, <2>4
<1>14. SumOver(Claim', Holders') <= Pages'
  BY <1>3, <1>13 DEF Pages
<1> QED BY <1>14 DEF Growth

(* pop_preallocated *)
LEMMA PopPreallocatedMemory ==
  ASSUME DecodeMemory, config \in Configs, PopPreallocated
  PROVE  DecodeMemory'
<1> DEFINE queued  == ToSet(prealloc_queue)
           polled  == IF queued \subseteq waiting_for_input THEN {} ELSE queued
           poll(r) == AllReduce(d_status, d_conclude, r)
           lost    == {r \in polled : poll(r) = Failed}
           waiters == waiting_for_input \cup {r \in polled : poll(r) = WaitingForInput}
           cand    == Queued(prealloc_queue, waiters \ lost)
           fits(i) == /\ i <= free_rows /\ i <= Len(d_free)
                      /\ PromptPages(cand, i) + Reserved * i <= AllocatableTokens
           fitting == {i \in 0..Len(cand) : i = 0 \/ fits(i)}
           n       == Max(fitting)
           taken   == Firsts(cand, n)
           pages   == SetToSeq(free_pages)
           rows    == [i \in 1..n |-> SubSeq(pages, PromptPages(cand, i - 1) + 1, PromptPages(cand, i))]
           N       == ToSet(taken)
<1>1. /\ prealloc_queue' = Without(prealloc_queue, N \cup lost)
      /\ waiting_for_input' = waiters
      /\ transfer_q' = transfer_q \o taken
      /\ row' = Given(row, taken, rows)
      /\ free_pages' = free_pages \ UNION {ToSet(row'[r]) : r \in N}
      /\ free_rows' = free_rows - n
      /\ d_meta' = Given(d_meta, taken, d_free) /\ d_free' = Rest(d_free, n)
      /\ d_conclude' = Concluded(d_status, d_conclude, polled, lost)
      /\ d_status' = Cleared(d_status, lost)
      /\ d_done' = [r \in Req |-> IF r \in lost THEN "failed" ELSE d_done[r]]
      /\ UNCHANGED <<config, d_arrived, d_waiting, last_batch, running_batch, out_len, retracted>>
  BY DEF PopPreallocated
<1>2. /\ prealloc_queue \in Seq(Req) /\ Distinct(prealloc_queue)
      /\ transfer_q \in Seq(Req) /\ Distinct(transfer_q)
      /\ d_free \in Seq(DBuffer) /\ d_meta \in [Req -> DBuffer \cup {0}]
      /\ d_status \in [Rank -> [Req -> StatusValue]] /\ d_conclude \in [Rank -> [Req -> FinalValue]]
      /\ row \in [Req -> Seq(Page)] /\ free_pages \in SUBSET Page /\ free_rows \in Nat
      /\ out_len \in [Req -> Nat] /\ d_done \in [Req -> Outcome] /\ waiting_for_input \in SUBSET Req
  BY DEF DecodeMemory, DecodeTypes
<1>3. /\ Holders \in SUBSET Req /\ IsFiniteSet(Holders) /\ InDecode \subseteq Holders
      /\ ToSet(transfer_q) \subseteq Holders /\ queued \in SUBSET Req
  BY HolderFacts
<1>4. polled \subseteq queued /\ lost \subseteq queued /\ waiters \in SUBSET Req
  BY <1>2, <1>3
<1>5. cand \in Seq(Req) /\ Distinct(cand) /\ ToSet(cand) = queued \cap (waiters \ lost)
  BY <1>2, QueuedDistinct
<1>6. n \in 0..Len(cand) /\ (n = 0 \/ fits(n))
  <2>1. fitting \subseteq 0..Len(cand) /\ 0 \in fitting /\ Len(cand) \in Nat
    BY <1>5
  <2>2. Max(fitting) \in fitting
    <3> HIDE DEF fitting
    <3>1. PICK l \in Nat : l = Len(cand)
      BY <2>1
    <3>2. fitting \subseteq 0..l
      BY <2>1, <3>1
    <3> QED BY <2>1, <3>2, GreatestIn
  <2>3. PICK m : m = n
    OBVIOUS
  <2>4. m \in fitting
    BY <2>2, <2>3
  <2>5. m \in 0..Len(cand) /\ (m = 0 \/ fits(m))
    BY <2>4
  <2> QED BY <2>3, <2>5
<1> HIDE DEF queued, polled, poll, lost, waiters, cand, fitting, n
<1>7. taken \in Seq(Req) /\ Len(taken) = n /\ Distinct(taken) /\ \A i \in 1..n : taken[i] = cand[i]
  BY <1>5, <1>6, FirstsResult
<1>8. N \subseteq queued \ lost /\ N \in SUBSET Req /\ IsFiniteSet(N) /\ Cardinality(N) = n
  <2>1. N \subseteq ToSet(cand)
    BY <1>5, <1>6, FirstsRest
  <2>2. IsFiniteSet(N) /\ Cardinality(N) = n
    BY <1>7, DistinctCardinality
  <2> QED BY <1>3, <1>5, <2>1, <2>2
<1>9. /\ N \cap Holders = {} /\ N \cap running_batch = {} /\ queued \cap (Holders \cup running_batch) = {}
      /\ N \cap ToSet(transfer_q) = {} /\ lost \cap running_batch = {}
  BY <1>3, <1>4, <1>8 DEF DecodeMemory, DecodePlaces, queued
<1>10. /\ pages \in Seq(Page) /\ Len(pages) = Cardinality(free_pages) /\ Distinct(pages) /\ ToSet(pages) = free_pages
  <2>1. IsFiniteSet(free_pages)
    BY PageCount
  <2>2. /\ pages \in Seq(free_pages) /\ Len(pages) = Cardinality(free_pages) /\ Distinct(pages)
        /\ ToSet(pages) = free_pages
    BY <2>1, SetToSeqResult
  <2> QED BY <1>2, <2>2
<1>11. Reserved \in Nat /\ n \in Nat /\ Reserved * n \in Nat /\ PromptPages(cand, n) \in Nat
  <2>1. Reserved \in Nat /\ n \in Nat
    BY <1>6, ConstantFacts
  <2>2. PromptPages(cand, n) \in Nat
    BY <1>5, <1>6, PromptPagesOrder
  <2> QED BY <2>1, <2>2
<1>12. /\ PromptPages(cand, n) <= Cardinality(free_pages)
       /\ PromptPages(cand, n) + Reserved * n + SumOver(Claim, Holders) <= Pages
  <2>1. /\ AllocatableTokens \in Int /\ AllocatableTokens <= Cardinality(free_pages)
        /\ AllocatableTokens + SumOver(Claim, Holders) <= Pages
    BY AllocationBound
  <2>2. Cardinality(free_pages) \in Nat /\ Pages \in Nat
    BY PageCount, ConfigFacts
  <2>3. SumOver(Claim, Holders) \in Int
    BY <1>3, DueBounds, SumType
  <2>4. CASE n = 0
    <3>1. PromptPages(cand, n) = 0
      BY <1>5, <2>4, PromptPagesStep
    <3>2. Reserved * n = 0
      BY <1>11, <2>4
    <3>3. SumOver(Claim, Holders) <= Pages
      BY DEF DecodeMemory, Growth
    <3> QED BY <2>2, <2>3, <3>1, <3>2, <3>3
  <2>5. CASE fits(n)
    <3>1. PICK x \in Nat, y \in Nat : x = PromptPages(cand, n) /\ y = Reserved * n
      BY <1>11
    <3>2. x + y <= AllocatableTokens
      BY <2>5, <3>1
    <3> QED BY <2>1, <2>2, <2>3, <3>1, <3>2
  <2> QED BY <1>6, <2>4, <2>5
<1>13. /\ rows \in Seq(Seq(Page)) /\ Len(rows) = n
       /\ \A i \in 1..n : /\ Distinct(rows[i]) /\ Len(rows[i]) = InputLen[cand[i]]
                          /\ ToSet(rows[i]) \subseteq free_pages
       /\ \A i, j \in 1..n : i # j => ToSet(rows[i]) \cap ToSet(rows[j]) = {}
  <2>1. PICK ps : ps = pages
    OBVIOUS
  <2>2. /\ ps \in Seq(Page) /\ Distinct(ps) /\ ToSet(ps) = free_pages /\ PromptPages(cand, n) <= Len(ps)
    BY <1>10, <1>12, <2>1
  <2>3. PICK rs : rs = rows
    OBVIOUS
  <2>4. AreRows(rs, ps, cand, n)
    BY <2>1, <2>3 DEF AreRows
  <2>a. cand \in Seq(Req) /\ n \in 0..Len(cand)
    BY <1>5, <1>6
  <2>5. /\ rs \in Seq(Seq(Page)) /\ Len(rs) = n
        /\ \A i \in 1..n : /\ Distinct(rs[i]) /\ Len(rs[i]) = InputLen[cand[i]]
                           /\ ToSet(rs[i]) \subseteq ToSet(ps)
        /\ \A i, j \in 1..n : i # j => ToSet(rs[i]) \cap ToSet(rs[j]) = {}
    BY ONLY <2>2, <2>4, <2>a, RowsTaken
  <2> HIDE DEF rows
  <2> QED BY <2>2, <2>3, <2>5
<1> HIDE DEF rows, pages
<1>14. /\ row' \in [Req -> Seq(Page)] /\ \A i \in 1..n : row'[taken[i]] = rows[i]
       /\ \A r \in Req \ N : row'[r] = row[r]
  <2>1. PICK Y : Y = Seq(Page)
    OBVIOUS
  <2>2. row \in [Req -> Y] /\ rows \in Seq(Y) /\ Len(taken) <= Len(rows)
    BY <1>2, <1>7, <1>11, <1>13, <2>1
  <2>3. taken \in Seq(Req) /\ Distinct(taken)
    BY <1>7
  <2>4. /\ Given(row, taken, rows) \in [Req -> Y]
        /\ \A i \in 1..Len(taken) : Given(row, taken, rows)[taken[i]] = rows[i]
        /\ \A r \in Req \ ToSet(taken) : Given(row, taken, rows)[r] = row[r]
    <3> HIDE DEF taken
    <3> QED BY ONLY <2>2, <2>3, GivenResult
  <2> QED BY <1>1, <1>7, <2>1, <2>4
<1>15. \A r \in N : \E i \in 1..n : r = taken[i] /\ row'[r] = rows[i] /\ r = cand[i]
  <2>1. N = {taken[i] : i \in 1..Len(taken)}
    BY <1>7, ToSetIs
  <2> QED BY <1>7, <1>14, <2>1
<1> HIDE DEF N, taken
<1>16. /\ Apart(row', N) /\ \A r \in N : ToSet(row'[r]) \subseteq free_pages /\ Len(row'[r]) = InputLen[r]
  <2>1. \A r \in N : Distinct(row'[r]) /\ ToSet(row'[r]) \subseteq free_pages /\ Len(row'[r]) = InputLen[r]
    BY <1>13, <1>15
  <2>2. ASSUME NEW r \in N, NEW q \in N, r # q PROVE ToSet(row'[r]) \cap ToSet(row'[q]) = {}
    <3>1. PICK i \in 1..n : r = taken[i] /\ row'[r] = rows[i]
      BY <1>15
    <3>2. PICK j \in 1..n : q = taken[j] /\ row'[q] = rows[j]
      BY <1>15
    <3>3. i # j
      BY <2>2, <3>1, <3>2
    <3> QED BY <1>13, <3>1, <3>2, <3>3
  <2> QED BY <2>1, <2>2 DEF Apart
<1>17. Parted(free_pages', row', Holders \cup N, Page)
  <2>1. Parted(free_pages, row, Holders, Page)
    BY DEF DecodeMemory, Paged
  <2>2. PICK g : g = row'
    OBVIOUS
  <2>3. /\ (\A r \in Holders : g[r] = row[r]) /\ Apart(g, N) /\ N \cap Holders = {}
        /\ \A r \in N : ToSet(g[r]) \subseteq free_pages
    BY <1>3, <1>9, <1>14, <1>16, <2>2
  <2>4. Parted(free_pages \ UNION {ToSet(g[r]) : r \in N}, g, Holders \cup N, Page)
    BY <2>1, <2>3, PartedNew
  <2>5. free_pages' = free_pages \ UNION {ToSet(g[r]) : r \in N}
    BY <1>1, <2>2
  <2> QED BY <2>2, <2>4, <2>5
<1>18. /\ Split(d_free', d_meta', ToSet(transfer_q) \cup N, DBuffer)
       /\ d_free' \in Seq(DBuffer) /\ d_meta' \in [Req -> DBuffer \cup {0}]
  <2>1. Split(d_free, d_meta, ToSet(transfer_q), DBuffer)
    BY DEF DecodeMemory
  <2>2. ToSet(taken) \cap ToSet(transfer_q) = {} /\ ToSet(transfer_q) \in SUBSET Req
    BY <1>3, <1>9 DEF N
  <2>3. Len(taken) <= Len(d_free)
    BY <1>2, <1>6, <1>7
  <2>4. /\ Split(Rest(d_free, Len(taken)), Given(d_meta, taken, d_free), ToSet(transfer_q) \cup ToSet(taken), DBuffer)
        /\ Rest(d_free, Len(taken)) \in Seq(DBuffer) /\ Given(d_meta, taken, d_free) \in [Req -> DBuffer \cup {0}]
    BY <1>2, <1>7, <2>1, <2>2, <2>3, SplitTake
  <2> QED BY <1>1, <1>7, <2>4 DEF N
<1>19. transfer_q' \in Seq(Req) /\ Distinct(transfer_q') /\ ToSet(transfer_q') = ToSet(transfer_q) \cup N
  <2>1. ToSet(transfer_q) \cap ToSet(taken) = {}
    BY <1>9 DEF N
  <2>2. /\ transfer_q \o taken \in Seq(Req) /\ Distinct(transfer_q \o taken)
        /\ ToSet(transfer_q \o taken) = ToSet(transfer_q) \cup ToSet(taken)
    BY <1>2, <1>7, <2>1, ConcatDistinct
  <2> QED BY <1>1, <2>2 DEF N
<1>20. /\ prealloc_queue' \in Seq(Req) /\ Distinct(prealloc_queue')
       /\ ToSet(prealloc_queue') = queued \ (N \cup lost)
  BY <1>1, <1>2, WithoutDistinct DEF queued
<1>21. Rank' = Rank /\ Pages' = Pages /\ Page' = Page
  BY <1>1 DEF Rank, Pages, Page
<1>22. d_status' \in [Rank -> [Req -> StatusValue]] /\ d_conclude' \in [Rank -> [Req -> FinalValue]]
  <2>1. Cleared(d_status, lost) \in [Rank -> [Req -> StatusValue]]
    BY <1>2 DEF Cleared, StatusValue
  <2> QED BY <1>1, <1>2, <2>1, ConcludedTypes
<1>23. InDecode' = InDecode /\ Holders' = Holders \cup N
  <2>1. \A r \in running_batch : r \in Req /\ d_done'[r] = d_done[r]
    BY <1>1, <1>9 DEF DecodeMemory, DecodeTypes
  <2>2. InDecode' = InDecode
    BY <1>1, <2>1 DEF InDecode
  <2> QED BY <1>19, <2>2 DEF Holders
<1>24. DecodeTypes'
  <2>1. d_done' \in [Req -> Outcome]
    BY <1>1, <1>2 DEF Outcome
  <2>2. free_rows' \in Nat
    BY <1>1, <1>2, <1>6
  <2>3. free_pages' \in SUBSET Page
    BY <1>17 DEF Parted
  <2> QED BY <1>1, <1>4, <1>14, <1>18, <1>19, <1>20, <1>21, <1>22, <2>1, <2>2, <2>3 DEF DecodeMemory, DecodeTypes
<1>25. DecodePlaces'
  <2>1. /\ queued \cup Holders \cup running_batch \subseteq d_arrived
        /\ queued \cap (Holders \cup running_batch) = {}
        /\ ToSet(transfer_q) \cap (ToSet(d_waiting) \cup last_batch \cup running_batch) = {}
        /\ ToSet(d_waiting) \cap (last_batch \cup running_batch) = {}
        /\ last_batch \cap running_batch = {}
        /\ \A r \in Req : d_done[r] # "no" => r \in d_arrived \ (queued \cup ToSet(transfer_q)
                                                          \cup ToSet(d_waiting) \cup last_batch)
    BY DEF DecodeMemory, DecodePlaces, queued
  <2>2. ToSet(d_waiting) \subseteq Holders /\ last_batch \subseteq Holders
    BY DEF Holders, InDecode
  <2>3. \A r \in Req : d_done'[r] # "no" => r \in d_arrived \ (ToSet(prealloc_queue') \cup ToSet(transfer_q')
                                                          \cup ToSet(d_waiting) \cup last_batch)
    <3> TAKE r \in Req
    <3> HAVE d_done'[r] # "no"
    <3>1. CASE r \in lost
      BY <1>3, <1>4, <1>8, <1>19, <1>20, <2>1, <2>2, <3>1
    <3>2. CASE r \notin lost
      <4>1. d_done[r] # "no"
        BY <1>1, <3>2
      <4> QED BY <1>8, <1>19, <1>20, <2>1, <4>1
    <3> QED BY <3>1, <3>2
  <2>4. ToSet(transfer_q') \cap (ToSet(d_waiting) \cup last_batch \cup running_batch) = {}
    BY <1>9, <1>19, <2>1, <2>2
  <2>5. /\ ToSet(prealloc_queue') \cup Holders' \cup running_batch \subseteq d_arrived
        /\ ToSet(prealloc_queue') \cap (Holders' \cup running_batch) = {}
    BY <1>8, <1>20, <1>23, <2>1
  <2> QED BY <1>1, <2>1, <2>3, <2>4, <2>5 DEF DecodePlaces
<1>26. DecodeStatuses'
  <2> SUFFICES ASSUME NEW k \in Rank, NEW r \in ToSet(prealloc_queue') \cup ToSet(transfer_q')
               PROVE  d_status'[k][r] # Absent
    BY <1>21 DEF DecodeStatuses
  <2>1. r \in Req /\ r \notin lost /\ r \in queued \cup ToSet(transfer_q)
    BY <1>3, <1>4, <1>8, <1>9, <1>19, <1>20
  <2>2. d_status'[k][r] = d_status[k][r]
    BY <1>1, <2>1, ClearedAt
  <2> QED BY <2>1, <2>2 DEF DecodeMemory, DecodeStatuses, queued
<1>27. Paged'
  <2>1. /\ \A r \in ToSet(transfer_q) : Len(row[r]) = InputLen[r]
        /\ \A r \in InDecode : out_len[r] >= 1 /\ Len(row[r]) = InputLen[r] + out_len[r] - 1
        /\ free_rows + Cardinality(Holders) = Rows
    BY DEF DecodeMemory, Paged
  <2>2. \A r \in Holders : row'[r] = row[r]
    BY <1>3, <1>9, <1>14
  <2>3. Cardinality(Holders \cup N) = Cardinality(Holders) + n
    BY <1>3, <1>8, <1>9, UnionCardinality
  <2>4. Cardinality(Holders) \in Nat
    BY <1>3, FS_CardinalityType
  <2>5. free_rows' + Cardinality(Holders') = Rows
    BY <1>1, <1>2, <1>11, <1>23, <2>1, <2>3, <2>4
  <2>6. \A r \in ToSet(transfer_q') : Len(row'[r]) = InputLen[r]
    BY <1>3, <1>16, <1>19, <2>1, <2>2
  <2>7. \A r \in InDecode' : out_len'[r] >= 1 /\ Len(row'[r]) = InputLen[r] + out_len'[r] - 1
    BY <1>1, <1>3, <1>23, <2>1, <2>2
  <2>8. Parted(free_pages', row', Holders', Page')
    BY <1>17, <1>21, <1>23
  <2> QED BY <2>5, <2>6, <2>7, <2>8 DEF Paged
<1>28. Growth'
  <2>1. PromptPages(cand, n) = SumOver(InputLen, N)
    BY <1>5, <1>6, PromptPagesSum DEF N, taken
  <2>2. SumOver(InputLen, N) + Reserved * Cardinality(N) + SumOver(Claim, Holders) <= Pages
    BY <1>8, <1>12, <2>1
  <2>3. \A r \in Holders : row'[r] = row[r]
    BY <1>3, <1>9, <1>14
  <2>4. ~retracted' /\ config' = config /\ out_len' = out_len
    BY <1>1 DEF DecodeMemory, Growth
  <2>5. row' \in [Req -> Seq(Page)] /\ \A r \in N : Len(row'[r]) = InputLen[r]
    BY <1>14, <1>16
  <2>6. N \in SUBSET Req /\ N \cap Holders = {} /\ Holders' = Holders \cup N /\ ToSet(transfer_q') = ToSet(transfer_q) \cup N
    BY <1>8, <1>9, <1>19, <1>23
  <2> QED BY <2>2, <2>3, <2>4, <2>5, <2>6, GrowthNew
<1>29. Split(d_free, d_meta, ToSet(transfer_q), DBuffer)'
  BY <1>18, <1>19 DEF DBuffer
<1> QED BY <1>24, <1>25, <1>26, <1>27, <1>28, <1>29 DEF DecodeMemory

(* There is a free page for every request that decodes. *)
LEMMA DecodeFits ==
  ASSUME DecodeMemory, config \in Configs, NEW B \in SUBSET InDecode
  PROVE  IsFiniteSet(B) /\ Cardinality(B) <= Cardinality(free_pages)
<1>1. Holders \in SUBSET Req /\ IsFiniteSet(Holders) /\ B \in SUBSET Holders
  BY HolderFacts
<1>2. /\ Claim \in [Req -> Int] /\ \A r \in Req : Claim[r] = Len(row[r]) + Due(r) /\ Claim[r] >= 0
                                                  /\ Due(r) \in Int /\ Due(r) >= 1
  BY DueBounds
<1>3. row \in [Req -> Seq(Page)]
  BY DEF DecodeMemory, DecodeTypes
<1>4. PICK len : len = [r \in Req |-> Len(row[r])]
  OBVIOUS
<1>5. PICK one : one = [r \in Req |-> IF r \in B THEN 1 ELSE 0]
  OBVIOUS
<1>6. PICK sum : sum = [r \in Req |-> len[r] + one[r]]
  OBVIOUS
<1>7. /\ \A r \in Req : /\ len[r] = Len(row[r]) /\ len[r] \in Nat /\ one[r] \in {0, 1}
                        /\ one[r] = (IF r \in B THEN 1 ELSE 0) /\ sum[r] = len[r] + one[r]
  BY <1>3, <1>4, <1>5, <1>6
<1>8. len \in [Req -> Int] /\ one \in [Req -> Int]
  BY <1>4, <1>5, <1>7
<1>9. sum \in [Req -> Int]
  BY <1>6, <1>7
<1>10. PICK H : H = Holders
  OBVIOUS
<1>11. H \in SUBSET Req /\ IsFiniteSet(H) /\ B \in SUBSET H /\ H \in SUBSET H
  BY <1>1, <1>10
<1>12. SumOver(sum, H) = SumOver(len, H) + SumOver(one, H)
  <2>1. \A r \in H : sum[r] = len[r] + one[r]
    BY <1>7, <1>11
  <2> QED BY ONLY <1>8, <1>9, <1>11, <2>1, SumLinear
<1>13. SumOver(one, H) = Cardinality(B)
  <2>1. \A r \in H : one[r] = IF r \in B THEN 1 ELSE 0
    BY <1>7, <1>11
  <2> QED BY ONLY <1>8, <1>11, <2>1, SumOnes
<1>14. SumOver(sum, H) <= SumOver(Claim, H)
  <2>1. \A r \in H : sum[r] <= Claim[r]
    <3> TAKE r \in H
    <3>1. r \in Req
      BY <1>11
    <3>2. /\ sum[r] = len[r] + one[r] /\ one[r] \in {0, 1} /\ len[r] \in Nat
          /\ Claim[r] = len[r] + Due(r) /\ Due(r) \in Int /\ Due(r) >= 1
      BY <1>2, <1>7, <3>1
    <3> QED BY <3>2
  <2>2. \A r \in H : Claim[r] >= 0
    BY <1>2, <1>11
  <2>3. Claim \in [Req -> Int]
    BY <1>2
  <2> QED BY ONLY <1>9, <1>11, <2>1, <2>2, <2>3, SumBound
<1>15. IsFiniteSet(B)
  BY <1>11, FS_Subset
<1>16. /\ Cardinality(B) \in Nat /\ SumOver(len, H) \in Int /\ SumOver(sum, H) \in Int
       /\ SumOver(Claim, H) \in Int /\ SumOver(Claim, H) <= Pages
  <2>1. SumOver(len, H) \in Int /\ SumOver(sum, H) \in Int /\ SumOver(Claim, H) \in Int
    BY <1>2, <1>8, <1>9, <1>11, SumType
  <2> QED BY <1>10, <1>15, <2>1, FS_CardinalityType DEF DecodeMemory, Growth
<1>17. /\ Cardinality(free_pages) \in Nat /\ Pages \in Nat
       /\ Cardinality(free_pages) + SumOver(len, H) = Pages
  BY <1>4, <1>10, PageCount, ConfigFacts
<1> QED BY <1>12, <1>13, <1>14, <1>15, <1>16, <1>17

(* A forward writes the new token of a request to its new page, and no     *)
(* page that a request already had.                                        *)
DecodeWrites ==
  /\ \A r \in Holders, k \in Rank : \A i \in 1..Len(row[r]) : kv'[k][row[r][i]] = kv[k][row[r][i]]
  /\ \A r \in ToSet(transfer_q) : row'[r] = row[r]
  /\ \A r \in InDecode :
       \/ row'[r] = row[r]
       \/ /\ Len(row'[r]) = Len(row[r]) + 1 /\ \A i \in 1..Len(row[r]) : row'[r][i] = row[r][i]
          /\ \A k \in Rank : kv'[k][row'[r][Len(row[r]) + 1]] = <<r, Len(row[r]) + 1>>

(* The forward of the running batch. *)
LEMMA DecodeStepMemory ==
  ASSUME DecodeMemory, config \in Configs, Decode
  PROVE  DecodeMemory' /\ InDecode' \subseteq InDecode /\ DecodeWrites
<1> DEFINE B     == {r \in Merged : d_done[r] = "no"}
           list  == SetToSeq(B)
           pages == SetToSeq(free_pages)
           page(r) == pages[PlaceOf(list, r)]
           ends  == {r \in B : out_len[r] + 1 >= MaxNew[r]}
<1>1. /\ out_len \in [Req -> Nat] /\ row \in [Req -> Seq(Page)] /\ free_pages \in SUBSET Page /\ free_rows \in Nat
      /\ d_done \in [Req -> Outcome] /\ last_batch \in SUBSET Req /\ running_batch \in SUBSET Req
  BY DEF DecodeMemory, DecodeTypes
<1>2. /\ Holders \in SUBSET Req /\ IsFiniteSet(Holders) /\ InDecode \subseteq Holders
      /\ ToSet(transfer_q) \subseteq Holders /\ ToSet(transfer_q) \cap InDecode = {}
      /\ ToSet(prealloc_queue) \in SUBSET Req /\ ToSet(transfer_q) \in SUBSET Req
      /\ ToSet(d_waiting) \in SUBSET Req
  BY HolderFacts
<1>3. /\ ToSet(prealloc_queue) \cup Holders \cup running_batch \subseteq d_arrived
      /\ ToSet(prealloc_queue) \cap (Holders \cup running_batch) = {}
      /\ ToSet(transfer_q) \cap (ToSet(d_waiting) \cup last_batch \cup running_batch) = {}
      /\ ToSet(d_waiting) \cap (last_batch \cup running_batch) = {}
      /\ \A r \in Req : d_done[r] # "no" => r \in d_arrived \ (ToSet(prealloc_queue) \cup ToSet(transfer_q)
                                                          \cup ToSet(d_waiting) \cup last_batch)
  BY DEF DecodeMemory, DecodePlaces
<1>4. /\ InDecode = ToSet(d_waiting) \cup B /\ ToSet(d_waiting) \cap B = {} /\ ToSet(transfer_q) \cap B = {}
      /\ B \in SUBSET Holders /\ B \in SUBSET InDecode /\ \A r \in B : d_done[r] = "no"
  <2>1. \A r \in last_batch : d_done[r] = "no"
    BY <1>1, <1>3
  <2>2. InDecode = ToSet(d_waiting) \cup B
    BY <2>1 DEF InDecode, Merged
  <2> QED BY <1>2, <1>3, <2>2 DEF Merged
<1>5. IsFiniteSet(B) /\ Cardinality(B) <= Cardinality(free_pages)
  <2> HIDE DEF B
  <2> QED BY <1>4, DecodeFits
<1>6. /\ list \in Seq(B) /\ Len(list) = Cardinality(B) /\ Distinct(list) /\ ToSet(list) = B
  <2> HIDE DEF B
  <2> QED BY <1>5, SetToSeqResult
<1>7. IsFiniteSet(free_pages) /\ Cardinality(free_pages) \in Nat
  BY PageCount
<1>8. pages \in Seq(free_pages) /\ Len(pages) = Cardinality(free_pages) /\ Distinct(pages)
  BY <1>7, SetToSeqResult
<1>9. /\ last_batch' = {} /\ running_batch' = B /\ UNCHANGED retracted
      /\ row' = [r \in Req |-> IF r \in B THEN Append(row[r], page(r)) ELSE row[r]]
      /\ out_len' = [r \in Req |-> IF r \in B THEN out_len[r] + 1 ELSE out_len[r]]
      /\ free_pages' = (free_pages \ {page(r) : r \in B}) \cup UNION {ToSet(row'[r]) : r \in ends}
      /\ free_rows' = free_rows + Cardinality(ends)
      /\ d_done' = [r \in Req |-> IF r \in ends THEN "ok" ELSE d_done[r]]
      /\ UNCHANGED <<config, d_status, d_arrived, prealloc_queue, waiting_for_input, transfer_q, d_waiting,
                     d_free, d_meta, d_conclude>>
  <2>1. Len(list) <= Cardinality(free_pages)
    BY <1>5, <1>6
  <2> QED BY <2>1 DEF Decode
<1>10. ends \in SUBSET B
  OBVIOUS
<1>11. \A r \in B : (r \in ends <=> out_len[r] + 1 >= MaxNew[r])
  OBVIOUS
<1>12. PICK pg : pg = [r \in B |-> page(r)]
  OBVIOUS
<1>13. /\ pg \in [B -> free_pages] /\ \A r, q \in B : pg[r] = pg[q] => r = q
  <2> HIDE DEF B, list, pages
  <2>1. \A r \in B : PlaceOf(list, r) \in 1..Len(list) /\ list[PlaceOf(list, r)] = r
    BY <1>6, PlaceOfResult
  <2>2. \A r \in B : PlaceOf(list, r) \in 1..Len(pages)
    BY <1>5, <1>6, <1>7, <1>8, <2>1
  <2>3. \A i \in 1..Len(pages) : pages[i] \in free_pages
    BY <1>8
  <2>4. \A r \in B : pg[r] = pages[PlaceOf(list, r)]
    BY <1>12
  <2>5. \A r \in B : pg[r] \in free_pages
    BY <2>2, <2>3, <2>4
  <2>6. ASSUME NEW r \in B, NEW q \in B, pg[r] = pg[q] PROVE r = q
    <3>1. PlaceOf(list, r) = PlaceOf(list, q)
      BY <1>8, <2>2, <2>4, <2>6 DEF Distinct
    <3> QED BY <2>1, <3>1
  <2> QED BY <1>12, <2>5, <2>6
<1>13a. /\ \A k \in Rank, p \in Page : (\A r \in B : pg[r] # p) => kv'[k][p] = kv[k][p]
        /\ \A k \in Rank, r \in B : kv'[k][pg[r]] = <<r, InputLen[r] + out_len[r]>>
  <2>1. kv' = [k \in Rank |-> [p \in 1..Pages |->
                   IF \E r \in B : page(r) = p
                   THEN LET r == CHOOSE r \in B : page(r) = p IN <<r, InputLen[r] + out_len[r]>>
                   ELSE kv[k][p]]]
    <3>1. Len(list) <= Cardinality(free_pages)
      BY <1>5, <1>6
    <3> QED BY <3>1 DEF Decode
  <2>2. \A r \in B : page(r) = pg[r]
    BY <1>12
  <2> HIDE DEF B, list, pages, page
  <2>3. ASSUME NEW k \in Rank, NEW p \in Page, \A r \in B : pg[r] # p PROVE kv'[k][p] = kv[k][p]
    BY <2>1, <2>2, <2>3 DEF Page
  <2>4. ASSUME NEW k \in Rank, NEW r \in B PROVE kv'[k][pg[r]] = <<r, InputLen[r] + out_len[r]>>
    <3>1. pg[r] \in Page /\ page(r) = pg[r]
      BY <1>1, <1>13, <2>2
    <3>2. PICK q : q = CHOOSE x \in B : page(x) = pg[r]
      OBVIOUS
    <3>3. q \in B /\ page(q) = pg[r]
      BY <3>1, <3>2
    <3>4. q = r
      BY <1>13, <2>2, <3>3
    <3>5. kv'[k][pg[r]] = <<q, InputLen[q] + out_len[q]>>
      BY <2>1, <3>1, <3>2 DEF Page
    <3> QED BY <3>4, <3>5
  <2> QED BY <2>3, <2>4
<1>14. /\ row' = [r \in Req |-> IF r \in B THEN Append(row[r], pg[r]) ELSE row[r]]
       /\ free_pages' = (free_pages \ {pg[r] : r \in B}) \cup UNION {ToSet(row'[r]) : r \in ends}
  <2> HIDE DEF B, list, pages, ends
  <2> QED BY <1>9, <1>12
<1> HIDE DEF B, list, pages, ends
<1>15. /\ Parted(free_pages', row', Holders \ ends, Page) /\ row' \in [Req -> Seq(Page)]
  <2>1. Parted(free_pages, row, Holders, Page)
    BY DEF DecodeMemory, Paged
  <2>2. PICK g : g = row'
    OBVIOUS
  <2>3. Grown(g, row, B, pg)
    BY <1>14, <2>2 DEF Grown
  <2>4. Parted(free_pages \ {pg[r] : r \in B}, g, Holders, Page) /\ g \in [Req -> Seq(Page)]
    <3>1. row \in [Req -> Seq(Page)] /\ Holders \in SUBSET Req /\ B \in SUBSET Holders /\ free_pages \subseteq Page
      BY <1>1, <1>2, <1>4
    <3> QED BY ONLY <1>13, <2>1, <2>3, <3>1, PartedGrow
  <2>5. PICK F : F = free_pages \ {pg[r] : r \in B}
    OBVIOUS
  <2>6. ends \in SUBSET Holders /\ Parted(F, g, Holders, Page)
    BY <1>4, <1>10, <2>4, <2>5
  <2>7. Parted(F \cup UNION {ToSet(g[r]) : r \in ends}, g, Holders \ ends, Page)
    BY <2>6, PartedDrop
  <2>8. free_pages' = F \cup UNION {ToSet(g[r]) : r \in ends}
    BY <1>14, <2>2, <2>5
  <2> QED BY <2>2, <2>4, <2>7, <2>8
<1>16. /\ \A r \in B : r \in Req /\ Len(row'[r]) = Len(row[r]) + 1 /\ out_len'[r] = out_len[r] + 1
       /\ \A r \in Req \ B : row'[r] = row[r] /\ out_len'[r] = out_len[r]
  <2>1. ASSUME NEW r \in B PROVE r \in Req /\ Len(row'[r]) = Len(row[r]) + 1 /\ out_len'[r] = out_len[r] + 1
    <3>1. r \in Req /\ row[r] \in Seq(Page) /\ pg[r] \in Page /\ row'[r] = Append(row[r], pg[r])
      BY <1>1, <1>2, <1>4, <1>13, <1>14
    <3> QED BY <1>9, <3>1
  <2> QED BY <1>9, <1>14, <2>1
<1>17. InDecode' = InDecode \ ends /\ Holders' = Holders \ ends
  <2>1. \A r \in B : d_done'[r] = "no" <=> r \notin ends
    BY <1>2, <1>4, <1>9
  <2>2. InDecode' = ToSet(d_waiting) \cup {r \in B : d_done'[r] = "no"}
    BY <1>9 DEF InDecode
  <2>3. InDecode' = InDecode \ ends
    BY <1>4, <1>10, <2>1, <2>2
  <2> QED BY <1>4, <1>9, <1>10, <2>3 DEF Holders
<1>18. Rank' = Rank /\ Pages' = Pages /\ Page' = Page
  BY <1>9 DEF Rank, Pages, Page
<1>19. /\ Cardinality(Holders \ ends) = Cardinality(Holders) - Cardinality(ends)
       /\ Cardinality(Holders) \in Nat /\ Cardinality(ends) \in Nat
  <2>1. ends \in SUBSET Holders
    BY <1>4, <1>10
  <2> QED BY <1>2, <2>1, DifferenceCardinality
<1>20. out_len' \in [Req -> Nat]
  BY <1>1, <1>9
<1>21. DecodeTypes'
  <2>1. d_done' \in [Req -> Outcome] /\ free_rows' \in Nat
    BY <1>1, <1>9, <1>19 DEF Outcome
  <2>2. free_pages' \in SUBSET Page
    BY <1>15 DEF Parted
  <2>3. last_batch' \in SUBSET Req /\ running_batch' \in SUBSET Req
    BY <1>2, <1>4, <1>9
  <2> QED BY <1>9, <1>15, <1>18, <1>20, <2>1, <2>2, <2>3 DEF DecodeMemory, DecodeTypes
<1>22. DecodePlaces'
  <2>1. \A r \in Req : d_done'[r] # "no" => r \in d_arrived \ (ToSet(prealloc_queue) \cup ToSet(transfer_q)
                                                          \cup ToSet(d_waiting) \cup {})
    <3> TAKE r \in Req
    <3> HAVE d_done'[r] # "no"
    <3>1. CASE r \in ends
      BY <1>3, <1>4, <1>10, <3>1
    <3>2. CASE r \notin ends
      <4>1. d_done[r] # "no"
        BY <1>9, <3>2
      <4> QED BY <1>3, <4>1
    <3> QED BY <3>1, <3>2
  <2>2. Holders' \subseteq Holders /\ B \subseteq Holders
    BY <1>4, <1>17
  <2>3. /\ ToSet(prealloc_queue) \cup Holders' \cup B \subseteq d_arrived
        /\ ToSet(prealloc_queue) \cap (Holders' \cup B) = {}
    BY <1>3, <2>2
  <2>4. \A r \in Req : d_done'[r] # "no" => r \in d_arrived' \ (ToSet(prealloc_queue') \cup ToSet(transfer_q')
                                                          \cup ToSet(d_waiting') \cup last_batch')
    BY <1>9, <2>1
  <2>5. ToSet(transfer_q') \cap (ToSet(d_waiting') \cup last_batch' \cup running_batch') = {}
    BY <1>3, <1>4, <1>9
  <2>6. ToSet(d_waiting') \cap (last_batch' \cup running_batch') = {} /\ last_batch' \cap running_batch' = {}
    BY <1>4, <1>9
  <2>7. /\ ToSet(prealloc_queue') \cup Holders' \cup running_batch' \subseteq d_arrived'
        /\ ToSet(prealloc_queue') \cap (Holders' \cup running_batch') = {}
    BY <1>9, <2>3
  <2> QED BY <2>4, <2>5, <2>6, <2>7 DEF DecodePlaces
<1>23. DecodeStatuses' /\ Split(d_free, d_meta, ToSet(transfer_q), DBuffer)'
  BY <1>9, <1>18 DEF DecodeMemory, DecodeStatuses, DBuffer
<1>24. Paged'
  <2>1. /\ \A r \in ToSet(transfer_q) : Len(row[r]) = InputLen[r]
        /\ \A r \in InDecode : out_len[r] >= 1 /\ Len(row[r]) = InputLen[r] + out_len[r] - 1
        /\ free_rows + Cardinality(Holders) = Rows
    BY DEF DecodeMemory, Paged
  <2>2. \A r \in ToSet(transfer_q) : Len(row'[r]) = InputLen[r]
    BY <1>2, <1>4, <1>16, <2>1
  <2>3. ASSUME NEW r \in InDecode' PROVE out_len'[r] >= 1 /\ Len(row'[r]) = InputLen[r] + out_len'[r] - 1
    <3>1. r \in InDecode /\ r \in Req /\ out_len[r] \in Nat /\ InputLen[r] \in Nat
      BY <1>1, <1>2, <1>17, ConstantFacts
    <3>2. CASE r \in B
      <4>1. /\ Len(row'[r]) = Len(row[r]) + 1 /\ out_len'[r] = out_len[r] + 1
            /\ Len(row[r]) = InputLen[r] + out_len[r] - 1
        BY <1>16, <2>1, <3>1, <3>2
      <4>2. PICK a \in Nat, b \in Nat : a = InputLen[r] /\ b = out_len[r]
        BY <3>1
      <4> QED BY <4>1, <4>2
    <3>3. CASE r \notin B
      BY <1>16, <2>1, <3>1, <3>3
    <3> QED BY <3>2, <3>3
  <2>4. free_rows' + Cardinality(Holders') = Rows
    BY <1>1, <1>9, <1>17, <1>19, <2>1
  <2>5. Parted(free_pages', row', Holders', Page')
    BY <1>15, <1>17, <1>18
  <2> QED BY <1>9, <2>2, <2>3, <2>4, <2>5 DEF Paged
<1>25. Growth'
  <2>1. ASSUME NEW r \in Holders' PROVE Len(row'[r]) + Due(r)' <= Len(row[r]) + Due(r)
    <3>1. r \in Req /\ r \notin ends /\ r \in Holders
      BY <1>2, <1>17
    <3>2. Len(row[r]) \in Nat /\ out_len[r] \in Nat /\ MaxNew[r] \in Nat
      BY <1>1, <3>1, ConstantFacts
    <3>3. CASE r \in B
      <4>1. /\ r \notin ToSet(transfer_q) /\ r \notin ToSet(transfer_q') /\ out_len'[r] = out_len[r] + 1
            /\ Len(row'[r]) = Len(row[r]) + 1 /\ ~(out_len[r] + 1 >= MaxNew[r])
        BY <1>4, <1>9, <1>11, <1>16, <3>1, <3>3
      <4>2. /\ Due(r) = MaxNew[r] - out_len[r]
            /\ Due(r)' = IF out_len[r] + 1 + 1 >= MaxNew[r] THEN 1 ELSE MaxNew[r] - (out_len[r] + 1)
        BY <4>1 DEF Due
      <4>3. PICK a \in Nat, b \in Nat, m \in Nat : a = Len(row[r]) /\ b = out_len[r] /\ m = MaxNew[r]
        BY <3>2
      <4>4. Due(r)' <= Due(r) - 1 /\ Due(r) \in Int /\ Due(r)' \in Int
        BY <4>1, <4>2, <4>3
      <4> QED BY <4>1, <4>3, <4>4
    <3>4. CASE r \notin B
      <4>1. (r \in ToSet(transfer_q) <=> r \in ToSet(transfer_q')) /\ out_len'[r] = out_len[r] /\ row'[r] = row[r]
        BY <1>9, <1>16, <3>1, <3>4
      <4>2. Due(r)' = Due(r)
        BY <4>1 DEF Due
      <4>3. Due(r) \in Int
        BY <3>1, DueBounds
      <4> QED BY <3>2, <4>1, <4>2, <4>3
    <3> QED BY <3>3, <3>4
  <2>2. Holders' \subseteq Holders /\ ~retracted' /\ config' = config
    BY <1>9, <1>17 DEF DecodeMemory, Growth
  <2> QED BY <1>15, <1>20, <2>1, <2>2, GrowthStep
<1>26. DecodeWrites
  <2>1. Parted(free_pages, row, Holders, Page)
    BY DEF DecodeMemory, Paged
  <2>2. ASSUME NEW r \in Holders, NEW i \in 1..Len(row[r])
        PROVE  row[r][i] \in Page /\ \A q \in B : pg[q] # row[r][i]
    <3>1. r \in Req /\ row[r] \in Seq(Page)
      BY <1>1, <1>2
    <3>2. row[r][i] \in ToSet(row[r])
      BY <3>1, ToSetIs
    <3>3. row[r][i] \notin free_pages
      BY <2>1, <3>2 DEF Parted
    <3> QED BY <1>13, <3>1, <3>3
  <2>3. \A r \in Holders, k \in Rank : \A i \in 1..Len(row[r]) : kv'[k][row[r][i]] = kv[k][row[r][i]]
    BY <1>13a, <2>2
  <2>4. \A r \in ToSet(transfer_q) : row'[r] = row[r]
    BY <1>2, <1>4, <1>16
  <2>5. ASSUME NEW r \in B
        PROVE  /\ Len(row'[r]) = Len(row[r]) + 1 /\ \A i \in 1..Len(row[r]) : row'[r][i] = row[r][i]
               /\ \A k \in Rank : kv'[k][row'[r][Len(row[r]) + 1]] = <<r, Len(row[r]) + 1>>
    <3>1. r \in Req /\ row[r] \in Seq(Page) /\ pg[r] \in Page /\ row'[r] = Append(row[r], pg[r])
      BY <1>1, <1>2, <1>4, <1>13, <1>14
    <3>2. /\ Len(row'[r]) = Len(row[r]) + 1 /\ row'[r][Len(row[r]) + 1] = pg[r]
          /\ \A i \in 1..Len(row[r]) : row'[r][i] = row[r][i]
      BY <3>1
    <3>3. Len(row[r]) = InputLen[r] + out_len[r] - 1
      BY <1>4 DEF DecodeMemory, Paged
    <3>4. PICK a \in Nat, b \in Nat, l \in Nat : a = InputLen[r] /\ b = out_len[r] /\ l = Len(row[r])
      BY <1>1, <3>1, ConstantFacts
    <3>5. l + 1 = a + b
      BY <3>3, <3>4
    <3>6. \A k \in Rank : kv'[k][pg[r]] = <<r, l + 1>>
      BY <1>13a, <3>4, <3>5
    <3> QED BY <3>2, <3>4, <3>6
  <2>6. \A r \in InDecode : r \notin B => row'[r] = row[r]
    BY <1>2, <1>16
  <2> QED BY <2>3, <2>4, <2>5, <2>6 DEF DecodeWrites
<1> QED BY <1>17, <1>21, <1>22, <1>23, <1>24, <1>25, <1>26 DEF DecodeMemory

---------------------------------------------------------------------------
(* Messages, chunks and the transferred memory                             *)

(* Steps that leave them alone. *)
LEMMA ThreadKeeps ==
  ASSUME ThreadTypes, UNCHANGED <<config, threadVars, to_prefill, to_decode, connected, memVars>>
  PROVE  ThreadTypes'
<1>1. Rank' = Rank /\ Page' = Page
  BY DEF Rank, Page, Pages
<1> QED BY <1>1 DEF ThreadTypes, threadVars, memVars, DBuffer

(* A chunk goes into the transfer queues. *)
LEMMA PrefillChunkTypes ==
  ASSUME ThreadTypes, PrefillTypes, PrefillChunk
  PROVE  ThreadTypes'
<1> DEFINE r    == Head(p_waiting)
           last == sent[r] + 1 = InputLen[r]
           put  == {k \in Rank : p_status[k][r] \notin {Absent, Failed}}
           c    == [room |-> r, page |-> sent[r] + 1, is_last |-> last]
<1>1. /\ transfer_queue' = [k \in Rank |-> IF k \in put THEN Append(transfer_queue[k], c) ELSE transfer_queue[k]]
      /\ UNCHANGED <<config, transfer_infos, worker, failed_sessions, to_prefill, to_decode, connVars, memVars>>
      /\ p_waiting # Empty
  BY DEF PrefillChunk
<1>2. c \in Chunk
  <2>1. r \in Req
    BY <1>1 DEF PrefillTypes, Empty
  <2>2. sent[r] + 1 \in Nat \ {0} /\ last \in BOOLEAN
    BY <2>1 DEF PrefillTypes
  <2> HIDE DEF r, last
  <2> QED BY <2>1, <2>2 DEF Chunk
<1> HIDE DEF c, put
<1>3. transfer_queue' \in [Rank -> Seq(Chunk)]
  <2>1. \A k \in Rank : transfer_queue[k] \in Seq(Chunk)
    BY DEF ThreadTypes
  <2>2. \A k \in Rank : Append(transfer_queue[k], c) \in Seq(Chunk)
    BY <1>2, <2>1
  <2> QED BY <1>1, <2>1, <2>2
<1>4. Rank' = Rank /\ Page' = Page
  BY <1>1 DEF Rank, Page, Pages
<1> QED BY <1>1, <1>3, <1>4 DEF ThreadTypes, connVars, memVars, DBuffer

(* The bootstrap thread takes a message. *)
LEMMA BootstrapThreadTypes ==
  ASSUME ThreadTypes, NEW k \in Rank, BootstrapThread(k)
  PROVE  ThreadTypes'
<1> DEFINE m == Head(to_prefill[k])
<1>1. /\ to_prefill[k] # Empty /\ to_prefill' = [to_prefill EXCEPT ![k] = Tail(@)]
      /\ \/ failed_sessions' = failed_sessions \ {k} /\ UNCHANGED transfer_infos
         \/ /\ m.type # "register" /\ transfer_infos' = [transfer_infos EXCEPT ![k] = @ \cup {m.room}]
            /\ UNCHANGED failed_sessions
      /\ UNCHANGED <<config, transfer_queue, worker, to_decode, connVars, memVars>>
  BY DEF BootstrapThread
<1>2. to_prefill[k] \in Seq(ToPrefill) /\ m \in ToPrefill
  BY <1>1 DEF ThreadTypes, Empty
<1>3. m.type # "register" => m.room \in Req
  BY <1>2 DEF ToPrefill
<1> HIDE DEF m
<1>4. Tail(to_prefill[k]) \in Seq(ToPrefill)
  BY <1>1, <1>2 DEF Empty
<1>5. to_prefill' \in [Rank -> Seq(ToPrefill)]
  BY <1>1, <1>4 DEF ThreadTypes
<1>6. transfer_infos' \in [Rank -> SUBSET Req] /\ failed_sessions' \in SUBSET Rank
  <2>1. transfer_infos \in [Rank -> SUBSET Req] /\ failed_sessions \in SUBSET Rank
    BY DEF ThreadTypes
  <2>2. PICK T : T = transfer_infos[k] \cup {m.room}
    OBVIOUS
  <2>3. m.type # "register" => T \in SUBSET Req
    BY <1>3, <2>1, <2>2
  <2>4. \/ transfer_infos' = transfer_infos
        \/ m.type # "register" /\ transfer_infos' = [transfer_infos EXCEPT ![k] = T]
    BY <1>1, <2>2
  <2>5. failed_sessions' \in SUBSET Rank
    BY <1>1, <2>1
  <2> QED BY <2>1, <2>3, <2>4, <2>5
<1>7. Rank' = Rank /\ Page' = Page
  BY <1>1 DEF Rank, Page, Pages
<1> QED BY <1>1, <1>5, <1>6, <1>7 DEF ThreadTypes, connVars, memVars, DBuffer

(* A transfer worker takes a chunk. *)
LEMMA TransferStartTypes ==
  ASSUME ThreadTypes, NEW k \in Rank, TransferStart(k)
  PROVE  ThreadTypes'
<1>1. /\ transfer_queue[k] # Empty /\ worker' = [worker EXCEPT ![k] = Head(transfer_queue[k])]
      /\ transfer_queue' = [transfer_queue EXCEPT ![k] = Tail(@)]
      /\ UNCHANGED <<config, transfer_infos, failed_sessions, to_prefill, to_decode, connVars, memVars>>
  BY DEF TransferStart
<1>2. transfer_queue[k] \in Seq(Chunk)
  BY DEF ThreadTypes
<1>3. Head(transfer_queue[k]) \in Chunk /\ Tail(transfer_queue[k]) \in Seq(Chunk)
  BY <1>1, <1>2 DEF Empty
<1>4. worker' \in [Rank -> Chunk \cup {NoChunk}] /\ transfer_queue' \in [Rank -> Seq(Chunk)]
  BY <1>1, <1>3 DEF ThreadTypes
<1>5. Rank' = Rank /\ Page' = Page
  BY <1>1 DEF Rank, Page, Pages
<1> QED BY <1>1, <1>4, <1>5 DEF ThreadTypes, connVars, memVars, DBuffer

(* A transfer worker is done with a chunk. *)
LEMMA TransferEndTypes ==
  ASSUME ThreadTypes, NEW k \in Rank, NEW o, TransferEnd(k, o)
  PROVE  ThreadTypes'
<1>1. PICK r : r = worker[k].room
  OBVIOUS
<1>2. r \in Req
  BY <1>1 DEF TransferEnd, ThreadTypes, Chunk
<1>3. /\ worker' = [worker EXCEPT ![k] = NoChunk]
      /\ kv' = kv \/ \E p, v : kv' = [kv EXCEPT ![k][p] = v]
      /\ aux' = aux \/ \E p, v : aux' = [aux EXCEPT ![k][p] = v]
      /\ failed_sessions' = failed_sessions \cup {k} \/ failed_sessions' = failed_sessions
      /\ to_decode' = to_decode \/ \E s \in {Failed, Success} : to_decode' = SyncStatus(k, r, s)
      /\ transfer_infos' = transfer_infos \/ transfer_infos' = [transfer_infos EXCEPT ![k] = @ \ {r}]
      /\ UNCHANGED <<config, transfer_queue, to_prefill, connVars>>
  <2>1. kv' = kv \/ \E p, v : kv' = [kv EXCEPT ![k][p] = v]
    BY DEF TransferEnd
  <2>2. aux' = aux \/ \E p, v : aux' = [aux EXCEPT ![k][p] = v]
    BY DEF TransferEnd
  <2>3. to_decode' = to_decode \/ \E s \in {Failed, Success} : to_decode' = SyncStatus(k, r, s)
    BY <1>1 DEF TransferEnd
  <2> QED BY <1>1, <2>1, <2>2, <2>3 DEF TransferEnd
<1>4. worker' \in [Rank -> Chunk \cup {NoChunk}] /\ failed_sessions' \in SUBSET Rank
  BY <1>3 DEF ThreadTypes
<1>5. transfer_infos' \in [Rank -> SUBSET Req]
  <2>1. transfer_infos \in [Rank -> SUBSET Req]
    BY DEF ThreadTypes
  <2>2. PICK T : T = transfer_infos[k] \ {r}
    OBVIOUS
  <2>3. T \in SUBSET Req
    BY <2>1, <2>2
  <2>4. transfer_infos' = transfer_infos \/ transfer_infos' = [transfer_infos EXCEPT ![k] = T]
    BY <1>3, <2>2
  <2> QED BY <2>1, <2>3, <2>4
<1>6. to_decode' \in [Rank -> Seq(ToDecode)]
  <2>1. CASE to_decode' = to_decode
    BY <2>1 DEF ThreadTypes
  <2>2. ASSUME NEW s \in {Failed, Success}, to_decode' = SyncStatus(k, r, s) PROVE to_decode' \in [Rank -> Seq(ToDecode)]
    <3>1. [room |-> r, status |-> s] \in ToDecode
      BY <1>2 DEF ToDecode
    <3>2. PICK m : m = [room |-> r, status |-> s]
      OBVIOUS
    <3>3. to_decode[k] \in Seq(ToDecode) /\ m \in ToDecode
      BY <3>1, <3>2 DEF ThreadTypes
    <3>4. Append(to_decode[k], m) \in Seq(ToDecode)
      BY <3>3
    <3>5. to_decode' = [to_decode EXCEPT ![k] = Append(@, m)]
      BY <2>2, <3>2 DEF SyncStatus
    <3> QED BY <3>4, <3>5 DEF ThreadTypes
  <2> QED BY <1>3, <2>1, <2>2
<1>7. Rank' = Rank /\ Page' = Page
  BY <1>3 DEF Rank, Page, Pages
<1>8. DOMAIN kv' = Rank /\ \A x \in Rank : DOMAIN kv'[x] = Page
  BY <1>3 DEF ThreadTypes
<1>9. DOMAIN aux' = Rank /\ \A x \in Rank : DOMAIN aux'[x] = DBuffer
  BY <1>3 DEF ThreadTypes
<1> QED BY <1>3, <1>4, <1>5, <1>6, <1>7, <1>8, <1>9 DEF ThreadTypes, connVars, DBuffer

(* Receivers register. *)
LEMMA ArriveDecodeTypes ==
  ASSUME ThreadTypes, NEW r \in Req, ArriveDecode(r)
  PROVE  ThreadTypes'
<1> DEFINE m == [type |-> "register", room |-> Empty]
<1>1. PICK ok \in SUBSET Rank :
        /\ connected' = ok
        /\ to_prefill' = [k \in Rank |-> IF k \in ok \ connected THEN Append(to_prefill[k], m) ELSE to_prefill[k]]
  BY DEF ArriveDecode
<1>2. UNCHANGED <<config, threadVars, to_decode, memVars>>
  BY DEF ArriveDecode
<1>3. m \in ToPrefill
  BY DEF ToPrefill
<1> HIDE DEF m
<1>4. \A k \in Rank : to_prefill[k] \in Seq(ToPrefill)
  BY DEF ThreadTypes
<1>5. \A k \in Rank : Append(to_prefill[k], m) \in Seq(ToPrefill)
  BY <1>3, <1>4
<1>6. to_prefill' \in [Rank -> Seq(ToPrefill)]
  BY <1>1, <1>4, <1>5
<1>7. Rank' = Rank /\ Page' = Page
  BY <1>2 DEF Rank, Page, Pages
<1> QED BY <1>1, <1>2, <1>6, <1>7 DEF ThreadTypes, threadVars, memVars, DBuffer

(* Requests are offered to the prefill server. *)
LEMMA PopPreallocatedTypes ==
  ASSUME ThreadTypes, DecodeTypes, PopPreallocated
  PROVE  ThreadTypes'
<1> DEFINE queued  == ToSet(prealloc_queue)
           polled  == IF queued \subseteq waiting_for_input THEN {} ELSE queued
           poll(r) == AllReduce(d_status, d_conclude, r)
           lost    == {r \in polled : poll(r) = Failed}
           waiters == waiting_for_input \cup {r \in polled : poll(r) = WaitingForInput}
           cand    == Queued(prealloc_queue, waiters \ lost)
           fits(i) == /\ i <= free_rows /\ i <= Len(d_free)
                      /\ PromptPages(cand, i) + Reserved * i <= AllocatableTokens
           fitting == {i \in 0..Len(cand) : i = 0 \/ fits(i)}
           n       == Max(fitting)
           taken   == Firsts(cand, n)
           init    == [i \in 1..Len(taken) |-> [type |-> "init", room |-> taken[i]]]
<1>1. /\ to_prefill' = [k \in Rank |-> to_prefill[k] \o init]
      /\ UNCHANGED <<config, threadVars, to_decode, connVars, memVars>>
  BY DEF PopPreallocated
<1>2. cand \in Seq(Req) /\ Distinct(cand)
  BY QueuedDistinct DEF DecodeTypes
<1>3. n \in 0..Len(cand)
  <2>1. fitting \subseteq 0..Len(cand) /\ 0 \in fitting /\ Len(cand) \in Nat
    BY <1>2
  <2>2. Max(fitting) \in fitting
    <3> HIDE DEF fitting, cand
    <3>1. PICK l \in Nat : l = Len(cand)
      BY <2>1
    <3>2. fitting \subseteq 0..l
      BY <2>1, <3>1
    <3> QED BY <2>1, <3>2, GreatestIn
  <2> HIDE DEF fitting
  <2> QED BY <2>1, <2>2
<1> HIDE DEF cand, n
<1>4. taken \in Seq(Req)
  BY <1>2, <1>3, FirstsResult
<1> HIDE DEF taken
<1>5. init \in Seq(ToPrefill)
  <2>1. Len(taken) \in Nat /\ \A i \in 1..Len(taken) : taken[i] \in Req
    BY <1>4
  <2>2. \A i \in 1..Len(taken) : [type |-> "init", room |-> taken[i]] \in ToPrefill
    BY <2>1 DEF ToPrefill
  <2>3. \A i \in 1..Len(taken) : init[i] \in ToPrefill
    BY <2>2
  <2>4. PICK g, l, M : g = init /\ l = Len(taken) /\ M = ToPrefill
    OBVIOUS
  <2>5. DOMAIN g = 1..l /\ g = [i \in 1..l |-> g[i]] /\ l \in Nat
    BY <2>1, <2>4
  <2>6. \A i \in 1..l : g[i] \in M
    BY <2>3, <2>4
  <2>7. g \in Seq(M)
    BY ONLY <2>5, <2>6
  <2> QED BY <2>4, <2>7
<1> HIDE DEF init
<1>6. \A k \in Rank : to_prefill[k] \o init \in Seq(ToPrefill)
  <2> TAKE k \in Rank
  <2>1. to_prefill[k] \in Seq(ToPrefill)
    BY DEF ThreadTypes
  <2> QED BY <1>5, <2>1
<1>7. to_prefill' \in [Rank -> Seq(ToPrefill)]
  BY <1>1, <1>6
<1>8. Rank' = Rank /\ Page' = Page
  BY <1>1 DEF Rank, Page, Pages
<1> QED BY <1>1, <1>7, <1>8 DEF ThreadTypes, threadVars, connVars, memVars, DBuffer

(* The receiving thread takes a message. *)
LEMMA DecodeThreadTypes ==
  ASSUME ThreadTypes, NEW k \in Rank, DecodeThread(k)
  PROVE  ThreadTypes'
<1>1. /\ to_decode[k] # Empty /\ to_decode' = [to_decode EXCEPT ![k] = Tail(@)]
      /\ UNCHANGED <<config, to_prefill, threadVars, connVars, memVars>>
  BY DEF DecodeThread
<1>2. to_decode \in [Rank -> Seq(ToDecode)] /\ to_decode[k] \in Seq(ToDecode)
  BY DEF ThreadTypes
<1>3. Tail(to_decode[k]) \in Seq(ToDecode)
  BY <1>1, <1>2 DEF Empty
<1>4. to_decode' \in [Rank -> Seq(ToDecode)]
  BY <1>1, <1>2, <1>3
<1>5. Rank' = Rank /\ Page' = Page
  BY <1>1 DEF Rank, Page, Pages
<1> QED BY <1>1, <1>4, <1>5 DEF ThreadTypes, threadVars, connVars, memVars, DBuffer

(* The decode server gives the connection up. *)
LEMMA HeartbeatTypes ==
  ASSUME ThreadTypes, NEW k \in Rank, Heartbeat(k)
  PROVE  ThreadTypes'
<1>1. /\ connected' = connected \ {k}
      /\ UNCHANGED <<config, to_prefill, to_decode, threadVars, memVars>>
  BY DEF Heartbeat
<1>2. Rank' = Rank /\ Page' = Page
  BY <1>1 DEF Rank, Page, Pages
<1> QED BY <1>1, <1>2 DEF ThreadTypes, threadVars, memVars, DBuffer

(* A forward writes the new pages. *)
LEMMA DecodeStepTypes ==
  ASSUME ThreadTypes, Decode
  PROVE  ThreadTypes'
<1>1. UNCHANGED <<config, to_prefill, to_decode, aux, threadVars, connVars>>
  BY DEF Decode
<1>2. Rank' = Rank /\ Page' = Page
  BY <1>1 DEF Rank, Page, Pages
<1>4. DOMAIN kv' = Rank /\ \A k \in Rank : DOMAIN kv'[k] = Page
  BY DEF Decode, ThreadTypes, Page
<1> QED BY <1>1, <1>2, <1>4 DEF ThreadTypes, threadVars, connVars, DBuffer

---------------------------------------------------------------------------
(* The three parts together                                                *)

(* The empty queues and the full free lists are an initial state. *)
LEMMA MemoryInit == Init => Memory
<1> SUFFICES ASSUME Init PROVE Memory
  OBVIOUS
<1>0. config \in Configs
  BY DEF Init
<1>a. Pages \in Nat /\ Rank \subseteq Nat /\ IsFiniteSet(Page) /\ Cardinality(Page) = Pages
  <2>1. config \in ConfigType
    BY <1>0, DisaggregationAssumption
  <2> QED BY <1>0, <2>1, ConfigFacts DEF ConfigType, Rank, Pages
<1>b. ToSet(Empty) = {} /\ Empty \in Seq(Req) /\ Distinct(Empty) /\ \A X : Empty \in Seq(X)
  BY DEF Empty, ToSet, Distinct
<1>1. ASSUME NEW n \in Nat, NEW free, free = [i \in 1..n |-> i]
      PROVE  free \in Seq(1..n) /\ Distinct(free) /\ ToSet(free) = 1..n
  <2>1. DOMAIN free = 1..n /\ \A i \in 1..n : free[i] = i
    BY <1>1
  <2>2. free \in Seq(1..n)
    BY <1>1
  <2>3. Len(free) = n
    BY <1>1
  <2>4. Distinct(free)
    BY <2>1, <2>3 DEF Distinct
  <2>5. ToSet(free) = {free[i] : i \in 1..n}
    BY <2>1 DEF ToSet
  <2> QED BY <2>1, <2>2, <2>4, <2>5
<1>2. PrefillMeta \in Nat /\ DecodeMeta \in Nat
  BY ConstantFacts
<1>3. /\ p_free \in Seq(PBuffer) /\ Distinct(p_free) /\ ToSet(p_free) = PBuffer
      /\ d_free \in Seq(DBuffer) /\ Distinct(d_free) /\ ToSet(d_free) = DBuffer
  BY <1>1, <1>2 DEF Init, PBuffer, DBuffer
<1>4. p_status \in [Rank -> [Req -> {Absent}]] /\ d_status = p_status /\ p_conclude = p_status /\ d_conclude = p_status
  BY DEF Init
<1>c. Absent \in StatusValue /\ Absent \in FinalValue
  BY DEF StatusValue, FinalValue
<1>5. PrefillTypes
  <2>1. p_status \in [Rank -> [Req -> StatusValue]] /\ p_conclude \in [Rank -> [Req -> FinalValue]]
    BY <1>4, <1>c
  <2>2. p_meta \in [Req -> PBuffer \cup {0}] /\ DOMAIN p_aux = PBuffer /\ p_done \in [Req -> Outcome]
    BY DEF Init, PBuffer, Outcome
  <2> QED BY <1>0, <1>3, <1>b, <2>1, <2>2 DEF Init, PrefillTypes
<1>6. PrefillPlaces /\ PrefillStatuses
  <2>1. PrefillPlaces
    BY <1>b DEF Init, PrefillPlaces
  <2>2. \A k \in Rank, r \in Req : p_conclude[k][r] = Absent
    BY <1>4
  <2> QED BY <1>b, <2>1, <2>2 DEF Init, PrefillStatuses
<1>7. ASSUME NEW free, NEW meta, NEW M, Distinct(free), ToSet(free) = M PROVE Split(free, meta, {}, M)
  BY <1>7 DEF Split
<1>8. PHeld = {} /\ ToSet(transfer_q) = {} /\ Holders = {} /\ InDecode = {}
  BY <1>b DEF Init, PHeld, Holders, InDecode
<1>9. Split(p_free, p_meta, PHeld, PBuffer) /\ Split(d_free, d_meta, ToSet(transfer_q), DBuffer)
  <2>1. Split(p_free, p_meta, {}, PBuffer) /\ Split(d_free, d_meta, {}, DBuffer)
    BY <1>3, <1>7
  <2> QED BY <1>8, <2>1
<1>10. ThreadTypes
  <2>1. kv = [k \in Rank |-> [p \in 1..Pages |-> Nothing]] /\ aux = [k \in Rank |-> [i \in 1..DecodeMeta |-> Nothing]]
    BY DEF Init
  <2>2. /\ DOMAIN kv = Rank /\ \A k \in Rank : DOMAIN kv[k] = Page
        /\ DOMAIN aux = Rank /\ \A k \in Rank : DOMAIN aux[k] = DBuffer
    BY <2>1 DEF Page, DBuffer
  <2>3. transfer_infos \in [Rank -> SUBSET Req] /\ worker \in [Rank -> Chunk \cup {NoChunk}]
    BY DEF Init
  <2>4. /\ transfer_queue \in [Rank -> Seq(Chunk)]
        /\ to_prefill \in [Rank -> Seq(ToPrefill)] /\ to_decode \in [Rank -> Seq(ToDecode)]
    BY <1>b DEF Init
  <2> QED BY <2>2, <2>3, <2>4 DEF Init, ThreadTypes
<1>11. DecodeTypes
  <2>1. d_status \in [Rank -> [Req -> StatusValue]] /\ d_conclude \in [Rank -> [Req -> FinalValue]]
    BY <1>4, <1>c
  <2>2. d_meta \in [Req -> DBuffer \cup {0}] /\ d_done \in [Req -> Outcome] /\ row \in [Req -> Seq(Page)]
    BY <1>b DEF Init, Outcome
  <2>3. free_pages \in SUBSET Page /\ free_rows \in Nat
    BY ConstantFacts DEF Init, Page
  <2> QED BY <1>3, <1>b, <2>1, <2>2, <2>3 DEF Init, DecodeTypes
<1>12. DecodePlaces /\ DecodeStatuses
  BY <1>8, <1>b DEF Init, DecodePlaces, DecodeStatuses
<1>13. Paged
  <2>1. Parted(free_pages, row, {}, Page)
    BY DEF Init, Parted, Apart, Page
  <2>2. free_rows = Rows /\ Rows \in Nat /\ Cardinality({}) = 0
    BY ConstantFacts, FS_EmptySet DEF Init
  <2>3. free_rows + Cardinality(Holders) = Rows
    BY <1>8, <2>2
  <2> QED BY <1>8, <2>1, <2>3 DEF Paged
<1>14. Growth
  <2>1. SumOver(Claim, {}) = 0
    BY SumEmpty
  <2> QED BY <1>8, <1>a, <2>1 DEF Growth, Init
<1> QED BY <1>5, <1>6, <1>9, <1>10, <1>11, <1>12, <1>13, <1>14 DEF Memory, PrefillMemory, DecodeMemory

(* Every step keeps them. *)
LEMMA MemoryStep == Memory /\ [Next]_vars => Memory'
<1> SUFFICES ASSUME Memory, [Next]_vars PROVE Memory'
  OBVIOUS
<1> USE DEF Memory
<1>a. config \in Configs /\ alive \in BOOLEAN /\ PrefillTypes /\ DecodeTypes
  BY DEF PrefillMemory, PrefillTypes, DecodeMemory
<1>1. ASSUME NEW r \in Req, ArrivePrefill(r) PROVE Memory'
  <2>1. /\ UNCHANGED <<config, decodeVars, d_status>>
        /\ UNCHANGED <<threadVars, to_prefill, to_decode, connected, memVars>>
    BY <1>1 DEF ArrivePrefill, connVars
  <2> QED BY <1>1, <2>1, ArrivePrefillMemory, DecodeKeeps, ThreadKeeps
<1>2. ASSUME NEW T, PopBootstrapped(T) PROVE Memory'
  <2>1. /\ UNCHANGED <<config, decodeVars, d_status>>
        /\ UNCHANGED <<threadVars, to_prefill, to_decode, connected, memVars>>
    BY <1>2 DEF PopBootstrapped, connVars
  <2> QED BY <1>2, <2>1, PopBootstrappedMemory, DecodeKeeps, ThreadKeeps
<1>3. ASSUME PrefillChunk PROVE Memory'
  <2>1. UNCHANGED <<config, decodeVars, d_status>>
    BY <1>3 DEF PrefillChunk
  <2> QED BY <1>3, <1>a, <2>1, PrefillChunkMemory, PrefillChunkTypes, DecodeKeeps
<1>4. ASSUME NEW k \in Rank, NEW r \in Req, AfterPut(k, r) PROVE Memory'
  <2>1. /\ UNCHANGED <<config, decodeVars, d_status>>
        /\ UNCHANGED <<threadVars, to_prefill, to_decode, connected, memVars>>
    BY <1>4 DEF AfterPut, connVars
  <2> QED BY <1>4, <2>1, AfterPutMemory, DecodeKeeps, ThreadKeeps
<1>5. ASSUME PollInflight PROVE Memory'
  <2>1. /\ UNCHANGED <<config, decodeVars, d_status>>
        /\ UNCHANGED <<threadVars, to_prefill, to_decode, connected, memVars>>
    BY <1>5 DEF PollInflight, connVars
  <2> QED BY <1>5, <2>1, PollInflightMemory, DecodeKeeps, ThreadKeeps
<1>6. ASSUME NEW k \in Rank, BootstrapThread(k) PROVE Memory'
  <2>1. UNCHANGED <<config, decodeVars, d_status>>
    BY <1>6 DEF BootstrapThread
  <2> QED BY <1>6, <2>1, BootstrapThreadMemory, BootstrapThreadTypes, DecodeKeeps
<1>7. ASSUME NEW k \in Rank, TransferStart(k) PROVE Memory'
  <2>1. UNCHANGED <<config, decodeVars, d_status, prefillVars, p_status, alive>>
    BY <1>7 DEF TransferStart
  <2> QED BY <1>7, <1>a, <2>1, PrefillKeeps, TransferStartTypes, DecodeKeeps
<1>8. ASSUME NEW k \in Rank, NEW o, TransferEnd(k, o) PROVE Memory'
  <2>1. UNCHANGED <<config, decodeVars, d_status>>
    BY <1>8 DEF TransferEnd
  <2> QED BY <1>8, <2>1, TransferEndMemory, TransferEndTypes, DecodeKeeps
<1>9. ASSUME NEW r \in Req, ArriveDecode(r) PROVE Memory'
  <2>1. UNCHANGED <<config, prefillVars, p_status, alive>>
    BY <1>9 DEF ArriveDecode
  <2> QED BY <1>9, <1>a, <2>1, PrefillKeeps, ArriveDecodeTypes, ArriveDecodeMemory
<1>10. ASSUME PopPreallocated PROVE Memory'
  <2>1. UNCHANGED <<config, prefillVars, p_status, alive>>
    BY <1>10 DEF PopPreallocated
  <2> QED BY <1>10, <1>a, <2>1, PrefillKeeps, PopPreallocatedTypes, PopPreallocatedMemory
<1>11. ASSUME PopTransferred PROVE Memory'
  <2>1. /\ UNCHANGED <<config, prefillVars, p_status, alive>>
        /\ UNCHANGED <<threadVars, to_prefill, to_decode, connected, memVars>>
    BY <1>11 DEF PopTransferred, connVars
  <2> QED BY <1>11, <1>a, <2>1, PrefillKeeps, ThreadKeeps, PopTransferredMemory
<1>12. ASSUME Prebuilt PROVE Memory'
  <2>1. /\ UNCHANGED <<config, prefillVars, p_status, alive>>
        /\ UNCHANGED <<threadVars, to_prefill, to_decode, connected, memVars>>
    BY <1>12 DEF Prebuilt, connVars
  <2> QED BY <1>12, <1>a, <2>1, PrefillKeeps, ThreadKeeps, PrebuiltMemory
<1>13. ASSUME Decode PROVE Memory'
  <2>1. UNCHANGED <<config, prefillVars, p_status, alive>>
    BY <1>13 DEF Decode
  <2> QED BY <1>13, <1>a, <2>1, PrefillKeeps, DecodeStepTypes, DecodeStepMemory
<1>14. ASSUME NEW k \in Rank, DecodeThread(k) PROVE Memory'
  <2>1. UNCHANGED <<config, prefillVars, p_status, alive>>
    BY <1>14 DEF DecodeThread
  <2> QED BY <1>14, <1>a, <2>1, PrefillKeeps, DecodeThreadTypes, DecodeThreadMemory
<1>15. ASSUME NEW k \in Rank, Heartbeat(k) PROVE Memory'
  <2>1. UNCHANGED <<config, prefillVars, p_status, alive>>
    BY <1>15 DEF Heartbeat
  <2> QED BY <1>15, <1>a, <2>1, PrefillKeeps, HeartbeatTypes, HeartbeatMemory
<1>16. ASSUME Crash PROVE Memory'
  <2>1. /\ UNCHANGED <<config, prefillVars, p_status, decodeVars, d_status>> /\ alive' \in BOOLEAN
        /\ UNCHANGED <<threadVars, to_prefill, to_decode, connected, memVars>>
    BY <1>16 DEF Crash, connVars
  <2> QED BY <2>1, PrefillKeeps, ThreadKeeps, DecodeKeeps
<1>17. ASSUME UNCHANGED vars PROVE Memory'
  <2>1. /\ UNCHANGED <<config, prefillVars, p_status, decodeVars, d_status, alive>>
        /\ UNCHANGED <<threadVars, to_prefill, to_decode, connected, memVars>>
    BY <1>17 DEF vars, connVars
  <2> QED BY <1>a, <2>1, PrefillKeeps, ThreadKeeps, DecodeKeeps
<1> QED
  BY <1>1, <1>2, <1>3, <1>4, <1>5, <1>6, <1>7, <1>8, <1>9, <1>10, <1>11, <1>12, <1>13, <1>14, <1>15, <1>16, <1>17
  DEF Next, Progress, PrefillThreads, Bootstrap

(* They hold for ever. *)
LEMMA MemoryInvariant == Spec => []Memory
BY MemoryInit, MemoryStep, PTL DEF Spec

(* Every status that a poll reads is there, on every rank, and the counts  *)
(* stay in their ranges (TypeOK).                                          *)
THEOREM DisaggregationTypes == Spec => []TypeOK
<1>1. ASSUME Memory PROVE TypeOK
  <2>1. PrefillTypes /\ PrefillStatuses /\ DecodeTypes /\ DecodeStatuses /\ Paged /\ config \in Configs
    BY <1>1 DEF Memory, PrefillMemory, DecodeMemory, PrefillTypes
  <2>2. {p_status, p_conclude, d_status, d_conclude} \subseteq StatusType
    <3>1. FinalValue \subseteq StatusValue
      BY DEF FinalValue, StatusValue
    <3>2. p_status \in [Rank -> [Req -> StatusValue]] /\ p_conclude \in [Rank -> [Req -> StatusValue]]
      BY <2>1, <3>1 DEF PrefillTypes
    <3>3. d_status \in [Rank -> [Req -> StatusValue]] /\ d_conclude \in [Rank -> [Req -> StatusValue]]
      BY <2>1, <3>1 DEF DecodeTypes
    <3> QED BY <3>2, <3>3 DEF StatusType, StatusValue
  <2>3. ASSUME NEW k \in Rank, NEW r \in ToSet(bootstrap_queue \o inflight_queue)
        PROVE  Poll(p_status, p_conclude, k, r) # Absent
    <3>1. /\ bootstrap_queue \in Seq(Req) /\ inflight_queue \in Seq(Req) /\ Distinct(bootstrap_queue)
          /\ Distinct(inflight_queue) /\ ToSet(bootstrap_queue) \cap ToSet(inflight_queue) = {}
      BY <1>1 DEF Memory, PrefillMemory, PrefillTypes, PrefillPlaces
    <3>2. ToSet(bootstrap_queue \o inflight_queue) = ToSet(bootstrap_queue) \cup ToSet(inflight_queue)
      BY <3>1, ConcatDistinct
    <3>3. r \in Req
      BY <3>1, <3>2, ToSetIn
    <3>4. p_status[k][r] # Absent
      BY <2>1, <3>2, <3>3 DEF PrefillStatuses, Absent, Failed, WaitingForInput, Success
    <3> QED BY <3>4 DEF Poll
  <2>4. ASSUME NEW k \in Rank, NEW r \in ToSet(prealloc_queue \o transfer_q)
        PROVE  Poll(d_status, d_conclude, k, r) # Absent
    <3>1. /\ prealloc_queue \in Seq(Req) /\ transfer_q \in Seq(Req) /\ Distinct(prealloc_queue)
          /\ Distinct(transfer_q) /\ ToSet(prealloc_queue) \cap ToSet(transfer_q) = {}
      BY <1>1 DEF Memory, DecodeMemory, DecodeTypes, DecodePlaces, Holders
    <3>2. ToSet(prealloc_queue \o transfer_q) = ToSet(prealloc_queue) \cup ToSet(transfer_q)
      BY <3>1, ConcatDistinct
    <3>3. d_status[k][r] # Absent
      BY <2>1, <3>2 DEF DecodeStatuses
    <3> QED BY <3>3 DEF Poll
  <2>5. free_rows \in 0..Rows
    <3>1. free_rows \in Nat /\ free_rows + Cardinality(Holders) = Rows /\ Rows \in Nat
      BY <2>1, ConstantFacts DEF DecodeTypes, Paged
    <3>2. IsFiniteSet(Holders)
      BY <1>1, HolderFacts DEF Memory
    <3>3. Cardinality(Holders) \in Nat
      BY <3>2, FS_CardinalityType
    <3> QED BY <3>1, <3>3
  <2> QED BY <2>1, <2>2, <2>3, <2>4, <2>5 DEF TypeOK, PrefillTypes, DecodeTypes, Outcome, Page
<1> QED BY <1>1, MemoryInvariant, PTL

(* Metadata buffers, pages and rows are free or held by one request of one *)
(* queue, on both servers, also after failed handshakes and transfers and  *)
(* after a crash (BuffersBalanced).                                        *)
THEOREM DisaggregationBuffers == Spec => []BuffersBalanced
<1>1. ASSUME Memory PROVE BuffersBalanced
  <2> DEFINE p_held == p_waiting \o inflight_queue
  <2>1. /\ p_waiting \in Seq(Req) /\ inflight_queue \in Seq(Req) /\ Distinct(p_waiting) /\ Distinct(inflight_queue)
        /\ ToSet(p_waiting) \cap ToSet(inflight_queue) = {} /\ config \in Configs
        /\ p_free \in Seq(PBuffer) /\ p_meta \in [Req -> PBuffer \cup {0}]
        /\ Split(p_free, p_meta, PHeld, PBuffer)
    BY <1>1 DEF Memory, PrefillMemory, PrefillTypes, PrefillPlaces
  <2>2. p_held \in Seq(Req) /\ Distinct(p_held) /\ ToSet(p_held) = PHeld
    BY <2>1, ConcatDistinct DEF PHeld
  <2> HIDE DEF p_held
  <2>3. Cardinality(PHeld) = Len(p_held) /\ PHeld \in SUBSET Req
    BY <2>2, DistinctCardinality, ToSetIn
  <2>4. ToSet(p_free) \cup {p_meta[r] : r \in ToSet(p_held)} = 1..PrefillMeta
    <3>1. ToSet(p_free) \cup {p_meta[r] : r \in PHeld} = PBuffer
      BY <2>1 DEF Split
    <3> QED BY <2>2, <3>1 DEF PBuffer
  <2>5. Len(p_free) + Len(p_held) = PrefillMeta
    <3>1. IsFiniteSet(PBuffer) /\ Cardinality(PBuffer) = PrefillMeta
      BY ConstantFacts
    <3>2. Len(p_free) + Cardinality(PHeld) = Cardinality(PBuffer)
      BY <2>1, <2>3, <3>1, SplitCount
    <3> QED BY <2>3, <3>1, <3>2
  <2>6. /\ transfer_q \in Seq(Req) /\ Distinct(transfer_q)
        /\ d_free \in Seq(DBuffer) /\ d_meta \in [Req -> DBuffer \cup {0}]
        /\ Split(d_free, d_meta, ToSet(transfer_q), DBuffer)
    BY <1>1 DEF Memory, DecodeMemory, DecodeTypes
  <2>7. Cardinality(ToSet(transfer_q)) = Len(transfer_q) /\ ToSet(transfer_q) \in SUBSET Req
    BY <2>6, DistinctCardinality, ToSetIn
  <2>8. ToSet(d_free) \cup {d_meta[r] : r \in ToSet(transfer_q)} = 1..DecodeMeta
    BY <2>6 DEF Split, DBuffer
  <2>9. Len(d_free) + Len(transfer_q) = DecodeMeta
    <3>1. IsFiniteSet(DBuffer) /\ Cardinality(DBuffer) = DecodeMeta
      BY ConstantFacts
    <3>2. Len(d_free) + Cardinality(ToSet(transfer_q)) = Cardinality(DBuffer)
      BY <2>6, <2>7, <3>1, SplitCount
    <3> QED BY <2>7, <3>1, <3>2
  <2>10. free_pages \cup UNION {ToSet(row[r]) : r \in Holders} = 1..Pages
    BY <1>1 DEF Memory, DecodeMemory, Paged, Parted, Page
  <2>11. Cardinality(free_pages) + SumOver([r \in Req |-> Len(row[r])], Holders) = Pages
    BY <1>1, <2>1, PageCount DEF Memory
  <2>12. free_rows + Cardinality(Holders) = Rows
    BY <1>1 DEF Memory, DecodeMemory, Paged
  <2> QED BY <2>4, <2>5, <2>8, <2>9, <2>10, <2>11, <2>12 DEF BuffersBalanced, p_held
<1> QED BY <1>1, MemoryInvariant, PTL

(* An answer that fits num_reserved_decode_tokens is never retracted       *)
(* (NoRetraction, the reservation of _allocatable_tokens).                 *)
THEOREM DisaggregationNoRetraction == Spec => []NoRetraction
<1>1. Memory => NoRetraction
  BY DEF Memory, DecodeMemory, Growth, NoRetraction
<1> QED BY <1>1, MemoryInvariant, PTL

---------------------------------------------------------------------------
(* The inductive invariant: chunks and handshakes                          *)

(* the chunks of a transfer queue and of its worker *)
ChunksOf(q, w) == ToSet(q) \cup ({w} \ {NoChunk})

(* The chunks of a request are transferred in order. *)
InOrder(q, w) ==
  /\ \A i, j \in 1..Len(q) : i < j /\ q[i].room = q[j].room => q[i].page < q[j].page
  /\ w # NoChunk => \A c \in ToSet(q) : c.room = w.room => w.page < c.page

(* what rank k has still to transfer *)
InTransfer(k) == ChunksOf(transfer_queue[k], worker[k])

Carries(k, r, p) == \E c \in InTransfer(k) : c.room = r /\ c.page = p

(* All chunks of r were computed, and rank k has none left. *)
Settled(k, r) == sent[r] = InputLen[r] /\ \A c \in InTransfer(k) : c.room # r

ChunkOK(c) == /\ p_meta[c.room] # 0 /\ c.page <= sent[c.room]
              /\ c.is_last <=> c.page = InputLen[c.room]

Chunks == \A k \in Rank : (\A c \in InTransfer(k) : ChunkOK(c)) /\ InOrder(transfer_queue[k], worker[k])

(* How far the prefill of r is; p_meta is set when it begins. *)
PrefillOf(r) ==
  /\ r \notin p_arrived \/ r \in ToSet(bootstrap_queue) => p_meta[r] = 0
  /\ p_meta[r] = 0 => sent[r] = 0
  /\ sent[r] <= InputLen[r]
  /\ r \in ToSet(p_waiting) => sent[r] < InputLen[r]
  /\ r \in ToSet(inflight_queue) => sent[r] = InputLen[r] /\ p_aux[p_meta[r]] = <<r, 1>>
  /\ \A k \in Rank : <<k, r>> \in pending => p_meta[r] # 0
Prefills == \A r \in Req : PrefillOf(r)

InitMessage(r) == [type |-> "init", room |-> r]

(* What the prefill server knows of the memory that the decode server      *)
(* reserved; d_meta is set when it is reserved.                            *)
OfferOf(k, r) ==
  /\ p_meta[r] = 0 => /\ p_status[k][r] \in {Absent, Bootstrapping, WaitingForInput}
                      /\ p_conclude[k][r] = Absent
                      /\ p_status[k][r] = WaitingForInput <=> r \in transfer_infos[k]
  /\ r \in transfer_infos[k] \/ InitMessage(r) \in ToSet(to_prefill[k]) \/ p_meta[r] # 0 => d_meta[r] # 0
  /\ InitMessage(r) \in ToSet(to_prefill[k]) => p_meta[r] = 0 /\ r \notin transfer_infos[k]
Offers == \A k \in Rank, r \in Req : OfferOf(k, r)

(* A receiver before its memory is reserved. *)
ReceiverOf(k, r) ==
  /\ r \notin d_arrived \/ r \in ToSet(prealloc_queue) => d_meta[r] = 0
  /\ d_meta[r] = 0 => /\ d_status[k][r] \in {Absent, WaitingForInput, Failed}
                      /\ d_conclude[k][r] \in {Absent, Failed}
  /\ alive /\ r \in waiting_for_input /\ r \in ToSet(prealloc_queue)
       => d_status[k][r] = WaitingForInput /\ d_conclude[k][r] = Absent
  /\ alive /\ (d_status[k][r] = WaitingForInput \/ r \in waiting_for_input) => k \in connected
Receivers == waiting_for_input \subseteq d_arrived /\ \A k \in Rank, r \in Req : ReceiverOf(k, r)

(* The registration of a rank is the first message it sends, and the offer *)
(* of a request is made once.                                              *)
MessagesOf(k) ==
  /\ alive /\ k \notin connected => to_prefill[k] = Empty /\ transfer_infos[k] = {} /\ k \notin failed_sessions
  /\ \A i, j \in 1..Len(to_prefill[k]) :
       to_prefill[k][i].type = "init" /\ to_prefill[k][i] = to_prefill[k][j] => i = j
  /\ \A i \in 1..Len(to_prefill[k]) : to_prefill[k][i].type = "register"
       => i = 1 /\ transfer_infos[k] = {} /\ k \notin failed_sessions
Messages == \A k \in Rank : MessagesOf(k)

---------------------------------------------------------------------------
(* The inductive invariant: transfers                                      *)

Told(k, r, status) == [room |-> r, status |-> status] \in ToSet(to_decode[k])

(* Somebody believes that the transfer of r on rank k failed, or that it   *)
(* succeeded.                                                              *)
FailedAt(k, r) ==
  \/ p_status[k][r] = Failed \/ p_conclude[k][r] = Failed \/ Told(k, r, Failed)
  \/ alive /\ d_meta[r] # 0 /\ (d_status[k][r] = Failed \/ d_conclude[k][r] = Failed)

SuccessAt(k, r) ==
  \/ p_status[k][r] = Success \/ p_conclude[k][r] = Success \/ Told(k, r, Success)
  \/ d_status[k][r] = Success \/ d_conclude[k][r] = Success

FailureOf(k, r) ==
  /\ FailedAt(k, r) => "send" \in faults /\ p_meta[r] # 0 /\ (k \in failed_sessions \/ Settled(k, r))
  /\ SuccessAt(k, r) => Settled(k, r)
Failures == (failed_sessions # {} => "send" \in faults) /\ \A k \in Rank, r \in Req : FailureOf(k, r)

(* A failed transfer ends the request on every rank there is. *)
Alone == "send" \notin faults \/ Cardinality(Rank) = 1

(* While rank k has something to transfer of r, both servers wait for it. *)
OpenOf(k, r) ==
  /\ alive /\ k \notin failed_sessions /\ p_meta[r] # 0 /\ ~Settled(k, r)
       => /\ p_status[k][r] = WaitingForInput /\ p_conclude[k][r] = Absent
          /\ r \in transfer_infos[k] /\ r \in ToSet(transfer_q) /\ r \in PHeld
  /\ alive /\ p_meta[r] = 0 /\ d_meta[r] # 0 => r \in ToSet(transfer_q)
Open == \A k \in Rank, r \in Req : OpenOf(k, r)

Complete(k, r) ==
  (\A i \in 1..InputLen[r] : kv[k][row[r][i]] = <<r, i>>) /\ aux[k][d_meta[r]] = <<r, 1>>

WrittenOf(k, r) ==
  /\ k \notin failed_sessions => \A i \in 1..sent[r] : Carries(k, r, i) \/ kv[k][row[r][i]] = <<r, i>>
  /\ SuccessAt(k, r) => Complete(k, r)
Written == \A k \in Rank, r \in ToSet(transfer_q) : WrittenOf(k, r)

Intact == \A r \in InDecode : /\ first_token[r] = {<<r, 1>>}
                              /\ \A k \in Rank, i \in 1..Len(row[r]) : kv[k][row[r][i]] = <<r, i>>

Protocol == Chunks /\ Prefills /\ Offers /\ Receivers /\ Messages /\ Failures

Transfers == Alone => Open /\ Written /\ Intact

IInv == Memory /\ Protocol /\ Transfers

---------------------------------------------------------------------------
(* Chunks                                                                  *)

(* A chunk is none of the absent ones. *)
LEMMA ChunkTypes ==
  ASSUME NEW q \in Seq(Chunk), NEW w \in Chunk \cup {NoChunk}
  PROVE  /\ NoChunk \notin Chunk /\ ChunksOf(q, w) \subseteq Chunk
         /\ \A c \in Chunk : c.room \in Req /\ c.page \in Nat /\ c.page > 0
         /\ \A i \in 1..Len(q) : q[i] \in Chunk /\ q[i] \in ChunksOf(q, w)
         /\ \A c \in ToSet(q) : \E i \in 1..Len(q) : c = q[i]
<1>1. ToSet(q) = {q[i] : i \in 1..Len(q)}
  BY ToSetIs
<1>2. NoChunk \notin Chunk
  BY DEF NoChunk, Chunk
<1>3. \A c \in Chunk : c.room \in Req /\ c.page \in Nat /\ c.page > 0
  BY DEF Chunk
<1>4. \A i \in 1..Len(q) : q[i] \in Chunk
  OBVIOUS
<1> QED BY <1>1, <1>2, <1>3, <1>4 DEF ChunksOf

(* A later chunk goes to the end of the queue. *)
LEMMA PutInOrder ==
  ASSUME NEW q \in Seq(Chunk), NEW w \in Chunk \cup {NoChunk}, InOrder(q, w), NEW c \in Chunk,
         \A d \in ChunksOf(q, w) : d.room = c.room => d.page < c.page
  PROVE  InOrder(Append(q, c), w) /\ ChunksOf(Append(q, c), w) = ChunksOf(q, w) \cup {c}
<1> DEFINE s == Append(q, c)
<1>1. /\ s \in Seq(Chunk) /\ Len(s) = Len(q) + 1 /\ Len(q) \in Nat
      /\ \A i \in 1..Len(q) : s[i] = q[i]
      /\ s[Len(q) + 1] = c
  OBVIOUS
<1> HIDE DEF s
<1>2. ToSet(s) = {s[i] : i \in 1..Len(s)} /\ ToSet(q) = {q[i] : i \in 1..Len(q)}
  BY <1>1, ToSetIs
<1>3. ToSet(s) = ToSet(q) \cup {c}
  <2>1. ASSUME NEW x \in ToSet(s) PROVE x \in ToSet(q) \cup {c}
    BY <1>1, <1>2
  <2>2. ASSUME NEW x \in ToSet(q) \cup {c} PROVE x \in ToSet(s)
    BY <1>1, <1>2
  <2> QED BY <2>1, <2>2
<1>4. ASSUME NEW i \in 1..Len(s), NEW j \in 1..Len(s), i < j, s[i].room = s[j].room PROVE s[i].page < s[j].page
  <2>1. i \in 1..Len(q) /\ s[i] = q[i] /\ q[i] \in ChunksOf(q, w)
    BY <1>1, <1>4, ChunkTypes
  <2>2. CASE j = Len(q) + 1
    BY <1>1, <1>4, <2>1, <2>2
  <2>3. CASE j # Len(q) + 1
    <3>1. j \in 1..Len(q) /\ s[j] = q[j]
      BY <1>1, <2>3
    <3> QED BY <1>4, <2>1, <3>1 DEF InOrder
  <2> QED BY <2>2, <2>3
<1>5. ASSUME w # NoChunk, NEW d \in ToSet(s), d.room = w.room PROVE w.page < d.page
  <2>1. w \in ChunksOf(q, w)
    BY <1>5 DEF ChunksOf
  <2> QED BY <1>3, <1>5, <2>1 DEF InOrder
<1>6. InOrder(s, w)
  BY <1>4, <1>5 DEF InOrder
<1> QED BY <1>3, <1>6 DEF ChunksOf, s

(* The worker takes the first chunk. *)
LEMMA StartInOrder ==
  ASSUME NEW q \in Seq(Chunk), q # << >>, InOrder(q, NoChunk)
  PROVE  InOrder(Tail(q), Head(q)) /\ ChunksOf(Tail(q), Head(q)) = ChunksOf(q, NoChunk)
<1> DEFINE s == Tail(q)
           h == Head(q)
<1>1. /\ s \in Seq(Chunk) /\ Len(q) \in Nat /\ Len(q) > 0 /\ Len(s) = Len(q) - 1
      /\ \A i \in 1..Len(s) : s[i] = q[i + 1]
      /\ h = q[1] /\ h \in Chunk
  OBVIOUS
<1> HIDE DEF s, h
<1>2. ToSet(s) = {s[i] : i \in 1..Len(s)} /\ ToSet(q) = {q[i] : i \in 1..Len(q)}
  BY <1>1, ToSetIs
<1>3. ToSet(q) = ToSet(s) \cup {h}
  <2>1. ASSUME NEW i \in 1..Len(q) PROVE q[i] \in ToSet(s) \cup {h}
    <3>1. CASE i = 1
      BY <1>1, <3>1
    <3>2. CASE i # 1
      <4>1. i - 1 \in 1..Len(s) /\ (i - 1) + 1 = i
        BY <1>1, <3>2
      <4>2. s[i - 1] = q[i]
        BY <1>1, <4>1
      <4> QED BY <1>2, <4>1, <4>2
    <3> QED BY <3>1, <3>2
  <2>2. ASSUME NEW i \in 1..Len(s) PROVE s[i] \in ToSet(q)
    <3>1. i + 1 \in 1..Len(q) /\ s[i] = q[i + 1]
      BY <1>1
    <3> QED BY <1>2, <3>1
  <2>3. h \in ToSet(q)
    <3>1. 1 \in 1..Len(q)
      BY <1>1
    <3> QED BY <1>1, <1>2, <3>1
  <2> QED BY <1>2, <2>1, <2>2, <2>3
<1>4. ASSUME NEW i \in 1..Len(s), NEW j \in 1..Len(s), i < j, s[i].room = s[j].room PROVE s[i].page < s[j].page
  <2>1. i + 1 \in 1..Len(q) /\ j + 1 \in 1..Len(q) /\ i + 1 < j + 1 /\ s[i] = q[i + 1] /\ s[j] = q[j + 1]
    BY <1>1, <1>4
  <2> QED BY <1>4, <2>1 DEF InOrder
<1>5. ASSUME NEW d \in ToSet(s), d.room = h.room PROVE h.page < d.page
  <2>1. PICK i \in 1..Len(s) : d = s[i]
    BY <1>2
  <2>2. i + 1 \in 1..Len(q) /\ 1 \in 1..Len(q) /\ 1 < i + 1 /\ d = q[i + 1]
    BY <1>1, <2>1
  <2> QED BY <1>1, <1>5, <2>2 DEF InOrder
<1>6. NoChunk \notin Chunk
  BY ChunkTypes
<1>7. {h} \ {NoChunk} = {h} /\ {NoChunk} \ {NoChunk} = {}
  BY <1>1, <1>6
<1> QED BY <1>3, <1>4, <1>5, <1>7 DEF InOrder, ChunksOf, s, h

(* The worker ends its chunk; those left of the same request come after it.*)
LEMMA EndInOrder ==
  ASSUME NEW q \in Seq(Chunk), NEW w \in Chunk, InOrder(q, w)
  PROVE  /\ InOrder(q, NoChunk) /\ ChunksOf(q, NoChunk) = ChunksOf(q, w) \ {w} /\ w \in ChunksOf(q, w)
         /\ \A d \in ChunksOf(q, NoChunk) : d.room = w.room => w.page < d.page
<1>1. NoChunk \notin Chunk /\ w # NoChunk /\ w.page \in Nat
  BY ChunkTypes
<1>2. \A d \in ToSet(q) : d.room = w.room => w.page < d.page
  BY <1>1 DEF InOrder
<1>3. w \notin ToSet(q)
  BY <1>1, <1>2
<1> QED BY <1>1, <1>2, <1>3 DEF InOrder, ChunksOf

---------------------------------------------------------------------------
(* What a poll says                                                        *)

(* All succeed, one fails, or all are ready. *)
LEMMA PollMeaning ==
  ASSUME config \in Configs, NEW status \in [Rank -> [Req -> StatusValue]],
         NEW conclude \in [Rank -> [Req -> FinalValue]], NEW r \in Req
  PROVE  LET v == AllReduce(status, conclude, r)
         IN  /\ v = Success => \A k \in Rank : status[k][r] = Success \/ conclude[k][r] = Success
             /\ v = Failed => \E k \in Rank : status[k][r] = Failed \/ conclude[k][r] = Failed
             /\ v \in {WaitingForInput, Success} =>
                  \A k \in Rank : Poll(status, conclude, k, r) \in {WaitingForInput, Success}
             /\ \E k \in Rank : v = Poll(status, conclude, k, r)
<1>1. PICK v : v = AllReduce(status, conclude, r)
  OBVIOUS
<1>2. /\ \A k \in Rank : Poll(status, conclude, k, r) \in StatusValue
      /\ \E k \in Rank : v = Poll(status, conclude, k, r)
      /\ \A k \in Rank : v <= Poll(status, conclude, k, r)
  BY <1>1, AllReduceResult
<1>3. ASSUME NEW k \in Rank, v \in {WaitingForInput, Success}
      PROVE  /\ Poll(status, conclude, k, r) \in {WaitingForInput, Success}
             /\ v = Success => Poll(status, conclude, k, r) = Success
  <2>1. PICK p : p = Poll(status, conclude, k, r)
    OBVIOUS
  <2>2. p \in StatusValue /\ v <= p
    BY <1>2, <2>1
  <2>3. p \in {WaitingForInput, Success} /\ (v = Success => p = Success)
    BY <1>3, <2>2 DEF StatusValue, Absent, Failed, Bootstrapping, WaitingForInput, Success
  <2> QED BY <2>1, <2>3
<1>4. \A k \in Rank : Poll(status, conclude, k, r) \in {status[k][r], conclude[k][r]}
  BY DEF Poll
<1>5. \E k \in Rank : v \in {status[k][r], conclude[k][r]}
  BY <1>2, <1>4
<1>6. ASSUME v = Success, NEW k \in Rank PROVE status[k][r] = Success \/ conclude[k][r] = Success
  <2>1. Poll(status, conclude, k, r) = Success
    BY <1>3, <1>6
  <2> QED BY <1>4, <2>1
<1> QED BY <1>1, <1>2, <1>3, <1>5, <1>6

(* What is concluded was there. *)
LEMMA ConcludedMeaning ==
  ASSUME NEW status, NEW conclude, NEW polled, NEW gone, NEW k \in Rank, NEW r \in Req
  PROVE  LET s == Cleared(status, gone)[k][r]
             c == Concluded(status, conclude, polled, gone)[k][r]
         IN  /\ s = IF r \in gone THEN Absent ELSE status[k][r]
             /\ c \in {Failed, Success} => c \in {status[k][r], conclude[k][r]}
             /\ status[k][r] = WaitingForInput /\ conclude[k][r] = Absent => c = Absent
             /\ r \notin gone /\ r \notin polled => c = conclude[k][r]
             /\ c \in {Absent, Failed, Success, conclude[k][r]}
<1>1. PICK c : c = Concluded(status, conclude, polled, gone)[k][r]
  OBVIOUS
<1>2. c = IF r \in gone THEN Absent
          ELSE IF r \in polled /\ Poll(status, conclude, k, r) \in {Success, Failed}
          THEN Poll(status, conclude, k, r) ELSE conclude[k][r]
  BY <1>1, ConcludedAt
<1>3. Poll(status, conclude, k, r) \in {status[k][r], conclude[k][r]}
  BY DEF Poll
<1>4. Absent \notin {Failed, Success} /\ WaitingForInput \notin {Failed, Success}
  BY DEF Absent, Failed, Success, WaitingForInput
<1>5. status[k][r] = WaitingForInput /\ conclude[k][r] = Absent => Poll(status, conclude, k, r) = WaitingForInput
  BY DEF Poll
<1>6. c \in {Failed, Success} => c \in {status[k][r], conclude[k][r]}
  BY <1>2, <1>3, <1>4
<1>7. status[k][r] = WaitingForInput /\ conclude[k][r] = Absent => c = Absent
  BY <1>2, <1>4, <1>5
<1>8. c \in {Absent, Failed, Success, conclude[k][r]} /\ (r \notin gone /\ r \notin polled => c = conclude[k][r])
  BY <1>2
<1> QED BY <1>1, <1>6, <1>7, <1>8, ClearedAt

---------------------------------------------------------------------------
(* What the steps of the prefill server do                                 *)

(* pop_bootstrapped takes requests whose memory every rank knows; no       *)
(* request of the bootstrap queue can fail or time out.                    *)
LEMMA BootstrapEffect ==
  ASSUME PrefillMemory, PrefillMemory', Prefills, Offers, Bootstrap
  PROVE  \E S \in SUBSET ToSet(bootstrap_queue) :
           /\ \A k \in Rank, r \in Req : p_status'[k][r] = p_status[k][r] /\ p_conclude'[k][r] = p_conclude[k][r]
           /\ \A r \in Req : IF r \in S THEN p_meta[r] = 0 /\ p_meta'[r] # 0 ELSE p_meta'[r] = p_meta[r]
           /\ \A k \in Rank, r \in S : p_status[k][r] = WaitingForInput
           /\ ToSet(bootstrap_queue') = ToSet(bootstrap_queue) \ S
           /\ ToSet(p_waiting') = ToSet(p_waiting) \cup S
           /\ pending = {}
           /\ UNCHANGED <<config, alive, p_arrived, sent, inflight_queue, pending, p_aux, to_prefill,
                          to_decode, d_status, threadVars, decodeVars, connVars, memVars>>
<1>1. PICK T \in SUBSET {r \in ToSet(bootstrap_queue) : TimedOut(r)} : PopBootstrapped(T)
  BY DEF Bootstrap
<1>2. /\ bootstrap_queue \in Seq(Req) /\ Distinct(bootstrap_queue) /\ p_free \in Seq(PBuffer)
      /\ p_waiting \in Seq(Req) /\ Distinct(p_waiting) /\ p_meta \in [Req -> PBuffer \cup {0}]
      /\ p_status \in [Rank -> [Req -> StatusValue]] /\ p_conclude \in [Rank -> [Req -> FinalValue]]
      /\ config \in Configs
  BY DEF PrefillMemory, PrefillTypes
<1>3. ToSet(bootstrap_queue) \in SUBSET Req
  BY <1>2, ToSetIn
<1>4. \A r \in ToSet(bootstrap_queue) : p_meta[r] = 0
  BY <1>3 DEF Prefills, PrefillOf
<1>5. T = {}
  BY <1>4 DEF TimedOut
<1>6. ASSUME NEW r \in ToSet(bootstrap_queue), NEW k \in Rank
      PROVE  p_status[k][r] \in {Bootstrapping, WaitingForInput} /\ p_conclude[k][r] = Absent
  <2>1. r \in Req /\ p_status[k][r] \in {Absent, Bootstrapping, WaitingForInput} /\ p_conclude[k][r] = Absent
    BY <1>3, <1>4 DEF Offers, OfferOf
  <2> QED BY <2>1 DEF PrefillMemory, PrefillStatuses
<1>7. ASSUME NEW r \in ToSet(bootstrap_queue)
      PROVE  /\ AllReduce(p_status, p_conclude, r) # Failed
             /\ AllReduce(p_status, p_conclude, r) \notin {Failed, Bootstrapping} =>
                  \A k \in Rank : p_status[k][r] = WaitingForInput
  <2>1. PICK v : v = AllReduce(p_status, p_conclude, r)
    OBVIOUS
  <2>2. \A k \in Rank : Poll(p_status, p_conclude, k, r) = p_status[k][r]
    BY <1>6 DEF Poll
  <2>3. r \in Req
    BY <1>3
  <2>4. /\ \E k \in Rank : v = Poll(p_status, p_conclude, k, r)
        /\ v \in {WaitingForInput, Success} =>
                  \A k \in Rank : Poll(p_status, p_conclude, k, r) \in {WaitingForInput, Success}
    BY <1>2, <2>1, <2>3, PollMeaning
  <2>5. v \in {Bootstrapping, WaitingForInput}
    BY <1>6, <2>2, <2>4
  <2>6. Failed \notin {Bootstrapping, WaitingForInput} /\ Success \notin {Bootstrapping, WaitingForInput}
    BY DEF Failed, Bootstrapping, WaitingForInput, Success
  <2>7. v = WaitingForInput => \A k \in Rank : p_status[k][r] = WaitingForInput
    BY <1>6, <2>2, <2>4, <2>6
  <2> QED BY <2>1, <2>5, <2>6, <2>7
<1> DEFINE poll(r) == IF r \in T THEN Failed ELSE AllReduce(p_status, p_conclude, r)
           ready == Queued(bootstrap_queue, {r \in Req : poll(r) \notin {Failed, Bootstrapping}})
           n     == Min({Len(ready), Len(p_free)})
           taken == Firsts(ready, n)
           seen  == IF n = Len(ready) THEN ToSet(bootstrap_queue)
                    ELSE {r \in ToSet(bootstrap_queue) :
                            \E i, j \in DOMAIN bootstrap_queue :
                              i < j /\ bootstrap_queue[i] = r /\ bootstrap_queue[j] = ready[n + 1]}
           lost  == {r \in seen : poll(r) = Failed}
           S     == ToSet(taken)
<1>8. lost = {}
  BY <1>5, <1>7
<1>9. /\ bootstrap_queue' = Without(bootstrap_queue, S \cup lost)
      /\ p_waiting' = p_waiting \o taken /\ p_meta' = Given(p_meta, taken, p_free)
      /\ p_conclude' = Concluded(p_status, p_conclude, ToSet(bootstrap_queue), lost)
      /\ p_status' = Cleared(p_status, lost) /\ pending = {}
      /\ UNCHANGED <<config, alive, p_arrived, sent, inflight_queue, pending, p_aux, to_prefill,
                     to_decode, d_status, threadVars, decodeVars, connVars, memVars>>
  BY <1>1 DEF PopBootstrapped
<1>10. /\ ready \in Seq(Req) /\ Distinct(ready)
       /\ ToSet(ready) = ToSet(bootstrap_queue) \cap {r \in Req : poll(r) \notin {Failed, Bootstrapping}}
  BY <1>2, QueuedDistinct
<1>11. n \in 0..Len(ready)
  <2>1. Len(ready) \in Nat /\ Len(p_free) \in Nat
    <3> HIDE DEF ready
    <3> QED BY <1>2, <1>10
  <2> HIDE DEF ready
  <2>2. PICK a \in Int, b \in Int : a = Len(ready) /\ b = Len(p_free)
    BY <2>1
  <2>3. Min({a, b}) \in {a, b} /\ Min({a, b}) <= a /\ Min({a, b}) <= b
    BY MinOfTwo
  <2> QED BY <2>1, <2>2, <2>3
<1>12. taken \in Seq(Req) /\ Distinct(taken) /\ S = {ready[i] : i \in 1..n}
  <2> HIDE DEF ready, n
  <2> QED BY <1>10, <1>11, FirstsResult
<1>13. S \subseteq ToSet(ready)
  <2> HIDE DEF ready, taken, n
  <2>1. \A i \in 1..n : i \in 1..Len(ready)
    BY <1>11
  <2> QED BY <1>10, <1>12, <2>1, ToSetIs
<1>14. S \subseteq ToSet(bootstrap_queue) /\ \A r \in S, k \in Rank : p_status[k][r] = WaitingForInput
  BY <1>5, <1>7, <1>10, <1>13
<1> HIDE DEF poll, ready, n, seen, lost
<1>15. /\ ToSet(bootstrap_queue') = ToSet(bootstrap_queue) \ S
       /\ ToSet(p_waiting') = ToSet(p_waiting) \cup S
  <2>1. S \cap ToSet(p_waiting) = {}
    BY <1>14 DEF PrefillMemory, PrefillPlaces
  <2> HIDE DEF taken
  <2>2. S \cup lost = S
    BY <1>8
  <2>3. bootstrap_queue' = Without(bootstrap_queue, S)
    BY <1>9, <2>2
  <2>4. ToSet(Without(bootstrap_queue, S)) = ToSet(bootstrap_queue) \ S
    BY <1>2, WithoutDistinct
  <2>5. ToSet(p_waiting \o taken) = ToSet(p_waiting) \cup ToSet(taken)
    BY <1>2, <1>12, <2>1, ConcatDistinct
  <2> QED BY <1>9, <2>3, <2>4, <2>5
<1>16. ASSUME NEW r \in Req PROVE IF r \in S THEN p_meta[r] = 0 /\ p_meta'[r] # 0 ELSE p_meta'[r] = p_meta[r]
  <2>1. r \notin S => p_meta'[r] = p_meta[r]
    BY <1>9 DEF Given
  <2>2. ASSUME r \in S PROVE p_meta'[r] # 0
    <3>1. r \in PHeld'
      BY <1>15, <2>2 DEF PHeld
    <3>2. p_meta'[r] \in PBuffer
      BY <3>1 DEF PrefillMemory, Split, PBuffer
    <3> QED BY <3>2, ConstantFacts DEF PBuffer
  <2> QED BY <1>4, <1>14, <2>1, <2>2
<1> HIDE DEF taken
<1>17. ASSUME NEW k \in Rank, NEW r \in Req
       PROVE  p_status'[k][r] = p_status[k][r] /\ p_conclude'[k][r] = p_conclude[k][r]
  <2>1. PICK c : c = Concluded(p_status, p_conclude, ToSet(bootstrap_queue), lost)[k][r]
    OBVIOUS
  <2>2. c = IF r \in lost THEN Absent
            ELSE IF r \in ToSet(bootstrap_queue) /\ Poll(p_status, p_conclude, k, r) \in {Success, Failed}
            THEN Poll(p_status, p_conclude, k, r) ELSE p_conclude[k][r]
    BY <2>1, ConcludedAt
  <2>3. r \in ToSet(bootstrap_queue) => Poll(p_status, p_conclude, k, r) \notin {Success, Failed}
    BY <1>6 DEF Poll, Bootstrapping, WaitingForInput, Success, Failed
  <2>4. p_conclude'[k][r] = p_conclude[k][r]
    BY <1>8, <1>9, <2>1, <2>2, <2>3
  <2>5. p_status'[k][r] = p_status[k][r]
    BY <1>8, <1>9, ClearedAt
  <2> QED BY <2>4, <2>5
<1> HIDE DEF S
<1> QED BY <1>9, <1>14, <1>15, <1>16, <1>17

(* What a poll of the requests polled may do to the statuses, when those   *)
(* of gone are dropped.                                                    *)
Concludes(status, conclude, status1, conclude1, polled, gone) ==
  \A k \in Rank, r \in Req :
    /\ status1[k][r] = IF r \in gone THEN Absent ELSE status[k][r]
    /\ conclude1[k][r] \in {Failed, Success} => conclude1[k][r] \in {status[k][r], conclude[k][r]}
    /\ status[k][r] = WaitingForInput /\ conclude[k][r] = Absent => conclude1[k][r] = Absent
    /\ r \notin gone /\ r \notin polled => conclude1[k][r] = conclude[k][r]
    /\ conclude1[k][r] \in {Absent, Failed, Success, conclude[k][r]}

(* The poll does that. *)
LEMMA ConcludesResult ==
  ASSUME NEW status, NEW conclude, NEW polled, NEW gone
  PROVE  Concludes(status, conclude, Cleared(status, gone), Concluded(status, conclude, polled, gone), polled, gone)
BY ConcludedMeaning DEF Concludes

(* process_disagg_prefill_inflight_queue drops requests that all ranks have*)
(* transferred, or one has failed.                                         *)
LEMMA PollInflightEffect ==
  ASSUME PrefillMemory, PollInflight
  PROVE  \E gone \in SUBSET ToSet(inflight_queue) :
           /\ Concludes(p_status, p_conclude, p_status', p_conclude', ToSet(inflight_queue), gone)
           /\ \A r \in gone : \/ \A k \in Rank : p_status[k][r] = Success \/ p_conclude[k][r] = Success
                              \/ \E k \in Rank : p_status[k][r] = Failed \/ p_conclude[k][r] = Failed
           /\ ToSet(inflight_queue') = ToSet(inflight_queue) \ gone
           /\ pending = {}
           /\ UNCHANGED <<config, alive, p_arrived, bootstrap_queue, p_waiting, sent, pending, p_meta,
                          p_aux, to_prefill, to_decode, d_status, threadVars, decodeVars, connVars, memVars>>
<1> DEFINE poll(r) == AllReduce(p_status, p_conclude, r)
           done    == {r \in ToSet(inflight_queue) : poll(r) = Success}
           lost    == {r \in ToSet(inflight_queue) : poll(r) = Failed}
           gone    == done \cup lost
           stays   == {r \in Req : poll(r) = WaitingForInput}
<1>1. /\ inflight_queue' = Queued(inflight_queue, stays)
      /\ p_conclude' = Concluded(p_status, p_conclude, ToSet(inflight_queue), gone)
      /\ p_status' = Cleared(p_status, gone)
      /\ pending = {}
      /\ UNCHANGED <<config, alive, p_arrived, bootstrap_queue, p_waiting, sent, pending, p_meta,
                     p_aux, to_prefill, to_decode, d_status, threadVars, decodeVars, connVars, memVars>>
  BY DEF PollInflight
<1>2. /\ config \in Configs /\ inflight_queue \in Seq(Req) /\ Distinct(inflight_queue)
      /\ p_status \in [Rank -> [Req -> StatusValue]] /\ p_conclude \in [Rank -> [Req -> FinalValue]]
  BY DEF PrefillMemory, PrefillTypes
<1>3. ToSet(inflight_queue) \in SUBSET Req
  BY <1>2, ToSetIn
<1>4. ToSet(inflight_queue) \cap stays = ToSet(inflight_queue) \ gone
  <2> SUFFICES ASSUME NEW r \in ToSet(inflight_queue)
               PROVE  poll(r) = WaitingForInput <=> poll(r) \notin {Success, Failed}
    BY <1>3
  <2>1. r \in Req /\ \A k \in Rank : p_status[k][r] \in {Failed, WaitingForInput, Success}
    BY <1>3 DEF PrefillMemory, PrefillStatuses
  <2>2. \A k \in Rank : p_conclude[k][r] \in {Absent, Failed, Success}
    BY <1>2, <2>1 DEF FinalValue
  <2>3. \E k \in Rank : poll(r) = Poll(p_status, p_conclude, k, r)
    BY <1>2, <2>1, AllReduceResult
  <2>4. poll(r) \in {Failed, WaitingForInput, Success}
    BY <2>1, <2>2, <2>3 DEF Poll
  <2> QED BY <2>4 DEF Failed, WaitingForInput, Success
<1>5. gone \in SUBSET ToSet(inflight_queue)
  OBVIOUS
<1>6. \A r \in gone : \/ \A k \in Rank : p_status[k][r] = Success \/ p_conclude[k][r] = Success
                      \/ \E k \in Rank : p_status[k][r] = Failed \/ p_conclude[k][r] = Failed
  <2> TAKE r \in gone
  <2>1. r \in Req /\ poll(r) \in {Success, Failed}
    BY <1>3
  <2> HIDE DEF gone
  <2> QED BY <1>2, <2>1, PollMeaning
<1> HIDE DEF poll, done, lost, gone, stays
<1>7. ToSet(inflight_queue') = ToSet(inflight_queue) \ gone
  BY <1>1, <1>2, <1>4, QueuedDistinct
<1>8. Concludes(p_status, p_conclude, p_status', p_conclude', ToSet(inflight_queue), gone)
  BY <1>1, ConcludesResult
<1> QED BY <1>1, <1>5, <1>6, <1>7, <1>8

(* The chunk that process_prefill_chunk puts into the transfer queues. *)
LEMMA PrefillChunkEffect ==
  ASSUME PrefillMemory, Prefills, PrefillChunk
  PROVE  \E r \in Req, c \in Chunk, put \in SUBSET Rank :
           /\ r \in ToSet(p_waiting) /\ p_meta[r] \in PBuffer /\ p_meta[r] # 0 /\ sent[r] < InputLen[r]
           /\ c.room = r /\ c.page = sent[r] + 1 /\ (c.is_last <=> c.page = InputLen[r])
           /\ \A q \in Req : sent'[q] = IF q = r THEN sent[r] + 1 ELSE sent[q]
           /\ \A k \in Rank : transfer_queue'[k] =
                IF k \in put THEN Append(transfer_queue[k], c) ELSE transfer_queue[k]
           /\ \A k \in Rank : k \notin put => p_status[k][r] = Failed
           /\ \A k \in Rank, q \in Req : <<k, q>> \in pending' => q = r
           /\ IF c.is_last
              THEN /\ ToSet(p_waiting') = ToSet(p_waiting) \ {r}
                   /\ ToSet(inflight_queue') = ToSet(inflight_queue) \cup {r}
                   /\ p_aux' = [p_aux EXCEPT ![p_meta[r]] = <<r, 1>>]
              ELSE UNCHANGED <<p_waiting, inflight_queue, p_aux>>
           /\ UNCHANGED <<config, alive, p_arrived, bootstrap_queue, p_free, p_meta, p_conclude, p_done,
                          p_status, transfer_infos, worker, failed_sessions, to_prefill, to_decode,
                          d_status, decodeVars, connVars, memVars>>
<1> DEFINE r    == Head(p_waiting)
           last == sent[r] + 1 = InputLen[r]
           put  == {k \in Rank : p_status[k][r] \notin {Absent, Failed}}
           c    == [room |-> r, page |-> sent[r] + 1, is_last |-> last]
<1>1. /\ p_waiting # Empty
      /\ sent' = [sent EXCEPT ![r] = @ + 1]
      /\ p_waiting' = IF last THEN Tail(p_waiting) ELSE p_waiting
      /\ inflight_queue' = IF last THEN Append(inflight_queue, r) ELSE inflight_queue
      /\ p_aux' = IF last THEN [p_aux EXCEPT ![p_meta[r]] = <<r, 1>>] ELSE p_aux
      /\ transfer_queue' = [k \in Rank |-> IF k \in put THEN Append(transfer_queue[k], c) ELSE transfer_queue[k]]
      /\ pending' = {<<k, r>> : k \in put}
      /\ UNCHANGED <<config, alive, p_arrived, bootstrap_queue, p_free, p_meta, p_conclude, p_done,
                     p_status, transfer_infos, worker, failed_sessions, to_prefill, to_decode,
                     d_status, decodeVars, connVars, memVars>>
  BY DEF PrefillChunk
<1>2. /\ p_waiting \in Seq(Req) /\ Distinct(p_waiting) /\ inflight_queue \in Seq(Req)
      /\ Distinct(inflight_queue) /\ sent \in [Req -> Nat]
  BY DEF PrefillMemory, PrefillTypes
<1>3. /\ r \in ToSet(p_waiting) /\ r \in Req /\ ToSet(Tail(p_waiting)) = ToSet(p_waiting) \ {r}
  BY <1>1, <1>2, TailDistinct DEF Empty
<1>4. r \notin ToSet(inflight_queue)
  BY <1>3 DEF PrefillMemory, PrefillPlaces
<1>5. ToSet(Append(inflight_queue, r)) = ToSet(inflight_queue) \cup {r}
  <2> HIDE DEF r
  <2> QED BY <1>2, <1>3, <1>4, AppendDistinct
<1>6. \A k \in Rank : k \notin put => p_status[k][r] = Failed
  <2>1. \A k \in Rank : p_status[k][r] \in {Failed, WaitingForInput, Success}
    BY <1>3 DEF PrefillMemory, PrefillStatuses
  <2> QED BY <2>1 DEF Absent, Failed, WaitingForInput, Success
<1>7. put \in SUBSET Rank
  OBVIOUS
<1> HIDE DEF r, put
<1>8. c \in Chunk /\ c.room = r /\ c.page = sent[r] + 1 /\ c.is_last = last
  <2>1. sent[r] + 1 \in Nat \ {0} /\ last \in BOOLEAN
    BY <1>2, <1>3
  <2> HIDE DEF last
  <2> QED BY <1>3, <2>1 DEF Chunk
<1>9. c.is_last <=> c.page = InputLen[r]
  BY <1>8
<1>10. \A q \in Req : sent'[q] = IF q = r THEN sent[r] + 1 ELSE sent[q]
  BY <1>1, <1>2, <1>3
<1>11. p_meta[r] \in PBuffer /\ p_meta[r] # 0 /\ sent[r] < InputLen[r]
  <2>1. p_meta[r] \in PBuffer
    BY <1>3 DEF PrefillMemory, Split, PHeld
  <2>2. p_meta[r] # 0
    BY <2>1, ConstantFacts DEF PBuffer
  <2> QED BY <1>3, <2>1, <2>2 DEF Prefills, PrefillOf
<1> HIDE DEF c, last
<1>12. \A k \in Rank : transfer_queue'[k] = IF k \in put THEN Append(transfer_queue[k], c) ELSE transfer_queue[k]
  BY <1>1
<1>13. IF c.is_last
       THEN /\ ToSet(p_waiting') = ToSet(p_waiting) \ {r}
            /\ ToSet(inflight_queue') = ToSet(inflight_queue) \cup {r}
            /\ p_aux' = [p_aux EXCEPT ![p_meta[r]] = <<r, 1>>]
       ELSE UNCHANGED <<p_waiting, inflight_queue, p_aux>>
  BY <1>1, <1>3, <1>5, <1>8
<1>14. \A k \in Rank, q \in Req : <<k, q>> \in pending' => q = r
  BY <1>1
<1>15. r \in Req /\ c \in Chunk /\ put \in SUBSET Rank
  BY <1>3, <1>7, <1>8
<1> USE <1>15
<1> WITNESS r \in Req, c \in Chunk, put \in SUBSET Rank
<1> QED BY <1>1, <1>3, <1>6, <1>8, <1>9, <1>10, <1>11, <1>12, <1>13, <1>14

---------------------------------------------------------------------------
(* What the steps of the decode server do                                  *)

(* pop_transferred passes on what all ranks have received and drops what   *)
(* one has not.                                                            *)
LEMMA PopTransferredEffect ==
  ASSUME DecodeMemory, config \in Configs, PopTransferred
  PROVE  \E done, lost \in SUBSET ToSet(transfer_q) :
           /\ Concludes(d_status, d_conclude, d_status', d_conclude', ToSet(transfer_q), done \cup lost)
           /\ \A r \in done : \A k \in Rank : d_status[k][r] = Success \/ d_conclude[k][r] = Success
           /\ \A r \in lost : \E k \in Rank : d_status[k][r] = Failed \/ d_conclude[k][r] = Failed
           /\ ToSet(transfer_q') = ToSet(transfer_q) \ (done \cup lost)
           /\ InDecode' = InDecode \cup done
           /\ \A r \in Req : first_token'[r] = IF r \in done THEN {aux[k][d_meta[r]] : k \in Rank} ELSE first_token[r]
           /\ UNCHANGED <<config, alive, p_status, to_prefill, to_decode, d_arrived, prealloc_queue,
                          waiting_for_input, d_meta, row, prefillVars, threadVars, connVars, memVars>>
<1> DEFINE poll(r) == AllReduce(d_status, d_conclude, r)
           done    == {r \in ToSet(transfer_q) : poll(r) = Success}
           lost    == {r \in ToSet(transfer_q) : poll(r) = Failed}
           gone    == done \cup lost
<1>1. /\ transfer_q' = Without(transfer_q, gone)
      /\ d_waiting' = d_waiting \o Queued(transfer_q, done)
      /\ first_token' = [r \in Req |-> IF r \in done THEN {aux[k][d_meta[r]] : k \in Rank} ELSE first_token[r]]
      /\ d_conclude' = Concluded(d_status, d_conclude, ToSet(transfer_q), gone)
      /\ d_status' = Cleared(d_status, gone)
      /\ d_done' = [r \in Req |-> IF r \in lost THEN "failed" ELSE d_done[r]]
      /\ UNCHANGED <<config, alive, p_status, to_prefill, to_decode, d_arrived, prealloc_queue,
                     waiting_for_input, last_batch, running_batch, d_meta, row, prefillVars, threadVars,
                     connVars, memVars>>
  BY DEF PopTransferred
<1>2. /\ transfer_q \in Seq(Req) /\ Distinct(transfer_q) /\ d_waiting \in Seq(Req) /\ Distinct(d_waiting)
      /\ d_status \in [Rank -> [Req -> StatusValue]] /\ d_conclude \in [Rank -> [Req -> FinalValue]]
      /\ running_batch \in SUBSET Req
  BY DEF DecodeMemory, DecodeTypes
<1>3. ToSet(transfer_q) \in SUBSET Req
  BY HolderFacts
<1>4. /\ done \in SUBSET ToSet(transfer_q) /\ lost \in SUBSET ToSet(transfer_q)
      /\ ToSet(transfer_q) \cap done = done
  OBVIOUS
<1>5. /\ \A r \in done : \A k \in Rank : d_status[k][r] = Success \/ d_conclude[k][r] = Success
      /\ \A r \in lost : \E k \in Rank : d_status[k][r] = Failed \/ d_conclude[k][r] = Failed
  BY <1>2, <1>3, PollMeaning
<1>6. ToSet(transfer_q) \cap (ToSet(d_waiting) \cup last_batch \cup running_batch) = {}
  BY DEF DecodeMemory, DecodePlaces
<1> HIDE DEF poll, done, lost
<1>7. ToSet(transfer_q') = ToSet(transfer_q) \ gone
  <2> HIDE DEF gone
  <2> QED BY <1>1, <1>2, WithoutDistinct
<1>8. ToSet(d_waiting') = ToSet(d_waiting) \cup done
  <2>1. PICK q : q = Queued(transfer_q, done)
    OBVIOUS
  <2>2. q \in Seq(Req) /\ Distinct(q) /\ ToSet(q) = done
    <3>1. /\ Queued(transfer_q, done) \in Seq(Req) /\ Distinct(Queued(transfer_q, done))
          /\ ToSet(Queued(transfer_q, done)) = ToSet(transfer_q) \cap done
      BY <1>2, QueuedDistinct
    <3> QED BY <1>4, <2>1, <3>1
  <2>3. ToSet(d_waiting) \cap ToSet(q) = {}
    BY <1>4, <1>6, <2>2
  <2>4. ToSet(d_waiting \o q) = ToSet(d_waiting) \cup ToSet(q)
    BY <1>2, <2>2, <2>3, ConcatDistinct
  <2> QED BY <1>1, <2>1, <2>2, <2>4
<1>9. \A r \in running_batch : d_done'[r] = d_done[r]
  BY <1>1, <1>2, <1>4, <1>6
<1>10. InDecode' = InDecode \cup done
  BY <1>1, <1>8, <1>9 DEF InDecode
<1>11. Concludes(d_status, d_conclude, d_status', d_conclude', ToSet(transfer_q), done \cup lost)
  BY <1>1, ConcludesResult
<1>12. \A r \in Req : first_token'[r] = IF r \in done THEN {aux[k][d_meta[r]] : k \in Rank} ELSE first_token[r]
  BY <1>1
<1> USE <1>4
<1> WITNESS done \in SUBSET ToSet(transfer_q), lost \in SUBSET ToSet(transfer_q)
<1> QED BY <1>1, <1>5, <1>7, <1>10, <1>11, <1>12

(* pop_preallocated reserves memory for the requests of N, drops those that*)
(* failed, and sends an offer for each of N.                               *)
LEMMA PopPreallocatedEffect ==
  ASSUME DecodeMemory, DecodeMemory', config \in Configs, PopPreallocated
  PROVE  \E N, lost, polled \in SUBSET ToSet(prealloc_queue), init \in Seq(ToPrefill) :
           /\ Concludes(d_status, d_conclude, d_status', d_conclude', polled, lost)
           /\ N \cap lost = {} /\ ToSet(prealloc_queue') = ToSet(prealloc_queue) \ (N \cup lost)
           /\ ToSet(transfer_q') = ToSet(transfer_q) \cup N
           /\ waiting_for_input \subseteq waiting_for_input' /\ N \subseteq waiting_for_input'
           /\ \A r \in waiting_for_input' : r \notin waiting_for_input =>
                r \in ToSet(prealloc_queue) /\ \A k \in Rank : Poll(d_status, d_conclude, k, r) \in {WaitingForInput, Success}
           /\ \A r \in Req : IF r \in N THEN d_meta'[r] # 0 ELSE row'[r] = row[r] /\ d_meta'[r] = d_meta[r]
           /\ \A k \in Rank : to_prefill'[k] = to_prefill[k] \o init
           /\ Distinct(init) /\ ToSet(init) = {InitMessage(r) : r \in N}
           /\ InDecode' = InDecode
           /\ UNCHANGED <<config, alive, p_status, to_decode, d_arrived, first_token,
                          prefillVars, threadVars, connVars, memVars>>
<1> DEFINE queued  == ToSet(prealloc_queue)
           polled  == IF queued \subseteq waiting_for_input THEN {} ELSE queued
           poll(r) == AllReduce(d_status, d_conclude, r)
           lost    == {r \in polled : poll(r) = Failed}
           waiters == waiting_for_input \cup {r \in polled : poll(r) = WaitingForInput}
           cand    == Queued(prealloc_queue, waiters \ lost)
           fits(i) == /\ i <= free_rows /\ i <= Len(d_free)
                      /\ PromptPages(cand, i) + Reserved * i <= AllocatableTokens
           fitting == {i \in 0..Len(cand) : i = 0 \/ fits(i)}
           n       == Max(fitting)
           taken   == Firsts(cand, n)
           pages   == SetToSeq(free_pages)
           rows    == [i \in 1..n |-> SubSeq(pages, PromptPages(cand, i - 1) + 1, PromptPages(cand, i))]
           N       == ToSet(taken)
           init    == [i \in 1..Len(taken) |-> [type |-> "init", room |-> taken[i]]]
<1>1. /\ prealloc_queue' = Without(prealloc_queue, N \cup lost)
      /\ waiting_for_input' = waiters
      /\ transfer_q' = transfer_q \o taken
      /\ row' = Given(row, taken, rows)
      /\ d_meta' = Given(d_meta, taken, d_free)
      /\ to_prefill' = [k \in Rank |-> to_prefill[k] \o init]
      /\ d_conclude' = Concluded(d_status, d_conclude, polled, lost)
      /\ d_status' = Cleared(d_status, lost)
      /\ d_done' = [r \in Req |-> IF r \in lost THEN "failed" ELSE d_done[r]]
      /\ UNCHANGED <<config, alive, p_status, to_decode, d_arrived, d_waiting, last_batch,
                     running_batch, first_token, prefillVars, threadVars, connVars, memVars>>
  BY DEF PopPreallocated
<1>2. /\ prealloc_queue \in Seq(Req) /\ Distinct(prealloc_queue)
      /\ transfer_q \in Seq(Req) /\ Distinct(transfer_q) /\ running_batch \in SUBSET Req
      /\ d_status \in [Rank -> [Req -> StatusValue]] /\ d_conclude \in [Rank -> [Req -> FinalValue]]
  BY DEF DecodeMemory, DecodeTypes
<1>3. queued \in SUBSET Req
  BY <1>2, ToSetIn
<1>4. polled \in SUBSET queued /\ lost \in SUBSET queued
  OBVIOUS
<1>5. cand \in Seq(Req) /\ Distinct(cand) /\ ToSet(cand) = queued \cap (waiters \ lost)
  BY <1>2, QueuedDistinct
<1>6. n \in 0..Len(cand)
  <2>1. fitting \subseteq 0..Len(cand) /\ 0 \in fitting /\ Len(cand) \in Nat
    BY <1>5
  <2>2. Max(fitting) \in fitting
    <3> HIDE DEF fitting, cand
    <3>1. PICK l \in Nat : l = Len(cand)
      BY <2>1
    <3>2. fitting \subseteq 0..l
      BY <2>1, <3>1
    <3> QED BY <2>1, <3>2, GreatestIn
  <2> HIDE DEF fitting
  <2> QED BY <2>1, <2>2
<1>7. \A r \in waiters : r \notin waiting_for_input =>
        r \in queued /\ \A k \in Rank : Poll(d_status, d_conclude, k, r) \in {WaitingForInput, Success}
  <2> SUFFICES ASSUME NEW r \in polled, poll(r) = WaitingForInput
               PROVE  r \in queued /\ \A k \in Rank : Poll(d_status, d_conclude, k, r) \in {WaitingForInput, Success}
    OBVIOUS
  <2>1. r \in Req
    BY <1>3
  <2> HIDE DEF polled
  <2> QED BY <1>2, <1>4, <2>1, PollMeaning
<1>8. waiting_for_input \subseteq waiters
  OBVIOUS
<1> HIDE DEF polled, poll, lost, waiters, cand, fitting, n
<1>9. taken \in Seq(Req) /\ Distinct(taken)
  BY <1>5, <1>6, FirstsResult
<1>10. N \subseteq queued \ lost /\ N \subseteq waiters
  <2>1. N \subseteq ToSet(cand)
    BY <1>5, <1>6, FirstsRest
  <2> QED BY <1>5, <2>1
<1>11. /\ N \cap ToSet(transfer_q) = {} /\ queued \cap running_batch = {}
  BY <1>10 DEF DecodeMemory, DecodePlaces, Holders
<1> HIDE DEF taken, rows
<1>12. ToSet(prealloc_queue') = queued \ (N \cup lost)
  <2>1. PICK D : D = N \cup lost
    OBVIOUS
  <2>2. ToSet(Without(prealloc_queue, D)) = ToSet(prealloc_queue) \ D
    BY <1>2, WithoutDistinct
  <2> QED BY <1>1, <2>1, <2>2
<1>13. ToSet(transfer_q') = ToSet(transfer_q) \cup N
  <2>1. ToSet(transfer_q) \cap ToSet(taken) = {}
    BY <1>11
  <2>2. ToSet(transfer_q \o taken) = ToSet(transfer_q) \cup ToSet(taken)
    BY <1>2, <1>9, <2>1, ConcatDistinct
  <2> QED BY <1>1, <2>2
<1>14. ASSUME NEW r \in Req
       PROVE  IF r \in N THEN d_meta'[r] # 0 ELSE row'[r] = row[r] /\ d_meta'[r] = d_meta[r]
  <2>1. r \notin N => row'[r] = row[r] /\ d_meta'[r] = d_meta[r]
    BY <1>1 DEF Given
  <2>2. ASSUME r \in N PROVE d_meta'[r] # 0
    <3>1. r \in ToSet(transfer_q')
      BY <1>13, <2>2
    <3>2. d_meta'[r] \in DBuffer
      BY <3>1 DEF DecodeMemory, Split, DBuffer
    <3> QED BY <3>2, ConstantFacts DEF DBuffer
  <2> QED BY <2>1, <2>2
<1>15. Concludes(d_status, d_conclude, d_status', d_conclude', polled, lost)
  BY <1>1, ConcludesResult
<1>16. InDecode' = InDecode
  <2>1. \A r \in running_batch : d_done'[r] = d_done[r]
    BY <1>1, <1>2, <1>4, <1>11
  <2> QED BY <1>1, <2>1 DEF InDecode
<1>17. init \in Seq(ToPrefill) /\ Distinct(init) /\ ToSet(init) = {InitMessage(r) : r \in N}
  <2>1. Len(taken) \in Nat /\ \A i \in 1..Len(taken) : taken[i] \in Req
    BY <1>9
  <2>2. \A i \in 1..Len(taken) : init[i] = InitMessage(taken[i])
    BY DEF InitMessage
  <2>3. \A r \in Req : InitMessage(r) \in ToPrefill /\ InitMessage(r).room = r
    BY DEF ToPrefill, InitMessage
  <2>4. PICK g, l, M : g = init /\ l = Len(taken) /\ M = ToPrefill
    OBVIOUS
  <2>5. DOMAIN g = 1..l /\ g = [i \in 1..l |-> g[i]] /\ l \in Nat
    BY <2>1, <2>4
  <2>6. \A i \in 1..l : g[i] \in M /\ g[i] = InitMessage(taken[i]) /\ g[i].room = taken[i]
    BY <2>1, <2>2, <2>3, <2>4
  <2>7. g \in Seq(M)
    BY ONLY <2>5, <2>6
  <2>8. Len(g) = l
    BY ONLY <2>5, <2>7
  <2>9. Distinct(g)
    <3> SUFFICES ASSUME NEW i \in 1..l, NEW j \in 1..l, g[i] = g[j] PROVE i = j
      BY <2>8 DEF Distinct
    <3>1. taken[i] = taken[j]
      BY <2>6
    <3> QED BY <1>9, <2>4, <3>1 DEF Distinct
  <2>10. ToSet(g) = {g[i] : i \in 1..l} /\ N = {taken[i] : i \in 1..l}
    <3>1. ToSet(g) = {g[i] : i \in 1..Len(g)}
      BY <2>7, ToSetIs
    <3>2. N = {taken[i] : i \in 1..Len(taken)}
      BY <1>9, ToSetIs
    <3> QED BY <2>4, <2>8, <3>1, <3>2
  <2>11. ToSet(g) = {InitMessage(r) : r \in N}
    BY <2>6, <2>10
  <2> QED BY <2>4, <2>7, <2>9, <2>11
<1> HIDE DEF init
<1>18. \A k \in Rank : to_prefill'[k] = to_prefill[k] \o init
  BY <1>1
<1>19. N \in SUBSET queued
  BY <1>10
<1> HIDE DEF N
<1> USE <1>4, <1>17, <1>19
<1> WITNESS N \in SUBSET ToSet(prealloc_queue), lost \in SUBSET ToSet(prealloc_queue),
            polled \in SUBSET ToSet(prealloc_queue), init \in Seq(ToPrefill)
<1> QED BY <1>1, <1>7, <1>8, <1>10, <1>12, <1>13, <1>14, <1>15, <1>16, <1>18

---------------------------------------------------------------------------
(* Chunks                                                                  *)

(* The chunks of a rank are chunks. *)
LEMMA InTransferTypes ==
  ASSUME ThreadTypes, NEW k \in Rank
  PROVE  /\ transfer_queue[k] \in Seq(Chunk) /\ worker[k] \in Chunk \cup {NoChunk}
         /\ \A c \in InTransfer(k) : c \in Chunk /\ c.room \in Req /\ c.page \in Nat /\ c.page > 0
<1>1. transfer_queue[k] \in Seq(Chunk) /\ worker[k] \in Chunk \cup {NoChunk}
  BY DEF ThreadTypes
<1> QED BY <1>1, ChunkTypes DEF InTransfer

(* Steps that leave them alone. *)
LEMMA ChunksKept ==
  ASSUME ThreadTypes, Chunks, UNCHANGED <<config, transfer_queue, worker>>,
         \A r \in Req : sent'[r] = sent[r] /\ (p_meta[r] # 0 => p_meta'[r] # 0)
  PROVE  Chunks' /\ \A k \in Rank : InTransfer(k)' = InTransfer(k)
<1>1. Rank' = Rank /\ \A k \in Rank : InTransfer(k)' = InTransfer(k)
  BY DEF Rank, InTransfer
<1>2. ASSUME NEW k \in Rank, NEW c \in InTransfer(k) PROVE ChunkOK(c)'
  <2>1. ChunkOK(c) /\ c.room \in Req
    BY InTransferTypes DEF Chunks
  <2> QED BY <2>1 DEF ChunkOK
<1>3. \A k \in Rank : InOrder(transfer_queue[k], worker[k])
  BY DEF Chunks
<1> QED BY <1>1, <1>2, <1>3 DEF Chunks

(* A chunk goes to the transfer queues. *)
LEMMA PutEffect ==
  ASSUME PrefillMemory, ThreadTypes, Prefills, Chunks, PrefillChunk
  PROVE  /\ Chunks'
         /\ \E r \in Req, c \in Chunk, put \in SUBSET Rank :
              /\ r \in ToSet(p_waiting) /\ p_meta[r] # 0 /\ sent[r] < InputLen[r]
              /\ c.room = r /\ c.page = sent[r] + 1
              /\ \A q \in Req : sent'[q] = IF q = r THEN sent[r] + 1 ELSE sent[q]
              /\ \A k \in Rank : InTransfer(k)' = IF k \in put THEN InTransfer(k) \cup {c} ELSE InTransfer(k)
              /\ \A k \in Rank : k \notin put => p_status[k][r] = Failed
<1>1. PICK r \in Req, c \in Chunk, put \in SUBSET Rank :
           /\ r \in ToSet(p_waiting) /\ p_meta[r] \in PBuffer /\ p_meta[r] # 0 /\ sent[r] < InputLen[r]
           /\ c.room = r /\ c.page = sent[r] + 1 /\ (c.is_last <=> c.page = InputLen[r])
           /\ \A q \in Req : sent'[q] = IF q = r THEN sent[r] + 1 ELSE sent[q]
           /\ \A k \in Rank : transfer_queue'[k] =
                IF k \in put THEN Append(transfer_queue[k], c) ELSE transfer_queue[k]
           /\ \A k \in Rank : k \notin put => p_status[k][r] = Failed
           /\ UNCHANGED <<config, p_meta, worker>>
  BY PrefillChunkEffect
<1>2. Rank' = Rank /\ sent \in [Req -> Nat]
  BY <1>1 DEF Rank, PrefillMemory, PrefillTypes
<1>3. ASSUME NEW k \in Rank
      PROVE  /\ InTransfer(k)' = IF k \in put THEN InTransfer(k) \cup {c} ELSE InTransfer(k)
             /\ InOrder(transfer_queue'[k], worker'[k])
  <2>1. PICK q, w : q = transfer_queue[k] /\ w = worker[k]
    OBVIOUS
  <2>2. q \in Seq(Chunk) /\ w \in Chunk \cup {NoChunk} /\ InOrder(q, w) /\ ChunksOf(q, w) = InTransfer(k)
    BY <2>1, InTransferTypes DEF Chunks, InTransfer
  <2>3. CASE k \in put
    <3>1. \A d \in ChunksOf(q, w) : d.room = c.room => d.page < c.page
      <4> TAKE d \in ChunksOf(q, w)
      <4>1. d.page <= sent[d.room] /\ d.page \in Nat
        BY <2>2, InTransferTypes DEF Chunks, ChunkOK
      <4> QED BY <1>1, <1>2, <4>1
    <3>2. InOrder(Append(q, c), w) /\ ChunksOf(Append(q, c), w) = ChunksOf(q, w) \cup {c}
      BY <2>2, <3>1, PutInOrder
    <3>3. transfer_queue'[k] = Append(q, c) /\ worker'[k] = w
      BY <1>1, <2>1, <2>3
    <3> QED BY <2>2, <2>3, <3>2, <3>3 DEF InTransfer
  <2>4. CASE k \notin put
    <3>1. transfer_queue'[k] = q /\ worker'[k] = w
      BY <1>1, <2>1, <2>4
    <3> QED BY <2>2, <2>4, <3>1 DEF InTransfer
  <2> QED BY <2>3, <2>4
<1>4. ASSUME NEW k \in Rank, NEW d \in InTransfer(k)' PROVE ChunkOK(d)'
  <2>1. CASE d = c
    <3>1. d.room = r /\ d.page = sent[r] + 1 /\ (d.is_last <=> d.page = InputLen[d.room])
      BY <1>1, <2>1
    <3>2. p_meta'[r] # 0 /\ sent'[r] = sent[r] + 1 /\ sent[r] \in Nat
      BY <1>1, <1>2
    <3>3. d.page <= sent'[r]
      BY <3>1, <3>2
    <3> QED BY <3>1, <3>2, <3>3 DEF ChunkOK
  <2>2. CASE d # c
    <3>1. d \in InTransfer(k)
      BY <1>3, <2>2
    <3>2. ChunkOK(d) /\ d.room \in Req /\ d.page \in Nat
      BY <3>1, InTransferTypes DEF Chunks
    <3>3. sent[d.room] \in Nat /\ sent'[d.room] \in {sent[d.room], sent[d.room] + 1}
      BY <1>1, <1>2, <3>2
    <3>4. d.page <= sent'[d.room]
      BY <3>2, <3>3 DEF ChunkOK
    <3> QED BY <1>1, <3>2, <3>4 DEF ChunkOK
  <2> QED BY <2>1, <2>2
<1>5. Chunks'
  BY <1>2, <1>3, <1>4 DEF Chunks
<1> QED BY <1>1, <1>3, <1>5

(* A worker takes a chunk: it is still to be transferred. *)
LEMMA TransferStartChunks ==
  ASSUME ThreadTypes, Chunks, NEW k \in Rank, TransferStart(k)
  PROVE  Chunks' /\ \A x \in Rank : InTransfer(x)' = InTransfer(x)
<1>1. /\ worker[k] = NoChunk /\ transfer_queue[k] # Empty
      /\ worker' = [worker EXCEPT ![k] = Head(transfer_queue[k])]
      /\ transfer_queue' = [transfer_queue EXCEPT ![k] = Tail(@)]
      /\ UNCHANGED <<config, sent, p_meta>>
  BY DEF TransferStart, prefillVars
<1>2. Rank' = Rank /\ DOMAIN worker = Rank /\ DOMAIN transfer_queue = Rank
  BY <1>1 DEF Rank, ThreadTypes
<1>3. ASSUME NEW x \in Rank PROVE InTransfer(x)' = InTransfer(x) /\ InOrder(transfer_queue'[x], worker'[x])
  <2>1. PICK q, w : q = transfer_queue[x] /\ w = worker[x]
    OBVIOUS
  <2>2. q \in Seq(Chunk) /\ w \in Chunk \cup {NoChunk} /\ InOrder(q, w) /\ ChunksOf(q, w) = InTransfer(x)
    BY <2>1, InTransferTypes DEF Chunks, InTransfer
  <2>3. CASE x = k
    <3>1. w = NoChunk /\ q # << >>
      BY <1>1, <2>1, <2>3 DEF Empty
    <3>2. InOrder(Tail(q), Head(q)) /\ ChunksOf(Tail(q), Head(q)) = ChunksOf(q, NoChunk)
      BY <2>2, <3>1, StartInOrder
    <3>3. transfer_queue'[x] = Tail(q) /\ worker'[x] = Head(q)
      BY <1>1, <1>2, <2>1, <2>3
    <3> QED BY <2>2, <3>1, <3>2, <3>3 DEF InTransfer
  <2>4. CASE x # k
    <3>1. transfer_queue'[x] = q /\ worker'[x] = w
      BY <1>1, <1>2, <2>1, <2>4
    <3> QED BY <2>2, <3>1 DEF InTransfer
  <2> QED BY <2>3, <2>4
<1>4. \A c : ChunkOK(c) => ChunkOK(c)'
  BY <1>1 DEF ChunkOK
<1> QED BY <1>2, <1>3, <1>4 DEF Chunks

(* The kv cache of page p of r is written on rank k. *)
Writes(k, r, p) == kv' = [kv EXCEPT ![k][row[r][p]] = <<r, p>>]
Tells(k, r, status) == ToSet(to_decode'[k]) = ToSet(to_decode[k]) \cup {[room |-> r, status |-> status]}

(* What the end of a transfer does: nothing, a failure, a chunk, or the    *)
(* last chunk and the first token.                                         *)
EndOutcome(k, c, r) ==
  \/ /\ r \notin transfer_infos[k] /\ UNCHANGED <<failed_sessions, kv, aux, to_decode>>
     /\ p_status'[k][r] = p_status[k][r]
  \/ /\ r \in transfer_infos[k] /\ aux' = aux /\ p_status'[k][r] = Failed /\ Tells(k, r, Failed)
     /\ k \in failed_sessions \/ "send" \in faults
     /\ \/ k \in failed_sessions' /\ kv' = kv
        \/ k \notin failed_sessions /\ UNCHANGED failed_sessions /\ c.is_last /\ Writes(k, r, c.page)
  \/ /\ r \in transfer_infos[k] /\ k \notin failed_sessions /\ UNCHANGED <<failed_sessions, aux, to_decode>>
     /\ ~c.is_last /\ Writes(k, r, c.page) /\ p_status'[k][r] = p_status[k][r]
     /\ p_status[k][r] = WaitingForInput => transfer_infos' = transfer_infos
  \/ /\ r \in transfer_infos[k] /\ k \notin failed_sessions /\ UNCHANGED failed_sessions
     /\ c.is_last /\ Writes(k, r, c.page) /\ p_status'[k][r] = Success /\ Tells(k, r, Success)
     /\ aux' = [aux EXCEPT ![k][d_meta[r]] = p_aux[p_meta[r]]]

(* A worker ends a chunk. *)
LEMMA TransferEndEffect ==
  ASSUME PrefillMemory, ThreadTypes, Chunks, NEW k \in Rank, NEW o \in {"ok", "kv", "aux"}, TransferEnd(k, o),
         NEW c, c = worker[k], NEW r, r = c.room
  PROVE  /\ Chunks' /\ c \in Chunk /\ c \in InTransfer(k) /\ r \in Req
         /\ InTransfer(k)' = InTransfer(k) \ {c}
         /\ \A d \in InTransfer(k)' : d.room = r => c.page < d.page
         /\ \A x \in Rank : x # k => /\ InTransfer(x)' = InTransfer(x) /\ to_decode'[x] = to_decode[x]
                                     /\ transfer_infos'[x] = transfer_infos[x]
                                     /\ x \in failed_sessions' <=> x \in failed_sessions
         /\ transfer_infos'[k] \subseteq transfer_infos[k]
         /\ \A q \in Req : q # r => (q \in transfer_infos'[k] <=> q \in transfer_infos[k])
         /\ failed_sessions \subseteq failed_sessions'
         /\ \A x \in Rank, q \in Req : x # k \/ q # r => p_status'[x][q] = p_status[x][q]
         /\ EndOutcome(k, c, r)
         /\ alive
         /\ UNCHANGED <<config, alive, to_prefill, d_status, prefillVars, decodeVars, connVars>>
<1> DEFINE known  == r \in transfer_infos[k]
           dead   == known /\ k \in failed_sessions
           kvfail == known /\ ~dead /\ o = "kv"
           writes == known /\ ~dead /\ ~kvfail
           final  == writes /\ c.is_last
           status == IF dead \/ kvfail \/ (final /\ o = "aux") THEN Failed
                     ELSE IF final THEN Success ELSE Absent
           new    == IF status = Absent THEN p_status[k][r] ELSE Updated(p_status[k][r], status)
<1>1. /\ alive /\ c # NoChunk
      /\ o # "ok" => "send" \in faults /\ known /\ ~dead /\ (o = "aux" => c.is_last)
      /\ worker' = [worker EXCEPT ![k] = NoChunk]
      /\ kv' = IF writes THEN [kv EXCEPT ![k][row[r][c.page]] = <<r, c.page>>] ELSE kv
      /\ aux' = IF final /\ o = "ok" THEN [aux EXCEPT ![k][d_meta[r]] = p_aux[p_meta[r]]] ELSE aux
      /\ failed_sessions' = IF kvfail THEN failed_sessions \cup {k} ELSE failed_sessions
      /\ p_status' = [p_status EXCEPT ![k][r] = new]
      /\ to_decode' = IF status = Absent THEN to_decode ELSE SyncStatus(k, r, status)
      /\ transfer_infos' = IF new \in {Absent, Success}
                           THEN [transfer_infos EXCEPT ![k] = @ \ {r}] ELSE transfer_infos
      /\ UNCHANGED <<config, alive, transfer_queue, to_prefill, d_status, prefillVars, decodeVars, connVars>>
  BY DEF TransferEnd
<1>2. /\ Rank' = Rank /\ DOMAIN worker = Rank /\ p_status \in [Rank -> [Req -> StatusValue]]
      /\ transfer_infos \in [Rank -> SUBSET Req] /\ to_decode \in [Rank -> Seq(ToDecode)]
  BY <1>1 DEF Rank, ThreadTypes, PrefillMemory, PrefillTypes
<1>3. c \in Chunk /\ c \in InTransfer(k) /\ r \in Req
  <2>1. c \in Chunk
    BY <1>1, InTransferTypes
  <2> QED BY <1>1, <2>1 DEF InTransfer, ChunksOf, Chunk
<1>4. /\ InTransfer(k)' = InTransfer(k) \ {c} /\ InOrder(transfer_queue'[k], worker'[k])
      /\ \A d \in InTransfer(k)' : d.room = r => c.page < d.page
  <2>1. PICK q : q = transfer_queue[k]
    OBVIOUS
  <2>2. q \in Seq(Chunk) /\ InOrder(q, c) /\ ChunksOf(q, c) = InTransfer(k)
    BY <2>1, InTransferTypes DEF Chunks, InTransfer
  <2>3. /\ InOrder(q, NoChunk) /\ ChunksOf(q, NoChunk) = ChunksOf(q, c) \ {c}
        /\ \A d \in ChunksOf(q, NoChunk) : d.room = c.room => c.page < d.page
    BY <1>3, <2>2, EndInOrder
  <2>4. transfer_queue'[k] = q /\ worker'[k] = NoChunk
    BY <1>1, <1>2, <2>1
  <2> QED BY <2>2, <2>3, <2>4 DEF InTransfer
<1>5. ASSUME NEW x \in Rank, x # k PROVE InTransfer(x)' = InTransfer(x) /\ InOrder(transfer_queue'[x], worker'[x])
  <2>1. transfer_queue'[x] = transfer_queue[x] /\ worker'[x] = worker[x]
    BY <1>1, <1>2, <1>5
  <2> QED BY <2>1 DEF InTransfer, Chunks
<1>6. Chunks'
  <2>1. \A d : ChunkOK(d) => ChunkOK(d)'
    BY <1>1 DEF ChunkOK, prefillVars
  <2>2. \A x \in Rank : \A d \in InTransfer(x)' : ChunkOK(d)
    BY <1>4, <1>5 DEF Chunks
  <2> QED BY <1>2, <1>4, <1>5, <2>1, <2>2 DEF Chunks
<1>7. /\ \A x \in Rank, q \in Req : x # k \/ q # r => p_status'[x][q] = p_status[x][q]
      /\ p_status'[k][r] = new
  <2> HIDE DEF new
  <2> QED BY <1>1, <1>2, <1>3
<1>8. /\ transfer_infos'[k] \subseteq transfer_infos[k]
      /\ \A q \in Req : q # r => (q \in transfer_infos'[k] <=> q \in transfer_infos[k])
      /\ \A x \in Rank : x # k => transfer_infos'[x] = transfer_infos[x]
      /\ new \notin {Absent, Success} => transfer_infos' = transfer_infos
  <2> HIDE DEF new
  <2>1. PICK T : T = transfer_infos[k] \ {r}
    OBVIOUS
  <2>2. transfer_infos' = transfer_infos \/ transfer_infos' = [transfer_infos EXCEPT ![k] = T]
    BY <1>1, <2>1
  <2> QED BY <1>1, <1>2, <2>1, <2>2
<1>9. /\ \A x \in Rank : x # k => to_decode'[x] = to_decode[x]
      /\ status = Absent => to_decode' = to_decode
      /\ status # Absent => Tells(k, r, status)
  <2> HIDE DEF status
  <2>1. PICK m : m = [room |-> r, status |-> status]
    OBVIOUS
  <2>2. status # Absent => to_decode' = [to_decode EXCEPT ![k] = Append(to_decode[k], m)]
    BY <1>1, <2>1 DEF SyncStatus
  <2>3. ASSUME status # Absent PROVE Tells(k, r, status)
    <3>1. PICK q, s : q = to_decode[k] /\ s = Append(q, m)
      OBVIOUS
    <3>2. q \in Seq(ToDecode)
      BY <1>2, <3>1
    <3>3. to_decode'[k] = s
      BY <1>2, <2>2, <2>3, <3>1
    <3>4. Len(s) = Len(q) + 1 /\ Len(q) \in Nat /\ (\A i \in 1..Len(q) : s[i] = q[i]) /\ s[Len(q) + 1] = m
          /\ DOMAIN s = 1..(Len(q) + 1) /\ DOMAIN q = 1..Len(q)
      BY <3>1, <3>2
    <3>5. ToSet(s) = ToSet(q) \cup {m}
      BY <3>4 DEF ToSet
    <3> QED BY <2>1, <3>1, <3>3, <3>5 DEF Tells
  <2> QED BY <1>1, <1>2, <2>2, <2>3
<1>10. /\ p_status[k][r] \in StatusValue
       /\ status = Failed => new = Failed
       /\ status = Success => new = Success
       /\ status = Absent => new = p_status[k][r]
  <2>1. p_status[k][r] \in StatusValue
    BY <1>2, <1>3
  <2> HIDE DEF status
  <2> QED BY <2>1 DEF Updated, StatusValue, Absent, Failed, Bootstrapping, WaitingForInput, Success
<1>11. /\ failed_sessions \subseteq failed_sessions'
       /\ \A x \in Rank : x # k => (x \in failed_sessions' <=> x \in failed_sessions)
  BY <1>1
<1>12. EndOutcome(k, c, r)
  <2>0. Failed # Absent /\ Success # Absent /\ WaitingForInput \notin {Absent, Success}
    BY DEF Failed, Absent, Success, WaitingForInput
  <2>1. CASE ~known
    <3>1. status = Absent
      BY <2>1
    <3> HIDE DEF status, new
    <3> QED BY <1>1, <1>7, <1>9, <1>10, <2>1, <3>1 DEF EndOutcome
  <2>2. CASE dead
    <3>1. status = Failed /\ ~writes /\ ~kvfail
      BY <2>2
    <3>2. kv' = kv /\ aux' = aux /\ failed_sessions' = failed_sessions
      BY <1>1, <3>1
    <3>3. p_status'[k][r] = Failed /\ Tells(k, r, Failed)
      <4> HIDE DEF status, new
      <4> QED BY <1>7, <1>9, <1>10, <2>0, <3>1
    <3> QED BY <2>2, <3>2, <3>3 DEF EndOutcome
  <2>3. CASE kvfail
    <3>1. status = Failed /\ ~writes /\ o # "ok"
      BY <2>3
    <3>2. kv' = kv /\ aux' = aux /\ failed_sessions' = failed_sessions \cup {k} /\ "send" \in faults
      BY <1>1, <2>3, <3>1
    <3>3. p_status'[k][r] = Failed /\ Tells(k, r, Failed)
      <4> HIDE DEF status, new
      <4> QED BY <1>7, <1>9, <1>10, <2>0, <3>1
    <3> QED BY <2>3, <3>2, <3>3 DEF EndOutcome
  <2>4. CASE writes
    <3>1. known /\ ~dead /\ ~kvfail /\ k \notin failed_sessions /\ o # "kv"
      BY <2>4
    <3>2. Writes(k, r, c.page) /\ failed_sessions' = failed_sessions
      BY <1>1, <2>4, <3>1 DEF Writes
    <3>3. CASE ~c.is_last
      <4>1. status = Absent /\ o = "ok" /\ aux' = aux
        BY <1>1, <2>4, <3>1, <3>3
      <4>2. to_decode' = to_decode /\ new = p_status[k][r] /\ p_status'[k][r] = p_status[k][r]
        <5> HIDE DEF status, new
        <5> QED BY <1>7, <1>9, <1>10, <4>1
      <4>3. p_status[k][r] = WaitingForInput => transfer_infos' = transfer_infos
        <5> HIDE DEF status, new
        <5> QED BY <1>8, <2>0, <4>2
      <4> QED BY <3>1, <3>2, <3>3, <4>1, <4>2, <4>3 DEF EndOutcome
    <3>4. CASE c.is_last /\ o = "aux"
      <4>1. status = Failed /\ aux' = aux /\ "send" \in faults
        BY <1>1, <2>4, <3>1, <3>4
      <4>2. p_status'[k][r] = Failed /\ Tells(k, r, Failed)
        <5> HIDE DEF status, new
        <5> QED BY <1>7, <1>9, <1>10, <2>0, <4>1
      <4> QED BY <3>1, <3>2, <3>4, <4>1, <4>2 DEF EndOutcome
    <3>5. CASE c.is_last /\ o = "ok"
      <4>1. status = Success /\ aux' = [aux EXCEPT ![k][d_meta[r]] = p_aux[p_meta[r]]]
        BY <1>1, <2>4, <3>1, <3>5
      <4>2. p_status'[k][r] = Success /\ Tells(k, r, Success)
        <5> HIDE DEF status, new
        <5> QED BY <1>7, <1>9, <1>10, <2>0, <4>1
      <4> QED BY <3>1, <3>2, <3>5, <4>1, <4>2 DEF EndOutcome
    <3> QED BY <3>1, <3>3, <3>4, <3>5
  <2> QED BY <2>1, <2>2, <2>3, <2>4
<1> HIDE DEF status, new, known, dead, kvfail, writes, final
<1> QED BY <1>1, <1>3, <1>4, <1>5, <1>6, <1>7, <1>8, <1>9, <1>11, <1>12

---------------------------------------------------------------------------
(* Steps that leave a part of the invariant alone                          *)

(* the variables that each part is about *)
prefillPart  == <<config, p_arrived, bootstrap_queue, p_meta, sent, p_waiting, inflight_queue, p_aux, pending>>
offerPart    == <<config, p_meta, p_status, p_conclude, transfer_infos, to_prefill, d_meta>>
receiverPart == <<config, alive, d_arrived, prealloc_queue, d_meta, d_status, d_conclude, waiting_for_input,
                  connected>>
messagePart  == <<config, alive, connected, to_prefill, transfer_infos, failed_sessions>>
failurePart  == <<config, alive, p_status, p_conclude, to_decode, d_meta, d_status, d_conclude>>

(* They keep it. *)
LEMMA PrefillsKept == ASSUME Prefills, UNCHANGED prefillPart PROVE Prefills'
BY DEF Prefills, PrefillOf, prefillPart, Rank

(* They keep it. *)
LEMMA OffersKept == ASSUME Offers, UNCHANGED offerPart PROVE Offers'
BY DEF Offers, OfferOf, offerPart, Rank, InitMessage

(* They keep it. *)
LEMMA ReceiversKept == ASSUME Receivers, UNCHANGED receiverPart PROVE Receivers'
BY DEF Receivers, ReceiverOf, receiverPart, Rank

(* They keep it. *)
LEMMA MessagesKept == ASSUME Messages, UNCHANGED messagePart PROVE Messages'
BY DEF Messages, MessagesOf, messagePart, Rank

(* What rank k has still to transfer of r is the same. *)
LEMMA SettledKept ==
  ASSUME NEW k, NEW r, sent'[r] = sent[r], InTransfer(k)' = InTransfer(k)
  PROVE  Settled(k, r)' <=> Settled(k, r)
BY DEF Settled

(* Nobody learns of a failure or a success. *)
LEMMA FailuresFrom ==
  ASSUME Failures, UNCHANGED <<config, failed_sessions>>,
         \A k \in Rank, r \in Req : /\ FailedAt(k, r)' => FailedAt(k, r)
                                    /\ SuccessAt(k, r)' => SuccessAt(k, r)
                                    /\ FailedAt(k, r) \/ SuccessAt(k, r) =>
                                         (p_meta[r] # 0 => p_meta'[r] # 0) /\ (Settled(k, r) => Settled(k, r)')
  PROVE  Failures'
<1>1. Rank' = Rank /\ faults' = faults
  BY DEF Rank, faults
<1>2. ASSUME NEW k \in Rank, NEW r \in Req PROVE FailureOf(k, r)'
  <2>1. FailureOf(k, r)
    BY DEF Failures
  <2> QED BY <1>1, <2>1 DEF FailureOf
<1>3. failed_sessions # {} => "send" \in faults
  BY DEF Failures
<1> QED BY <1>1, <1>2, <1>3 DEF Failures

(* They keep it. *)
LEMMA FailuresKept ==
  ASSUME Failures, UNCHANGED <<failurePart, failed_sessions, sent, p_meta>>,
         \A k \in Rank : InTransfer(k)' = InTransfer(k)
  PROVE  Failures'
<1>1. \A k \in Rank, r \in Req : (Settled(k, r)' <=> Settled(k, r))
  BY SettledKept
<1>2. \A k \in Rank, r \in Req : (FailedAt(k, r)' <=> FailedAt(k, r)) /\ (SuccessAt(k, r)' <=> SuccessAt(k, r))
  BY DEF FailedAt, SuccessAt, Told, failurePart
<1> QED BY <1>1, <1>2, FailuresFrom DEF failurePart

(* They keep it. *)
LEMMA OpenKept ==
  ASSUME Open, UNCHANGED <<config, alive, failed_sessions, p_meta, p_status, p_conclude, transfer_infos, transfer_q,
                           p_waiting, inflight_queue, d_meta, sent>>,
         \A k \in Rank : InTransfer(k)' = InTransfer(k)
  PROVE  Open'
<1>1. Rank' = Rank /\ PHeld' = PHeld
  BY DEF Rank, PHeld
<1>2. \A k \in Rank, r \in Req : (Settled(k, r)' <=> Settled(k, r))
  BY SettledKept
<1>3. ASSUME NEW k \in Rank, NEW r \in Req PROVE OpenOf(k, r)'
  <2>1. OpenOf(k, r)
    BY DEF Open
  <2> QED BY <1>1, <1>2, <2>1 DEF OpenOf
<1> QED BY <1>1, <1>3 DEF Open

(* They keep it. *)
LEMMA IntactKept ==
  ASSUME Intact, UNCHANGED <<config, first_token, row, kv>>, InDecode' \subseteq InDecode
  PROVE  Intact'
BY DEF Intact, Rank

---------------------------------------------------------------------------
(* The protocol: the prefill server's scheduler                            *)

protocolVars == <<prefillPart, offerPart, receiverPart, messagePart, failurePart, transfer_queue, worker>>

(* Steps that change nothing of the protocol. *)
LEMMA QuietProtocol ==
  ASSUME Memory, Protocol, UNCHANGED protocolVars
  PROVE  Protocol' /\ \A k \in Rank : InTransfer(k)' = InTransfer(k)
<1> USE DEF Protocol, Memory
<1>1. UNCHANGED <<config, transfer_queue, worker, sent, p_meta, failed_sessions>>
  BY DEF protocolVars, prefillPart, offerPart, messagePart
<1>2. Chunks' /\ \A k \in Rank : InTransfer(k)' = InTransfer(k)
  BY <1>1, ChunksKept
<1>3. Prefills' /\ Offers' /\ Receivers' /\ Messages'
  BY PrefillsKept, OffersKept, ReceiversKept, MessagesKept DEF protocolVars
<1>4. Failures'
  BY <1>1, <1>2, FailuresKept DEF protocolVars
<1> QED BY <1>2, <1>3, <1>4

(* A request comes to the prefill server. *)
LEMMA ArrivePrefillProtocol ==
  ASSUME Memory, Protocol, NEW r \in Req, ArrivePrefill(r)
  PROVE  Protocol' /\ \A k \in Rank : InTransfer(k)' = InTransfer(k)
<1> USE DEF Protocol, Memory
<1>1. /\ r \notin p_arrived /\ p_arrived' = p_arrived \cup {r} /\ bootstrap_queue' = Append(bootstrap_queue, r)
      /\ p_status' = [k \in Rank |-> [p_status[k] EXCEPT ![r] = Updated(@, Bootstrapping)]]
      /\ UNCHANGED <<config, alive, p_waiting, sent, inflight_queue, pending, p_meta, p_aux, p_conclude, to_prefill,
                     to_decode, d_status, threadVars, decodeVars, connVars>>
  BY DEF ArrivePrefill
<1>2. Rank' = Rank
  BY <1>1 DEF Rank
<1>3. Chunks' /\ \A k \in Rank : InTransfer(k)' = InTransfer(k)
  BY <1>1, ChunksKept DEF threadVars
<1>4. p_meta[r] = 0
  BY <1>1 DEF Prefills, PrefillOf
<1>5. ToSet(bootstrap_queue') = ToSet(bootstrap_queue) \cup {r}
  <2>1. bootstrap_queue \in Seq(Req) /\ Distinct(bootstrap_queue) /\ r \notin ToSet(bootstrap_queue)
    BY <1>1 DEF PrefillMemory, PrefillTypes, PrefillPlaces
  <2> QED BY <1>1, <2>1, AppendDistinct
<1>6. Prefills'
  BY <1>1, <1>2, <1>4, <1>5 DEF Prefills, PrefillOf
<1>7. ASSUME NEW k \in Rank, NEW q \in Req
      PROVE  /\ q # r => p_status'[k][q] = p_status[k][q]
             /\ p_status'[k][r] \in {Bootstrapping, WaitingForInput}
             /\ p_status'[k][r] = WaitingForInput <=> p_status[k][r] = WaitingForInput
  <2>1. p_status[k] \in [Req -> StatusValue]
    BY DEF PrefillMemory, PrefillTypes
  <2>2. PICK v : v = Updated(p_status[k][r], Bootstrapping)
    OBVIOUS
  <2>3. p_status'[k] = [p_status[k] EXCEPT ![r] = v]
    BY <1>1, <2>2
  <2>4. p_status[k][r] \in {Absent, Bootstrapping, WaitingForInput}
    BY <1>4 DEF Offers, OfferOf
  <2>5. v \in {Bootstrapping, WaitingForInput} /\ (v = WaitingForInput <=> p_status[k][r] = WaitingForInput)
    BY <2>2, <2>4 DEF Updated, Absent, Bootstrapping, WaitingForInput, Failed
  <2> QED BY <2>1, <2>3, <2>5
<1>8. Offers'
  <2> SUFFICES ASSUME NEW k \in Rank, NEW q \in Req PROVE OfferOf(k, q)'
    BY <1>2 DEF Offers
  <2>1. OfferOf(k, q)
    BY DEF Offers
  <2>2. CASE q = r
    BY <1>1, <1>4, <1>7, <2>1, <2>2 DEF OfferOf, threadVars, decodeVars, InitMessage
  <2>3. CASE q # r
    BY <1>1, <1>7, <2>1, <2>3 DEF OfferOf, threadVars, decodeVars, InitMessage
  <2> QED BY <2>2, <2>3
<1>9. Receivers' /\ Messages'
  BY <1>1, ReceiversKept, MessagesKept DEF receiverPart, messagePart, threadVars, decodeVars, connVars
<1>10. Failures'
  <2>1. ASSUME NEW k \in Rank, NEW q \in Req
        PROVE  /\ p_status'[k][q] = Failed => p_status[k][q] = Failed
               /\ p_status'[k][q] = Success => p_status[k][q] = Success
    BY <1>7 DEF Failed, Success, Bootstrapping, WaitingForInput
  <2>2. ASSUME NEW k \in Rank, NEW q \in Req
        PROVE  (FailedAt(k, q)' => FailedAt(k, q)) /\ (SuccessAt(k, q)' => SuccessAt(k, q))
    BY <1>1, <2>1 DEF FailedAt, SuccessAt, Told, decodeVars
  <2>3. \A k \in Rank, q \in Req : Settled(k, q)' <=> Settled(k, q)
    BY <1>1, <1>3, SettledKept
  <2> QED BY <1>1, <2>2, <2>3, FailuresFrom DEF threadVars
<1> QED BY <1>3, <1>6, <1>8, <1>9, <1>10

(* pop_bootstrapped *)
LEMMA BootstrapProtocol ==
  ASSUME Memory, Memory', Protocol, Bootstrap
  PROVE  Protocol' /\ \A k \in Rank : InTransfer(k)' = InTransfer(k)
<1> USE DEF Protocol, Memory
<1>1. PICK S \in SUBSET ToSet(bootstrap_queue) :
           /\ \A k \in Rank, r \in Req : p_status'[k][r] = p_status[k][r] /\ p_conclude'[k][r] = p_conclude[k][r]
           /\ \A r \in Req : IF r \in S THEN p_meta[r] = 0 /\ p_meta'[r] # 0 ELSE p_meta'[r] = p_meta[r]
           /\ \A k \in Rank, r \in S : p_status[k][r] = WaitingForInput
           /\ ToSet(bootstrap_queue') = ToSet(bootstrap_queue) \ S
           /\ ToSet(p_waiting') = ToSet(p_waiting) \cup S
           /\ pending = {}
           /\ UNCHANGED <<config, alive, p_arrived, sent, inflight_queue, pending, p_aux, to_prefill,
                          to_decode, d_status, threadVars, decodeVars, connVars, memVars>>
  BY BootstrapEffect
<1>2. Rank' = Rank
  BY <1>1 DEF Rank
<1>3. Chunks' /\ \A k \in Rank : InTransfer(k)' = InTransfer(k)
  BY <1>1, ChunksKept DEF threadVars
<1>4. Prefills'
  <2> SUFFICES ASSUME NEW r \in Req PROVE PrefillOf(r)'
    BY DEF Prefills
  <2>1. PrefillOf(r)
    BY DEF Prefills
  <2>2. CASE r \in S
    <3>1. r \in p_arrived /\ r \notin ToSet(inflight_queue) /\ r \notin ToSet(bootstrap_queue')
      BY <1>1, <2>2 DEF PrefillMemory, PrefillPlaces
    <3>2. sent[r] = 0 /\ InputLen[r] \in Nat /\ 0 < InputLen[r]
      BY <1>1, <2>1, <2>2, ConstantFacts DEF PrefillOf
    <3> QED BY <1>1, <1>2, <2>2, <3>1, <3>2 DEF PrefillOf
  <2>3. CASE r \notin S
    BY <1>1, <1>2, <2>1, <2>3 DEF PrefillOf
  <2> QED BY <2>2, <2>3
<1>5. Offers'
  <2> SUFFICES ASSUME NEW k \in Rank, NEW r \in Req PROVE OfferOf(k, r)'
    BY <1>2 DEF Offers
  <2>1. OfferOf(k, r) /\ UNCHANGED <<transfer_infos, to_prefill, d_meta>>
    BY <1>1 DEF Offers, threadVars, decodeVars
  <2>2. CASE r \in S
    <3>1. r \in transfer_infos[k] /\ d_meta[r] # 0 /\ InitMessage(r) \notin ToSet(to_prefill[k]) /\ p_meta'[r] # 0
      BY <1>1, <2>1, <2>2 DEF OfferOf
    <3> QED BY <2>1, <3>1 DEF OfferOf, InitMessage
  <2>3. CASE r \notin S
    BY <1>1, <2>1, <2>3 DEF OfferOf, InitMessage
  <2> QED BY <2>2, <2>3
<1>6. Receivers' /\ Messages'
  BY <1>1, ReceiversKept, MessagesKept DEF receiverPart, messagePart, threadVars, decodeVars, connVars
<1>7. Failures'
  <2>1. ASSUME NEW k \in Rank, NEW q \in Req
        PROVE  (FailedAt(k, q)' => FailedAt(k, q)) /\ (SuccessAt(k, q)' => SuccessAt(k, q))
    BY <1>1 DEF FailedAt, SuccessAt, Told, decodeVars
  <2>2. \A k \in Rank, q \in Req : Settled(k, q)' <=> Settled(k, q)
    BY <1>1, <1>3, SettledKept
  <2>3. \A q \in Req : p_meta[q] # 0 => p_meta'[q] # 0
    BY <1>1
  <2> QED BY <1>1, <2>1, <2>2, <2>3, FailuresFrom DEF threadVars
<1> QED BY <1>3, <1>4, <1>5, <1>6, <1>7

(* The next chunk goes to the transfer queues. *)
LEMMA PrefillChunkPrefills ==
  ASSUME Memory, Protocol, PrefillChunk
  PROVE  Prefills'
<1> USE DEF Protocol, Memory
<1>1. PICK r \in Req, c \in Chunk, put \in SUBSET Rank :
           /\ r \in ToSet(p_waiting) /\ p_meta[r] \in PBuffer /\ p_meta[r] # 0 /\ sent[r] < InputLen[r]
           /\ c.room = r /\ c.page = sent[r] + 1 /\ (c.is_last <=> c.page = InputLen[r])
           /\ \A q \in Req : sent'[q] = IF q = r THEN sent[r] + 1 ELSE sent[q]
           /\ \A k \in Rank, q \in Req : <<k, q>> \in pending' => q = r
           /\ IF c.is_last
              THEN /\ ToSet(p_waiting') = ToSet(p_waiting) \ {r}
                   /\ ToSet(inflight_queue') = ToSet(inflight_queue) \cup {r}
                   /\ p_aux' = [p_aux EXCEPT ![p_meta[r]] = <<r, 1>>]
              ELSE UNCHANGED <<p_waiting, inflight_queue, p_aux>>
           /\ UNCHANGED <<config, p_arrived, bootstrap_queue, p_meta>>
  BY PrefillChunkEffect
<1>2. Rank' = Rank /\ sent \in [Req -> Nat] /\ DOMAIN p_aux = PBuffer
  BY <1>1 DEF Rank, PrefillMemory, PrefillTypes
<1> SUFFICES ASSUME NEW q \in Req PROVE PrefillOf(q)'
  BY DEF Prefills
<1>3. PrefillOf(q)
  BY DEF Prefills
<1>4. CASE q = r
  <2>1. r \in p_arrived /\ r \notin ToSet(bootstrap_queue) /\ r \notin ToSet(inflight_queue)
    BY <1>1 DEF PrefillMemory, PrefillPlaces
  <2>2. sent[r] \in Nat /\ InputLen[r] \in Nat /\ sent'[r] = sent[r] + 1 /\ sent'[r] <= InputLen[r]
    BY <1>1, <1>2, ConstantFacts
  <2>3. CASE c.is_last
    <3>1. sent'[r] = InputLen[r] /\ r \notin ToSet(p_waiting') /\ p_aux'[p_meta[r]] = <<r, 1>>
      BY <1>1, <1>2, <2>2, <2>3
    <3> QED BY <1>1, <1>4, <2>1, <2>2, <3>1 DEF PrefillOf
  <2>4. CASE ~c.is_last
    <3>1. sent'[r] < InputLen[r] /\ r \notin ToSet(inflight_queue')
      BY <1>1, <2>1, <2>2, <2>4
    <3> QED BY <1>1, <1>4, <2>1, <2>2, <3>1 DEF PrefillOf
  <2> QED BY <2>3, <2>4
<1>5. CASE q # r
  <2>1. sent'[q] = sent[q] /\ \A k \in Rank : <<k, q>> \notin pending'
    BY <1>1, <1>5
  <2>2. /\ q \in ToSet(p_waiting') => q \in ToSet(p_waiting)
        /\ q \in ToSet(inflight_queue') => q \in ToSet(inflight_queue)
    BY <1>1, <1>5
  <2>3. ASSUME q \in ToSet(inflight_queue) PROVE p_aux'[p_meta[q]] = p_aux[p_meta[q]]
    <3>1. p_meta[q] # p_meta[r] /\ p_meta[q] \in PBuffer
      BY <1>1, <1>5, <2>3 DEF PrefillMemory, Split, PHeld
    <3> QED BY <1>1, <1>2, <3>1
  <2> QED BY <1>1, <1>2, <1>3, <2>1, <2>2, <2>3 DEF PrefillOf
<1> QED BY <1>4, <1>5

(* The next chunk goes to the transfer queues. *)
LEMMA PrefillChunkProtocol ==
  ASSUME Memory, Protocol, PrefillChunk
  PROVE  Protocol'
<1> USE DEF Protocol, Memory
<1>1. PICK r \in Req, c \in Chunk, put \in SUBSET Rank :
              /\ r \in ToSet(p_waiting) /\ p_meta[r] # 0 /\ sent[r] < InputLen[r]
              /\ c.room = r /\ c.page = sent[r] + 1
              /\ \A q \in Req : sent'[q] = IF q = r THEN sent[r] + 1 ELSE sent[q]
              /\ \A k \in Rank : InTransfer(k)' = IF k \in put THEN InTransfer(k) \cup {c} ELSE InTransfer(k)
  BY PutEffect
<1>2. UNCHANGED <<config, alive, p_meta, p_status, p_conclude, transfer_infos, failed_sessions, to_prefill, to_decode,
                  d_status, decodeVars, connVars>>
  BY DEF PrefillChunk
<1>3. Chunks' /\ Prefills'
  BY PutEffect, PrefillChunkPrefills
<1>4. Offers' /\ Receivers' /\ Messages'
  BY <1>2, OffersKept, ReceiversKept, MessagesKept DEF offerPart, receiverPart, messagePart, decodeVars, connVars
<1>5. Failures'
  <2>1. ASSUME NEW k \in Rank, NEW q \in Req
        PROVE  (FailedAt(k, q)' <=> FailedAt(k, q)) /\ (SuccessAt(k, q)' <=> SuccessAt(k, q))
    BY <1>2 DEF FailedAt, SuccessAt, Told, decodeVars
  <2>2. ASSUME NEW k \in Rank, NEW q \in Req, Settled(k, q) PROVE Settled(k, q)'
    <3>1. sent[r] \in Nat /\ InputLen[r] \in Nat
      BY ConstantFacts DEF PrefillMemory, PrefillTypes
    <3>2. q # r
      BY <1>1, <2>2, <3>1 DEF Settled
    <3>3. \A d \in InTransfer(k)' : d.room # q
      BY <1>1, <2>2, <3>2 DEF Settled
    <3> QED BY <1>1, <2>2, <3>2, <3>3 DEF Settled
  <2> QED BY <1>2, <2>1, <2>2, FailuresFrom
<1> QED BY <1>3, <1>4, <1>5

(* The status after a chunk was put into the queue. *)
LEMMA AfterPutEffect ==
  ASSUME Memory, Protocol, NEW k \in Rank, NEW r \in Req, AfterPut(k, r)
  PROVE  /\ p_meta[r] # 0 /\ \A x \in Rank, q \in Req : x # k \/ q # r => p_status'[x][q] = p_status[x][q]
         /\ p_status'[k][r] \in {WaitingForInput, Success} \cup {p_status[k][r]}
         /\ p_status'[k][r] = Success => p_status[k][r] = Success
         /\ p_status[k][r] = WaitingForInput => p_status'[k][r] = WaitingForInput
<1> USE DEF Protocol, Memory
<1>1. <<k, r>> \in pending /\ p_status' = [p_status EXCEPT ![k][r] = Updated(@, WaitingForInput)]
  BY DEF AfterPut
<1>2. p_meta[r] # 0
  BY <1>1 DEF Prefills, PrefillOf
<1>3. PICK v : v = Updated(p_status[k][r], WaitingForInput)
  OBVIOUS
<1>4. p_status \in [Rank -> [Req -> StatusValue]]
  BY DEF PrefillMemory, PrefillTypes
<1>5. p_status' = [p_status EXCEPT ![k][r] = v]
  BY <1>1, <1>3
<1>6. p_status[k][r] \in StatusValue
  BY <1>4
<1>7. /\ v \in {WaitingForInput, Success} \cup {p_status[k][r]} /\ (v = Success => p_status[k][r] = Success)
      /\ p_status[k][r] = WaitingForInput => v = WaitingForInput
  BY <1>3, <1>6 DEF Updated, StatusValue, Absent, Failed, Bootstrapping, WaitingForInput, Success
<1> QED BY <1>2, <1>4, <1>5, <1>7

(* The status after a chunk was put into the queue. *)
LEMMA AfterPutProtocol ==
  ASSUME Memory, Protocol, NEW k \in Rank, NEW r \in Req, AfterPut(k, r)
  PROVE  Protocol' /\ \A x \in Rank : InTransfer(x)' = InTransfer(x)
<1> USE DEF Protocol, Memory
<1>1. /\ pending' \subseteq pending
      /\ UNCHANGED <<config, alive, p_arrived, bootstrap_queue, p_waiting, sent, inflight_queue, p_meta, p_aux,
                     p_conclude, to_prefill, to_decode, d_status, threadVars, decodeVars, connVars>>
  BY DEF AfterPut
<1>2. Rank' = Rank
  BY <1>1 DEF Rank
<1>3. Chunks' /\ \A x \in Rank : InTransfer(x)' = InTransfer(x)
  BY <1>1, ChunksKept DEF threadVars
<1>4. /\ p_meta[r] # 0 /\ \A x \in Rank, q \in Req : x # k \/ q # r => p_status'[x][q] = p_status[x][q]
      /\ p_status'[k][r] \in {WaitingForInput, Success} \cup {p_status[k][r]}
      /\ p_status'[k][r] = Success => p_status[k][r] = Success
  BY AfterPutEffect
<1>5. Prefills'
  BY <1>1, <1>2 DEF Prefills, PrefillOf
<1>6. Offers'
  <2> SUFFICES ASSUME NEW x \in Rank, NEW q \in Req PROVE OfferOf(x, q)'
    BY <1>2 DEF Offers
  <2>1. OfferOf(x, q) /\ UNCHANGED <<p_meta, p_conclude, transfer_infos, to_prefill, d_meta>>
    BY <1>1 DEF Offers, threadVars, decodeVars
  <2>2. CASE q = r
    BY <1>4, <2>1, <2>2 DEF OfferOf, InitMessage
  <2>3. CASE q # r
    BY <1>4, <2>1, <2>3 DEF OfferOf, InitMessage
  <2> QED BY <2>2, <2>3
<1>7. Receivers' /\ Messages'
  BY <1>1, ReceiversKept, MessagesKept DEF receiverPart, messagePart, threadVars, decodeVars, connVars
<1>8. Failures'
  <2>1. ASSUME NEW x \in Rank, NEW q \in Req
        PROVE  /\ p_status'[x][q] = Failed => p_status[x][q] = Failed
               /\ p_status'[x][q] = Success => p_status[x][q] = Success
    BY <1>4 DEF Failed, Success, WaitingForInput
  <2>2. ASSUME NEW x \in Rank, NEW q \in Req
        PROVE  (FailedAt(x, q)' => FailedAt(x, q)) /\ (SuccessAt(x, q)' => SuccessAt(x, q))
    BY <1>1, <2>1 DEF FailedAt, SuccessAt, Told, decodeVars
  <2>3. \A x \in Rank, q \in Req : Settled(x, q)' <=> Settled(x, q)
    BY <1>1, <1>3, SettledKept
  <2> QED BY <1>1, <2>2, <2>3, FailuresFrom DEF threadVars
<1> QED BY <1>3, <1>5, <1>6, <1>7, <1>8

(* process_disagg_prefill_inflight_queue *)
LEMMA PollInflightProtocol ==
  ASSUME Memory, Protocol, PollInflight
  PROVE  Protocol' /\ \A k \in Rank : InTransfer(k)' = InTransfer(k)
<1> USE DEF Protocol, Memory
<1>1. PICK gone \in SUBSET ToSet(inflight_queue) :
           /\ Concludes(p_status, p_conclude, p_status', p_conclude', ToSet(inflight_queue), gone)
           /\ ToSet(inflight_queue') = ToSet(inflight_queue) \ gone
           /\ UNCHANGED <<config, alive, p_arrived, bootstrap_queue, p_waiting, sent, pending, p_meta,
                          p_aux, to_prefill, to_decode, d_status, threadVars, decodeVars, connVars, memVars>>
  BY PollInflightEffect
<1>2. Rank' = Rank
  BY <1>1 DEF Rank
<1>3. Chunks' /\ \A k \in Rank : InTransfer(k)' = InTransfer(k)
  BY <1>1, ChunksKept DEF threadVars
<1>4. Prefills'
  BY <1>1, <1>2 DEF Prefills, PrefillOf
<1>5. Offers'
  <2> SUFFICES ASSUME NEW k \in Rank, NEW r \in Req PROVE OfferOf(k, r)'
    BY <1>2 DEF Offers
  <2>1. OfferOf(k, r) /\ UNCHANGED <<p_meta, transfer_infos, to_prefill, d_meta>>
    BY <1>1 DEF Offers, threadVars, decodeVars
  <2>2. CASE r \in ToSet(inflight_queue)
    <3>1. p_meta[r] \in PBuffer
      BY <2>2 DEF PrefillMemory, Split, PHeld
    <3>2. p_meta[r] # 0
      BY <3>1, ConstantFacts DEF PBuffer
    <3> QED BY <2>1, <3>2 DEF OfferOf, InitMessage
  <2>3. CASE r \notin ToSet(inflight_queue)
    <3>1. p_status'[k][r] = p_status[k][r] /\ p_conclude'[k][r] = p_conclude[k][r]
      BY <1>1, <2>3 DEF Concludes
    <3> QED BY <2>1, <3>1 DEF OfferOf, InitMessage
  <2> QED BY <2>2, <2>3
<1>6. Receivers' /\ Messages'
  BY <1>1, ReceiversKept, MessagesKept DEF receiverPart, messagePart, threadVars, decodeVars, connVars
<1>7. Failures'
  <2>1. ASSUME NEW k \in Rank, NEW q \in Req, NEW v \in {Failed, Success}
        PROVE  p_status'[k][q] = v \/ p_conclude'[k][q] = v => p_status[k][q] = v \/ p_conclude[k][q] = v
    BY <1>1 DEF Concludes, Absent, Failed, Success
  <2>2. ASSUME NEW k \in Rank, NEW q \in Req
        PROVE  (FailedAt(k, q)' => FailedAt(k, q)) /\ (SuccessAt(k, q)' => SuccessAt(k, q))
    BY <1>1, <2>1 DEF FailedAt, SuccessAt, Told, decodeVars
  <2>3. \A k \in Rank, q \in Req : Settled(k, q)' <=> Settled(k, q)
    BY <1>1, <1>3, SettledKept
  <2> QED BY <1>1, <2>2, <2>3, FailuresFrom DEF threadVars
<1> QED BY <1>3, <1>4, <1>5, <1>6, <1>7

---------------------------------------------------------------------------
(* The protocol: the prefill server's threads                              *)

(* A registration finds no failed session to forget; an offer is new.      *)
LEMMA BootstrapThreadEffect ==
  ASSUME Memory, Protocol, NEW k \in Rank, BootstrapThread(k)
  PROVE  /\ UNCHANGED failed_sessions /\ MessagesOf(k)'
         /\ \A x \in Rank : x # k => to_prefill'[x] = to_prefill[x] /\ transfer_infos'[x] = transfer_infos[x]
         /\ ToSet(to_prefill'[k]) \subseteq ToSet(to_prefill[k])
         /\ \E S \in SUBSET Req :
              /\ transfer_infos'[k] = transfer_infos[k] \cup S
              /\ \A r \in S : /\ p_meta[r] = 0 /\ d_meta[r] # 0 /\ InitMessage(r) \notin ToSet(to_prefill'[k])
                              /\ p_status'[k][r] = WaitingForInput
              /\ \A x \in Rank, q \in Req : x # k \/ q \notin S => p_status'[x][q] = p_status[x][q]
<1> USE DEF Protocol, Memory
<1>1. PICK s, m : s = to_prefill[k] /\ m = Head(s)
  OBVIOUS
<1>2. /\ alive /\ s # Empty /\ to_prefill' = [to_prefill EXCEPT ![k] = Tail(s)]
      /\ IF m.type = "register"
         THEN failed_sessions' = failed_sessions \ {k} /\ UNCHANGED <<transfer_infos, p_status>>
         ELSE /\ transfer_infos' = [transfer_infos EXCEPT ![k] = @ \cup {m.room}]
              /\ p_status' = [p_status EXCEPT ![k][m.room] = Updated(@, WaitingForInput)]
              /\ UNCHANGED failed_sessions
      /\ UNCHANGED <<config, alive, connVars>>
  BY <1>1 DEF BootstrapThread
<1>3. /\ s \in Seq(ToPrefill) /\ to_prefill \in [Rank -> Seq(ToPrefill)] /\ transfer_infos \in [Rank -> SUBSET Req]
      /\ p_status \in [Rank -> [Req -> StatusValue]]
  BY <1>1 DEF ThreadTypes, PrefillMemory, PrefillTypes
<1>4. PICK t : t = Tail(s)
  OBVIOUS
<1>5. /\ to_prefill'[k] = t /\ t \in Seq(ToPrefill) /\ Len(s) \in Nat /\ Len(s) > 0 /\ Len(t) = Len(s) - 1
      /\ \A i \in 1..Len(t) : t[i] = s[i + 1] /\ i + 1 \in 1..Len(s)
      /\ m = s[1] /\ m \in ToPrefill /\ 1 \in 1..Len(s)
  <2>1. to_prefill'[k] = t
    BY <1>2, <1>3, <1>4
  <2>2. t \in Seq(ToPrefill) /\ Len(s) \in Nat /\ Len(s) > 0 /\ Len(t) = Len(s) - 1 /\ m = s[1]
    BY <1>1, <1>2, <1>3, <1>4 DEF Empty
  <2>3. \A i \in 1..Len(t) : t[i] = s[i + 1] /\ i + 1 \in 1..Len(s)
    BY <1>2, <1>3, <1>4, <2>2 DEF Empty
  <2> QED BY <1>3, <2>1, <2>2, <2>3
<1>6. ToSet(t) = {t[i] : i \in 1..Len(t)} /\ ToSet(s) = {s[i] : i \in 1..Len(s)}
  <2>1. t \in Seq(ToPrefill) /\ s \in Seq(ToPrefill)
    BY <1>3, <1>5
  <2>2. ToSet(t) = {t[i] : i \in 1..Len(t)}
    BY ONLY <2>1, ToSetIs
  <2>3. ToSet(s) = {s[i] : i \in 1..Len(s)}
    BY ONLY <2>1, ToSetIs
  <2> QED BY <2>2, <2>3
<1>7. /\ \A i, j \in 1..Len(s) : s[i].type = "init" /\ s[i] = s[j] => i = j
      /\ \A i \in 1..Len(s) : s[i].type = "register" => i = 1 /\ transfer_infos[k] = {} /\ k \notin failed_sessions
      /\ k \in connected
  BY <1>1, <1>2 DEF Messages, MessagesOf
<1>8. UNCHANGED failed_sessions
  <2>1. m.type = "register" => k \notin failed_sessions
    BY <1>5, <1>7
  <2>2. failed_sessions' = failed_sessions \/ (m.type = "register" /\ failed_sessions' = failed_sessions \ {k})
    BY <1>2
  <2> QED BY <2>1, <2>2
<1>9. MessagesOf(k)'
  <2>1. k \in connected'
    BY <1>2, <1>7 DEF connVars
  <2>2. ASSUME NEW i \in 1..Len(t), NEW j \in 1..Len(t), t[i].type = "init", t[i] = t[j] PROVE i = j
    <3>1. i + 1 = j + 1
      BY <1>5, <1>7, <2>2
    <3> QED BY <3>1
  <2>3. ASSUME NEW i \in 1..Len(t), t[i].type = "register" PROVE FALSE
    <3>1. i + 1 = 1
      BY <1>5, <1>7, <2>3
    <3> QED BY <3>1
  <2> QED BY <1>5, <2>1, <2>2, <2>3 DEF MessagesOf
<1>10. \A x \in Rank : x # k => to_prefill'[x] = to_prefill[x]
  BY <1>2, <1>3
<1>11. ToSet(t) \subseteq ToSet(s)
  BY <1>5, <1>6
<1>12. CASE m.type = "register"
  <2>1. UNCHANGED <<transfer_infos, p_status>>
    BY <1>2, <1>12
  <2>2. /\ transfer_infos'[k] = transfer_infos[k] \cup {}
        /\ \A x \in Rank, q \in Req : x # k \/ q \notin {} => p_status'[x][q] = p_status[x][q]
        /\ \A x \in Rank : transfer_infos'[x] = transfer_infos[x]
    BY <2>1
  <2>3. {} \in SUBSET Req
    OBVIOUS
  <2> QED BY <1>1, <1>5, <1>8, <1>9, <1>10, <1>11, <2>2, <2>3
<1>13. CASE m.type # "register"
  <2>1. PICK r \in Req : m = InitMessage(r)
    BY <1>5, <1>13 DEF ToPrefill, InitMessage
  <2>2. m.room = r /\ m.type = "init" /\ m \in ToSet(to_prefill[k])
    BY <1>1, <1>5, <1>6, <2>1 DEF InitMessage
  <2>3. p_meta[r] = 0 /\ d_meta[r] # 0 /\ p_status[k][r] \in {Absent, Bootstrapping, WaitingForInput}
    BY <2>1, <2>2 DEF Offers, OfferOf
  <2>4. m \notin ToSet(t)
    <3> SUFFICES ASSUME NEW i \in 1..Len(t), t[i] = m PROVE FALSE
      BY <1>6
    <3>1. i + 1 = 1
      BY <1>5, <1>7, <2>2
    <3> QED BY <3>1
  <2>5. PICK T, v : T = transfer_infos[k] \cup {r} /\ v = Updated(p_status[k][r], WaitingForInput)
    OBVIOUS
  <2>6. /\ transfer_infos' = [transfer_infos EXCEPT ![k] = T]
        /\ p_status' = [p_status EXCEPT ![k][r] = v]
    BY <1>2, <1>13, <2>2, <2>5
  <2>7. v = WaitingForInput
    BY <2>3, <2>5 DEF Updated, Absent, Bootstrapping, WaitingForInput, Failed
  <2>8. /\ transfer_infos'[k] = transfer_infos[k] \cup {r} /\ p_status'[k][r] = WaitingForInput
        /\ \A x \in Rank, q \in Req : x # k \/ q \notin {r} => p_status'[x][q] = p_status[x][q]
        /\ \A x \in Rank : x # k => transfer_infos'[x] = transfer_infos[x]
    BY <1>3, <2>5, <2>6, <2>7
  <2>9. \A q \in {r} : /\ p_meta[q] = 0 /\ d_meta[q] # 0 /\ InitMessage(q) \notin ToSet(to_prefill'[k])
                       /\ p_status'[k][q] = WaitingForInput
    BY <1>5, <2>1, <2>3, <2>4, <2>8
  <2>10. {r} \in SUBSET Req
    OBVIOUS
  <2> QED BY <1>1, <1>5, <1>8, <1>9, <1>10, <1>11, <2>8, <2>9, <2>10
<1> QED BY <1>12, <1>13

(* bootstrap_thread *)
LEMMA BootstrapThreadProtocol ==
  ASSUME Memory, Protocol, NEW k \in Rank, BootstrapThread(k)
  PROVE  Protocol' /\ \A x \in Rank : InTransfer(x)' = InTransfer(x)
<1> USE DEF Protocol, Memory
<1>1. PICK S \in SUBSET Req :
        /\ transfer_infos'[k] = transfer_infos[k] \cup S
        /\ \A r \in S : /\ p_meta[r] = 0 /\ d_meta[r] # 0 /\ InitMessage(r) \notin ToSet(to_prefill'[k])
                        /\ p_status'[k][r] = WaitingForInput
        /\ \A x \in Rank, q \in Req : x # k \/ q \notin S => p_status'[x][q] = p_status[x][q]
  BY BootstrapThreadEffect
<1>2. /\ UNCHANGED failed_sessions /\ MessagesOf(k)'
      /\ \A x \in Rank : x # k => to_prefill'[x] = to_prefill[x] /\ transfer_infos'[x] = transfer_infos[x]
      /\ ToSet(to_prefill'[k]) \subseteq ToSet(to_prefill[k])
  BY BootstrapThreadEffect
<1>3. UNCHANGED <<config, alive, transfer_queue, worker, to_decode, d_status, prefillVars, decodeVars, connVars>>
  BY DEF BootstrapThread
<1>4. Rank' = Rank
  BY <1>3 DEF Rank
<1>5. Chunks' /\ \A x \in Rank : InTransfer(x)' = InTransfer(x)
  BY <1>3, ChunksKept DEF prefillVars
<1>6. Prefills' /\ Receivers'
  BY <1>3, PrefillsKept, ReceiversKept DEF prefillPart, receiverPart, prefillVars, decodeVars, connVars
<1>7. Offers'
  <2> SUFFICES ASSUME NEW x \in Rank, NEW q \in Req PROVE OfferOf(x, q)'
    BY <1>4 DEF Offers
  <2>1. OfferOf(x, q) /\ UNCHANGED <<p_meta, p_conclude, d_meta>>
    BY <1>3 DEF Offers, prefillVars, decodeVars
  <2>2. CASE x = k /\ q \in S
    BY <1>1, <2>1, <2>2 DEF OfferOf, InitMessage
  <2>3. CASE x = k /\ q \notin S
    BY <1>1, <1>2, <2>1, <2>3 DEF OfferOf, InitMessage
  <2>4. CASE x # k
    BY <1>1, <1>2, <2>1, <2>4 DEF OfferOf, InitMessage
  <2> QED BY <2>2, <2>3, <2>4
<1>8. Messages'
  <2> SUFFICES ASSUME NEW x \in Rank, x # k PROVE MessagesOf(x)'
    BY <1>2, <1>4 DEF Messages
  <2>1. MessagesOf(x)
    BY DEF Messages
  <2> QED BY <1>2, <1>3, <2>1 DEF MessagesOf, connVars
<1>9. Failures'
  <2>1. ASSUME NEW x \in Rank, NEW q \in Req
        PROVE  /\ p_status'[x][q] = Failed => p_status[x][q] = Failed
               /\ p_status'[x][q] = Success => p_status[x][q] = Success
    BY <1>1 DEF Failed, Success, WaitingForInput
  <2>2. ASSUME NEW x \in Rank, NEW q \in Req
        PROVE  (FailedAt(x, q)' => FailedAt(x, q)) /\ (SuccessAt(x, q)' => SuccessAt(x, q))
    BY <1>3, <2>1 DEF FailedAt, SuccessAt, Told, prefillVars, decodeVars
  <2>3. \A x \in Rank, q \in Req : Settled(x, q)' <=> Settled(x, q)
    BY <1>3, <1>5, SettledKept DEF prefillVars
  <2> QED BY <1>2, <1>3, <2>2, <2>3, FailuresFrom DEF prefillVars
<1> QED BY <1>5, <1>6, <1>7, <1>8, <1>9

(* A worker takes a chunk. *)
LEMMA TransferStartProtocol ==
  ASSUME Memory, Protocol, NEW k \in Rank, TransferStart(k)
  PROVE  Protocol'
<1> USE DEF Protocol, Memory
<1>1. UNCHANGED <<config, alive, p_status, transfer_infos, failed_sessions, to_prefill, to_decode,
                  d_status, prefillVars, decodeVars, connVars>>
  BY DEF TransferStart
<1>2. Chunks' /\ \A x \in Rank : InTransfer(x)' = InTransfer(x)
  BY TransferStartChunks
<1>3. Prefills' /\ Offers' /\ Receivers' /\ Messages'
  BY <1>1, PrefillsKept, OffersKept, ReceiversKept, MessagesKept
     DEF prefillPart, offerPart, receiverPart, messagePart, prefillVars, decodeVars, connVars
<1>4. Failures'
  BY <1>1, <1>2, FailuresKept DEF failurePart, prefillVars, decodeVars
<1> QED BY <1>2, <1>3, <1>4

(* The prefill server dies. *)
LEMMA CrashProtocol ==
  ASSUME Memory, Protocol, Crash
  PROVE  Protocol'
<1> USE DEF Protocol, Memory
<1>1. /\ alive' = FALSE
      /\ UNCHANGED <<config, p_status, to_prefill, to_decode, d_status, prefillVars, threadVars, decodeVars, connVars>>
  BY DEF Crash
<1>2. Rank' = Rank
  BY <1>1 DEF Rank
<1>3. Chunks' /\ \A x \in Rank : InTransfer(x)' = InTransfer(x)
  BY <1>1, ChunksKept DEF prefillVars, threadVars
<1>4. Prefills' /\ Offers'
  BY <1>1, PrefillsKept, OffersKept DEF prefillPart, offerPart, prefillVars, decodeVars, threadVars
<1>5. Receivers'
  BY <1>1, <1>2 DEF Receivers, ReceiverOf, decodeVars, connVars
<1>6. Messages'
  BY <1>1, <1>2 DEF Messages, MessagesOf, threadVars, connVars
<1>7. Failures'
  <2>1. ASSUME NEW x \in Rank, NEW q \in Req
        PROVE  (FailedAt(x, q)' => FailedAt(x, q)) /\ (SuccessAt(x, q)' => SuccessAt(x, q))
    BY <1>1 DEF FailedAt, SuccessAt, Told, prefillVars, decodeVars
  <2>2. \A x \in Rank, q \in Req : Settled(x, q)' <=> Settled(x, q)
    BY <1>1, <1>3, SettledKept DEF prefillVars
  <2> QED BY <1>1, <2>1, <2>2, FailuresFrom DEF prefillVars, threadVars
<1> QED BY <1>3, <1>4, <1>5, <1>6, <1>7

(* The last chunk of a request, once it is transferred, leaves none. *)
LEMMA LastChunk ==
  ASSUME Memory, Protocol, NEW k \in Rank, NEW c \in InTransfer(k), NEW r, r = c.room, c.is_last,
         NEW rest, rest \subseteq InTransfer(k), \A d \in rest : d.room = r => c.page < d.page
  PROVE  sent[r] = InputLen[r] /\ \A d \in rest : d.room # r
<1> USE DEF Protocol, Memory
<1>1. r \in Req /\ c.page \in Nat /\ ChunkOK(c)
  BY InTransferTypes DEF Chunks
<1>2. sent[r] \in Nat /\ InputLen[r] \in Nat /\ sent[r] <= InputLen[r]
  BY <1>1, ConstantFacts DEF PrefillMemory, PrefillTypes, Prefills, PrefillOf
<1>3. c.page = InputLen[r] /\ sent[r] = InputLen[r]
  BY <1>1, <1>2 DEF ChunkOK
<1>4. ASSUME NEW d \in rest, d.room = r PROVE FALSE
  <2>1. d.page \in Nat /\ d.page <= sent[r] /\ c.page < d.page
    BY <1>4, InTransferTypes DEF Chunks, ChunkOK
  <2> QED BY <1>1, <1>2, <1>3, <2>1
<1> QED BY <1>3, <1>4

(* A worker ends a chunk. *)
LEMMA TransferEndProtocol ==
  ASSUME Memory, Protocol, NEW k \in Rank, NEW o \in {"ok", "kv", "aux"}, TransferEnd(k, o)
  PROVE  Protocol'
<1> USE DEF Protocol, Memory
<1>1. PICK c, r : c = worker[k] /\ r = c.room
  OBVIOUS
<1>2. /\ Chunks' /\ c \in Chunk /\ c \in InTransfer(k) /\ r \in Req
      /\ InTransfer(k)' = InTransfer(k) \ {c}
      /\ \A d \in InTransfer(k)' : d.room = r => c.page < d.page
      /\ \A x \in Rank : x # k => /\ InTransfer(x)' = InTransfer(x) /\ to_decode'[x] = to_decode[x]
                                  /\ transfer_infos'[x] = transfer_infos[x]
                                  /\ x \in failed_sessions' <=> x \in failed_sessions
      /\ transfer_infos'[k] \subseteq transfer_infos[k]
      /\ \A q \in Req : q # r => (q \in transfer_infos'[k] <=> q \in transfer_infos[k])
      /\ failed_sessions \subseteq failed_sessions'
      /\ \A x \in Rank, q \in Req : x # k \/ q # r => p_status'[x][q] = p_status[x][q]
      /\ EndOutcome(k, c, r)
      /\ alive
      /\ UNCHANGED <<config, alive, to_prefill, d_status, prefillVars, decodeVars, connVars>>
  BY <1>1, TransferEndEffect
<1>3. Rank' = Rank /\ faults' = faults /\ UNCHANGED <<p_meta, p_conclude, sent, d_meta, d_conclude>>
  BY <1>2 DEF Rank, faults, prefillVars, decodeVars
<1>4. p_meta[r] # 0
  BY <1>1, <1>2 DEF Chunks, ChunkOK
<1>5. Prefills' /\ Receivers'
  BY <1>2, PrefillsKept, ReceiversKept DEF prefillPart, receiverPart, prefillVars, decodeVars, connVars
<1>6. Offers'
  <2> SUFFICES ASSUME NEW x \in Rank, NEW q \in Req PROVE OfferOf(x, q)'
    BY <1>3 DEF Offers
  <2>1. OfferOf(x, q)
    BY DEF Offers
  <2>2. CASE q = r
    BY <1>2, <1>3, <1>4, <2>1, <2>2 DEF OfferOf, InitMessage
  <2>3. CASE q # r
    <3>1. p_status'[x][q] = p_status[x][q] /\ (q \in transfer_infos'[x] <=> q \in transfer_infos[x])
      BY <1>2, <2>3
    <3> QED BY <1>2, <1>3, <2>1, <3>1 DEF OfferOf, InitMessage
  <2> QED BY <2>2, <2>3
<1>7. k \in failed_sessions' => k \in failed_sessions \/ (r \in transfer_infos[k] /\ "send" \in faults)
  BY <1>2 DEF EndOutcome
<1>8. Messages'
  <2> SUFFICES ASSUME NEW x \in Rank PROVE MessagesOf(x)'
    BY <1>3 DEF Messages
  <2>1. MessagesOf(x)
    BY DEF Messages
  <2>2. transfer_infos'[x] \subseteq transfer_infos[x]
    BY <1>2
  <2>3. x \in failed_sessions' => x \in failed_sessions \/ transfer_infos[x] # {}
    BY <1>2, <1>7
  <2> QED BY <1>2, <2>1, <2>2, <2>3 DEF MessagesOf, connVars
<1>9. failed_sessions' # {} => "send" \in faults
  <2>1. failed_sessions # {} => "send" \in faults
    BY DEF Failures
  <2>2. failed_sessions' \subseteq Rank
    BY TransferEndTypes, <1>3 DEF ThreadTypes
  <2> QED BY <1>2, <1>7, <2>1, <2>2
<1>10. ASSUME NEW x \in Rank, NEW q \in Req, Settled(x, q) PROVE Settled(x, q)'
  <2>1. InTransfer(x)' \subseteq InTransfer(x)
    BY <1>2
  <2> QED BY <1>3, <1>10, <2>1 DEF Settled
<1>11. c.is_last => Settled(k, r)'
  <2>1. InTransfer(k)' \subseteq InTransfer(k)
    BY <1>2
  <2>2. PICK rest : rest = InTransfer(k)'
    OBVIOUS
  <2>3. c.is_last => sent[r] = InputLen[r] /\ \A d \in rest : d.room # r
    BY <1>1, <1>2, <2>1, <2>2, LastChunk
  <2> QED BY <1>3, <2>2, <2>3 DEF Settled
<1>12. ASSUME NEW x \in Rank, NEW q \in Req PROVE FailureOf(x, q)'
  <2>1. FailureOf(x, q)
    BY DEF Failures
  <2>2. CASE x # k \/ q # r
    <3>1. ASSUME NEW v, v \in {Failed, Success} PROVE Told(x, q, v)' => Told(x, q, v)
      <4>1. CASE x # k
        BY <1>2, <4>1 DEF Told
      <4>2. CASE x = k
        <5>1. q # r
          BY <2>2, <4>2
        <5>2. \A w : [room |-> q, status |-> v] # [room |-> r, status |-> w]
          BY <5>1
        <5>3. \/ to_decode' = to_decode
              \/ \E w : ToSet(to_decode'[k]) = ToSet(to_decode[k]) \cup {[room |-> r, status |-> w]}
          BY <1>2 DEF EndOutcome, Tells
        <5> QED BY <4>2, <5>2, <5>3 DEF Told
      <4> QED BY <4>1, <4>2
    <3>2. p_status'[x][q] = p_status[x][q]
      BY <1>2, <2>2
    <3>3. (FailedAt(x, q)' => FailedAt(x, q)) /\ (SuccessAt(x, q)' => SuccessAt(x, q))
      BY <1>2, <1>3, <3>1, <3>2 DEF FailedAt, SuccessAt
    <3> QED BY <1>2, <1>3, <1>10, <2>1, <3>3 DEF FailureOf
  <2>3. CASE x = k /\ q = r
    <3>1. /\ SuccessAt(k, r)' => SuccessAt(k, r) \/ Settled(k, r)'
          /\ FailedAt(k, r)' => FailedAt(k, r) \/ ("send" \in faults /\ (k \in failed_sessions' \/ Settled(k, r)'))
      <4>1. Failed # Success /\ [room |-> r, status |-> Failed] # [room |-> r, status |-> Success]
        BY DEF Failed, Success
      <4>2. CASE c.is_last
        <5>1. /\ "send" \in faults \/ to_decode' = to_decode \/ Tells(k, r, Success)
              /\ "send" \in faults \/ p_status'[k][r] = p_status[k][r] \/ p_status'[k][r] = Success
          <6>1. k \in failed_sessions => "send" \in faults
            BY DEF Failures
          <6> QED BY <1>2, <6>1 DEF EndOutcome
        <5>2. FailedAt(k, r)' => FailedAt(k, r) \/ "send" \in faults
          BY <1>2, <1>3, <4>1, <5>1 DEF FailedAt, Told, Tells
        <5> QED BY <1>11, <4>2, <5>2
      <4>3. CASE ~c.is_last
        <5>1. \/ to_decode' = to_decode /\ p_status'[k][r] = p_status[k][r]
              \/ /\ Tells(k, r, Failed) /\ p_status'[k][r] = Failed
                 /\ k \in failed_sessions' /\ (k \in failed_sessions \/ "send" \in faults)
          BY <1>2, <4>3 DEF EndOutcome
        <5>2. CASE to_decode' = to_decode /\ p_status'[k][r] = p_status[k][r]
          BY <1>2, <1>3, <5>2 DEF FailedAt, SuccessAt, Told
        <5>3. CASE /\ Tells(k, r, Failed) /\ p_status'[k][r] = Failed
                   /\ k \in failed_sessions' /\ (k \in failed_sessions \/ "send" \in faults)
          <6>1. "send" \in faults
            BY <5>3 DEF Failures
          <6>2. SuccessAt(k, r)' => SuccessAt(k, r)
            BY <1>2, <1>3, <4>1, <5>3 DEF SuccessAt, Told, Tells
          <6> QED BY <5>3, <6>1, <6>2
        <5> QED BY <5>1, <5>2, <5>3
      <4> QED BY <4>2, <4>3
    <3>2. FailureOf(k, r)
      BY <2>1, <2>3
    <3>3. /\ FailedAt(k, r)' => "send" \in faults /\ (k \in failed_sessions' \/ Settled(k, r)')
          /\ SuccessAt(k, r)' => Settled(k, r)'
      BY <1>2, <1>10, <3>1, <3>2 DEF FailureOf
    <3> QED BY <1>3, <1>4, <2>3, <3>3 DEF FailureOf
  <2> QED BY <2>2, <2>3
<1>13. Failures'
  BY <1>3, <1>9, <1>12 DEF Failures
<1> QED BY <1>2, <1>5, <1>6, <1>8, <1>13

---------------------------------------------------------------------------
(* The protocol: the decode server                                         *)

(* A request comes to the decode server. *)
LEMMA ArriveDecodeProtocol ==
  ASSUME Memory, Protocol, NEW r \in Req, ArriveDecode(r)
  PROVE  Protocol' /\ \A k \in Rank : InTransfer(k)' = InTransfer(k)
<1> USE DEF Protocol, Memory
<1>1. PICK ok \in SUBSET Rank :
        /\ connected \subseteq ok
        /\ ~alive => ok = connected
        /\ connected' = ok
        /\ d_status' = [k \in Rank |-> [d_status[k] EXCEPT ![r] = ReceiverStatus(k \in ok)]]
        /\ to_prefill' = [k \in Rank |-> IF k \in ok \ connected
                                         THEN Append(to_prefill[k], [type |-> "register", room |-> Empty])
                                         ELSE to_prefill[k]]
  BY DEF ArriveDecode
<1>2. /\ r \notin d_arrived /\ d_arrived' = d_arrived \cup {r} /\ prealloc_queue' = Append(prealloc_queue, r)
      /\ UNCHANGED <<config, alive, p_status, to_decode, waiting_for_input, transfer_q, d_meta, d_conclude,
                     prefillVars, threadVars>>
  BY DEF ArriveDecode
<1>3. Rank' = Rank
  BY <1>2 DEF Rank
<1>4. Chunks' /\ \A k \in Rank : InTransfer(k)' = InTransfer(k)
  BY <1>2, ChunksKept DEF prefillVars, threadVars
<1>5. Prefills'
  BY <1>2, PrefillsKept DEF prefillPart, prefillVars
<1>6. ToSet(prealloc_queue') = ToSet(prealloc_queue) \cup {r}
  <2>1. prealloc_queue \in Seq(Req) /\ Distinct(prealloc_queue) /\ r \notin ToSet(prealloc_queue)
    BY <1>2 DEF DecodeMemory, DecodeTypes, DecodePlaces
  <2> QED BY <1>2, <2>1, AppendDistinct
<1>7. ASSUME NEW k \in Rank, NEW q \in Req
      PROVE  /\ q # r => d_status'[k][q] = d_status[k][q]
             /\ d_status'[k][r] = IF k \in ok THEN WaitingForInput ELSE Failed
  <2>1. d_status[k] \in [Req -> StatusValue]
    BY DEF DecodeMemory, DecodeTypes
  <2>2. PICK v : v = ReceiverStatus(k \in ok)
    OBVIOUS
  <2>3. d_status'[k] = [d_status[k] EXCEPT ![r] = v]
    BY <1>1, <2>2
  <2>4. v = IF k \in ok THEN WaitingForInput ELSE Failed
    BY <2>2 DEF ReceiverStatus
  <2> QED BY <2>1, <2>3, <2>4
<1>8. ASSUME NEW k \in Rank, k \in ok, k \notin connected
      PROVE  /\ alive /\ to_prefill[k] = Empty /\ transfer_infos[k] = {} /\ k \notin failed_sessions
             /\ to_prefill'[k] = <<[type |-> "register", room |-> Empty]>>
  <2>1. alive
    BY <1>1, <1>8
  <2>2. to_prefill[k] = Empty /\ transfer_infos[k] = {} /\ k \notin failed_sessions
    BY <1>8, <2>1 DEF Messages, MessagesOf
  <2>3. PICK m : m = [type |-> "register", room |-> Empty]
    OBVIOUS
  <2>4. to_prefill'[k] = Append(Empty, m)
    BY <1>1, <1>8, <2>2, <2>3
  <2>5. to_prefill'[k] = <<m>>
    BY <2>4 DEF Empty
  <2> QED BY <2>1, <2>2, <2>3, <2>5
<1>9. ASSUME NEW k \in Rank, NEW q \in Req, InitMessage(q) \in ToSet(to_prefill'[k])
      PROVE  InitMessage(q) \in ToSet(to_prefill[k])
  <2>1. CASE k \in ok /\ k \notin connected
    <3>1. PICK m : m = [type |-> "register", room |-> Empty]
      OBVIOUS
    <3>2. to_prefill'[k] = <<m>> /\ InitMessage(q) # m
      BY <1>8, <2>1, <3>1 DEF InitMessage
    <3>3. ToSet(<<m>>) = {m}
      BY DEF ToSet
    <3> QED BY <1>9, <3>2, <3>3
  <2>2. CASE ~(k \in ok /\ k \notin connected)
    <3>1. to_prefill'[k] = to_prefill[k]
      BY <1>1, <2>2
    <3> QED BY <1>9, <3>1
  <2> QED BY <2>1, <2>2
<1>10. Offers'
  <2> SUFFICES ASSUME NEW k \in Rank, NEW q \in Req PROVE OfferOf(k, q)'
    BY <1>3 DEF Offers
  <2>1. OfferOf(k, q) /\ UNCHANGED <<p_meta, p_status, p_conclude, transfer_infos, d_meta>>
    BY <1>2 DEF Offers, prefillVars, threadVars
  <2> QED BY <1>9, <2>1 DEF OfferOf, InitMessage
<1>11. Receivers'
  <2>1. waiting_for_input' \subseteq d_arrived' /\ r \notin waiting_for_input
    BY <1>2 DEF Receivers
  <2>2. ASSUME NEW k \in Rank, NEW q \in Req PROVE ReceiverOf(k, q)'
    <3>1. ReceiverOf(k, q)
      BY DEF Receivers
    <3>2. CASE q = r
      <4>1. d_meta[r] = 0 /\ d_conclude[k][r] \in {Absent, Failed}
        BY <1>2, <3>1, <3>2 DEF ReceiverOf
      <4>2. d_status'[k][r] \in {WaitingForInput, Failed} /\ (d_status'[k][r] = WaitingForInput => k \in connected')
        BY <1>1, <1>7 DEF WaitingForInput, Failed
      <4> QED BY <1>2, <2>1, <3>2, <4>1, <4>2 DEF ReceiverOf
    <3>3. CASE q # r
      <4>1. /\ d_status'[k][q] = d_status[k][q] /\ (q \in ToSet(prealloc_queue') <=> q \in ToSet(prealloc_queue))
            /\ q \in d_arrived' <=> q \in d_arrived
            /\ k \in connected => k \in connected'
        BY <1>1, <1>2, <1>6, <1>7, <3>3
      <4> QED BY <1>2, <3>1, <4>1 DEF ReceiverOf
    <3> QED BY <3>2, <3>3
  <2> QED BY <1>3, <2>1, <2>2 DEF Receivers
<1>12. Messages'
  <2> SUFFICES ASSUME NEW k \in Rank PROVE MessagesOf(k)'
    BY <1>3 DEF Messages
  <2>1. MessagesOf(k) /\ UNCHANGED <<alive, transfer_infos, failed_sessions>>
    BY <1>2 DEF Messages, threadVars
  <2>2. CASE k \in ok /\ k \notin connected
    <3>1. PICK m : m = [type |-> "register", room |-> Empty]
      OBVIOUS
    <3>2. to_prefill'[k] = <<m>> /\ Len(<<m>>) = 1 /\ k \in connected' /\ transfer_infos[k] = {} /\ k \notin failed_sessions
      BY <1>1, <1>8, <2>2, <3>1
    <3>3. \A i, j \in 1..1 : i = j /\ i = 1
      OBVIOUS
    <3> QED BY <2>1, <3>2, <3>3 DEF MessagesOf
  <2>3. CASE ~(k \in ok /\ k \notin connected)
    <3>1. to_prefill'[k] = to_prefill[k] /\ (k \notin connected' => k \notin connected)
      BY <1>1, <2>3
    <3> QED BY <2>1, <3>1 DEF MessagesOf
  <2> QED BY <2>2, <2>3
<1>13. Failures'
  <2>1. ASSUME NEW k \in Rank, NEW q \in Req
        PROVE  (FailedAt(k, q)' => FailedAt(k, q)) /\ (SuccessAt(k, q)' => SuccessAt(k, q))
    <3>1. UNCHANGED <<p_status, p_conclude, to_decode, alive, d_meta, d_conclude>>
      BY <1>2 DEF prefillVars
    <3>2. CASE q = r
      <4>1. d_meta[r] = 0
        BY <1>2 DEF Receivers, ReceiverOf
      <4>2. d_status'[k][r] # Success
        BY <1>7 DEF WaitingForInput, Failed, Success
      <4> QED BY <3>1, <3>2, <4>1, <4>2 DEF FailedAt, SuccessAt, Told
    <3>3. CASE q # r
      BY <1>7, <3>1, <3>3 DEF FailedAt, SuccessAt, Told
    <3> QED BY <3>2, <3>3
  <2>2. \A k \in Rank, q \in Req : Settled(k, q)' <=> Settled(k, q)
    BY <1>2, <1>4, SettledKept DEF prefillVars
  <2> QED BY <1>2, <2>1, <2>2, FailuresFrom DEF prefillVars, threadVars
<1> QED BY <1>4, <1>5, <1>10, <1>11, <1>12, <1>13

(* decode_thread *)
LEMMA DecodeThreadEffect ==
  ASSUME Memory, Protocol, NEW k \in Rank, DecodeThread(k)
  PROVE  \E r \in Req, v \in {Failed, Success} :
           /\ Told(k, r, v) /\ d_status'[k][r] = v /\ d_meta[r] # 0
           /\ \A x \in Rank, q \in Req : x # k \/ q # r => d_status'[x][q] = d_status[x][q]
           /\ \A x \in Rank : ToSet(to_decode'[x]) \subseteq ToSet(to_decode[x])
           /\ UNCHANGED <<config, alive, p_status, to_prefill, prefillVars, threadVars, decodeVars, connVars, memVars>>
<1> USE DEF Protocol, Memory
<1>1. PICK s, m : s = to_decode[k] /\ m = Head(s)
  OBVIOUS
<1>2. /\ s # Empty /\ to_decode' = [to_decode EXCEPT ![k] = Tail(s)]
      /\ d_status' = [d_status EXCEPT ![k][m.room] = Updated(@, m.status)]
      /\ UNCHANGED <<config, alive, p_status, to_prefill, prefillVars, threadVars, decodeVars, connVars, memVars>>
  BY <1>1 DEF DecodeThread
<1>3. /\ s \in Seq(ToDecode) /\ to_decode \in [Rank -> Seq(ToDecode)] /\ d_status \in [Rank -> [Req -> StatusValue]]
  BY <1>1 DEF ThreadTypes, DecodeMemory, DecodeTypes
<1>4. PICK t : t = Tail(s)
  OBVIOUS
<1>5. /\ t \in Seq(ToDecode) /\ Len(s) \in Nat /\ Len(s) > 0 /\ Len(t) = Len(s) - 1 /\ m = s[1]
      /\ \A i \in 1..Len(t) : t[i] = s[i + 1]
  BY <1>1, <1>2, <1>3, <1>4 DEF Empty
<1>6. ToSet(t) = {t[i] : i \in 1..Len(t)}
  <2>1. t \in Seq(ToDecode)
    BY <1>5
  <2> QED BY ONLY <2>1, ToSetIs
<1>7. ToSet(s) = {s[i] : i \in 1..Len(s)}
  <2>1. s \in Seq(ToDecode)
    BY <1>3
  <2> QED BY ONLY <2>1, ToSetIs
<1>8. m \in ToSet(s) /\ m \in ToDecode
  <2>1. 1 \in 1..Len(s)
    BY <1>5
  <2> QED BY <1>3, <1>5, <1>7, <2>1
<1>9. ToSet(t) \subseteq ToSet(s)
  <2> SUFFICES ASSUME NEW i \in 1..Len(t) PROVE t[i] \in ToSet(s)
    BY <1>6
  <2>1. i + 1 \in 1..Len(s) /\ t[i] = s[i + 1]
    BY <1>5
  <2> QED BY <1>7, <2>1
<1>10. PICK r \in Req, v \in {Failed, Success} : m = [room |-> r, status |-> v]
  BY <1>8 DEF ToDecode
<1>11. Told(k, r, v) /\ m.room = r /\ m.status = v
  BY <1>1, <1>8, <1>10 DEF Told
<1>12. d_meta[r] # 0
  <2>1. FailedAt(k, r) \/ SuccessAt(k, r)
    BY <1>11 DEF FailedAt, SuccessAt
  <2>2. p_meta[r] # 0 \/ Settled(k, r)
    BY <2>1 DEF Failures, FailureOf
  <2>3. p_meta[r] = 0 => sent[r] = 0 /\ InputLen[r] # 0
    BY ConstantFacts DEF Prefills, PrefillOf
  <2>4. p_meta[r] # 0
    BY <2>2, <2>3 DEF Settled
  <2> QED BY <2>4 DEF Offers, OfferOf
<1>13. PICK w : w = Updated(d_status[k][r], v)
  OBVIOUS
<1>14. w = v
  <2>1. d_status[k][r] \in StatusValue
    BY <1>3
  <2> QED BY <1>13, <2>1 DEF Updated, StatusValue, Absent, Failed, Bootstrapping, WaitingForInput, Success
<1>15. d_status' = [d_status EXCEPT ![k][r] = v]
  BY <1>2, <1>11, <1>13, <1>14
<1>16. d_status'[k][r] = v /\ \A x \in Rank, q \in Req : x # k \/ q # r => d_status'[x][q] = d_status[x][q]
  BY <1>3, <1>15
<1>17. \A x \in Rank : ToSet(to_decode'[x]) \subseteq ToSet(to_decode[x])
  BY <1>1, <1>2, <1>3, <1>4, <1>9
<1> QED BY <1>2, <1>11, <1>12, <1>16, <1>17

(* decode_thread *)
LEMMA DecodeThreadProtocol ==
  ASSUME Memory, Protocol, NEW k \in Rank, DecodeThread(k)
  PROVE  Protocol' /\ \A x \in Rank : InTransfer(x)' = InTransfer(x)
<1> USE DEF Protocol, Memory
<1>1. PICK r \in Req, v \in {Failed, Success} :
           /\ Told(k, r, v) /\ d_status'[k][r] = v /\ d_meta[r] # 0
           /\ \A x \in Rank, q \in Req : x # k \/ q # r => d_status'[x][q] = d_status[x][q]
           /\ \A x \in Rank : ToSet(to_decode'[x]) \subseteq ToSet(to_decode[x])
           /\ UNCHANGED <<config, alive, p_status, to_prefill, prefillVars, threadVars, decodeVars, connVars, memVars>>
  BY DecodeThreadEffect
<1>2. Rank' = Rank
  BY <1>1 DEF Rank
<1>3. Chunks' /\ \A x \in Rank : InTransfer(x)' = InTransfer(x)
  BY <1>1, ChunksKept DEF prefillVars, threadVars
<1>4. Prefills' /\ Offers' /\ Messages'
  BY <1>1, PrefillsKept, OffersKept, MessagesKept
     DEF prefillPart, offerPart, messagePart, prefillVars, threadVars, decodeVars, connVars
<1>5. v # WaitingForInput
  BY DEF Failed, Success, WaitingForInput
<1>6. Receivers'
  <2>1. waiting_for_input' \subseteq d_arrived' /\ UNCHANGED <<alive, d_meta, d_arrived, prealloc_queue, d_conclude, waiting_for_input, connected>>
    BY <1>1 DEF Receivers, decodeVars, connVars
  <2>2. ASSUME NEW x \in Rank, NEW q \in Req PROVE ReceiverOf(x, q)'
    <3>1. ReceiverOf(x, q)
      BY DEF Receivers
    <3>2. CASE x = k /\ q = r
      BY <1>1, <1>5, <2>1, <3>1, <3>2 DEF ReceiverOf
    <3>3. CASE x # k \/ q # r
      BY <1>1, <2>1, <3>1, <3>3 DEF ReceiverOf
    <3> QED BY <3>2, <3>3
  <2> QED BY <1>2, <2>1, <2>2 DEF Receivers
<1>7. Failures'
  <2>1. ASSUME NEW x \in Rank, NEW q \in Req
        PROVE  (FailedAt(x, q)' => FailedAt(x, q)) /\ (SuccessAt(x, q)' => SuccessAt(x, q))
    <3>1. UNCHANGED <<p_status, p_conclude, alive, d_meta, d_conclude>>
      BY <1>1 DEF prefillVars, decodeVars
    <3>2. \A w : Told(x, q, w)' => Told(x, q, w)
      BY <1>1 DEF Told
    <3>3. CASE x = k /\ q = r
      BY <1>1, <3>1, <3>2, <3>3 DEF FailedAt, SuccessAt
    <3>4. CASE x # k \/ q # r
      BY <1>1, <3>1, <3>2, <3>4 DEF FailedAt, SuccessAt
    <3> QED BY <3>3, <3>4
  <2>2. \A x \in Rank, q \in Req : Settled(x, q)' <=> Settled(x, q)
    BY <1>1, <1>3, SettledKept DEF prefillVars
  <2> QED BY <1>1, <2>1, <2>2, FailuresFrom DEF prefillVars, threadVars
<1> QED BY <1>3, <1>4, <1>6, <1>7

(* heartbeat_checker *)
LEMMA HeartbeatProtocol ==
  ASSUME Memory, Protocol, NEW k \in Rank, Heartbeat(k)
  PROVE  Protocol'
<1> USE DEF Protocol, Memory
<1>1. /\ ~alive
      /\ d_status' = [d_status EXCEPT ![k] = [r \in Req |-> IF r \in AffectedRooms(k) THEN Failed ELSE d_status[k][r]]]
      /\ UNCHANGED <<config, alive, p_status, to_prefill, to_decode, prefillVars, threadVars, decodeVars, memVars>>
  BY DEF Heartbeat
<1>2. Rank' = Rank
  BY <1>1 DEF Rank
<1>3. Chunks' /\ \A x \in Rank : InTransfer(x)' = InTransfer(x)
  BY <1>1, ChunksKept DEF prefillVars, threadVars
<1>4. Prefills' /\ Offers'
  BY <1>1, PrefillsKept, OffersKept DEF prefillPart, offerPart, prefillVars, threadVars, decodeVars
<1>5. ASSUME NEW x \in Rank, NEW q \in Req PROVE d_status'[x][q] \in {Failed, d_status[x][q]}
  <2>1. d_status \in [Rank -> [Req -> StatusValue]]
    BY DEF DecodeMemory, DecodeTypes
  <2> QED BY <1>1, <2>1
<1>6. Receivers'
  <2>1. waiting_for_input' \subseteq d_arrived' /\ UNCHANGED <<alive, d_meta, d_arrived, prealloc_queue, d_conclude>>
    BY <1>1 DEF Receivers, decodeVars
  <2>2. ASSUME NEW x \in Rank, NEW q \in Req PROVE ReceiverOf(x, q)'
    <3>1. ReceiverOf(x, q)
      BY DEF Receivers
    <3> QED BY <1>1, <1>5, <2>1, <3>1 DEF ReceiverOf
  <2> QED BY <1>2, <2>1, <2>2 DEF Receivers
<1>7. Messages'
  BY <1>1, <1>2 DEF Messages, MessagesOf, threadVars
<1>8. Failures'
  <2>1. ASSUME NEW x \in Rank, NEW q \in Req
        PROVE  (FailedAt(x, q)' => FailedAt(x, q)) /\ (SuccessAt(x, q)' => SuccessAt(x, q))
    <3>1. UNCHANGED <<alive, p_status, p_conclude, to_decode, d_meta, d_conclude>>
      BY <1>1 DEF prefillVars, decodeVars
    <3>2. d_status'[x][q] = Success => d_status[x][q] = Success
      BY <1>5 DEF Failed, Success
    <3> QED BY <1>1, <3>1, <3>2 DEF FailedAt, SuccessAt, Told
  <2>2. \A x \in Rank, q \in Req : Settled(x, q)' <=> Settled(x, q)
    BY <1>1, <1>3, SettledKept DEF prefillVars
  <2> QED BY <1>1, <2>1, <2>2, FailuresFrom DEF prefillVars, threadVars
<1> QED BY <1>3, <1>4, <1>6, <1>7, <1>8

(* pop_transferred *)
LEMMA PopTransferredProtocol ==
  ASSUME Memory, Protocol, PopTransferred
  PROVE  Protocol' /\ \A k \in Rank : InTransfer(k)' = InTransfer(k)
<1> USE DEF Protocol, Memory
<1>0. config \in Configs
  BY DEF PrefillMemory, PrefillTypes
<1>1. PICK gone \in SUBSET ToSet(transfer_q) :
           /\ Concludes(d_status, d_conclude, d_status', d_conclude', ToSet(transfer_q), gone)
           /\ UNCHANGED <<config, alive, p_status, to_prefill, to_decode, d_arrived, prealloc_queue,
                          waiting_for_input, d_meta, row, prefillVars, threadVars, connVars, memVars>>
  <2>1. PICK done, lost \in SUBSET ToSet(transfer_q) :
           /\ Concludes(d_status, d_conclude, d_status', d_conclude', ToSet(transfer_q), done \cup lost)
           /\ UNCHANGED <<config, alive, p_status, to_prefill, to_decode, d_arrived, prealloc_queue,
                          waiting_for_input, d_meta, row, prefillVars, threadVars, connVars, memVars>>
    BY <1>0, PopTransferredEffect
  <2>2. done \cup lost \in SUBSET ToSet(transfer_q)
    OBVIOUS
  <2> QED BY <2>1, <2>2
<1>2. Rank' = Rank
  BY <1>1 DEF Rank
<1>3. Chunks' /\ \A x \in Rank : InTransfer(x)' = InTransfer(x)
  BY <1>1, ChunksKept DEF prefillVars, threadVars
<1>4. Prefills' /\ Offers' /\ Messages'
  BY <1>1, PrefillsKept, OffersKept, MessagesKept
     DEF prefillPart, offerPart, messagePart, prefillVars, threadVars, connVars
<1>5. ASSUME NEW k \in Rank, NEW q \in Req, NEW v \in {Failed, Success}
      PROVE  d_status'[k][q] = v \/ d_conclude'[k][q] = v => d_status[k][q] = v \/ d_conclude[k][q] = v
  BY <1>1 DEF Concludes, Absent, Failed, Success
<1>6. Receivers'
  <2>1. waiting_for_input' \subseteq d_arrived' /\ UNCHANGED <<alive, d_meta, d_arrived, prealloc_queue, waiting_for_input, connected>>
    BY <1>1 DEF Receivers, connVars
  <2>2. ASSUME NEW k \in Rank, NEW q \in Req PROVE ReceiverOf(k, q)'
    <3>1. ReceiverOf(k, q)
      BY DEF Receivers
    <3>2. CASE q \in ToSet(transfer_q)
      <4>1. d_meta[q] \in DBuffer /\ q \notin ToSet(prealloc_queue)
        BY <3>2 DEF DecodeMemory, Split, DecodePlaces, Holders
      <4>2. d_meta[q] # 0
        BY <4>1, ConstantFacts DEF DBuffer
      <4>3. d_status'[k][q] = WaitingForInput => d_status[k][q] = WaitingForInput
        BY <1>1 DEF Concludes, Absent, WaitingForInput
      <4> QED BY <2>1, <3>1, <4>1, <4>2, <4>3 DEF ReceiverOf
    <3>3. CASE q \notin ToSet(transfer_q)
      <4>1. d_status'[k][q] = d_status[k][q] /\ d_conclude'[k][q] = d_conclude[k][q]
        BY <1>1, <3>3 DEF Concludes
      <4> QED BY <2>1, <3>1, <4>1 DEF ReceiverOf
    <3> QED BY <3>2, <3>3
  <2> QED BY <1>2, <2>1, <2>2 DEF Receivers
<1>7. Failures'
  <2>1. ASSUME NEW k \in Rank, NEW q \in Req
        PROVE  (FailedAt(k, q)' => FailedAt(k, q)) /\ (SuccessAt(k, q)' => SuccessAt(k, q))
    <3>1. UNCHANGED <<alive, p_status, p_conclude, to_decode, d_meta>>
      BY <1>1 DEF prefillVars
    <3> QED BY <1>5, <3>1 DEF FailedAt, SuccessAt, Told
  <2>2. \A k \in Rank, q \in Req : Settled(k, q)' <=> Settled(k, q)
    BY <1>1, <1>3, SettledKept DEF prefillVars
  <2> QED BY <1>1, <2>1, <2>2, FailuresFrom DEF prefillVars, threadVars
<1> QED BY <1>3, <1>4, <1>6, <1>7

(* A request that pop_preallocated takes or keeps as a waiter is ready. *)
LEMMA WaiterReady ==
  ASSUME Protocol, alive, NEW k \in Rank, NEW r \in Req, r \in ToSet(prealloc_queue),
         r \in waiting_for_input \/ Poll(d_status, d_conclude, k, r) \in {WaitingForInput, Success}
  PROVE  d_status[k][r] = WaitingForInput /\ d_conclude[k][r] = Absent /\ d_meta[r] = 0 /\ k \in connected
<1>1. ReceiverOf(k, r)
  BY DEF Protocol, Receivers
<1>2. /\ d_meta[r] = 0 /\ d_status[k][r] \in {Absent, WaitingForInput, Failed}
      /\ d_conclude[k][r] \in {Absent, Failed}
  BY <1>1 DEF ReceiverOf
<1>3. d_status[k][r] = WaitingForInput /\ d_conclude[k][r] = Absent
  <2>1. CASE r \in waiting_for_input
    BY <1>1, <2>1 DEF ReceiverOf
  <2>2. CASE Poll(d_status, d_conclude, k, r) \in {WaitingForInput, Success}
    BY <1>2, <2>2 DEF Poll, Absent, WaitingForInput, Failed, Success
  <2> QED BY <2>1, <2>2
<1> QED BY <1>1, <1>2, <1>3 DEF ReceiverOf

(* a queue of the offers for N *)
AreOffers(init, N) == Distinct(init) /\ ToSet(init) = {InitMessage(r) : r \in N}

(* The messages t are the messages s and the offers for N. *)
OffersAdded(s, t, N) ==
  /\ \A r \in Req : InitMessage(r) \in ToSet(t) <=> InitMessage(r) \in ToSet(s) \/ r \in N
  /\ N = {} => t = s
  /\ (\A i, j \in 1..Len(s) : s[i].type = "init" /\ s[i] = s[j] => i = j) =>
       \A i, j \in 1..Len(t) : t[i].type = "init" /\ t[i] = t[j] => i = j
  /\ \A i \in 1..Len(t) : t[i].type = "register" => i \in 1..Len(s) /\ t[i] = s[i]

(* The offers for N go to every rank. *)
LEMMA OffersSent ==
  ASSUME NEW s \in Seq(ToPrefill), NEW init \in Seq(ToPrefill),
         NEW N \in SUBSET Req, AreOffers(init, N),
         \A r \in N : InitMessage(r) \notin ToSet(s),
         NEW t, t = s \o init
  PROVE  OffersAdded(s, t, N)
<1>0. Distinct(init) /\ ToSet(init) = {InitMessage(r) : r \in N}
  BY DEF AreOffers
<1>1. /\ t \in Seq(ToPrefill) /\ Len(t) = Len(s) + Len(init) /\ Len(s) \in Nat /\ Len(init) \in Nat
      /\ \A i \in 1..Len(s) : t[i] = s[i]
      /\ \A i \in 1..Len(t) : i \notin 1..Len(s) => i - Len(s) \in 1..Len(init) /\ t[i] = init[i - Len(s)]
      /\ \A i \in 1..Len(init) : Len(s) + i \in 1..Len(t) /\ t[Len(s) + i] = init[i]
  OBVIOUS
<1>2. /\ ToSet(t) = {t[i] : i \in 1..Len(t)}
      /\ ToSet(s) = {s[i] : i \in 1..Len(s)} /\ ToSet(init) = {init[i] : i \in 1..Len(init)}
  <2>1. t \in Seq(ToPrefill)
    BY <1>1
  <2> QED BY ONLY <2>1, s \in Seq(ToPrefill), init \in Seq(ToPrefill), ToSetIs
<1>3. ToSet(t) = ToSet(s) \cup ToSet(init)
  <2>1. ASSUME NEW i \in 1..Len(t) PROVE t[i] \in ToSet(s) \cup ToSet(init)
    BY <1>1, <1>2
  <2>2. ASSUME NEW i \in 1..Len(s) PROVE s[i] \in ToSet(t)
    <3>1. i \in 1..Len(t) /\ t[i] = s[i]
      BY <1>1
    <3> QED BY <1>2, <3>1
  <2>3. ASSUME NEW i \in 1..Len(init) PROVE init[i] \in ToSet(t)
    <3>1. Len(s) + i \in 1..Len(t) /\ t[Len(s) + i] = init[i]
      BY <1>1
    <3> QED BY <1>2, <3>1
  <2>4. ToSet(t) \subseteq ToSet(s) \cup ToSet(init)
    BY <1>2, <2>1
  <2>5. ToSet(s) \subseteq ToSet(t) /\ ToSet(init) \subseteq ToSet(t)
    BY <1>2, <2>2, <2>3
  <2> QED BY ONLY <2>4, <2>5
<1>4. \A r, q \in Req : InitMessage(r) = InitMessage(q) => r = q
  BY DEF InitMessage
<1>5. \A r \in Req : InitMessage(r) \in ToSet(t) <=> InitMessage(r) \in ToSet(s) \/ r \in N
  BY <1>0, <1>3, <1>4
<1>6. N = {} => t = s
  <2>1. ASSUME N = {} PROVE Len(init) = 0
    <3>1. ToSet(init) = {}
      BY <1>0, <2>1
    <3>2. \A i \in 1..Len(init) : init[i] \in ToSet(init)
      BY <1>2
    <3>3. 1 \notin 1..Len(init)
      BY <3>1, <3>2
    <3> QED BY <1>1, <3>3
  <2>2. ASSUME Len(init) = 0 PROVE t = s
    <3>1. Len(t) = Len(s)
      BY <1>1, <2>2
    <3> QED BY <1>1, <3>1
  <2> QED BY <2>1, <2>2
<1>7. ASSUME NEW i \in 1..Len(t), i \notin 1..Len(s)
      PROVE  \E r \in N : t[i] = InitMessage(r) /\ t[i].type = "init"
  <2>1. t[i] \in ToSet(init)
    BY <1>1, <1>2, <1>7
  <2>2. PICK r \in N : t[i] = InitMessage(r)
    BY <1>0, <2>1
  <2>3. t[i].type = "init"
    BY <2>2 DEF InitMessage
  <2> QED BY <2>2, <2>3
<1>8. ASSUME \A i, j \in 1..Len(s) : s[i].type = "init" /\ s[i] = s[j] => i = j,
             NEW i \in 1..Len(t), NEW j \in 1..Len(t), t[i].type = "init", t[i] = t[j]
      PROVE  i = j
  <2>1. CASE i \in 1..Len(s) /\ j \in 1..Len(s)
    BY <1>1, <1>8, <2>1
  <2>2. CASE i \notin 1..Len(s) /\ j \notin 1..Len(s)
    <3>1. i - Len(s) \in 1..Len(init) /\ j - Len(s) \in 1..Len(init) /\ init[i - Len(s)] = init[j - Len(s)]
      BY <1>1, <1>8, <2>2
    <3>2. i - Len(s) = j - Len(s)
      BY <1>0, <3>1 DEF Distinct
    <3> QED BY <1>1, <3>2
  <2>3. CASE i \in 1..Len(s) /\ j \notin 1..Len(s)
    <3>1. PICK r \in N : t[j] = InitMessage(r)
      BY <1>7, <2>3
    <3>2. t[i] \in ToSet(s)
      BY <1>1, <1>2, <2>3
    <3> QED BY <1>8, <3>1, <3>2
  <2>4. CASE i \notin 1..Len(s) /\ j \in 1..Len(s)
    <3>1. PICK r \in N : t[i] = InitMessage(r)
      BY <1>7, <2>4
    <3>2. t[j] \in ToSet(s)
      BY <1>1, <1>2, <2>4
    <3> QED BY <1>8, <3>1, <3>2
  <2> QED BY <2>1, <2>2, <2>3, <2>4
<1>9. ASSUME NEW i \in 1..Len(t), t[i].type = "register" PROVE i \in 1..Len(s) /\ t[i] = s[i]
  <2>1. i \in 1..Len(s)
    BY <1>7, <1>9
  <2> QED BY <1>1, <2>1
<1> QED BY <1>5, <1>6, <1>8, <1>9 DEF OffersAdded

(* pop_preallocated *)
LEMMA PopPreallocatedProtocol ==
  ASSUME Memory, Memory', Protocol, PopPreallocated
  PROVE  Protocol' /\ \A k \in Rank : InTransfer(k)' = InTransfer(k)
<1> USE DEF Protocol, Memory
<1>0. config \in Configs
  BY DEF PrefillMemory, PrefillTypes
<1>1. PICK N, lost, polled \in SUBSET ToSet(prealloc_queue), init \in Seq(ToPrefill) :
           /\ Concludes(d_status, d_conclude, d_status', d_conclude', polled, lost)
           /\ N \cap lost = {} /\ ToSet(prealloc_queue') = ToSet(prealloc_queue) \ (N \cup lost)
           /\ ToSet(transfer_q') = ToSet(transfer_q) \cup N
           /\ waiting_for_input \subseteq waiting_for_input' /\ N \subseteq waiting_for_input'
           /\ \A r \in waiting_for_input' : r \notin waiting_for_input =>
                r \in ToSet(prealloc_queue) /\ \A k \in Rank : Poll(d_status, d_conclude, k, r) \in {WaitingForInput, Success}
           /\ \A r \in Req : IF r \in N THEN d_meta'[r] # 0 ELSE row'[r] = row[r] /\ d_meta'[r] = d_meta[r]
           /\ \A k \in Rank : to_prefill'[k] = to_prefill[k] \o init
           /\ Distinct(init) /\ ToSet(init) = {InitMessage(r) : r \in N}
           /\ InDecode' = InDecode
           /\ UNCHANGED <<config, alive, p_status, to_decode, d_arrived, first_token,
                          prefillVars, threadVars, connVars, memVars>>
  BY <1>0, PopPreallocatedEffect
<1>2. /\ Rank' = Rank /\ ToSet(prealloc_queue) \subseteq Req /\ ToSet(prealloc_queue) \subseteq d_arrived
      /\ N \in SUBSET Req
      /\ UNCHANGED <<p_meta, p_conclude, sent, transfer_infos, failed_sessions, connected>>
  BY <1>1, HolderFacts DEF Rank, DecodeMemory, DecodePlaces, prefillVars, threadVars, connVars
<1>3. Chunks' /\ \A k \in Rank : InTransfer(k)' = InTransfer(k)
  BY <1>1, ChunksKept DEF prefillVars, threadVars
<1>4. Prefills'
  BY <1>1, PrefillsKept DEF prefillPart, prefillVars
<1>5. ASSUME NEW k \in Rank, NEW r \in N
      PROVE  /\ d_meta[r] = 0 /\ p_meta[r] = 0 /\ r \notin transfer_infos[k]
             /\ InitMessage(r) \notin ToSet(to_prefill[k])
  <2>1. r \in Req /\ d_meta[r] = 0
    BY <1>2 DEF Receivers, ReceiverOf
  <2> QED BY <2>1 DEF Offers, OfferOf
<1>6. ASSUME NEW k \in Rank, NEW r \in waiting_for_input', r \in ToSet(prealloc_queue), alive
      PROVE  d_status[k][r] = WaitingForInput /\ d_conclude[k][r] = Absent /\ k \in connected
  <2>1. r \in Req
    BY <1>2, <1>6
  <2>2. r \in waiting_for_input \/ Poll(d_status, d_conclude, k, r) \in {WaitingForInput, Success}
    BY <1>1
  <2> QED BY <1>6, <2>1, <2>2, WaiterReady
<1>7. ASSUME NEW k \in Rank
      PROVE  /\ \A r \in Req : InitMessage(r) \in ToSet(to_prefill'[k]) <=> InitMessage(r) \in ToSet(to_prefill[k]) \/ r \in N
             /\ N = {} => to_prefill'[k] = to_prefill[k]
             /\ (\A i, j \in 1..Len(to_prefill[k]) :
                    to_prefill[k][i].type = "init" /\ to_prefill[k][i] = to_prefill[k][j] => i = j) =>
                  \A i, j \in 1..Len(to_prefill'[k]) :
                    to_prefill'[k][i].type = "init" /\ to_prefill'[k][i] = to_prefill'[k][j] => i = j
             /\ \A i \in 1..Len(to_prefill'[k]) : to_prefill'[k][i].type = "register" =>
                  i \in 1..Len(to_prefill[k]) /\ to_prefill'[k][i] = to_prefill[k][i]
  <2>1. PICK s, t : s = to_prefill[k] /\ t = to_prefill'[k]
    OBVIOUS
  <2>2. s \in Seq(ToPrefill) /\ t = s \o init /\ \A r \in N : InitMessage(r) \notin ToSet(s)
    BY <1>1, <1>5, <2>1 DEF ThreadTypes
  <2>a. N \in SUBSET Req /\ init \in Seq(ToPrefill) /\ AreOffers(init, N)
    BY <1>1, <1>2 DEF AreOffers
  <2>3. OffersAdded(s, t, N)
    BY <2>a, <2>2, OffersSent
  <2> QED BY <2>1, <2>3 DEF OffersAdded
<1>8. Offers'
  <2> SUFFICES ASSUME NEW k \in Rank, NEW r \in Req PROVE OfferOf(k, r)'
    BY <1>2 DEF Offers
  <2>1. OfferOf(k, r) /\ UNCHANGED <<p_meta, p_status, p_conclude, transfer_infos>>
    BY <1>1, <1>2 DEF Offers
  <2>2. InitMessage(r) \in ToSet(to_prefill'[k]) <=> InitMessage(r) \in ToSet(to_prefill[k]) \/ r \in N
    BY <1>7
  <2>3. CASE r \in N
    BY <1>1, <1>5, <2>1, <2>2, <2>3 DEF OfferOf, InitMessage
  <2>4. CASE r \notin N
    BY <1>1, <2>1, <2>2, <2>4 DEF OfferOf, InitMessage
  <2> QED BY <2>3, <2>4
<1>9. Receivers'
  <2>1. waiting_for_input' \subseteq d_arrived'
    BY <1>1, <1>2 DEF Receivers
  <2>2. ASSUME NEW k \in Rank, NEW r \in Req PROVE ReceiverOf(k, r)'
    <3>1. ReceiverOf(k, r)
      BY DEF Receivers
    <3>2. r \notin d_arrived' \/ r \in ToSet(prealloc_queue') => d_meta'[r] = 0
      BY <1>1, <1>2, <3>1 DEF ReceiverOf
    <3>3. d_meta'[r] = 0 => d_status'[k][r] \in {Absent, WaitingForInput, Failed} /\ d_conclude'[k][r] \in {Absent, Failed}
      <4>1. d_meta'[r] = 0 => d_meta[r] = 0
        BY <1>1
      <4>2. ASSUME d_meta[r] = 0
            PROVE  d_status'[k][r] \in {Absent, WaitingForInput, Failed} /\ d_conclude'[k][r] \in {Absent, Failed}
        <5>1. d_status[k][r] \in {Absent, WaitingForInput, Failed} /\ d_conclude[k][r] \in {Absent, Failed}
          BY <3>1, <4>2 DEF ReceiverOf
        <5> QED BY <1>1, <5>1 DEF Concludes, Absent, WaitingForInput, Failed, Success
      <4> QED BY <4>1, <4>2
    <3>4. ASSUME alive', r \in waiting_for_input', r \in ToSet(prealloc_queue')
          PROVE  d_status'[k][r] = WaitingForInput /\ d_conclude'[k][r] = Absent
      <4>1. r \in ToSet(prealloc_queue) /\ r \notin lost /\ alive
        BY <1>1, <3>4
      <4>2. d_status[k][r] = WaitingForInput /\ d_conclude[k][r] = Absent
        BY <1>6, <3>4, <4>1
      <4> QED BY <1>1, <4>1, <4>2 DEF Concludes
    <3>5. ASSUME alive', d_status'[k][r] = WaitingForInput \/ r \in waiting_for_input' PROVE k \in connected'
      <4>0. alive
        BY <1>1, <3>5
      <4>1. CASE d_status'[k][r] = WaitingForInput
        <5>1. d_status[k][r] = WaitingForInput
          BY <1>1, <4>1 DEF Concludes, Absent, WaitingForInput
        <5> QED BY <1>2, <3>1, <4>0, <5>1 DEF ReceiverOf
      <4>2. CASE r \in waiting_for_input' /\ r \notin waiting_for_input
        <5>1. r \in ToSet(prealloc_queue)
          BY <1>1, <4>2
        <5> QED BY <1>2, <1>6, <4>0, <4>2, <5>1
      <4>3. CASE r \in waiting_for_input
        BY <1>2, <3>1, <4>0, <4>3 DEF ReceiverOf
      <4> QED BY <3>5, <4>1, <4>2, <4>3
    <3> QED BY <3>2, <3>3, <3>4, <3>5 DEF ReceiverOf
  <2> QED BY <1>2, <2>1, <2>2 DEF Receivers
<1>10. Messages'
  <2> SUFFICES ASSUME NEW k \in Rank PROVE MessagesOf(k)'
    BY <1>2 DEF Messages
  <2>1. MessagesOf(k) /\ UNCHANGED <<alive, transfer_infos, failed_sessions, connected>>
    BY <1>1, <1>2 DEF Messages
  <2>2. alive /\ k \notin connected => N = {}
    BY <1>1, <1>6
  <2>3. alive /\ k \notin connected => to_prefill'[k] = Empty
    BY <1>7, <2>1, <2>2 DEF MessagesOf
  <2>4. \A i, j \in 1..Len(to_prefill'[k]) :
          to_prefill'[k][i].type = "init" /\ to_prefill'[k][i] = to_prefill'[k][j] => i = j
    BY <1>7, <2>1 DEF MessagesOf
  <2>5. ASSUME NEW i \in 1..Len(to_prefill'[k]), to_prefill'[k][i].type = "register"
        PROVE  i = 1 /\ transfer_infos[k] = {} /\ k \notin failed_sessions
    <3>1. i \in 1..Len(to_prefill[k]) /\ to_prefill[k][i].type = "register"
      BY <1>7, <2>5
    <3> QED BY <2>1, <3>1 DEF MessagesOf
  <2> QED BY <2>1, <2>3, <2>4, <2>5 DEF MessagesOf
<1>11. Failures'
  <2>1. ASSUME NEW k \in Rank, NEW q \in Req, NEW v \in {Failed, Success}
        PROVE  d_status'[k][q] = v \/ d_conclude'[k][q] = v => d_status[k][q] = v \/ d_conclude[k][q] = v
    BY <1>1 DEF Concludes, Absent, Failed, Success
  <2>2. ASSUME NEW k \in Rank, NEW q \in Req
        PROVE  (FailedAt(k, q)' => FailedAt(k, q)) /\ (SuccessAt(k, q)' => SuccessAt(k, q))
    <3>1. UNCHANGED <<alive, p_status, p_conclude, to_decode>>
      BY <1>1, <1>2
    <3>2. SuccessAt(k, q)' => SuccessAt(k, q)
      BY <2>1, <3>1 DEF SuccessAt, Told
    <3>3. CASE q \in N
      <4>1. alive => d_status[k][q] = WaitingForInput /\ d_conclude[k][q] = Absent
        BY <1>1, <1>6, <3>3
      <4>2. alive => d_status'[k][q] # Failed /\ d_conclude'[k][q] # Failed
        BY <2>1, <4>1 DEF WaitingForInput, Absent, Failed
      <4> QED BY <3>1, <3>2, <4>2 DEF FailedAt, Told
    <3>4. CASE q \notin N
      <4>1. d_meta'[q] = d_meta[q]
        BY <1>1, <3>4
      <4> QED BY <2>1, <3>1, <3>2, <4>1 DEF FailedAt, Told
    <3> QED BY <3>3, <3>4
  <2>3. \A k \in Rank, q \in Req : Settled(k, q)' <=> Settled(k, q)
    BY <1>2, <1>3, SettledKept
  <2> QED BY <1>1, <1>2, <2>2, <2>3, FailuresFrom
<1> QED BY <1>3, <1>4, <1>8, <1>9, <1>10, <1>11

---------------------------------------------------------------------------
(* The protocol is invariant                                               *)

(* It holds at first. *)
LEMMA ProtocolInit == Init => Protocol
<1> SUFFICES ASSUME Init PROVE Protocol
  OBVIOUS
<1>1. Memory
  BY MemoryInit
<1>2. /\ p_arrived = {} /\ bootstrap_queue = Empty /\ p_waiting = Empty /\ inflight_queue = Empty
      /\ sent = [r \in Req |-> 0] /\ pending = {} /\ p_meta = [r \in Req |-> 0]
      /\ p_status = [k \in Rank |-> [r \in Req |-> Absent]] /\ p_conclude = p_status
      /\ transfer_infos = [k \in Rank |-> {}] /\ transfer_queue = [k \in Rank |-> Empty]
      /\ worker = [k \in Rank |-> NoChunk] /\ failed_sessions = {}
      /\ to_prefill = [k \in Rank |-> Empty] /\ to_decode = [k \in Rank |-> Empty]
      /\ d_arrived = {} /\ prealloc_queue = Empty /\ waiting_for_input = {}
      /\ d_meta = [r \in Req |-> 0] /\ d_status = p_status /\ d_conclude = p_status
  BY DEF Init
<1>3. ToSet(Empty) = {} /\ Len(Empty) = 0 /\ \A i : i \notin 1..0
  BY DEF ToSet, Empty
<1>4. \A k \in Rank : InTransfer(k) = {} /\ InOrder(transfer_queue[k], worker[k])
  BY <1>2, <1>3 DEF InTransfer, ChunksOf, InOrder
<1>5. \A k \in Rank, r \in Req : /\ p_status[k][r] = Absent /\ p_conclude[k][r] = Absent
                                 /\ d_status[k][r] = Absent /\ d_conclude[k][r] = Absent
  BY <1>2
<1>6. /\ \A r \in Req : sent[r] = 0 /\ p_meta[r] = 0 /\ d_meta[r] = 0
      /\ \A k \in Rank : transfer_infos[k] = {} /\ to_prefill[k] = Empty /\ to_decode[k] = Empty
  BY <1>2
<1>7. Absent \notin {Failed, Bootstrapping, WaitingForInput, Success}
  BY DEF Absent, Failed, Bootstrapping, WaitingForInput, Success
<1>8. Chunks
  BY <1>4 DEF Chunks
<1>9. Prefills
  <2>1. \A r \in Req : InputLen[r] \in Nat
    BY ConstantFacts
  <2> QED BY <1>2, <1>3, <1>6, <2>1 DEF Prefills, PrefillOf
<1>10. Offers
  BY <1>3, <1>5, <1>6, <1>7 DEF Offers, OfferOf
<1>11. Receivers
  BY <1>2, <1>3, <1>5, <1>6, <1>7 DEF Receivers, ReceiverOf
<1>12. Messages
  BY <1>2, <1>3, <1>6 DEF Messages, MessagesOf
<1>13. Failures
  BY <1>2, <1>3, <1>5, <1>6, <1>7 DEF Failures, FailureOf, FailedAt, SuccessAt, Told
<1> QED BY <1>8, <1>9, <1>10, <1>11, <1>12, <1>13 DEF Protocol

(* Every step keeps it. *)
LEMMA ProtocolStep ==
  ASSUME Memory, Memory', Protocol, [Next]_vars
  PROVE  Protocol'
<1>1. CASE UNCHANGED vars
  <2>1. UNCHANGED protocolVars
    BY <1>1 DEF vars, protocolVars, prefillPart, offerPart, receiverPart, messagePart, failurePart, prefillVars,
                threadVars, decodeVars, connVars
  <2> QED BY <2>1, QuietProtocol
<1>2. CASE \E r \in Req : ArrivePrefill(r)
  BY <1>2, ArrivePrefillProtocol
<1>3. CASE \E r \in Req : ArriveDecode(r)
  BY <1>3, ArriveDecodeProtocol
<1>4. CASE Bootstrap
  BY <1>4, BootstrapProtocol
<1>5. CASE PrefillChunk
  BY <1>5, PrefillChunkProtocol
<1>6. CASE PollInflight
  BY <1>6, PollInflightProtocol
<1>7. CASE \E k \in Rank, r \in Req : AfterPut(k, r)
  BY <1>7, AfterPutProtocol
<1>8. CASE PopPreallocated
  BY <1>8, PopPreallocatedProtocol
<1>9. CASE PopTransferred
  BY <1>9, PopTransferredProtocol
<1>10. CASE Prebuilt
  <2>1. UNCHANGED protocolVars
    BY <1>10 DEF Prebuilt, protocolVars, prefillPart, offerPart, receiverPart, messagePart, failurePart, prefillVars,
                threadVars, connVars
  <2> QED BY <2>1, QuietProtocol
<1>11. CASE Decode
  <2>1. UNCHANGED protocolVars
    BY <1>11 DEF Decode, protocolVars, prefillPart, offerPart, receiverPart, messagePart, failurePart, prefillVars,
                threadVars, connVars
  <2> QED BY <2>1, QuietProtocol
<1>12. CASE \E k \in Rank : BootstrapThread(k)
  BY <1>12, BootstrapThreadProtocol
<1>13. CASE \E k \in Rank : TransferStart(k)
  BY <1>13, TransferStartProtocol
<1>14. CASE \E k \in Rank, o \in {"ok", "kv", "aux"} : TransferEnd(k, o)
  BY <1>14, TransferEndProtocol
<1>15. CASE \E k \in Rank : DecodeThread(k)
  BY <1>15, DecodeThreadProtocol
<1>16. CASE \E k \in Rank : Heartbeat(k)
  BY <1>16, HeartbeatProtocol
<1>17. CASE Crash
  BY <1>17, CrashProtocol
<1> QED BY <1>1, <1>2, <1>3, <1>4, <1>5, <1>6, <1>7, <1>8, <1>9, <1>10, <1>11, <1>12, <1>13, <1>14, <1>15, <1>16,
           <1>17 DEF Next, Progress, PrefillThreads

---------------------------------------------------------------------------
(* Transfers: who waits for what                                           *)

(* With one rank, or without failures, a rank that failed is the only one. *)
LEMMA FailedAlone ==
  ASSUME Memory, Protocol, Alone, NEW k \in Rank, NEW x \in Rank, NEW r \in Req, FailedAt(x, r)
  PROVE  p_meta[r] # 0 /\ (k \in failed_sessions \/ Settled(k, r))
<1>1. "send" \in faults /\ p_meta[r] # 0 /\ (x \in failed_sessions \/ Settled(x, r))
  BY DEF Protocol, Failures, FailureOf
<1>2. Cardinality(Rank) = 1
  BY <1>1 DEF Alone
<1>3. config \in Configs
  BY DEF Memory, PrefillMemory, PrefillTypes
<1>4. k = x
  <2>1. IsFiniteSet(Rank)
    BY <1>3, ConfigFacts
  <2>2. PICK y : Rank = {y}
    BY <1>2, <2>1, FS_Singleton
  <2> QED BY <2>2
<1> QED BY <1>1, <1>4

(* What rank k has settled is known to both servers. *)
LEMMA SettledStarted ==
  ASSUME Protocol, NEW k \in Rank, NEW r \in Req, Settled(k, r)
  PROVE  p_meta[r] # 0 /\ sent[r] # 0
<1>1. sent[r] # 0
  BY ConstantFacts DEF Settled
<1> QED BY <1>1 DEF Protocol, Prefills, PrefillOf

(* A request comes to the prefill server. *)
LEMMA ArrivePrefillOpen ==
  ASSUME Memory, Protocol, Open, NEW r \in Req, ArrivePrefill(r)
  PROVE  Open'
<1>1. /\ r \notin p_arrived
      /\ p_status' = [k \in Rank |-> [p_status[k] EXCEPT ![r] = Updated(@, Bootstrapping)]]
      /\ UNCHANGED <<config, alive, p_waiting, sent, inflight_queue, pending, p_meta, p_aux, p_conclude, to_prefill,
                     to_decode, d_status, threadVars, decodeVars, connVars>>
  BY DEF ArrivePrefill
<1>2. Rank' = Rank /\ PHeld' = PHeld /\ UNCHANGED <<d_meta, transfer_q, transfer_infos, failed_sessions>>
  BY <1>1 DEF Rank, PHeld, decodeVars, threadVars
<1>3. \A k \in Rank : InTransfer(k)' = InTransfer(k)
  BY ArrivePrefillProtocol
<1>4. p_meta[r] = 0
  BY <1>1 DEF Protocol, Prefills, PrefillOf
<1>5. ASSUME NEW k \in Rank, NEW q \in Req PROVE OpenOf(k, q)'
  <2>1. OpenOf(k, q) /\ (Settled(k, q)' <=> Settled(k, q))
    BY <1>1, <1>3, SettledKept DEF Open
  <2>2. q # r => p_status'[k][q] = p_status[k][q]
    <3>1. p_status[k] \in [Req -> StatusValue]
      BY DEF Memory, PrefillMemory, PrefillTypes
    <3> QED BY <1>1, <3>1
  <2> QED BY <1>1, <1>2, <1>4, <2>1, <2>2 DEF OpenOf
<1> QED BY <1>2, <1>5 DEF Open

(* pop_bootstrapped *)
LEMMA BootstrapOpen ==
  ASSUME Memory, Memory', Protocol, Open, Bootstrap
  PROVE  Open'
<1> USE DEF Protocol, Memory
<1>1. PICK S \in SUBSET ToSet(bootstrap_queue) :
           /\ \A k \in Rank, r \in Req : p_status'[k][r] = p_status[k][r] /\ p_conclude'[k][r] = p_conclude[k][r]
           /\ \A r \in Req : IF r \in S THEN p_meta[r] = 0 /\ p_meta'[r] # 0 ELSE p_meta'[r] = p_meta[r]
           /\ \A k \in Rank, r \in S : p_status[k][r] = WaitingForInput
           /\ ToSet(p_waiting') = ToSet(p_waiting) \cup S
           /\ UNCHANGED <<config, alive, p_arrived, sent, inflight_queue, pending, p_aux, to_prefill,
                          to_decode, d_status, threadVars, decodeVars, connVars, memVars>>
  BY BootstrapEffect
<1>2. Rank' = Rank /\ PHeld' = PHeld \cup S /\ UNCHANGED <<d_meta, transfer_q, transfer_infos, failed_sessions>>
  BY <1>1 DEF Rank, PHeld, decodeVars, threadVars
<1>3. \A k \in Rank : InTransfer(k)' = InTransfer(k)
  BY BootstrapProtocol
<1>4. ASSUME NEW k \in Rank, NEW q \in Req PROVE OpenOf(k, q)'
  <2>1. OpenOf(k, q) /\ (Settled(k, q)' <=> Settled(k, q))
    BY <1>1, <1>3, SettledKept DEF Open
  <2>2. CASE q \in S
    <3>1. p_meta[q] = 0 /\ p_meta'[q] # 0 /\ p_status[k][q] = WaitingForInput
      BY <1>1, <2>2
    <3>2. p_conclude[k][q] = Absent /\ q \in transfer_infos[k] /\ d_meta[q] # 0
      BY <3>1 DEF Offers, OfferOf
    <3>3. alive => q \in ToSet(transfer_q)
      BY <2>1, <3>1, <3>2 DEF OpenOf
    <3> QED BY <1>1, <1>2, <2>2, <3>1, <3>2, <3>3 DEF OpenOf
  <2>3. CASE q \notin S
    BY <1>1, <1>2, <2>1, <2>3 DEF OpenOf
  <2> QED BY <2>2, <2>3
<1> QED BY <1>2, <1>4 DEF Open

(* The next chunk goes to the transfer queues. *)
LEMMA PrefillChunkOpen ==
  ASSUME Memory, Protocol, Open, PrefillChunk
  PROVE  Open'
<1> USE DEF Protocol, Memory
<1>1. PICK r \in Req, c \in Chunk, put \in SUBSET Rank :
              /\ r \in ToSet(p_waiting) /\ p_meta[r] # 0 /\ sent[r] < InputLen[r]
              /\ c.room = r /\ c.page = sent[r] + 1
              /\ \A q \in Req : sent'[q] = IF q = r THEN sent[r] + 1 ELSE sent[q]
              /\ \A k \in Rank : InTransfer(k)' = IF k \in put THEN InTransfer(k) \cup {c} ELSE InTransfer(k)
  BY PutEffect
<1>2. UNCHANGED <<config, alive, p_meta, p_status, p_conclude, transfer_infos, failed_sessions, d_meta, transfer_q>>
  BY DEF PrefillChunk, decodeVars
<1>3. Rank' = Rank
  BY <1>2 DEF Rank
<1>4. PHeld' = PHeld
  <2>1. PICK q \in Req, d \in Chunk, S \in SUBSET Rank :
          /\ q \in ToSet(p_waiting)
          /\ IF d.is_last
             THEN /\ ToSet(p_waiting') = ToSet(p_waiting) \ {q}
                  /\ ToSet(inflight_queue') = ToSet(inflight_queue) \cup {q}
             ELSE UNCHANGED <<p_waiting, inflight_queue>>
    BY PrefillChunkEffect
  <2> QED BY <2>1 DEF PHeld
<1>5. ASSUME NEW k \in Rank, NEW q \in Req, Settled(k, q) PROVE Settled(k, q)'
  <2>1. sent[r] \in Nat /\ InputLen[r] \in Nat
    BY ConstantFacts DEF PrefillMemory, PrefillTypes
  <2>2. q # r
    BY <1>1, <1>5, <2>1 DEF Settled
  <2>3. \A d \in InTransfer(k)' : d.room # q
    BY <1>1, <1>5, <2>2 DEF Settled
  <2> QED BY <1>1, <1>5, <2>2, <2>3 DEF Settled
<1>6. ASSUME NEW k \in Rank, NEW q \in Req PROVE OpenOf(k, q)'
  <2>1. OpenOf(k, q) /\ (Settled(k, q) => Settled(k, q)')
    BY <1>5 DEF Open
  <2> QED BY <1>2, <1>4, <2>1 DEF OpenOf
<1> QED BY <1>3, <1>6 DEF Open

(* The status after a chunk was put into the queue. *)
LEMMA AfterPutOpen ==
  ASSUME Memory, Protocol, Open, NEW k \in Rank, NEW r \in Req, AfterPut(k, r)
  PROVE  Open'
<1>1. UNCHANGED <<config, alive, p_waiting, sent, inflight_queue, p_meta, p_conclude, threadVars, decodeVars>>
  BY DEF AfterPut
<1>2. Rank' = Rank /\ PHeld' = PHeld /\ UNCHANGED <<d_meta, transfer_q, transfer_infos, failed_sessions>>
  BY <1>1 DEF Rank, PHeld, decodeVars, threadVars
<1>3. \A x \in Rank : InTransfer(x)' = InTransfer(x)
  BY AfterPutProtocol
<1>4. /\ \A x \in Rank, q \in Req : x # k \/ q # r => p_status'[x][q] = p_status[x][q]
      /\ p_status[k][r] = WaitingForInput => p_status'[k][r] = WaitingForInput
  BY AfterPutEffect
<1>5. ASSUME NEW x \in Rank, NEW q \in Req PROVE OpenOf(x, q)'
  <2>1. OpenOf(x, q) /\ (Settled(x, q)' <=> Settled(x, q))
    BY <1>1, <1>3, SettledKept DEF Open
  <2>2. p_status[x][q] = WaitingForInput => p_status'[x][q] = WaitingForInput
    BY <1>4
  <2> QED BY <1>1, <1>2, <2>1, <2>2 DEF OpenOf
<1> QED BY <1>2, <1>5 DEF Open

(* process_disagg_prefill_inflight_queue *)
LEMMA PollInflightOpen ==
  ASSUME Memory, Protocol, Alone, Open, PollInflight
  PROVE  Open'
<1> USE DEF Protocol, Memory
<1>1. PICK gone \in SUBSET ToSet(inflight_queue) :
           /\ Concludes(p_status, p_conclude, p_status', p_conclude', ToSet(inflight_queue), gone)
           /\ \A r \in gone : \/ \A k \in Rank : p_status[k][r] = Success \/ p_conclude[k][r] = Success
                              \/ \E k \in Rank : p_status[k][r] = Failed \/ p_conclude[k][r] = Failed
           /\ ToSet(inflight_queue') = ToSet(inflight_queue) \ gone
           /\ UNCHANGED <<config, alive, p_arrived, bootstrap_queue, p_waiting, sent, pending, p_meta,
                          p_aux, to_prefill, to_decode, d_status, threadVars, decodeVars, connVars, memVars>>
  BY PollInflightEffect
<1>2. Rank' = Rank /\ PHeld \ gone \subseteq PHeld' /\ UNCHANGED <<d_meta, transfer_q, transfer_infos, failed_sessions>>
  BY <1>1 DEF Rank, PHeld, decodeVars, threadVars
<1>3. \A x \in Rank : InTransfer(x)' = InTransfer(x)
  BY PollInflightProtocol
<1>4. ASSUME NEW k \in Rank, NEW r \in gone, r \in Req PROVE k \in failed_sessions \/ Settled(k, r)
  <2>1. CASE \A x \in Rank : p_status[x][r] = Success \/ p_conclude[x][r] = Success
    <3>1. SuccessAt(k, r)
      BY <2>1 DEF SuccessAt
    <3> QED BY <1>4, <3>1 DEF Failures, FailureOf
  <2>2. CASE \E x \in Rank : p_status[x][r] = Failed \/ p_conclude[x][r] = Failed
    <3>1. PICK x \in Rank : FailedAt(x, r)
      BY <2>2 DEF FailedAt
    <3> QED BY <1>4, <3>1, FailedAlone
  <2> QED BY <1>1, <2>1, <2>2
<1>5. ASSUME NEW k \in Rank, NEW q \in Req PROVE OpenOf(k, q)'
  <2>1. OpenOf(k, q) /\ (Settled(k, q)' <=> Settled(k, q))
    BY <1>1, <1>3, SettledKept DEF Open
  <2>2. CASE q \in gone
    BY <1>1, <1>2, <1>4, <2>1, <2>2 DEF OpenOf
  <2>3. CASE q \notin gone
    <3>1. p_status'[k][q] = p_status[k][q] /\ (q \in PHeld => q \in PHeld')
      BY <1>1, <1>2, <2>3 DEF Concludes
    <3>2. p_status[k][q] = WaitingForInput /\ p_conclude[k][q] = Absent => p_conclude'[k][q] = Absent
      BY <1>1 DEF Concludes
    <3> QED BY <1>1, <1>2, <2>1, <3>1, <3>2 DEF OpenOf
  <2> QED BY <2>2, <2>3
<1> QED BY <1>2, <1>5 DEF Open

(* bootstrap_thread *)
LEMMA BootstrapThreadOpen ==
  ASSUME Memory, Protocol, Open, NEW k \in Rank, BootstrapThread(k)
  PROVE  Open'
<1>1. PICK S \in SUBSET Req :
        /\ transfer_infos'[k] = transfer_infos[k] \cup S
        /\ \A r \in S : p_meta[r] = 0
        /\ \A x \in Rank, q \in Req : x # k \/ q \notin S => p_status'[x][q] = p_status[x][q]
  BY BootstrapThreadEffect
<1>2. /\ UNCHANGED failed_sessions
      /\ \A x \in Rank : x # k => transfer_infos'[x] = transfer_infos[x]
  BY BootstrapThreadEffect
<1>3. UNCHANGED <<config, alive, prefillVars, decodeVars>>
  BY DEF BootstrapThread
<1>4. Rank' = Rank /\ PHeld' = PHeld /\ UNCHANGED <<d_meta, transfer_q, sent, p_meta, p_conclude>>
  BY <1>3 DEF Rank, PHeld, decodeVars, prefillVars
<1>5. \A x \in Rank : InTransfer(x)' = InTransfer(x)
  BY BootstrapThreadProtocol
<1>6. ASSUME NEW x \in Rank, NEW q \in Req PROVE OpenOf(x, q)'
  <2>1. OpenOf(x, q) /\ (Settled(x, q)' <=> Settled(x, q))
    BY <1>4, <1>5, SettledKept DEF Open
  <2>2. /\ q \in transfer_infos[x] => q \in transfer_infos'[x]
        /\ p_meta[q] # 0 => p_status'[x][q] = p_status[x][q]
    BY <1>1, <1>2
  <2> QED BY <1>2, <1>3, <1>4, <2>1, <2>2 DEF OpenOf
<1> QED BY <1>4, <1>6 DEF Open

(* pop_transferred *)
LEMMA PopTransferredOpen ==
  ASSUME Memory, Protocol, Alone, Open, PopTransferred
  PROVE  Open'
<1> USE DEF Protocol, Memory
<1>0. config \in Configs
  BY DEF PrefillMemory, PrefillTypes
<1>1. PICK done, lost \in SUBSET ToSet(transfer_q) :
           /\ \A r \in done : \A k \in Rank : d_status[k][r] = Success \/ d_conclude[k][r] = Success
           /\ \A r \in lost : \E k \in Rank : d_status[k][r] = Failed \/ d_conclude[k][r] = Failed
           /\ ToSet(transfer_q') = ToSet(transfer_q) \ (done \cup lost)
           /\ UNCHANGED <<config, alive, p_status, to_prefill, to_decode, d_arrived, prealloc_queue,
                          waiting_for_input, d_meta, row, prefillVars, threadVars, connVars, memVars>>
  BY <1>0, PopTransferredEffect
<1>2. Rank' = Rank /\ PHeld' = PHeld /\ UNCHANGED <<sent, p_meta, p_conclude, transfer_infos, failed_sessions>>
  BY <1>1 DEF Rank, PHeld, prefillVars, threadVars
<1>3. \A x \in Rank : InTransfer(x)' = InTransfer(x)
  BY PopTransferredProtocol
<1>4. ASSUME NEW k \in Rank, NEW r \in done \cup lost, r \in Req, alive
      PROVE  p_meta[r] # 0 /\ (k \in failed_sessions \/ Settled(k, r))
  <2>1. CASE r \in done
    <3>1. SuccessAt(k, r)
      BY <1>1, <2>1 DEF SuccessAt
    <3>2. Settled(k, r)
      BY <1>4, <3>1 DEF Failures, FailureOf
    <3> QED BY <1>4, <3>2, SettledStarted
  <2>2. CASE r \in lost
    <3>1. d_meta[r] \in DBuffer
      BY <2>2 DEF DecodeMemory, Split
    <3>2. d_meta[r] # 0
      BY <3>1, ConstantFacts DEF DBuffer
    <3>3. PICK x \in Rank : FailedAt(x, r)
      BY <1>1, <1>4, <2>2, <3>2 DEF FailedAt
    <3> QED BY <1>4, <3>3, FailedAlone
  <2> QED BY <1>4, <2>1, <2>2
<1>5. ASSUME NEW k \in Rank, NEW q \in Req PROVE OpenOf(k, q)'
  <2>1. OpenOf(k, q) /\ (Settled(k, q)' <=> Settled(k, q))
    BY <1>2, <1>3, SettledKept DEF Open
  <2>2. CASE q \in done \cup lost
    BY <1>1, <1>2, <1>4, <2>1, <2>2 DEF OpenOf
  <2>3. CASE q \notin done \cup lost
    <3>1. q \in ToSet(transfer_q) => q \in ToSet(transfer_q')
      BY <1>1, <2>3
    <3> QED BY <1>1, <1>2, <2>1, <3>1 DEF OpenOf
  <2> QED BY <2>2, <2>3
<1> QED BY <1>2, <1>5 DEF Open

---------------------------------------------------------------------------
(* Transfers: what is written                                              *)

(* What rank k has of r stays, and no more is expected of it. *)
LEMMA WrittenOnward ==
  ASSUME Memory, Protocol, NEW k \in Rank, NEW r \in Req, WrittenOf(k, r),
         k \notin failed_sessions' => k \notin failed_sessions,
         \A i : Carries(k, r, i) => Carries(k, r, i)', sent'[r] = sent[r], SuccessAt(k, r)' => SuccessAt(k, r),
         row'[r] = row[r], d_meta'[r] = d_meta[r],
         \A i \in 1..InputLen[r] : kv'[k][row[r][i]] = kv[k][row[r][i]],
         aux'[k][d_meta[r]] = aux[k][d_meta[r]]
  PROVE  WrittenOf(k, r)'
<1>1. Complete(k, r) => Complete(k, r)'
  BY DEF Complete
<1>2. ASSUME k \notin failed_sessions', NEW i \in 1..sent'[r]
      PROVE  Carries(k, r, i)' \/ kv'[k][row'[r][i]] = <<r, i>>
  <2>1. sent[r] \in Nat /\ InputLen[r] \in Nat /\ sent[r] <= InputLen[r]
    BY ConstantFacts DEF Memory, PrefillMemory, PrefillTypes, Protocol, Prefills, PrefillOf
  <2>2. i \in 1..sent[r] /\ i \in 1..InputLen[r]
    BY <2>1
  <2>3. Carries(k, r, i) \/ kv[k][row[r][i]] = <<r, i>>
    BY <1>2, <2>2 DEF WrittenOf
  <2> QED BY <2>2, <2>3
<1> QED BY <1>1, <1>2 DEF WrittenOf

(* The same, when rank k has the same chunks to transfer. *)
LEMMA WrittenStays ==
  ASSUME Memory, Protocol, NEW k \in Rank, NEW r \in Req, WrittenOf(k, r),
         k \notin failed_sessions' => k \notin failed_sessions,
         InTransfer(k)' = InTransfer(k), sent'[r] = sent[r], SuccessAt(k, r)' => SuccessAt(k, r),
         row'[r] = row[r], d_meta'[r] = d_meta[r],
         \A i \in 1..InputLen[r] : kv'[k][row[r][i]] = kv[k][row[r][i]],
         aux'[k][d_meta[r]] = aux[k][d_meta[r]]
  PROVE  WrittenOf(k, r)'
<1>1. \A i : Carries(k, r, i) => Carries(k, r, i)'
  BY DEF Carries
<1> QED BY <1>1, WrittenOnward

(* Nothing is written and nobody learns of a success. *)
LEMMA WrittenKept ==
  ASSUME Memory, Protocol, Written, Intact,
         UNCHANGED <<config, transfer_q, row, kv, aux, d_meta, failed_sessions, first_token>>, InDecode' = InDecode,
         \A k \in Rank : InTransfer(k)' = InTransfer(k), \A r \in Req : sent'[r] = sent[r],
         \A k \in Rank, r \in Req : SuccessAt(k, r)' => SuccessAt(k, r)
  PROVE  Written' /\ Intact'
<1>1. Rank' = Rank /\ ToSet(transfer_q) \subseteq Req
  BY HolderFacts DEF Rank, Memory
<1>2. ASSUME NEW k \in Rank, NEW r \in ToSet(transfer_q) PROVE WrittenOf(k, r)'
  <2>1. r \in Req /\ WrittenOf(k, r)
    BY <1>1 DEF Written
  <2> QED BY <2>1, WrittenStays
<1>3. Written'
  BY <1>1, <1>2 DEF Written
<1> QED BY <1>3, IntactKept

memoryVars == <<config, transfer_q, row, kv, aux, d_meta, failed_sessions, first_token, sent, d_waiting, last_batch,
                running_batch, d_done>>

(* The same, when the requests that decode are the same. *)
LEMMA WrittenFrame ==
  ASSUME Memory, Protocol, Written, Intact, UNCHANGED memoryVars,
         \A k \in Rank : InTransfer(k)' = InTransfer(k),
         \A k \in Rank, r \in Req : SuccessAt(k, r)' => SuccessAt(k, r)
  PROVE  Written' /\ Intact'
<1>1. InDecode' = InDecode
  BY DEF InDecode, memoryVars
<1> QED BY <1>1, WrittenKept DEF memoryVars

(* A success is known to somebody before. *)
LEMMA SuccessKept ==
  ASSUME NEW k, NEW r, UNCHANGED to_decode,
         p_status'[k][r] = Success \/ p_conclude'[k][r] = Success => p_status[k][r] = Success \/ p_conclude[k][r] = Success,
         d_status'[k][r] = Success \/ d_conclude'[k][r] = Success => d_status[k][r] = Success \/ d_conclude[k][r] = Success
  PROVE  SuccessAt(k, r)' => SuccessAt(k, r)
BY DEF SuccessAt, Told

(* A request comes to the prefill server. *)
LEMMA ArrivePrefillWritten ==
  ASSUME Memory, Protocol, Written, Intact, NEW r \in Req, ArrivePrefill(r)
  PROVE  Written' /\ Intact'
<1>1. /\ p_status' = [k \in Rank |-> [p_status[k] EXCEPT ![r] = Updated(@, Bootstrapping)]]
      /\ UNCHANGED <<config, sent, p_conclude, to_decode, d_status, threadVars, decodeVars, memVars>>
  BY DEF ArrivePrefill
<1>2. UNCHANGED memoryVars /\ UNCHANGED d_conclude
  BY <1>1 DEF memoryVars, threadVars, decodeVars, memVars
<1>3. \A k \in Rank : InTransfer(k)' = InTransfer(k)
  BY ArrivePrefillProtocol
<1>4. ASSUME NEW k \in Rank, NEW q \in Req PROVE SuccessAt(k, q)' => SuccessAt(k, q)
  <2>1. p_status[k] \in [Req -> StatusValue]
    BY DEF Memory, PrefillMemory, PrefillTypes
  <2>2. PICK v : v = Updated(p_status[k][r], Bootstrapping)
    OBVIOUS
  <2>3. p_status'[k] = [p_status[k] EXCEPT ![r] = v]
    BY <1>1, <2>2
  <2>4. v = Success => p_status[k][r] = Success
    BY <2>2 DEF Updated, Bootstrapping, Success, Failed
  <2>5. p_status'[k][q] = Success => p_status[k][q] = Success
    BY <2>1, <2>3, <2>4
  <2> QED BY <1>1, <1>2, <2>5, SuccessKept
<1> QED BY <1>2, <1>3, <1>4, WrittenFrame

(* pop_bootstrapped *)
LEMMA BootstrapWritten ==
  ASSUME Memory, Memory', Protocol, Written, Intact, Bootstrap
  PROVE  Written' /\ Intact'
<1>1. /\ \A k \in Rank, r \in Req : p_status'[k][r] = p_status[k][r] /\ p_conclude'[k][r] = p_conclude[k][r]
      /\ UNCHANGED <<config, sent, to_decode, d_status, threadVars, decodeVars, memVars>>
  BY BootstrapEffect DEF Memory, Protocol
<1>2. UNCHANGED memoryVars /\ UNCHANGED d_conclude
  BY <1>1 DEF memoryVars, threadVars, decodeVars, memVars
<1>3. \A k \in Rank : InTransfer(k)' = InTransfer(k)
  BY BootstrapProtocol
<1>4. \A k \in Rank, q \in Req : SuccessAt(k, q)' => SuccessAt(k, q)
  BY <1>1, <1>2, SuccessKept
<1> QED BY <1>2, <1>3, <1>4, WrittenFrame

(* The status after a chunk was put into the queue. *)
LEMMA AfterPutWritten ==
  ASSUME Memory, Protocol, Written, Intact, NEW k \in Rank, NEW r \in Req, AfterPut(k, r)
  PROVE  Written' /\ Intact'
<1>1. UNCHANGED <<config, sent, p_conclude, to_decode, d_status, threadVars, decodeVars, memVars>>
  BY DEF AfterPut
<1>2. UNCHANGED memoryVars /\ UNCHANGED d_conclude
  BY <1>1 DEF memoryVars, threadVars, decodeVars, memVars
<1>3. \A x \in Rank : InTransfer(x)' = InTransfer(x)
  BY AfterPutProtocol
<1>4. \A x \in Rank, q \in Req : p_status'[x][q] = Success => p_status[x][q] = Success
  BY AfterPutEffect
<1>5. \A x \in Rank, q \in Req : SuccessAt(x, q)' => SuccessAt(x, q)
  BY <1>1, <1>2, <1>4, SuccessKept
<1> QED BY <1>2, <1>3, <1>5, WrittenFrame

(* process_disagg_prefill_inflight_queue *)
LEMMA PollInflightWritten ==
  ASSUME Memory, Protocol, Written, Intact, PollInflight
  PROVE  Written' /\ Intact'
<1>1. PICK gone : Concludes(p_status, p_conclude, p_status', p_conclude', ToSet(inflight_queue), gone)
  BY PollInflightEffect DEF Memory
<1>2. UNCHANGED <<config, sent, to_decode, d_status, threadVars, decodeVars, memVars>>
  BY DEF PollInflight
<1>3. UNCHANGED memoryVars /\ UNCHANGED d_conclude
  BY <1>2 DEF memoryVars, threadVars, decodeVars, memVars
<1>4. \A x \in Rank : InTransfer(x)' = InTransfer(x)
  BY PollInflightProtocol
<1>5. \A x \in Rank, q \in Req : p_status'[x][q] = Success \/ p_conclude'[x][q] = Success
                                   => p_status[x][q] = Success \/ p_conclude[x][q] = Success
  BY <1>1 DEF Concludes, Absent, Success
<1>6. \A x \in Rank, q \in Req : SuccessAt(x, q)' => SuccessAt(x, q)
  BY <1>2, <1>3, <1>5, SuccessKept
<1> QED BY <1>3, <1>4, <1>6, WrittenFrame

(* bootstrap_thread *)
LEMMA BootstrapThreadWritten ==
  ASSUME Memory, Protocol, Written, Intact, NEW k \in Rank, BootstrapThread(k)
  PROVE  Written' /\ Intact'
<1>1. PICK S \in SUBSET Req :
        /\ \A r \in S : p_status'[k][r] = WaitingForInput
        /\ \A x \in Rank, q \in Req : x # k \/ q \notin S => p_status'[x][q] = p_status[x][q]
  BY BootstrapThreadEffect
<1>2. UNCHANGED failed_sessions
  BY BootstrapThreadEffect
<1>3. UNCHANGED <<config, to_decode, d_status, prefillVars, decodeVars, memVars>>
  BY DEF BootstrapThread
<1>4. UNCHANGED memoryVars /\ UNCHANGED <<d_conclude, p_conclude>>
  BY <1>2, <1>3 DEF memoryVars, prefillVars, decodeVars, memVars
<1>5. \A x \in Rank : InTransfer(x)' = InTransfer(x)
  BY BootstrapThreadProtocol
<1>6. \A x \in Rank, q \in Req : p_status'[x][q] = Success => p_status[x][q] = Success
  BY <1>1 DEF WaitingForInput, Success
<1>7. \A x \in Rank, q \in Req : SuccessAt(x, q)' => SuccessAt(x, q)
  BY <1>3, <1>4, <1>6, SuccessKept
<1> QED BY <1>4, <1>5, <1>7, WrittenFrame

(* Steps that change neither statuses nor chunks: a worker takes a chunk,  *)
(* or the prefill server dies.                                             *)
LEMMA QuietWritten ==
  ASSUME Memory, Protocol, Written, Intact,
         (\E k \in Rank : TransferStart(k)) \/ Crash \/ UNCHANGED vars
  PROVE  Written' /\ Intact'
<1>1. /\ UNCHANGED memoryVars /\ UNCHANGED <<p_status, p_conclude, to_decode, d_status, d_conclude>>
      /\ \A x \in Rank : InTransfer(x)' = InTransfer(x)
  <2>1. CASE \E k \in Rank : TransferStart(k)
    <3>1. \A x \in Rank : InTransfer(x)' = InTransfer(x)
      BY <2>1, TransferStartChunks DEF Memory, Protocol
    <3> QED BY <2>1, <3>1 DEF TransferStart, memoryVars, prefillVars, decodeVars, memVars
  <2>2. CASE Crash
    BY <2>2 DEF Crash, InTransfer, memoryVars, prefillVars, threadVars, decodeVars, memVars
  <2>3. CASE UNCHANGED vars
    BY <2>3 DEF vars, InTransfer, memoryVars, prefillVars, threadVars, decodeVars, memVars
  <2> QED BY <2>1, <2>2, <2>3
<1>2. \A x \in Rank, q \in Req : SuccessAt(x, q)' => SuccessAt(x, q)
  BY <1>1, SuccessKept
<1> QED BY <1>1, <1>2, WrittenFrame

---------------------------------------------------------------------------
(* Transfers: the steps that leave Open alone                              *)

(* Steps that neither begin nor end anything that a server waits for. *)
LEMMA QuietOpen ==
  ASSUME Memory, Protocol, Open,
         \/ \E k \in Rank : TransferStart(k) \/ DecodeThread(k) \/ Heartbeat(k)
         \/ \E r \in Req : ArriveDecode(r)
         \/ Prebuilt \/ Decode \/ UNCHANGED vars
  PROVE  Open'
<1> DEFINE Same == /\ UNCHANGED <<config, alive, failed_sessions, p_meta, p_status, p_conclude, transfer_infos,
                                  transfer_q, p_waiting, inflight_queue, d_meta, sent>>
                   /\ \A k \in Rank : InTransfer(k)' = InTransfer(k)
<1>1. CASE \E k \in Rank : TransferStart(k)
  <2>1. \A x \in Rank : InTransfer(x)' = InTransfer(x)
    BY <1>1, TransferStartChunks DEF Memory, Protocol
  <2>2. UNCHANGED <<config, alive, failed_sessions, p_meta, p_status, p_conclude, transfer_infos,
                                  transfer_q, p_waiting, inflight_queue, d_meta, sent>>
    BY <1>1 DEF TransferStart, prefillVars, decodeVars
  <2> QED BY <2>1, <2>2, OpenKept
<1>2. CASE \E k \in Rank : DecodeThread(k)
  <2>1. Same
    BY <1>2 DEF DecodeThread, InTransfer, prefillVars, threadVars, decodeVars
  <2> QED BY <2>1, OpenKept
<1>3. CASE \E k \in Rank : Heartbeat(k)
  <2>1. Same
    BY <1>3 DEF Heartbeat, InTransfer, prefillVars, threadVars, decodeVars
  <2> QED BY <2>1, OpenKept
<1>4. CASE \E r \in Req : ArriveDecode(r)
  <2>1. Same
    BY <1>4 DEF ArriveDecode, InTransfer, prefillVars, threadVars
  <2> QED BY <2>1, OpenKept
<1>5. CASE Prebuilt
  <2>1. Same
    BY <1>5 DEF Prebuilt, InTransfer, prefillVars, threadVars
  <2> QED BY <2>1, OpenKept
<1>6. CASE Decode
  <2>1. Same
    BY <1>6 DEF Decode, InTransfer, prefillVars, threadVars
  <2> QED BY <2>1, OpenKept
<1>7. CASE UNCHANGED vars
  <2>1. Same
    BY <1>7 DEF vars, InTransfer, prefillVars, threadVars, decodeVars
  <2> QED BY <2>1, OpenKept
<1> QED BY <1>1, <1>2, <1>3, <1>4, <1>5, <1>6, <1>7

(* A dead server waits for nothing. *)
LEMMA CrashOpen == ASSUME Crash PROVE Open'
BY DEF Crash, Open, OpenOf

(* pop_preallocated *)
LEMMA PopPreallocatedOpen ==
  ASSUME Memory, Memory', Protocol, Open, PopPreallocated
  PROVE  Open'
<1>0. config \in Configs /\ DecodeMemory /\ DecodeMemory'
  BY DEF Memory, PrefillMemory, PrefillTypes
<1>1. PICK N, lost, polled \in SUBSET ToSet(prealloc_queue), init \in Seq(ToPrefill) :
           /\ ToSet(transfer_q') = ToSet(transfer_q) \cup N
           /\ \A r \in Req : IF r \in N THEN d_meta'[r] # 0 ELSE row'[r] = row[r] /\ d_meta'[r] = d_meta[r]
           /\ UNCHANGED <<config, alive, p_status, to_decode, d_arrived, first_token,
                          prefillVars, threadVars, connVars, memVars>>
  BY <1>0, PopPreallocatedEffect
<1>2. Rank' = Rank /\ PHeld' = PHeld /\ UNCHANGED <<sent, p_meta, p_conclude, transfer_infos, failed_sessions>>
  BY <1>1 DEF Rank, PHeld, prefillVars, threadVars
<1>3. \A k \in Rank : InTransfer(k)' = InTransfer(k)
  BY PopPreallocatedProtocol
<1>4. ASSUME NEW k \in Rank, NEW q \in Req PROVE OpenOf(k, q)'
  <2>1. OpenOf(k, q) /\ (Settled(k, q)' <=> Settled(k, q))
    BY <1>2, <1>3, SettledKept DEF Open
  <2>2. q \in ToSet(transfer_q) => q \in ToSet(transfer_q')
    BY <1>1
  <2>3. q \in N => q \in ToSet(transfer_q')
    BY <1>1
  <2>4. q \notin N => d_meta'[q] = d_meta[q]
    BY <1>1
  <2> QED BY <1>1, <1>2, <2>1, <2>2, <2>3, <2>4 DEF OpenOf
<1> QED BY <1>2, <1>4 DEF Open

(* A worker ends a chunk: what it does not settle stays open. *)
LEMMA TransferEndOpen ==
  ASSUME Memory, Protocol, Open, NEW k \in Rank, NEW o \in {"ok", "kv", "aux"}, TransferEnd(k, o)
  PROVE  Open'
<1> USE DEF Protocol, Memory
<1>0. PICK c, r : c = worker[k] /\ r = c.room
  OBVIOUS
<1>1. /\ c \in Chunk /\ c \in InTransfer(k) /\ r \in Req
      /\ InTransfer(k)' = InTransfer(k) \ {c}
      /\ \A d \in InTransfer(k)' : d.room = r => c.page < d.page
      /\ \A x \in Rank : x # k => /\ InTransfer(x)' = InTransfer(x)
                                  /\ transfer_infos'[x] = transfer_infos[x]
                                  /\ x \in failed_sessions' <=> x \in failed_sessions
      /\ \A q \in Req : q # r => (q \in transfer_infos'[k] <=> q \in transfer_infos[k])
      /\ failed_sessions \subseteq failed_sessions'
      /\ \A x \in Rank, q \in Req : x # k \/ q # r => p_status'[x][q] = p_status[x][q]
      /\ EndOutcome(k, c, r)
      /\ alive
      /\ UNCHANGED <<config, alive, prefillVars, decodeVars>>
  BY <1>0, TransferEndEffect
<1>2. Rank' = Rank /\ PHeld' = PHeld /\ UNCHANGED <<sent, p_meta, p_conclude, d_meta, transfer_q>>
  BY <1>1 DEF Rank, PHeld, prefillVars, decodeVars
<1>3. \A x \in Rank, q \in Req : Settled(x, q) => Settled(x, q)'
  BY <1>1, <1>2 DEF Settled
<1>4. ASSUME c.is_last PROVE Settled(k, r)'
  <2>1. PICK rest : rest = InTransfer(k)'
    OBVIOUS
  <2>2. rest \subseteq InTransfer(k) /\ \A d \in rest : d.room = r => c.page < d.page
    BY <1>1, <2>1
  <2>3. sent[r] = InputLen[r] /\ \A d \in rest : d.room # r
    BY <1>0, <1>1, <1>4, <2>2, LastChunk
  <2> QED BY <1>2, <2>1, <2>3 DEF Settled
<1>5. ~Settled(k, r) /\ p_meta[r] # 0
  BY <1>0, <1>1 DEF Settled, Chunks, ChunkOK
<1>6. OpenOf(k, r)'
  <2>1. OpenOf(k, r)
    BY <1>1 DEF Open
  <2>2. CASE k \in failed_sessions' \/ Settled(k, r)'
    BY <1>1, <1>2, <2>1, <2>2 DEF OpenOf
  <2>3. CASE k \notin failed_sessions' /\ ~Settled(k, r)'
    <3>1. /\ p_status[k][r] = WaitingForInput /\ p_conclude[k][r] = Absent
          /\ r \in transfer_infos[k] /\ r \in ToSet(transfer_q) /\ r \in PHeld
      BY <1>1, <1>5, <2>1, <2>3 DEF OpenOf
    <3>2. p_status'[k][r] = p_status[k][r] /\ transfer_infos' = transfer_infos
      BY <1>1, <1>4, <2>3, <3>1 DEF EndOutcome
    <3> QED BY <1>2, <1>5, <3>1, <3>2 DEF OpenOf
  <2> QED BY <2>2, <2>3
<1>7. ASSUME NEW x \in Rank, NEW q \in Req, x # k \/ q # r PROVE OpenOf(x, q)'
  <2>1. OpenOf(x, q) /\ (Settled(x, q) => Settled(x, q)')
    BY <1>3 DEF Open
  <2>2. p_status'[x][q] = p_status[x][q] /\ (x \notin failed_sessions' => x \notin failed_sessions)
    BY <1>1, <1>7
  <2>3. q \in transfer_infos[x] => q \in transfer_infos'[x]
    BY <1>1, <1>7
  <2> QED BY <1>1, <1>2, <2>1, <2>2, <2>3 DEF OpenOf
<1>8. \A x \in Rank, q \in Req : OpenOf(x, q)'
  BY <1>6, <1>7
<1> QED BY <1>2, <1>8 DEF Open

(* A request comes to the decode server. *)
LEMMA ArriveDecodeWritten ==
  ASSUME Memory, Protocol, Written, Intact, NEW r \in Req, ArriveDecode(r)
  PROVE  Written' /\ Intact'
<1>1. PICK ok \in SUBSET Rank :
        d_status' = [k \in Rank |-> [d_status[k] EXCEPT ![r] = ReceiverStatus(k \in ok)]]
  BY DEF ArriveDecode
<1>2. UNCHANGED memoryVars /\ UNCHANGED <<p_status, p_conclude, to_decode, d_conclude>>
  BY DEF ArriveDecode, memoryVars, prefillVars, threadVars, memVars
<1>3. \A x \in Rank : InTransfer(x)' = InTransfer(x)
  BY ArriveDecodeProtocol
<1>4. ASSUME NEW x \in Rank, NEW q \in Req PROVE d_status'[x][q] = Success => d_status[x][q] = Success
  <2>1. d_status[x] \in [Req -> StatusValue]
    BY DEF Memory, DecodeMemory, DecodeTypes
  <2>2. PICK v : v = ReceiverStatus(x \in ok)
    OBVIOUS
  <2>3. d_status'[x] = [d_status[x] EXCEPT ![r] = v]
    BY <1>1, <2>2
  <2>4. v # Success
    BY <2>2 DEF ReceiverStatus, WaitingForInput, Failed, Success
  <2> QED BY <2>1, <2>3, <2>4
<1>5. \A x \in Rank, q \in Req : SuccessAt(x, q)' => SuccessAt(x, q)
  BY <1>2, <1>4, SuccessKept
<1> QED BY <1>2, <1>3, <1>5, WrittenFrame

(* decode_thread *)
LEMMA DecodeThreadWritten ==
  ASSUME Memory, Protocol, Written, Intact, NEW k \in Rank, DecodeThread(k)
  PROVE  Written' /\ Intact'
<1>1. PICK r \in Req, v \in {Failed, Success} :
           /\ Told(k, r, v) /\ d_status'[k][r] = v
           /\ \A x \in Rank, q \in Req : x # k \/ q # r => d_status'[x][q] = d_status[x][q]
           /\ \A x \in Rank : ToSet(to_decode'[x]) \subseteq ToSet(to_decode[x])
           /\ UNCHANGED <<config, p_status, prefillVars, threadVars, decodeVars, memVars>>
  BY DecodeThreadEffect
<1>2. UNCHANGED memoryVars /\ UNCHANGED <<p_status, p_conclude, d_conclude>>
  BY <1>1 DEF memoryVars, prefillVars, threadVars, decodeVars, memVars
<1>3. \A x \in Rank : InTransfer(x)' = InTransfer(x)
  BY DecodeThreadProtocol
<1>4. ASSUME NEW x \in Rank, NEW q \in Req, SuccessAt(x, q)' PROVE SuccessAt(x, q)
  <2>1. Told(x, q, Success)' => Told(x, q, Success)
    BY <1>1 DEF Told
  <2>2. d_status'[x][q] = Success => d_status[x][q] = Success \/ Told(x, q, Success)
    BY <1>1
  <2> QED BY <1>2, <1>4, <2>1, <2>2 DEF SuccessAt
<1> QED BY <1>2, <1>3, <1>4, WrittenFrame

(* _handle_node_failure *)
LEMMA HeartbeatWritten ==
  ASSUME Memory, Protocol, Written, Intact, NEW k \in Rank, Heartbeat(k)
  PROVE  Written' /\ Intact'
<1>1. UNCHANGED memoryVars /\ UNCHANGED <<p_status, p_conclude, to_decode, d_conclude>>
  BY DEF Heartbeat, memoryVars, prefillVars, threadVars, decodeVars, memVars
<1>2. \A x \in Rank : InTransfer(x)' = InTransfer(x)
  BY DEF Heartbeat, InTransfer, threadVars
<1>3. \A x \in Rank, q \in Req : d_status'[x][q] = Success => d_status[x][q] = Success
  <2>1. d_status \in [Rank -> [Req -> StatusValue]]
    BY DEF Memory, DecodeMemory, DecodeTypes
  <2>2. PICK f : f = [r \in Req |-> IF r \in AffectedRooms(k) THEN Failed ELSE d_status[k][r]]
    OBVIOUS
  <2>3. d_status' = [d_status EXCEPT ![k] = f]
    BY <2>2 DEF Heartbeat
  <2>4. \A q \in Req : f[q] = Success => d_status[k][q] = Success
    BY <2>2 DEF Failed, Success
  <2> QED BY <2>1, <2>3, <2>4
<1>4. \A x \in Rank, q \in Req : SuccessAt(x, q)' => SuccessAt(x, q)
  BY <1>1, <1>3, SuccessKept
<1> QED BY <1>1, <1>2, <1>4, WrittenFrame

(* get_new_prebuilt_batch *)
LEMMA PrebuiltWritten ==
  ASSUME Memory, Protocol, Written, Intact, Prebuilt
  PROVE  Written' /\ Intact'
<1>1. /\ UNCHANGED <<config, transfer_q, row, kv, aux, d_meta, failed_sessions, first_token, sent>>
      /\ UNCHANGED <<p_status, p_conclude, to_decode, d_status, d_conclude, transfer_queue, worker>>
  BY DEF Prebuilt, prefillVars, threadVars, memVars
<1>2. InDecode' = InDecode
  BY PrebuiltMemory DEF Memory
<1>3. \A x \in Rank : InTransfer(x)' = InTransfer(x)
  BY <1>1 DEF InTransfer
<1>4. \A x \in Rank, q \in Req : SuccessAt(x, q)' => SuccessAt(x, q)
  BY <1>1, SuccessKept
<1> QED BY <1>1, <1>2, <1>3, <1>4, WrittenKept

(* The forward of the running batch. *)
LEMMA DecodeWritten ==
  ASSUME Memory, Protocol, Written, Intact, Decode
  PROVE  Written' /\ Intact'
<1>0. config \in Configs /\ DecodeMemory
  BY DEF Memory, PrefillMemory, PrefillTypes
<1>1. /\ UNCHANGED <<config, transfer_q, aux, d_meta, failed_sessions, first_token, sent>>
      /\ UNCHANGED <<p_status, p_conclude, to_decode, d_status, d_conclude, transfer_queue, worker>>
  BY DEF Decode, prefillVars, threadVars
<1>2. InDecode' \subseteq InDecode /\ DecodeWrites
  BY <1>0, DecodeStepMemory
<1>3. \A x \in Rank : InTransfer(x)' = InTransfer(x)
  BY <1>1 DEF InTransfer
<1>4. \A x \in Rank, q \in Req : SuccessAt(x, q)' => SuccessAt(x, q)
  BY <1>1, SuccessKept
<1>5. /\ Holders \in SUBSET Req /\ InDecode \subseteq Holders /\ ToSet(transfer_q) \subseteq Holders
      /\ row \in [Req -> Seq(Page)] /\ Rank' = Rank
  BY <1>0, <1>1, HolderFacts DEF DecodeMemory, DecodeTypes, Rank
<1>6. ASSUME NEW k \in Rank, NEW r \in ToSet(transfer_q) PROVE WrittenOf(k, r)'
  <2>1. r \in Req /\ r \in Holders /\ WrittenOf(k, r) /\ row'[r] = row[r]
    BY <1>2, <1>5 DEF Written, DecodeWrites
  <2>2. Len(row[r]) = InputLen[r]
    BY <1>0 DEF DecodeMemory, Paged
  <2>3. \A i \in 1..InputLen[r] : kv'[k][row[r][i]] = kv[k][row[r][i]]
    BY <1>2, <2>1, <2>2 DEF DecodeWrites
  <2> QED BY <1>1, <1>3, <1>4, <2>1, <2>3, WrittenStays
<1>7. Written'
  BY <1>1, <1>5, <1>6 DEF Written
<1>8. ASSUME NEW r \in InDecode', NEW k \in Rank, NEW i \in 1..Len(row'[r]) PROVE kv'[k][row'[r][i]] = <<r, i>>
  <2>1. r \in InDecode /\ r \in Holders /\ Len(row[r]) \in Nat
    BY <1>2, <1>5
  <2>2. \A j \in 1..Len(row[r]) : kv'[k][row[r][j]] = <<r, j>>
    <3>1. \A j \in 1..Len(row[r]) : kv'[k][row[r][j]] = kv[k][row[r][j]]
      BY <1>2, <2>1 DEF DecodeWrites
    <3>2. \A j \in 1..Len(row[r]) : kv[k][row[r][j]] = <<r, j>>
      BY <2>1 DEF Intact
    <3> QED BY <3>1, <3>2
  <2>3. CASE row'[r] = row[r]
    BY <2>2, <2>3
  <2>4. CASE /\ Len(row'[r]) = Len(row[r]) + 1 /\ \A j \in 1..Len(row[r]) : row'[r][j] = row[r][j]
             /\ kv'[k][row'[r][Len(row[r]) + 1]] = <<r, Len(row[r]) + 1>>
    <3>1. i \in 1..Len(row[r]) \/ i = Len(row[r]) + 1
      BY <2>1, <2>4
    <3>2. CASE i \in 1..Len(row[r])
      BY <2>2, <2>4, <3>2
    <3>3. CASE i = Len(row[r]) + 1
      BY <2>4, <3>3
    <3> QED BY <3>1, <3>2, <3>3
  <2> QED BY <1>2, <2>1, <2>3, <2>4 DEF DecodeWrites
<1>9. Intact'
  <2>1. \A r \in InDecode' : first_token'[r] = {<<r, 1>>}
    BY <1>1, <1>2 DEF Intact
  <2> QED BY <1>5, <1>8, <2>1 DEF Intact
<1> QED BY <1>7, <1>9

(* The next chunk goes to the transfer queues. *)
LEMMA PrefillChunkWritten ==
  ASSUME Memory, Protocol, Written, Intact, PrefillChunk
  PROVE  Written' /\ Intact'
<1> USE DEF Protocol, Memory
<1>1. PICK r \in Req, c \in Chunk, put \in SUBSET Rank :
              /\ r \in ToSet(p_waiting) /\ p_meta[r] # 0 /\ sent[r] < InputLen[r]
              /\ c.room = r /\ c.page = sent[r] + 1
              /\ \A q \in Req : sent'[q] = IF q = r THEN sent[r] + 1 ELSE sent[q]
              /\ \A k \in Rank : InTransfer(k)' = IF k \in put THEN InTransfer(k) \cup {c} ELSE InTransfer(k)
              /\ \A k \in Rank : k \notin put => p_status[k][r] = Failed
  BY PutEffect
<1>2. /\ UNCHANGED <<config, transfer_q, row, kv, aux, d_meta, failed_sessions, first_token>>
      /\ UNCHANGED <<p_status, p_conclude, to_decode, d_status, d_conclude, d_waiting, last_batch, running_batch, d_done>>
  BY DEF PrefillChunk, decodeVars, memVars
<1>3. InDecode' = InDecode /\ Rank' = Rank /\ ToSet(transfer_q) \subseteq Req
  BY <1>2, HolderFacts DEF InDecode, Rank
<1>4. \A k \in Rank, q \in Req : SuccessAt(k, q)' => SuccessAt(k, q)
  BY <1>2, SuccessKept
<1>5. ASSUME NEW k \in Rank, NEW q \in ToSet(transfer_q) PROVE WrittenOf(k, q)'
  <2>1. q \in Req /\ WrittenOf(k, q) /\ sent[q] \in Nat /\ sent[r] \in Nat
    BY <1>3 DEF Written, PrefillMemory, PrefillTypes
  <2>2. SuccessAt(k, q)' => Complete(k, q)'
    BY <1>2, <1>4, <2>1 DEF WrittenOf, Complete
  <2>3. \A i : Carries(k, q, i) => Carries(k, q, i)'
    BY <1>1 DEF Carries
  <2>4. ASSUME k \notin failed_sessions, NEW i \in 1..sent'[q] PROVE Carries(k, q, i)' \/ kv'[k][row'[q][i]] = <<q, i>>
    <3>1. CASE i \in 1..sent[q]
      <4>1. Carries(k, q, i) \/ kv[k][row[q][i]] = <<q, i>>
        BY <2>1, <2>4, <3>1 DEF WrittenOf
      <4> QED BY <1>2, <2>3, <4>1
    <3>2. CASE i \notin 1..sent[q]
      <4>1. q = r /\ i = sent[r] + 1
        <5>1. CASE q = r
          BY <1>1, <2>1, <3>2, <5>1
        <5>2. CASE q # r
          BY <1>1, <2>1, <3>2, <5>2
        <5> QED BY <5>1, <5>2
      <4>2. k \in put
        <5> SUFFICES ASSUME k \notin put PROVE FALSE
          OBVIOUS
        <5>1. FailedAt(k, r)
          BY <1>1 DEF FailedAt
        <5>2. Settled(k, r)
          BY <2>4, <5>1 DEF Failures, FailureOf
        <5> QED BY <1>1, <2>1, <5>2, ConstantFacts DEF Settled
      <4>3. c \in InTransfer(k)'
        BY <1>1, <4>2
      <4> QED BY <1>1, <4>1, <4>3 DEF Carries
    <3> QED BY <3>1, <3>2
  <2> QED BY <1>2, <2>2, <2>4 DEF WrittenOf
<1>6. Written'
  BY <1>2, <1>3, <1>5 DEF Written
<1> QED BY <1>2, <1>3, <1>6, IntactKept

(* pop_preallocated: the prefill server has not begun with the requests    *)
(* that get memory.                                                        *)
LEMMA PopPreallocatedWritten ==
  ASSUME Memory, Memory', Protocol, Written, Intact, PopPreallocated
  PROVE  Written' /\ Intact'
<1>0. config \in Configs /\ DecodeMemory /\ DecodeMemory'
  BY DEF Memory, PrefillMemory, PrefillTypes
<1>1. PICK N, lost, polled \in SUBSET ToSet(prealloc_queue), init \in Seq(ToPrefill) :
           /\ Concludes(d_status, d_conclude, d_status', d_conclude', polled, lost)
           /\ ToSet(transfer_q') = ToSet(transfer_q) \cup N
           /\ \A r \in Req : IF r \in N THEN d_meta'[r] # 0 ELSE row'[r] = row[r] /\ d_meta'[r] = d_meta[r]
           /\ InDecode' = InDecode
           /\ UNCHANGED <<config, alive, p_status, to_decode, d_arrived, first_token,
                          prefillVars, threadVars, connVars, memVars>>
  BY <1>0, PopPreallocatedEffect
<1>2. Rank' = Rank /\ UNCHANGED <<sent, p_conclude, failed_sessions, kv, aux>>
  BY <1>1 DEF Rank, prefillVars, threadVars, memVars
<1>3. \A k \in Rank : InTransfer(k)' = InTransfer(k)
  BY PopPreallocatedProtocol
<1>4. ToSet(prealloc_queue) \subseteq Req /\ ToSet(transfer_q) \subseteq Req /\ InDecode \subseteq Req
  BY <1>0, HolderFacts
<1>5. N \cap (ToSet(transfer_q) \cup InDecode) = {}
  BY <1>0, <1>1 DEF DecodeMemory, DecodePlaces, Holders
<1>6. \A k \in Rank, q \in Req : SuccessAt(k, q)' => SuccessAt(k, q)
  <2>1. \A k \in Rank, q \in Req : d_status'[k][q] = Success \/ d_conclude'[k][q] = Success
                                   => d_status[k][q] = Success \/ d_conclude[k][q] = Success
    BY <1>1 DEF Concludes, Absent, Success
  <2> QED BY <1>1, <1>2, <2>1, SuccessKept
<1>7. ASSUME NEW k \in Rank, NEW r \in ToSet(transfer_q) PROVE WrittenOf(k, r)'
  <2>1. r \in Req /\ r \notin N /\ WrittenOf(k, r)
    BY <1>4, <1>5 DEF Written
  <2>2. row'[r] = row[r] /\ d_meta'[r] = d_meta[r] /\ sent'[r] = sent[r]
    BY <1>1, <1>2, <2>1
  <2> QED BY <1>2, <1>3, <1>6, <2>1, <2>2, WrittenStays
<1>8. ASSUME NEW k \in Rank, NEW r \in N PROVE WrittenOf(k, r)'
  <2>1. r \in Req /\ r \in ToSet(prealloc_queue)
    BY <1>4
  <2>2. d_meta[r] = 0
    BY <2>1 DEF Protocol, Receivers, ReceiverOf
  <2>3. p_meta[r] = 0
    BY <2>1, <2>2 DEF Protocol, Offers, OfferOf
  <2>4. sent[r] = 0
    BY <2>1, <2>3 DEF Protocol, Prefills, PrefillOf
  <2>5. ~SuccessAt(k, r)
    BY <2>1, <2>3, SettledStarted DEF Protocol, Failures, FailureOf
  <2>6. ~SuccessAt(k, r)'
    BY <1>6, <2>1, <2>5
  <2>7. \A i \in 1..sent'[r] : FALSE
    BY <1>2, <2>4
  <2> QED BY <2>6, <2>7 DEF WrittenOf
<1>9. Written'
  BY <1>1, <1>2, <1>7, <1>8 DEF Written
<1>10. Intact'
  <2>1. \A r \in InDecode : row'[r] = row[r]
    BY <1>1, <1>4, <1>5
  <2> QED BY <1>1, <1>2, <2>1 DEF Intact
<1> QED BY <1>9, <1>10

(* pop_transferred: what every rank has received is complete. *)
LEMMA PopTransferredWritten ==
  ASSUME Memory, Protocol, Written, Intact, PopTransferred
  PROVE  Written' /\ Intact'
<1>0. config \in Configs /\ DecodeMemory
  BY DEF Memory, PrefillMemory, PrefillTypes
<1>1. PICK done, lost \in SUBSET ToSet(transfer_q) :
           /\ Concludes(d_status, d_conclude, d_status', d_conclude', ToSet(transfer_q), done \cup lost)
           /\ \A r \in done : \A k \in Rank : d_status[k][r] = Success \/ d_conclude[k][r] = Success
           /\ ToSet(transfer_q') = ToSet(transfer_q) \ (done \cup lost)
           /\ InDecode' = InDecode \cup done
           /\ \A r \in Req : first_token'[r] = IF r \in done THEN {aux[k][d_meta[r]] : k \in Rank} ELSE first_token[r]
           /\ UNCHANGED <<config, alive, p_status, to_prefill, to_decode, d_arrived, prealloc_queue,
                          waiting_for_input, d_meta, row, prefillVars, threadVars, connVars, memVars>>
  BY <1>0, PopTransferredEffect
<1>2. Rank' = Rank /\ UNCHANGED <<sent, p_conclude, failed_sessions, kv, aux, row, d_meta>>
  BY <1>1 DEF Rank, prefillVars, threadVars, memVars
<1>3. \A k \in Rank : InTransfer(k)' = InTransfer(k)
  BY PopTransferredProtocol
<1>4. ToSet(transfer_q) \subseteq Req /\ InDecode \subseteq Req /\ ToSet(transfer_q) \cap InDecode = {}
  BY <1>0, HolderFacts
<1>5. \A k \in Rank, q \in Req : SuccessAt(k, q)' => SuccessAt(k, q)
  <2>1. \A k \in Rank, q \in Req : d_status'[k][q] = Success \/ d_conclude'[k][q] = Success
                                   => d_status[k][q] = Success \/ d_conclude[k][q] = Success
    BY <1>1 DEF Concludes, Absent, Success
  <2> QED BY <1>1, <1>2, <2>1, SuccessKept
<1>6. ASSUME NEW k \in Rank, NEW r \in ToSet(transfer_q') PROVE WrittenOf(k, r)'
  <2>1. r \in Req /\ WrittenOf(k, r)
    BY <1>1, <1>4 DEF Written
  <2> QED BY <1>2, <1>3, <1>5, <2>1, WrittenStays
<1>7. Written'
  BY <1>2, <1>6 DEF Written
<1>8. ASSUME NEW r \in done
      PROVE  first_token'[r] = {<<r, 1>>} /\ \A k \in Rank, i \in 1..Len(row[r]) : kv[k][row[r][i]] = <<r, i>>
  <2>1. r \in Req /\ r \in ToSet(transfer_q) /\ Len(row[r]) = InputLen[r]
    BY <1>0, <1>4 DEF DecodeMemory, Paged
  <2>2. \A k \in Rank : Complete(k, r)
    <3> TAKE k \in Rank
    <3>1. SuccessAt(k, r)
      BY <1>1 DEF SuccessAt
    <3> QED BY <2>1, <3>1 DEF Written, WrittenOf
  <2>3. \A k \in Rank : aux[k][d_meta[r]] = <<r, 1>>
    BY <2>2 DEF Complete
  <2>4. {aux[k][d_meta[r]] : k \in Rank} = {<<r, 1>>}
    <3>1. Rank # {}
      BY <1>0, ConfigFacts
    <3> QED BY <2>3, <3>1
  <2>5. \A k \in Rank, i \in 1..Len(row[r]) : kv[k][row[r][i]] = <<r, i>>
    BY <2>1, <2>2 DEF Complete
  <2> QED BY <1>1, <2>1, <2>4, <2>5
<1>9. Intact'
  <2>1. ASSUME NEW r \in InDecode
        PROVE  first_token'[r] = {<<r, 1>>} /\ \A k \in Rank, i \in 1..Len(row[r]) : kv[k][row[r][i]] = <<r, i>>
    <3>1. r \in Req /\ r \notin done
      BY <1>4
    <3> QED BY <1>1, <3>1 DEF Intact
  <2>2. \A r \in InDecode' : /\ first_token'[r] = {<<r, 1>>}
                             /\ \A k \in Rank, i \in 1..Len(row[r]) : kv[k][row[r][i]] = <<r, i>>
    BY <1>1, <1>8, <2>1
  <2> QED BY <1>2, <2>2 DEF Intact
<1> QED BY <1>7, <1>9

---------------------------------------------------------------------------
(* Transfers: the end of a chunk                                           *)

(* A transfer writes one page of one request, on one rank. *)
LEMMA WriteEffect ==
  ASSUME Memory, NEW k \in Rank, NEW r \in ToSet(transfer_q), NEW p \in 1..InputLen[r], Writes(k, r, p)
  PROVE  /\ \A x \in Rank, q \in Holders : x # k \/ q # r =>
              \A i \in 1..Len(row[q]) : kv'[x][row[q][i]] = kv[x][row[q][i]]
         /\ \A i \in 1..InputLen[r] : i # p => kv'[k][row[r][i]] = kv[k][row[r][i]]
         /\ kv'[k][row[r][p]] = <<r, p>>
<1>1. /\ Holders \in SUBSET Req /\ r \in Holders /\ r \in Req
      /\ row \in [Req -> Seq(Page)] /\ Len(row[r]) = InputLen[r]
      /\ Parted(free_pages, row, Holders, Page)
  BY HolderFacts DEF Memory, DecodeMemory, DecodeTypes, Paged
<1>2. DOMAIN kv = Rank /\ DOMAIN kv[k] = Page
  BY DEF Memory, ThreadTypes
<1>3. PICK y : y = row[r][p]
  OBVIOUS
<1>4. y \in Page /\ row[r] \in Seq(Page)
  BY <1>1, <1>3
<1>5. PICK v : v = <<r, p>>
  OBVIOUS
<1>6. kv' = [kv EXCEPT ![k][y] = v]
  BY <1>3, <1>5 DEF Writes
<1>7. /\ kv'[k][y] = v /\ \A z \in Page : z # y => kv'[k][z] = kv[k][z]
      /\ \A x \in Rank : x # k => kv'[x] = kv[x]
  <2>1. kv' = [kv EXCEPT ![k] = [kv[k] EXCEPT ![y] = v]]
    BY <1>6
  <2>2. PICK f : f = [kv[k] EXCEPT ![y] = v]
    OBVIOUS
  <2>3. kv' = [kv EXCEPT ![k] = f]
    BY <2>1, <2>2
  <2>4. kv'[k] = f
    BY <1>2, <2>3
  <2>5. f[y] = v
    BY <1>2, <1>4, <2>2
  <2>6. ASSUME NEW z \in Page, z # y PROVE f[z] = kv[k][z]
    BY <1>2, <2>2, <2>6
  <2>7. ASSUME NEW x \in Rank, x # k PROVE kv'[x] = kv[x]
    BY <1>2, <2>3, <2>7
  <2> QED BY <2>4, <2>5, <2>6, <2>7
<1>8. ASSUME NEW x \in Rank, NEW q \in Holders, x # k \/ q # r, NEW i \in 1..Len(row[q])
      PROVE  kv'[x][row[q][i]] = kv[x][row[q][i]]
  <2>1. CASE x # k
    BY <1>7, <2>1
  <2>2. CASE x = k
    <3>1. q # r /\ q \in Req /\ row[q] \in Seq(Page)
      BY <1>1, <1>8, <2>2
    <3>2. PICK z : z = row[q][i]
      OBVIOUS
    <3>3. z \in Page /\ z \in ToSet(row[q])
      BY <3>1, <3>2, ToSetIs
    <3>4. y \in ToSet(row[r])
      BY <1>1, <1>3, <1>4, ToSetIs
    <3>5. z # y
      BY <1>1, <3>1, <3>3, <3>4 DEF Parted, Apart
    <3> QED BY <1>7, <2>2, <3>2, <3>3, <3>5
  <2> QED BY <2>1, <2>2
<1>9. ASSUME NEW i \in 1..InputLen[r], i # p PROVE kv'[k][row[r][i]] = kv[k][row[r][i]]
  <2>1. PICK z : z = row[r][i]
    OBVIOUS
  <2>2. z \in Page
    BY <1>1, <1>4, <2>1
  <2>3. Distinct(row[r]) /\ i \in 1..Len(row[r]) /\ p \in 1..Len(row[r])
    BY <1>1 DEF Parted, Apart
  <2>4. z # y
    BY <1>3, <1>9, <2>1, <2>3 DEF Distinct
  <2> QED BY <1>7, <2>1, <2>2, <2>4
<1> QED BY <1>3, <1>5, <1>7, <1>8, <1>9

(* A worker ends a chunk: it writes where only its request reads, and what *)
(* it declares transferred is complete.                                    *)
LEMMA TransferEndWritten ==
  ASSUME Memory, Protocol, Open, Written, Intact,
         NEW k \in Rank, NEW o \in {"ok", "kv", "aux"}, TransferEnd(k, o)
  PROVE  Written' /\ Intact'
<1> USE DEF Protocol, Memory
<1>0. PICK c, r : c = worker[k] /\ r = c.room
  OBVIOUS
<1>1. /\ c \in Chunk /\ c \in InTransfer(k) /\ r \in Req
      /\ InTransfer(k)' = InTransfer(k) \ {c}
      /\ \A d \in InTransfer(k)' : d.room = r => c.page < d.page
      /\ \A x \in Rank : x # k => /\ InTransfer(x)' = InTransfer(x) /\ to_decode'[x] = to_decode[x]
                                  /\ x \in failed_sessions' <=> x \in failed_sessions
      /\ failed_sessions \subseteq failed_sessions'
      /\ \A x \in Rank, q \in Req : x # k \/ q # r => p_status'[x][q] = p_status[x][q]
      /\ EndOutcome(k, c, r)
      /\ alive
      /\ UNCHANGED <<config, alive, d_status, prefillVars, decodeVars>>
  BY <1>0, TransferEndEffect
<1>2. /\ Rank' = Rank /\ InDecode' = InDecode
      /\ UNCHANGED <<sent, p_meta, p_conclude, d_meta, d_conclude, transfer_q, row, first_token>>
  BY <1>1 DEF Rank, InDecode, prefillVars, decodeVars
<1>3. /\ p_meta[r] # 0 /\ ~Settled(k, r) /\ ~SuccessAt(k, r) /\ c.page \in 1..InputLen[r]
  <2>1. p_meta[r] # 0 /\ c.page <= sent[r] /\ ~Settled(k, r)
    BY <1>0, <1>1 DEF Settled, Chunks, ChunkOK
  <2>2. /\ sent[r] \in Nat /\ InputLen[r] \in Nat /\ sent[r] <= InputLen[r] /\ c.page \in Nat /\ c.page > 0
    BY <1>1, ConstantFacts DEF PrefillMemory, PrefillTypes, Prefills, PrefillOf, Chunk
  <2>3. ~SuccessAt(k, r)
    BY <1>1, <2>1 DEF Failures, FailureOf
  <2> QED BY <2>1, <2>2, <2>3
<1>4. k \notin failed_sessions => r \in transfer_infos[k] /\ r \in ToSet(transfer_q) /\ r \in PHeld
  BY <1>1, <1>3 DEF Open, OpenOf
<1>5. /\ Holders \in SUBSET Req /\ InDecode \subseteq Holders /\ ToSet(transfer_q) \subseteq Holders
      /\ ToSet(transfer_q) \cap InDecode = {}
      /\ \A q \in ToSet(transfer_q) : Len(row[q]) = InputLen[q]
  BY HolderFacts DEF DecodeMemory, Paged
<1>6. kv' = kv \/ (k \notin failed_sessions /\ Writes(k, r, c.page))
  BY <1>1 DEF EndOutcome
<1>7. /\ \A x \in Rank, q \in Holders : x # k \/ q # r =>
           \A i \in 1..Len(row[q]) : kv'[x][row[q][i]] = kv[x][row[q][i]]
      /\ \A i \in 1..InputLen[r] : i # c.page => kv'[k][row[r][i]] = kv[k][row[r][i]]
      /\ k \notin failed_sessions' => kv'[k][row[r][c.page]] = <<r, c.page>>
  <2>1. CASE kv' = kv
    <3>1. k \notin failed_sessions' => Writes(k, r, c.page) /\ k \notin failed_sessions
      BY <1>1, <1>4 DEF EndOutcome
    <3>2. k \notin failed_sessions' => kv'[k][row[r][c.page]] = <<r, c.page>>
      BY <1>3, <1>4, <3>1, WriteEffect
    <3> QED BY <2>1, <3>2
  <2>2. CASE k \notin failed_sessions /\ Writes(k, r, c.page)
    <3>1. PICK p \in 1..InputLen[r] : p = c.page
      BY <1>3
    <3>2. Writes(k, r, p) /\ r \in ToSet(transfer_q)
      BY <1>4, <2>2, <3>1
    <3> QED BY <3>1, <3>2, WriteEffect
  <2> QED BY <1>6, <2>1, <2>2
<1>8. ASSUME NEW x \in Rank, NEW q \in ToSet(transfer_q), x # k \/ q # r
      PROVE  aux'[x][d_meta[q]] = aux[x][d_meta[q]]
  <2>1. CASE aux' = aux
    BY <2>1
  <2>2. CASE aux' = [aux EXCEPT ![k][d_meta[r]] = p_aux[p_meta[r]]] /\ k \notin failed_sessions
    <3>1. r \in ToSet(transfer_q)
      BY <1>4, <2>2
    <3>2. PICK y, z, v : y = d_meta[r] /\ z = d_meta[q] /\ v = p_aux[p_meta[r]]
      OBVIOUS
    <3>3. y \in DBuffer /\ z \in DBuffer /\ (q # r => z # y)
      BY <3>1, <3>2 DEF DecodeMemory, Split
    <3>4. DOMAIN aux = Rank /\ DOMAIN aux[k] = DBuffer
      BY DEF ThreadTypes
    <3>5. aux' = [aux EXCEPT ![k][y] = v]
      BY <2>2, <3>2
    <3>6. aux'[x][z] = aux[x][z]
      BY <1>8, <3>3, <3>4, <3>5
    <3> QED BY <3>2, <3>6
  <2> QED BY <1>1, <2>1, <2>2 DEF EndOutcome
<1>9. ASSUME NEW x \in Rank, NEW q \in Req, x # k \/ q # r PROVE SuccessAt(x, q)' => SuccessAt(x, q)
  <2>1. Told(x, q, Success)' => Told(x, q, Success)
    <3>1. CASE x # k
      BY <1>1, <3>1 DEF Told
    <3>2. CASE x = k
      <4>1. PICK m : m = [room |-> q, status |-> Success]
        OBVIOUS
      <4>2. \A status : m # [room |-> r, status |-> status]
        BY <1>9, <3>2, <4>1
      <4>3. m \in ToSet(to_decode'[k]) => m \in ToSet(to_decode[k])
        BY <1>1, <4>2 DEF EndOutcome, Tells
      <4> QED BY <3>2, <4>1, <4>3 DEF Told
    <3> QED BY <3>1, <3>2
  <2> QED BY <1>1, <1>2, <1>9, <2>1 DEF SuccessAt
<1>10. ASSUME NEW x \in Rank, NEW q \in ToSet(transfer_q), x # k \/ q # r PROVE WrittenOf(x, q)'
  <2>1. q \in Req /\ q \in Holders /\ WrittenOf(x, q)
    BY <1>5 DEF Written
  <2>2. x \notin failed_sessions' => x \notin failed_sessions
    BY <1>1
  <2>3. \A i : Carries(x, q, i) => Carries(x, q, i)'
    <3> TAKE i
    <3> HAVE Carries(x, q, i)
    <3>1. PICK d \in InTransfer(x) : d.room = q /\ d.page = i
      BY DEF Carries
    <3>2. d \in InTransfer(x)'
      BY <1>0, <1>1, <1>10, <3>1
    <3> QED BY <3>1, <3>2 DEF Carries
  <2>4. \A i \in 1..InputLen[q] : kv'[x][row[q][i]] = kv[x][row[q][i]]
    BY <1>5, <1>7, <1>10, <2>1
  <2>5. aux'[x][d_meta[q]] = aux[x][d_meta[q]]
    BY <1>8, <1>10
  <2>6. SuccessAt(x, q)' => SuccessAt(x, q)
    BY <1>9, <1>10, <2>1
  <2>7. sent'[q] = sent[q] /\ row'[q] = row[q] /\ d_meta'[q] = d_meta[q]
    BY <1>2
  <2> QED BY <2>1, <2>2, <2>3, <2>4, <2>5, <2>6, <2>7, WrittenOnward
<1>11. ASSUME r \in ToSet(transfer_q) PROVE WrittenOf(k, r)'
  <2>1. WrittenOf(k, r) /\ sent[r] \in Nat /\ InputLen[r] \in Nat /\ sent[r] <= InputLen[r]
    BY <1>1, <1>11, ConstantFacts DEF Written, PrefillMemory, PrefillTypes, Prefills, PrefillOf
  <2>2. ASSUME k \notin failed_sessions', NEW i \in 1..sent[r]
        PROVE  Carries(k, r, i)' \/ kv'[k][row[r][i]] = <<r, i>>
    <3>1. CASE i = c.page
      BY <1>7, <2>2, <3>1
    <3>2. CASE i # c.page
      <4>1. i \in 1..InputLen[r]
        BY <2>1
      <4>2. kv'[k][row[r][i]] = kv[k][row[r][i]]
        BY <1>7, <3>2, <4>1
      <4>3. Carries(k, r, i) \/ kv[k][row[r][i]] = <<r, i>>
        BY <1>1, <2>1, <2>2 DEF WrittenOf
      <4>4. Carries(k, r, i) => Carries(k, r, i)'
        <5> HAVE Carries(k, r, i)
        <5>1. PICK d \in InTransfer(k) : d.room = r /\ d.page = i
          BY DEF Carries
        <5>2. d \in InTransfer(k)'
          BY <1>1, <3>2, <5>1
        <5> QED BY <5>1, <5>2 DEF Carries
      <4> QED BY <4>2, <4>3, <4>4
    <3> QED BY <3>1, <3>2
  <2>3. ASSUME SuccessAt(k, r)' PROVE Complete(k, r)'
    <3>1. /\ r \in transfer_infos[k] /\ k \notin failed_sessions /\ UNCHANGED failed_sessions
          /\ c.is_last /\ aux' = [aux EXCEPT ![k][d_meta[r]] = p_aux[p_meta[r]]]
      <4>1. PICK m : m = [room |-> r, status |-> Success]
        OBVIOUS
      <4>2. m # [room |-> r, status |-> Failed]
        BY <4>1 DEF Success, Failed
      <4>3. m \notin ToSet(to_decode[k])
        BY <1>3, <4>1 DEF SuccessAt, Told
      <4>4. p_status'[k][r] = Success \/ m \in ToSet(to_decode'[k])
        BY <1>1, <1>2, <1>3, <2>3, <4>1 DEF SuccessAt, Told
      <4>5. p_status[k][r] # Success /\ Failed # Success
        BY <1>3 DEF SuccessAt, Failed, Success
      <4> QED BY <1>1, <4>2, <4>3, <4>4, <4>5 DEF EndOutcome, Tells
    <3>2. PICK rest : rest = InTransfer(k)'
      OBVIOUS
    <3>3. rest \subseteq InTransfer(k) /\ \A d \in rest : d.room = r => c.page < d.page
      BY <1>1, <3>2
    <3>4. sent[r] = InputLen[r] /\ \A d \in rest : d.room # r
      BY <1>0, <1>1, <3>1, <3>3, LastChunk
    <3>5. \A i : ~Carries(k, r, i)'
      BY <3>2, <3>4 DEF Carries
    <3>6. \A i \in 1..InputLen[r] : kv'[k][row[r][i]] = <<r, i>>
      BY <2>2, <3>1, <3>4, <3>5
    <3>7. r \in ToSet(inflight_queue)
      BY <1>1, <1>4, <2>1, <3>1, <3>4 DEF PHeld, Prefills, PrefillOf
    <3>8. p_aux[p_meta[r]] = <<r, 1>>
      BY <1>1, <3>7 DEF Prefills, PrefillOf
    <3>9. PICK y, v : y = d_meta[r] /\ v = <<r, 1>>
      OBVIOUS
    <3>10. y \in DBuffer /\ DOMAIN aux = Rank /\ DOMAIN aux[k] = DBuffer
      BY <1>11, <3>9 DEF DecodeMemory, Split, ThreadTypes
    <3>11. aux' = [aux EXCEPT ![k][y] = v]
      BY <3>1, <3>8, <3>9
    <3>12. aux'[k][y] = v
      BY <3>10, <3>11
    <3> QED BY <1>2, <3>6, <3>9, <3>12 DEF Complete
  <2> QED BY <1>2, <2>2, <2>3 DEF WrittenOf
<1>12. Written'
  <2>1. \A x \in Rank, q \in ToSet(transfer_q) : WrittenOf(x, q)'
    BY <1>10, <1>11
  <2> QED BY <1>2, <2>1 DEF Written
<1>13. ASSUME NEW q \in InDecode, NEW x \in Rank, NEW i \in 1..Len(row[q]) PROVE kv'[x][row[q][i]] = <<q, i>>
  <2>1. kv[x][row[q][i]] = <<q, i>>
    BY DEF Intact
  <2>2. kv'[x][row[q][i]] = kv[x][row[q][i]]
    <3>1. CASE kv' = kv
      BY <3>1
    <3>2. CASE k \notin failed_sessions
      <4>1. q # r /\ q \in Holders
        BY <1>4, <1>5, <3>2
      <4> QED BY <1>7, <4>1
    <3> QED BY <1>6, <3>1, <3>2
  <2> QED BY <2>1, <2>2
<1>14. Intact'
  BY <1>2, <1>13 DEF Intact
<1> QED BY <1>12, <1>14

---------------------------------------------------------------------------
(* The KV cache of a request that decodes is its own                       *)

(* At the start nothing is transferred and nothing decodes. *)
LEMMA TransfersInit == ASSUME Init PROVE Transfers
<1>1. /\ transfer_q = Empty /\ d_waiting = Empty /\ last_batch = {} /\ running_batch = {}
      /\ p_meta = [r \in Req |-> 0] /\ d_meta = [r \in Req |-> 0]
  BY DEF Init
<1>2. ToSet(Empty) = {}
  <2>1. Empty \in Seq(Req) /\ Len(Empty) = 0
    BY DEF Empty
  <2>2. ToSet(Empty) = {Empty[i] : i \in 1..Len(Empty)}
    BY <2>1, ToSetIs
  <2> QED BY <2>1, <2>2
<1>3. Open
  BY <1>1 DEF Open, OpenOf
<1>4. Written
  BY <1>1, <1>2 DEF Written
<1>5. Intact
  BY <1>1, <1>2 DEF Intact, InDecode
<1> QED BY <1>3, <1>4, <1>5 DEF Transfers

(* No step changes the deployment. *)
LEMMA ConfigKept == ASSUME [Next]_vars PROVE config' = config
<1>1. CASE UNCHANGED vars
  BY <1>1 DEF vars
<1>2. CASE \E r \in Req : ArrivePrefill(r)
  BY <1>2 DEF ArrivePrefill
<1>3. CASE \E r \in Req : ArriveDecode(r)
  BY <1>3 DEF ArriveDecode
<1>4. CASE Bootstrap
  BY <1>4 DEF Bootstrap, PopBootstrapped
<1>5. CASE PrefillChunk
  BY <1>5 DEF PrefillChunk
<1>6. CASE PollInflight
  BY <1>6 DEF PollInflight
<1>7. CASE \E k \in Rank, r \in Req : AfterPut(k, r)
  BY <1>7 DEF AfterPut
<1>8. CASE PopPreallocated
  BY <1>8 DEF PopPreallocated
<1>9. CASE PopTransferred
  BY <1>9 DEF PopTransferred
<1>10. CASE Prebuilt
  BY <1>10 DEF Prebuilt
<1>11. CASE Decode
  BY <1>11 DEF Decode
<1>12. CASE \E k \in Rank : BootstrapThread(k)
  BY <1>12 DEF BootstrapThread
<1>13. CASE \E k \in Rank : TransferStart(k)
  BY <1>13 DEF TransferStart
<1>14. CASE \E k \in Rank, o \in {"ok", "kv", "aux"} : TransferEnd(k, o)
  BY <1>14 DEF TransferEnd
<1>15. CASE \E k \in Rank : DecodeThread(k)
  BY <1>15 DEF DecodeThread
<1>16. CASE \E k \in Rank : Heartbeat(k)
  BY <1>16 DEF Heartbeat
<1>17. CASE Crash
  BY <1>17 DEF Crash
<1> QED BY <1>1, <1>2, <1>3, <1>4, <1>5, <1>6, <1>7, <1>8, <1>9, <1>10, <1>11, <1>12, <1>13, <1>14, <1>15,
           <1>16, <1>17 DEF Next, Progress, PrefillThreads

(* Every step keeps what is open, what is written and what decodes. *)
LEMMA TransfersStep ==
  ASSUME Memory, Memory', Protocol, Transfers, [Next]_vars
  PROVE  Transfers'
<1>1. config' = config
  BY ConfigKept
<1>2. Alone' <=> Alone
  BY <1>1 DEF Alone, Rank, faults
<1> SUFFICES ASSUME Alone, Open, Written, Intact PROVE Open' /\ Written' /\ Intact'
  BY <1>2 DEF Transfers
<1>3. CASE UNCHANGED vars
  BY <1>3, QuietOpen, QuietWritten
<1>4. CASE \E r \in Req : ArrivePrefill(r)
  BY <1>4, ArrivePrefillOpen, ArrivePrefillWritten
<1>5. CASE \E r \in Req : ArriveDecode(r)
  BY <1>5, QuietOpen, ArriveDecodeWritten
<1>6. CASE Bootstrap
  BY <1>6, BootstrapOpen, BootstrapWritten
<1>7. CASE PrefillChunk
  BY <1>7, PrefillChunkOpen, PrefillChunkWritten
<1>8. CASE PollInflight
  BY <1>8, PollInflightOpen, PollInflightWritten
<1>9. CASE \E k \in Rank, r \in Req : AfterPut(k, r)
  BY <1>9, AfterPutOpen, AfterPutWritten
<1>10. CASE PopPreallocated
  BY <1>10, PopPreallocatedOpen, PopPreallocatedWritten
<1>11. CASE PopTransferred
  BY <1>11, PopTransferredOpen, PopTransferredWritten
<1>12. CASE Prebuilt
  BY <1>12, QuietOpen, PrebuiltWritten
<1>13. CASE Decode
  BY <1>13, QuietOpen, DecodeWritten
<1>14. CASE \E k \in Rank : BootstrapThread(k)
  BY <1>14, BootstrapThreadOpen, BootstrapThreadWritten
<1>15. CASE \E k \in Rank : TransferStart(k)
  BY <1>15, QuietOpen, QuietWritten
<1>16. CASE \E k \in Rank, o \in {"ok", "kv", "aux"} : TransferEnd(k, o)
  BY <1>16, TransferEndOpen, TransferEndWritten
<1>17. CASE \E k \in Rank : DecodeThread(k)
  BY <1>17, QuietOpen, DecodeThreadWritten
<1>18. CASE \E k \in Rank : Heartbeat(k)
  BY <1>18, QuietOpen, HeartbeatWritten
<1>19. CASE Crash
  BY <1>19, CrashOpen, QuietWritten
<1> QED BY <1>3, <1>4, <1>5, <1>6, <1>7, <1>8, <1>9, <1>10, <1>11, <1>12, <1>13, <1>14, <1>15, <1>16, <1>17, <1>18,
           <1>19 DEF Next, Progress, PrefillThreads

(* What is intact decodes with its own KV cache. *)
LEMMA IntactKV == IInv => KVIntact
<1> SUFFICES ASSUME IInv, "send" \notin faults \/ Cardinality(Rank) = 1, NEW r \in InDecode
             PROVE  /\ first_token[r] = {<<r, 1>>}
                    /\ \A k \in Rank, i \in DOMAIN row[r] : kv[k][row[r][i]] = <<r, i>>
  BY DEF KVIntact
<1>1. Intact
  BY DEF IInv, Transfers, Alone
<1>2. r \in Req /\ row \in [Req -> Seq(Page)]
  BY HolderFacts DEF IInv, Memory, DecodeMemory, DecodeTypes
<1>3. row[r] \in Seq(Page)
  BY <1>2
<1>4. DOMAIN row[r] = 1..Len(row[r])
  BY <1>3
<1> QED BY <1>1, <1>4 DEF Intact

(* A request decodes only with its own KV cache, complete on every rank    *)
(* and not overwritten by a transfer for another request, and with its own *)
(* first token (KVIntact).                                                 *)
THEOREM DisaggregationKVIntact == Spec => []KVIntact
<1>1. Init => IInv
  BY MemoryInit, ProtocolInit, TransfersInit DEF IInv
<1>2. IInv /\ [Next]_vars => IInv'
  BY MemoryStep, ProtocolStep, TransfersStep DEF IInv
<1> QED BY <1>1, <1>2, IntactKV, PTL DEF Spec
=============================================================================
