--------------------------- MODULE SchedulerProofs ---------------------------
(* Safety of the scheduler loop, for every set of requests and every       *)
(* deployment that Orderly describes: the type invariant, the balance of   *)
(* the two memory pools, the place of every request, the pairing of        *)
(* batches with results, that update_weights meets an idle scheduler, and  *)
(* that neither pool runs out under a launch.                              *)
(*                                                                         *)
(* The argument is one inductive invariant, IInv.  Its centre is Pending,  *)
(* the number of forwards in flight that will bring a token of a request:  *)
(* the overlap loop has up to two.  The tokens that a request holds are    *)
(* its length less one plus its pending forwards (CountsOf), so a result   *)
(* moves a token from pending to output and a launch moves one from the    *)
(* pool to pending; the pool and all the requests sum to its size (Memory).*)
(* The rest of IInv says where a request can be while a forward is pending *)
(* (Batches, Queue, StatusOf) and what the client cannot have sent yet     *)
(* (Messages, Clients).                                                    *)
(*                                                                         *)
(* That the pools do not run out is a second invariant, Solvency, on top:  *)
(* what a chunked request still lacks is free (Lacks), a finished request  *)
(* still in the batch leaves a token (Slack), and no request outgrows what *)
(* it asked for (Bounds), which fits the pool (Solvent).                   *)
(*                                                                         *)
(* The first part proves what Adder computes, a recursive function; what   *)
(* Without and SumOver compute is in module QueueLemmas.                   *)
EXTENDS Scheduler, QueueLemmas

---------------------------------------------------------------------------
(* PrefillAdder *)

AdderType ==
  [rem_total : Int, cur_rem : Int, rem_input : Int, rem_chunk : Int, can_run : SUBSET Req,
   len : [Req -> Int], chunked : Req \cup {NoReq}, full : BOOLEAN, stop : BOOLEAN]

(* The fields of the adder after _prefill_one_req: r joins can_run with    *)
(* the length fill, and the budgets shrink.                                *)
LEMMA PrefillOneFields ==
  ASSUME NEW a \in AdderType, NEW r \in Req, NEW fill \in Int, NEW ext \in Int, NEW new \in Int
  PROVE  LET b == PrefillOne(a, r, fill, ext, new)
         IN  /\ b \in AdderType /\ b.can_run = a.can_run \cup {r} /\ b.chunked = a.chunked
             /\ b.len = [a.len EXCEPT ![r] = fill]
             /\ b.rem_chunk = a.rem_chunk - ext /\ b.rem_total = a.rem_total - ext - new
<1> DEFINE b == PrefillOne(a, r, fill, ext, new)
           l == [a.len EXCEPT ![r] = fill]
           u == a.can_run \cup {r}
           i1 == a.rem_total - ext - new
           i2 == a.cur_rem - ext
           i3 == a.rem_input - ext
           i4 == a.rem_chunk - ext
<1>1. l \in [Req -> Int] /\ u \in SUBSET Req /\ i1 \in Int /\ i2 \in Int /\ i3 \in Int /\ i4 \in Int
  BY DEF AdderType
<1>2. b = [a EXCEPT !.can_run = u, !.len = l, !.rem_total = i1, !.cur_rem = i2, !.rem_input = i3,
                    !.rem_chunk = i4]
  BY DEF PrefillOne, AdderType
<1> HIDE DEF b, l, u, i1, i2, i3, i4
<1>3. b \in AdderType
  BY <1>1, <1>2 DEF AdderType
<1>4. b.can_run = u /\ b.chunked = a.chunked /\ b.len = l /\ b.rem_chunk = i4 /\ b.rem_total = i1
  BY <1>1, <1>2 DEF AdderType
<1> QED BY <1>3, <1>4 DEF b, l, u, i1, i4

(* Naming the chunked request changes no other field. *)
LEMMA ChunkedFields ==
  ASSUME NEW a \in AdderType, NEW r \in Req \cup {NoReq}
  PROVE  LET b == [a EXCEPT !.chunked = r]
         IN  /\ b \in AdderType /\ b.can_run = a.can_run /\ b.chunked = r /\ b.len = a.len
             /\ b.rem_chunk = a.rem_chunk /\ b.rem_total = a.rem_total
BY DEF AdderType

(* Ending the admission changes no other field. *)
LEMMA StopFields ==
  ASSUME NEW a \in AdderType, NEW b, NEW f \in BOOLEAN, NEW s \in BOOLEAN,
         b = [a EXCEPT !.full = f, !.stop = s]
  PROVE  /\ b \in AdderType /\ b.can_run = a.can_run /\ b.chunked = a.chunked /\ b.len = a.len
         /\ b.rem_chunk = a.rem_chunk /\ b.rem_total = a.rem_total
BY DEF AdderType

(* budget_state only sets the flags that end the admission. *)
LEMMA BudgetFields ==
  ASSUME NEW a \in AdderType
  PROVE  LET b == Budget(a)
         IN  /\ b \in AdderType /\ b.can_run = a.can_run /\ b.chunked = a.chunked /\ b.len = a.len
             /\ b.rem_chunk = a.rem_chunk /\ b.rem_total = a.rem_total
<1> DEFINE f == a.rem_total <= 0 \/ a.cur_rem <= 0
           s == f \/ a.rem_input <= 0 \/ a.rem_chunk <= 0
           b == Budget(a)
<1>1. f \in BOOLEAN /\ s \in BOOLEAN
  OBVIOUS
<1>2. b = [a EXCEPT !.full = f, !.stop = s]
  BY DEF Budget
<1> HIDE DEF f, s, b
<1>3. /\ b \in AdderType /\ b.can_run = a.can_run /\ b.chunked = a.chunked /\ b.len = a.len
      /\ b.rem_chunk = a.rem_chunk /\ b.rem_total = a.rem_total
  BY <1>1, <1>2, StopFields
<1> QED BY <1>3 DEF b

(* A mixed batch leaves room for a chunk: PrefillAdder starts from the     *)
(* chunk size less one token for each running request.                     *)
Roomy == IsMixedChunk => ChunkSize >= MaxReqs

(* What the adder finds in the scheduler's state. *)
AdderContext ==
  /\ config \in ConfigType /\ avail \in Int
  /\ in_len \in [Req -> Nat \ {0}] /\ out_len \in [Req -> Nat] /\ kv \in [Req -> Int]
  /\ waiting_queue \in Seq(Req) /\ chunked_req \in Req \cup {NoReq}
  /\ IsFiniteSet(Merged)
  /\ \A i \in 1..Len(waiting_queue) :
       finished[waiting_queue[i]] => in_len[waiting_queue[i]] = 1 /\ out_len[waiting_queue[i]] = 0
  /\ chunked_req # NoReq => /\ ~finished[chunked_req] /\ Cardinality(Merged) + 1 <= MaxReqs
                            /\ Roomy => kv[chunked_req] > 0

(* The adder after it has looked at the first k waiting requests. *)
AdderOK(a, k) ==
  /\ a \in AdderType
  /\ \A r \in a.can_run : r = chunked_req \/ \E i \in 1..k : waiting_queue[i] = r
  /\ chunked_req # NoReq => chunked_req \in a.can_run
  /\ a.chunked # NoReq => /\ a.chunked \in a.can_run /\ a.rem_chunk <= 0 /\ ~finished[a.chunked]
  /\ \A r \in a.can_run : r # a.chunked => a.len[r] = SeqLen(r)
  /\ \A r \in a.can_run : Roomy => a.len[r] > 0
  /\ IsFiniteSet(a.can_run)
  /\ a.can_run # {} => Cardinality(a.can_run) + Cardinality(Merged) <= MaxReqs

(* Lengths and reservations of requests are natural numbers. *)
LEMMA SeqLenType ==
  ASSUME AdderContext, NEW r \in Req
  PROVE  SeqLen(r) \in Nat /\ SeqLen(r) >= 1 /\ kv[r] \in Int /\ NewTokens(r) \in Nat
<1>1. MaxNewTokens[r] \in Nat /\ ClipNew \in Nat
  BY DEF AdderContext, ConfigType, MaxNewTokens, ClipNew
<1>2. NewTokens(r) \in Nat
  BY <1>1 DEF NewTokens, Least
<1>3. in_len[r] \in Nat \ {0} /\ out_len[r] \in Nat /\ kv[r] \in Int
  BY DEF AdderContext
<1> QED BY <1>2, <1>3 DEF SeqLen

(* A new PrefillAdder has admitted nothing. *)
LEMMA NewAdderFields ==
  ASSUME AdderContext, NEW reserve \in Int
  PROVE  LET a == NewAdder(reserve)
         IN  /\ a \in AdderType /\ a.can_run = {} /\ a.chunked = NoReq
             /\ a.rem_chunk = ChunkSize - MixedTokens
<1>1. MixedTokens \in Int
  BY FS_CardinalityType DEF MixedTokens, AdderContext
<1>2. MaxPrefill \in Int /\ ChunkSize \in Int /\ avail \in Int
  BY DEF MaxPrefill, ChunkSize, AdderContext, ConfigType
<1> QED BY <1>1, <1>2 DEF NewAdder, AdderType

(* The adder after add_chunked_req, before any waiting request. *)
LEMMA FirstAdderOK ==
  ASSUME AdderContext, NEW reserve \in Int
  PROVE  AdderOK(FirstAdder(reserve), 0)
<1> DEFINE a == NewAdder(reserve)
<1>1. /\ a \in AdderType /\ a.can_run = {} /\ a.chunked = NoReq
      /\ a.rem_chunk = ChunkSize - MixedTokens
  BY NewAdderFields
<1> HIDE DEF a
<1>2. CASE chunked_req = NoReq
  <2>1. FirstAdder(reserve) = a
    BY <1>2 DEF FirstAdder, a
  <2>2. IsFiniteSet(a.can_run)
    BY <1>1, FS_EmptySet
  <2>3. AdderOK(a, 0)
    BY <1>1, <1>2, <2>2 DEF AdderOK
  <2> QED BY <2>1, <2>3
<1>3. CASE chunked_req # NoReq
  <2> DEFINE r == chunked_req
             left == SeqLen(r) - kv[r]
             ext == Least(left, a.rem_chunk)
             more == left > a.rem_chunk
             new == IF more THEN 0 ELSE NewTokens(r)
             b == PrefillOne(a, r, kv[r] + ext, ext, new)
             d == [b EXCEPT !.chunked = IF more THEN r ELSE NoReq]
  <2>0. r \in Req
    BY <1>3 DEF AdderContext
  <2>1. FirstAdder(reserve) = d
    BY <1>3 DEF FirstAdder, AddChunked, a
  <2>2. left \in Int /\ a.rem_chunk \in Int /\ ext \in Int /\ new \in Int /\ kv[r] \in Int /\ kv[r] + ext \in Int
    BY <1>1, <2>0, SeqLenType DEF AdderType, Least
  <2>3. /\ b \in AdderType /\ b.can_run = a.can_run \cup {r}
        /\ b.len = [a.len EXCEPT ![r] = kv[r] + ext]
        /\ b.rem_chunk = a.rem_chunk - ext
    <3> HIDE DEF ext, new
    <3> QED BY <1>1, <2>0, <2>2, PrefillOneFields
  <2>4. a.len \in [Req -> Int]
    BY <1>1 DEF AdderType
  <2>5. b.can_run = {r} /\ b.len[r] = kv[r] + ext
    BY <1>1, <2>0, <2>3, <2>4
  <2> HIDE DEF b
  <2>6. /\ d \in AdderType /\ d.can_run = {r} /\ d.chunked = (IF more THEN r ELSE NoReq)
        /\ d.len[r] = kv[r] + ext /\ d.rem_chunk = a.rem_chunk - ext
    <3> DEFINE z == IF more THEN r ELSE NoReq
    <3>1. z \in Req \cup {NoReq}
      BY <2>0
    <3> HIDE DEF z, more, ext
    <3>2. LET e == [b EXCEPT !.chunked = z]
          IN  /\ e \in AdderType /\ e.can_run = b.can_run /\ e.chunked = z /\ e.len = b.len
              /\ e.rem_chunk = b.rem_chunk
      BY <2>3, <3>1, ChunkedFields
    <3> QED BY <2>3, <2>5, <3>2 DEF z
  <2> HIDE DEF d
  <2>7. IsFiniteSet({r}) /\ Cardinality({r}) = 1
    BY FS_Singleton
  <2>8. Cardinality(Merged) \in Nat /\ Cardinality(Merged) + 1 <= MaxReqs /\ MaxReqs \in Nat /\ ~finished[r]
    BY <1>3, FS_CardinalityType DEF AdderContext, ConfigType, MaxReqs
  <2>9. more => d.rem_chunk <= 0
    BY <2>2, <2>6 DEF Least
  <2>10. ~more => d.len[r] = SeqLen(r)
    BY <2>0, <2>2, <2>6, SeqLenType DEF Least
  <2>11. Roomy => d.len[r] > 0
    <3>1. CASE more
      <4>1. ext = a.rem_chunk
        BY <2>2, <3>1 DEF Least
      <4>2. ChunkSize \in Nat \ {0}
        BY DEF ChunkSize, AdderContext, ConfigType
      <4>3. Roomy => a.rem_chunk > 0
        BY <1>1, <2>8, <4>2 DEF Roomy, MixedTokens
      <4>4. Roomy => kv[r] > 0
        BY <1>3 DEF AdderContext
      <4> HIDE DEF ext, left
      <4> QED BY <2>2, <2>6, <4>1, <4>3, <4>4
    <3>2. CASE ~more
      BY <2>0, <2>10, <3>2, SeqLenType
    <3> QED BY <3>1, <3>2
  <2>12. AdderOK(d, 0)
    <3>1. IsFiniteSet(d.can_run) /\ Cardinality(d.can_run) + Cardinality(Merged) <= MaxReqs
      <4>1. Cardinality(d.can_run) = 1
        BY <2>6, <2>7
      <4> QED BY <2>6, <2>7, <2>8, <4>1
    <3>2. \A x : x \in d.can_run <=> x = r
      BY <2>6
    <3>3. d.chunked = r \/ d.chunked = NoReq
      BY <2>6
    <3>4. d.chunked # NoReq => more
      BY <2>6
    <3>5. d.chunked # r => ~more
      BY <2>6
    <3>6. d \in AdderType
      BY <2>6
    <3> HIDE DEF more, ext, left
    <3> QED BY <1>3, <2>0, <2>8, <2>9, <2>10, <2>11, <3>1, <3>2, <3>3, <3>4, <3>5, <3>6 DEF AdderOK
  <2> QED BY <2>1, <2>12
<1> QED BY <1>2, <1>3

(* add_one_req keeps AdderOK when it looks at the next waiting request,    *)
(* whether it admits it, cuts it to a chunk or stops.                      *)
LEMMA AddOneOK ==
  ASSUME AdderContext, NEW k \in Nat, k + 1 <= Len(waiting_queue), NEW a, AdderOK(a, k)
  PROVE  AdderOK(AddOne(a, waiting_queue[k + 1]), k + 1)
<1> DEFINE r == waiting_queue[k + 1]
           ext == SeqLen(r)
           b == AddOne(a, r)
<1>1. k + 1 \in 1..Len(waiting_queue) /\ r \in Req
  BY DEF AdderContext
<1>2. finished[r] => ext = 1
  <2>1. finished[r] => in_len[r] = 1 /\ out_len[r] = 0
    BY <1>1 DEF AdderContext
  <2> QED BY <2>1 DEF SeqLen
<1>3. ext \in Nat /\ ext >= 1 /\ NewTokens(r) \in Nat
  BY <1>1, SeqLenType
<1>4. /\ a \in AdderType /\ a.rem_chunk \in Int /\ a.len \in [Req -> Int] /\ a.can_run \subseteq Req
      /\ a.rem_total \in Int /\ IsFiniteSet(a.can_run)
  BY DEF AdderOK, AdderType
<1>5. \A x : (\E i \in 1..k : waiting_queue[i] = x) => (\E i \in 1..(k + 1) : waiting_queue[i] = x)
  <2>1. 1..k \subseteq 1..(k + 1)
    OBVIOUS
  <2> QED BY <2>1
<1>6. \E i \in 1..(k + 1) : waiting_queue[i] = r
  <2>1. k + 1 \in 1..(k + 1)
    OBVIOUS
  <2> QED BY <2>1
<1> HIDE DEF r, ext
<1>7. ASSUME b \in AdderType, b.can_run = a.can_run, b.chunked = a.chunked, b.len = a.len,
             b.rem_chunk = a.rem_chunk
      PROVE  AdderOK(b, k + 1)
  <2> HIDE DEF b
  <2> QED BY <1>5, <1>7 DEF AdderOK
<1>8. CASE \/ Cardinality(a.can_run) >= MaxReqs - Cardinality(Merged)
           \/ ext + NewTokens(r) >= a.rem_total
  <2>1. b = [a EXCEPT !.full = TRUE, !.stop = TRUE]
    BY <1>8 DEF AddOne, ext
  <2> HIDE DEF b
  <2> QED BY <1>4, <1>7, <2>1, StopFields DEF b, r
<1>9. ASSUME ~ \/ Cardinality(a.can_run) >= MaxReqs - Cardinality(Merged)
               \/ ext + NewTokens(r) >= a.rem_total
      PROVE  AdderOK(b, k + 1)
  <2>1. CASE \/ ext > a.rem_input /\ a.can_run # {}
             \/ ext > a.rem_chunk /\ a.rem_chunk <= 0
    <3>1. b = [a EXCEPT !.stop = TRUE]
      BY <1>9, <2>1 DEF AddOne, ext
    <3> HIDE DEF b
    <3>2. /\ b \in AdderType /\ b.can_run = a.can_run /\ b.chunked = a.chunked /\ b.len = a.len
          /\ b.rem_chunk = a.rem_chunk
      BY <1>4, <3>1 DEF AdderType
    <3> QED BY <1>7, <3>2
  <2>2. ASSUME ~ \/ ext > a.rem_input /\ a.can_run # {}
                 \/ ext > a.rem_chunk /\ a.rem_chunk <= 0
        PROVE  AdderOK(b, k + 1)
    <3>1. a.chunked = NoReq
      BY <1>3, <1>4, <2>2 DEF AdderOK
    <3> DEFINE u == a.can_run \cup {r}
    <3>2. IsFiniteSet(u) /\ Cardinality(u) + Cardinality(Merged) <= MaxReqs
      <4>1. IsFiniteSet(u) /\ Cardinality(u) <= Cardinality(a.can_run) + 1
            /\ Cardinality(a.can_run) \in Nat /\ Cardinality(u) \in Nat
        <5>1. IsFiniteSet(u) /\ (Cardinality(u) = Cardinality(a.can_run) \/ Cardinality(u) = Cardinality(a.can_run) + 1)
          BY <1>4, FS_AddElement
        <5>2. Cardinality(a.can_run) \in Nat /\ Cardinality(u) \in Nat
          BY <1>4, <5>1, FS_CardinalityType
        <5> HIDE DEF u
        <5> QED BY <5>1, <5>2
      <4>2. Cardinality(Merged) \in Nat /\ MaxReqs \in Nat
        BY FS_CardinalityType DEF AdderContext, ConfigType, MaxReqs
      <4>3. Cardinality(a.can_run) < MaxReqs - Cardinality(Merged)
        BY <1>9, <4>1, <4>2
      <4> HIDE DEF u
      <4> QED BY <4>1, <4>2, <4>3
    <3>3. ASSUME NEW fill \in Int, NEW c \in Req \cup {NoReq}, b \in AdderType, b.can_run = u, b.chunked = c,
                 b.len = [a.len EXCEPT ![r] = fill],
                 \/ c = NoReq /\ fill = SeqLen(r)
                 \/ c = r /\ b.rem_chunk <= 0 /\ fill > 0 /\ ~finished[r]
          PROVE  AdderOK(b, k + 1)
      <4>1. b.len[r] = fill /\ \A x \in Req \ {r} : b.len[x] = a.len[x]
        BY <1>1, <1>4, <3>3 DEF r
      <4>2. fill > 0
        BY <1>3, <3>3 DEF ext
      <4>3. r \in Req
        BY <1>1 DEF r
      <4> HIDE DEF b
      <4>4. \A x \in b.can_run : x = chunked_req \/ \E i \in 1..(k + 1) : waiting_queue[i] = x
        BY <1>5, <1>6, <3>3 DEF AdderOK
      <4>5. \A x \in b.can_run : x # b.chunked => b.len[x] = SeqLen(x)
        <5>1. SUFFICES ASSUME NEW x \in b.can_run, x # b.chunked PROVE b.len[x] = SeqLen(x)
          OBVIOUS
        <5>2. CASE x = r
          <6>1. fill = SeqLen(r)
            BY <3>3, <5>1, <5>2
          <6> QED BY <4>1, <5>2, <6>1
        <5>3. CASE x # r
          <6>1. x \in a.can_run /\ x \in Req
            BY <1>4, <3>3, <5>3
          <6>2. x # a.chunked
            BY <3>1, <6>1, SchedulerAssumption
          <6>3. a.len[x] = SeqLen(x)
            BY <6>1, <6>2 DEF AdderOK
          <6> QED BY <4>1, <5>3, <6>1, <6>3
        <5> QED BY <5>2, <5>3
      <4>6. \A x \in b.can_run : Roomy => b.len[x] > 0
        BY <1>4, <3>3, <4>1, <4>2, <4>3 DEF AdderOK
      <4>7. IsFiniteSet(b.can_run) /\ Cardinality(b.can_run) + Cardinality(Merged) <= MaxReqs
        BY <3>2, <3>3
      <4>8. chunked_req # NoReq => chunked_req \in b.can_run
        BY <3>3 DEF AdderOK
      <4>9. b.chunked # NoReq => /\ b.chunked \in b.can_run /\ b.rem_chunk <= 0 /\ ~finished[b.chunked]
        BY <3>3
      <4> QED BY <3>3, <4>4, <4>5, <4>6, <4>7, <4>8, <4>9 DEF AdderOK
    <3>4. CASE ext <= a.rem_chunk
      <4> DEFINE p == PrefillOne(a, r, ext, ext, NewTokens(r))
      <4>1. b = Budget(p)
        BY <1>9, <2>2, <3>4 DEF AddOne, ext
      <4>2. p \in AdderType /\ p.can_run = u /\ p.chunked = NoReq /\ p.len = [a.len EXCEPT ![r] = ext]
        BY <1>1, <1>3, <1>4, <3>1, PrefillOneFields DEF r
      <4> HIDE DEF p, b
      <4>3. /\ b \in AdderType /\ b.can_run = u /\ b.chunked = NoReq /\ b.len = [a.len EXCEPT ![r] = ext]
        BY <4>1, <4>2, BudgetFields
      <4>4. ext = SeqLen(r) /\ ext \in Int
        BY <1>3 DEF ext
      <4> HIDE DEF u
      <4> QED BY <3>3, <4>3, <4>4
    <3>5. CASE ~(ext <= a.rem_chunk)
      <4> DEFINE m == a.rem_chunk
                 p == PrefillOne(a, r, m, m, 0)
                 q == [p EXCEPT !.chunked = r]
      <4>1. b = Budget(q)
        BY <1>9, <2>2, <3>5 DEF AddOne, ext
      <4>2. m \in Int /\ m > 0 /\ ~finished[r] /\ r \in Req
        BY <1>1, <1>2, <1>3, <1>4, <2>2, <3>5 DEF r
      <4>3. p \in AdderType /\ p.can_run = u /\ p.len = [a.len EXCEPT ![r] = m] /\ p.rem_chunk = m - m
        <5> HIDE DEF m
        <5> DEFINE n == 0
                   e == PrefillOne(a, r, m, m, n)
        <5>1. a \in AdderType /\ r \in Req /\ m \in Int /\ n \in Int
          BY <1>4, <4>2
        <5> HIDE DEF n, p, q, b, u
        <5>2. /\ e \in AdderType /\ e.can_run = a.can_run \cup {r}
              /\ e.len = [a.len EXCEPT ![r] = m] /\ e.rem_chunk = a.rem_chunk - m
          BY <5>1, PrefillOneFields
        <5> QED BY <5>2 DEF m, n, p, u
      <4> HIDE DEF p
      <4>4. q \in AdderType /\ q.can_run = u /\ q.chunked = r /\ q.len = [a.len EXCEPT ![r] = m]
            /\ q.rem_chunk = m - m
        BY <4>2, <4>3, ChunkedFields
      <4> HIDE DEF q, b
      <4>5. b \in AdderType /\ b.can_run = u /\ b.chunked = r /\ b.len = [a.len EXCEPT ![r] = m]
            /\ b.rem_chunk = m - m
        BY <4>1, <4>4, BudgetFields
      <4>6. b.rem_chunk <= 0
        BY <4>2, <4>5
      <4> HIDE DEF u, m
      <4> QED BY <3>3, <4>2, <4>5, <4>6
    <3> QED BY <3>4, <3>5
  <2> QED BY <2>1, <2>2
<1> QED BY <1>8, <1>9 DEF b, r

IsAdding(f, reserve, n) ==
  f = [i \in 0..n |-> IF i = 0 THEN FirstAdder(reserve)
                      ELSE IF f[i - 1].stop THEN f[i - 1] ELSE AddOne(f[i - 1], waiting_queue[i])]

(* A function that gives the adder after each of the first n requests      *)
(* exists, for every n.                                                    *)
LEMMA AddingExists ==
  ASSUME NEW reserve
  PROVE  \A n \in Nat : \E f : IsAdding(f, reserve, n)
<1> DEFINE T == {n \in Nat : \E f : IsAdding(f, reserve, n)}
<1>1. 0 \in T
  <2>1. IsAdding([i \in 0..0 |-> FirstAdder(reserve)], reserve, 0)
    BY DEF IsAdding
  <2> QED BY <2>1
<1>2. ASSUME NEW n \in Nat, n \in T PROVE n + 1 \in T
  <2>1. PICK f : IsAdding(f, reserve, n)
    BY <1>2
  <2> DEFINE Step(v, i) == IF v.stop THEN v ELSE AddOne(v, waiting_queue[i])
             g == [i \in 0..(n + 1) |-> IF i = n + 1 THEN Step(f[n], n + 1) ELSE f[i]]
  <2>2. \A i \in 0..n : f[i] = IF i = 0 THEN FirstAdder(reserve) ELSE Step(f[i - 1], i)
    BY <2>1 DEF IsAdding
  <2>3. \A i \in 0..n : g[i] = f[i]
    OBVIOUS
  <2>4. g[n + 1] = Step(f[n], n + 1)
    OBVIOUS
  <2>5. DOMAIN g = 0..(n + 1) /\ g = [i \in DOMAIN g |-> g[i]]
    OBVIOUS
  <2>6. ASSUME NEW i \in 0..(n + 1)
        PROVE  g[i] = IF i = 0 THEN FirstAdder(reserve) ELSE Step(g[i - 1], i)
    <3> HIDE DEF g, Step
    <3>1. CASE i = n + 1
      <4>1. i - 1 = n /\ n \in 0..n /\ i # 0
        BY <3>1
      <4> QED BY <2>3, <2>4, <3>1, <4>1
    <3>2. CASE i \in 1..n
      <4>1. i - 1 \in 0..n /\ i \in 0..n /\ i # 0
        BY <3>2
      <4> QED BY <2>2, <2>3, <4>1
    <3>3. CASE i = 0
      BY <2>2, <2>3, <3>3
    <3> QED BY <3>1, <3>2, <3>3
  <2>7. g = [i \in 0..(n + 1) |-> IF i = 0 THEN FirstAdder(reserve) ELSE Step(g[i - 1], i)]
    <3> HIDE DEF g, Step
    <3> QED BY <2>5, <2>6
  <2>8. IsAdding(g, reserve, n + 1)
    <3> HIDE DEF g
    <3> QED BY <2>7 DEF IsAdding
  <2> QED BY <2>8
<1> HIDE DEF T
<1>3. Nat \subseteq T
  BY <1>1, <1>2, SetInduction
<1> QED BY <1>3 DEF T

(* An adder that stopped early is as good as one that looked further. *)
LEMMA AdderOKMonotone ==
  ASSUME NEW a, NEW k \in Nat, NEW n \in Nat, k <= n, AdderOK(a, k)
  PROVE  AdderOK(a, n)
<1>1. 1..k \subseteq 1..n
  OBVIOUS
<1> QED BY <1>1 DEF AdderOK

(* What get_new_batch_prefill can rely on when the loop ends. *)
LEMMA AdderResult ==
  ASSUME AdderContext, NEW reserve \in Int
  PROVE  AdderOK(Adder(reserve), Len(waiting_queue))
<1> DEFINE n == Len(waiting_queue)
           u == CHOOSE f : IsAdding(f, reserve, n)
<1>1. n \in Nat
  BY DEF AdderContext
<1>2. IsAdding(u, reserve, n)
  BY <1>1, AddingExists
<1>3. CASE ~PrefillAllowed
  <2>1. Adder(reserve) = FirstAdder(reserve)
    BY <1>3 DEF Adder, PrefillAllowed, FirstAdder
  <2>2. AdderOK(FirstAdder(reserve), 0)
    BY FirstAdderOK
  <2> HIDE DEF n
  <2> QED BY <1>1, <2>1, <2>2, AdderOKMonotone DEF n
<1>4. CASE PrefillAllowed
  <2>1. Adder(reserve) = u[n]
    BY <1>4 DEF Adder, IsAdding
  <2> HIDE DEF u, n
  <2> DEFINE T == {k \in Nat : k <= n => AdderOK(u[k], k)}
  <2>2. 0 \in T
    <3>1. u[0] = FirstAdder(reserve)
      BY <1>1, <1>2 DEF IsAdding
    <3>2. AdderOK(FirstAdder(reserve), 0)
      BY FirstAdderOK
    <3> QED BY <3>1, <3>2
  <2>3. ASSUME NEW k \in Nat, k \in T PROVE k + 1 \in T
    <3> SUFFICES ASSUME k + 1 <= n PROVE AdderOK(u[k + 1], k + 1)
      OBVIOUS
    <3>1. AdderOK(u[k], k)
      BY <1>1, <2>3
    <3>2. u[k + 1] = IF u[k].stop THEN u[k] ELSE AddOne(u[k], waiting_queue[k + 1])
      <4>1. k + 1 \in 0..n /\ k + 1 # 0 /\ (k + 1) - 1 = k
        BY <1>1
      <4> QED BY <1>2, <4>1 DEF IsAdding
    <3>3. CASE u[k].stop
      <4>1. k + 1 \in Nat /\ k <= k + 1
        OBVIOUS
      <4> QED BY <3>1, <3>2, <3>3, <4>1, AdderOKMonotone
    <3>4. CASE ~u[k].stop
      <4>1. k + 1 <= Len(waiting_queue)
        BY DEF n
      <4> QED BY <3>1, <3>2, <3>4, <4>1, AddOneOK
    <3> QED BY <3>3, <3>4
  <2> HIDE DEF T
  <2>4. n \in T
    BY <1>1, <2>2, <2>3, SetInduction
  <2>5. n <= n
    BY <1>1
  <2> QED BY <2>1, <2>4, <2>5 DEF T, n
<1> QED BY <1>3, <1>4

---------------------------------------------------------------------------
(* The inductive invariant *)

(* The deployments the theorems are about: the client sends no flush_cache,*)
(* it does not both disconnect and update weights, and no request that     *)
(* fails validation meets the overlap loop with mixed batches.  Outside of *)
(* them the code breaks the properties.                                    *)
Orderly ==
  /\ "flush" \notin Controls /\ ~({"abort", "update"} \subseteq Controls)
  /\ ~(EnableOverlap /\ IsMixedChunk /\ BadReq # {})

(* The batches whose result is outstanding: the one launched an iteration  *)
(* ago by the overlap loop, and the one launched in this iteration.        *)
Prev == IF EnableOverlap THEN last_batch ELSE NoBatch
Now  == IF pc = "result" THEN cur_batch ELSE NoBatch

Ext(b) == IF b.mode = "extend" THEN b.reqs ELSE {}
One(p) == IF p THEN 1 ELSE 0

(* The forwards that will bring a token of r. *)
Forwards(b, r) == One(r \in b.reqs /\ b.chunked # r)
Pending(r) == Forwards(Prev, r) + Forwards(Now, r)

(* A request that failed validation, before its answer. *)
Bad(r) == finished[r] /\ r \notin answered

(* r holds a row of req_to_token_pool. *)
HasRow(r) == /\ r \notin answered
             /\ \/ r \in running_batch \/ r \in Ext(cur_batch)
                \/ finished[r] /\ r \in Ext(Prev)
Rows == {r \in Req : HasRow(r)}

MessageType == [type : {"generate", "abort", "flush", "update"}, req : Req \cup {NoReq}]

EnvTypes ==
  /\ config \in Configs /\ config \in ConfigType
  /\ client \in [Req -> {"new", "open", "closed"}] /\ updating \in BOOLEAN
  /\ inbox \in Seq(MessageType)
  /\ \A i \in 1..Len(inbox) : inbox[i].type \in {"generate", "abort"} => inbox[i].req \in Req

LoopTypes ==
  /\ pc \in {"recv", "result"} /\ crashed \in {"no", "flush", "out of memory", "memory leak"}
  /\ waiting_queue \in Seq(Req) /\ running_batch \in SUBSET Req /\ batch_is_full \in BOOLEAN
  /\ cur_batch \in BatchType /\ last_batch \in BatchType /\ result_queue \in Seq(BatchType)

ReqTypes ==
  /\ avail \in Nat /\ slots \in Nat
  /\ in_len \in [Req -> Nat \ {0}] /\ out_len \in [Req -> Nat]
  /\ kv \in [Req -> Int] /\ delayed \in [Req -> Int] /\ is_chunked \in [Req -> Nat]
  /\ finished \in [Req -> BOOLEAN] /\ to_abort \in [Req -> BOOLEAN]
  /\ is_retracted \in [Req -> BOOLEAN] /\ answered \in SUBSET Req

Types == EnvTypes /\ LoopTypes /\ ReqTypes

(* A batch is not empty, and only a prefill has a chunked request. *)
BatchOK(b) == b # NoBatch => /\ b.mode \in {"extend", "decode"} /\ b.reqs # {}
                             /\ b.chunked \in b.reqs \cup {NoReq}
                             /\ b.mode = "decode" => b.chunked = NoReq

(* chunked_req is the one of the batch launched last, the running batch is *)
(* what was decoded, and the prefill that is not merged yet is apart.      *)
Batches ==
  /\ BatchOK(cur_batch) /\ BatchOK(last_batch)
  /\ chunked_req = cur_batch.chunked
  /\ pc = "recv" => last_batch = cur_batch
  /\ cur_batch.mode = "decode" => running_batch = cur_batch.reqs
  /\ running_batch \cap Ext(cur_batch) = {}
  /\ Prev.chunked # NoReq => Prev.chunked \in cur_batch.reqs

(* result_queue holds the outstanding batches, oldest first. *)
InStep ==
  /\ Len(result_queue) = One(Prev # NoBatch) + One(EnableOverlap /\ Now # NoBatch)
  /\ Prev # NoBatch => result_queue[1] = Prev
  /\ EnableOverlap /\ Now # NoBatch => result_queue[Len(result_queue)] = Now

(* The scheduler does not know r yet. *)
Absent(r) ==
  /\ r \notin ToSet(waiting_queue) /\ r \notin running_batch /\ r \notin cur_batch.reqs
  /\ r \notin Prev.reqs /\ r \notin answered /\ out_len[r] = 0 /\ ~is_retracted[r]

Generates(i) == inbox[i].type = "generate"
Updates(i)   == inbox[i].type = "update"

(* A request is sent once; an update is alone and finds no open request. *)
Messages ==
  /\ \A i, j \in 1..Len(inbox) :
       Generates(i) /\ Generates(j) /\ inbox[i].req = inbox[j].req => i = j
  /\ \A i \in 1..Len(inbox) : Generates(i) => client[inbox[i].req] # "new"
  /\ \A i, j \in 1..Len(inbox) : Updates(i) /\ Updates(j) => i = j
  /\ \A i \in 1..Len(inbox) : Updates(i) => updating /\ "update" \in Controls
  /\ \A i \in 1..Len(inbox) : inbox[i].type # "flush"
  /\ updating => \A r \in Req : client[r] # "open"

(* A request still in the inbox or not sent is unknown to the scheduler. *)
Clients ==
  /\ \A i \in 1..Len(inbox) : Generates(i) => Absent(inbox[i].req)
  /\ \A r \in Req : client[r] = "new" => Absent(r)
  /\ "abort" \notin Controls => \A r \in Req : client[r] = "closed" => r \in answered

(* A waiting request runs nowhere; only a retracted one has a result to come. *)
QueueOf(r) ==
  /\ r \notin running_batch /\ r \notin cur_batch.reqs
  /\ r \in Prev.reqs => is_retracted[r]
  /\ r \notin answered
  /\ finished[r] => in_len[r] = 1 /\ out_len[r] = 0

Queue ==
  /\ \A i, j \in 1..Len(waiting_queue) : waiting_queue[i] = waiting_queue[j] => i = j
  /\ \A r \in ToSet(waiting_queue) : QueueOf(r)

(* Where a request can be, by its flags and its outstanding batches. *)
StatusOf(r) ==
  /\ r \in running_batch \/ r \in cur_batch.reqs => ~is_retracted[r]
  /\ r \in answered => finished[r]
  /\ finished[r] => r # cur_batch.chunked /\ r # Prev.chunked
  /\ Bad(r) => /\ r \in BadReq /\ r \notin running_batch
               /\ r \in Prev.reqs => Prev.mode = "extend"
               /\ ~EnableOverlap /\ pc = "recv" => r \notin cur_batch.reqs
  /\ r \in Prev.reqs => r \in answered \/ is_retracted[r] \/ HasRow(r)
  /\ ~EnableOverlap /\ r \in Now.reqs => r \notin answered
  /\ ~IsMixedChunk /\ (r \in Ext(Prev) \/ r \in Ext(Now)) => r \notin answered
  /\ ~IsMixedChunk /\ r \in Prev.reqs /\ r \in Ext(Now) => r = Prev.chunked
  /\ r \in Prev.reqs /\ r = Now.chunked => r = Prev.chunked
  /\ is_retracted[r] => ~finished[r]

(* An outstanding prefill still has a request that needs it. *)
Unanswered ==
  /\ Prev.mode = "extend" => \E r \in Prev.reqs : r \notin answered
  /\ Now.mode = "extend" =>
       \E r \in Now.reqs : r \notin answered /\ (r \notin Prev.reqs \/ r = Prev.chunked)

(* Tokens held: the length less one, plus one for each pending forward; a  *)
(* request that was answered returns the pending ones as results come.     *)
CountsOf(r) ==
  /\ is_chunked[r] = One(Prev.chunked = r) + One(Now.chunked = r)
  /\ ~HasRow(r) => kv[r] = 0
  /\ HasRow(r) /\ r # chunked_req => kv[r] = SeqLen(r) - 1 + Pending(r)
  /\ Roomy /\ HasRow(r) => kv[r] > 0
  /\ delayed[r] = IF r \in answered THEN Pending(r) ELSE 0

Status == \A r \in Req : StatusOf(r)
Counts == \A r \in Req : CountsOf(r)

(* Both pools balance. *)
Memory ==
  /\ avail + SumOver(kv, Req) + SumOver(delayed, Req) = MaxTotalTokens
  /\ slots + Cardinality(Rows) = MaxReqs
  /\ Cardinality(running_batch \cup Ext(cur_batch)) <= MaxReqs
  /\ crashed # "memory leak"

IInv == /\ Types /\ Batches /\ InStep /\ Messages /\ Clients /\ Queue
        /\ Status /\ Unanswered /\ Counts /\ Memory

(* The fields of NoBatch. *)
LEMMA NoBatchFields ==
  NoBatch.mode = "none" /\ NoBatch.reqs = {} /\ NoBatch.chunked = NoReq /\ NoBatch \in BatchType
BY DEF NoBatch, BatchType

(* Sets of requests are finite. *)
LEMMA ReqFinite ==
  ASSUME NEW S \in SUBSET Req
  PROVE  IsFiniteSet(S) /\ Cardinality(S) \in Nat
BY SchedulerAssumption, FS_Subset, FS_CardinalityType

(* A function that is zero everywhere. *)
LEMMA SumZero ==
  ASSUME NEW f \in [Req -> Int], \A r \in Req : f[r] = 0
  PROVE  SumOver(f, Req) = 0
<1>1. {} \in SUBSET Req /\ Req \in SUBSET Req /\ IsFiniteSet(Req)
  BY SchedulerAssumption
<1>2. \A r \in Req : f[r] = IF r \in {} THEN f[r] ELSE 0
  OBVIOUS
<1>3. SumOver(f, Req) = SumOver(f, {})
  BY <1>1, <1>2, SumPart
<1> QED BY <1>3, SumEmpty

(* The inductive invariant holds when the server starts. *)
LEMMA InitInv == Init => IInv
<1> SUFFICES ASSUME Init PROVE IInv
  OBVIOUS
<1>1. config \in Configs /\ config \in ConfigType
  BY SchedulerAssumption DEF Init
<1>2. /\ InputLen \in [Req -> Nat \ {0}] /\ MaxTotalTokens \in Nat /\ MaxReqs \in Nat
  BY <1>1 DEF InputLen, MaxTotalTokens, MaxReqs, ConfigType
<1>3. Prev = NoBatch /\ Now = NoBatch /\ cur_batch = NoBatch
  BY DEF Init, Prev, Now
<1>4. Types
  <2>a. \A S : << >> \in Seq(S)
    OBVIOUS
  <2>b. Len(inbox) = 0 /\ inbox \in Seq(MessageType)
    BY <2>a DEF Init
  <2>c. client \in [Req -> {"new", "open", "closed"}] /\ updating \in BOOLEAN
    BY DEF Init
  <2>1. EnvTypes
    BY <1>1, <2>b, <2>c DEF EnvTypes
  <2>d. waiting_queue \in Seq(Req) /\ result_queue \in Seq(BatchType)
    BY <2>a DEF Init
  <2>e. cur_batch \in BatchType /\ last_batch \in BatchType
    BY NoBatchFields DEF Init
  <2>f. pc \in {"recv", "result"} /\ running_batch \in SUBSET Req /\ batch_is_full \in BOOLEAN
    BY DEF Init
  <2>g. crashed \in {"no", "flush", "out of memory", "memory leak"}
    BY DEF Init
  <2>2. LoopTypes
    BY <2>d, <2>e, <2>f, <2>g DEF LoopTypes
  <2>3. ReqTypes
    BY <1>2 DEF Init, ReqTypes
  <2> QED BY <2>1, <2>2, <2>3 DEF Types
<1>5. Batches /\ InStep
  BY <1>3, NoBatchFields DEF Init, Batches, BatchOK, InStep, One, Ext
<1>6. Messages /\ Clients /\ Queue
  BY <1>3, NoBatchFields DEF Init, Messages, Clients, Queue, Absent, ToSet
<1>7. \A r \in Req : ~HasRow(r)
  BY <1>3, NoBatchFields DEF Init, HasRow, Ext
<1>8. Status /\ Unanswered
  BY <1>3, NoBatchFields, SchedulerAssumption DEF Init, Status, StatusOf, Unanswered, Bad, Ext
<1>9. Counts
  BY <1>3, <1>7, NoBatchFields, SchedulerAssumption DEF Init, Counts, CountsOf, One
<1>10. Memory
  <2>1. SumOver(kv, Req) = 0 /\ SumOver(delayed, Req) = 0
    BY SumZero DEF Init
  <2>2. Rows = {} /\ running_batch \cup Ext(cur_batch) = {} /\ Cardinality({}) = 0
    BY <1>3, <1>7, NoBatchFields, FS_EmptySet DEF Init, Rows, Ext
  <2>3. avail + SumOver(kv, Req) + SumOver(delayed, Req) = MaxTotalTokens
    BY <1>2, <2>1 DEF Init
  <2>4. Cardinality(Rows) = 0 /\ Cardinality(running_batch \cup Ext(cur_batch)) = 0
    BY <2>2
  <2>5. slots + Cardinality(Rows) = MaxReqs /\ Cardinality(running_batch \cup Ext(cur_batch)) <= MaxReqs
    BY <1>2, <2>4 DEF Init
  <2>6. crashed # "memory leak"
    BY DEF Init
  <2> QED BY <2>3, <2>5, <2>6 DEF Memory
<1> QED BY <1>4, <1>5, <1>6, <1>8, <1>9, <1>10 DEF IInv

(* Steps of the tokenizer manager change nothing of the scheduler. *)
Inner == /\ LoopTypes /\ ReqTypes /\ Batches /\ InStep /\ Queue
         /\ Status /\ Unanswered /\ Counts /\ Memory

(* A step never changes what the server was started with. *)
SameConfig ==
  /\ EnableOverlap' = EnableOverlap /\ IsMixedChunk' = IsMixedChunk /\ BadReq' = BadReq
  /\ Controls' = Controls /\ MaxTotalTokens' = MaxTotalTokens /\ MaxReqs' = MaxReqs
  /\ ChunkSize' = ChunkSize /\ MaxNewTokens' = MaxNewTokens

(* What depends only on config keeps its value. *)
LEMMA Constants ==
  ASSUME config' = config
  PROVE  SameConfig
BY DEF SameConfig, EnableOverlap, IsMixedChunk, BadReq, Controls, MaxTotalTokens, MaxReqs, ChunkSize, MaxNewTokens

(* A step that leaves the scheduler's variables alone keeps the part of    *)
(* the invariant that is about them.                                       *)
LEMMA EnvFrame ==
  ASSUME Inner, UNCHANGED schedulerVars
  PROVE  Inner' /\ (\A r : Absent(r)' = Absent(r)) /\ UNCHANGED <<Controls, config, answered>>
<1> USE DEF schedulerVars, queueVars, batchVars, memVars, reqVars
<1>1. SameConfig
  BY Constants
<1> USE DEF SameConfig
<1>2. Prev' = Prev /\ Now' = Now
  BY <1>1 DEF Prev, Now
<1>3. LoopTypes' /\ ReqTypes'
  BY DEF Inner, LoopTypes, ReqTypes
<1>4. Batches' /\ InStep'
  BY <1>1, <1>2 DEF Inner, Batches, InStep, BatchOK, Ext
<1>5. Queue' /\ (\A r : Absent(r)' = Absent(r))
  BY <1>1, <1>2 DEF Inner, Queue, QueueOf, Absent, ToSet
<1>6. \A r : HasRow(r)' = HasRow(r)
  BY <1>2 DEF HasRow, Ext
<1>7. Status' /\ Unanswered'
  BY <1>1, <1>2, <1>6 DEF Inner, Status, StatusOf, Bad, Unanswered, Ext
<1>8. Counts'
  BY <1>1, <1>2, <1>6 DEF Inner, Counts, CountsOf, Pending, Forwards, SeqLen, Roomy
<1>9. Memory'
  <2>1. Rows' = Rows
    BY <1>6 DEF Rows
  <2> QED BY <1>1, <2>1 DEF Inner, Memory, Ext
<1> QED BY <1>1, <1>3, <1>4, <1>5, <1>7, <1>8, <1>9 DEF Inner

(* A message at the end of inbox. *)
LEMMA InboxAppend ==
  ASSUME EnvTypes, NEW m \in MessageType, inbox' = Append(inbox, m),
         m.type \in {"generate", "abort"} => m.req \in Req
  PROVE  /\ inbox' \in Seq(MessageType)
         /\ \A i \in 1..Len(inbox') : inbox'[i].type \in {"generate", "abort"} => inbox'[i].req \in Req
         /\ Len(inbox') = Len(inbox) + 1 /\ inbox'[Len(inbox) + 1] = m
         /\ \A i \in 1..Len(inbox) : inbox'[i] = inbox[i]
         /\ \A i \in 1..Len(inbox') : i \in 1..Len(inbox) \/ i = Len(inbox) + 1
         /\ Len(inbox) \in Nat
<1>0. inbox \in Seq(MessageType) /\ Len(inbox) \in Nat
  BY DEF EnvTypes
<1>1. inbox' \in Seq(MessageType) /\ Len(inbox') = Len(inbox) + 1 /\ inbox'[Len(inbox) + 1] = m
  BY <1>0
<1>2. \A i \in 1..Len(inbox) : inbox'[i] = inbox[i]
  BY <1>0
<1>3. \A i \in 1..Len(inbox') : i \in 1..Len(inbox) \/ i = Len(inbox) + 1
  BY <1>0, <1>1
<1>4. \A i \in 1..Len(inbox') : inbox'[i].type \in {"generate", "abort"} => inbox'[i].req \in Req
  BY <1>1, <1>2, <1>3 DEF EnvTypes
<1> QED BY <1>0, <1>1, <1>2, <1>3, <1>4

(* The fields of a message. *)
LEMMA MessageFields ==
  ASSUME NEW t \in {"generate", "abort", "flush", "update"}, NEW r \in Req \cup {NoReq}
  PROVE  Message(t, r) \in MessageType /\ Message(t, r).type = t /\ Message(t, r).req = r
BY DEF Message, MessageType

(* A new request from a client (TokenizerManager.generate_request) keeps   *)
(* the invariant.                                                          *)
LEMMA SendGenerateInv ==
  ASSUME IInv, Orderly, NEW r \in Req, SendGenerate(r)
  PROVE  IInv'
<1> DEFINE m == Message("generate", r)
           n == Len(inbox)
<1>1. Inner' /\ (\A x : Absent(x)' = Absent(x)) /\ UNCHANGED <<Controls, config, answered>>
  BY EnvFrame DEF IInv, Inner, Types, SendGenerate
<1>2. m \in MessageType /\ m.type = "generate" /\ m.req = r
  BY MessageFields
<1> HIDE DEF m
<1>3. /\ inbox' \in Seq(MessageType)
      /\ \A i \in 1..Len(inbox') : inbox'[i].type \in {"generate", "abort"} => inbox'[i].req \in Req
      /\ Len(inbox') = n + 1 /\ inbox'[n + 1] = m
      /\ \A i \in 1..n : inbox'[i] = inbox[i]
      /\ \A i \in 1..Len(inbox') : i \in 1..n \/ i = n + 1
      /\ n \in Nat
  BY <1>2, InboxAppend DEF IInv, Types, SendGenerate, m
<1> HIDE DEF n
<1>4. /\ client[r] = "new" /\ ~updating /\ updating' = updating /\ client'[r] = "open"
      /\ \A x \in Req \ {r} : client'[x] = client[x]
      /\ client' \in [Req -> {"new", "open", "closed"}]
  BY DEF SendGenerate, IInv, Types, EnvTypes
<1>5. EnvTypes'
  BY <1>1, <1>3, <1>4 DEF IInv, Types, EnvTypes
<1>6. Absent(r)
  BY <1>4 DEF IInv, Clients
<1>a. \A i \in 1..n : inbox[i].type = "generate" => inbox[i].req \in Req /\ inbox[i].req # r
  BY <1>4 DEF IInv, Types, EnvTypes, Messages, Generates, n
<1>7. Messages'
  BY <1>1, <1>2, <1>3, <1>4, <1>a DEF IInv, Messages, Generates, Updates, n
<1>8. Clients'
  BY <1>1, <1>2, <1>3, <1>4, <1>6 DEF IInv, Clients, Generates, n
<1> QED BY <1>1, <1>5, <1>7, <1>8 DEF IInv, Inner, Types

(* A client that disconnects sends an abort and keeps the invariant. *)
LEMMA DisconnectInv ==
  ASSUME IInv, Orderly, NEW r \in Req, Disconnect(r)
  PROVE  IInv'
<1> DEFINE m == Message("abort", r)
           n == Len(inbox)
<1>1. Inner' /\ (\A x : Absent(x)' = Absent(x)) /\ UNCHANGED <<Controls, config, answered>>
  BY EnvFrame DEF IInv, Inner, Types, Disconnect
<1>2. m \in MessageType /\ m.type = "abort" /\ m.req = r
  BY MessageFields
<1> HIDE DEF m
<1>3. /\ inbox' \in Seq(MessageType)
      /\ \A i \in 1..Len(inbox') : inbox'[i].type \in {"generate", "abort"} => inbox'[i].req \in Req
      /\ Len(inbox') = n + 1 /\ inbox'[n + 1] = m
      /\ \A i \in 1..n : inbox'[i] = inbox[i]
      /\ \A i \in 1..Len(inbox') : i \in 1..n \/ i = n + 1
      /\ n \in Nat
  BY <1>2, InboxAppend DEF IInv, Types, Disconnect, m
<1> HIDE DEF n
<1>4. /\ client[r] = "open" /\ updating' = updating /\ client'[r] = "closed"
      /\ \A x \in Req \ {r} : client'[x] = client[x]
      /\ client' \in [Req -> {"new", "open", "closed"}] /\ "abort" \in Controls
  BY DEF Disconnect, IInv, Types, EnvTypes
<1>5. EnvTypes'
  BY <1>1, <1>3, <1>4 DEF IInv, Types, EnvTypes
<1>a. \A i \in 1..n : inbox[i].type = "generate" => inbox[i].req \in Req
  BY DEF IInv, Types, EnvTypes, n
<1>7. Messages'
  BY <1>1, <1>2, <1>3, <1>4, <1>a DEF IInv, Messages, Generates, Updates, n
<1>8. Clients'
  BY <1>1, <1>2, <1>3, <1>4 DEF IInv, Clients, Generates, n
<1> QED BY <1>1, <1>5, <1>7, <1>8 DEF IInv, Inner, Types

(* update_weights, which waits for the open requests and holds back new    *)
(* ones, keeps the invariant.                                              *)
LEMMA SendUpdateInv ==
  ASSUME IInv, Orderly, SendUpdate
  PROVE  IInv'
<1> DEFINE m == Message("update", NoReq)
           n == Len(inbox)
<1>1. Inner' /\ (\A x : Absent(x)' = Absent(x)) /\ UNCHANGED <<Controls, config, answered>>
  BY EnvFrame DEF IInv, Inner, Types, SendUpdate
<1>2. m \in MessageType /\ m.type = "update"
  BY MessageFields
<1> HIDE DEF m
<1>3. /\ inbox' \in Seq(MessageType)
      /\ \A i \in 1..Len(inbox') : inbox'[i].type \in {"generate", "abort"} => inbox'[i].req \in Req
      /\ Len(inbox') = n + 1 /\ inbox'[n + 1] = m
      /\ \A i \in 1..n : inbox'[i] = inbox[i]
      /\ \A i \in 1..Len(inbox') : i \in 1..n \/ i = n + 1
      /\ n \in Nat
  BY <1>2, InboxAppend DEF IInv, Types, SendUpdate, m
<1> HIDE DEF n
<1>4. /\ client' = client /\ ~updating /\ updating' = TRUE
      /\ \A x \in Req : client[x] # "open"
      /\ "update" \in Controls
  BY DEF SendUpdate
<1>5. EnvTypes'
  BY <1>1, <1>3, <1>4 DEF IInv, Types, EnvTypes
<1>7. Messages'
  BY <1>1, <1>2, <1>3, <1>4 DEF IInv, Messages, Generates, Updates, n
<1>8. Clients'
  BY <1>1, <1>2, <1>3, <1>4 DEF IInv, Clients, Generates, n
<1> QED BY <1>1, <1>5, <1>7, <1>8 DEF IInv, Inner, Types

(* The tokenizer manager taking the last output of a request keeps the     *)
(* invariant.                                                              *)
LEMMA ReceiveOutputInv ==
  ASSUME IInv, Orderly, NEW r \in Req, ReceiveOutput(r)
  PROVE  IInv'
<1>1. Inner' /\ (\A x : Absent(x)' = Absent(x)) /\ UNCHANGED <<Controls, config, answered>>
  BY EnvFrame DEF IInv, Inner, Types, ReceiveOutput
<1>4. /\ client[r] = "open" /\ updating' = updating /\ inbox' = inbox /\ client'[r] = "closed"
      /\ \A x \in Req \ {r} : client'[x] = client[x]
      /\ client' \in [Req -> {"new", "open", "closed"}] /\ r \in answered
  BY DEF ReceiveOutput, IInv, Types, EnvTypes
<1>5. EnvTypes'
  BY <1>1, <1>4 DEF IInv, Types, EnvTypes
<1>a. \A i \in 1..Len(inbox) : inbox[i].type = "generate" => inbox[i].req \in Req
  BY DEF IInv, Types, EnvTypes
<1>7. Messages'
  BY <1>1, <1>4, <1>a DEF IInv, Messages, Generates, Updates
<1>8. Clients'
  BY <1>1, <1>4 DEF IInv, Clients, Generates
<1> QED BY <1>1, <1>5, <1>7, <1>8 DEF IInv, Inner, Types

(* What is left of the inbox when its head is taken. *)
LEMMA InboxTail ==
  ASSUME EnvTypes, inbox # << >>, inbox' = Tail(inbox)
  PROVE  /\ inbox' \in Seq(MessageType)
         /\ \A i \in 1..Len(inbox') : inbox'[i].type \in {"generate", "abort"} => inbox'[i].req \in Req
         /\ \A i \in 1..Len(inbox') : i + 1 \in 1..Len(inbox) /\ i + 1 # 1 /\ inbox'[i] = inbox[i + 1]
         /\ 1 \in 1..Len(inbox) /\ Head(inbox) = inbox[1] /\ Head(inbox) \in MessageType
         /\ Len(inbox') \in Nat
<1>0. inbox \in Seq(MessageType) /\ Len(inbox) \in Nat /\ Len(inbox) >= 1
  BY DEF EnvTypes
<1>1. inbox' \in Seq(MessageType) /\ Len(inbox') = Len(inbox) - 1
  BY <1>0
<1>2. \A i \in 1..Len(inbox') : inbox'[i] = inbox[i + 1]
  BY <1>0, <1>1
<1>3. \A i \in 1..Len(inbox') : i + 1 \in 1..Len(inbox) /\ i + 1 # 1
  BY <1>0, <1>1
<1>4. \A i \in 1..Len(inbox') : inbox'[i].type \in {"generate", "abort"} => inbox'[i].req \in Req
  BY <1>2, <1>3 DEF EnvTypes
<1>5. 1 \in 1..Len(inbox) /\ Head(inbox) = inbox[1] /\ Head(inbox) \in MessageType
  BY <1>0
<1> QED BY <1>0, <1>1, <1>2, <1>3, <1>4, <1>5

(* What holds of inbox after a message was taken: only the reply to an     *)
(* update lets the writer lock go.                                         *)
LEMMA ReceiveFrame ==
  ASSUME IInv, inbox # << >>, inbox' = Tail(inbox), UNCHANGED <<config, client>>,
         UNCHANGED updating \/ (updating' = FALSE /\ Head(inbox).type = "update")
  PROVE  EnvTypes' /\ Messages' /\ SameConfig
<1>1. SameConfig
  BY Constants
<1>2. /\ inbox' \in Seq(MessageType)
      /\ \A i \in 1..Len(inbox') : inbox'[i].type \in {"generate", "abort"} => inbox'[i].req \in Req
      /\ \A i \in 1..Len(inbox') : i + 1 \in 1..Len(inbox) /\ i + 1 # 1 /\ inbox'[i] = inbox[i + 1]
      /\ 1 \in 1..Len(inbox) /\ Head(inbox) = inbox[1]
  BY InboxTail DEF IInv, Types
<1>3. EnvTypes'
  BY <1>2 DEF IInv, Types, EnvTypes
<1>4. Messages'
  <2>1. ASSUME NEW i \in 1..Len(inbox'), NEW j \in 1..Len(inbox'), i + 1 = j + 1 PROVE i = j
    BY <2>1
  <2>2. \A i, j \in 1..Len(inbox') :
          Generates(i)' /\ Generates(j)' /\ inbox'[i].req = inbox'[j].req => i = j
    <3> SUFFICES ASSUME NEW i \in 1..Len(inbox'), NEW j \in 1..Len(inbox'),
                        Generates(i)', Generates(j)', inbox'[i].req = inbox'[j].req
                 PROVE  i + 1 = j + 1
      BY <2>1
    <3> QED BY <1>2 DEF IInv, Messages, Generates
  <2>3. \A i, j \in 1..Len(inbox') : Updates(i)' /\ Updates(j)' => i = j
    <3> SUFFICES ASSUME NEW i \in 1..Len(inbox'), NEW j \in 1..Len(inbox'), Updates(i)', Updates(j)'
                 PROVE  i + 1 = j + 1
      BY <2>1
    <3> QED BY <1>2 DEF IInv, Messages, Updates
  <2>4. \A i \in 1..Len(inbox') : /\ Generates(i)' => client[inbox'[i].req] # "new"
                                  /\ Updates(i)' => updating /\ "update" \in Controls
                                  /\ inbox'[i].type # "flush"
    BY <1>2 DEF IInv, Messages, Generates, Updates
  <2>5. \A i \in 1..Len(inbox') : Updates(i)' => updating'
    <3>1. CASE UNCHANGED updating
      BY <2>4, <3>1
    <3>2. CASE Head(inbox).type = "update"
      <4>1. \A i \in 1..Len(inbox') : ~Updates(i)'
        <5> SUFFICES ASSUME NEW i \in 1..Len(inbox'), Updates(i)' PROVE FALSE
          OBVIOUS
        <5> DEFINE j == i + 1
        <5>1. j \in 1..Len(inbox) /\ j # 1 /\ inbox'[i] = inbox[j]
          BY <1>2
        <5> HIDE DEF j
        <5> QED BY <1>2, <3>2, <5>1 DEF IInv, Messages, Updates
      <4> QED BY <4>1
    <3> QED BY <3>1, <3>2
  <2>6. updating' => \A r \in Req : client'[r] # "open"
    BY DEF IInv, Messages
  <2> QED BY <1>1, <2>2, <2>3, <2>4, <2>5, <2>6 DEF IInv, Messages, SameConfig
<1> QED BY <1>1, <1>3, <1>4

(* handle_generate_request keeps the invariant: the request was unknown to *)
(* the scheduler, so it is in one place only.                              *)
LEMMA HandleGenerateInv ==
  ASSUME IInv, Orderly, Receive, Head(inbox).type = "generate", NEW r, r = Head(inbox).req
  PROVE  IInv'
<1>0. /\ HandleGenerate(r) /\ inbox # << >> /\ inbox' = Tail(inbox) /\ UNCHANGED <<config, client, controls, pc>>
  BY DEF Receive
<1>1. UNCHANGED updating
  BY <1>0 DEF HandleGenerate
<1>2. EnvTypes' /\ Messages' /\ SameConfig
  BY <1>0, <1>1, ReceiveFrame
<1>3. /\ \A i \in 1..Len(inbox') : i + 1 \in 1..Len(inbox) /\ i + 1 # 1 /\ inbox'[i] = inbox[i + 1]
      /\ 1 \in 1..Len(inbox) /\ Head(inbox) = inbox[1]
  BY <1>0, InboxTail DEF IInv, Types
<1>4. r \in Req /\ Absent(r) /\ client[r] # "new"
  BY <1>3 DEF IInv, Types, EnvTypes, Clients, Messages, Generates
<1>5. \A i \in 1..Len(inbox') : inbox'[i].type = "generate" => inbox'[i].req # r /\ Absent(inbox'[i].req)
  <2> SUFFICES ASSUME NEW i \in 1..Len(inbox'), inbox'[i].type = "generate"
               PROVE  inbox'[i].req # r /\ Absent(inbox'[i].req)
    OBVIOUS
  <2>1. i + 1 \in 1..Len(inbox) /\ i + 1 # 1 /\ inbox'[i] = inbox[i + 1]
    BY <1>3
  <2> DEFINE j == i + 1
  <2>2. j \in 1..Len(inbox) /\ j # 1 /\ inbox[j].type = "generate" /\ inbox'[i] = inbox[j]
    BY <2>1
  <2> HIDE DEF j
  <2>3. inbox[j].req # inbox[1].req
    BY <1>3, <2>2 DEF IInv, Messages, Generates
  <2> QED BY <1>3, <2>2, <2>3 DEF IInv, Clients, Generates
<1>6. /\ waiting_queue' = Append(waiting_queue, r)
      /\ UNCHANGED <<running_batch, batch_is_full, chunked_req, out_len, to_abort, is_retracted,
                     is_chunked, answered, crashed, cur_batch, last_batch, result_queue,
                     avail, slots, kv, delayed, pc>>
  BY <1>0 DEF HandleGenerate, batchVars, memVars
<1>7. /\ in_len' = [in_len EXCEPT ![r] = IF r \in BadReq THEN 1 ELSE @]
      /\ finished' = [finished EXCEPT ![r] = r \in BadReq]
  BY <1>0 DEF HandleGenerate
<1>8. /\ in_len' \in [Req -> Nat \ {0}] /\ finished' \in [Req -> BOOLEAN]
      /\ finished'[r] = (r \in BadReq) /\ (r \in BadReq => in_len'[r] = 1)
      /\ \A x \in Req \ {r} : in_len'[x] = in_len[x] /\ finished'[x] = finished[x]
  BY <1>4, <1>7 DEF IInv, Types, ReqTypes
<1>9. Prev' = Prev /\ Now' = Now
  BY <1>2, <1>6 DEF Prev, Now, SameConfig
<1>10. waiting_queue' \in Seq(Req) /\ Len(waiting_queue') = Len(waiting_queue) + 1
       /\ waiting_queue'[Len(waiting_queue) + 1] = r /\ Len(waiting_queue) \in Nat
       /\ \A i \in 1..Len(waiting_queue) : waiting_queue'[i] = waiting_queue[i]
  <2>1. waiting_queue \in Seq(Req)
    BY DEF IInv, Types, LoopTypes
  <2>2. r \in Req /\ waiting_queue' = Append(waiting_queue, r)
    BY <1>4, <1>6
  <2> QED BY <2>1, <2>2
<1>11. \A i \in 1..Len(waiting_queue') : i \in 1..Len(waiting_queue) \/ i = Len(waiting_queue) + 1
  BY <1>10
<1>12. r \notin ToSet(waiting_queue) /\ \A i \in 1..Len(waiting_queue) : waiting_queue[i] # r
  <2>1. waiting_queue \in Seq(Req)
    BY DEF IInv, Types, LoopTypes
  <2>2. DOMAIN waiting_queue = 1..Len(waiting_queue)
    BY <2>1
  <2> QED BY <1>4, <2>2 DEF Absent, ToSet
<1>13. ToSet(waiting_queue') = ToSet(waiting_queue) \cup {r} /\ ToSet(waiting_queue) \subseteq Req
  <2>0. waiting_queue \in Seq(Req)
    BY DEF IInv, Types, LoopTypes
  <2>1. DOMAIN waiting_queue = 1..Len(waiting_queue) /\ DOMAIN waiting_queue' = 1..Len(waiting_queue')
        /\ Len(waiting_queue) + 1 \in 1..Len(waiting_queue') /\ 1..Len(waiting_queue) \subseteq 1..Len(waiting_queue')
    BY <1>10, <2>0
  <2>2. ToSet(waiting_queue) \subseteq Req
    BY <2>0, <2>1 DEF ToSet
  <2>3. ToSet(waiting_queue') = ToSet(waiting_queue) \cup {r}
    BY <2>1, <1>10, <1>11 DEF ToSet
  <2> QED BY <2>2, <2>3
<1>14. LoopTypes' /\ ReqTypes'
  BY <1>6, <1>8, <1>10 DEF IInv, Types, LoopTypes, ReqTypes
<1>15. Batches' /\ InStep'
  BY <1>2, <1>6, <1>9 DEF IInv, Batches, InStep, BatchOK, Ext, SameConfig
<1>16. \A x \in Req : HasRow(x)' = HasRow(x)
  BY <1>4, <1>6, <1>8, <1>9 DEF HasRow, Ext, Absent
<1>17. Clients'
  <2>1. \A x : x # r => Absent(x)' = Absent(x)
    BY <1>6, <1>9, <1>13 DEF Absent
  <2> QED BY <1>0, <1>2, <1>4, <1>5, <1>6, <2>1 DEF IInv, Clients, Generates, SameConfig
<1>18. Queue'
  <2>1. \A i, j \in 1..Len(waiting_queue') : waiting_queue'[i] = waiting_queue'[j] => i = j
    BY <1>10, <1>11, <1>12 DEF IInv, Queue
  <2>2. \A x \in ToSet(waiting_queue) : QueueOf(x)'
    BY <1>6, <1>8, <1>9, <1>12, <1>13 DEF IInv, Queue, QueueOf
  <2>3. QueueOf(r)'
    BY <1>4, <1>6, <1>8, <1>9 DEF QueueOf, Absent
  <2> QED BY <1>13, <2>1, <2>2, <2>3 DEF Queue
<1>19. Status'
  <2>1. ASSUME NEW x \in Req, x # r PROVE StatusOf(x)'
    BY <1>2, <1>6, <1>8, <1>9, <1>16, <2>1 DEF IInv, Status, StatusOf, Bad, Ext, SameConfig
  <2>2. StatusOf(r)'
    <3>1. r # cur_batch.chunked /\ r # Prev.chunked
      <4>1. BatchOK(cur_batch) /\ BatchOK(Prev)
        BY NoBatchFields DEF IInv, Batches, Prev, BatchOK
      <4> QED BY <1>4, <4>1, NoBatchFields, SchedulerAssumption DEF BatchOK, Absent
    <3>2. r \notin Now.reqs
      BY <1>4, NoBatchFields DEF Now, Absent
    <3> QED BY <1>2, <1>4, <1>6, <1>8, <1>9, <3>1, <3>2 DEF StatusOf, Bad, Ext, Absent, SameConfig
  <2> QED BY <2>1, <2>2 DEF Status
<1>20. Unanswered'
  BY <1>6, <1>9 DEF IInv, Unanswered
<1>21. Counts'
  <2>1. ~HasRow(r)
    BY <1>4 DEF HasRow, Absent, Ext
  <2>2. \A x \in Req \ {r} : SeqLen(x)' = SeqLen(x)
    BY <1>6, <1>8 DEF SeqLen
  <2>3. \A x \in Req : Pending(x)' = Pending(x)
    BY <1>9 DEF Pending, Forwards
  <2> QED BY <1>2, <1>4, <1>6, <1>9, <1>16, <2>1, <2>2, <2>3 DEF IInv, Counts, CountsOf, Roomy, SameConfig
<1>22. Memory'
  <2>1. Rows' = Rows
    BY <1>16 DEF Rows
  <2> QED BY <1>2, <1>6, <2>1 DEF IInv, Memory, Ext, SameConfig
<1> QED BY <1>2, <1>14, <1>15, <1>17, <1>18, <1>19, <1>20, <1>21, <1>22 DEF IInv, Types

(* A state that differs from the last one only in requests that left the   *)
(* waiting queue and in to_abort.                                          *)
LEMMA HandleAbortInv ==
  ASSUME IInv, Orderly, Receive, Head(inbox).type = "abort", NEW r, r = Head(inbox).req
  PROVE  IInv'
<1>0. /\ HandleAbort(r) /\ inbox # << >> /\ inbox' = Tail(inbox) /\ UNCHANGED <<config, client, controls, pc>>
  BY DEF Receive
<1>1. UNCHANGED updating
  BY <1>0 DEF HandleAbort
<1>2. EnvTypes' /\ Messages' /\ SameConfig
  BY <1>0, <1>1, ReceiveFrame
<1>3. /\ \A i \in 1..Len(inbox') : i + 1 \in 1..Len(inbox) /\ i + 1 # 1 /\ inbox'[i] = inbox[i + 1]
      /\ 1 \in 1..Len(inbox) /\ Head(inbox) = inbox[1]
  BY <1>0, InboxTail DEF IInv, Types
<1>4. r \in Req
  BY <1>3 DEF IInv, Types, EnvTypes
<1>5. /\ waiting_queue' = Without(waiting_queue, {r})
      /\ to_abort' = [to_abort EXCEPT ![r] = @ \/ (r \in running_batch \cup cur_batch.reqs /\ ~finished[r])]
      /\ UNCHANGED <<running_batch, batch_is_full, chunked_req, in_len, out_len, finished,
                     is_retracted, is_chunked, answered, crashed, cur_batch, last_batch, result_queue,
                     avail, slots, kv, delayed, pc>>
  BY <1>0 DEF HandleAbort, batchVars, memVars
<1>6. to_abort' \in [Req -> BOOLEAN]
  BY <1>4, <1>5 DEF IInv, Types, ReqTypes
<1>7. Prev' = Prev /\ Now' = Now
  BY <1>2, <1>5 DEF Prev, Now, SameConfig
<1>8. /\ waiting_queue' \in Seq(Req) /\ ToSet(waiting_queue') = ToSet(waiting_queue) \ {r}
      /\ \A i, j \in 1..Len(waiting_queue') : waiting_queue'[i] = waiting_queue'[j] => i = j
  <2>1. /\ waiting_queue \in Seq(Req)
        /\ \A i, j \in 1..Len(waiting_queue) : waiting_queue[i] = waiting_queue[j] => i = j
    BY DEF IInv, Types, LoopTypes, Queue
  <2> DEFINE w == Without(waiting_queue, {r})
  <2>2. /\ w \in Seq(Req) /\ ToSet(w) = ToSet(waiting_queue) \ {r}
        /\ \A i, j \in 1..Len(w) : w[i] = w[j] => i = j
    BY <2>1, WithoutResult
  <2>3. waiting_queue' = w
    BY <1>5
  <2> HIDE DEF w
  <2> QED BY <2>2, <2>3
<1>9. LoopTypes' /\ ReqTypes'
  BY <1>5, <1>6, <1>8 DEF IInv, Types, LoopTypes, ReqTypes
<1>10. Batches' /\ InStep'
  BY <1>2, <1>5, <1>7 DEF IInv, Batches, InStep, BatchOK, Ext, SameConfig
<1>11. \A x : HasRow(x)' = HasRow(x)
  BY <1>5, <1>7 DEF HasRow, Ext
<1>12. Clients'
  <2>1. \A x : Absent(x) => Absent(x)'
    BY <1>5, <1>7, <1>8 DEF Absent
  <2>2. \A i \in 1..Len(inbox') : inbox'[i].type = "generate" => Absent(inbox'[i].req)
    <3> SUFFICES ASSUME NEW i \in 1..Len(inbox'), inbox'[i].type = "generate"
                 PROVE  Absent(inbox'[i].req)
      OBVIOUS
    <3> DEFINE j == i + 1
    <3>1. j \in 1..Len(inbox) /\ inbox'[i] = inbox[j]
      BY <1>3
    <3> HIDE DEF j
    <3> QED BY <3>1 DEF IInv, Clients, Generates
  <2> QED BY <1>0, <1>2, <1>5, <2>1, <2>2 DEF IInv, Clients, Generates, SameConfig
<1>13. Queue'
  BY <1>5, <1>7, <1>8 DEF IInv, Queue, QueueOf
<1>14. Status' /\ Unanswered'
  BY <1>2, <1>5, <1>7, <1>11 DEF IInv, Status, StatusOf, Unanswered, Bad, Ext, SameConfig
<1>15. Counts'
  BY <1>2, <1>5, <1>7, <1>11 DEF IInv, Counts, CountsOf, Pending, Forwards, SeqLen, Roomy, SameConfig
<1>16. Memory'
  <2>1. Rows' = Rows
    BY <1>11 DEF Rows
  <2> QED BY <1>2, <1>5, <2>1 DEF IInv, Memory, Ext, SameConfig
<1> QED BY <1>2, <1>9, <1>10, <1>12, <1>13, <1>14, <1>15, <1>16 DEF IInv, Types

(* No request is on its way when an update is received: no client holds    *)
(* the reader lock, and without disconnects that means answered.           *)
LEMMA UpdateIsAlone ==
  ASSUME IInv, Orderly, Receive, Head(inbox).type = "update", FlushAllowed
  PROVE  /\ pc = "recv" /\ crashed = "no" /\ Prev = NoBatch /\ Now = NoBatch /\ chunked_req = NoReq
         /\ \A r \in Req : ~HasRow(r) /\ kv[r] = 0 /\ delayed[r] = 0 /\ Pending(r) = 0
<1>1. pc = "recv" /\ crashed = "no" /\ inbox # << >> /\ waiting_queue = << >> /\ running_batch = {}
  BY DEF Receive, FlushAllowed
<1>2. updating /\ "update" \in Controls
  <2>1. inbox \in Seq(MessageType)
    BY DEF IInv, Types, EnvTypes
  <2>2. 1 \in 1..Len(inbox) /\ Head(inbox) = inbox[1]
    BY <1>1, <2>1
  <2> QED BY <2>2 DEF IInv, Messages, Updates
<1>3. \A r \in Req : Absent(r) \/ r \in answered
  <2>1. \A r \in Req : client[r] \in {"new", "open", "closed"} /\ client[r] # "open"
    BY <1>2 DEF IInv, Types, EnvTypes, Messages
  <2>2. "abort" \notin Controls
    BY <1>2 DEF Orderly
  <2> QED BY <2>1, <2>2 DEF IInv, Clients
<1>4. Now = NoBatch /\ last_batch = cur_batch
  BY <1>1 DEF Now, IInv, Batches
<1>5. cur_batch \in BatchType /\ BatchOK(cur_batch)
  BY DEF IInv, Types, LoopTypes, Batches
<1>6. cur_batch.reqs \subseteq answered
  <2>1. cur_batch.reqs \subseteq Req
    BY <1>5 DEF BatchType
  <2> QED BY <1>3, <2>1 DEF Absent
<1>7. chunked_req = NoReq
  <2> SUFFICES ASSUME chunked_req # NoReq PROVE FALSE
    OBVIOUS
  <2>1. chunked_req = cur_batch.chunked
    BY DEF IInv, Batches
  <2>2. chunked_req \in cur_batch.reqs
    BY <1>5, <2>1, NoBatchFields DEF BatchOK
  <2>3. chunked_req \in answered /\ chunked_req \in Req
    BY <1>6, <2>2 DEF IInv, Types, ReqTypes
  <2> QED BY <2>1, <2>3 DEF IInv, Status, StatusOf
<1>8. Prev = NoBatch
  <2> SUFFICES ASSUME Prev # NoBatch PROVE FALSE
    OBVIOUS
  <2>1. Prev = cur_batch /\ cur_batch # NoBatch
    BY <1>4 DEF Prev
  <2>2. CASE cur_batch.mode = "decode"
    BY <1>1, <1>5, <2>1, <2>2 DEF IInv, Batches, BatchOK
  <2>3. CASE cur_batch.mode = "extend"
    BY <1>6, <2>1, <2>3 DEF IInv, Unanswered
  <2> QED BY <1>5, <2>1, <2>2, <2>3 DEF BatchOK
<1>9. \A r \in Req : ~HasRow(r)
  BY <1>3, <1>1 DEF HasRow, Absent, Ext
<1>10. \A r \in Req : Pending(r) = 0
  BY <1>4, <1>8, NoBatchFields DEF Pending, Forwards, One
<1> QED BY <1>1, <1>4, <1>7, <1>8, <1>9, <1>10 DEF IInv, Counts, CountsOf

(* update_weights_from_disk keeps the invariant: it finds the scheduler    *)
(* idle, so resetting the pools frees nothing that is in use.              *)
LEMMA HandleUpdateInv ==
  ASSUME IInv, Orderly, Receive, Head(inbox).type = "update"
  PROVE  IInv'
<1>0. /\ HandleUpdate /\ inbox # << >> /\ inbox' = Tail(inbox) /\ UNCHANGED <<config, client, controls, pc>>
      /\ crashed = "no" /\ pc = "recv"
  BY DEF Receive
<1>1. updating' = FALSE
  BY <1>0 DEF HandleUpdate
<1>2. EnvTypes' /\ Messages' /\ SameConfig
  BY <1>0, <1>1, ReceiveFrame
<1>3. \A i \in 1..Len(inbox') : inbox'[i].type = "generate" => Absent(inbox'[i].req)
  <2> SUFFICES ASSUME NEW i \in 1..Len(inbox'), inbox'[i].type = "generate"
               PROVE  Absent(inbox'[i].req)
    OBVIOUS
  <2> DEFINE j == i + 1
  <2>1. j \in 1..Len(inbox) /\ inbox'[i] = inbox[j]
    BY <1>0, InboxTail DEF IInv, Types
  <2> HIDE DEF j
  <2> QED BY <2>1 DEF IInv, Clients, Generates
<1>4. UNCHANGED <<waiting_queue, running_batch, batch_is_full, chunked_req, in_len, out_len, finished,
                  to_abort, is_retracted, is_chunked, answered, pc>>
  BY <1>0 DEF HandleUpdate, queueVars, reqVars
<1>5. CASE ~FlushAllowed
  <2>1. crashed' = "flush" /\ UNCHANGED <<cur_batch, last_batch, result_queue, avail, slots, kv, delayed>>
    BY <1>0, <1>5 DEF HandleUpdate, batchVars, memVars
  <2>2. Prev' = Prev /\ Now' = Now
    BY <1>2, <1>4, <2>1 DEF Prev, Now, SameConfig
  <2>3. LoopTypes' /\ ReqTypes'
    BY <1>4, <2>1 DEF IInv, Types, LoopTypes, ReqTypes
  <2>4. Batches' /\ InStep'
    BY <1>2, <1>4, <2>1, <2>2 DEF IInv, Batches, InStep, BatchOK, Ext, SameConfig
  <2>5. \A x : HasRow(x)' = HasRow(x)
    BY <1>4, <2>1, <2>2 DEF HasRow, Ext
  <2>6. Clients'
    <3>1. \A x : Absent(x)' = Absent(x)
      BY <1>4, <2>1, <2>2 DEF Absent
    <3> QED BY <1>0, <1>2, <1>3, <1>4, <3>1 DEF IInv, Clients, Generates, SameConfig
  <2>7. Queue'
    BY <1>4, <2>1, <2>2 DEF IInv, Queue, QueueOf
  <2>8. Status' /\ Unanswered'
    BY <1>2, <1>4, <2>1, <2>2, <2>5 DEF IInv, Status, StatusOf, Unanswered, Bad, Ext, SameConfig
  <2>9. Counts'
    BY <1>2, <1>4, <2>1, <2>2, <2>5 DEF IInv, Counts, CountsOf, Pending, Forwards, SeqLen, Roomy, SameConfig
  <2>10. Memory'
    <3>1. Rows' = Rows
      BY <2>5 DEF Rows
    <3> QED BY <1>2, <1>4, <2>1, <3>1 DEF IInv, Memory, Ext, SameConfig
  <2> QED BY <1>2, <2>3, <2>4, <2>6, <2>7, <2>8, <2>9, <2>10 DEF IInv, Types
<1>6. CASE FlushAllowed
  <2>1. /\ Prev = NoBatch /\ Now = NoBatch /\ chunked_req = NoReq
        /\ \A r \in Req : ~HasRow(r) /\ kv[r] = 0 /\ delayed[r] = 0 /\ Pending(r) = 0
    BY <1>6, UpdateIsAlone
  <2>2. /\ cur_batch' = NoBatch /\ last_batch' = NoBatch /\ avail' = MaxTotalTokens /\ slots' = MaxReqs
        /\ UNCHANGED <<result_queue, kv, delayed, crashed>>
        /\ waiting_queue = << >> /\ running_batch = {}
    BY <1>0, <1>6 DEF HandleUpdate, FlushEffect, FlushAllowed
  <2>3. Prev' = NoBatch /\ Now' = NoBatch
    BY <2>2 DEF Prev, Now
  <2>a. MaxTotalTokens \in Nat /\ MaxReqs \in Nat
    BY DEF IInv, Types, EnvTypes, ConfigType, MaxTotalTokens, MaxReqs
  <2>4. LoopTypes' /\ ReqTypes'
    BY <1>4, <2>2, <2>a, NoBatchFields DEF IInv, Types, LoopTypes, ReqTypes
  <2>5. Batches'
    BY <1>4, <2>1, <2>2, <2>3, NoBatchFields DEF Batches, BatchOK, Ext
  <2>6. InStep'
    BY <2>1, <2>2, <2>3 DEF IInv, InStep, One
  <2>7. Clients'
    <3>1. \A x : Absent(x) => Absent(x)'
      BY <1>4, <2>2, <2>3, NoBatchFields DEF Absent
    <3> QED BY <1>0, <1>2, <1>3, <1>4, <3>1 DEF IInv, Clients, Generates, SameConfig
  <2>8. Queue'
    BY <1>4, <2>2 DEF Queue, ToSet
  <2>9. \A r \in Req : ~HasRow(r)'
    BY <1>4, <2>2, <2>3, NoBatchFields DEF HasRow, Ext
  <2>10. Status' /\ Unanswered'
    BY <1>2, <1>4, <2>2, <2>3, NoBatchFields, SchedulerAssumption
       DEF IInv, Status, StatusOf, Unanswered, Bad, Ext, SameConfig
  <2>11. Counts'
    <3>1. \A r \in Req : Pending(r)' = 0
      BY <2>3, NoBatchFields DEF Pending, Forwards, One
    <3>2. \A r \in Req : is_chunked[r] = 0
      BY <2>1, NoBatchFields, SchedulerAssumption DEF IInv, Counts, CountsOf, One
    <3> QED BY <1>4, <2>1, <2>2, <2>3, <2>9, <3>1, <3>2, NoBatchFields, SchedulerAssumption
            DEF Counts, CountsOf, One
  <2>12. Memory'
    <3>1. kv \in [Req -> Int] /\ delayed \in [Req -> Int]
      BY DEF IInv, Types, ReqTypes
    <3>2. SumOver(kv, Req) = 0 /\ SumOver(delayed, Req) = 0
      BY <2>1, <3>1, SumZero
    <3>3. Rows' = {} /\ (running_batch \cup Ext(cur_batch))' = {} /\ Cardinality({}) = 0
      BY <1>4, <2>2, <2>9, NoBatchFields, FS_EmptySet DEF Rows, Ext
    <3>4. Cardinality(Rows') = 0 /\ Cardinality((running_batch \cup Ext(cur_batch))') = 0
      BY <3>3
    <3>5. (avail + SumOver(kv, Req) + SumOver(delayed, Req) = MaxTotalTokens)'
      BY <1>2, <2>2, <2>a, <3>2 DEF SameConfig
    <3>6. (slots + Cardinality(Rows) = MaxReqs /\ Cardinality(running_batch \cup Ext(cur_batch)) <= MaxReqs)'
      BY <1>2, <2>2, <2>a, <3>4 DEF SameConfig
    <3> QED BY <1>0, <2>2, <3>5, <3>6 DEF Memory
  <2> QED BY <1>2, <2>4, <2>5, <2>6, <2>7, <2>8, <2>10, <2>11, <2>12 DEF IInv, Types
<1> QED BY <1>5, <1>6

(* process_input_requests keeps the invariant, for each kind of message. *)
LEMMA ReceiveInv ==
  ASSUME IInv, Orderly, Receive
  PROVE  IInv'
<1>1. inbox # << >> /\ inbox \in Seq(MessageType)
  BY DEF Receive, IInv, Types, EnvTypes
<1>2. 1 \in 1..Len(inbox) /\ Head(inbox) = inbox[1] /\ Head(inbox) \in MessageType
  BY <1>1
<1>3. Head(inbox).type \in {"generate", "abort", "update"}
  BY <1>2 DEF IInv, Messages, MessageType
<1> QED BY <1>3, HandleGenerateInv, HandleAbortInv, HandleUpdateInv

---------------------------------------------------------------------------
(* The result of a batch *)

(* The batch whose result ProcessResult takes, and the one it leaves. *)
Taken == IF EnableOverlap THEN Prev ELSE Now
Left  == IF EnableOverlap THEN Now ELSE NoBatch

(* The parts of batch b that Process tells apart. *)
Lives(b)  == {r \in b.reqs : ~is_retracted[r]}
Chunks(b) == {r \in Lives(b) \ Late(b) : b.mode = "extend" /\ is_chunked[r] > 0}
Steps(b)  == Lives(b) \ (Late(b) \cup Chunks(b))

(* What Process does when the requests E end. *)
Ends(b, E) ==
  /\ E \subseteq Steps(b)
  /\ \A r \in Steps(b) : finished[r] \/ out_len[r] + 1 >= MaxNewTokens[r] => r \in E
  /\ is_chunked' = [r \in Req |-> IF r \in Chunks(b) THEN is_chunked[r] - 1 ELSE is_chunked[r]]
  /\ out_len' = [r \in Req |-> IF r \in Steps(b) THEN out_len[r] + 1 ELSE out_len[r]]
  /\ finished' = [r \in Req |-> finished[r] \/ r \in E]
  /\ avail' = avail + Cardinality(Late(b)) + SumOver([r \in Req |-> SeqLen(r)], E)
  /\ slots' = slots + Cardinality(E)
  /\ kv' = [r \in Req |-> IF r \in E THEN 0 ELSE kv[r]]
  /\ delayed' = [r \in Req |-> IF r \in E THEN kv[r] - SeqLen(r)
                               ELSE IF r \in Late(b) THEN delayed[r] - 1 ELSE delayed[r]]
  /\ answered' = answered \cup E
  /\ UNCHANGED <<in_len, to_abort, is_retracted>>

(* Whatever the samples are, Process ends a set E of the requests it       *)
(* steps, as Ends says.                                                    *)
LEMMA ProcessEnds ==
  ASSUME NEW b, NEW eos, Process(b, eos)
  PROVE  \E E : Ends(b, E)
<1> DEFINE E == {r \in Steps(b) : finished[r] \/ to_abort[r] \/ out_len[r] + 1 >= MaxNewTokens[r]
                                  \/ r \in eos}
<1>1. Ends(b, E)
  BY DEF Process, Ends, Steps, Chunks, Lives, CachedLen
<1> QED BY <1>1

(* In all three cases the result of Taken is processed and Left remains. *)
LEMMA ResultTaken ==
  ASSUME IInv, ProcessResult
  PROVE  /\ \E E : Ends(Taken, E)
         /\ Prev' = Left /\ Now' = NoBatch /\ InStep'
         /\ last_batch' = cur_batch /\ pc' = "recv" /\ result_queue' \in Seq(BatchType)
         /\ UNCHANGED <<config, client, updating, controls, inbox, crashed, cur_batch,
                        waiting_queue, running_batch, batch_is_full, chunked_req>>
<1>1. /\ last_batch' = cur_batch /\ pc' = "recv" /\ pc = "result"
      /\ UNCHANGED <<config, client, updating, controls, inbox, crashed, cur_batch,
                     waiting_queue, running_batch, batch_is_full, chunked_req>>
  BY DEF ProcessResult, queueVars
<1>2. SameConfig
  BY <1>1, Constants
<1>3. Now = cur_batch /\ Prev' = Left /\ Now' = NoBatch
  BY <1>1, <1>2 DEF Now, Prev, Left, SameConfig
<1>t. result_queue \in Seq(BatchType)
  BY DEF IInv, Types, LoopTypes
<1>4. CASE ~EnableOverlap
  <2>1. Taken = cur_batch /\ Prev = NoBatch /\ Left = NoBatch
    BY <1>3, <1>4 DEF Taken, Prev, Left
  <2>2. \E E : Ends(Taken, E)
    BY <1>4, <2>1, ProcessEnds DEF ProcessResult
  <2>3. UNCHANGED result_queue
    BY <1>4 DEF ProcessResult
  <2>4. InStep'
    BY <1>2, <1>3, <1>4, <2>1, <2>3 DEF IInv, InStep, SameConfig, One
  <2> QED BY <1>1, <1>3, <1>t, <2>2, <2>3, <2>4
<1>5. CASE EnableOverlap /\ last_batch = NoBatch
  <2>1. Taken = NoBatch /\ Prev = NoBatch /\ Left = cur_batch
    BY <1>3, <1>5 DEF Taken, Prev, Left
  <2>2. UNCHANGED <<result_queue, in_len, out_len, finished, to_abort, is_retracted, is_chunked, answered,
                    avail, slots, kv, delayed>>
    BY <1>5 DEF ProcessResult, reqVars, memVars
  <2>3. Ends(NoBatch, {})
    <3>1. Lives(NoBatch) = {} /\ Late(NoBatch) = {} /\ Chunks(NoBatch) = {} /\ Steps(NoBatch) = {}
      BY NoBatchFields DEF Lives, Late, Chunks, Steps
    <3>2. Cardinality({}) = 0 /\ SumOver([r \in Req |-> SeqLen(r)], {}) = 0
      BY FS_EmptySet, SumEmpty
    <3>3. ReqTypes
      BY DEF IInv, Types
    <3>4. /\ avail' = avail + Cardinality(Late(NoBatch)) + SumOver([r \in Req |-> SeqLen(r)], {})
          /\ slots' = slots + Cardinality({})
      BY <2>2, <3>1, <3>2, <3>3 DEF ReqTypes
    <3>5. /\ is_chunked' = [r \in Req |-> IF r \in Chunks(NoBatch) THEN is_chunked[r] - 1 ELSE is_chunked[r]]
          /\ out_len' = [r \in Req |-> IF r \in Steps(NoBatch) THEN out_len[r] + 1 ELSE out_len[r]]
          /\ kv' = [r \in Req |-> IF r \in {} THEN 0 ELSE kv[r]]
          /\ delayed' = [r \in Req |-> IF r \in {} THEN kv[r] - SeqLen(r)
                               ELSE IF r \in Late(NoBatch) THEN delayed[r] - 1 ELSE delayed[r]]
      BY <2>2, <3>1, <3>3 DEF ReqTypes
    <3>6. finished' = [r \in Req |-> finished[r] \/ r \in {}]
      BY <2>2, <3>3 DEF ReqTypes
    <3> QED BY <2>2, <3>1, <3>4, <3>5, <3>6 DEF Ends
  <2>4. InStep'
    BY <1>2, <1>3, <1>5, <2>1, <2>2 DEF IInv, InStep, SameConfig, One
  <2> QED BY <1>1, <1>3, <1>t, <2>1, <2>2, <2>3, <2>4
<1>6. CASE EnableOverlap /\ last_batch # NoBatch
  <2>1. Taken = Prev /\ Prev = last_batch /\ Left = cur_batch /\ Prev # NoBatch
    BY <1>3, <1>6 DEF Taken, Prev, Left
  <2>2. Len(result_queue) = 1 + One(cur_batch # NoBatch) /\ result_queue[1] = Prev
        /\ (cur_batch # NoBatch => result_queue[Len(result_queue)] = cur_batch)
    BY <1>3, <1>6, <2>1 DEF IInv, InStep, One
  <2>3. result_queue # << >> /\ Head(result_queue) = Taken
    BY <1>t, <2>1, <2>2 DEF One
  <2>4. (\E E : Ends(Taken, E)) /\ result_queue' = Tail(result_queue)
    BY <1>6, <2>3, ProcessEnds DEF ProcessResult
  <2>5. result_queue' \in Seq(BatchType) /\ Len(result_queue') = One(cur_batch # NoBatch)
    BY <1>t, <2>2, <2>3, <2>4 DEF One
  <2>6. cur_batch # NoBatch => result_queue'[1] = cur_batch
    <3> SUFFICES ASSUME cur_batch # NoBatch PROVE result_queue'[1] = cur_batch
      OBVIOUS
    <3>1. Len(result_queue) = 2 /\ result_queue[2] = cur_batch
      BY <2>2 DEF One
    <3> QED BY <1>t, <2>4, <3>1
  <2>7. InStep'
    BY <1>2, <1>3, <1>6, <2>1, <2>5, <2>6 DEF InStep, SameConfig, One
  <2> QED BY <1>1, <1>3, <2>4, <2>5, <2>7
<1> QED BY <1>t, <1>4, <1>5, <1>6

(* Where a request of Taken stands. *)
LEMMA TakenReqs ==
  ASSUME IInv, Orderly, pc = "result"
  PROVE  /\ Taken.reqs \subseteq Req
         /\ \A r \in Req : r \in Late(Taken) => r \in answered /\ Forwards(Taken, r) = 1
         /\ \A r \in Req : r \in answered /\ r \notin Late(Taken) => Forwards(Taken, r) = 0
         /\ \A r \in Req : r \in Chunks(Taken) <=> r = Taken.chunked
         /\ \A r \in Req : r \in Steps(Taken) =>
              /\ r \in Taken.reqs /\ ~is_retracted[r] /\ r # chunked_req /\ r \notin answered
              /\ HasRow(r) /\ Forwards(Taken, r) = 1
         /\ \A r \in Req : r \in Taken.reqs /\ HasRow(r) /\ r # Taken.chunked => r \in Steps(Taken)
<1>1. Now = cur_batch
  BY DEF Now
<1>2. /\ cur_batch \in BatchType /\ last_batch \in BatchType /\ BatchOK(cur_batch) /\ BatchOK(last_batch)
      /\ chunked_req = cur_batch.chunked
      /\ cur_batch.mode = "decode" => running_batch = cur_batch.reqs
      /\ Prev.chunked # NoReq => Prev.chunked \in cur_batch.reqs
  BY DEF IInv, Types, LoopTypes, Batches
<1>3. Prev \in BatchType /\ BatchOK(Prev)
  BY <1>2, NoBatchFields DEF Prev, BatchOK
<1>4. Taken \in BatchType /\ BatchOK(Taken)
  BY <1>1, <1>2, <1>3 DEF Taken
<1>5. Taken.reqs \subseteq Req /\ Taken.chunked \in Req \cup {NoReq} /\ cur_batch.reqs \subseteq Req
  BY <1>2, <1>4 DEF BatchType
<1>6. Taken.chunked # NoReq => Taken.chunked \in Taken.reqs /\ Taken.mode = "extend"
  BY <1>4, NoBatchFields DEF BatchOK
<1>7. Taken = NoBatch \/ Taken.mode \in {"extend", "decode"}
  BY <1>4 DEF BatchOK
<1>8. ASSUME NEW r \in Req
      PROVE  /\ r \in Late(Taken) => r \in answered /\ Forwards(Taken, r) = 1
             /\ r \in answered /\ r \notin Late(Taken) => Forwards(Taken, r) = 0
             /\ r \in Chunks(Taken) <=> r = Taken.chunked
             /\ r \in Steps(Taken) =>
                  /\ r \in Taken.reqs /\ ~is_retracted[r] /\ r # chunked_req /\ r \notin answered
                  /\ HasRow(r) /\ Forwards(Taken, r) = 1
             /\ r \in Taken.reqs /\ HasRow(r) /\ r # Taken.chunked => r \in Steps(Taken)
  <2>1. StatusOf(r) /\ CountsOf(r) /\ r # NoReq
    BY SchedulerAssumption DEF IInv, Status, Counts
  <2>2. r = Taken.chunked => r \in cur_batch.reqs /\ ~is_retracted[r] /\ ~finished[r]
    BY <1>1, <1>2, <1>6, <2>1 DEF Taken, StatusOf
  <2>3. is_chunked[r] = One(Prev.chunked = r) + One(Now.chunked = r)
    BY <2>1 DEF CountsOf
  <2>4. r = Taken.chunked => is_chunked[r] > 0
    BY <2>1, <2>3 DEF Taken, One
  <2>5. r \in Taken.reqs /\ is_chunked[r] > 0 => r = Taken.chunked
    <3>1. CASE EnableOverlap
      BY <1>1, <2>1, <2>3, <3>1 DEF Taken, One, StatusOf
    <3>2. CASE ~EnableOverlap
      BY <2>1, <2>3, <3>2, NoBatchFields DEF Taken, Prev, One
    <3> QED BY <3>1, <3>2
  <2>6. r \in Chunks(Taken) <=> r = Taken.chunked
    BY <1>6, <2>1, <2>2, <2>4, <2>5 DEF Chunks, Lives, Late
  <2>7. r \in Late(Taken) => r \in answered
    <3> SUFFICES ASSUME r \in Late(Taken), r \notin answered PROVE FALSE
      OBVIOUS
    <3>1. Bad(r) /\ EnableOverlap /\ (Taken.mode = "decode" \/ IsMixedChunk) /\ r \in Taken.reqs
      BY DEF Late, Bad
    <3>2. r \in BadReq /\ Taken.mode = "extend"
      BY <2>1, <3>1 DEF StatusOf, Taken
    <3> QED BY <3>1, <3>2 DEF Orderly
  <2>8. r \in Late(Taken) => Forwards(Taken, r) = 1
    BY <2>2 DEF Late, Forwards, One
  <2>9. r \in answered /\ r \in Taken.reqs => r \in Late(Taken)
    <3> SUFFICES ASSUME r \in answered, r \in Taken.reqs PROVE r \in Late(Taken)
      OBVIOUS
    <3>1. finished[r] /\ ~is_retracted[r]
      BY <2>1 DEF StatusOf
    <3>2. EnableOverlap
      BY <2>1 DEF StatusOf, Taken
    <3>3. Taken.mode = "decode" \/ IsMixedChunk
      BY <1>7, <2>1, <3>2, NoBatchFields DEF StatusOf, Taken, Ext
    <3> QED BY <3>1, <3>2, <3>3 DEF Late
  <2>10. r \in answered /\ r \notin Late(Taken) => Forwards(Taken, r) = 0
    BY <2>9 DEF Forwards, One
  <2>11. ASSUME r \in Steps(Taken)
         PROVE  /\ r \in Taken.reqs /\ ~is_retracted[r] /\ r # chunked_req /\ r \notin answered
                /\ HasRow(r) /\ Forwards(Taken, r) = 1
    <3>1. r \in Taken.reqs /\ ~is_retracted[r] /\ r # Taken.chunked /\ r \notin answered
      BY <2>6, <2>9, <2>11 DEF Steps, Lives
    <3>2. r # chunked_req
      BY <1>1, <1>2, <2>1, <3>1 DEF Taken, StatusOf
    <3>3. Forwards(Taken, r) = 1
      BY <3>1 DEF Forwards, One
    <3>4. HasRow(r)
      <4>1. CASE EnableOverlap
        BY <2>1, <3>1, <4>1 DEF Taken, StatusOf
      <4>2. CASE ~EnableOverlap
        <5>1. r \in cur_batch.reqs
          BY <1>1, <3>1, <4>2 DEF Taken
        <5>2. cur_batch.mode \in {"extend", "decode"}
          BY <1>2, <5>1, NoBatchFields DEF BatchOK
        <5> QED BY <1>2, <3>1, <5>1, <5>2 DEF HasRow, Ext
      <4> QED BY <4>1, <4>2
    <3> QED BY <3>1, <3>2, <3>3, <3>4
  <2>12. r \in Taken.reqs /\ HasRow(r) /\ r # Taken.chunked => r \in Steps(Taken)
    <3> SUFFICES ASSUME r \in Taken.reqs, HasRow(r), r # Taken.chunked PROVE r \in Steps(Taken)
      OBVIOUS
    <3>1. r \notin answered
      BY DEF HasRow
    <3>2. ~is_retracted[r]
      BY <2>1 DEF HasRow, StatusOf, Ext
    <3> QED BY <2>6, <2>7, <3>1, <3>2 DEF Steps, Lives
  <2> QED BY <2>6, <2>7, <2>8, <2>10, <2>11, <2>12
<1> QED BY <1>5, <1>8

(* The sum over all requests. *)
LEMMA ReqSum ==
  ASSUME NEW f \in [Req -> Int], NEW g \in [Req -> Int], NEW h \in [Req -> Int],
         \A r \in Req : h[r] = f[r] + g[r]
  PROVE  SumOver(h, Req) = SumOver(f, Req) + SumOver(g, Req)
<1>1. Req \in SUBSET Req /\ IsFiniteSet(Req)
  BY SchedulerAssumption
<1> QED BY <1>1, SumLinear

(* What the end of E gives back is what leaves the accounts of the         *)
(* requests.                                                               *)
LEMMA ProcessBalance ==
  ASSUME IInv, NEW E \in SUBSET Req, NEW late \in SUBSET Req, E \cap late = {},
         kv' = [r \in Req |-> IF r \in E THEN 0 ELSE kv[r]],
         delayed' = [r \in Req |-> IF r \in E THEN kv[r] - SeqLen(r)
                                   ELSE IF r \in late THEN delayed[r] - 1 ELSE delayed[r]],
         \A r \in E : delayed[r] = 0,
         avail' = avail + Cardinality(late) + SumOver([r \in Req |-> SeqLen(r)], E)
  PROVE  /\ avail' + SumOver(kv', Req) + SumOver(delayed', Req)
              = avail + SumOver(kv, Req) + SumOver(delayed, Req)
         /\ avail' \in Nat
<1> DEFINE len == [r \in Req |-> SeqLen(r)]
           l == [r \in Req |-> IF r \in E THEN len[r] ELSE 0]
           o == [r \in Req |-> IF r \in late THEN 1 ELSE 0]
           before == [r \in Req |-> kv[r] + delayed[r]]
           after == [r \in Req |-> kv'[r] + delayed'[r]]
           gone == [r \in Req |-> l[r] + o[r]]
<1>1. IsFiniteSet(Req) /\ Req \in SUBSET Req /\ IsFiniteSet(E)
  BY SchedulerAssumption, ReqFinite
<1>2. /\ kv \in [Req -> Int] /\ delayed \in [Req -> Int] /\ avail \in Nat
      /\ in_len \in [Req -> Nat \ {0}] /\ out_len \in [Req -> Nat]
  BY DEF IInv, Types, ReqTypes
<1>3. len \in [Req -> Int] /\ \A r \in Req : len[r] = SeqLen(r) /\ len[r] >= 0
  BY <1>2 DEF SeqLen
<1>4. kv' \in [Req -> Int]
  BY <1>2
<1>5. delayed' \in [Req -> Int]
  BY <1>2, <1>3
<1>6. l \in [Req -> Int] /\ o \in [Req -> Int]
  BY <1>3
<1>7. /\ before \in [Req -> Int] /\ \A r \in Req : before[r] = kv[r] + delayed[r]
  BY <1>2
<1>8. /\ after \in [Req -> Int] /\ \A r \in Req : after[r] = kv'[r] + delayed'[r]
  BY <1>4, <1>5
<1>9. /\ gone \in [Req -> Int] /\ \A r \in Req : gone[r] = l[r] + o[r]
  BY <1>6
<1>a. \A r \in Req : before[r] = after[r] + gone[r]
  <2> SUFFICES ASSUME NEW r \in Req PROVE before[r] = after[r] + gone[r]
    OBVIOUS
  <2>1. CASE r \in E
    <3>1. kv'[r] = 0 /\ delayed'[r] = kv[r] - len[r] /\ delayed[r] = 0 /\ l[r] = len[r] /\ o[r] = 0
      BY <1>3, <2>1
    <3> QED BY <1>2, <1>3, <1>7, <1>8, <1>9, <3>1
  <2>2. CASE r \notin E
    <3>1. kv'[r] = kv[r] /\ delayed'[r] = delayed[r] - o[r] /\ l[r] = 0 /\ o[r] \in Int
      BY <1>2, <2>2
    <3> QED BY <1>2, <1>7, <1>8, <1>9, <3>1
  <2> QED BY <2>1, <2>2
<1>b. SumOver(l, Req) = SumOver(len, E)
  <2>1. \A r \in Req : l[r] = IF r \in E THEN len[r] ELSE 0
    OBVIOUS
  <2> HIDE DEF l, len
  <2> QED BY <1>1, <1>3, <1>6, <2>1, SumPart
<1>c. SumOver(o, Req) = Cardinality(late)
  <2>1. \A r \in Req : o[r] = IF r \in late THEN 1 ELSE 0
    OBVIOUS
  <2> HIDE DEF o
  <2> QED BY <1>1, <1>6, <2>1, SumOnes
<1>d. avail' = avail + Cardinality(late) + SumOver(len, E)
  OBVIOUS
<1>e. \A r \in E : len[r] >= 0
  BY <1>3
<1> HIDE DEF len, l, o, before, after, gone
<1>f. SumOver(before, Req) = SumOver(kv, Req) + SumOver(delayed, Req)
  BY <1>2, <1>7, ReqSum
<1>g. SumOver(after, Req) = SumOver(kv', Req) + SumOver(delayed', Req)
  BY <1>4, <1>5, <1>8, ReqSum
<1>h. SumOver(gone, Req) = SumOver(l, Req) + SumOver(o, Req)
  BY <1>6, <1>9, ReqSum
<1>i. SumOver(before, Req) = SumOver(after, Req) + SumOver(gone, Req)
  BY <1>7, <1>8, <1>9, <1>a, ReqSum
<1>j. /\ SumOver(kv, Req) \in Int /\ SumOver(delayed, Req) \in Int
      /\ SumOver(kv', Req) \in Int /\ SumOver(delayed', Req) \in Int
  BY <1>1, <1>2, <1>4, <1>5, SumType
<1>k. Cardinality(late) \in Nat /\ SumOver(len, E) \in Nat
  BY <1>1, <1>3, <1>e, ReqFinite, SumNat
<1> QED BY <1>2, <1>b, <1>c, <1>d, <1>f, <1>g, <1>h, <1>i, <1>j, <1>k

(* process_batch_result keeps the invariant: each request of the batch     *)
(* spends one pending forward, and the ones that end return their tokens.  *)
LEMMA ProcessResultInv ==
  ASSUME IInv, Orderly, ProcessResult
  PROVE  IInv'
<1> DEFINE b == Taken
<1>1. /\ Prev' = Left /\ Now' = NoBatch /\ InStep'
      /\ last_batch' = cur_batch /\ pc' = "recv" /\ result_queue' \in Seq(BatchType)
      /\ UNCHANGED <<config, client, updating, controls, inbox, crashed, cur_batch,
                     waiting_queue, running_batch, batch_is_full, chunked_req>>
  BY ResultTaken
<1>2. PICK E : Ends(b, E)
  BY ResultTaken
<1>3. pc = "result" /\ SameConfig
  BY <1>1, Constants DEF ProcessResult
<1>4. Now = cur_batch
  BY <1>3 DEF Now
<1>5. /\ b.reqs \subseteq Req
      /\ \A r \in Req : r \in Late(b) => r \in answered /\ Forwards(b, r) = 1
      /\ \A r \in Req : r \in answered /\ r \notin Late(b) => Forwards(b, r) = 0
      /\ \A r \in Req : r \in Chunks(b) <=> r = b.chunked
      /\ \A r \in Req : r \in Steps(b) =>
           /\ r \in b.reqs /\ ~is_retracted[r] /\ r # chunked_req /\ r \notin answered
           /\ HasRow(r) /\ Forwards(b, r) = 1
      /\ \A r \in Req : r \in b.reqs /\ HasRow(r) /\ r # b.chunked => r \in Steps(b)
  BY <1>3, TakenReqs
<1>6. E \in SUBSET Req /\ Late(b) \in SUBSET Req /\ E \cap Late(b) = {} /\ Steps(b) \in SUBSET Req
  BY <1>2, <1>5 DEF Ends, Steps, Lives, Late
<1> DEFINE S == Steps(b)
           L == Late(b)
           C == Chunks(b)
<1>7. /\ E \subseteq S /\ \A r \in S : finished[r] => r \in E
      /\ answered' = answered \cup E
      /\ UNCHANGED <<in_len, to_abort, is_retracted>>
      /\ slots' = slots + Cardinality(E)
  BY <1>2 DEF Ends
<1>8. /\ is_chunked' = [r \in Req |-> IF r \in C THEN is_chunked[r] - 1 ELSE is_chunked[r]]
      /\ out_len' = [r \in Req |-> IF r \in S THEN out_len[r] + 1 ELSE out_len[r]]
      /\ finished' = [r \in Req |-> finished[r] \/ r \in E]
      /\ kv' = [r \in Req |-> IF r \in E THEN 0 ELSE kv[r]]
      /\ delayed' = [r \in Req |-> IF r \in E THEN kv[r] - SeqLen(r)
                                   ELSE IF r \in L THEN delayed[r] - 1 ELSE delayed[r]]
  BY <1>2 DEF Ends
<1>9. ReqTypes /\ LoopTypes /\ EnvTypes
  BY DEF IInv, Types
<1>10. avail' + SumOver(kv', Req) + SumOver(delayed', Req)
              = avail + SumOver(kv, Req) + SumOver(delayed, Req)
       /\ avail' \in Nat
  <2>1. \A r \in E : delayed[r] = 0
    BY <1>5, <1>6, <1>7 DEF IInv, Counts, CountsOf
  <2>2. avail' = avail + Cardinality(L) + SumOver([r \in Req |-> SeqLen(r)], E)
    BY <1>2 DEF Ends
  <2> QED BY <1>6, <1>8, <2>1, <2>2, ProcessBalance
<1>11. \A r \in Req : r \in C => is_chunked[r] > 0
  BY DEF Chunks
<1> HIDE DEF S, L, C, b
<1>12. \A r \in Req : /\ is_chunked'[r] = IF r \in C THEN is_chunked[r] - 1 ELSE is_chunked[r]
                      /\ out_len'[r] = IF r \in S THEN out_len[r] + 1 ELSE out_len[r]
                      /\ finished'[r] = (finished[r] \/ r \in E)
                      /\ kv'[r] = IF r \in E THEN 0 ELSE kv[r]
                      /\ delayed'[r] = IF r \in E THEN kv[r] - SeqLen(r)
                                   ELSE IF r \in L THEN delayed[r] - 1 ELSE delayed[r]
  BY <1>8
<1>13. ReqTypes'
  <2>1. \A r \in Req : /\ is_chunked[r] \in Nat /\ out_len[r] \in Nat /\ kv[r] \in Int /\ delayed[r] \in Int
                       /\ SeqLen(r) \in Int
    BY <1>9 DEF ReqTypes, SeqLen
  <2>2. is_chunked' \in [Req -> Nat] /\ out_len' \in [Req -> Nat]
    BY <1>8, <1>11, <2>1
  <2>3. kv' \in [Req -> Int] /\ delayed' \in [Req -> Int]
    BY <1>8, <2>1
  <2>4. finished' \in [Req -> BOOLEAN]
    BY <1>8
  <2>5. slots' \in Nat
    BY <1>6, <1>7, <1>9, ReqFinite DEF ReqTypes
  <2>6. answered' \in SUBSET Req
    BY <1>6, <1>7, <1>9 DEF ReqTypes
  <2> QED BY <1>7, <1>9, <1>10, <2>2, <2>3, <2>4, <2>5, <2>6 DEF ReqTypes
<1>14. LoopTypes' /\ EnvTypes'
  BY <1>1, <1>9 DEF LoopTypes, EnvTypes
<1>15. /\ cur_batch \in BatchType /\ BatchOK(cur_batch) /\ BatchOK(last_batch)
       /\ chunked_req = cur_batch.chunked
       /\ cur_batch.mode = "decode" => running_batch = cur_batch.reqs
       /\ running_batch \cap Ext(cur_batch) = {}
  BY <1>9 DEF LoopTypes, IInv, Batches
<1>16. /\ Left.reqs \subseteq cur_batch.reqs /\ Left.chunked \in {NoReq, cur_batch.chunked}
       /\ Left = cur_batch \/ Left = NoBatch
       /\ EnableOverlap => Left = cur_batch /\ b = Prev
       /\ ~EnableOverlap => Left = NoBatch /\ b = cur_batch /\ Prev = NoBatch
  BY <1>4, NoBatchFields DEF Left, Taken, Prev, b
<1>17. Batches'
  <2>1. cur_batch.chunked # NoReq => cur_batch.chunked \in cur_batch.reqs
    BY <1>15, NoBatchFields DEF BatchOK
  <2>2. (Prev.chunked # NoReq => Prev.chunked \in cur_batch.reqs)'
    BY <1>1, <1>16, <2>1
  <2> QED BY <1>1, <1>15, <2>2 DEF Batches, Ext, BatchOK
<1>18. \A r \in Req : r \in cur_batch.reqs => r \in running_batch \/ r \in Ext(cur_batch)
  BY <1>15, NoBatchFields DEF BatchOK, Ext
<1>19. \A r \in Req : HasRow(r)' <=> HasRow(r) /\ r \notin E
  <2> SUFFICES ASSUME NEW r \in Req PROVE HasRow(r)' <=> HasRow(r) /\ r \notin E
    OBVIOUS
  <2>1. HasRow(r)' <=> r \notin answered' /\ (r \in running_batch \/ r \in Ext(cur_batch))
    <3>1. Ext(Prev)' \subseteq Ext(cur_batch)
      BY <1>1, <1>16, NoBatchFields DEF Ext
    <3> QED BY <1>1, <3>1 DEF HasRow, Ext
  <2>2. ASSUME HasRow(r), r \notin running_batch, r \notin Ext(cur_batch) PROVE r \in E
    <3>1. finished[r] /\ r \in Ext(Prev)
      BY <2>2 DEF HasRow
    <3>2. EnableOverlap /\ r \in b.reqs
      BY <1>16, <3>1, NoBatchFields DEF Ext
    <3>3. r # b.chunked
      BY <1>16, <3>1, <3>2 DEF IInv, Status, StatusOf
    <3>4. r \in S
      BY <1>5, <2>2, <3>2, <3>3 DEF S
    <3> QED BY <1>7, <3>1, <3>4
  <2> QED BY <1>7, <2>1, <2>2 DEF HasRow
<1>20. Rows' = Rows \ E /\ E \subseteq Rows
  BY <1>5, <1>6, <1>7, <1>19 DEF Rows, S
<1>21. \A r \in Req : /\ Pending(r) = Forwards(b, r) + Forwards(Left, r)
                       /\ Pending(r)' = Forwards(Left, r)
  <2> SUFFICES ASSUME NEW r \in Req PROVE Pending(r) = Forwards(b, r) + Forwards(Left, r)
                                           /\ Pending(r)' = Forwards(Left, r)
    OBVIOUS
  <2>1. Forwards(NoBatch, r) = 0 /\ \A x : Forwards(x, r) \in Nat
    BY NoBatchFields DEF Forwards, One
  <2>2. Pending(r) = Forwards(b, r) + Forwards(Left, r)
    BY <1>4, <1>16, <2>1 DEF Pending
  <2>3. Pending(r)' = Forwards(Left, r) + Forwards(NoBatch, r)
    BY <1>1 DEF Pending, Forwards
  <2> QED BY <2>1, <2>2, <2>3
<1>22. Memory'
  <2>1. Cardinality(Rows') = Cardinality(Rows) - Cardinality(E)
    <3>1. IsFiniteSet(Rows)
      BY ReqFinite DEF Rows
    <3>2. Cardinality(Rows \ E) = Cardinality(Rows) - Cardinality(Rows \cap E) /\ Rows \cap E = E
      BY <1>20, <3>1, FS_Difference
    <3> QED BY <1>20, <3>2
  <2>2. Cardinality(Rows) \in Nat /\ Cardinality(E) \in Nat
    BY <1>6, ReqFinite DEF Rows
  <2>3. slots' + Cardinality(Rows') = MaxReqs
    <3>1. slots + Cardinality(Rows) = MaxReqs /\ slots \in Nat
      BY <1>9 DEF IInv, Memory, ReqTypes
    <3>2. slots' = slots + Cardinality(E)
      BY <1>7
    <3> QED BY <2>1, <2>2, <3>1, <3>2
  <2>4. avail' + SumOver(kv', Req) + SumOver(delayed', Req) = MaxTotalTokens
    BY <1>10 DEF IInv, Memory
  <2> QED BY <1>1, <1>3, <2>3, <2>4 DEF IInv, Memory, SameConfig, Ext
<1>23. Messages'
  BY <1>1, <1>3 DEF IInv, Messages, Generates, Updates, SameConfig
<1>24. \A r \in Req : Absent(r) => Absent(r)'
  <2> SUFFICES ASSUME NEW r \in Req, Absent(r) PROVE Absent(r)'
    OBVIOUS
  <2>1. r \notin b.reqs
    BY <1>16 DEF Absent
  <2>2. r \notin S /\ r \notin E
    BY <1>5, <1>7, <2>1 DEF S
  <2>3. out_len'[r] = 0 /\ r \notin answered' /\ ~is_retracted'[r]
    BY <1>7, <1>12, <2>2 DEF Absent
  <2> QED BY <1>1, <1>16, <2>3 DEF Absent
<1>25. Clients'
  <2>1. \A i \in 1..Len(inbox) : Generates(i) => inbox[i].req \in Req
    BY <1>9 DEF EnvTypes, Generates
  <2> QED BY <1>1, <1>3, <1>7, <1>24, <2>1 DEF IInv, Clients, Generates, SameConfig
<1>26. Queue'
  <2>0. ToSet(waiting_queue) \subseteq Req
    <3>1. waiting_queue \in Seq(Req)
      BY <1>9 DEF LoopTypes
    <3>2. DOMAIN waiting_queue = 1..Len(waiting_queue)
      BY <3>1
    <3> QED BY <3>1, <3>2 DEF ToSet
  <2> SUFFICES ASSUME NEW r \in ToSet(waiting_queue) PROVE QueueOf(r)'
    BY <1>1 DEF IInv, Queue
  <2>1. QueueOf(r) /\ r \in Req
    BY <2>0 DEF IInv, Queue
  <2>2. r \notin S
    BY <1>5, <1>16, <2>1 DEF QueueOf, S
  <2>3. r \notin E
    BY <1>7, <2>2
  <2>4. out_len'[r] = out_len[r] /\ finished'[r] = finished[r] /\ r \notin answered'
    BY <1>7, <1>9, <1>12, <2>1, <2>2, <2>3 DEF QueueOf, ReqTypes
  <2> QED BY <1>1, <1>7, <1>16, <2>1, <2>4 DEF QueueOf
<1>27. Status'
  <2> SUFFICES ASSUME NEW r \in Req PROVE StatusOf(r)'
    BY DEF Status
  <2>0. StatusOf(r) /\ finished[r] \in BOOLEAN /\ r # NoReq
    BY <1>9, SchedulerAssumption DEF IInv, Status, ReqTypes
  <2>1. r \in E => r \in S /\ ~is_retracted[r] /\ r # cur_batch.chunked /\ r \notin answered
    BY <1>5, <1>7, <1>15 DEF S
  <2>2. finished'[r] <=> finished[r] \/ r \in E
    BY <1>12
  <2>3. finished'[r] => r # cur_batch.chunked /\ r # Left.chunked
    BY <1>16, <2>0, <2>1, <2>2 DEF StatusOf
  <2>4. Bad(r)' => Bad(r)
    BY <1>7, <2>2 DEF Bad
  <2>5. Bad(r)' /\ r \in Left.reqs => Left.mode = "extend"
    <3>1. CASE r \in Left.reqs /\ Bad(r)'
      <4>1. Left = cur_batch /\ cur_batch # NoBatch
        BY <1>16, <3>1, NoBatchFields
      <4>2. r \notin running_batch
        BY <2>0, <2>4, <3>1 DEF StatusOf
      <4> QED BY <1>15, <3>1, <4>1, <4>2 DEF BatchOK
    <3> QED BY <3>1
  <2>6. Bad(r)' /\ ~EnableOverlap => r \notin cur_batch.reqs
    <3> SUFFICES ASSUME Bad(r)', ~EnableOverlap, r \in cur_batch.reqs PROVE FALSE
      OBVIOUS
    <3>1. Bad(r) /\ r # b.chunked /\ r \in b.reqs
      BY <1>16, <2>0, <2>4 DEF StatusOf, Bad
    <3>2. HasRow(r)
      BY <1>18, <3>1 DEF HasRow, Bad
    <3>3. r \in S
      BY <1>5, <3>1, <3>2 DEF S
    <3>4. r \in answered'
      BY <1>7, <3>1, <3>3 DEF Bad
    <3> QED BY <3>4 DEF Bad
  <2>7. r \in Left.reqs => r \in answered' \/ HasRow(r)'
    <3> SUFFICES ASSUME r \in Left.reqs, r \notin answered' PROVE HasRow(r)'
      OBVIOUS
    <3>1. r \in cur_batch.reqs /\ r \notin answered /\ r \notin E
      BY <1>7, <1>16
    <3>2. HasRow(r)
      BY <1>18, <3>1 DEF HasRow
    <3> QED BY <1>19, <3>1, <3>2
  <2>8. ~IsMixedChunk /\ r \in Ext(Left) => r \notin answered'
    <3> SUFFICES ASSUME ~IsMixedChunk, r \in Ext(Left), r \in E PROVE FALSE
      BY <1>4, <1>7, <1>16, <2>0, NoBatchFields DEF StatusOf, Ext
    <3>1. EnableOverlap /\ b = Prev /\ Left = cur_batch
      BY <1>16, NoBatchFields DEF Ext
    <3>2. r \in Prev.reqs /\ r \in S
      BY <1>5, <2>1, <3>1 DEF S
    <3>3. r = b.chunked
      BY <1>4, <2>0, <3>1, <3>2 DEF StatusOf
    <3>4. r \in C
      BY <1>5, <3>3 DEF C
    <3> QED BY <3>2, <3>4 DEF S, C, Steps
  <2>9. is_retracted[r] => ~finished'[r]
    BY <2>0, <2>1, <2>2 DEF StatusOf
  <2>10. r \in answered' => finished'[r]
    BY <1>7, <2>0, <2>2 DEF StatusOf
  <2>11. r \in running_batch \/ r \in cur_batch.reqs => ~is_retracted[r]
    BY <2>0 DEF StatusOf
  <2>12. Bad(r)' => r \in BadReq /\ r \notin running_batch
    BY <2>0, <2>4 DEF StatusOf
  <2> QED BY <1>1, <1>3, <1>7, <2>0, <2>3, <2>5, <2>6, <2>7, <2>8, <2>9, <2>10, <2>11, <2>12, NoBatchFields
          DEF StatusOf, Ext, SameConfig
<1>28. Unanswered'
  <2> SUFFICES ASSUME Left.mode = "extend" PROVE \E r \in Left.reqs : r \notin answered'
    BY <1>1, NoBatchFields DEF Unanswered
  <2>1. Left = cur_batch /\ EnableOverlap /\ b = Prev
    BY <1>16, NoBatchFields
  <2>2. PICK r \in cur_batch.reqs : r \notin answered /\ (r \notin Prev.reqs \/ r = Prev.chunked)
    BY <1>4, <2>1 DEF IInv, Unanswered
  <2>3. r \in Req
    BY <1>15, <2>2 DEF BatchType
  <2>4. r \notin S
    BY <1>5, <2>1, <2>2, <2>3 DEF S, Steps
  <2> QED BY <1>7, <2>1, <2>2, <2>4
<1>29. Counts'
  <2> SUFFICES ASSUME NEW r \in Req PROVE CountsOf(r)'
    BY DEF Counts
  <2>0. CountsOf(r) /\ r # NoReq
    BY SchedulerAssumption DEF IInv, Counts
  <2>t. /\ Forwards(b, r) \in Nat /\ Forwards(Left, r) \in Nat /\ is_chunked[r] \in Nat
        /\ out_len[r] \in Nat /\ in_len[r] \in Nat /\ kv[r] \in Int /\ delayed[r] \in Int
    BY <1>9 DEF Forwards, One, ReqTypes
  <2>1. is_chunked'[r] = One(Left.chunked = r) + One(NoBatch.chunked = r)
    <3>1. r \in C <=> r = b.chunked
      BY <1>5 DEF C
    <3>2. is_chunked[r] = One(Prev.chunked = r) + One(cur_batch.chunked = r)
      BY <1>4, <2>0 DEF CountsOf
    <3>3. NoBatch.chunked # r
      BY <2>0, NoBatchFields
    <3>4. CASE EnableOverlap
      BY <1>12, <1>16, <2>t, <3>1, <3>2, <3>3, <3>4 DEF One
    <3>5. CASE ~EnableOverlap
      BY <1>12, <1>16, <2>t, <3>1, <3>2, <3>3, <3>5 DEF One
    <3> QED BY <3>4, <3>5
  <2>2. ~HasRow(r)' => kv'[r] = 0
    BY <1>12, <1>19, <2>0 DEF CountsOf
  <2>3. HasRow(r) /\ r # chunked_req => kv[r] = SeqLen(r) - 1 + Forwards(b, r) + Forwards(Left, r)
    BY <1>21, <2>0, <2>t DEF CountsOf, SeqLen
  <2>4. SeqLen(r)' = IF r \in S THEN SeqLen(r) + 1 ELSE SeqLen(r)
    BY <1>7, <1>12, <2>t DEF SeqLen
  <2>5. HasRow(r)' /\ r # chunked_req => kv'[r] = SeqLen(r)' - 1 + Pending(r)'
    <3> SUFFICES ASSUME HasRow(r)', r # chunked_req PROVE kv'[r] = SeqLen(r)' - 1 + Forwards(Left, r)
      BY <1>21
    <3>1. HasRow(r) /\ r \notin E /\ kv'[r] = kv[r]
      BY <1>12, <1>19
    <3>2. CASE r \in S
      <4>1. Forwards(b, r) = 1
        BY <1>5, <3>2 DEF S
      <4> QED BY <2>3, <2>4, <2>t, <3>1, <3>2, <4>1 DEF SeqLen
    <3>3. CASE r \notin S
      <4>1. Forwards(b, r) = 0
        BY <1>5, <3>1, <3>3 DEF S, Forwards, One
      <4> QED BY <2>3, <2>4, <2>t, <3>1, <3>3, <4>1 DEF SeqLen
    <3> QED BY <3>2, <3>3
  <2>6. Roomy' /\ HasRow(r)' => kv'[r] > 0
    BY <1>3, <1>12, <1>19, <2>0 DEF CountsOf, Roomy, SameConfig
  <2>7. delayed'[r] = IF r \in answered' THEN Pending(r)' ELSE 0
    <3>0. delayed[r] = IF r \in answered THEN Forwards(b, r) + Forwards(Left, r) ELSE 0
      BY <1>21, <2>0 DEF CountsOf
    <3>1. CASE r \in E
      <4>1. HasRow(r) /\ r # chunked_req /\ Forwards(b, r) = 1 /\ r \in answered'
        BY <1>5, <1>7, <3>1 DEF S
      <4>2. delayed'[r] = kv[r] - SeqLen(r)
        BY <1>12, <3>1
      <4>3. SeqLen(r) \in Int
        BY <2>t DEF SeqLen
      <4> QED BY <1>21, <2>3, <2>t, <4>1, <4>2, <4>3
    <3>2. CASE r \in L
      <4>1. r \in answered /\ r \notin E /\ Forwards(b, r) = 1 /\ r \in answered'
        BY <1>5, <1>6, <1>7, <3>2 DEF L
      <4> QED BY <1>12, <1>21, <2>t, <3>0, <3>2, <4>1
    <3>3. CASE r \in answered /\ r \notin L
      <4>1. r \notin E /\ Forwards(b, r) = 0 /\ r \in answered'
        BY <1>5, <1>7, <3>3 DEF L, S
      <4> QED BY <1>12, <1>21, <2>t, <3>0, <3>3, <4>1
    <3>4. CASE r \notin answered /\ r \notin L /\ r \notin E
      BY <1>7, <1>12, <3>0, <3>4
    <3> QED BY <3>1, <3>2, <3>3, <3>4
  <2> QED BY <1>1, <2>1, <2>2, <2>5, <2>6, <2>7 DEF CountsOf
<1> QED BY <1>1, <1>13, <1>14, <1>17, <1>22, <1>23, <1>25, <1>26, <1>27, <1>28, <1>29 DEF IInv, Types

---------------------------------------------------------------------------
(* get_next_batch_to_run *)

(* What the scheduler finds at the start of an iteration. *)
LEMMA ScheduleContext ==
  ASSUME IInv, Orderly, pc = "recv"
  PROVE  /\ last_batch = cur_batch /\ Now = NoBatch /\ Prev.reqs \subseteq cur_batch.reqs
         /\ Prev = cur_batch \/ Prev = NoBatch
         /\ Merged \in SUBSET Req /\ Merged \subseteq running_batch \cup Ext(cur_batch)
         /\ chunked_req # NoReq =>
              /\ chunked_req \in Req /\ chunked_req \in cur_batch.reqs /\ chunked_req \in Ext(cur_batch)
              /\ chunked_req \notin Merged /\ HasRow(chunked_req) /\ ~finished[chunked_req]
         /\ \A r \in Unfinished(Merged) : HasRow(r) /\ ~is_retracted[r] /\ r # chunked_req
         /\ \A r \in Req : HasRow(r) =>
              r = chunked_req \/ r \in Unfinished(Merged) \/ (finished[r] /\ r \in Ext(Prev))
         /\ ToSet(waiting_queue) \subseteq Req
         /\ \A r \in ToSet(waiting_queue) :
              ~HasRow(r) /\ r \notin Merged /\ r # chunked_req /\ r \notin cur_batch.reqs /\ r \notin answered
         /\ AdderContext
<1>1. last_batch = cur_batch /\ Now = NoBatch /\ (Prev = cur_batch \/ Prev = NoBatch)
  BY DEF IInv, Batches, Now, Prev
<1>2. /\ cur_batch \in BatchType /\ BatchOK(cur_batch) /\ chunked_req = cur_batch.chunked
      /\ running_batch \cap Ext(cur_batch) = {} /\ running_batch \in SUBSET Req
      /\ cur_batch.mode = "decode" => running_batch = cur_batch.reqs
  BY DEF IInv, Types, LoopTypes, Batches
<1>3. cur_batch.reqs \subseteq Req /\ cur_batch.chunked \in Req \cup {NoReq} /\ Prev.reqs \subseteq cur_batch.reqs
  BY <1>1, <1>2, NoBatchFields DEF BatchType
<1>4. Merged \in SUBSET Req /\ Merged \subseteq running_batch \cup Ext(cur_batch)
  BY <1>1, <1>2, <1>3 DEF Merged, MergedReqs, Ext
<1>5. ASSUME chunked_req # NoReq
      PROVE  /\ chunked_req \in Req /\ chunked_req \in cur_batch.reqs /\ chunked_req \in Ext(cur_batch)
             /\ chunked_req \notin Merged /\ HasRow(chunked_req) /\ ~finished[chunked_req]
  <2>1. chunked_req \in Req /\ chunked_req \in cur_batch.reqs /\ chunked_req \in Ext(cur_batch)
    BY <1>2, <1>3, <1>5, NoBatchFields DEF BatchOK, Ext
  <2>2. ~finished[chunked_req] /\ chunked_req \notin answered
    BY <1>2, <2>1 DEF IInv, Status, StatusOf
  <2>3. chunked_req \notin Merged
    BY <1>2, <2>1 DEF Merged, MergedReqs, Excluded
  <2> QED BY <2>1, <2>2, <2>3 DEF HasRow
<1>6. ASSUME NEW r \in Unfinished(Merged)
      PROVE  HasRow(r) /\ ~is_retracted[r] /\ r # chunked_req
  <2>1. r \in Req /\ ~finished[r] /\ r \in Merged
    BY <1>4 DEF Unfinished
  <2>2. r \notin answered /\ (r \in running_batch \/ r \in Ext(cur_batch))
    BY <1>4, <2>1 DEF IInv, Status, StatusOf
  <2>3. ~is_retracted[r]
    BY <2>1, <2>2 DEF IInv, Status, StatusOf, Ext
  <2>4. r # chunked_req
    BY <1>5, <2>1, SchedulerAssumption
  <2> QED BY <2>2, <2>3, <2>4 DEF HasRow
<1>7. ASSUME NEW r \in Req, HasRow(r)
      PROVE  r = chunked_req \/ r \in Unfinished(Merged) \/ (finished[r] /\ r \in Ext(Prev))
  <2>0. StatusOf(r) /\ r \notin answered
    BY <1>7 DEF IInv, Status, HasRow
  <2>1. CASE ~finished[r]
    BY <1>1, <1>2, <1>7, <2>1 DEF HasRow, Unfinished, Merged, MergedReqs, Excluded, Ext
  <2>2. CASE finished[r]
    <3>1. Bad(r)
      BY <2>0, <2>2 DEF Bad
    <3>2. r \notin running_batch /\ (~EnableOverlap => r \notin cur_batch.reqs)
      BY <2>0, <3>1 DEF StatusOf
    <3>3. r \in Ext(cur_batch) \/ r \in Ext(Prev)
      BY <1>7, <3>2 DEF HasRow
    <3>4. EnableOverlap => Prev = cur_batch
      BY <1>1 DEF Prev
    <3> QED BY <2>2, <3>2, <3>3, <3>4 DEF Ext
  <2> QED BY <2>1, <2>2
<1>8. waiting_queue \in Seq(Req) /\ Len(waiting_queue) \in Nat /\ DOMAIN waiting_queue = 1..Len(waiting_queue)
  <2>1. waiting_queue \in Seq(Req)
    BY DEF IInv, Types, LoopTypes
  <2> QED BY <2>1
<1>9. ToSet(waiting_queue) \subseteq Req
  BY <1>8 DEF ToSet
<1>10. ASSUME NEW r \in ToSet(waiting_queue)
       PROVE  ~HasRow(r) /\ r \notin Merged /\ r # chunked_req /\ r \notin cur_batch.reqs /\ r \notin answered
  <2>1. r \notin running_batch /\ r \notin cur_batch.reqs /\ r \notin answered /\ r \in Req
    BY <1>9 DEF IInv, Queue, QueueOf
  <2>2. ~HasRow(r)
    BY <1>3, <2>1 DEF HasRow, Ext
  <2>3. r \notin Merged
    BY <1>4, <2>1 DEF Ext
  <2>4. r # chunked_req
    BY <1>5, <2>1, SchedulerAssumption
  <2> QED BY <2>1, <2>2, <2>3, <2>4
<1>11. AdderContext
  <2>1. \A i \in 1..Len(waiting_queue) :
          finished[waiting_queue[i]] => in_len[waiting_queue[i]] = 1 /\ out_len[waiting_queue[i]] = 0
    <3>1. \A i \in 1..Len(waiting_queue) : waiting_queue[i] \in ToSet(waiting_queue)
      BY <1>8 DEF ToSet
    <3> QED BY <3>1 DEF IInv, Queue, QueueOf
  <2>2. chunked_req # NoReq => Cardinality(Merged) + 1 <= MaxReqs
    <3> SUFFICES ASSUME chunked_req # NoReq PROVE Cardinality(Merged) + 1 <= MaxReqs
      OBVIOUS
    <3> DEFINE U == running_batch \cup Ext(cur_batch)
               M == Merged \cup {chunked_req}
    <3>1. U \in SUBSET Req /\ M \subseteq U /\ chunked_req \notin Merged
      BY <1>2, <1>3, <1>4, <1>5 DEF Ext
    <3>2. Cardinality(M) = Cardinality(Merged) + 1
      BY <1>4, <3>1, ReqFinite, FS_AddElement
    <3>3. Cardinality(U) <= MaxReqs /\ Cardinality(U) \in Nat
      BY <3>1, ReqFinite DEF IInv, Memory
    <3>4. Cardinality(M) <= Cardinality(U)
      BY <3>1, ReqFinite, FS_Subset
    <3>5. MaxReqs \in Nat /\ Cardinality(Merged) \in Nat
      BY <1>4, ReqFinite DEF IInv, Types, EnvTypes, ConfigType, MaxReqs
    <3> HIDE DEF U, M
    <3> QED BY <3>2, <3>3, <3>4, <3>5
  <2>3. chunked_req # NoReq /\ Roomy => kv[chunked_req] > 0
    BY <1>5 DEF IInv, Counts, CountsOf
  <2>4. IsFiniteSet(Merged)
    BY <1>4, ReqFinite
  <2>5. chunked_req \in Req \cup {NoReq}
    BY <1>2, <1>3
  <2>6. /\ config \in ConfigType /\ avail \in Int
        /\ in_len \in [Req -> Nat \ {0}] /\ out_len \in [Req -> Nat] /\ kv \in [Req -> Int]
    BY DEF IInv, Types, EnvTypes, ReqTypes
  <2> QED BY <1>5, <1>8, <2>1, <2>2, <2>3, <2>4, <2>5, <2>6 DEF AdderContext
<1> QED BY <1>1, <1>3, <1>4, <1>5, <1>6, <1>7, <1>9, <1>10, <1>11

(* What new_token_ratio can reserve is an integer. *)
LEMMA ReservesAreIntegers ==
  ASSUME IInv, Orderly, pc = "recv"
  PROVE  Reserves \subseteq Int
<1> DEFINE f == [r \in Req |-> Least(MaxNewTokens[r] - out_len[r], ClipNew)]
<1>1. Merged \in SUBSET Req
  BY ScheduleContext
<1>2. MaxNewTokens \in [Req -> Nat \ {0}] /\ ClipNew \in Nat /\ out_len \in [Req -> Nat]
  BY DEF IInv, Types, EnvTypes, ReqTypes, ConfigType, MaxNewTokens, ClipNew
<1>3. f \in [Req -> Int]
  BY <1>2 DEF Least
<1>4. SumOver(f, Merged) \in Int
  BY <1>1, <1>3, ReqFinite, SumType
<1>5. 0..SumOver(f, Merged) \subseteq Int
  BY <1>4
<1> QED BY <1>5 DEF Reserves

(* The requests of the new prefill batch. *)
LEMMA CanRun ==
  ASSUME IInv, Orderly, pc = "recv", NEW reserve \in Reserves, NEW a, a = Adder(reserve)
  PROVE  /\ a \in AdderType
         /\ \A r \in a.can_run : r = chunked_req \/ r \in ToSet(waiting_queue)
         /\ chunked_req # NoReq => chunked_req \in a.can_run
         /\ a.chunked # NoReq => a.chunked \in a.can_run /\ ~finished[a.chunked]
         /\ \A r \in a.can_run : r # a.chunked => a.len[r] = SeqLen(r)
         /\ \A r \in a.can_run : Roomy => a.len[r] > 0
         /\ a.can_run # {} => Cardinality(a.can_run) + Cardinality(Merged) <= MaxReqs
<1>1. AdderContext /\ reserve \in Int
  BY ScheduleContext, ReservesAreIntegers
<1>2. AdderOK(a, Len(waiting_queue))
  BY <1>1, AdderResult
<1>3. waiting_queue \in Seq(Req)
  BY <1>1 DEF AdderContext
<1>4. DOMAIN waiting_queue = 1..Len(waiting_queue)
  BY <1>3
<1>5. \A r \in a.can_run : r = chunked_req \/ r \in ToSet(waiting_queue)
  BY <1>2, <1>4 DEF AdderOK, ToSet
<1> QED BY <1>2, <1>5 DEF AdderOK

(* A step of the scheduler leaves the tokenizer manager alone. *)
LEMMA ScheduleFrame ==
  ASSUME IInv, UNCHANGED <<config, client, updating, controls, inbox>>
  PROVE  EnvTypes' /\ Messages' /\ SameConfig
<1>1. SameConfig
  BY Constants
<1>2. EnvTypes'
  BY DEF IInv, Types, EnvTypes
<1> QED BY <1>1, <1>2 DEF IInv, Messages, Generates, Updates, SameConfig

(* A step of the loop keeps Clients when it brings in no request that was  *)
(* absent.                                                                 *)
LEMMA ClientsFrame ==
  ASSUME IInv, UNCHANGED <<config, client, inbox, answered>>,
         \A r \in Req : Absent(r) => Absent(r)'
  PROVE  Clients'
<1>1. \A i \in 1..Len(inbox) : Generates(i) => inbox[i].req \in Req
  BY DEF IInv, Types, EnvTypes, Generates
<1>2. SameConfig
  BY Constants
<1> QED BY <1>1, <1>2 DEF IInv, Clients, Generates, SameConfig

(* The step in which the pool raises keeps the invariant: it changes only  *)
(* crashed.                                                                *)
LEMMA CrashInv ==
  ASSUME IInv, Crash("out of memory")
  PROVE  IInv'
<1>1. /\ crashed' = "out of memory"
      /\ UNCHANGED <<config, client, updating, controls, inbox, pc, waiting_queue, running_batch,
                     batch_is_full, chunked_req, cur_batch, last_batch, result_queue, avail, slots, kv,
                     delayed, in_len, out_len, finished, to_abort, is_retracted, is_chunked, answered>>
  BY DEF Crash, queueVars, batchVars, memVars, reqVars
<1>2. EnvTypes' /\ Messages' /\ SameConfig
  BY <1>1, ScheduleFrame
<1>3. Prev' = Prev /\ Now' = Now
  BY <1>1, <1>2 DEF Prev, Now, SameConfig
<1>4. LoopTypes' /\ ReqTypes'
  BY <1>1 DEF IInv, Types, LoopTypes, ReqTypes
<1>5. Batches' /\ InStep'
  BY <1>1, <1>2, <1>3 DEF IInv, Batches, InStep, BatchOK, Ext, SameConfig
<1>6. \A x : HasRow(x)' = HasRow(x)
  BY <1>1, <1>3 DEF HasRow, Ext
<1>7. Clients'
  <2>1. \A x : Absent(x)' = Absent(x)
    BY <1>1, <1>3 DEF Absent
  <2> QED BY <1>1, <2>1, ClientsFrame
<1>8. Queue'
  BY <1>1, <1>3 DEF IInv, Queue, QueueOf
<1>9. Status' /\ Unanswered'
  BY <1>1, <1>2, <1>3, <1>6 DEF IInv, Status, StatusOf, Unanswered, Bad, Ext, SameConfig
<1>10. Counts'
  BY <1>1, <1>2, <1>3, <1>6 DEF IInv, Counts, CountsOf, Pending, Forwards, SeqLen, Roomy, SameConfig
<1>11. Memory'
  <2>1. Rows' = Rows
    BY <1>6 DEF Rows
  <2> QED BY <1>1, <1>2, <2>1 DEF IInv, Memory, Ext, SameConfig
<1> QED BY <1>2, <1>4, <1>5, <1>7, <1>8, <1>9, <1>10, <1>11 DEF IInv, Types

(* Launching b makes it the outstanding batch and keeps result_queue in    *)
(* step with the batches that are outstanding.                             *)
LEMMA RunBatchInStep ==
  ASSUME IInv, pc = "recv", NEW b \in BatchType, RunBatch(b), config' = config
  PROVE  /\ cur_batch' = b /\ last_batch' = last_batch /\ pc' = "result"
         /\ Prev' = Prev /\ Now' = b /\ InStep' /\ result_queue' \in Seq(BatchType)
<1>1. /\ cur_batch' = b /\ last_batch' = last_batch /\ pc' = "result"
      /\ result_queue' = IF EnableOverlap /\ b # NoBatch THEN Append(result_queue, b) ELSE result_queue
  BY DEF RunBatch
<1>2. SameConfig
  BY Constants
<1>3. Prev' = Prev /\ Now' = b /\ Now = NoBatch
  BY <1>1, <1>2 DEF Prev, Now, SameConfig
<1>4. result_queue \in Seq(BatchType)
  BY DEF IInv, Types, LoopTypes
<1>5. Len(result_queue) = One(Prev # NoBatch) /\ (Prev # NoBatch => result_queue[1] = Prev)
  BY <1>3 DEF IInv, InStep, One
<1>6. CASE EnableOverlap /\ b # NoBatch
  <2>1. /\ result_queue' \in Seq(BatchType) /\ Len(result_queue') = Len(result_queue) + 1
        /\ result_queue'[Len(result_queue) + 1] = b
        /\ \A i \in 1..Len(result_queue) : result_queue'[i] = result_queue[i]
    BY <1>1, <1>4, <1>6
  <2>2. Prev # NoBatch => 1 \in 1..Len(result_queue)
    BY <1>5 DEF One
  <2>3. Prev # NoBatch => result_queue'[1] = Prev
    BY <1>5, <2>1, <2>2
  <2>4. Len(result_queue') = One(Prev # NoBatch) + 1 /\ result_queue'[Len(result_queue')] = b
    BY <1>5, <2>1
  <2> QED BY <1>1, <1>2, <1>3, <1>6, <2>1, <2>3, <2>4 DEF InStep, SameConfig, One
<1>7. CASE ~(EnableOverlap /\ b # NoBatch)
  BY <1>1, <1>2, <1>3, <1>4, <1>5, <1>7 DEF InStep, SameConfig, One
<1> QED BY <1>6, <1>7

(* An iteration that launches nothing keeps the invariant: every row left  *)
(* belongs to a rejected request whose result is still outstanding.        *)
LEMMA ScheduleNothingInv ==
  ASSUME IInv, Orderly, pc = "recv", crashed = "no", NEW reserve \in Reserves, NEW a, a = Adder(reserve),
         ScheduleNothing(a)
  PROVE  IInv'
<1>1. chunked_req = NoReq
  BY CanRun DEF ScheduleNothing
<1>2. /\ last_batch = cur_batch /\ Now = NoBatch /\ Prev.reqs \subseteq cur_batch.reqs
      /\ \A r \in Req : HasRow(r) => finished[r] /\ r \in Ext(Prev)
  BY <1>1, ScheduleContext, SchedulerAssumption DEF ScheduleNothing
<1>t. EnvTypes /\ LoopTypes /\ ReqTypes
  BY DEF IInv, Types
<1>3. ASSUME EnableOverlap => last_batch = NoBatch
      PROVE  avail = MaxTotalTokens /\ slots = MaxReqs
  <2>1. Prev = NoBatch
    BY <1>3 DEF Prev
  <2>2. \A r \in Req : ~HasRow(r)
    BY <1>2, <2>1, NoBatchFields DEF Ext
  <2>3. \A r \in Req : kv[r] = 0 /\ delayed[r] = 0
    BY <1>2, <2>1, <2>2, NoBatchFields DEF IInv, Counts, CountsOf, Pending, Forwards, One
  <2>4. SumOver(kv, Req) = 0 /\ SumOver(delayed, Req) = 0
    BY <1>t, <2>3, SumZero DEF ReqTypes
  <2>5. Rows = {} /\ Cardinality({}) = 0
    BY <2>2, FS_EmptySet DEF Rows
  <2>6. Cardinality(Rows) = 0
    BY <2>5
  <2>7. /\ avail + SumOver(kv, Req) + SumOver(delayed, Req) = MaxTotalTokens
        /\ slots + Cardinality(Rows) = MaxReqs /\ avail \in Nat /\ slots \in Nat
    BY <1>t DEF IInv, Memory, ReqTypes
  <2> QED BY <2>4, <2>6, <2>7
<1>4. /\ running_batch' = {}
      /\ batch_is_full' = (FullAfterPrefill(a) /\ Merged = {})
      /\ RunBatch(NoBatch)
      /\ UNCHANGED <<config, client, updating, controls, inbox, crashed, waiting_queue, chunked_req,
                     avail, slots, kv, delayed, in_len, out_len, finished, to_abort, is_retracted,
                     is_chunked, answered>>
  BY <1>3 DEF ScheduleNothing, memVars, reqVars
<1>5. EnvTypes' /\ Messages' /\ SameConfig
  BY <1>4, ScheduleFrame
<1>6. /\ cur_batch' = NoBatch /\ last_batch' = last_batch /\ pc' = "result"
      /\ Prev' = Prev /\ Now' = NoBatch /\ InStep' /\ result_queue' \in Seq(BatchType)
  BY <1>4, RunBatchInStep, NoBatchFields
<1>7. LoopTypes' /\ ReqTypes'
  <2>1. batch_is_full' \in BOOLEAN /\ running_batch' \in SUBSET Req
    BY <1>4
  <2> QED BY <1>4, <1>6, <1>t, <2>1, NoBatchFields DEF LoopTypes, ReqTypes
<1>8. Batches'
  <2>1. Prev.chunked = NoReq
    BY <1>1, <1>2, NoBatchFields DEF IInv, Batches, Prev
  <2> QED BY <1>1, <1>4, <1>6, <2>1, NoBatchFields DEF IInv, Batches, BatchOK, Ext
<1>9. \A r \in Req : HasRow(r)' <=> HasRow(r)
  BY <1>2, <1>4, <1>6, NoBatchFields DEF HasRow, Ext
<1>10. Clients'
  <2>1. \A r \in Req : Absent(r) => Absent(r)'
    BY <1>4, <1>6, NoBatchFields DEF Absent
  <2> QED BY <1>4, <2>1, ClientsFrame
<1>11. Queue'
  BY <1>4, <1>6, NoBatchFields DEF IInv, Queue, QueueOf
<1>12. Status'
  <2> SUFFICES ASSUME NEW r \in Req PROVE StatusOf(r)'
    BY DEF Status
  <2>1. StatusOf(r) /\ r # NoReq
    BY SchedulerAssumption DEF IInv, Status
  <2> QED BY <1>4, <1>5, <1>6, <1>9, <2>1, NoBatchFields DEF StatusOf, Bad, Ext, SameConfig
<1>13. Unanswered'
  BY <1>4, <1>6, NoBatchFields DEF IInv, Unanswered
<1>14. Counts'
  BY <1>2, <1>4, <1>5, <1>6, <1>9 DEF IInv, Counts, CountsOf, Pending, Forwards, SeqLen, Roomy, SameConfig
<1>15. Memory'
  <2>1. Rows' = Rows
    BY <1>9 DEF Rows
  <2>2. (running_batch \cup Ext(cur_batch))' = {} /\ Cardinality({}) = 0
    BY <1>4, <1>6, NoBatchFields, FS_EmptySet DEF Ext
  <2>3. Cardinality((running_batch \cup Ext(cur_batch))') = 0
    BY <2>2
  <2>4. MaxReqs \in Nat
    BY DEF IInv, Types, EnvTypes, ConfigType, MaxReqs
  <2> QED BY <1>4, <1>5, <2>1, <2>3, <2>4 DEF IInv, Memory, SameConfig
<1> QED BY <1>5, <1>6, <1>7, <1>8, <1>10, <1>11, <1>12, <1>13, <1>14, <1>15 DEF IInv, Types

(* One more token for the requests of S, none at all for those of R. *)
LEMMA RetractBalance ==
  ASSUME NEW k \in [Req -> Int], NEW R \in SUBSET Req, NEW S \in SUBSET Req, R \cap S = {}, NEW h,
         h = [r \in Req |-> IF r \in R THEN 0 ELSE IF r \in S THEN k[r] + 1 ELSE k[r]]
  PROVE  /\ h \in [Req -> Int]
         /\ SumOver(h, Req) + SumOver(k, R) = SumOver(k, Req) + Cardinality(S)
         /\ SumOver(h, Req) \in Int /\ SumOver(k, R) \in Int /\ SumOver(k, Req) \in Int
<1> DEFINE l == [r \in Req |-> IF r \in R THEN k[r] ELSE 0]
           o == [r \in Req |-> IF r \in S THEN 1 ELSE 0]
           u == [r \in Req |-> k[r] + o[r]]
<1>1. IsFiniteSet(Req) /\ Req \in SUBSET Req /\ IsFiniteSet(R)
  BY SchedulerAssumption, ReqFinite
<1>2. h \in [Req -> Int] /\ l \in [Req -> Int] /\ o \in [Req -> Int]
  OBVIOUS
<1>3. u \in [Req -> Int] /\ \A r \in Req : u[r] = k[r] + o[r]
  BY <1>2
<1>4. \A r \in Req : u[r] = h[r] + l[r]
  OBVIOUS
<1>5. /\ \A r \in Req : l[r] = IF r \in R THEN k[r] ELSE 0
      /\ \A r \in Req : o[r] = IF r \in S THEN 1 ELSE 0
  OBVIOUS
<1> HIDE DEF l, o, u
<1>6. SumOver(l, Req) = SumOver(k, R)
  BY <1>1, <1>2, <1>5, SumPart
<1>7. SumOver(o, Req) = Cardinality(S)
  BY <1>1, <1>2, <1>5, SumOnes
<1>8. SumOver(u, Req) = SumOver(k, Req) + SumOver(o, Req)
  BY <1>2, <1>3, ReqSum
<1>9. SumOver(u, Req) = SumOver(h, Req) + SumOver(l, Req)
  BY <1>2, <1>3, <1>4, ReqSum
<1>10. SumOver(h, Req) \in Int /\ SumOver(k, R) \in Int /\ SumOver(k, Req) \in Int
  BY <1>1, <1>2, SumType
<1> QED BY <1>2, <1>6, <1>7, <1>8, <1>9, <1>10

(* h is k after the requests of A grew as d says and those of S by one     *)
(* token.                                                                  *)
Grown(h, k, d, A, S) ==
  \A r \in Req : h[r] = IF r \in A THEN k[r] + d[r] ELSE IF r \in S THEN k[r] + 1 ELSE k[r]

(* The tokens in use grow by what the batch allocates. *)
LEMMA ExtendBalance ==
  ASSUME NEW k \in [Req -> Int], NEW d \in [Req -> Int], NEW A \in SUBSET Req, NEW S \in SUBSET Req,
         A \cap S = {}, NEW h \in [Req -> Int], Grown(h, k, d, A, S)
  PROVE  /\ SumOver(h, Req) = SumOver(k, Req) + SumOver(d, A) + Cardinality(S)
         /\ SumOver(k, Req) \in Int /\ SumOver(d, A) \in Int
<1> DEFINE l == [r \in Req |-> IF r \in A THEN d[r] ELSE 0]
           o == [r \in Req |-> IF r \in S THEN 1 ELSE 0]
           u == [r \in Req |-> l[r] + o[r]]
<1>1. IsFiniteSet(Req) /\ Req \in SUBSET Req /\ IsFiniteSet(A)
  BY SchedulerAssumption, ReqFinite
<1>2. l \in [Req -> Int] /\ o \in [Req -> Int]
  OBVIOUS
<1>3. u \in [Req -> Int] /\ \A r \in Req : u[r] = l[r] + o[r]
  BY <1>2
<1>4. \A r \in Req : h[r] = k[r] + u[r]
  BY DEF Grown
<1>5. /\ \A r \in Req : l[r] = IF r \in A THEN d[r] ELSE 0
      /\ \A r \in Req : o[r] = IF r \in S THEN 1 ELSE 0
  OBVIOUS
<1> HIDE DEF l, o, u
<1>6. SumOver(l, Req) = SumOver(d, A)
  BY <1>1, <1>2, <1>5, SumPart
<1>7. SumOver(o, Req) = Cardinality(S)
  BY <1>1, <1>2, <1>5, SumOnes
<1>8. SumOver(u, Req) = SumOver(l, Req) + SumOver(o, Req)
  BY <1>2, <1>3, ReqSum
<1>9. SumOver(h, Req) = SumOver(k, Req) + SumOver(u, Req)
  BY <1>3, <1>4, ReqSum
<1>10. SumOver(d, A) \in Int /\ SumOver(k, Req) \in Int /\ Cardinality(S) \in Int
  BY <1>1, <1>2, SumType, ReqFinite
<1> QED BY <1>6, <1>7, <1>8, <1>9, <1>10

(* Two queues without repetitions and without a common request. *)
LEMMA JoinedQueues ==
  ASSUME NEW s \in Seq(Req), NEW t \in Seq(Req),
         \A i, j \in 1..Len(s) : s[i] = s[j] => i = j,
         \A i, j \in 1..Len(t) : t[i] = t[j] => i = j,
         \A i \in 1..Len(s), j \in 1..Len(t) : s[i] # t[j]
  PROVE  /\ s \o t \in Seq(Req)
         /\ \A i, j \in 1..Len(s \o t) : (s \o t)[i] = (s \o t)[j] => i = j
         /\ \A r \in ToSet(s \o t) : r \in ToSet(s) \/ r \in ToSet(t)
<1> DEFINE w == s \o t
           m == Len(s)
           n == Len(t)
<1>1. w \in Seq(Req) /\ Len(w) = m + n /\ m \in Nat /\ n \in Nat
  OBVIOUS
<1>2. DOMAIN w = 1..Len(w) /\ DOMAIN s = 1..m /\ DOMAIN t = 1..n
  BY <1>1
<1>3. \A i \in 1..Len(w) : w[i] = IF i <= m THEN s[i] ELSE t[i - m]
  BY <1>1
<1>4. \A i \in 1..Len(w) : (i <= m /\ i \in 1..m) \/ (i > m /\ i - m \in 1..n)
  BY <1>1
<1> HIDE DEF w, m, n
<1>5. ASSUME NEW i \in 1..Len(w), NEW j \in 1..Len(w), w[i] = w[j] PROVE i = j
  <2>0. i \in Int /\ j \in Int
    BY <1>1
  <2>1. CASE i <= m /\ j <= m
    BY <1>3, <1>4, <1>5, <2>0, <2>1, <1>1 DEF m
  <2>2. CASE i <= m /\ j > m
    <3>w. w[i] = s[i]
      BY <1>3, <2>2
    <3>x. ~(j <= m)
      BY <1>1, <2>0, <2>2
    <3>y. w[j] = t[j - m]
      BY <1>3, <3>x
    <3>0. w[i] = s[i] /\ w[j] = t[j - m]
      BY <3>w, <3>y
    <3>a. i \in 1..m /\ j - m \in 1..n
      BY <1>1, <1>4, <2>0, <2>2
    <3>1. i \in 1..m /\ j - m \in 1..n /\ s[i] = t[j - m]
      BY <1>5, <3>0, <3>a
    <3> DEFINE q == j - m
    <3>2. q \in 1..n /\ s[i] = t[q]
      BY <3>1
    <3> HIDE DEF q
    <3> QED BY <3>1, <3>2 DEF m, n
  <2>3. CASE i > m /\ j <= m
    <3>1. j \in 1..m /\ i - m \in 1..n /\ s[j] = t[i - m]
      BY <1>1, <1>3, <1>4, <1>5, <2>0, <2>3
    <3> DEFINE q == i - m
    <3>2. q \in 1..n /\ s[j] = t[q]
      BY <3>1
    <3> HIDE DEF q
    <3> QED BY <3>1, <3>2 DEF m, n
  <2>4. CASE i > m /\ j > m
    <3> DEFINE p == i - m
               q == j - m
    <3>1. p \in 1..n /\ q \in 1..n /\ t[p] = t[q]
      BY <1>1, <1>3, <1>4, <1>5, <2>0, <2>4
    <3> HIDE DEF p, q
    <3>2. p = q
      BY <3>1 DEF n
    <3> QED BY <1>1, <2>0, <3>2 DEF p, q
  <2> QED BY <1>1, <2>0, <2>1, <2>2, <2>3, <2>4
<1>6. ASSUME NEW r \in ToSet(w) PROVE r \in ToSet(s) \/ r \in ToSet(t)
  <2>1. PICK i \in 1..Len(w) : r = w[i]
    BY <1>2, <1>6 DEF ToSet
  <2>2. CASE i <= m
    BY <1>2, <1>3, <1>4, <2>1, <2>2 DEF ToSet
  <2>3. CASE i > m
    <3> DEFINE q == i - m
    <3>1. q \in 1..n /\ r = t[q]
      BY <1>1, <1>3, <1>4, <2>1, <2>3
    <3> HIDE DEF q
    <3> QED BY <1>2, <3>1 DEF ToSet
  <2> QED BY <1>1, <2>1, <2>2, <2>3
<1> QED BY <1>1, <1>5, <1>6 DEF w

(* A retraction order lists requests of the batch, each once. *)
LEMMA OrderResult ==
  ASSUME NEW R \in SUBSET Req, NEW s \in RetractOrders(R)
  PROVE  s \in Seq(Req) /\ ToSet(s) \subseteq R /\ \A i, j \in 1..Len(s) : s[i] = s[j] => i = j
<1> DEFINE n == Cardinality(R)
<1>1. n \in Nat
  BY ReqFinite
<1>2. s \in [1..n -> R] /\ \A i, j \in DOMAIN s : i < j => s[i] # s[j]
  BY DEF RetractOrders
<1> HIDE DEF n
<1>3. s \in Seq(Req) /\ Len(s) = n /\ DOMAIN s = 1..n
  BY <1>1, <1>2
<1>4. ToSet(s) \subseteq R
  BY <1>2, <1>3 DEF ToSet
<1>5. ASSUME NEW i \in 1..n, NEW j \in 1..n, s[i] = s[j] PROVE i = j
  <2>1. ~(i < j) /\ ~(j < i)
    BY <1>2, <1>3, <1>5
  <2> QED BY <1>1, <2>1
<1> QED BY <1>3, <1>4, <1>5

(* update_running_batch keeps the invariant: the retracted requests give   *)
(* back row and tokens and return to the queue, the others take one token  *)
(* each.                                                                   *)
LEMMA ScheduleDecodeInv ==
  ASSUME IInv, Orderly, pc = "recv", crashed = "no", NEW reserve \in Reserves, NEW a, a = Adder(reserve),
         ScheduleDecode(a)
  PROVE  IInv'
<1> DEFINE B == Unfinished(Merged)
<1>1. a.can_run = {} /\ B # {}
  BY DEF ScheduleDecode
<1>2. chunked_req = NoReq
  BY <1>1, CanRun
<1>3. /\ last_batch = cur_batch /\ Now = NoBatch /\ Prev.reqs \subseteq cur_batch.reqs
      /\ Prev = cur_batch \/ Prev = NoBatch
      /\ Merged \in SUBSET Req /\ Merged \subseteq running_batch \cup Ext(cur_batch)
      /\ \A r \in B : HasRow(r) /\ ~is_retracted[r]
      /\ \A r \in Req : HasRow(r) => r \in B \/ (finished[r] /\ r \in Ext(Prev))
      /\ ToSet(waiting_queue) \subseteq Req
      /\ \A r \in ToSet(waiting_queue) :
           ~HasRow(r) /\ r \notin Merged /\ r \notin cur_batch.reqs /\ r \notin answered
  BY <1>2, ScheduleContext, SchedulerAssumption
<1>t. EnvTypes /\ LoopTypes /\ ReqTypes
  BY DEF IInv, Types
<1>4. PICK R \in IF DecodeFits(B) THEN {{}} ELSE Retractions(B) :
        LET stay == B \ R
        IN  IF Regained(R) < Cardinality(stay)
            THEN Crash("out of memory")
            ELSE /\ running_batch' = stay
                 /\ batch_is_full' = (FullAfterPrefill(a) /\ stay = Merged)
                 /\ \E order \in RetractOrders(R) : waiting_queue' = waiting_queue \o order
                 /\ avail' = Regained(R) - Cardinality(stay)
                 /\ slots' = slots + Cardinality(R)
                 /\ kv' = [r \in Req |-> IF r \in R THEN 0
                                         ELSE IF r \in stay THEN kv[r] + 1 ELSE kv[r]]
                 /\ is_retracted' = [r \in Req |-> is_retracted[r] \/ r \in R]
                 /\ is_chunked' = [r \in Req |-> IF r \in R THEN 0 ELSE is_chunked[r]]
                 /\ RunBatch([mode |-> "decode", reqs |-> stay, chunked |-> NoReq])
                 /\ UNCHANGED <<config, client, updating, controls, inbox, crashed, chunked_req,
                                delayed, in_len, out_len, finished, to_abort, answered>>
  BY DEF ScheduleDecode
<1>5. R \subseteq B /\ R # B
  BY <1>1, <1>4 DEF Retractions
<1>6. B \in SUBSET Req /\ \A r \in B : ~finished[r] /\ r \in Merged
  BY <1>3 DEF Unfinished
<1> HIDE DEF B
<1> DEFINE stay == B \ R
           d == [mode |-> "decode", reqs |-> stay, chunked |-> NoReq]
<1>7. CASE Regained(R) < Cardinality(stay)
  BY <1>4, <1>7, CrashInv
<1>8. CASE ~(Regained(R) < Cardinality(stay))
  <2>1. /\ running_batch' = stay
        /\ batch_is_full' \in BOOLEAN
        /\ \E order \in RetractOrders(R) : waiting_queue' = waiting_queue \o order
        /\ avail' = Regained(R) - Cardinality(stay)
        /\ slots' = slots + Cardinality(R)
        /\ kv' = [r \in Req |-> IF r \in R THEN 0 ELSE IF r \in stay THEN kv[r] + 1 ELSE kv[r]]
        /\ is_retracted' = [r \in Req |-> is_retracted[r] \/ r \in R]
        /\ is_chunked' = [r \in Req |-> IF r \in R THEN 0 ELSE is_chunked[r]]
        /\ RunBatch(d)
        /\ UNCHANGED <<config, client, updating, controls, inbox, crashed, chunked_req,
                       delayed, in_len, out_len, finished, to_abort, answered>>
    BY <1>4, <1>8
  <2>2. stay \in SUBSET Req /\ stay # {} /\ R \in SUBSET Req /\ R \cap stay = {} /\ R \cup stay = B
    BY <1>5, <1>6
  <2>3. d \in BatchType /\ d.mode = "decode" /\ d.reqs = stay /\ d.chunked = NoReq /\ d # NoBatch
    BY <2>2 DEF BatchType, NoBatch
  <2> HIDE DEF d, stay
  <2>4. EnvTypes' /\ Messages' /\ SameConfig
    BY <2>1, ScheduleFrame
  <2>5. /\ cur_batch' = d /\ last_batch' = last_batch /\ pc' = "result"
        /\ Prev' = Prev /\ Now' = d /\ InStep' /\ result_queue' \in Seq(BatchType)
    BY <2>1, <2>3, RunBatchInStep
  <2>6. \A r \in Req : /\ kv'[r] = IF r \in R THEN 0 ELSE IF r \in stay THEN kv[r] + 1 ELSE kv[r]
                       /\ is_retracted'[r] = (is_retracted[r] \/ r \in R)
                       /\ is_chunked'[r] = IF r \in R THEN 0 ELSE is_chunked[r]
    BY <2>1
  <2>7. /\ kv' \in [Req -> Int]
        /\ SumOver(kv', Req) + SumOver(kv, R) = SumOver(kv, Req) + Cardinality(stay)
        /\ SumOver(kv', Req) \in Int /\ SumOver(kv, R) \in Int /\ SumOver(kv, Req) \in Int
    <3>1. kv \in [Req -> Int]
      BY <1>t DEF ReqTypes
    <3>2. kv' = [r \in Req |-> IF r \in R THEN 0 ELSE IF r \in stay THEN kv[r] + 1 ELSE kv[r]]
      BY <2>1
    <3> QED BY <2>2, <3>1, <3>2, RetractBalance
  <2>8. Cardinality(stay) \in Nat /\ Cardinality(R) \in Nat
    BY <2>2, ReqFinite
  <2>9. avail' = avail + SumOver(kv, R) - Cardinality(stay) /\ avail' \in Nat
    BY <1>8, <1>t, <2>1, <2>7, <2>8 DEF Regained, ReqTypes, stay
  <2>10. PICK order \in RetractOrders(R) : waiting_queue' = waiting_queue \o order
    BY <2>1
  <2>11. order \in Seq(Req) /\ ToSet(order) \subseteq R /\ \A i, j \in 1..Len(order) : order[i] = order[j] => i = j
    BY <2>2, OrderResult
  <2>12. /\ waiting_queue' \in Seq(Req)
         /\ \A i, j \in 1..Len(waiting_queue') : waiting_queue'[i] = waiting_queue'[j] => i = j
         /\ \A r \in ToSet(waiting_queue') : r \in ToSet(waiting_queue) \/ r \in R
    <3>1. waiting_queue \in Seq(Req)
      BY <1>t DEF LoopTypes
    <3>2. DOMAIN waiting_queue = 1..Len(waiting_queue) /\ DOMAIN order = 1..Len(order)
      BY <2>11, <3>1
    <3>3. \A i \in 1..Len(waiting_queue), j \in 1..Len(order) : waiting_queue[i] # order[j]
      <4>1. \A i \in 1..Len(waiting_queue) : waiting_queue[i] \notin Merged
        BY <1>3, <3>2 DEF ToSet
      <4>2. \A j \in 1..Len(order) : order[j] \in Merged
        BY <1>5, <1>6, <2>11, <3>2 DEF ToSet
      <4> QED BY <4>1, <4>2
    <3>4. \A i, j \in 1..Len(waiting_queue) : waiting_queue[i] = waiting_queue[j] => i = j
      BY DEF IInv, Queue
    <3> DEFINE w == waiting_queue \o order
    <3>5. /\ w \in Seq(Req)
          /\ \A i, j \in 1..Len(w) : w[i] = w[j] => i = j
          /\ \A r \in ToSet(w) : r \in ToSet(waiting_queue) \/ r \in ToSet(order)
      BY <2>11, <3>1, <3>3, <3>4, JoinedQueues
    <3>6. waiting_queue' = w
      BY <2>10
    <3> HIDE DEF w
    <3> QED BY <2>11, <3>5, <3>6
  <2>13. ReqTypes'
    <3>1. slots' \in Nat
      BY <1>t, <2>1, <2>8 DEF ReqTypes
    <3>2. is_retracted' \in [Req -> BOOLEAN]
      BY <2>1
    <3>3. is_chunked' \in [Req -> Nat]
      BY <1>t, <2>1 DEF ReqTypes
    <3> QED BY <1>t, <2>1, <2>7, <2>9, <3>1, <3>2, <3>3 DEF ReqTypes
  <2>14. LoopTypes'
    BY <1>t, <2>1, <2>2, <2>3, <2>5, <2>12 DEF LoopTypes
  <2>15. Prev.chunked = NoReq
    BY <1>2, <1>3, NoBatchFields DEF IInv, Batches
  <2>16. Batches'
    BY <1>2, <2>1, <2>2, <2>3, <2>5, <2>15 DEF IInv, Batches, BatchOK, Ext
  <2>17. \A r \in Req : HasRow(r)' <=> HasRow(r) /\ r \notin R
    <3> SUFFICES ASSUME NEW r \in Req PROVE HasRow(r)' <=> HasRow(r) /\ r \notin R
      OBVIOUS
    <3>1. HasRow(r)' <=> r \notin answered /\ (r \in stay \/ (finished[r] /\ r \in Ext(Prev)))
      BY <2>1, <2>3, <2>5 DEF HasRow, Ext
    <3>2. r \in R => ~finished[r] /\ r \notin stay
      BY <1>6, <2>2
    <3>3. r \in stay => HasRow(r) /\ r \notin R
      BY <1>3, <2>2
    <3>4. HasRow(r) /\ r \notin R => r \in stay \/ (finished[r] /\ r \in Ext(Prev))
      BY <1>3, <2>2
    <3> QED BY <3>1, <3>2, <3>3, <3>4 DEF HasRow
  <2>18. Clients'
    <3>1. ASSUME NEW r \in Req, Absent(r) PROVE Absent(r)'
      <4>1. r \notin B
        BY <1>3, <1>6, <3>1 DEF Absent, Ext
      <4>2. r \notin stay /\ r \notin R
        BY <2>2, <4>1
      <4> QED BY <2>1, <2>3, <2>5, <2>6, <2>12, <3>1, <4>2 DEF Absent
    <3> QED BY <2>1, <3>1, ClientsFrame
  <2>19. Queue'
    <3> SUFFICES ASSUME NEW r \in ToSet(waiting_queue') PROVE QueueOf(r)'
      BY <2>12 DEF Queue
    <3>1. r \in ToSet(waiting_queue) \/ r \in R
      BY <2>12
    <3>2. r \in Req /\ r \notin stay
      BY <1>3, <1>6, <2>2, <3>1
    <3>3. r \notin answered
      BY <1>3, <2>2, <3>1 DEF HasRow
    <3>4. r \in Prev.reqs => is_retracted'[r]
      BY <1>3, <2>6, <3>1, <3>2
    <3>5. finished[r] => in_len[r] = 1 /\ out_len[r] = 0
      BY <1>6, <2>2, <3>1 DEF IInv, Queue, QueueOf
    <3> QED BY <2>1, <2>3, <2>5, <3>2, <3>3, <3>4, <3>5 DEF QueueOf
  <2>20. Status'
    <3> SUFFICES ASSUME NEW r \in Req PROVE StatusOf(r)'
      BY DEF Status
    <3>1. StatusOf(r) /\ r # NoReq
      BY SchedulerAssumption DEF IInv, Status
    <3>2. r \in stay => ~is_retracted'[r] /\ ~finished[r] /\ r \notin answered
      <4>1. r \in stay => r \in B /\ r \notin R
        BY <2>2
      <4>2. r \in stay => ~is_retracted[r] /\ ~finished[r] /\ HasRow(r)
        BY <1>3, <1>6, <4>1
      <4> QED BY <2>6, <4>1, <4>2 DEF HasRow
    <3>3. r \in Prev.reqs => r \in answered \/ is_retracted'[r] \/ HasRow(r)'
      BY <2>6, <2>17, <3>1 DEF StatusOf
    <3>4. is_retracted'[r] => ~finished[r]
      BY <1>6, <2>2, <2>6, <3>1 DEF StatusOf
    <3> QED BY <2>1, <2>3, <2>4, <2>5, <2>15, <3>1, <3>2, <3>3, <3>4 DEF StatusOf, Bad, Ext, SameConfig
  <2>21. Unanswered'
    BY <2>1, <2>3, <2>5 DEF IInv, Unanswered
  <2>22. Counts'
    <3> SUFFICES ASSUME NEW r \in Req PROVE CountsOf(r)'
      BY DEF Counts
    <3>0. CountsOf(r) /\ r # NoReq
      BY SchedulerAssumption DEF IInv, Counts
    <3>t. /\ Forwards(Prev, r) \in Nat /\ out_len[r] \in Nat /\ in_len[r] \in Nat /\ kv[r] \in Int
      BY <1>t DEF Forwards, One, ReqTypes
    <3>1. is_chunked'[r] = One(Prev.chunked = r) + One(d.chunked = r)
      BY <1>3, <2>3, <2>6, <2>15, <3>0, NoBatchFields DEF CountsOf, One
    <3>2. Pending(r) = Forwards(Prev, r)
      BY <1>3, <3>t, NoBatchFields DEF Pending, Forwards, One
    <3>3. Pending(r)' = Forwards(Prev, r) + One(r \in stay)
      BY <2>3, <2>5, <3>0 DEF Pending, Forwards
    <3>4. SeqLen(r)' = SeqLen(r) /\ SeqLen(r) \in Int
      BY <2>1, <3>t DEF SeqLen
    <3>5. ~HasRow(r)' => kv'[r] = 0
      <4>1. r \in stay => HasRow(r)'
        BY <1>3, <2>2, <2>17
      <4> QED BY <2>6, <2>17, <3>0, <4>1 DEF CountsOf
    <3>6. HasRow(r)' => kv'[r] = SeqLen(r)' - 1 + Pending(r)'
      <4> SUFFICES ASSUME HasRow(r)' PROVE kv'[r] = SeqLen(r) - 1 + Pending(r)'
        BY <3>4
      <4>1. HasRow(r) /\ r \notin R
        BY <2>17
      <4>2. kv[r] = SeqLen(r) - 1 + Forwards(Prev, r)
        BY <1>2, <3>0, <3>2, <4>1 DEF CountsOf
      <4> QED BY <2>6, <3>3, <3>4, <3>t, <4>1, <4>2 DEF One
    <3>7. Roomy' /\ HasRow(r)' => kv'[r] > 0
      BY <2>4, <2>6, <2>17, <3>0, <3>t DEF CountsOf, Roomy, SameConfig
    <3>8. delayed'[r] = IF r \in answered' THEN Pending(r)' ELSE 0
      <4>1. r \in answered => r \notin stay
        BY <1>3, <2>2 DEF HasRow
      <4> QED BY <2>1, <3>0, <3>2, <3>3, <3>t, <4>1 DEF CountsOf, One
    <3> QED BY <2>5, <3>1, <3>5, <3>6, <3>7, <3>8 DEF CountsOf
  <2>23. Memory'
    <3>1. Rows' = Rows \ R /\ R \subseteq Rows /\ Rows \in SUBSET Req
      BY <1>3, <2>2, <2>17 DEF Rows
    <3>2. Cardinality(Rows') = Cardinality(Rows) - Cardinality(R) /\ Cardinality(Rows) \in Nat
      <4>1. IsFiniteSet(Rows) /\ Cardinality(Rows) \in Nat
        BY <3>1, ReqFinite
      <4>2. Cardinality(Rows \ R) = Cardinality(Rows) - Cardinality(Rows \cap R) /\ Rows \cap R = R
        BY <3>1, <4>1, FS_Difference
      <4> QED BY <3>1, <4>1, <4>2
    <3>3. slots + Cardinality(Rows) = MaxReqs /\ slots \in Nat /\ avail \in Nat
          /\ avail + SumOver(kv, Req) + SumOver(delayed, Req) = MaxTotalTokens
          /\ Cardinality(running_batch \cup Ext(cur_batch)) <= MaxReqs
      BY <1>t DEF IInv, Memory, ReqTypes
    <3>4. slots' + Cardinality(Rows') = MaxReqs
      BY <2>1, <2>8, <3>2, <3>3
    <3>5. SumOver(delayed, Req) \in Int
      BY <1>t, SchedulerAssumption, SumType DEF ReqTypes
    <3>6. avail' + SumOver(kv', Req) + SumOver(delayed', Req) = MaxTotalTokens
      <4>1. delayed' = delayed
        BY <2>1
      <4> QED BY <2>7, <2>8, <2>9, <3>3, <3>5, <4>1
    <3>7. (Cardinality(running_batch \cup Ext(cur_batch)))' <= MaxReqs
      <4> DEFINE U == running_batch \cup Ext(cur_batch)
      <4>1. (running_batch \cup Ext(cur_batch))' = stay
        BY <2>1, <2>3, <2>5 DEF Ext
      <4>2. stay \subseteq U
        BY <1>3, <1>6, <2>2
      <4>3. U \in SUBSET Req
        BY <1>t DEF LoopTypes, BatchType, Ext
      <4>4. Cardinality(stay) <= Cardinality(U) /\ Cardinality(U) \in Nat /\ Cardinality(U) <= MaxReqs
        BY <3>3, <4>2, <4>3, ReqFinite, FS_Subset
      <4>5. MaxReqs \in Nat
        BY <1>t DEF EnvTypes, ConfigType, MaxReqs
      <4> HIDE DEF U
      <4>6. Cardinality(stay) <= MaxReqs
        BY <2>8, <4>4, <4>5
      <4> QED BY <4>1, <4>6
    <3> QED BY <2>1, <2>4, <3>4, <3>6, <3>7 DEF IInv, Memory, SameConfig
  <2> QED BY <2>4, <2>5, <2>13, <2>14, <2>16, <2>18, <2>19, <2>20, <2>21, <2>22, <2>23 DEF IInv, Types
<1> QED BY <1>7, <1>8

(* get_new_batch_prefill keeps the invariant: the admitted requests leave  *)
(* the queue and take their row and the tokens of their chunk, and with    *)
(* mixed batches the running ones take one token each.                     *)
LEMMA SchedulePrefillInv ==
  ASSUME IInv, Orderly, pc = "recv", crashed = "no", NEW reserve \in Reserves, NEW a, a = Adder(reserve),
         SchedulePrefill(a)
  PROVE  IInv'
<1> DEFINE A == a.can_run
           c == chunked_req
           mix == IF IsMixedChunk THEN Unfinished(Merged) ELSE {}
           grow == [r \in Req |-> a.len[r] - kv[r]]
           need == SumOver(grow, A)
           e == [mode |-> "extend", reqs |-> A \cup mix, chunked |-> a.chunked]
<1>1. /\ a \in AdderType
      /\ \A r \in A : r = c \/ r \in ToSet(waiting_queue)
      /\ c # NoReq => c \in A
      /\ a.chunked # NoReq => a.chunked \in A /\ ~finished[a.chunked]
      /\ \A r \in A : r # a.chunked => a.len[r] = SeqLen(r)
      /\ \A r \in A : Roomy => a.len[r] > 0
      /\ A # {} => Cardinality(A) + Cardinality(Merged) <= MaxReqs
  BY CanRun
<1>2. /\ last_batch = cur_batch /\ Now = NoBatch /\ Prev.reqs \subseteq cur_batch.reqs
      /\ Prev = cur_batch \/ Prev = NoBatch
      /\ Merged \in SUBSET Req /\ Merged \subseteq running_batch \cup Ext(cur_batch)
      /\ c # NoReq => /\ c \in Req /\ c \in cur_batch.reqs /\ c \in Ext(cur_batch)
                      /\ c \notin Merged /\ HasRow(c) /\ ~finished[c]
      /\ \A r \in Unfinished(Merged) : HasRow(r) /\ ~is_retracted[r] /\ r # c
      /\ \A r \in Req : HasRow(r) =>
           r = c \/ r \in Unfinished(Merged) \/ (finished[r] /\ r \in Ext(Prev))
      /\ ToSet(waiting_queue) \subseteq Req
      /\ \A r \in ToSet(waiting_queue) :
           ~HasRow(r) /\ r \notin Merged /\ r # c /\ r \notin cur_batch.reqs /\ r \notin answered
  BY ScheduleContext
<1>t. EnvTypes /\ LoopTypes /\ ReqTypes
  BY DEF IInv, Types
<1>3. A # {} /\ A \in SUBSET Req /\ a.chunked \in Req \cup {NoReq} /\ a.len \in [Req -> Int]
  BY <1>1 DEF SchedulePrefill, AdderType
<1>4. CASE Cardinality(A) > SlotsAfterMerge \/ need + Cardinality(mix) > avail
  <2>1. Crash("out of memory")
    BY <1>4 DEF SchedulePrefill
  <2> QED BY <2>1, CrashInv
<1>5. CASE ~(Cardinality(A) > SlotsAfterMerge \/ need + Cardinality(mix) > avail)
  <2>1. /\ waiting_queue' = Without(waiting_queue, A)
        /\ chunked_req' = a.chunked
        /\ is_chunked' = [r \in Req |-> IF r = a.chunked THEN is_chunked[r] + 1 ELSE is_chunked[r]]
        /\ is_retracted' = [r \in Req |-> is_retracted[r] /\ r \notin A]
        /\ avail' = avail - need - Cardinality(mix)
        /\ slots' = SlotsAfterMerge - Cardinality(A)
        /\ kv' = [r \in Req |-> IF r \in A THEN a.len[r] ELSE IF r \in mix THEN kv[r] + 1 ELSE kv[r]]
        /\ running_batch' = IF IsMixedChunk THEN {} ELSE Merged
        /\ batch_is_full' = FullAfterPrefill(a)
        /\ RunBatch(e)
        /\ UNCHANGED <<config, client, updating, controls, inbox, crashed, delayed, in_len,
                       out_len, finished, to_abort, answered>>
    BY <1>5 DEF SchedulePrefill
  <2>2. mix \in SUBSET Req /\ mix \subseteq Unfinished(Merged)
    BY <1>2 DEF Unfinished
  <2>3. \A r \in A : r \in Req /\ r \notin Merged /\ r \notin answered /\ (r \notin Prev.reqs \/ r = Prev.chunked)
                     /\ (r # c => ~HasRow(r)) /\ (r = c \/ r \in ToSet(waiting_queue))
    <3> SUFFICES ASSUME NEW r \in A
                 PROVE  r \in Req /\ r \notin Merged /\ r \notin answered
                        /\ (r \notin Prev.reqs \/ r = Prev.chunked)
                        /\ (r # c => ~HasRow(r)) /\ (r = c \/ r \in ToSet(waiting_queue))
      OBVIOUS
    <3>1. CASE r = c
      <4>1. c \in Req /\ c # NoReq
        BY <1>3, <3>1, SchedulerAssumption
      <4>2. Prev = cur_batch => c = Prev.chunked
        BY DEF IInv, Batches
      <4> QED BY <1>2, <3>1, <4>1, <4>2, NoBatchFields DEF HasRow
    <3>2. CASE r \in ToSet(waiting_queue)
      BY <1>2, <3>2
    <3> QED BY <1>1, <3>1, <3>2
  <2>4. A \cap mix = {}
    BY <2>2, <2>3 DEF Unfinished
  <2>5. e \in BatchType /\ e.mode = "extend" /\ e.reqs = A \cup mix /\ e.chunked = a.chunked /\ e # NoBatch
    BY <1>3, <2>2 DEF BatchType, NoBatch
  <2>6. \A r \in mix : ~finished[r] /\ HasRow(r) /\ ~is_retracted[r] /\ r # c /\ r \in Merged /\ r \notin answered
    BY <1>2, <2>2 DEF Unfinished, HasRow
  <2>7. IsMixedChunk => mix = Unfinished(Merged)
    OBVIOUS
  <2>8. grow \in [Req -> Int] /\ \A r \in Req : grow[r] = a.len[r] - kv[r]
    BY <1>3, <1>t DEF ReqTypes
  <2>9. ~(Cardinality(A) > SlotsAfterMerge) /\ ~(need + Cardinality(mix) > avail)
    BY <1>5
  <2>a. ~IsMixedChunk => mix = {}
    OBVIOUS
  <2> HIDE DEF A, mix, grow, e
  <2>10. EnvTypes' /\ Messages' /\ SameConfig
    BY <2>1, ScheduleFrame
  <2>11. /\ cur_batch' = e /\ last_batch' = last_batch /\ pc' = "result"
         /\ Prev' = Prev /\ Now' = e /\ InStep' /\ result_queue' \in Seq(BatchType)
    BY <2>1, <2>5, RunBatchInStep
  <2>12. \A r \in Req :
           /\ kv'[r] = IF r \in A THEN a.len[r] ELSE IF r \in mix THEN kv[r] + 1 ELSE kv[r]
           /\ is_retracted'[r] = (is_retracted[r] /\ r \notin A)
           /\ is_chunked'[r] = IF r = a.chunked THEN is_chunked[r] + 1 ELSE is_chunked[r]
    BY <2>1
  <2>13. kv \in [Req -> Int] /\ kv' \in [Req -> Int] /\ avail \in Nat /\ slots \in Nat
    BY <1>3, <1>t, <2>1 DEF ReqTypes
  <2>14. /\ SumOver(kv', Req) = SumOver(kv, Req) + need + Cardinality(mix)
         /\ SumOver(kv, Req) \in Int /\ need \in Int
    <3>1. Grown(kv', kv, grow, A, mix)
      BY <1>3, <2>8, <2>12, <2>13 DEF Grown
    <3>2. A \in SUBSET Req /\ mix \in SUBSET Req
      BY <1>3, <2>2 DEF A
    <3>3. kv \in [Req -> Int] /\ kv' \in [Req -> Int] /\ grow \in [Req -> Int]
      BY <2>8, <2>13
    <3>4. /\ SumOver(kv', Req) = SumOver(kv, Req) + SumOver(grow, A) + Cardinality(mix)
          /\ SumOver(kv, Req) \in Int /\ SumOver(grow, A) \in Int
      BY <2>4, <3>1, <3>2, <3>3, ExtendBalance
    <3> QED BY <3>4
  <2>15. Cardinality(A) \in Nat /\ Cardinality(mix) \in Nat
    BY <1>3, <2>2, ReqFinite DEF A
  <2>16. avail' = avail - need - Cardinality(mix) /\ avail' \in Nat
    <3>1. avail' = avail - need - Cardinality(mix)
      BY <2>1
    <3> HIDE DEF need
    <3> QED BY <2>9, <2>13, <2>14, <2>15, <3>1
  <2> HIDE DEF need
  <2>17. SlotsAfterMerge \in Nat /\ slots' = SlotsAfterMerge - Cardinality(A) /\ slots' \in Nat
    <3>1. SlotsAfterMerge \in Nat
      BY <2>13 DEF SlotsAfterMerge
    <3>2. slots' = SlotsAfterMerge - Cardinality(A)
      BY <2>1
    <3> QED BY <2>9, <2>15, <3>1, <3>2
  <2>18. ReqTypes'
    <3>1. is_retracted' \in [Req -> BOOLEAN]
      BY <2>1
    <3>2. is_chunked' \in [Req -> Nat]
      BY <1>t, <2>1 DEF ReqTypes
    <3> QED BY <1>t, <2>1, <2>13, <2>16, <2>17, <3>1, <3>2 DEF ReqTypes
  <2>19. /\ waiting_queue' \in Seq(Req) /\ ToSet(waiting_queue') = ToSet(waiting_queue) \ A
         /\ \A i, j \in 1..Len(waiting_queue') : waiting_queue'[i] = waiting_queue'[j] => i = j
    <3>1. /\ waiting_queue \in Seq(Req)
          /\ \A i, j \in 1..Len(waiting_queue) : waiting_queue[i] = waiting_queue[j] => i = j
      BY DEF IInv, Types, LoopTypes, Queue
    <3> DEFINE w == Without(waiting_queue, A)
    <3>2. /\ w \in Seq(Req) /\ ToSet(w) = ToSet(waiting_queue) \ A
          /\ \A i, j \in 1..Len(w) : w[i] = w[j] => i = j
      BY <3>1, WithoutResult
    <3>3. waiting_queue' = w
      BY <2>1
    <3> HIDE DEF w
    <3> QED BY <3>2, <3>3
  <2>20. running_batch' \in SUBSET Req /\ running_batch' \subseteq Merged /\ batch_is_full' \in BOOLEAN
    <3>1. FullAfterPrefill(a) \in BOOLEAN
      BY <1>1 DEF FullAfterPrefill, AdderType
    <3> QED BY <1>2, <2>1, <3>1
  <2>21. LoopTypes'
    BY <1>t, <2>1, <2>5, <2>11, <2>19, <2>20 DEF LoopTypes
  <2>22. c = cur_batch.chunked /\ BatchOK(last_batch) /\ (Prev = cur_batch => Prev.chunked = c)
    BY DEF IInv, Batches
  <2>23. Batches'
    <3>1. BatchOK(e)
      BY <1>1, <1>3, <2>5 DEF BatchOK, A
    <3>2. running_batch' \cap (A \cup mix) = {}
      <4>1. CASE IsMixedChunk
        BY <2>1, <4>1
      <4>2. CASE ~IsMixedChunk
        BY <2>3, <2>20, <2>a, <4>2
      <4> QED BY <4>1, <4>2
    <3>3. Prev.chunked # NoReq => Prev.chunked \in A
      BY <1>1, <1>2, <2>22, NoBatchFields DEF A
    <3> QED BY <2>1, <2>5, <2>11, <2>22, <3>1, <3>2, <3>3 DEF Batches, Ext, BatchOK
  <2>24. \A r \in Req : HasRow(r)' <=> r \in A \/ HasRow(r)
    <3> SUFFICES ASSUME NEW r \in Req PROVE HasRow(r)' <=> r \in A \/ HasRow(r)
      OBVIOUS
    <3>1. HasRow(r)' <=> /\ r \notin answered
                         /\ \/ r \in running_batch' \/ r \in A \/ r \in mix
                            \/ finished[r] /\ r \in Ext(Prev)
      BY <2>1, <2>5, <2>11 DEF HasRow, Ext
    <3>2. r \in A => r \notin answered
      BY <2>3
    <3>3. r \in mix => HasRow(r)
      BY <2>6
    <3>4. r \in running_batch' /\ r \notin answered => HasRow(r)
      BY <1>2, <2>20 DEF HasRow
    <3>5. HasRow(r) => r \in A \/ r \in running_batch' \/ r \in mix \/ (finished[r] /\ r \in Ext(Prev))
      <4>1. r = c => r \in A
        BY <1>1, SchedulerAssumption DEF A
      <4>2. r \in Unfinished(Merged) => r \in running_batch' \/ r \in mix
        BY <2>1, <2>7 DEF Unfinished
      <4> QED BY <1>2, <4>1, <4>2
    <3> QED BY <3>1, <3>2, <3>3, <3>4, <3>5 DEF HasRow
  <2>25. Clients'
    <3>1. ASSUME NEW r \in Req, Absent(r) PROVE Absent(r)'
      <4>1. r \notin Merged /\ r \notin ToSet(waiting_queue) /\ r \notin cur_batch.reqs
        BY <1>2, <3>1 DEF Absent, Ext
      <4>2. r \notin A /\ r \notin mix /\ r \notin running_batch'
        BY <1>2, <2>3, <2>6, <2>20, <4>1, SchedulerAssumption
      <4>3. r \notin Prev.reqs /\ r \notin answered /\ out_len[r] = 0 /\ ~is_retracted[r]
        BY <3>1 DEF Absent
      <4> QED BY <2>1, <2>5, <2>11, <2>12, <2>19, <4>1, <4>2, <4>3 DEF Absent
    <3> QED BY <2>1, <3>1, ClientsFrame
  <2>26. Queue'
    <3> SUFFICES ASSUME NEW r \in ToSet(waiting_queue') PROVE QueueOf(r)'
      BY <2>19 DEF Queue
    <3>1. r \in ToSet(waiting_queue) /\ r \notin A /\ r \in Req
      BY <1>2, <2>19
    <3>2. r \notin running_batch' /\ r \notin mix
      BY <1>2, <2>6, <2>20, <3>1
    <3>3. QueueOf(r)
      BY <3>1 DEF IInv, Queue
    <3>4. r \in Prev.reqs => is_retracted'[r]
      BY <1>2, <3>1
    <3> QED BY <2>1, <2>5, <2>11, <3>1, <3>2, <3>3, <3>4 DEF QueueOf
  <2>27. Status'
    <3> SUFFICES ASSUME NEW r \in Req PROVE StatusOf(r)'
      BY DEF Status
    <3>0. StatusOf(r) /\ r # NoReq
      BY SchedulerAssumption DEF IInv, Status
    <3>1. r \in running_batch' \/ r \in A \/ r \in mix => ~is_retracted'[r]
      <4>1. r \in running_batch' => ~is_retracted[r]
        BY <1>2, <2>20, <3>0 DEF StatusOf, Ext
      <4> QED BY <2>6, <2>12, <4>1
    <3>2. finished[r] => r # a.chunked /\ r # Prev.chunked
      BY <1>1, <3>0 DEF StatusOf
    <3>3. Bad(r) => r \in BadReq /\ r \notin running_batch' /\ (r \in Prev.reqs => Prev.mode = "extend")
      <4>1. r \in Merged /\ finished[r] => r \in running_batch
        BY DEF Merged, MergedReqs
      <4> QED BY <2>20, <3>0, <4>1 DEF StatusOf, Bad
    <3>4. r \in Prev.reqs => r \in answered \/ is_retracted'[r] \/ HasRow(r)'
      BY <2>12, <2>24, <3>0 DEF StatusOf
    <3>5. r \in A \/ r \in mix => r \notin answered
      BY <2>3, <2>6
    <3>6. ~IsMixedChunk /\ r \in Prev.reqs /\ r \in A \cup mix => r = Prev.chunked
      BY <2>3, <2>a
    <3>7. r \in Prev.reqs /\ r = a.chunked => r = Prev.chunked
      BY <1>1, <2>3, <3>0 DEF A
    <3>8. is_retracted'[r] => ~finished[r]
      BY <2>12, <3>0 DEF StatusOf
    <3>9. r \in answered => finished[r]
      BY <3>0 DEF StatusOf
    <3>10. ~IsMixedChunk /\ r \in Ext(Prev) => r \notin answered
      BY <3>0 DEF StatusOf
    <3>11. Bad(r)' = Bad(r) /\ Ext(Prev)' = Ext(Prev) /\ Ext(Now)' = A \cup mix
      BY <2>1, <2>5, <2>11 DEF Bad, Ext
    <3> QED BY <2>1, <2>5, <2>10, <2>11, <3>1, <3>2, <3>3, <3>4, <3>5, <3>6, <3>7, <3>8, <3>9, <3>10, <3>11
            DEF StatusOf, SameConfig
  <2>28. Unanswered'
    <3>1. PICK r \in A : TRUE
      BY <1>3 DEF A
    <3>2. r \notin answered /\ (r \notin Prev.reqs \/ r = Prev.chunked)
      BY <2>3, <3>1
    <3>3. \E x \in e.reqs : x \notin answered /\ (x \notin Prev.reqs \/ x = Prev.chunked)
      BY <2>5, <3>1, <3>2
    <3> QED BY <2>1, <2>11, <3>3 DEF IInv, Unanswered
  <2>29. Counts'
    <3> SUFFICES ASSUME NEW r \in Req PROVE CountsOf(r)'
      BY DEF Counts
    <3>0. CountsOf(r) /\ r # NoReq
      BY SchedulerAssumption DEF IInv, Counts
    <3>t. /\ Forwards(Prev, r) \in Nat /\ out_len[r] \in Nat /\ in_len[r] \in Nat /\ kv[r] \in Int
          /\ is_chunked[r] \in Nat /\ a.len[r] \in Int
      BY <1>3, <1>t DEF Forwards, One, ReqTypes
    <3>1. is_chunked'[r] = One(Prev.chunked = r) + One(e.chunked = r)
      <4>1. is_chunked[r] = One(Prev.chunked = r) + 0
        BY <1>2, <3>0, NoBatchFields DEF CountsOf, One
      <4> QED BY <2>5, <2>12, <4>1 DEF One
    <3>2. Pending(r) = Forwards(Prev, r)
      BY <1>2, <3>t, NoBatchFields DEF Pending, Forwards, One
    <3>3. Pending(r)' = Forwards(Prev, r) + One(r \in A \cup mix /\ a.chunked # r)
      BY <2>5, <2>11 DEF Pending, Forwards
    <3>4. SeqLen(r)' = SeqLen(r) /\ SeqLen(r) \in Int
      BY <2>1, <3>t DEF SeqLen
    <3>5. ~HasRow(r)' => kv'[r] = 0
      BY <2>6, <2>12, <2>24, <3>0 DEF CountsOf
    <3>6. HasRow(r)' /\ r # a.chunked => kv'[r] = SeqLen(r)' - 1 + Pending(r)'
      <4> SUFFICES ASSUME HasRow(r)', r # a.chunked PROVE kv'[r] = SeqLen(r) - 1 + Pending(r)'
        BY <3>4
      <4>1. CASE r \in A
        <5>1. kv'[r] = SeqLen(r)
          BY <1>1, <2>12, <4>1 DEF A
        <5>2. Forwards(Prev, r) = 0
          BY <2>3, <4>1 DEF Forwards, One
        <5> QED BY <3>3, <3>4, <4>1, <5>1, <5>2 DEF One
      <4>2. CASE r \notin A
        <5>1. HasRow(r) /\ r # c
          BY <1>1, <2>24, <3>0, <4>2 DEF A
        <5>2. kv[r] = SeqLen(r) - 1 + Forwards(Prev, r)
          BY <3>0, <3>2, <5>1 DEF CountsOf
        <5> QED BY <2>12, <3>3, <3>4, <3>t, <4>2, <5>2 DEF One
      <4> QED BY <4>1, <4>2
    <3>7. Roomy' /\ HasRow(r)' => kv'[r] > 0
      <4>1. Roomy' = Roomy
        BY <2>10 DEF Roomy, SameConfig
      <4>2. Roomy /\ r \in A => a.len[r] > 0
        BY <1>1 DEF A
      <4>3. Roomy /\ HasRow(r) => kv[r] > 0
        BY <3>0 DEF CountsOf
      <4> QED BY <2>12, <2>24, <3>t, <4>1, <4>2, <4>3
    <3>8. delayed'[r] = IF r \in answered' THEN Pending(r)' ELSE 0
      <4>1. r \in answered => r \notin A \cup mix
        BY <2>3, <2>6
      <4> QED BY <2>1, <3>0, <3>2, <3>3, <3>t, <4>1 DEF CountsOf, One
    <3> QED BY <2>1, <2>11, <3>1, <3>5, <3>6, <3>7, <3>8 DEF CountsOf
  <2>30. Memory'
    <3> DEFINE K == Rows \ {c}
    <3>1. /\ Rows' = K \cup A /\ K \cap A = {} /\ Rows \in SUBSET Req /\ K \in SUBSET Req
          /\ c # NoReq => c \in Rows
          /\ c = NoReq => K = Rows
      <4>1. Rows' = K \cup A
        <5>1. \A r \in A : r \in Req
          BY <2>3
        <5>2. c # NoReq => c \in A
          BY <1>1 DEF A
        <5> QED BY <2>24, <5>1, <5>2, SchedulerAssumption DEF Rows
      <4>2. K \cap A = {}
        BY <2>3 DEF Rows
      <4> QED BY <1>2, <4>1, <4>2, SchedulerAssumption DEF Rows
    <3>2. IsFiniteSet(K) /\ IsFiniteSet(A) /\ IsFiniteSet(Rows) /\ Cardinality(K) \in Nat /\ Cardinality(Rows) \in Nat
      BY <1>3, <3>1, ReqFinite DEF A
    <3>3. Cardinality(K \cup A) = Cardinality(K) + Cardinality(A)
      <4>1. Cardinality(K \cup A) = Cardinality(K) + Cardinality(A) - Cardinality(K \cap A)
        BY <3>2, FS_Union
      <4>2. Cardinality(K \cap A) = 0
        BY <3>1, FS_EmptySet
      <4> QED BY <2>15, <3>2, <4>1, <4>2
    <3>4. SlotsAfterMerge + Cardinality(K) = slots + Cardinality(Rows)
      <4>1. CASE c = NoReq
        BY <3>1, <4>1 DEF SlotsAfterMerge
      <4>2. CASE c # NoReq
        <5>1. Cardinality(K) = Cardinality(Rows) - 1
          BY <3>1, <3>2, <4>2, FS_RemoveElement
        <5>2. SlotsAfterMerge = slots + 1
          BY <4>2 DEF SlotsAfterMerge
        <5> QED BY <2>13, <3>2, <5>1, <5>2
      <4> QED BY <4>1, <4>2
    <3>5. /\ slots + Cardinality(Rows) = MaxReqs
          /\ avail + SumOver(kv, Req) + SumOver(delayed, Req) = MaxTotalTokens
          /\ crashed' # "memory leak"
      BY <2>1 DEF IInv, Memory
    <3>6. slots' + Cardinality(Rows') = MaxReqs
      <4>1. Cardinality(Rows') = Cardinality(K) + Cardinality(A)
        BY <3>1, <3>3
      <4>2. Cardinality(K) \in Nat /\ Cardinality(A) \in Nat
        BY <2>15, <3>2
      <4>3. slots' = SlotsAfterMerge - Cardinality(A) /\ SlotsAfterMerge \in Nat
        BY <2>17
      <4> HIDE DEF K
      <4>4. slots' + (Cardinality(K) + Cardinality(A)) = SlotsAfterMerge + Cardinality(K)
        BY <4>2, <4>3
      <4>5. SlotsAfterMerge + Cardinality(K) = MaxReqs
        BY <3>4, <3>5
      <4> QED BY <4>1, <4>4, <4>5
    <3>7. SumOver(delayed, Req) \in Int
      BY <1>t, SchedulerAssumption, SumType DEF ReqTypes
    <3>8. avail' + SumOver(kv', Req) + SumOver(delayed', Req) = MaxTotalTokens
      <4>1. delayed' = delayed
        BY <2>1
      <4>2. SumOver(kv', Req) = SumOver(kv, Req) + need + Cardinality(mix)
        BY <2>14
      <4>3. avail' = avail - need - Cardinality(mix)
        BY <2>16
      <4>4. avail \in Int /\ need \in Int /\ Cardinality(mix) \in Int /\ SumOver(kv, Req) \in Int
        BY <2>13, <2>14, <2>15
      <4>5. avail' + SumOver(kv', Req) = avail + SumOver(kv, Req)
        BY <4>2, <4>3, <4>4
      <4> QED BY <3>5, <4>1, <4>5
    <3>9. Cardinality((running_batch \cup Ext(cur_batch))') <= MaxReqs
      <4> DEFINE U == (running_batch \cup Ext(cur_batch))'
                 V == Merged \cup A
      <4>1. U \subseteq V
        BY <2>5, <2>6, <2>11, <2>20 DEF Ext
      <4>2. V \in SUBSET Req /\ A \in SUBSET Req
        BY <1>2, <1>3 DEF A
      <4>3. Cardinality(U) <= Cardinality(V) /\ Cardinality(V) \in Nat /\ Cardinality(U) \in Nat
        <5>1. U \in SUBSET Req
          BY <4>1, <4>2
        <5> HIDE DEF U, V
        <5> QED BY <4>1, <4>2, <5>1, ReqFinite, FS_Subset
      <4>4. Cardinality(V) = Cardinality(Merged) + Cardinality(A)
        <5>1. IsFiniteSet(Merged) /\ Cardinality(Merged) \in Nat /\ Merged \cap A = {}
          BY <1>2, <2>3, ReqFinite
        <5>2. Cardinality(V) = Cardinality(Merged) + Cardinality(A) - Cardinality(Merged \cap A)
          BY <3>2, <5>1, FS_Union
        <5>3. Cardinality(Merged \cap A) = 0
          BY <5>1, FS_EmptySet
        <5> HIDE DEF V
        <5> QED BY <2>15, <5>1, <5>2, <5>3
      <4>5. Cardinality(A) + Cardinality(Merged) <= MaxReqs /\ MaxReqs \in Nat /\ Cardinality(Merged) \in Nat
        BY <1>1, <1>2, <1>3, <1>t, ReqFinite DEF EnvTypes, ConfigType, MaxReqs, A
      <4>6. Cardinality(U) <= MaxReqs
        <5> HIDE DEF U, V
        <5> QED BY <2>15, <4>3, <4>4, <4>5
      <4> QED BY <4>6
    <3> HIDE DEF K
    <3> QED BY <2>10, <3>5, <3>6, <3>8, <3>9 DEF Memory, SameConfig
  <2> QED BY <2>10, <2>11, <2>18, <2>21, <2>23, <2>25, <2>26, <2>27, <2>28, <2>29, <2>30 DEF IInv, Types
<1> QED BY <1>4, <1>5

---------------------------------------------------------------------------
(* The theorems *)

(* No step changes the configuration. *)
LEMMA ConfigStays ==
  ASSUME Next \/ UNCHANGED vars
  PROVE  config' = config
<1>1. CASE Environment
  BY <1>1 DEF Environment, SendGenerate, Disconnect, SendFlush, SendUpdate, schedulerVars
<1>2. CASE \E r \in Req : ReceiveOutput(r)
  BY <1>2 DEF ReceiveOutput, schedulerVars
<1>3. CASE Receive
  BY <1>3 DEF Receive
<1>4. CASE Schedule
  BY <1>4 DEF Schedule, SchedulePrefill, ScheduleDecode, ScheduleNothing, Crash
<1>5. CASE ProcessResult
  BY <1>5 DEF ProcessResult
<1>6. CASE UNCHANGED vars
  BY <1>6 DEF vars
<1> QED BY <1>1, <1>2, <1>3, <1>4, <1>5, <1>6 DEF Next

(* get_next_batch_to_run and the launch keep the invariant. *)
LEMMA ScheduleInv ==
  ASSUME IInv, Orderly, Schedule
  PROVE  IInv'
<1>1. pc = "recv" /\ crashed = "no"
  BY DEF Schedule
<1>2. PICK reserve \in Reserves :
        LET a == Adder(reserve) IN SchedulePrefill(a) \/ ScheduleDecode(a) \/ ScheduleNothing(a)
  BY DEF Schedule
<1>3. PICK a : a = Adder(reserve)
  OBVIOUS
<1>4. SchedulePrefill(a) \/ ScheduleDecode(a) \/ ScheduleNothing(a)
  BY <1>2, <1>3
<1> QED BY <1>1, <1>3, <1>4, SchedulePrefillInv, ScheduleDecodeInv, ScheduleNothingInv

(* A stuttering step keeps the invariant. *)
LEMMA StutterInv ==
  ASSUME IInv, UNCHANGED vars
  PROVE  IInv'
<1>1. UNCHANGED <<config, client, updating, controls, inbox, crashed, pc, waiting_queue, running_batch,
                  batch_is_full, chunked_req, cur_batch, last_batch, result_queue, avail, slots, kv,
                  delayed, in_len, out_len, finished, to_abort, is_retracted, is_chunked, answered>>
  BY DEF vars, envVars, queueVars, batchVars, memVars, reqVars
<1>2. EnvTypes' /\ Messages' /\ SameConfig
  BY <1>1, ScheduleFrame
<1>3. Prev' = Prev /\ Now' = Now
  BY <1>1, <1>2 DEF Prev, Now, SameConfig
<1>4. LoopTypes' /\ ReqTypes'
  BY <1>1 DEF IInv, Types, LoopTypes, ReqTypes
<1>5. Batches' /\ InStep'
  BY <1>1, <1>2, <1>3 DEF IInv, Batches, InStep, BatchOK, Ext, SameConfig
<1>6. \A x : HasRow(x)' = HasRow(x)
  BY <1>1, <1>3 DEF HasRow, Ext
<1>7. Clients'
  <2>1. \A x : Absent(x)' = Absent(x)
    BY <1>1, <1>3 DEF Absent
  <2> QED BY <1>1, <2>1, ClientsFrame
<1>8. Queue'
  BY <1>1, <1>3 DEF IInv, Queue, QueueOf
<1>9. Status' /\ Unanswered'
  BY <1>1, <1>2, <1>3, <1>6 DEF IInv, Status, StatusOf, Unanswered, Bad, Ext, SameConfig
<1>10. Counts'
  BY <1>1, <1>2, <1>3, <1>6 DEF IInv, Counts, CountsOf, Pending, Forwards, SeqLen, Roomy, SameConfig
<1>11. Memory'
  <2>1. Rows' = Rows
    BY <1>6 DEF Rows
  <2> QED BY <1>1, <1>2, <2>1 DEF IInv, Memory, Ext, SameConfig
<1> QED BY <1>2, <1>4, <1>5, <1>7, <1>8, <1>9, <1>10, <1>11 DEF IInv, Types

(* The deployment never changes. *)
LEMMA OrderlyStays ==
  ASSUME config' = config
  PROVE  Orderly' = Orderly /\ Roomy' = Roomy
<1>1. SameConfig
  BY Constants
<1> QED BY <1>1 DEF SameConfig, Orderly, Roomy

(* Every step keeps the inductive invariant. *)
LEMMA NextInv ==
  ASSUME IInv, Orderly, [Next]_vars
  PROVE  IInv' /\ Orderly'
<1>1. Orderly'
  BY ConfigStays, OrderlyStays
<1>2. CASE Environment
  <2>1. ~SendFlush
    BY DEF Orderly, SendFlush
  <2> QED BY <1>1, <1>2, <2>1, SendGenerateInv, DisconnectInv, SendUpdateInv DEF Environment
<1>3. CASE \E r \in Req : ReceiveOutput(r)
  BY <1>1, <1>3, ReceiveOutputInv
<1>4. CASE Receive
  BY <1>1, <1>4, ReceiveInv
<1>5. CASE Schedule
  BY <1>1, <1>5, ScheduleInv
<1>6. CASE ProcessResult
  BY <1>1, <1>6, ProcessResultInv
<1>7. CASE UNCHANGED vars
  BY <1>1, <1>7, StutterInv
<1> QED BY <1>2, <1>3, <1>4, <1>5, <1>6, <1>7 DEF Next

(* The invariant of the scheduler, in every deployment that is Orderly. *)
THEOREM SchedulerInvariant == Spec /\ Orderly => [](IInv /\ Orderly)
<1>1. Init /\ Orderly => IInv /\ Orderly
  BY InitInv
<1>2. (IInv /\ Orderly) /\ [Next]_vars => (IInv /\ Orderly)'
  BY NextInv
<1> QED BY <1>1, <1>2, PTL DEF Spec

(* The invariant implies OnePlace. *)
LEMMA OnePlaceHolds ==
  ASSUME IInv, Orderly
  PROVE  OnePlace
<1> SUFFICES ASSUME pc = "recv"
             PROVE  /\ \A r \in Req : kv[r] > 0 => r \in running_batch \cup InFlight \cup {chunked_req}
                    /\ running_batch \cap InFlight = {}
                    /\ \A i, j \in DOMAIN waiting_queue :
                         /\ kv[waiting_queue[i]] = 0
                         /\ waiting_queue[i] = waiting_queue[j] => i = j
                    /\ chunked_req # NoReq => chunked_req \in last_batch.reqs
  BY DEF OnePlace
<1>1. /\ last_batch = cur_batch /\ (Prev = cur_batch \/ Prev = NoBatch)
      /\ chunked_req # NoReq => chunked_req \in cur_batch.reqs
      /\ ToSet(waiting_queue) \subseteq Req /\ \A r \in ToSet(waiting_queue) : ~HasRow(r)
  BY ScheduleContext
<1>2. InFlight = Ext(cur_batch)
  BY <1>1 DEF InFlight, Ext
<1>3. \A r \in Req : ~HasRow(r) => kv[r] = 0
  BY DEF IInv, Counts, CountsOf
<1>4. \A r \in Req : HasRow(r) => r \in running_batch \/ r \in Ext(cur_batch)
  BY <1>1, NoBatchFields DEF HasRow, Ext
<1>5. \A r \in Req : kv[r] > 0 => r \in running_batch \cup InFlight \cup {chunked_req}
  BY <1>2, <1>3, <1>4
<1>6. running_batch \cap InFlight = {}
  BY <1>2 DEF IInv, Batches
<1>7. waiting_queue \in Seq(Req)
  BY DEF IInv, Types, LoopTypes
<1>8. DOMAIN waiting_queue = 1..Len(waiting_queue)
  BY <1>7
<1>9. \A i \in DOMAIN waiting_queue : waiting_queue[i] \in Req /\ ~HasRow(waiting_queue[i])
  BY <1>1 DEF ToSet
<1>10. \A i, j \in DOMAIN waiting_queue : waiting_queue[i] = waiting_queue[j] => i = j
  BY <1>8 DEF IInv, Queue
<1> QED BY <1>1, <1>3, <1>5, <1>6, <1>9, <1>10

(* In every orderly deployment a request is in one place: whatever mix of  *)
(* chunks, retractions, aborts, late results and weight updates the loop   *)
(* goes through, one that holds memory can be reached and one that waits   *)
(* is queued once and holds nothing (get_next_batch_to_run).               *)
THEOREM SchedulerOnePlace == Spec /\ Orderly => []OnePlace
<1>1. IInv /\ Orderly => OnePlace
  BY OnePlaceHolds
<1> QED BY <1>1, SchedulerInvariant, PTL

(* In every orderly deployment event_loop_overlap pops a result for the    *)
(* batch it launched one iteration ago, and never from an empty queue.     *)
THEOREM SchedulerResultsInStep == Spec /\ Orderly => []ResultsInStep
<1>1. IInv => ResultsInStep
  <2> SUFFICES ASSUME IInv PROVE ResultsInStep
    OBVIOUS
  <2>1. Len(result_queue) = One(Prev # NoBatch) + One(EnableOverlap /\ Now # NoBatch)
    BY DEF IInv, InStep
  <2>2. CASE EnableOverlap
    BY <2>1, <2>2 DEF ResultsInStep, Prev, Now, One
  <2>3. CASE ~EnableOverlap
    BY <2>1, <2>3 DEF ResultsInStep, Prev, Now, One
  <2> QED BY <2>2, <2>3
<1> QED BY <1>1, SchedulerInvariant, PTL

(* In every orderly deployment check_memory finds no leak: whenever the    *)
(* loop is idle, every token slot and every row is free or evictable.      *)
THEOREM SchedulerNoLeak == Spec /\ Orderly => [](crashed # "memory leak")
<1>1. IInv => crashed # "memory leak"
  BY DEF IInv, Memory
<1> QED BY <1>1, SchedulerInvariant, PTL

(* A step never grows or forgets a request that was answered. *)
LEMMA AnsweredStays ==
  ASSUME IInv, Orderly, Next \/ UNCHANGED vars
  PROVE  \A r \in Req : r \in answered => out_len'[r] = out_len[r] /\ r \in answered'
<1>1. CASE Environment
  BY <1>1 DEF Environment, SendGenerate, Disconnect, SendFlush, SendUpdate, schedulerVars, reqVars
<1>2. CASE \E r \in Req : ReceiveOutput(r)
  BY <1>2 DEF ReceiveOutput, schedulerVars, reqVars
<1>3. CASE Receive
  <2>1. Head(inbox).type \in {"generate", "abort", "flush", "update"}
    <3>1. inbox \in Seq(MessageType) /\ inbox # << >>
      BY <1>3 DEF Receive, IInv, Types, EnvTypes
    <3>2. Head(inbox) \in MessageType
      BY <3>1
    <3> QED BY <3>2 DEF MessageType
  <2> QED BY <1>3, <2>1 DEF Receive, HandleGenerate, HandleAbort, HandleFlush, HandleUpdate, reqVars
<1>4. CASE Schedule
  BY <1>4 DEF Schedule, SchedulePrefill, ScheduleDecode, ScheduleNothing, Crash, reqVars
<1>5. CASE ProcessResult
  <2>1. PICK E : Ends(Taken, E)
    BY <1>5, ResultTaken
  <2>2. \A r \in Req : r \in answered => r \notin Steps(Taken)
    BY <1>5, TakenReqs DEF ProcessResult
  <2>3. /\ out_len' = [r \in Req |-> IF r \in Steps(Taken) THEN out_len[r] + 1 ELSE out_len[r]]
        /\ answered' = answered \cup E
    BY <2>1 DEF Ends
  <2> QED BY <2>2, <2>3
<1>6. CASE UNCHANGED vars
  BY <1>6 DEF vars, reqVars
<1> QED BY <1>1, <1>2, <1>3, <1>4, <1>5, <1>6 DEF Next

(* In every orderly deployment no late result of the overlap loop appends  *)
(* a token to a request that was answered, and none is answered twice      *)
(* (process_batch_result_decode, "delayed by one step").                   *)
THEOREM SchedulerNoTokenAfterFinish == Spec /\ Orderly => NoTokenAfterFinish
<1>1. (IInv /\ Orderly) /\ [Next]_vars =>
        [\A r \in Req : r \in answered => out_len'[r] = out_len[r] /\ r \in answered']_vars
  BY AnsweredStays
<1>2. Spec => [][Next]_vars
  BY DEF Spec
<1> QED BY <1>1, <1>2, SchedulerInvariant, PTL DEF NoTokenAfterFinish

(* A step that takes an update off the inbox finds every token returned. *)
LEMMA UpdateStep ==
  ASSUME IInv, Orderly, Next \/ UNCHANGED vars,
         Len(inbox') < Len(inbox), Head(inbox).type = "update", FlushAllowed
  PROVE  \A r \in Req : kv[r] = 0 /\ delayed[r] = 0
<1>0. inbox \in Seq(MessageType)
  BY DEF IInv, Types, EnvTypes
<1>1. CASE Receive
  BY <1>1, UpdateIsAlone
<1>2. ASSUME \E m \in MessageType : inbox' = Append(inbox, m) PROVE FALSE
  BY <1>0, <1>2
<1>3. ASSUME inbox' = inbox PROVE FALSE
  BY <1>0, <1>3
<1>4. CASE Environment
  <2>1. \E m \in MessageType : inbox' = Append(inbox, m)
    BY <1>4, MessageFields DEF Environment, SendGenerate, Disconnect, SendFlush, SendUpdate
  <2> QED BY <1>2, <2>1
<1>5. CASE (\E r \in Req : ReceiveOutput(r)) \/ Schedule \/ ProcessResult \/ UNCHANGED vars
  <2>1. inbox' = inbox
    BY <1>5 DEF ReceiveOutput, Schedule, SchedulePrefill, ScheduleDecode, ScheduleNothing, Crash,
                ProcessResult, vars
  <2> QED BY <1>3, <2>1
<1> QED BY <1>1, <1>4, <1>5 DEF Next

(* In every orderly deployment the writer lock of the tokenizer manager    *)
(* and the guard of flush_cache together keep the flush of a weight update *)
(* away from every request that still holds memory.                        *)
THEOREM SchedulerUpdateOnlyWhenIdle == Spec /\ Orderly => UpdateOnlyWhenIdle
<1>1. (IInv /\ Orderly) /\ [Next]_vars =>
        [Len(inbox') < Len(inbox) /\ Head(inbox).type = "update" /\ FlushAllowed
           /\ "abort" \notin Controls
           => \A r \in Req : kv[r] = 0 /\ delayed[r] = 0]_vars
  BY UpdateStep
<1>2. Spec => [][Next]_vars
  BY DEF Spec
<1> QED BY <1>1, <1>2, SchedulerInvariant, PTL DEF UpdateOnlyWhenIdle

(* With Roomy, the requests with tokens are exactly those with a row. *)
LEMMA RoomyCounts ==
  ASSUME IInv, Roomy
  PROVE  \A r \in Req : kv[r] \in Nat /\ delayed[r] \in Nat /\ (kv[r] > 0 <=> HasRow(r))
<1> SUFFICES ASSUME NEW r \in Req PROVE kv[r] \in Nat /\ delayed[r] \in Nat /\ (kv[r] > 0 <=> HasRow(r))
  OBVIOUS
<1>1. CountsOf(r) /\ kv[r] \in Int
  BY DEF IInv, Counts, Types, ReqTypes
<1>2. Pending(r) \in Nat
  BY DEF Pending, Forwards, One
<1>3. delayed[r] \in Nat
  BY <1>1, <1>2 DEF CountsOf
<1> QED BY <1>1, <1>3 DEF CountsOf

(* Every request with a row is reachable from the scheduler's batches. *)
LEMMA ReachableRows ==
  ASSUME IInv
  PROVE  Reachable \in SUBSET Req /\ \A r \in Req : HasRow(r) => r \in Reachable
<1>1. /\ cur_batch.reqs \subseteq Req /\ last_batch.reqs \subseteq Req /\ running_batch \subseteq Req
      /\ cur_batch.chunked \in Req \cup {NoReq} /\ chunked_req = cur_batch.chunked
  BY DEF IInv, Types, LoopTypes, BatchType, Batches
<1>2. Ext(cur_batch) \subseteq cur_batch.reqs /\ Ext(Prev) \subseteq last_batch.reqs
  BY NoBatchFields DEF Ext, Prev
<1> QED BY <1>1, <1>2, SchedulerAssumption DEF Reachable, HasRow

(* The invariant implies MemoryBalanced. *)
LEMMA MemoryBalancedHolds ==
  ASSUME IInv, Roomy
  PROVE  MemoryBalanced
<1>1. \A r \in Req : kv[r] \in Nat /\ (kv[r] > 0 <=> HasRow(r))
  BY RoomyCounts
<1>2. Reachable \in SUBSET Req /\ \A r \in Req : HasRow(r) => r \in Reachable
  BY ReachableRows
<1>3. SumOver(kv, Req) = SumOver(kv, Reachable)
  <2>1. kv \in [Req -> Int] /\ Req \in SUBSET Req /\ IsFiniteSet(Req)
    BY SchedulerAssumption DEF IInv, Types, ReqTypes
  <2>2. \A r \in Req : kv[r] = IF r \in Reachable THEN kv[r] ELSE 0
    BY <1>1, <1>2
  <2> QED BY <1>2, <2>1, <2>2, SumPart
<1>4. {r \in Reachable : kv[r] > 0} = Rows
  BY <1>1, <1>2 DEF Rows
<1> QED BY <1>3, <1>4 DEF MemoryBalanced, IInv, Memory

(* The invariant implies TypeOK. *)
LEMMA TypesHold ==
  ASSUME IInv, Roomy
  PROVE  TypeOK
<1>1. \A r \in Req : kv[r] \in Nat /\ delayed[r] \in Nat
  BY RoomyCounts
<1>2. EnvTypes /\ LoopTypes /\ ReqTypes
  BY DEF IInv, Types
<1>3. kv \in [Req -> Int] /\ delayed \in [Req -> Int] /\ Req \in SUBSET Req /\ IsFiniteSet(Req)
  BY <1>2, SchedulerAssumption DEF ReqTypes
<1>4. SumOver(kv, Req) \in Nat /\ SumOver(delayed, Req) \in Nat
  BY <1>1, <1>3, SumNat
<1>5. /\ avail + SumOver(kv, Req) + SumOver(delayed, Req) = MaxTotalTokens
      /\ slots + Cardinality(Rows) = MaxReqs
  BY DEF IInv, Memory
<1>6. Cardinality(Rows) \in Nat
  BY ReqFinite DEF Rows
<1>7. avail \in 0..MaxTotalTokens /\ slots \in 0..MaxReqs
  <2>1. avail \in Nat /\ slots \in Nat
    BY <1>2 DEF ReqTypes
  <2>2. MaxTotalTokens \in Nat /\ MaxReqs \in Nat
    BY <1>2 DEF EnvTypes, ConfigType, MaxTotalTokens, MaxReqs
  <2> QED BY <1>4, <1>5, <1>6, <2>1, <2>2
<1>8. kv \in [Req -> Nat] /\ delayed \in [Req -> Nat]
  BY <1>1, <1>3
<1>9. in_len \in [Req -> Nat]
  BY <1>2 DEF ReqTypes
<1>10. chunked_req \in Req \cup {NoReq}
  BY <1>2 DEF LoopTypes, BatchType, IInv, Batches
<1> QED BY <1>2, <1>7, <1>8, <1>9, <1>10
        DEF TypeOK, EnvTypes, LoopTypes, ReqTypes, MessageType

(* The inductive invariant for the deployments in which every chunk of a   *)
(* mixed batch has room.                                                   *)
LEMMA RoomyInvariant == Spec /\ Orderly /\ Roomy => [](IInv /\ Roomy)
<1>1. Init /\ Orderly /\ Roomy => IInv /\ Orderly /\ Roomy
  BY InitInv
<1>2. (IInv /\ Orderly /\ Roomy) /\ [Next]_vars => (IInv /\ Orderly /\ Roomy)'
  BY NextInv, ConfigStays, OrderlyStays
<1> QED BY <1>1, <1>2, PTL DEF Spec

(* In every orderly deployment whose chunks are not smaller than the       *)
(* largest mixed batch, every token slot and every row is free or on the   *)
(* account of a request that the scheduler still reaches.                  *)
THEOREM SchedulerMemoryBalanced == Spec /\ Orderly /\ Roomy => []MemoryBalanced
<1>1. IInv /\ Roomy => MemoryBalanced
  BY MemoryBalancedHolds
<1> QED BY <1>1, RoomyInvariant, PTL

(* Under the same condition the pools never count below zero or above      *)
(* their size, and no request holds a negative number of slots.            *)
THEOREM SchedulerTypes == Spec /\ Orderly /\ Roomy => []TypeOK
<1>1. IInv /\ Roomy => TypeOK
  BY TypesHold
<1> QED BY <1>1, RoomyInvariant, PTL

---------------------------------------------------------------------------
(* The pool does not run out *)

(* What a chunked request still needs is free: add_chunked_req tests no    *)
(* memory.                                                                 *)
Lacks == chunked_req # NoReq => SeqLen(chunked_req) - kv[chunked_req] <= avail

(* The tokens that batch a allocates. *)
Spent(a) == SumOver([r \in Req |-> a.len[r] - kv[r]], a.can_run)

(* What the adder finds without mixed batches. *)
BudgetContext ==
  /\ AdderContext /\ ~IsMixedChunk /\ Lacks /\ avail \in Nat
  /\ \A i, j \in 1..Len(waiting_queue) : waiting_queue[i] = waiting_queue[j] => i = j
  /\ \A i \in 1..Len(waiting_queue) : kv[waiting_queue[i]] = 0 /\ waiting_queue[i] # chunked_req

(* The batch fits the pool; what its chunked request lacks after it fits   *)
(* too; and a batch with a new request leaves a token.                     *)
Affordable(a) ==
  /\ a.rem_total <= avail - Spent(a) /\ Spent(a) <= avail
  /\ a.chunked # NoReq => SeqLen(a.chunked) - a.len[a.chunked] <= avail - Spent(a)
  /\ (\E r \in a.can_run : r # chunked_req) => Spent(a) < avail

(* b is a after r joined it with fill tokens. *)
Joined(b, a, r, fill) == b.can_run = a.can_run \cup {r} /\ b.len = [a.len EXCEPT ![r] = fill]

(* What a batch allocates when one request joins it. *)
LEMMA SpentJoin ==
  ASSUME kv \in [Req -> Int], NEW a \in AdderType, IsFiniteSet(a.can_run), NEW b \in AdderType,
         NEW r \in Req, r \notin a.can_run, NEW fill \in Int, Joined(b, a, r, fill)
  PROVE  Spent(a) \in Int /\ Spent(b) = Spent(a) + fill - kv[r] /\ b.len[r] = fill
<1> DEFINE f == [x \in Req |-> a.len[x] - kv[x]]
           g == [x \in Req |-> b.len[x] - kv[x]]
           A == a.can_run
<1>1. a.len \in [Req -> Int] /\ b.len \in [Req -> Int] /\ A \in SUBSET Req
  BY DEF AdderType
<1>2. f \in [Req -> Int] /\ g \in [Req -> Int]
  BY <1>1
<1>3. b.len[r] = fill /\ \A x \in A : b.len[x] = a.len[x]
  BY <1>1 DEF Joined
<1>4. g[r] = fill - kv[r] /\ \A x \in A : g[x] = f[x]
  BY <1>1, <1>3
<1>5. Spent(a) = SumOver(f, A) /\ Spent(b) = SumOver(g, A \cup {r})
  BY DEF Spent, Joined
<1>6. r \in Req \ A /\ IsFiniteSet(A)
  OBVIOUS
<1> HIDE DEF f, g, A
<1>7. SumOver(g, A \cup {r}) = g[r] + SumOver(g, A)
  BY <1>1, <1>2, <1>6, SumAdd
<1>8. SumOver(g, A) = SumOver(f, A) /\ SumOver(f, A) \in Int
  BY <1>1, <1>2, <1>4, <1>6, SumSame, SumType
<1> QED BY <1>3, <1>4, <1>5, <1>7, <1>8

(* Fields that only end the admission do not change what a batch costs. *)
LEMMA AffordableSame ==
  ASSUME NEW a, NEW b, Affordable(a), b.can_run = a.can_run, b.chunked = a.chunked, b.len = a.len,
         b.rem_total = a.rem_total
  PROVE  Affordable(b)
BY DEF Affordable, Spent

(* A new adder has spent nothing. *)
LEMMA NewAffordable ==
  ASSUME BudgetContext, NEW reserve \in Nat
  PROVE  LET a == NewAdder(reserve)
         IN  /\ a \in AdderType /\ a.can_run = {} /\ a.chunked = NoReq /\ a.rem_chunk = ChunkSize
             /\ a.rem_total <= avail /\ Spent(a) = 0 /\ Affordable(a)
<1> DEFINE a == NewAdder(reserve)
<1>1. MixedTokens = 0 /\ ChunkSize \in Int /\ avail \in Nat /\ AdderContext
  BY DEF BudgetContext, MixedTokens, AdderContext, ConfigType, ChunkSize
<1>2. a \in AdderType /\ a.can_run = {} /\ a.chunked = NoReq /\ a.rem_chunk = ChunkSize
  BY <1>1, NewAdderFields
<1>3. a.rem_total = avail - reserve
  BY <1>1 DEF NewAdder
<1> HIDE DEF a
<1>4. Spent(a) = 0
  BY <1>2, SumEmpty DEF Spent
<1>5. Affordable(a)
  BY <1>1, <1>2, <1>3, <1>4 DEF Affordable
<1> QED BY <1>1, <1>2, <1>3, <1>4, <1>5 DEF a

(* add_chunked_req stays within what is free, without a test. *)
LEMMA FirstAffordable ==
  ASSUME BudgetContext, NEW reserve \in Nat
  PROVE  Affordable(FirstAdder(reserve))
<1> DEFINE a == NewAdder(reserve)
<1>1. /\ a \in AdderType /\ a.can_run = {} /\ a.chunked = NoReq /\ a.rem_chunk = ChunkSize
      /\ a.rem_total <= avail /\ Spent(a) = 0 /\ Affordable(a)
  BY NewAffordable
<1> HIDE DEF a
<1>2. CASE chunked_req = NoReq
  BY <1>1, <1>2 DEF FirstAdder, a
<1>3. CASE chunked_req # NoReq
  <2>0. PICK r : r = chunked_req
    OBVIOUS
  <2> DEFINE left == SeqLen(r) - kv[r]
             more == left > a.rem_chunk
             ext == Least(left, a.rem_chunk)
             new == IF more THEN 0 ELSE NewTokens(r)
             fill == kv[r] + ext
             z == IF more THEN r ELSE NoReq
             b == PrefillOne(a, r, fill, ext, new)
             d == [b EXCEPT !.chunked = z]
  <2>1. r \in Req /\ AdderContext /\ avail \in Nat /\ kv \in [Req -> Int]
    BY <1>3, <2>0 DEF AdderContext, BudgetContext
  <2>2. FirstAdder(reserve) = d
    BY <1>3, <2>0 DEF FirstAdder, AddChunked, a
  <2>3. left \in Int /\ a.rem_chunk \in Int /\ a.rem_total \in Int /\ kv[r] \in Int /\ NewTokens(r) \in Nat
        /\ SeqLen(r) \in Nat /\ left <= avail
    BY <1>1, <1>3, <2>0, <2>1, SeqLenType DEF AdderType, BudgetContext, Lacks
  <2>4. /\ ext \in Int /\ new \in Nat /\ fill \in Int /\ ext <= left /\ fill = kv[r] + ext
        /\ left = SeqLen(r) - kv[r] /\ z \in Req \cup {NoReq} /\ z \in {r, NoReq}
    BY <2>1, <2>3 DEF Least
  <2> HIDE DEF left, ext, new, fill, z, more
  <2>5. /\ b \in AdderType /\ b.can_run = a.can_run \cup {r} /\ b.len = [a.len EXCEPT ![r] = fill]
        /\ b.rem_total = a.rem_total - ext - new
    <3>1. new \in Int
      BY <2>4
    <3> QED BY <1>1, <2>1, <2>4, <3>1, PrefillOneFields
  <2>6. IsFiniteSet(a.can_run) /\ r \notin a.can_run
    BY <1>1, FS_EmptySet
  <2> HIDE DEF b
  <2>7. Spent(b) = Spent(a) + fill - kv[r] /\ b.len[r] = fill
    <3>1. Joined(b, a, r, fill)
      BY <2>5 DEF Joined
    <3>2. a \in AdderType /\ b \in AdderType
      BY <1>1, <2>5
    <3> QED BY <2>1, <2>4, <2>6, <3>1, <3>2, SpentJoin
  <2>8. d \in AdderType /\ d.can_run = b.can_run /\ d.chunked = z /\ d.len = b.len /\ d.rem_total = b.rem_total
    BY <2>4, <2>5, ChunkedFields
  <2> HIDE DEF d
  <2>9. Spent(d) = ext /\ d.rem_total <= avail - ext /\ d.len[r] = kv[r] + ext /\ \A x \in d.can_run : x = r
    <3>1. Spent(d) = Spent(b)
      BY <2>8 DEF Spent
    <3> QED BY <1>1, <2>1, <2>3, <2>4, <2>5, <2>7, <2>8, <3>1
  <2>10. Affordable(d)
    BY <2>0, <2>1, <2>3, <2>4, <2>8, <2>9 DEF Affordable
  <2> QED BY <2>2, <2>10
<1> QED BY <1>2, <1>3

(* add_one_req never admits what the pool cannot hold: it tests the whole  *)
(* request, whatever part of it the chunk takes.                           *)
LEMMA AddOneAffordable ==
  ASSUME BudgetContext, NEW k \in Nat, k + 1 <= Len(waiting_queue), NEW a, AdderOK(a, k), Affordable(a)
  PROVE  Affordable(AddOne(a, waiting_queue[k + 1]))
<1>1. PICK r : r = waiting_queue[k + 1]
  OBVIOUS
<1>2. PICK b : b = AddOne(a, r)
  OBVIOUS
<1>3. PICK ext : ext = SeqLen(r)
  OBVIOUS
<1>4. PICK new : new = NewTokens(r)
  OBVIOUS
<1>5. /\ k + 1 \in 1..Len(waiting_queue) /\ r \in Req /\ kv[r] = 0 /\ r # chunked_req /\ AdderContext
      /\ kv \in [Req -> Int] /\ avail \in Nat
  BY <1>1 DEF BudgetContext, AdderContext
<1>6. ext \in Nat /\ ext >= 1 /\ new \in Nat
  BY <1>3, <1>4, <1>5, SeqLenType
<1>7. /\ a \in AdderType /\ a.rem_chunk \in Int /\ a.len \in [Req -> Int] /\ a.can_run \subseteq Req
      /\ a.rem_total \in Int /\ IsFiniteSet(a.can_run)
  BY DEF AdderOK, AdderType
<1>8. r \notin a.can_run
  <2>1. \A x \in a.can_run : x = chunked_req \/ \E i \in 1..k : waiting_queue[i] = x
    BY DEF AdderOK
  <2>2. \A i \in 1..k : i \in 1..Len(waiting_queue) /\ i # k + 1
    OBVIOUS
  <2>3. \A i, j \in 1..Len(waiting_queue) : waiting_queue[i] = waiting_queue[j] => i = j
    BY DEF BudgetContext
  <2> QED BY <1>1, <1>5, <2>1, <2>2, <2>3
<1>9. Spent(a) \in Int
  <2> DEFINE f == [x \in Req |-> a.len[x] - kv[x]]
  <2>1. f \in [Req -> Int]
    BY <1>5, <1>7
  <2>2. SumOver(f, a.can_run) \in Int
    <3> HIDE DEF f
    <3> QED BY <1>7, <2>1, SumType
  <2> QED BY <2>2 DEF Spent
<1>10. a.rem_total <= avail - Spent(a) /\ Spent(a) <= avail
  BY DEF Affordable
(* r joins with m tokens and the reservation n. *)
<1>11. ASSUME NEW d \in AdderType, NEW m \in Int, NEW n \in Nat,
              m + n <= ext + new, m <= ext, d.can_run = a.can_run \cup {r},
              d.len = [a.len EXCEPT ![r] = m], d.rem_total = a.rem_total - m - n,
              d.chunked \in {r, NoReq}, ext + new < a.rem_total
       PROVE  Affordable(d)
  <2>1. Spent(d) = Spent(a) + m - kv[r] /\ d.len[r] = m
    <3>1. Joined(d, a, r, m)
      BY <1>11 DEF Joined
    <3> QED BY <1>5, <1>7, <1>8, <3>1, SpentJoin
  <2>2. Spent(d) = Spent(a) + m /\ Spent(d) \in Int
    BY <1>5, <1>9, <1>11, <2>1
  <2>3. Spent(d) < avail /\ d.rem_total <= avail - Spent(d)
    BY <1>5, <1>6, <1>7, <1>9, <1>10, <1>11, <2>2
  <2>4. ext - m <= avail - Spent(d)
    BY <1>5, <1>6, <1>7, <1>9, <1>10, <1>11, <2>2
  <2>5. d.chunked # NoReq => SeqLen(d.chunked) - d.len[d.chunked] <= avail - Spent(d)
    BY <1>3, <1>11, <2>1, <2>4
  <2> QED BY <1>5, <2>2, <2>3, <2>5 DEF Affordable
<1>12. CASE \/ Cardinality(a.can_run) >= MaxReqs - Cardinality(Merged)
            \/ ext + new >= a.rem_total
  <2>1. b = [a EXCEPT !.full = TRUE, !.stop = TRUE]
    BY <1>2, <1>3, <1>4, <1>12 DEF AddOne
  <2>2. /\ b.can_run = a.can_run /\ b.chunked = a.chunked /\ b.len = a.len /\ b.rem_total = a.rem_total
    BY <1>7, <2>1, StopFields
  <2> QED BY <1>1, <1>2, <2>2, AffordableSame
<1>13. ASSUME ~ \/ Cardinality(a.can_run) >= MaxReqs - Cardinality(Merged)
                \/ ext + new >= a.rem_total
       PROVE  Affordable(b)
  <2>0. ext + new < a.rem_total
    BY <1>6, <1>7, <1>13
  <2>1. CASE \/ ext > a.rem_input /\ a.can_run # {}
             \/ ext > a.rem_chunk /\ a.rem_chunk <= 0
    <3>1. b = [a EXCEPT !.stop = TRUE]
      BY <1>2, <1>3, <1>4, <1>13, <2>1 DEF AddOne
    <3>2. b.can_run = a.can_run /\ b.chunked = a.chunked /\ b.len = a.len /\ b.rem_total = a.rem_total
      BY <1>7, <3>1 DEF AdderType
    <3> QED BY <3>2, AffordableSame
  <2>2. ASSUME ~ \/ ext > a.rem_input /\ a.can_run # {}
                 \/ ext > a.rem_chunk /\ a.rem_chunk <= 0
        PROVE  Affordable(b)
    <3>1. a.chunked = NoReq
      BY <1>6, <1>7, <2>2 DEF AdderOK
    <3>2. CASE ext <= a.rem_chunk
      <4>1. PICK p : p = PrefillOne(a, r, ext, ext, new)
        OBVIOUS
      <4>2. b = Budget(p)
        BY <1>2, <1>3, <1>4, <1>13, <2>2, <3>2, <4>1 DEF AddOne
      <4>3. ext \in Int /\ new \in Int
        BY <1>6
      <4>4. /\ p \in AdderType /\ p.can_run = a.can_run \cup {r} /\ p.chunked = NoReq
            /\ p.len = [a.len EXCEPT ![r] = ext] /\ p.rem_total = a.rem_total - ext - new
        BY <1>5, <1>7, <3>1, <4>1, <4>3, PrefillOneFields
      <4>5. Affordable(p)
        <5>1. ext + new <= ext + new /\ ext <= ext /\ p.chunked \in {r, NoReq}
          BY <1>6, <4>4
        <5> QED BY <1>6, <1>11, <2>0, <4>3, <4>4, <5>1
      <4> QED BY <4>2, <4>4, <4>5, BudgetFields, AffordableSame
    <3>3. CASE ~(ext <= a.rem_chunk)
      <4>0. PICK m : m = a.rem_chunk
        OBVIOUS
      <4>1. PICK p : p = PrefillOne(a, r, m, m, 0)
        OBVIOUS
      <4>2. PICK q : q = [p EXCEPT !.chunked = r]
        OBVIOUS
      <4>3. b = Budget(q)
        BY <1>2, <1>3, <1>4, <1>13, <2>2, <3>3, <4>0, <4>1, <4>2 DEF AddOne
      <4>4. PICK n : n = 0
        OBVIOUS
      <4>5. m \in Int /\ n \in Nat /\ n \in Int /\ m + n <= ext + new /\ m <= ext
        BY <1>6, <1>7, <3>3, <4>0, <4>4
      <4>6. /\ p \in AdderType /\ p.can_run = a.can_run \cup {r}
            /\ p.len = [a.len EXCEPT ![r] = m] /\ p.rem_total = a.rem_total - m - n
        BY <1>5, <1>7, <4>1, <4>4, <4>5, PrefillOneFields
      <4>7. /\ q \in AdderType /\ q.can_run = p.can_run /\ q.chunked = r /\ q.len = p.len
            /\ q.rem_total = p.rem_total
        BY <1>5, <4>2, <4>6, ChunkedFields
      <4>8. Affordable(q)
        <5>1. q.can_run = a.can_run \cup {r} /\ q.len = [a.len EXCEPT ![r] = m]
              /\ q.rem_total = a.rem_total - m - n /\ q.chunked \in {r, NoReq}
          BY <4>6, <4>7
        <5> QED BY <1>11, <2>0, <4>5, <4>7, <5>1
      <4> QED BY <4>3, <4>7, <4>8, BudgetFields, AffordableSame
    <3> QED BY <3>2, <3>3
  <2> QED BY <2>1, <2>2
<1> QED BY <1>1, <1>2, <1>12, <1>13

(* The prefill batch of an iteration fits the pool. *)
LEMMA AdderAffordable ==
  ASSUME BudgetContext, NEW reserve \in Nat
  PROVE  Affordable(Adder(reserve))
<1> DEFINE n == Len(waiting_queue)
           u == CHOOSE f : IsAdding(f, reserve, n)
<1>0. AdderContext /\ reserve \in Int
  BY DEF BudgetContext
<1>1. n \in Nat
  BY <1>0 DEF AdderContext
<1>2. IsAdding(u, reserve, n)
  BY <1>1, AddingExists
<1>3. CASE ~PrefillAllowed
  <2>1. Adder(reserve) = FirstAdder(reserve)
    BY <1>3 DEF Adder, PrefillAllowed, FirstAdder
  <2> QED BY <2>1, FirstAffordable
<1>4. CASE PrefillAllowed
  <2>1. Adder(reserve) = u[n]
    BY <1>4 DEF Adder, IsAdding
  <2> HIDE DEF u, n
  <2> DEFINE T == {k \in Nat : k <= n => AdderOK(u[k], k) /\ Affordable(u[k])}
  <2>2. 0 \in T
    <3>1. u[0] = FirstAdder(reserve)
      BY <1>1, <1>2 DEF IsAdding
    <3>2. AdderOK(FirstAdder(reserve), 0) /\ Affordable(FirstAdder(reserve))
      BY <1>0, FirstAdderOK, FirstAffordable
    <3> QED BY <3>1, <3>2
  <2>3. ASSUME NEW k \in Nat, k \in T PROVE k + 1 \in T
    <3> SUFFICES ASSUME k + 1 <= n PROVE AdderOK(u[k + 1], k + 1) /\ Affordable(u[k + 1])
      OBVIOUS
    <3>1. AdderOK(u[k], k) /\ Affordable(u[k])
      BY <1>1, <2>3
    <3>2. u[k + 1] = IF u[k].stop THEN u[k] ELSE AddOne(u[k], waiting_queue[k + 1])
      <4>1. k + 1 \in 0..n /\ k + 1 # 0 /\ (k + 1) - 1 = k
        BY <1>1
      <4> QED BY <1>2, <4>1 DEF IsAdding
    <3>3. CASE u[k].stop
      <4>1. k + 1 \in Nat /\ k <= k + 1
        OBVIOUS
      <4> QED BY <3>1, <3>2, <3>3, <4>1, AdderOKMonotone
    <3>4. CASE ~u[k].stop
      <4>1. k + 1 <= Len(waiting_queue)
        BY DEF n
      <4>2. PICK v : v = u[k]
        OBVIOUS
      <4>3. AdderOK(v, k) /\ Affordable(v)
        BY <3>1, <4>2
      <4>4. AdderOK(AddOne(v, waiting_queue[k + 1]), k + 1) /\ Affordable(AddOne(v, waiting_queue[k + 1]))
        BY <1>0, <4>1, <4>3, AddOneOK, AddOneAffordable
      <4> QED BY <3>2, <3>4, <4>2, <4>4
    <3> QED BY <3>3, <3>4
  <2> HIDE DEF T
  <2>4. n \in T
    BY <1>1, <2>2, <2>3, SetInduction
  <2>5. n <= n
    BY <1>1
  <2> QED BY <2>1, <2>4, <2>5 DEF T, n
<1> QED BY <1>3, <1>4

(* A batch with a request that has finished, late or rejected, leaves a    *)
(* token: the end of the one and the admission of the other see to it.     *)
Slack == (\E r \in cur_batch.reqs : finished[r]) => avail >= 1

(* A request stays within what it asked for. *)
Bounds == \A r \in Req : in_len[r] <= InputLen[r] /\ (~finished[r] => out_len[r] < MaxNewTokens[r])

(* A request that fails validation is never a running one. *)
Rejected == \A r \in BadReq : r \in ToSet(waiting_queue) \/ r \in running_batch \/ r \in cur_batch.reqs
                              => finished[r]

(* What keeps the pools from running out, without mixed batches. *)
Solvency == ~IsMixedChunk => Lacks /\ Slack /\ Bounds /\ Rejected /\ crashed # "out of memory"

(* A valid request fits the pool with its whole answer, as                 *)
(* handle_generate_request sees to (max_req_len), and where the overlap    *)
(* loop meets an invalid request there is a row for everyone: its row is   *)
(* not counted between the launch and the result.                          *)
Solvent ==
  /\ \A r \in Req \ BadReq : InputLen[r] + MaxNewTokens[r] <= MaxTotalTokens
  /\ EnableOverlap /\ BadReq # {} => Cardinality(Req) <= MaxReqs

(* The deployment never changes. *)
LEMMA SolventStays ==
  ASSUME config' = config
  PROVE  Solvent' = Solvent /\ InputLen' = InputLen
<1>1. SameConfig /\ InputLen' = InputLen
  BY Constants DEF InputLen
<1> QED BY <1>1 DEF SameConfig, Solvent

(* What the adder finds at the start of an iteration. *)
LEMMA BudgetContextHolds ==
  ASSUME IInv, Orderly, Lacks, ~IsMixedChunk, pc = "recv"
  PROVE  BudgetContext
<1>1. /\ AdderContext /\ ToSet(waiting_queue) \subseteq Req
      /\ \A r \in ToSet(waiting_queue) : ~HasRow(r) /\ r # chunked_req
  BY ScheduleContext
<1>2. waiting_queue \in Seq(Req)
  BY <1>1 DEF AdderContext
<1>3. \A i \in 1..Len(waiting_queue) : waiting_queue[i] \in ToSet(waiting_queue)
  BY <1>2 DEF ToSet
<1>4. \A r \in Req : ~HasRow(r) => kv[r] = 0
  BY DEF IInv, Counts, CountsOf
<1>5. \A i, j \in 1..Len(waiting_queue) : waiting_queue[i] = waiting_queue[j] => i = j
  BY DEF IInv, Queue
<1>6. avail \in Nat
  BY DEF IInv, Types, ReqTypes
<1> QED BY <1>1, <1>3, <1>4, <1>5, <1>6 DEF BudgetContext

(* What new_token_ratio can reserve is not negative. *)
LEMMA ReservesAreNaturals ==
  ASSUME IInv, Orderly, pc = "recv"
  PROVE  Reserves \subseteq Nat
<1> DEFINE f == [r \in Req |-> Least(MaxNewTokens[r] - out_len[r], ClipNew)]
<1>1. Reserves \subseteq Int
  BY ReservesAreIntegers
<1>2. PICK n : n = SumOver(f, Merged)
  OBVIOUS
<1>3. Reserves = 0..n
  BY <1>2 DEF Reserves
<1>4. \A x \in 0..n : x \in Int => x \in Nat
  OBVIOUS
<1> QED BY <1>1, <1>3, <1>4

(* An admitted batch finds its rows. *)
LEMMA RowsFit ==
  ASSUME IInv, Orderly, Solvent, pc = "recv", NEW reserve \in Reserves,
         NEW a, a = Adder(reserve), a.can_run # {}
  PROVE  Cardinality(a.can_run) <= SlotsAfterMerge
<1> DEFINE c == chunked_req
<1>1. PICK A : A = a.can_run
  OBVIOUS
<1>2. /\ A \in SUBSET Req /\ \A r \in A : r = c \/ r \in ToSet(waiting_queue)
      /\ Cardinality(A) + Cardinality(Merged) <= MaxReqs
  BY <1>1, CanRun DEF AdderType
<1>3. /\ Merged \in SUBSET Req
      /\ c # NoReq => c \in Req /\ c \notin Merged /\ HasRow(c)
      /\ \A r \in Req : HasRow(r) => r = c \/ r \in Unfinished(Merged) \/ (finished[r] /\ r \in Ext(Prev))
      /\ \A r \in ToSet(waiting_queue) : ~HasRow(r)
      /\ c \in Req \cup {NoReq}
  BY ScheduleContext DEF AdderContext
<1>4. slots + Cardinality(Rows) = MaxReqs /\ slots \in Nat /\ MaxReqs \in Nat
  BY DEF IInv, Memory, Types, ReqTypes, EnvTypes, ConfigType, MaxReqs
<1>5. Rows \in SUBSET Req /\ \A r \in Req : r \in Rows <=> HasRow(r)
  BY DEF Rows
<1>6. /\ Cardinality(A) \in Nat /\ Cardinality(Merged) \in Nat /\ Cardinality(Rows) \in Nat
      /\ IsFiniteSet(A) /\ IsFiniteSet(Merged) /\ IsFiniteSet(Rows)
  BY <1>2, <1>3, <1>5, ReqFinite
<1>7. SlotsAfterMerge = slots + One(c # NoReq)
  BY <1>4 DEF SlotsAfterMerge, One
<1>8. CASE \A r \in Req : HasRow(r) => ~finished[r]
  <2>1. \A r \in Rows : r = c \/ r \in Merged
    BY <1>3, <1>5, <1>8 DEF Unfinished
  <2>2. CASE c = NoReq
    <3>1. Rows \subseteq Merged
      BY <1>5, <2>1, <2>2, SchedulerAssumption
    <3>2. Cardinality(Rows) <= Cardinality(Merged)
      BY <1>6, <3>1, FS_Subset
    <3> QED BY <1>1, <1>2, <1>4, <1>6, <1>7, <2>2, <3>2 DEF One
  <2>3. CASE c # NoReq
    <3>1. PICK M : M = Merged \cup {c}
      OBVIOUS
    <3>2. IsFiniteSet(M) /\ Cardinality(M) = Cardinality(Merged) + 1
      BY <1>3, <1>6, <2>3, <3>1, FS_AddElement
    <3>3. Rows \subseteq M
      BY <2>1, <3>1
    <3>4. Cardinality(Rows) <= Cardinality(M)
      BY <3>2, <3>3, FS_Subset
    <3> QED BY <1>1, <1>2, <1>4, <1>6, <1>7, <2>3, <3>2, <3>4 DEF One
  <2> QED BY <2>2, <2>3
<1>9. CASE \E r \in Req : HasRow(r) /\ finished[r]
  <2>1. PICK r \in Req : HasRow(r) /\ finished[r]
    BY <1>9
  <2>2. r \in BadReq
    <3>1. Bad(r)
      BY <2>1 DEF Bad, HasRow
    <3> QED BY <2>1, <3>1 DEF IInv, Status, StatusOf
  <2>3. EnableOverlap
    <3>1. r # c
      BY <2>1, ScheduleContext, SchedulerAssumption
    <3>2. r \in Ext(Prev)
      BY <1>3, <2>1, <3>1 DEF Unfinished
    <3> QED BY <3>2, NoBatchFields DEF Prev, Ext
  <2>4. Cardinality(Req) <= MaxReqs
    BY <2>2, <2>3 DEF Solvent
  <2>5. PICK X : X = A \ {c}
    OBVIOUS
  <2>6. X \in SUBSET Req /\ X \cap Rows = {}
    BY <1>2, <1>3, <1>5, <2>5
  <2>7. PICK Y : Y = X \cup Rows
    OBVIOUS
  <2>8. IsFiniteSet(X) /\ Cardinality(X) \in Nat /\ Y \in SUBSET Req /\ IsFiniteSet(Req) /\ Cardinality(Req) \in Nat
    BY <1>5, <2>6, <2>7, ReqFinite
  <2>9. Cardinality(Y) = Cardinality(X) + Cardinality(Rows)
    BY <1>6, <2>6, <2>7, <2>8, UnionCardinality
  <2>10. Cardinality(Y) <= Cardinality(Req)
    BY <2>8, FS_Subset
  <2>11. Cardinality(A) <= Cardinality(X) + One(c # NoReq)
    <3>1. CASE c = NoReq
      <4>1. X = A
        BY <1>2, <2>5, <3>1, SchedulerAssumption
      <4> QED BY <1>6, <3>1, <4>1 DEF One
    <3>2. CASE c # NoReq
      <4>1. PICK Z : Z = X \cup {c}
        OBVIOUS
      <4>2. c \notin X /\ A \subseteq Z
        BY <2>5, <4>1
      <4>3. IsFiniteSet(Z) /\ Cardinality(Z) = Cardinality(X) + 1
        BY <2>8, <4>1, <4>2, FS_AddElement
      <4>4. Cardinality(A) <= Cardinality(Z)
        BY <4>2, <4>3, FS_Subset
      <4> QED BY <3>2, <4>3, <4>4 DEF One
    <3> QED BY <3>1, <3>2
  <2> QED BY <1>1, <1>4, <1>6, <1>7, <2>4, <2>8, <2>9, <2>10, <2>11 DEF One
<1> QED BY <1>8, <1>9

(* A step that leaves the accounts alone and does not run out of memory. *)
LEMMA SolvencyFrame ==
  ASSUME Solvency, crashed' # "out of memory",
         UNCHANGED <<config, chunked_req, in_len, out_len, kv, avail, cur_batch, finished,
                     waiting_queue, running_batch>>
  PROVE  Solvency'
<1>1. SameConfig /\ InputLen' = InputLen
  BY Constants, SolventStays
<1> QED BY <1>1 DEF SameConfig, Solvency, Lacks, Slack, Bounds, Rejected, SeqLen

(* The pools have room when the server starts. *)
LEMMA InitSolvent == Init => Solvency
<1> SUFFICES ASSUME Init PROVE Solvency
  OBVIOUS
<1>1. config \in ConfigType
  BY SchedulerAssumption DEF Init
<1>2. /\ InputLen \in [Req -> Nat \ {0}] /\ MaxNewTokens \in [Req -> Nat \ {0}]
  BY <1>1 DEF InputLen, MaxNewTokens, ConfigType
<1>3. chunked_req = NoReq /\ cur_batch.reqs = {} /\ running_batch = {} /\ crashed = "no"
      /\ ToSet(waiting_queue) = {}
  BY NoBatchFields DEF Init, ToSet
<1>4. Lacks /\ Slack /\ Rejected
  BY <1>3 DEF Lacks, Slack, Rejected
<1>5. Bounds
  BY <1>2 DEF Init, Bounds
<1> QED BY <1>3, <1>4, <1>5 DEF Solvency

(* The prefill batch fits, rows and tokens, and leaves what its chunked    *)
(* request still needs.                                                    *)
LEMMA PrefillSolvent ==
  ASSUME IInv, Orderly, Solvent, Solvency, pc = "recv", crashed = "no", NEW reserve \in Reserves,
         NEW a, a = Adder(reserve), SchedulePrefill(a), ~IsMixedChunk
  PROVE  Solvency'
<1>1. PICK A : A = a.can_run
  OBVIOUS
<1>2. PICK need : need = Spent(a)
  OBVIOUS
<1>3. Lacks /\ Slack /\ Bounds /\ Rejected
  BY DEF Solvency
<1>4. Affordable(a)
  BY <1>3, BudgetContextHolds, ReservesAreNaturals, AdderAffordable
<1>5. /\ a \in AdderType /\ a.len \in [Req -> Int] /\ A \in SUBSET Req /\ A # {}
      /\ \A r \in A : r = chunked_req \/ r \in ToSet(waiting_queue)
      /\ a.chunked # NoReq => a.chunked \in A
  BY <1>1, CanRun DEF AdderType, SchedulePrefill
<1>6. Cardinality(A) <= SlotsAfterMerge
  BY <1>1, <1>5, RowsFit
<1>7. Cardinality(A) \in Nat /\ SlotsAfterMerge \in Nat /\ avail \in Nat /\ kv \in [Req -> Int]
  BY <1>5, ReqFinite DEF SlotsAfterMerge, IInv, Types, ReqTypes
<1>8. need \in Int
  <2> DEFINE f == [r \in Req |-> a.len[r] - kv[r]]
  <2>1. f \in [Req -> Int] /\ IsFiniteSet(A)
    BY <1>5, <1>7, ReqFinite
  <2>2. SumOver(f, A) \in Int
    <3> HIDE DEF f
    <3> QED BY <1>5, <2>1, SumType
  <2> QED BY <1>1, <1>2, <2>2 DEF Spent
<1>9. need <= avail /\ need + 0 <= avail
  BY <1>2, <1>4, <1>7, <1>8 DEF Affordable
<1>10. /\ waiting_queue' = Without(waiting_queue, A)
       /\ chunked_req' = a.chunked
       /\ avail' = avail - need
       /\ kv' = [r \in Req |-> IF r \in A THEN a.len[r] ELSE kv[r]]
       /\ running_batch' = Merged
       /\ cur_batch' = [mode |-> "extend", reqs |-> A, chunked |-> a.chunked]
       /\ UNCHANGED <<config, crashed, in_len, out_len, finished>>
  <2>1. ~(Cardinality(A) > SlotsAfterMerge \/ need + Cardinality({}) > avail)
    BY <1>6, <1>7, <1>8, <1>9, FS_EmptySet
  <2>2. need = SumOver([r \in Req |-> a.len[r] - kv[r]], A)
    BY <1>1, <1>2 DEF Spent
  <2>3. A \cup {} = A /\ avail - need - Cardinality({}) = avail - need
    BY <1>7, <1>8, FS_EmptySet
  <2> HIDE DEF Solvency
  <2> QED BY <1>1, <2>1, <2>2, <2>3 DEF SchedulePrefill, RunBatch
<1>11. SameConfig /\ InputLen' = InputLen
  BY <1>10, Constants, SolventStays
<1>12. cur_batch'.reqs = A
  BY <1>10
<1>13. Lacks'
  <2>1. ASSUME a.chunked # NoReq PROVE SeqLen(a.chunked)' - kv'[a.chunked] <= avail'
    <3>1. PICK r : r = a.chunked
      OBVIOUS
    <3>2. r \in A /\ r \in Req
      BY <1>5, <2>1, <3>1
    <3>3. kv'[r] = a.len[r]
      BY <1>10, <3>2
    <3>4. SeqLen(r)' = SeqLen(r)
      BY <1>10 DEF SeqLen
    <3>5. SeqLen(r) - a.len[r] <= avail - need
      BY <1>2, <1>4, <2>1, <3>1 DEF Affordable
    <3> QED BY <1>10, <3>1, <3>3, <3>4, <3>5
  <2> QED BY <1>10, <2>1 DEF Lacks
<1>14. Slack'
  <2>1. ASSUME NEW r \in A, finished[r] PROVE need < avail
    <3>1. r # chunked_req
      BY <1>5, <2>1, ScheduleContext, SchedulerAssumption
    <3> QED BY <1>1, <1>2, <1>4, <3>1 DEF Affordable
  <2> QED BY <1>7, <1>8, <1>10, <1>12, <2>1 DEF Slack
<1>15. Bounds'
  BY <1>3, <1>10, <1>11 DEF Bounds, SameConfig
<1>16. Rejected'
  <2>1. Merged \subseteq running_batch \cup Ext(cur_batch)
    BY ScheduleContext
  <2>2. waiting_queue \in Seq(Req) /\ \A i, j \in 1..Len(waiting_queue) : waiting_queue[i] = waiting_queue[j] => i = j
    BY DEF IInv, Types, LoopTypes, Queue
  <2>3. ToSet(waiting_queue') \subseteq ToSet(waiting_queue)
    BY <1>10, <2>2, WithoutResult
  <2>4. \A r \in BadReq : r \in Req
    BY DEF IInv, Types, EnvTypes, ConfigType, BadReq
  <2>5. \A r \in A : r \in ToSet(waiting_queue) \/ r \in cur_batch.reqs
    BY <1>5, ScheduleContext, SchedulerAssumption
  <2> QED BY <1>3, <1>10, <1>11, <1>12, <2>1, <2>3, <2>4, <2>5 DEF Rejected, SameConfig, Ext
<1> QED BY <1>10, <1>13, <1>14, <1>15, <1>16 DEF Solvency

(* A request that runs alone finds a token. *)
LEMMA OneFits ==
  ASSUME IInv, Orderly, Solvent, Solvency, ~IsMixedChunk, pc = "recv", chunked_req = NoReq,
         NEW r, Unfinished(Merged) = {r}
  PROVE  avail >= 1
<1> SUFFICES ASSUME avail = 0 PROVE FALSE
  BY DEF IInv, Types, ReqTypes
<1>1. Lacks /\ Slack /\ Bounds /\ Rejected
  BY DEF Solvency
<1>2. /\ last_batch = cur_batch /\ Now = NoBatch /\ Prev.reqs \subseteq cur_batch.reqs
      /\ Merged \in SUBSET Req /\ Merged \subseteq running_batch \cup Ext(cur_batch)
      /\ \A x \in Unfinished(Merged) : HasRow(x)
      /\ \A x \in Req : HasRow(x) => x \in Unfinished(Merged) \/ (finished[x] /\ x \in Ext(Prev))
  BY ScheduleContext, SchedulerAssumption
<1>3. r \in Req /\ r \in Merged /\ ~finished[r] /\ HasRow(r)
  BY <1>2 DEF Unfinished
<1>4. \A x \in cur_batch.reqs : ~finished[x]
  BY <1>1 DEF Slack
<1>5. \A x \in Req : HasRow(x) => x = r
  BY <1>2, <1>4 DEF Ext
<1>6. /\ kv \in [Req -> Int] /\ delayed \in [Req -> Int] /\ avail \in Nat /\ MaxTotalTokens \in Nat
      /\ in_len[r] \in Nat /\ out_len[r] \in Nat
      /\ InputLen[r] \in Nat /\ MaxNewTokens[r] \in Nat
  BY <1>3 DEF IInv, Types, EnvTypes, ReqTypes, ConfigType, MaxTotalTokens, InputLen, MaxNewTokens
<1>7. SumOver(kv, Req) = kv[r]
  <2>1. \A x \in Req : kv[x] = IF x \in {r} THEN kv[x] ELSE 0
    BY <1>5 DEF IInv, Counts, CountsOf
  <2>2. Req \in SUBSET Req /\ IsFiniteSet(Req) /\ {r} \in SUBSET Req /\ {r} \in SUBSET Req /\ IsFiniteSet({r})
    BY <1>3, SchedulerAssumption, FS_Singleton
  <2>3. SumOver(kv, Req) = SumOver(kv, {r})
    BY <1>6, <2>1, <2>2, SumPart
  <2>4. SumOver(kv, {r}) = kv[r] + SumOver(kv, {r} \ {r})
    BY <1>6, <2>2, SumRemove
  <2>5. {r} \ {r} = {}
    OBVIOUS
  <2> QED BY <1>3, <1>6, <2>3, <2>4, <2>5, SumEmpty
<1>8. SumOver(delayed, Req) = 0
  <2>1. ASSUME NEW x \in Req, x \in answered PROVE Pending(x) = 0
    <3>1. finished[x]
      BY <2>1 DEF IInv, Status, StatusOf
    <3>2. x \notin Prev.reqs
      BY <1>2, <1>4, <3>1
    <3> QED BY <1>2, <3>2, NoBatchFields DEF Pending, Forwards, One
  <2>2. \A x \in Req : delayed[x] = 0
    BY <2>1 DEF IInv, Counts, CountsOf
  <2> QED BY <1>6, <2>2, SumZero
<1>9. kv[r] = MaxTotalTokens
  <2>1. avail + SumOver(kv, Req) + SumOver(delayed, Req) = MaxTotalTokens
    BY DEF IInv, Memory
  <2>2. kv[r] \in Int
    BY <1>3, <1>6
  <2>3. 0 + kv[r] + 0 = MaxTotalTokens
    BY <1>7, <1>8, <2>1
  <2> QED BY <2>2, <2>3
<1>10. kv[r] = SeqLen(r) - 1 + Pending(r)
  BY <1>3, SchedulerAssumption DEF IInv, Counts, CountsOf
<1>11. Pending(r) \in 0..1
  BY <1>2, NoBatchFields DEF Pending, Forwards, One
<1>12. r \notin BadReq
  BY <1>1, <1>2, <1>3 DEF Rejected, Ext
<1>13. in_len[r] <= InputLen[r] /\ out_len[r] < MaxNewTokens[r]
  BY <1>1, <1>3 DEF Bounds
<1>14. InputLen[r] + MaxNewTokens[r] <= MaxTotalTokens
  BY <1>3, <1>12 DEF Solvent
<1> QED BY <1>6, <1>9, <1>10, <1>11, <1>13, <1>14 DEF SeqLen

(* A batch that decodes finds a token for each request that stays, after   *)
(* retract_decode has given back the others'.                              *)
LEMMA RetractionFits ==
  ASSUME IInv, Orderly, Solvent, Solvency, ~IsMixedChunk, pc = "recv", chunked_req = NoReq,
         NEW B, B = Unfinished(Merged), B # {},
         NEW R \in IF DecodeFits(B) THEN {{}} ELSE Retractions(B)
  PROVE  Regained(R) >= Cardinality(B \ R)
<1>1. Merged \in SUBSET Req /\ \A x \in B : HasRow(x)
  BY ScheduleContext
<1>2. B \in SUBSET Req /\ R \in SUBSET B
  BY <1>1 DEF Unfinished, Retractions
<1>3. R \in SUBSET Req /\ IsFiniteSet(R) /\ IsFiniteSet(B) /\ B \ R \in SUBSET Req
  BY <1>2, ReqFinite
<1>4. Cardinality(B \ R) \in Nat /\ Cardinality(B) \in Nat /\ Cardinality(R) \in Nat
  BY <1>2, <1>3, ReqFinite
<1>5. kv \in [Req -> Int] /\ avail \in Nat /\ RetractSteps \in Nat \ {0}
  BY DEF IInv, Types, EnvTypes, ReqTypes, ConfigType, RetractSteps
<1>6. CASE R = {}
  <2>1. Regained(R) = avail /\ B \ R = B
    BY <1>5, <1>6, SumEmpty DEF Regained
  <2>2. CASE DecodeFits(B)
    BY <1>4, <1>5, <2>1, <2>2 DEF DecodeFits
  <2>3. CASE ~DecodeFits(B)
    <3>1. Cardinality(B) = 1
      BY <1>6, <2>3 DEF Retractions
    <3>2. \E r : B = {r}
      BY <1>3, <3>1, FS_Singleton
    <3>3. avail >= 1
      BY <3>2, OneFits
    <3> QED BY <2>1, <3>1, <3>3
  <2> QED BY <2>2, <2>3
<1>7. CASE R # {}
  <2>1. /\ Regained(R) >= RetractSteps * Cardinality(B \ R) \/ Cardinality(B \ R) = 1
    BY <1>7 DEF Retractions
  <2>2. SumOver(kv, R) \in Nat \ {0}
    <3>1. PICK x : x \in R
      BY <1>7
    <3>2. Roomy
      BY DEF Roomy
    <3>3. \A y \in R : kv[y] \in Nat /\ kv[y] > 0
      BY <1>1, <1>2, <1>3, <3>2, RoomyCounts
    <3>4. SumOver(kv, R) = kv[x] + SumOver(kv, R \ {x})
      BY <1>3, <1>5, <3>1, SumRemove
    <3>5. SumOver(kv, R \ {x}) \in Nat
      <4>1. PICK S : S = R \ {x}
        OBVIOUS
      <4>2. S \in SUBSET Req /\ IsFiniteSet(S) /\ \A y \in S : kv[y] >= 0
        BY <1>3, <3>3, <4>1, ReqFinite
      <4> QED BY <1>5, <4>1, <4>2, SumNat
    <3> QED BY <3>1, <3>3, <3>4, <3>5
  <2>3. Regained(R) = avail + SumOver(kv, R) /\ Regained(R) \in Nat /\ Regained(R) >= 1
    BY <1>5, <2>2 DEF Regained
  <2>4. RetractSteps * Cardinality(B \ R) >= Cardinality(B \ R)
    <3>1. \A n \in Nat, m \in Nat \ {0} : m * n >= n
      <4>1. SUFFICES ASSUME NEW n \in Nat, NEW m \in Nat \ {0} PROVE m * n >= n
        OBVIOUS
      <4>2. PICK k \in Nat : m = k + 1
        <5>1. m - 1 \in Nat /\ m = (m - 1) + 1
          OBVIOUS
        <5> QED BY <5>1
      <4>3. m * n = k * n + n /\ k * n \in Nat
        BY <4>2
      <4> QED BY <4>3
    <3> QED BY <1>4, <1>5, <3>1
  <2>5. RetractSteps * Cardinality(B \ R) \in Nat
    BY <1>4, <1>5
  <2> QED BY <1>4, <2>1, <2>3, <2>4, <2>5
<1> QED BY <1>6, <1>7

(* update_running_batch never raises, and launches only requests that have *)
(* not finished.                                                           *)
LEMMA DecodeSolvent ==
  ASSUME IInv, Orderly, Solvent, Solvency, pc = "recv", crashed = "no", NEW reserve \in Reserves,
         NEW a, a = Adder(reserve), ScheduleDecode(a), ~IsMixedChunk
  PROVE  Solvency'
<1>1. PICK B : B = Unfinished(Merged)
  OBVIOUS
<1>2. a.can_run = {} /\ B # {}
  BY <1>1 DEF ScheduleDecode
<1>3. chunked_req = NoReq
  BY <1>2, CanRun
<1>4. PICK R \in IF DecodeFits(B) THEN {{}} ELSE Retractions(B) :
        LET stay == B \ R
        IN  IF Regained(R) < Cardinality(stay)
            THEN Crash("out of memory")
            ELSE /\ running_batch' = stay
                 /\ \E order \in RetractOrders(R) : waiting_queue' = waiting_queue \o order
                 /\ RunBatch([mode |-> "decode", reqs |-> stay, chunked |-> NoReq])
                 /\ UNCHANGED <<config, crashed, chunked_req, in_len, out_len, finished>>
  BY <1>1 DEF ScheduleDecode
<1>5. Merged \in SUBSET Req /\ Merged \subseteq running_batch \cup Ext(cur_batch)
      /\ ToSet(waiting_queue) \subseteq Req
  BY ScheduleContext
<1>6. B \in SUBSET Req /\ R \in SUBSET B /\ \A r \in B : ~finished[r] /\ r \in Merged
  BY <1>1, <1>4, <1>5 DEF Unfinished, Retractions
<1>7. Regained(R) >= Cardinality(B \ R)
  BY <1>1, <1>2, <1>3, <1>4, RetractionFits
<1>8. Regained(R) \in Int /\ Cardinality(B \ R) \in Nat
  <2>1. kv \in [Req -> Int] /\ avail \in Nat /\ R \in SUBSET Req /\ IsFiniteSet(R) /\ B \ R \in SUBSET Req
    BY <1>6, ReqFinite DEF IInv, Types, ReqTypes
  <2>2. SumOver(kv, R) \in Int
    BY <2>1, SumType
  <2> QED BY <2>1, <2>2, ReqFinite DEF Regained
<1>9. ~(Regained(R) < Cardinality(B \ R))
  BY <1>7, <1>8
<1>10. /\ running_batch' = B \ R
       /\ \E order \in RetractOrders(R) : waiting_queue' = waiting_queue \o order
       /\ cur_batch' = [mode |-> "decode", reqs |-> B \ R, chunked |-> NoReq]
       /\ UNCHANGED <<config, crashed, chunked_req, in_len, out_len, finished>>
  BY <1>4, <1>9 DEF RunBatch
<1>11. SameConfig /\ InputLen' = InputLen
  BY <1>10, Constants, SolventStays
<1>12. Lacks' /\ Slack'
  BY <1>3, <1>6, <1>10 DEF Lacks, Slack
<1>13. Bounds'
  BY <1>10, <1>11 DEF Solvency, Bounds, SameConfig
<1>14. Rejected'
  <2>1. PICK order \in RetractOrders(R) : waiting_queue' = waiting_queue \o order
    BY <1>10
  <2>2. order \in Seq(Req) /\ ToSet(order) \subseteq R /\ waiting_queue \in Seq(Req)
    BY <1>6, <2>1, OrderResult DEF IInv, Types, LoopTypes
  <2>3. \A r \in ToSet(waiting_queue') : r \in ToSet(waiting_queue) \/ r \in ToSet(order)
    <3>1. /\ waiting_queue' \in Seq(Req) /\ Len(waiting_queue') = Len(waiting_queue) + Len(order)
          /\ Len(waiting_queue) \in Nat /\ Len(order) \in Nat
          /\ \A i \in 1..(Len(waiting_queue) + Len(order)) :
               waiting_queue'[i] = IF i <= Len(waiting_queue) THEN waiting_queue[i] ELSE order[i - Len(waiting_queue)]
      BY <2>1, <2>2
    <3>2. \A i \in 1..Len(waiting_queue) : waiting_queue[i] \in ToSet(waiting_queue)
      BY <2>2 DEF ToSet
    <3>3. \A i \in 1..Len(order) : order[i] \in ToSet(order)
      BY <2>2 DEF ToSet
    <3>4. \A i \in 1..(Len(waiting_queue) + Len(order)) :
            i \in 1..Len(waiting_queue) \/ (~(i <= Len(waiting_queue)) /\ i - Len(waiting_queue) \in 1..Len(order))
      BY <3>1
    <3>5. ToSet(waiting_queue') = {waiting_queue'[i] : i \in 1..(Len(waiting_queue) + Len(order))}
      BY <3>1 DEF ToSet
    <3>6. \A i \in 1..Len(waiting_queue) : i <= Len(waiting_queue)
      BY <3>1
    <3> QED BY <3>1, <3>2, <3>3, <3>4, <3>5, <3>6
  <2>4. \A r \in BadReq : r \in ToSet(waiting_queue) \/ r \in Merged => finished[r]
    BY <1>5 DEF Solvency, Rejected, Ext
  <2>5. cur_batch'.reqs = B \ R
    BY <1>10
  <2> QED BY <1>6, <1>10, <1>11, <2>2, <2>3, <2>4, <2>5 DEF Rejected, SameConfig
<1> QED BY <1>10, <1>12, <1>13, <1>14 DEF Solvency

(* An iteration that launches nothing. *)
LEMMA NothingSolvent ==
  ASSUME IInv, Orderly, Solvency, pc = "recv", crashed = "no", NEW reserve \in Reserves,
         NEW a, a = Adder(reserve), ScheduleNothing(a)
  PROVE  Solvency'
<1>1. CASE Crash("memory leak")
  BY <1>1, SolvencyFrame DEF Crash, queueVars, batchVars, memVars, reqVars
<1>2. CASE ~Crash("memory leak")
  <2>1. /\ running_batch' = {} /\ cur_batch' = NoBatch
        /\ UNCHANGED <<config, crashed, chunked_req, in_len, out_len, finished, kv, avail, waiting_queue>>
    BY <1>2 DEF ScheduleNothing, RunBatch, memVars, reqVars
  <2>2. SameConfig /\ InputLen' = InputLen
    BY <2>1, Constants, SolventStays
  <2> QED BY <2>1, <2>2, NoBatchFields
          DEF SameConfig, Solvency, Lacks, Slack, Bounds, Rejected, SeqLen
<1> QED BY <1>1, <1>2

(* The result of a batch gives tokens back and takes none, and one that    *)
(* ends a request gives back at least one.                                 *)
LEMMA ProcessSolvent ==
  ASSUME IInv, Orderly, Solvency, ProcessResult
  PROVE  Solvency'
<1>1. PICK b : b = Taken
  OBVIOUS
<1>2. /\ UNCHANGED <<config, crashed, cur_batch, waiting_queue, running_batch, chunked_req>>
      /\ \E E : Ends(b, E)
  BY <1>1, ResultTaken
<1>3. PICK E : Ends(b, E)
  BY <1>2
<1>4. SameConfig /\ InputLen' = InputLen
  BY <1>2, Constants, SolventStays
<1>5. CASE IsMixedChunk
  BY <1>4, <1>5 DEF Solvency, SameConfig
<1>6. CASE ~IsMixedChunk
  <2>1. Lacks /\ Slack /\ Bounds /\ Rejected /\ crashed # "out of memory"
    BY <1>6 DEF Solvency
  <2>2. pc = "result"
    BY DEF ProcessResult
  <2>3. b.reqs \subseteq Req /\ \A r \in Req : r \in Steps(b) => r # chunked_req
    BY <1>1, <2>2, TakenReqs
  <2>4. E \in SUBSET Req /\ Late(b) \in SUBSET Req /\ E \subseteq Steps(b)
    BY <1>3, <2>3 DEF Ends, Steps, Lives, Late
  <2>5. /\ out_len' = [r \in Req |-> IF r \in Steps(b) THEN out_len[r] + 1 ELSE out_len[r]]
        /\ finished' = [r \in Req |-> finished[r] \/ r \in E]
        /\ avail' = avail + Cardinality(Late(b)) + SumOver([r \in Req |-> SeqLen(r)], E)
        /\ kv' = [r \in Req |-> IF r \in E THEN 0 ELSE kv[r]] /\ in_len' = in_len
        /\ \A r \in Steps(b) : out_len[r] + 1 >= MaxNewTokens[r] => r \in E
    BY <1>3 DEF Ends
  <2>6. /\ in_len \in [Req -> Nat \ {0}] /\ out_len \in [Req -> Nat] /\ kv \in [Req -> Int] /\ avail \in Nat
        /\ finished \in [Req -> BOOLEAN] /\ MaxNewTokens \in [Req -> Nat \ {0}]
    BY DEF IInv, Types, ReqTypes, EnvTypes, ConfigType, MaxNewTokens
  <2>7. PICK f : f = [r \in Req |-> SeqLen(r)]
    OBVIOUS
  <2>8. f \in [Req -> Int] /\ \A r \in Req : f[r] \in Nat /\ f[r] >= 1
    BY <2>6, <2>7 DEF SeqLen
  <2>9. SumOver(f, E) \in Nat /\ (E # {} => SumOver(f, E) >= 1)
    <3>1. IsFiniteSet(E) /\ \A r \in E : f[r] >= 0
      BY <2>4, <2>8, ReqFinite
    <3>2. SumOver(f, E) \in Nat
      BY <2>4, <2>8, <3>1, SumNat
    <3>3. ASSUME NEW x \in E PROVE SumOver(f, E) >= 1
      <4>1. PICK S : S = E \ {x}
        OBVIOUS
      <4>2. S \in SUBSET Req /\ IsFiniteSet(S) /\ \A r \in S : f[r] >= 0
        BY <2>4, <2>8, <4>1, ReqFinite
      <4>3. SumOver(f, S) \in Nat
        BY <2>8, <4>2, SumNat
      <4>4. SumOver(f, E) = f[x] + SumOver(f, S)
        BY <2>4, <2>8, <3>1, <4>1, SumRemove
      <4>5. f[x] \in Nat /\ f[x] >= 1
        BY <2>4, <2>8
      <4> QED BY <4>3, <4>4, <4>5
    <3> QED BY <3>2, <3>3
  <2>10. Cardinality(Late(b)) \in Nat /\ avail' = avail + Cardinality(Late(b)) + SumOver(f, E)
    BY <2>4, <2>5, <2>7, ReqFinite
  <2>11. avail' \in Nat /\ avail' >= avail /\ (E # {} => avail' >= 1)
    BY <2>6, <2>9, <2>10
  <2>12. Lacks'
    <3>1. ASSUME chunked_req # NoReq PROVE SeqLen(chunked_req)' - kv'[chunked_req] <= avail'
      <4>1. PICK r : r = chunked_req
        OBVIOUS
      <4>2. r \in Req
        BY <3>1, <4>1 DEF IInv, Types, LoopTypes, Batches, BatchType
      <4>3. r \notin Steps(b) /\ r \notin E
        BY <2>3, <2>4, <4>1, <4>2
      <4>4. kv'[r] = kv[r] /\ out_len'[r] = out_len[r] /\ in_len'[r] = in_len[r]
        BY <2>5, <4>2, <4>3
      <4>5. SeqLen(r) - kv[r] <= avail /\ SeqLen(r) \in Nat /\ kv[r] \in Int
        <5>1. SeqLen(r) - kv[r] <= avail
          BY <2>1, <3>1, <4>1 DEF Lacks
        <5>2. SeqLen(r) \in Nat /\ kv[r] \in Int
          BY <2>6, <4>2 DEF SeqLen
        <5> QED BY <5>1, <5>2
      <4>6. SeqLen(r)' = SeqLen(r)
        BY <4>4 DEF SeqLen
      <4>7. SeqLen(r)' - kv'[r] <= avail'
        BY <2>6, <2>11, <4>4, <4>5, <4>6
      <4> QED BY <1>2, <4>1, <4>7 DEF SeqLen
    <3> QED BY <1>2, <3>1 DEF Lacks
  <2>13. Slack'
    <3>1. ASSUME NEW r \in cur_batch.reqs, finished'[r] PROVE avail' >= 1
      <4>1. r \in Req
        BY DEF IInv, Types, LoopTypes, BatchType
      <4>2. finished[r] \/ r \in E
        BY <2>5, <3>1, <4>1
      <4>3. CASE finished[r]
        <5>1. avail >= 1
          BY <2>1, <4>3 DEF Slack
        <5> QED BY <2>6, <2>11, <5>1
      <4>4. CASE r \in E
        BY <2>11, <4>4
      <4> QED BY <4>2, <4>3, <4>4
    <3> QED BY <1>2, <3>1 DEF Slack
  <2>14. Bounds'
    <3>1. ASSUME NEW r \in Req
          PROVE  in_len'[r] <= InputLen[r] /\ (~finished'[r] => out_len'[r] < MaxNewTokens[r])
      <4>1. in_len[r] <= InputLen[r] /\ (~finished[r] => out_len[r] < MaxNewTokens[r])
        BY <2>1 DEF Bounds
      <4>2. out_len[r] \in Nat /\ MaxNewTokens[r] \in Nat
        BY <2>6
      <4>3. ASSUME ~finished'[r] PROVE out_len'[r] < MaxNewTokens[r]
        <5>1. ~finished[r] /\ r \notin E
          BY <2>5, <4>3
        <5>2. CASE r \in Steps(b)
          BY <2>5, <4>2, <5>1, <5>2
        <5>3. CASE r \notin Steps(b)
          BY <2>5, <4>1, <5>1, <5>3
        <5> QED BY <5>2, <5>3
      <4> QED BY <2>5, <4>1, <4>3
    <3> QED BY <1>4, <3>1 DEF Bounds, SameConfig
  <2>15. Rejected'
    <3>1. \A r \in BadReq : r \in Req
      BY DEF IInv, Types, EnvTypes, ConfigType, BadReq
    <3>2. \A r \in Req : finished[r] => finished'[r]
      BY <2>5
    <3> QED BY <1>2, <1>4, <2>1, <3>1, <3>2 DEF Rejected, SameConfig
  <2> QED BY <1>2, <2>1, <2>12, <2>13, <2>14, <2>15 DEF Solvency
<1> QED BY <1>5, <1>6

(* handle_generate_request brings a request the scheduler did not have. *)
LEMMA GenerateSolvent ==
  ASSUME IInv, Orderly, Solvency, Receive, Head(inbox).type = "generate", NEW r, r = Head(inbox).req
  PROVE  Solvency'
<1>1. HandleGenerate(r) /\ inbox # << >> /\ config' = config
  BY DEF Receive
<1>2. 1 \in 1..Len(inbox) /\ Head(inbox) = inbox[1]
  BY <1>1, InboxTail DEF IInv, Types
<1>3. r \in Req /\ Absent(r)
  BY <1>2 DEF IInv, Types, EnvTypes, Clients, Generates
<1>4. r \notin cur_batch.reqs /\ r \notin running_batch /\ out_len[r] = 0 /\ r # chunked_req
  <2>1. r \notin cur_batch.reqs /\ r \notin running_batch /\ out_len[r] = 0
    BY <1>3 DEF Absent
  <2>2. BatchOK(cur_batch) /\ chunked_req = cur_batch.chunked
    BY DEF IInv, Batches
  <2> QED BY <1>3, <2>1, <2>2, NoBatchFields, SchedulerAssumption DEF BatchOK
<1>5. /\ waiting_queue' = Append(waiting_queue, r)
      /\ UNCHANGED <<running_batch, chunked_req, out_len, crashed, cur_batch, avail, kv>>
      /\ in_len' = [in_len EXCEPT ![r] = IF r \in BadReq THEN 1 ELSE @]
      /\ finished' = [finished EXCEPT ![r] = r \in BadReq]
  BY <1>1 DEF HandleGenerate, batchVars, memVars
<1>6. /\ in_len \in [Req -> Nat \ {0}] /\ finished \in [Req -> BOOLEAN]
      /\ waiting_queue \in Seq(Req) /\ InputLen \in [Req -> Nat \ {0}] /\ MaxNewTokens \in [Req -> Nat \ {0}]
  BY DEF IInv, Types, ReqTypes, LoopTypes, EnvTypes, ConfigType, InputLen, MaxNewTokens
<1>7. /\ finished'[r] = (r \in BadReq) /\ in_len'[r] = IF r \in BadReq THEN 1 ELSE in_len[r]
      /\ \A x : x # r => in_len'[x] = in_len[x] /\ finished'[x] = finished[x]
  BY <1>3, <1>5, <1>6
<1>8. SameConfig /\ InputLen' = InputLen
  BY <1>1, Constants, SolventStays
<1>9. CASE IsMixedChunk
  BY <1>8, <1>9 DEF Solvency, SameConfig
<1>10. CASE ~IsMixedChunk
  <2>1. Lacks /\ Slack /\ Bounds /\ Rejected /\ crashed # "out of memory"
    BY <1>10 DEF Solvency
  <2>2. Lacks'
    BY <1>4, <1>5, <1>7, <2>1 DEF Lacks, SeqLen
  <2>3. Slack'
    BY <1>4, <1>5, <1>7, <2>1 DEF Slack
  <2>4. Bounds'
    <3>1. ASSUME NEW x \in Req
          PROVE  in_len'[x] <= InputLen[x] /\ (~finished'[x] => out_len[x] < MaxNewTokens[x])
      <4>1. CASE x = r
        <5>1. InputLen[r] \in Nat \ {0} /\ MaxNewTokens[r] \in Nat \ {0}
          BY <1>3, <1>6
        <5>2. in_len[r] <= InputLen[r]
          BY <1>3, <2>1 DEF Bounds
        <5>3. InputLen[r] >= 1 /\ MaxNewTokens[r] > 0
          BY <5>1
        <5>4. in_len'[r] <= InputLen[r]
          BY <1>7, <5>2, <5>3
        <5> QED BY <1>4, <4>1, <5>3, <5>4
      <4>2. CASE x # r
        BY <1>7, <2>1, <4>2 DEF Bounds
      <4> QED BY <4>1, <4>2
    <3> QED BY <1>5, <1>8, <3>1 DEF Bounds, SameConfig
  <2>5. Rejected'
    <3>1. \A x \in ToSet(waiting_queue') : x \in ToSet(waiting_queue) \/ x = r
      <4>1. /\ waiting_queue' \in Seq(Req) /\ Len(waiting_queue') = Len(waiting_queue) + 1
            /\ Len(waiting_queue) \in Nat /\ waiting_queue'[Len(waiting_queue) + 1] = r
            /\ \A i \in 1..Len(waiting_queue) : waiting_queue'[i] = waiting_queue[i]
        BY <1>3, <1>5, <1>6
      <4>2. ToSet(waiting_queue') = {waiting_queue'[i] : i \in 1..(Len(waiting_queue) + 1)}
        BY <4>1 DEF ToSet
      <4>3. \A i \in 1..Len(waiting_queue) : waiting_queue[i] \in ToSet(waiting_queue)
        BY <1>6 DEF ToSet
      <4>4. \A i \in 1..(Len(waiting_queue) + 1) : i \in 1..Len(waiting_queue) \/ i = Len(waiting_queue) + 1
        BY <4>1
      <4> QED BY <4>1, <4>2, <4>3, <4>4
    <3>2. ASSUME NEW x \in BadReq, x # r,
                 x \in ToSet(waiting_queue') \/ x \in running_batch \/ x \in cur_batch.reqs
          PROVE  finished'[x]
      <4>1. finished[x]
        BY <2>1, <3>1, <3>2 DEF Rejected
      <4> QED BY <1>7, <3>2, <4>1
    <3>3. r \in BadReq => finished'[r]
      BY <1>7
    <3> QED BY <1>5, <1>8, <3>2, <3>3 DEF Rejected, SameConfig
  <2> QED BY <1>5, <2>1, <2>2, <2>3, <2>4, <2>5 DEF Solvency
<1> QED BY <1>9, <1>10

(* abort_request only shortens the waiting queue. *)
LEMMA AbortSolvent ==
  ASSUME IInv, Solvency, Receive, Head(inbox).type = "abort"
  PROVE  Solvency'
<1>1. PICK r : HandleAbort(r)
  BY DEF Receive
<1>2. /\ waiting_queue' = Without(waiting_queue, {r})
      /\ UNCHANGED <<running_batch, chunked_req, in_len, out_len, finished, crashed, cur_batch, avail, kv>>
  BY <1>1 DEF HandleAbort, batchVars, memVars
<1>3. SameConfig /\ InputLen' = InputLen
  BY Constants, SolventStays DEF Receive
<1>4. waiting_queue \in Seq(Req) /\ \A i, j \in 1..Len(waiting_queue) : waiting_queue[i] = waiting_queue[j] => i = j
  BY DEF IInv, Types, LoopTypes, Queue
<1>5. ToSet(waiting_queue') \subseteq ToSet(waiting_queue)
  BY <1>2, <1>4, WithoutResult
<1> QED BY <1>2, <1>3, <1>5 DEF SameConfig, Solvency, Lacks, Slack, Bounds, Rejected, SeqLen

(* An update finds nobody, or ends the process by its assertion. *)
LEMMA UpdateSolvent ==
  ASSUME IInv, Orderly, Solvency, Receive, Head(inbox).type = "update"
  PROVE  Solvency'
<1>1. HandleUpdate /\ config' = config
  BY DEF Receive
<1>2. CASE ~FlushAllowed
  <2>1. crashed' = "flush"
    BY <1>1, <1>2 DEF HandleUpdate
  <2> QED BY <1>1, <1>2, <2>1, SolvencyFrame DEF HandleUpdate, queueVars, batchVars, memVars, reqVars
<1>3. CASE FlushAllowed
  <2>1. chunked_req = NoReq
    BY <1>3, UpdateIsAlone
  <2>2. /\ cur_batch' = NoBatch
        /\ UNCHANGED <<chunked_req, in_len, out_len, finished, crashed, waiting_queue, running_batch>>
    BY <1>1, <1>3 DEF HandleUpdate, FlushEffect, queueVars, reqVars
  <2>3. SameConfig /\ InputLen' = InputLen
    BY <1>1, Constants, SolventStays
  <2> QED BY <2>1, <2>2, <2>3, NoBatchFields DEF SameConfig, Solvency, Lacks, Slack, Bounds, Rejected
<1> QED BY <1>2, <1>3

(* Every step keeps room in the pools. *)
LEMMA NextSolvent ==
  ASSUME IInv, Orderly, Solvent, Solvency, [Next]_vars
  PROVE  Solvency'
<1>1. CASE Environment
  <2>1. UNCHANGED schedulerVars
    BY <1>1 DEF Environment, SendGenerate, Disconnect, SendFlush, SendUpdate
  <2>2. crashed' # "out of memory" \/ IsMixedChunk
    BY <2>1 DEF Solvency, schedulerVars
  <2>3. config' = config
    BY <2>1 DEF schedulerVars
  <2> QED BY <2>1, <2>2, <2>3, SolvencyFrame, Constants
          DEF schedulerVars, queueVars, batchVars, memVars, reqVars, Solvency, SameConfig
<1>2. CASE \E r \in Req : ReceiveOutput(r)
  <2>1. UNCHANGED schedulerVars
    BY <1>2 DEF ReceiveOutput
  <2>2. crashed' # "out of memory" \/ IsMixedChunk
    BY <2>1 DEF Solvency, schedulerVars
  <2>3. config' = config
    BY <2>1 DEF schedulerVars
  <2> QED BY <2>1, <2>2, <2>3, SolvencyFrame, Constants
          DEF schedulerVars, queueVars, batchVars, memVars, reqVars, Solvency, SameConfig
<1>3. CASE Receive
  <2>1. inbox # << >> /\ inbox \in Seq(MessageType)
    BY <1>3 DEF Receive, IInv, Types, EnvTypes
  <2>2. 1 \in 1..Len(inbox) /\ Head(inbox) = inbox[1] /\ Head(inbox) \in MessageType
    BY <2>1
  <2>3. Head(inbox).type \in {"generate", "abort", "update"}
    BY <2>2 DEF IInv, Messages, MessageType
  <2> QED BY <1>3, <2>3, GenerateSolvent, AbortSolvent, UpdateSolvent
<1>4. CASE Schedule
  <2>1. pc = "recv" /\ crashed = "no"
    BY <1>4 DEF Schedule
  <2>2. PICK reserve \in Reserves :
          LET a == Adder(reserve) IN SchedulePrefill(a) \/ ScheduleDecode(a) \/ ScheduleNothing(a)
    BY <1>4 DEF Schedule
  <2>3. PICK a : a = Adder(reserve)
    OBVIOUS
  <2>4. SchedulePrefill(a) \/ ScheduleDecode(a) \/ ScheduleNothing(a)
    BY <2>2, <2>3
  <2>5. CASE IsMixedChunk
    <3>1. config' = config
      BY <1>4, ConfigStays DEF Next
    <3> QED BY <2>5, <3>1, Constants DEF Solvency, SameConfig
  <2>6. CASE ~IsMixedChunk
    BY <2>1, <2>3, <2>4, <2>6, PrefillSolvent, DecodeSolvent, NothingSolvent
  <2> QED BY <2>5, <2>6
<1>5. CASE ProcessResult
  BY <1>5, ProcessSolvent
<1>6. CASE UNCHANGED vars
  <2>1. UNCHANGED <<config, chunked_req, in_len, out_len, kv, avail, cur_batch, finished,
                    waiting_queue, running_batch, crashed>>
    BY <1>6 DEF vars, envVars, queueVars, batchVars, memVars, reqVars
  <2> QED BY <2>1, SolvencyFrame, Constants DEF Solvency, SameConfig
<1> QED BY <1>1, <1>2, <1>3, <1>4, <1>5, <1>6 DEF Next

(* In every orderly and solvent deployment without mixed batches no        *)
(* allocation of the scheduler raises: every batch it launches finds its   *)
(* rows and its tokens, a chunked request the rest of its prompt, and a    *)
(* request that runs alone its next token; and check_memory finds no leak  *)
(* in any.                                                                 *)
THEOREM SchedulerNoCrash == Spec /\ Orderly /\ Solvent => []NoCrash
<1>1. Init /\ Orderly /\ Solvent => IInv /\ Orderly /\ Solvent /\ Solvency
  BY InitInv, InitSolvent
<1>2. (IInv /\ Orderly /\ Solvent /\ Solvency) /\ [Next]_vars
        => (IInv /\ Orderly /\ Solvent /\ Solvency)'
  BY NextInv, NextSolvent, ConfigStays, SolventStays
<1>3. IInv /\ Solvency => NoCrash
  BY DEF IInv, Memory, Solvency, NoCrash
<1> QED BY <1>1, <1>2, <1>3, PTL DEF Spec
=============================================================================
