------------------------- MODULE ShmBroadcastProofs -------------------------
(***************************************************************************)
(* The message queue over shared memory for any number of readers, blocks  *)
(* and messages: a block in use is stable, the local publish socket stays  *)
(* below its mark, and every step is a step of BroadcastQueue or hidden.   *)
(***************************************************************************)
EXTENDS ShmBroadcast, SequenceTheorems, TLAPS

---------------------------------------------------------------------------
(* The block of a message                                                  *)

LEMMA DivMod ==
  ASSUME NEW K \in Nat \ {0}, NEW n \in Nat
  PROVE  n % K \in 0..(K - 1) /\ n \div K \in Nat /\ n = (K * (n \div K)) + (n % K)
OBVIOUS

(* Quotient and remainder are unique. *)
LEMMA DivUnique ==
  ASSUME NEW K \in Nat \ {0}, NEW a \in 0..(K - 1), NEW b \in 0..(K - 1),
         NEW p \in Int, NEW q \in Int, (K * p) + a = (K * q) + b
  PROVE  a = b /\ p = q
<1>1. K * (p - q) = b - a
  OBVIOUS
<1>2. ~(p - q >= 1)
  <2>1. SUFFICES ASSUME p - q >= 1 PROVE FALSE
    OBVIOUS
  <2>2. K * (p - q) >= K * 1
    BY <2>1
  <2>3. QED
    BY <2>2, <1>1
<1>3. ~(q - p >= 1)
  <2>1. SUFFICES ASSUME q - p >= 1 PROVE FALSE
    OBVIOUS
  <2>2. K * (q - p) >= K * 1
    BY <2>1
  <2>3. QED
    BY <2>2, <1>1
<1>4. p = q
  BY <1>2, <1>3
<1>5. QED
  BY <1>1, <1>4

LEMMA Remainder ==
  ASSUME NEW K \in Nat \ {0}, NEW z \in Nat, NEW c \in 0..(K - 1), NEW p \in Int
  PROVE  z = (K * p) + c => z % K = c
<1> DEFINE q == z \div K
           d == z % K
<1>1. d \in 0..(K - 1) /\ q \in Int /\ z = (K * q) + d
  BY DivMod
<1> HIDE DEF q, d
<1>2. SUFFICES ASSUME z = (K * p) + c PROVE d = c
  BY DEF d
<1>3. (K * q) + d = (K * p) + c
  BY <1>1, <1>2
<1>4. QED
  BY <1>1, <1>3, DivUnique

(* Numbers closer than K to each other differ in their remainders. *)
LEMMA RemainderInjective ==
  ASSUME NEW K \in Nat \ {0}, NEW a \in Nat, NEW b \in Nat,
         a <= b, b < a + K, a % K = b % K
  PROVE  a = b
<1> DEFINE p == a \div K
           q == b \div K
           d == b - a
<1>1. a % K \in 0..(K - 1) /\ p \in Nat /\ a = (K * p) + (a % K)
  BY DivMod
<1>2. b % K \in 0..(K - 1) /\ q \in Nat /\ b = (K * q) + (b % K)
  BY DivMod
<1>3. d \in 0..(K - 1) /\ (K * q) + 0 = (K * p) + d
  BY <1>1, <1>2
<1>4. 0 \in 0..(K - 1)
  OBVIOUS
<1> HIDE DEF p, q, d
<1>5. d = 0
  BY <1>1, <1>2, <1>3, <1>4, DivUnique
<1>6. QED
  BY <1>5 DEF d

LEMMA RemainderWraps ==
  ASSUME NEW K \in Nat \ {0}, NEW n \in Nat, NEW z \in Nat, z = n + K
  PROVE  z % K = n % K
<1> DEFINE p == n \div K
           c == n % K
<1>1. c \in 0..(K - 1) /\ p \in Int /\ n = (K * p) + c
  BY DivMod
<1> HIDE DEF p, c
<1>2. z = (K * (p + 1)) + c /\ p + 1 \in Int
  BY <1>1
<1>3. z % K = c
  BY <1>1, <1>2, Remainder
<1>4. QED
  BY <1>3 DEF c

LEMMA RemainderNext ==
  ASSUME NEW K \in Nat \ {0}, NEW n \in Nat, NEW m \in Nat, m = (n % K) + 1
  PROVE  (n + 1) % K = m % K
<1> DEFINE p == n \div K
           c == n % K
           z == n + 1
           s == m \div K
           e == m % K
<1>1. c \in 0..(K - 1) /\ p \in Int /\ n = (K * p) + c
  BY DivMod
<1>2. e \in 0..(K - 1) /\ s \in Int /\ m = (K * s) + e
  BY DivMod
<1> HIDE DEF s, e, p, c
<1>3. z = (K * (p + s)) + e /\ p + s \in Int /\ z \in Nat
  BY <1>1, <1>2 DEF c
<1> HIDE DEF z
<1>4. z % K = e
  BY <1>2, <1>3, Remainder
<1>5. QED
  BY <1>4 DEF z, e

(* the block that message m goes to *)
BlockOf(m) == (m - 1) % MaxChunks

LEMMA BlockOfProperties ==
  ASSUME NEW m \in Nat \ {0}
  PROVE  /\ BlockOf(m) \in Block
         /\ BlockOf(m + MaxChunks) = BlockOf(m)
         /\ (BlockOf(m) + 1) % MaxChunks = BlockOf(m + 1)
         /\ m <= MaxChunks => BlockOf(m) = m - 1
         /\ \A n \in Nat : m <= n /\ n < m + MaxChunks /\ BlockOf(m) = BlockOf(n) => m = n
<1> DEFINE K == MaxChunks
           a == m - 1
           z == a + K
<1>1. K \in Nat \ {0} /\ a \in Nat /\ z \in Nat /\ z = a + K /\ (m + K) - 1 = z /\ (m + 1) - 1 = a + 1
  BY ShmAssumption
<1> HIDE DEF K, a, z
<1>2. a % K \in 0..(K - 1)
  BY <1>1, DivMod
<1>3. z % K = a % K
  BY <1>1, RemainderWraps
<1>4. (a + 1) % K = ((a % K) + 1) % K
  <2> DEFINE y == (a % K) + 1
  <2>1. y \in Nat /\ y = (a % K) + 1
    BY <1>1, <1>2
  <2> HIDE DEF y
  <2>2. (a + 1) % K = y % K
    BY <1>1, <2>1, RemainderNext
  <2>3. QED
    BY <2>2 DEF y
<1>5. a < K => a % K = a
  BY <1>1
<1>6. ASSUME NEW n \in Nat, m <= n, n < m + K, a % K = (n - 1) % K
      PROVE  m = n
  <2> DEFINE b == n - 1
  <2>1. b \in Nat /\ a <= b /\ b < a + K /\ a % K = b % K
    BY <1>1, <1>6 DEF a
  <2> HIDE DEF b
  <2>2. a = b
    BY <1>1, <2>1, RemainderInjective
  <2>3. QED
    BY <2>2 DEF a, b
<1>7. BlockOf(m) = a % K /\ BlockOf(m + K) = z % K /\ BlockOf(m + 1) = (a + 1) % K
  BY <1>1 DEF BlockOf, a, K
<1>8. \A n \in Nat : BlockOf(n) = (n - 1) % K
  BY DEF BlockOf, K
<1>9. a = m - 1 /\ (m <= K => a < K)
  BY <1>1 DEF a
<1>10. QED
  BY <1>2, <1>3, <1>4, <1>5, <1>6, <1>7, <1>8, <1>9 DEF K, Block

---------------------------------------------------------------------------
(* The queue of a subscriber                                               *)

(* the m-th message of the log; READY comes before the first one *)
At(lg, m) == IF m = 0 THEN Ready ELSE lg[m]

(* what is sent to a remote reader, to a local one *)
Carries(remote, lg, m) == remote \/ At(lg, m).overflow

(* s holds, in order and without gaps, what is sent of the messages after  *)
(* lo, up to hi                                                            *)
QueueOK(s, lg, lo, hi, remote) ==
  /\ lo <= hi
  /\ \A i \in 1..Len(s) : /\ s[i].id \in (lo + 1)..hi
                          /\ s[i] = At(lg, s[i].id)
                          /\ Carries(remote, lg, s[i].id)
  /\ \A i, j \in 1..Len(s) : i <= j => s[j].id >= s[i].id + (j - i)
  /\ \A m \in (lo + 1)..hi : Carries(remote, lg, m) => \E i \in 1..Len(s) : s[i] = At(lg, m)

LogOK(lg) ==
  /\ lg \in Seq(Message) /\ Len(lg) <= MaxMessages
  /\ \A i \in 1..Len(lg) : lg[i].id = i

Packet == Message \cup {Ready}

LEMMA AtProperties ==
  ASSUME NEW lg, LogOK(lg), NEW m \in 0..Len(lg)
  PROVE  At(lg, m) \in Packet /\ At(lg, m).id = m /\ At(lg, 0) = Ready /\ Ready.id = 0
<1>1. Ready.id = 0 /\ Ready \in Packet
  BY DEF Ready, Packet
<1>2. CASE m = 0
  BY <1>1, <1>2 DEF At
<1>3. CASE m # 0
  <2>1. Len(lg) \in Nat /\ m \in 1..Len(lg) /\ lg \in Seq(Message)
    BY <1>3 DEF LogOK
  <2>2. lg[m] \in Message /\ lg[m].id = m
    BY <2>1, ElementOfSeq DEF LogOK
  <2>3. QED
    BY <1>1, <1>3, <2>2 DEF At, Packet
<1>4. QED
  BY <1>2, <1>3

(* A queue is no longer than the messages it may hold. *)
LEMMA QueueLength ==
  ASSUME NEW s \in Seq(Packet), NEW lg, NEW lo \in Int, NEW hi \in Int, NEW remote,
         QueueOK(s, lg, lo, hi, remote)
  PROVE  Len(s) <= hi - lo
<1>1. Len(s) \in Nat
  OBVIOUS
<1>2. CASE Len(s) = 0
  BY <1>2 DEF QueueOK
<1>3. CASE Len(s) > 0
  <2>1. 1 \in 1..Len(s) /\ Len(s) \in 1..Len(s)
    BY <1>1, <1>3
  <2>2. s[1].id \in (lo + 1)..hi /\ s[Len(s)].id \in (lo + 1)..hi
    BY <2>1 DEF QueueOK
  <2>3. s[Len(s)].id >= s[1].id + (Len(s) - 1)
    BY <2>1 DEF QueueOK
  <2>4. QED
    BY <1>1, <2>2, <2>3
<1>4. QED
  BY <1>1, <1>2, <1>3

(* The next message is sent. *)
LEMMA QueueAppend ==
  ASSUME NEW s \in Seq(Packet), NEW lg, LogOK(lg), NEW lo \in Int, NEW hi \in Int, NEW remote,
         QueueOK(s, lg, lo, hi, remote), hi + 1 \in 0..Len(lg), Carries(remote, lg, hi + 1),
         NEW x, x = At(lg, hi + 1)
  PROVE  Append(s, x) \in Seq(Packet) /\ QueueOK(Append(s, x), lg, lo, hi + 1, remote)
<1> DEFINE t == Append(s, x)
           n == Len(s)
<1>1. x \in Packet /\ x.id = hi + 1
  BY AtProperties
<1>2. /\ n \in Nat /\ t \in Seq(Packet) /\ Len(t) = n + 1
      /\ (\A i \in 1..n : t[i] = s[i]) /\ t[n + 1] = x
  BY <1>1, AppendProperties
<1> HIDE DEF t, n
<1>3. n = Len(s) /\ n <= hi - lo /\ lo <= hi
  BY QueueLength DEF QueueOK, n
<1>4. \A i \in 1..n : /\ s[i].id \in (lo + 1)..hi
                      /\ s[i] = At(lg, s[i].id) /\ Carries(remote, lg, s[i].id)
  BY <1>3 DEF QueueOK
<1>5. \A i, j \in 1..n : i <= j => s[j].id >= s[i].id + (j - i)
  BY <1>3 DEF QueueOK
<1>6. ASSUME NEW i \in 1..(n + 1)
      PROVE  /\ t[i].id \in (lo + 1)..(hi + 1)
             /\ t[i] = At(lg, t[i].id) /\ Carries(remote, lg, t[i].id)
  <2>1. CASE i = n + 1
    BY <1>1, <1>2, <1>3, <2>1
  <2>2. CASE i \in 1..n
    BY <1>2, <1>4, <2>2
  <2>3. QED
    BY <1>2, <2>1, <2>2
<1>7. ASSUME NEW i \in 1..(n + 1), NEW j \in 1..(n + 1), i <= j
      PROVE  t[j].id >= t[i].id + (j - i)
  <2>1. CASE j \in 1..n
    <3>1. i \in 1..n
      BY <1>2, <1>7, <2>1
    <3>2. t[i] = s[i] /\ t[j] = s[j]
      BY <1>2, <2>1, <3>1
    <3>3. QED
      BY <1>5, <1>7, <2>1, <3>1, <3>2
  <2>2. CASE j = n + 1 /\ i = n + 1
    BY <1>1, <1>2, <2>2
  <2>3. CASE j = n + 1 /\ i \in 1..n
    <3>1. n \in 1..n /\ i <= n
      BY <1>2, <2>3
    <3>2. s[n].id >= s[i].id + (n - i) /\ s[n].id \in (lo + 1)..hi /\ s[i].id \in (lo + 1)..hi
      BY <1>4, <1>5, <2>3, <3>1
    <3>3. t[j].id = hi + 1 /\ t[i].id = s[i].id
      BY <1>1, <1>2, <2>3
    <3>4. QED
      BY <1>2, <2>3, <3>2, <3>3
  <2>4. QED
    BY <1>2, <2>1, <2>2, <2>3
<1>8. ASSUME NEW m \in (lo + 1)..(hi + 1), Carries(remote, lg, m)
      PROVE  \E i \in 1..(n + 1) : t[i] = At(lg, m)
  <2>1. CASE m = hi + 1
    BY <1>2, <2>1
  <2>2. CASE m \in (lo + 1)..hi
    <3>1. PICK i \in 1..Len(s) : s[i] = At(lg, m)
      BY <1>8, <2>2 DEF QueueOK
    <3>2. i \in 1..n /\ i \in 1..(n + 1)
      BY <1>2, <1>3, <3>1
    <3>3. QED
      BY <1>2, <3>1, <3>2
  <2>3. QED
    BY <2>1, <2>2
<1>9. lo <= hi + 1
  BY <1>3
<1>10. QED
  BY <1>2, <1>6, <1>7, <1>8, <1>9 DEF QueueOK, t

(* The next message is not for this reader. *)
LEMMA QueueSkip ==
  ASSUME NEW s \in Seq(Packet), NEW lg, NEW lo \in Int, NEW hi \in Int, NEW remote,
         QueueOK(s, lg, lo, hi, remote), ~Carries(remote, lg, hi + 1)
  PROVE  QueueOK(s, lg, lo, hi + 1, remote)
<1>1. lo <= hi + 1 /\ \A i \in (lo + 1)..hi : i \in (lo + 1)..(hi + 1)
  BY DEF QueueOK
<1>2. \A m \in (lo + 1)..(hi + 1) : Carries(remote, lg, m) => m \in (lo + 1)..hi
  OBVIOUS
<1>3. QED
  BY <1>1, <1>2 DEF QueueOK

(* The reader takes the head, which is the message it is due. *)
LEMMA QueuePop ==
  ASSUME NEW s \in Seq(Packet), NEW lg, LogOK(lg), NEW lo \in Int, NEW hi \in Int, NEW remote,
         QueueOK(s, lg, lo, hi, remote), s # << >>, lo >= -1, hi <= Len(lg),
         Carries(remote, lg, lo + 1)
  PROVE  /\ lo + 1 <= hi /\ Head(s) = At(lg, lo + 1)
         /\ Tail(s) \in Seq(Packet) /\ QueueOK(Tail(s), lg, lo + 1, hi, remote)
<1> DEFINE t == Tail(s)
           n == Len(s)
<1>1. /\ n \in Nat \ {0} /\ Head(s) = s[1] /\ t \in Seq(Packet) /\ Len(t) = n - 1
      /\ \A i \in 1..(n - 1) : t[i] = s[i + 1]
  BY HeadTailProperties, EmptySeq
<1> HIDE DEF t
<1>2. \A i \in 1..n : /\ s[i].id \in (lo + 1)..hi
                      /\ s[i] = At(lg, s[i].id) /\ Carries(remote, lg, s[i].id)
  BY DEF QueueOK
<1>3. \A i, j \in 1..n : i <= j => s[j].id >= s[i].id + (j - i)
  BY DEF QueueOK
<1>4. \A m \in (lo + 1)..hi : Carries(remote, lg, m) => \E i \in 1..n : s[i] = At(lg, m)
  BY DEF QueueOK
<1> HIDE DEF n
<1>5. s[1].id \in (lo + 1)..hi /\ lo + 1 <= hi /\ lo + 1 \in (lo + 1)..hi
  BY <1>1, <1>2
<1>6. PICK k \in 1..n : s[k] = At(lg, lo + 1)
  BY <1>4, <1>5
<1>7. s[k].id = lo + 1
  <2>1. lo + 1 \in 0..Len(lg)
    BY <1>5 DEF LogOK
  <2>2. QED
    BY <1>6, <2>1, AtProperties
<1>8. s[1].id = lo + 1
  <2>1. 1 \in 1..n /\ 1 <= k /\ k \in Nat
    BY <1>1, <1>6
  <2>2. s[k].id >= s[1].id + (k - 1)
    BY <1>3, <1>6, <2>1
  <2>3. QED
    BY <1>5, <1>7, <2>1, <2>2
<1>9. Head(s) = At(lg, lo + 1)
  BY <1>1, <1>2, <1>8
<1>10. ASSUME NEW i \in 1..(n - 1)
       PROVE  /\ t[i].id \in ((lo + 1) + 1)..hi
              /\ t[i] = At(lg, t[i].id) /\ Carries(remote, lg, t[i].id)
  <2>1. i + 1 \in 1..n /\ 1 \in 1..n /\ t[i] = s[i + 1]
    BY <1>1
  <2>2. s[i + 1].id >= s[1].id + ((i + 1) - 1) /\ s[i + 1].id \in (lo + 1)..hi
    BY <1>2, <1>3, <2>1
  <2>3. QED
    BY <1>2, <1>8, <2>1, <2>2
<1>11. ASSUME NEW i \in 1..(n - 1), NEW j \in 1..(n - 1), i <= j
       PROVE  t[j].id >= t[i].id + (j - i)
  <2>1. i + 1 \in 1..n /\ j + 1 \in 1..n /\ i + 1 <= j + 1 /\ t[i] = s[i + 1] /\ t[j] = s[j + 1]
    BY <1>1, <1>11
  <2>2. s[j + 1].id >= s[i + 1].id + ((j + 1) - (i + 1))
    BY <1>3, <2>1
  <2>3. (j + 1) - (i + 1) = j - i
    OBVIOUS
  <2>4. QED
    BY <2>1, <2>2, <2>3
<1>12. ASSUME NEW m \in ((lo + 1) + 1)..hi, Carries(remote, lg, m)
       PROVE  \E i \in 1..(n - 1) : t[i] = At(lg, m)
  <2>1. m \in (lo + 1)..hi
    OBVIOUS
  <2>2. PICK i \in 1..n : s[i] = At(lg, m)
    BY <1>4, <1>12, <2>1
  <2>3. s[i].id = m
    <3>1. m \in 0..Len(lg)
      BY DEF LogOK
    <3>2. QED
      BY <2>2, <3>1, AtProperties
  <2>4. i # 1
    BY <1>8, <2>3
  <2>5. i - 1 \in 1..(n - 1) /\ (i - 1) + 1 = i
    BY <1>1, <2>4
  <2>6. t[i - 1] = s[i]
    BY <1>1, <2>5
  <2>7. QED
    BY <2>2, <2>5, <2>6
<1>13. QED
  BY <1>1, <1>5, <1>9, <1>10, <1>11, <1>12 DEF QueueOK, t

(* The reader is past a message that is not for it. *)
LEMMA QueuePass ==
  ASSUME NEW s \in Seq(Packet), NEW lg, NEW lo \in Int, NEW hi \in Int, NEW remote,
         QueueOK(s, lg, lo, hi, remote), ~Carries(remote, lg, lo + 1), lo + 1 <= hi
  PROVE  QueueOK(s, lg, lo + 1, hi, remote)
<1>1. \A i \in 1..Len(s) : s[i].id \in ((lo + 1) + 1)..hi
  BY DEF QueueOK
<1>2. \A m \in ((lo + 1) + 1)..hi : m \in (lo + 1)..hi
  OBVIOUS
<1>3. QED
  BY <1>1, <1>2 DEF QueueOK

(* The log grows. *)
LEMMA QueueLog ==
  ASSUME NEW s \in Seq(Packet), NEW lg, NEW lg2, NEW lo \in Int, NEW hi \in Int, NEW remote,
         QueueOK(s, lg, lo, hi, remote), lo >= -1, \A m \in 1..hi : lg2[m] = lg[m]
  PROVE  QueueOK(s, lg2, lo, hi, remote)
<1>1. \A m \in (lo + 1)..hi : At(lg2, m) = At(lg, m)
  BY DEF At
<1>2. \A m \in (lo + 1)..hi : Carries(remote, lg2, m) = Carries(remote, lg, m)
  BY <1>1 DEF Carries
<1>3. QED
  BY <1>1, <1>2 DEF QueueOK

---------------------------------------------------------------------------
(* The inductive invariant                                                 *)

(* messages that are in the ring, the one being written not counted *)
InRing == IF wpc \in {"acquire", "fill", "flags"} THEN Len(log) - 1 ELSE Len(log)

Writing == wpc \in {"fill", "flags"}

(* messages that have been given a block *)
Claimed == IF Writing THEN InRing + 1 ELSE InRing

(* Message m has not been overwritten. *)
Live(m) == m \in 1..InRing /\ m + MaxChunks > Claimed

(* the last message that the writer has sent, or skipped, on the socket of *)
(* reader r: -1 before READY                                               *)
Published(r) ==
  IF wpc = "wait_local" \/ (wpc = "wait_remote" /\ r \in RemoteReader) THEN -1
  ELSE IF wpc \in {"acquire", "fill", "flags", "publish"} \/ (wpc = "remote" /\ r \in RemoteReader)
  THEN Len(log) - 1 ELSE Len(log)

(* the last message that reader r has passed on its socket *)
Passed(r) == IF rpc[r] \in {"connect", "ready"} THEN -1 ELSE Len(received[r])

(* Where the writer is. *)
WriterInv ==
  /\ LogOK(log)
  /\ wpc \in {"wait_local", "wait_remote"} => log = << >>
  /\ wpc \in {"acquire", "fill", "flags", "publish", "remote"} => log # << >>
  /\ wpc = "publish" => Current.overflow

(* What the flags say: a block that was never used is clear, the block of  *)
(* a message that has not been overwritten is written, holds the message   *)
(* and carries the flags of those who have read it, and the block being    *)
(* written is not written and loses its flags one by one.                  *)
RingInv ==
  /\ w_idx = BlockOf(InRing + 1)
  /\ \A b \in Block : b >= InRing => ~written[b] /\ read_by[b] = {}
  /\ \A m \in Nat : Live(m) => /\ written[BlockOf(m)] /\ data[BlockOf(m)] = log[m]
                               /\ \A r \in LocalReader : r \in read_by[BlockOf(m)] <=> Taken(r) >= m
  /\ Writing => ~written[w_idx]
  /\ wpc = "flags" => /\ data[w_idx] = Current
                      /\ \A r \in LocalReader : r < w_flag => r \notin read_by[w_idx]

(* A local reader is behind the writer by at most the ring, and goes into  *)
(* a block only for a message it has not taken.                            *)
ReaderInv(r) ==
  /\ Taken(r) <= InRing /\ Claimed <= Taken(r) + MaxChunks
  /\ r_idx[r] = BlockOf(Taken(r) + 1)
  /\ rpc[r] = "test" /\ ~r_flag[r] => r \notin read_by[r_idx[r]]
  /\ rpc[r] \in {"read", "mark"} => Taken(r) < InRing
  /\ rpc[r] = "mark" => r_obj[r] = log[Taken(r) + 1]
  /\ rpc[r] = "recv" => log[Taken(r)].overflow

(* What a reader got is the beginning of the log, and its queue holds what *)
(* comes next.                                                             *)
StreamInv(r) ==
  /\ Len(received[r]) <= Len(log) /\ \A i \in 1..Len(received[r]) : received[r][i] = log[i]
  /\ QueueOK(socket[r], log, Passed(r), Published(r), r \in RemoteReader)
  /\ rpc[r] \in {"connect", "ready"} => received[r] = << >>
  /\ r \in subscribed <=> rpc[r] # "connect"
  /\ Published(r) >= 0 => r \in subscribed
  /\ r \in RemoteReader => rpc[r] \in {"connect", "ready", "recv"}

IInv ==
  /\ TypeOK /\ WriterInv /\ RingInv
  /\ \A r \in LocalReader : ReaderInv(r)
  /\ \A r \in Reader : StreamInv(r)

LEMMA TakenCases ==
  ASSUME NEW r, Len(received[r]) \in Nat
  PROVE  /\ rpc[r] = "recv" => Taken(r) = Len(received[r]) + 1
         /\ rpc[r] # "recv" => Taken(r) = Len(received[r])
<1>1. CASE rpc[r] = "recv"
  BY <1>1 DEF Taken
<1>2. CASE rpc[r] # "recv"
  BY <1>2 DEF Taken
<1>3. QED
  BY <1>1, <1>2

LEMMA InvFacts ==
  ASSUME IInv
  PROVE  /\ MaxChunks \in Nat \ {0} /\ Len(log) \in Nat /\ InRing \in Nat /\ Claimed \in Nat
         /\ InRing <= Len(log) /\ InRing <= Claimed /\ Claimed <= InRing + 1 /\ Claimed <= Len(log)
         /\ \A r \in Reader : /\ Len(received[r]) \in Nat /\ Taken(r) \in Nat
                              /\ Passed(r) \in Int /\ Passed(r) >= -1 /\ Passed(r) <= Len(received[r])
                              /\ Published(r) \in Int /\ Published(r) <= Len(log)
                              /\ socket[r] \in Seq(Packet) /\ received[r] \in Seq(Message)
         /\ log \in Seq(Message) /\ LogOK(log) /\ (log # << >> => Len(log) > 0)
<1>1. MaxChunks \in Nat \ {0} /\ log \in Seq(Message) /\ LogOK(log) /\ Len(log) \in Nat
  BY ShmAssumption DEF IInv, TypeOK, WriterInv
<1>2. log # << >> => Len(log) > 0
  BY <1>1, EmptySeq
<1>3. wpc \in {"acquire", "fill", "flags"} => Len(log) > 0
  BY <1>2 DEF IInv, WriterInv
<1>4. /\ InRing \in Nat /\ Claimed \in Nat
      /\ InRing <= Len(log) /\ InRing <= Claimed /\ Claimed <= InRing + 1 /\ Claimed <= Len(log)
  BY <1>1, <1>3 DEF InRing, Claimed, Writing
<1>5. ASSUME NEW r \in Reader
      PROVE  /\ Len(received[r]) \in Nat /\ Taken(r) \in Nat
             /\ Passed(r) \in Int /\ Passed(r) >= -1 /\ Passed(r) <= Len(received[r])
             /\ Published(r) \in Int /\ Published(r) <= Len(log)
             /\ socket[r] \in Seq(Packet) /\ received[r] \in Seq(Message)
  <2>1. received[r] \in Seq(Message) /\ socket[r] \in Seq(Packet)
    BY DEF IInv, TypeOK, Packet
  <2>2. Len(received[r]) \in Nat
    BY <2>1
  <2>3. Taken(r) \in Nat
    BY <2>2, TakenCases
  <2>4. Passed(r) \in Int /\ Passed(r) >= -1 /\ Passed(r) <= Len(received[r])
    BY <2>2 DEF Passed
  <2>5. Published(r) \in {-1, Len(log) - 1, Len(log)}
    BY DEF Published
  <2>6. QED
    BY <1>1, <2>1, <2>2, <2>3, <2>4, <2>5
<1>6. QED
  BY <1>1, <1>2, <1>4, <1>5

(* The local socket is not ahead of the ring. *)
LEMMA LocalPublished ==
  ASSUME IInv, NEW r \in LocalReader
  PROVE  /\ r \in Reader /\ r \notin RemoteReader
         /\ Published(r) <= Claimed
         /\ Len(socket[r]) <= MaxChunks + 1
<1>1. r \in Reader /\ r \notin RemoteReader
  BY ShmAssumption DEF Reader
<1>2. Published(r) <= Claimed
  BY <1>1, InvFacts DEF Published, Claimed, InRing
<1>3. Claimed <= Taken(r) + MaxChunks /\ Taken(r) <= Passed(r) + 1
  <2>1. rpc[r] \in {"connect", "ready"} => received[r] = << >>
    BY <1>1 DEF IInv, StreamInv
  <2>2. Taken(r) <= Passed(r) + 1
    <3>1. CASE rpc[r] \in {"connect", "ready"}
      <4>1. Len(received[r]) = 0
        BY <2>1, <3>1
      <4>2. QED
        BY <3>1, <4>1, TakenCases DEF Passed
    <3>2. CASE rpc[r] \notin {"connect", "ready"}
      <4>1. Len(received[r]) \in Nat
        BY <1>1, InvFacts
      <4>2. QED
        BY <3>2, <4>1, TakenCases DEF Passed
    <3>3. QED
      BY <3>1, <3>2
  <2>3. QED
    BY <2>2 DEF IInv, ReaderInv
<1>4. Len(socket[r]) <= Published(r) - Passed(r)
  BY <1>1, InvFacts, QueueLength DEF IInv, StreamInv
<1>5. Len(socket[r]) \in Nat
  BY <1>1, InvFacts
<1>6. QED
  BY <1>1, <1>2, <1>3, <1>4, <1>5, InvFacts

(* A step that leaves the ring alone. *)
LEMMA RingFrame ==
  ASSUME IInv, UNCHANGED shmVars, w_idx' = w_idx,
         InRing' = InRing, Claimed' = Claimed, Writing' = Writing,
         \A r \in LocalReader : Taken(r)' = Taken(r),
         \A m \in 1..InRing : log'[m] = log[m],
         wpc' = "flags" => wpc = "flags" /\ w_flag' = w_flag /\ log' = log
  PROVE  RingInv'
<1>1. w_idx' = BlockOf(InRing' + 1)
  BY DEF IInv, RingInv
<1>2. ASSUME NEW m \in Nat, Live(m)'
      PROVE  /\ written'[BlockOf(m)] /\ data'[BlockOf(m)] = log'[m]
             /\ \A r \in LocalReader : r \in read_by'[BlockOf(m)] <=> Taken(r)' >= m
  <2>1. Live(m) /\ log'[m] = log[m]
    BY <1>2 DEF Live
  <2>2. QED
    BY <2>1 DEF IInv, RingInv, shmVars
<1>3. QED
  BY <1>1, <1>2 DEF IInv, RingInv, shmVars, Current

(* A step of another process, as a local reader sees it. *)
LEMMA ReaderFrame ==
  ASSUME IInv, NEW r \in LocalReader,
         InRing' \in Int, InRing <= InRing', Claimed' <= Taken(r) + MaxChunks,
         Taken(r)' = Taken(r), r_idx'[r] = r_idx[r], rpc'[r] = rpc[r], r_flag'[r] = r_flag[r],
         r_obj'[r] = r_obj[r],
         r \in read_by'[r_idx[r]] => r \in read_by[r_idx[r]],
         \A m \in 1..InRing : log'[m] = log[m]
  PROVE  ReaderInv(r)'
<1>1. Taken(r) \in Nat /\ InRing \in Nat /\ ReaderInv(r)
  BY LocalPublished, InvFacts DEF IInv
<1>2. Taken(r)' <= InRing' /\ Claimed' <= Taken(r)' + MaxChunks /\ r_idx'[r] = BlockOf(Taken(r)' + 1)
  BY <1>1 DEF ReaderInv
<1>3. rpc'[r] = "test" /\ ~r_flag'[r] => r \notin read_by'[r_idx'[r]]
  BY <1>1 DEF ReaderInv
<1>4. rpc'[r] \in {"read", "mark"} => Taken(r)' < InRing' /\ Taken(r) + 1 \in 1..InRing
  BY <1>1 DEF ReaderInv
<1>5. rpc'[r] = "mark" => r_obj'[r] = log'[Taken(r)' + 1]
  BY <1>1, <1>4 DEF ReaderInv
<1>6. rpc'[r] = "recv" => log'[Taken(r)'].overflow
  <2>1. rpc'[r] = "recv" => Taken(r) \in 1..InRing
    <3>1. Taken(r) <= InRing /\ Len(received[r]) \in Nat
      BY <1>1, LocalPublished, InvFacts DEF ReaderInv
    <3>2. QED
      BY <1>1, <3>1 DEF Taken
  <2>2. QED
    BY <1>1, <2>1 DEF ReaderInv
<1>7. QED
  BY <1>2, <1>3, <1>4, <1>5, <1>6 DEF ReaderInv

(* A step of another process, as the stream of a reader sees it. *)
LEMMA StreamFrame ==
  ASSUME IInv, NEW r \in Reader,
         received'[r] = received[r], socket'[r] = socket[r], rpc'[r] = rpc[r],
         Published(r)' = Published(r), r \in subscribed' <=> r \in subscribed,
         Len(log') \in Nat, Len(log) <= Len(log'), \A m \in 1..Len(log) : log'[m] = log[m]
  PROVE  StreamInv(r)'
<1>1. StreamInv(r) /\ Passed(r)' = Passed(r)
  BY DEF IInv, Passed
<1>2. QueueOK(socket[r], log, Passed(r), Published(r), r \in RemoteReader)
  BY <1>1 DEF StreamInv
<1>3. \A m \in 1..Published(r) : log'[m] = log[m]
  BY InvFacts
<1>4. QueueOK(socket[r], log', Passed(r), Published(r), r \in RemoteReader)
  BY <1>2, <1>3, InvFacts, QueueLog
<1>5. Len(received'[r]) <= Len(log') /\ \A i \in 1..Len(received'[r]) : received'[r][i] = log'[i]
  BY <1>1, InvFacts DEF StreamInv
<1>6. QED
  BY <1>1, <1>4, <1>5 DEF StreamInv

---------------------------------------------------------------------------
(* The steps of the writer outside the ring                                *)

(* A step of the writer that leaves the ring alone. *)
LEMMA OutsideRing ==
  ASSUME IInv, UNCHANGED <<shmVars, rVars, w_idx, received>>,
         InRing' = InRing, Writing' = Writing,
         \A m \in 1..InRing : log'[m] = log[m], wpc' # "flags"
  PROVE  RingInv' /\ \A r \in LocalReader : ReaderInv(r)'
<1>1. Claimed' = Claimed
  BY DEF Claimed
<1>2. \A r \in LocalReader : Taken(r)' = Taken(r)
  BY DEF Taken, rVars
<1>3. RingInv'
  BY <1>1, <1>2, RingFrame
<1>4. ASSUME NEW r \in LocalReader
      PROVE  ReaderInv(r)'
  <2>1. Claimed <= Taken(r) + MaxChunks
    BY DEF IInv, ReaderInv
  <2>2. InRing \in Int /\ InRing <= InRing
    BY InvFacts
  <2>3. QED
    BY <1>1, <1>2, <2>1, <2>2, ReaderFrame DEF shmVars, rVars
<1>5. QED
  BY <1>3, <1>4

(* The next message is put on the queue of reader r. *)
LEMMA Sent ==
  ASSUME IInv, NEW r \in Reader, NEW x, socket'[r] = Append(socket[r], x),
         NEW k \in 0..Len(log), Published(r) = k - 1, Published(r)' = k,
         x = At(log, k), Carries(r \in RemoteReader, log, k),
         UNCHANGED <<rVars, subscribed, log, received>>, r \in subscribed
  PROVE  StreamInv(r)' /\ socket'[r] \in Seq(Packet)
<1>1. StreamInv(r) /\ Passed(r)' = Passed(r)
  BY DEF IInv, Passed, rVars
<1>2. QueueOK(socket[r], log, Passed(r), Published(r), r \in RemoteReader)
  BY <1>1 DEF StreamInv
<1>3. /\ socket'[r] \in Seq(Packet)
      /\ QueueOK(socket'[r], log, Passed(r), k, r \in RemoteReader)
  <2>1. k - 1 \in Int /\ (k - 1) + 1 = k
    BY InvFacts
  <2>2. QED
    BY <1>2, <2>1, InvFacts, QueueAppend
<1>4. QED
  BY <1>1, <1>3 DEF StreamInv, rVars

LEMMA WaitLocalStep ==
  ASSUME IInv, WaitLocal
  PROVE  IInv'
<1>1. /\ wpc = "wait_local" /\ LocalReader \subseteq subscribed /\ log = << >>
      /\ wpc' = IF RemoteReader = {} THEN "idle" ELSE "wait_remote"
  BY DEF WaitLocal, AllSubscribed, IInv, WriterInv
<1>2. RingInv' /\ \A r \in LocalReader : ReaderInv(r)'
  <2>1. InRing' = InRing /\ Writing' = Writing /\ wpc' # "flags"
    BY <1>1 DEF WaitLocal, InRing, Writing
  <2>2. QED
    BY <2>1, OutsideRing DEF WaitLocal
<1>3. Len(log) = 0 /\ At(log, 0) = Ready
  BY <1>1 DEF At
<1>4. ASSUME NEW r \in Reader
      PROVE  StreamInv(r)' /\ socket'[r] \in Seq(Packet)
  <2>1. CASE r \in LocalReader
    <3>1. Len(socket[r]) <= MaxChunks + 1 /\ r \notin RemoteReader
      BY <2>1, LocalPublished
    <3>2. socket'[r] = Append(socket[r], Ready)
      <4>1. Len(socket[r]) < Hwm
        BY <3>1, InvFacts, ShmAssumption
      <4>2. QED
        BY <1>1, <2>1, <4>1 DEF WaitLocal, Publish
    <3>3. Published(r) = -1 /\ Published(r)' = 0
      BY <1>1, <1>3, <3>1 DEF Published, WaitLocal
    <3>4. Carries(r \in RemoteReader, log, 0)
      BY <1>3 DEF Carries, Ready
    <3>5. QED
      <4>1. 0 \in 0..Len(log) /\ Published(r) = 0 - 1 /\ r \in subscribed
        BY <1>1, <1>3, <2>1, <3>3
      <4>2. UNCHANGED <<rVars, subscribed, log, received>>
        BY DEF WaitLocal
      <4>3. QED
        BY <1>3, <3>2, <3>3, <3>4, <4>1, <4>2, Sent
  <2>2. CASE r \notin LocalReader
    <3>1. r \in RemoteReader
      BY <2>2 DEF Reader
    <3>2. socket'[r] = socket[r]
      BY <2>2 DEF WaitLocal, Publish
    <3>3. Published(r)' = Published(r)
      BY <1>1, <3>1 DEF Published
    <3>4. QED
      BY <3>2, <3>3, StreamFrame, InvFacts DEF WaitLocal, rVars
  <2>3. QED
    BY <2>1, <2>2
<1>5. socket' \in [Reader -> Seq(Message \cup {Ready})]
  BY <1>4 DEF WaitLocal, Publish, Packet
<1>6. TypeOK'
  BY <1>1, <1>5 DEF IInv, TypeOK, WaitLocal, shmVars, rVars
<1>7. WriterInv'
  BY <1>1 DEF IInv, WriterInv, WaitLocal
<1>8. QED
  BY <1>2, <1>4, <1>6, <1>7 DEF IInv

LEMMA WaitRemoteStep ==
  ASSUME IInv, WaitRemote
  PROVE  IInv'
<1>1. wpc = "wait_remote" /\ RemoteReader \subseteq subscribed /\ log = << >> /\ wpc' = "idle"
  BY DEF WaitRemote, AllSubscribed, IInv, WriterInv
<1>2. RingInv' /\ \A r \in LocalReader : ReaderInv(r)'
  <2>1. InRing' = InRing /\ Writing' = Writing /\ wpc' # "flags"
    BY <1>1 DEF WaitRemote, InRing, Writing
  <2>2. QED
    BY <2>1, OutsideRing DEF WaitRemote
<1>3. Len(log) = 0 /\ At(log, 0) = Ready
  BY <1>1 DEF At
<1>4. ASSUME NEW r \in Reader
      PROVE  StreamInv(r)' /\ socket'[r] \in Seq(Packet)
  <2>1. CASE r \in RemoteReader
    <3>1. Published(r) = -1 /\ Published(r)' = 0
      BY <1>1, <1>3, <2>1 DEF Published, WaitRemote
    <3>2. Len(socket[r]) <= 0
      <4>1. Len(socket[r]) <= Published(r) - Passed(r)
        BY InvFacts, QueueLength DEF IInv, StreamInv
      <4>2. QED
        BY <3>1, <4>1, InvFacts
    <3>3. socket'[r] = Append(socket[r], Ready)
      <4>1. Len(socket[r]) < Hwm
        BY <3>2, InvFacts, ShmAssumption
      <4>2. QED
        BY <1>1, <2>1, <4>1 DEF WaitRemote, Publish
    <3>4. Carries(r \in RemoteReader, log, 0)
      BY <1>3 DEF Carries, Ready
    <3>5. QED
      <4>1. 0 \in 0..Len(log) /\ Published(r) = 0 - 1 /\ r \in subscribed
        BY <1>1, <1>3, <2>1, <3>1
      <4>2. UNCHANGED <<rVars, subscribed, log, received>>
        BY DEF WaitRemote
      <4>3. QED
        BY <1>3, <3>1, <3>3, <3>4, <4>1, <4>2, Sent
  <2>2. CASE r \notin RemoteReader
    <3>1. socket'[r] = socket[r]
      BY <2>2 DEF WaitRemote, Publish
    <3>2. Published(r)' = Published(r)
      BY <1>1, <2>2 DEF Published, WaitRemote
    <3>3. QED
      BY <3>1, <3>2, StreamFrame, InvFacts DEF WaitRemote, rVars
  <2>3. QED
    BY <2>1, <2>2
<1>5. socket' \in [Reader -> Seq(Message \cup {Ready})]
  BY <1>4 DEF WaitRemote, Publish, Packet
<1>6. TypeOK'
  BY <1>1, <1>5 DEF IInv, TypeOK, WaitRemote, shmVars, rVars
<1>7. WriterInv'
  BY <1>1 DEF IInv, WriterInv, WaitRemote
<1>8. QED
  BY <1>2, <1>4, <1>6, <1>7 DEF IInv

LEMMA EnqueueStep ==
  ASSUME IInv, NEW overflow \in BOOLEAN, Enqueue(overflow)
  PROVE  IInv' /\ log'[Len(log) + 1] \in Message /\ log' = Append(log, log'[Len(log) + 1])
<1> DEFINE x == [id |-> Len(log) + 1, overflow |-> overflow]
           n == Len(log)
<1>1. /\ wpc = "idle" /\ wpc' = "acquire" /\ n < MaxMessages /\ n \in Nat
      /\ x \in Message /\ x.id = n + 1 /\ log' = Append(log, x)
  BY InvFacts, ShmAssumption DEF Enqueue, Message
<1> HIDE DEF x
<1>2. /\ log' \in Seq(Message) /\ Len(log') = n + 1 /\ log'[n + 1] = x
      /\ \A i \in 1..n : log'[i] = log[i]
  BY <1>1, InvFacts, AppendProperties
<1> HIDE DEF n
<1>3. LogOK(log')
  <2>1. \A i \in 1..n : log[i].id = i
    BY InvFacts DEF LogOK, n
  <2>2. \A i \in 1..(n + 1) : i \in 1..n \/ i = n + 1
    BY <1>1
  <2>3. \A i \in 1..(n + 1) : log'[i].id = i
    BY <1>1, <1>2, <2>1, <2>2
  <2>4. n + 1 <= MaxMessages
    BY <1>1, ShmAssumption
  <2>5. QED
    BY <1>2, <2>3, <2>4 DEF LogOK
<1>4. WriterInv'
  <2>1. log' # << >>
    BY <1>1, <1>2, EmptySeq
  <2>2. QED
    BY <1>1, <1>3, <2>1 DEF WriterInv
<1>5. RingInv' /\ \A r \in LocalReader : ReaderInv(r)'
  <2>1. InRing = n /\ InRing' = n /\ Writing' = Writing /\ wpc' # "flags"
    BY <1>1, <1>2 DEF InRing, Writing, n
  <2>2. QED
    BY <1>2, <2>1, OutsideRing DEF Enqueue
<1>6. ASSUME NEW r \in Reader
      PROVE  StreamInv(r)'
  <2>1. Published(r)' = Published(r)
    BY <1>1, <1>2 DEF Published, n
  <2>2. Len(log') \in Nat /\ Len(log) <= Len(log') /\ \A m \in 1..Len(log) : log'[m] = log[m]
    BY <1>1, <1>2 DEF n
  <2>3. QED
    BY <2>1, <2>2, StreamFrame DEF Enqueue, netVars, rVars
<1>7. TypeOK'
  BY <1>1, <1>2 DEF IInv, TypeOK, Enqueue, shmVars, netVars, rVars
<1>8. QED
  BY <1>1, <1>2, <1>4, <1>5, <1>6, <1>7 DEF IInv, n

LEMMA PublishLocalStep ==
  ASSUME IInv, PublishLocal
  PROVE  IInv'
<1>1. /\ wpc = "publish" /\ Current.overflow /\ log # << >> /\ Len(log) \in Nat /\ Len(log) > 0
      /\ wpc' = IF RemoteReader # {} THEN "remote" ELSE "idle"
  BY InvFacts DEF PublishLocal, IInv, WriterInv
<1>2. RingInv' /\ \A r \in LocalReader : ReaderInv(r)'
  <2>1. InRing' = InRing /\ Writing' = Writing /\ wpc' # "flags"
    BY <1>1 DEF PublishLocal, InRing, Writing
  <2>2. QED
    BY <2>1, OutsideRing DEF PublishLocal
<1>3. At(log, Len(log)) = Current
  BY <1>1 DEF At, Current
<1>4. UNCHANGED <<rVars, subscribed, log, received>>
  BY DEF PublishLocal
<1>5. ASSUME NEW r \in Reader
      PROVE  StreamInv(r)' /\ socket'[r] \in Seq(Packet)
  <2>1. CASE r \in LocalReader
    <3>1. Len(socket[r]) <= MaxChunks + 1 /\ r \notin RemoteReader
      BY <2>1, LocalPublished
    <3>2. Published(r) = Len(log) - 1 /\ Published(r)' = Len(log)
      BY <1>1, <1>4, <3>1 DEF Published
    <3>3. r \in subscribed
      BY <1>1, <3>2 DEF IInv, StreamInv
    <3>4. socket'[r] = Append(socket[r], Current)
      <4>1. Len(socket[r]) < Hwm
        BY <3>1, InvFacts, ShmAssumption
      <4>2. QED
        BY <2>1, <3>3, <4>1 DEF PublishLocal, Publish
    <3>5. Carries(r \in RemoteReader, log, Len(log)) /\ Len(log) \in 0..Len(log)
      BY <1>1, <1>3 DEF Carries
    <3>6. QED
      BY <1>3, <1>4, <3>2, <3>3, <3>4, <3>5, Sent
  <2>2. CASE r \notin LocalReader
    <3>1. r \in RemoteReader
      BY <2>2 DEF Reader
    <3>2. socket'[r] = socket[r]
      BY <2>2 DEF PublishLocal, Publish
    <3>3. Published(r)' = Published(r)
      BY <1>1, <1>4, <3>1 DEF Published
    <3>4. QED
      BY <1>4, <3>2, <3>3, StreamFrame, InvFacts DEF rVars
  <2>3. QED
    BY <2>1, <2>2
<1>6. socket' \in [Reader -> Seq(Message \cup {Ready})]
  BY <1>5 DEF PublishLocal, Publish, Packet
<1>7. TypeOK'
  BY <1>1, <1>6 DEF IInv, TypeOK, PublishLocal, shmVars, rVars
<1>8. WriterInv'
  BY <1>1 DEF IInv, WriterInv, PublishLocal
<1>9. QED
  BY <1>2, <1>5, <1>7, <1>8 DEF IInv

LEMMA PublishRemoteStep ==
  ASSUME IInv, PublishRemote
  PROVE  IInv'
<1>1. wpc = "remote" /\ log # << >> /\ Len(log) \in Nat /\ Len(log) > 0 /\ wpc' = "idle"
  BY InvFacts DEF PublishRemote, IInv, WriterInv
<1>2. RingInv' /\ \A r \in LocalReader : ReaderInv(r)'
  <2>1. InRing' = InRing /\ Writing' = Writing /\ wpc' # "flags"
    BY <1>1 DEF PublishRemote, InRing, Writing
  <2>2. QED
    BY <2>1, OutsideRing DEF PublishRemote
<1>3. At(log, Len(log)) = Current
  BY <1>1 DEF At, Current
<1>4. UNCHANGED <<rVars, subscribed, log, received>>
  BY DEF PublishRemote
<1>5. ASSUME NEW r \in Reader
      PROVE  StreamInv(r)' /\ socket'[r] \in Seq(Packet)
  <2>1. CASE r \in RemoteReader
    <3>1. Published(r) = Len(log) - 1 /\ Published(r)' = Len(log)
      BY <1>1, <1>4, <2>1 DEF Published
    <3>2. r \in subscribed
      BY <1>1, <3>1 DEF IInv, StreamInv
    <3>3. Len(socket[r]) <= Len(log) /\ Len(log) <= MaxMessages
      <4>1. Len(socket[r]) <= Published(r) - Passed(r)
        BY InvFacts, QueueLength DEF IInv, StreamInv
      <4>2. Len(socket[r]) \in Nat /\ Passed(r) \in Int /\ Passed(r) >= -1
        BY InvFacts
      <4>3. Len(log) <= MaxMessages
        BY InvFacts DEF LogOK
      <4>4. QED
        BY <1>1, <3>1, <4>1, <4>2, <4>3
    <3>4. socket'[r] = Append(socket[r], Current)
      <4>1. Hwm > MaxMessages /\ Hwm \in Nat /\ MaxMessages \in Nat
        BY <2>1, ShmAssumption
      <4>2. Len(socket[r]) < Hwm
        BY <1>1, <3>3, <4>1, InvFacts
      <4>3. QED
        BY <2>1, <3>2, <4>2 DEF PublishRemote, Publish
    <3>5. Carries(r \in RemoteReader, log, Len(log)) /\ Len(log) \in 0..Len(log)
      BY <1>1, <2>1 DEF Carries
    <3>6. QED
      BY <1>3, <1>4, <3>1, <3>2, <3>4, <3>5, Sent
  <2>2. CASE r \notin RemoteReader
    <3>1. socket'[r] = socket[r]
      BY <2>2 DEF PublishRemote, Publish
    <3>2. Published(r)' = Published(r)
      BY <1>1, <1>4, <2>2 DEF Published
    <3>3. QED
      BY <1>4, <3>1, <3>2, StreamFrame, InvFacts DEF rVars
  <2>3. QED
    BY <2>1, <2>2
<1>6. socket' \in [Reader -> Seq(Message \cup {Ready})]
  BY <1>5 DEF PublishRemote, Publish, Packet
<1>7. TypeOK'
  BY <1>1, <1>6 DEF IInv, TypeOK, PublishRemote, shmVars, rVars
<1>8. WriterInv'
  BY <1>1 DEF IInv, WriterInv, PublishRemote
<1>9. QED
  BY <1>2, <1>5, <1>7, <1>8 DEF IInv

---------------------------------------------------------------------------
(* The steps of the writer in the ring                                     *)

LEMMA UnusedBlock ==
  ASSUME NEW m \in Nat \ {0}, NEW b \in Block, b >= m
  PROVE  BlockOf(m) # b
<1>1. b \in Nat /\ m <= MaxChunks
  BY ShmAssumption DEF Block
<1>2. BlockOf(m) = m - 1
  BY <1>1, BlockOfProperties
<1>3. QED
  BY <1>1, <1>2

(* The block being written is nobody else's. *)
LEMMA WriterBlock ==
  ASSUME IInv, Writing, NEW m \in Nat, Live(m)
  PROVE  BlockOf(m) # w_idx
<1>1. /\ m \in Nat \ {0} /\ InRing + 1 \in Nat
      /\ m <= InRing + 1 /\ InRing + 1 < m + MaxChunks /\ m # InRing + 1
  BY InvFacts DEF Live, Claimed
<1>2. w_idx = BlockOf(InRing + 1)
  BY DEF IInv, RingInv
<1>3. QED
  BY <1>1, <1>2, BlockOfProperties

(* The message that was in the block that comes next: the writer goes into *)
(* the block only when every reader has taken it.                          *)
LEMMA PreviousMessage ==
  ASSUME IInv, ~Writing, InRing + 1 > MaxChunks
  PROVE  /\ InRing + 1 - MaxChunks \in Nat /\ Live(InRing + 1 - MaxChunks)
         /\ BlockOf(InRing + 1 - MaxChunks) = w_idx
<1> DEFINE m == InRing + 1 - MaxChunks
<1>1. m \in Nat \ {0} /\ m <= InRing /\ m + MaxChunks = InRing + 1 /\ Claimed = InRing
  BY InvFacts DEF Claimed
<1> HIDE DEF m
<1>2. Live(m)
  BY <1>1, InvFacts DEF Live
<1>3. BlockOf(m + MaxChunks) = BlockOf(m)
  BY <1>1, BlockOfProperties
<1>4. BlockOf(m) = w_idx
  BY <1>1, <1>3 DEF IInv, RingInv
<1>5. QED
  BY <1>1, <1>2, <1>4 DEF m

LEMMA AcquireWriteStep ==
  ASSUME IInv, AcquireWrite
  PROVE  IInv'
<1>1. /\ wpc = "acquire" /\ wpc' = "fill" /\ BlockFree(w_idx) /\ w_idx \in Block
      /\ UNCHANGED <<read_by, w_idx, w_flag, log, received, netVars, rVars>>
      /\ written' = [written EXCEPT ![w_idx] = FALSE] /\ data' = [data EXCEPT ![w_idx] = Torn]
      /\ written \in [Block -> BOOLEAN] /\ data \in [Block -> Message \cup {Torn}]
  BY DEF AcquireWrite, IInv, TypeOK
<1>2. TypeOK'
  BY <1>1 DEF IInv, TypeOK, netVars, rVars
<1>3. WriterInv'
  BY <1>1 DEF IInv, WriterInv
<1>4. InRing' = InRing /\ ~Writing /\ Writing' /\ Claimed' = InRing + 1 /\ Claimed = InRing
  BY <1>1 DEF InRing, Writing, Claimed
<1>5. \A r \in LocalReader : Taken(r)' = Taken(r)
  BY <1>1 DEF Taken, rVars
<1>6. ASSUME NEW r \in LocalReader
      PROVE  InRing + 1 <= Taken(r) + MaxChunks
  <2>1. Taken(r) \in Nat
    BY LocalPublished, InvFacts
  <2>2. CASE InRing + 1 <= MaxChunks
    BY <2>1, <2>2, InvFacts
  <2>3. CASE InRing + 1 > MaxChunks
    <3> DEFINE m == InRing + 1 - MaxChunks
    <3>1. m \in Nat /\ Live(m) /\ BlockOf(m) = w_idx
      BY <1>4, <2>3, PreviousMessage
    <3> HIDE DEF m
    <3>2. written[w_idx] /\ (r \in read_by[w_idx] <=> Taken(r) >= m)
      BY <3>1 DEF IInv, RingInv
    <3>3. read_by[w_idx] = LocalReader
      BY <1>1, <3>2 DEF BlockFree
    <3>4. Taken(r) >= m
      BY <3>2, <3>3
    <3>5. QED
      BY <2>1, <3>4, InvFacts DEF m
  <2>4. QED
    BY <2>2, <2>3, InvFacts
<1>7. RingInv'
  <2>1. w_idx' = BlockOf(InRing' + 1)
    BY <1>1, <1>4 DEF IInv, RingInv
  <2>2. \A b \in Block : b >= InRing' => ~written'[b] /\ read_by'[b] = {}
    BY <1>1, <1>4 DEF IInv, RingInv
  <2>3. ASSUME NEW m \in Nat, Live(m)'
        PROVE  /\ written'[BlockOf(m)] /\ data'[BlockOf(m)] = log'[m]
               /\ \A r \in LocalReader : r \in read_by'[BlockOf(m)] <=> Taken(r)' >= m
    <3>1. /\ m \in Nat \ {0} /\ InRing + 1 \in Nat /\ Live(m)
          /\ m <= InRing + 1 /\ InRing + 1 < m + MaxChunks /\ m # InRing + 1
      BY <1>4, <2>3, InvFacts DEF Live
    <3>2. BlockOf(m) # w_idx /\ BlockOf(m) \in Block
      BY <1>1, <1>4, <2>1, <3>1, BlockOfProperties
    <3>3. written'[BlockOf(m)] = written[BlockOf(m)] /\ data'[BlockOf(m)] = data[BlockOf(m)]
      BY <1>1, <3>2
    <3>4. /\ written[BlockOf(m)] /\ data[BlockOf(m)] = log[m]
          /\ \A r \in LocalReader : r \in read_by[BlockOf(m)] <=> Taken(r) >= m
      BY <3>1 DEF IInv, RingInv
    <3>5. log' = log /\ read_by' = read_by
      BY <1>1
    <3>6. QED
      BY <1>5, <3>3, <3>4, <3>5
  <2>4. ~written'[w_idx'] /\ wpc' # "flags"
    BY <1>1
  <2>5. QED
    BY <2>1, <2>2, <2>3, <2>4 DEF RingInv
<1>8. ASSUME NEW r \in LocalReader
      PROVE  ReaderInv(r)'
  BY <1>1, <1>4, <1>5, <1>6, ReaderFrame, InvFacts DEF rVars
<1>9. ASSUME NEW r \in Reader
      PROVE  StreamInv(r)'
  <2>1. Published(r)' = Published(r)
    BY <1>1 DEF Published
  <2>2. QED
    BY <1>1, <2>1, StreamFrame, InvFacts DEF rVars, netVars
<1>10. QED
  BY <1>2, <1>3, <1>7, <1>8, <1>9 DEF IInv

(* A step in the block being written: the flags and the contents of the    *)
(* other blocks stay, and no flag of a reader is set.                      *)
LEMMA InsideBlock ==
  ASSUME IInv, Writing, Writing',
         UNCHANGED <<written, w_idx, log, received, netVars, rVars>>,
         \A b \in Block : b # w_idx => data'[b] = data[b] /\ read_by'[b] = read_by[b],
         \A b \in Block : read_by'[b] \subseteq read_by[b],
         wpc' = "flags" => /\ data'[w_idx] = Current
                           /\ \A r \in LocalReader : r < w_flag' => r \notin read_by'[w_idx]
  PROVE  RingInv' /\ (\A r \in LocalReader : ReaderInv(r)') /\ (\A r \in Reader : StreamInv(r)')
<1>1. InRing' = InRing /\ Claimed' = InRing + 1 /\ Claimed = InRing + 1
  BY DEF InRing, Writing, Claimed
<1>2. \A r \in LocalReader : Taken(r)' = Taken(r)
  BY DEF Taken, rVars
<1>3. RingInv'
  <2>1. w_idx' = BlockOf(InRing' + 1)
    BY <1>1 DEF IInv, RingInv
  <2>2. \A b \in Block : b >= InRing' => ~written'[b] /\ read_by'[b] = {}
    BY <1>1 DEF IInv, RingInv
  <2>3. ASSUME NEW m \in Nat, Live(m)'
        PROVE  /\ written'[BlockOf(m)] /\ data'[BlockOf(m)] = log'[m]
               /\ \A r \in LocalReader : r \in read_by'[BlockOf(m)] <=> Taken(r)' >= m
    <3>1. Live(m) /\ m \in Nat \ {0}
      BY <1>1, <2>3, InvFacts DEF Live
    <3>2. BlockOf(m) # w_idx /\ BlockOf(m) \in Block
      BY <3>1, WriterBlock, BlockOfProperties
    <3>3. QED
      BY <1>2, <3>1, <3>2 DEF IInv, RingInv
  <2>4. ~written'[w_idx']
    BY DEF IInv, RingInv
  <2>5. wpc' = "flags" => /\ data'[w_idx'] = Current'
                          /\ \A r \in LocalReader : r < w_flag' => r \notin read_by'[w_idx']
    BY DEF Current
  <2>6. QED
    BY <2>1, <2>2, <2>3, <2>4, <2>5 DEF RingInv
<1>4. ASSUME NEW r \in LocalReader
      PROVE  ReaderInv(r)'
  <2>1. Claimed' <= Taken(r) + MaxChunks
    BY <1>1 DEF IInv, ReaderInv
  <2>2. r_idx[r] \in Block
    BY DEF IInv, TypeOK
  <2>3. QED
    BY <1>1, <1>2, <2>1, <2>2, ReaderFrame, InvFacts DEF rVars
<1>5. ASSUME NEW r \in Reader
      PROVE  StreamInv(r)'
  <2>1. Published(r)' = Published(r)
    BY DEF Published, Writing
  <2>2. QED
    BY <2>1, StreamFrame, InvFacts DEF rVars, netVars
<1>6. QED
  BY <1>3, <1>4, <1>5

LEMMA FillBlockStep ==
  ASSUME IInv, FillBlock
  PROVE  IInv'
<1>1. /\ wpc = "fill" /\ wpc' = "flags" /\ w_flag' = 1 /\ w_idx \in Block
      /\ UNCHANGED <<written, read_by, w_idx, log, received, netVars, rVars>>
      /\ data' = [data EXCEPT ![w_idx] = Current] /\ data \in [Block -> Message \cup {Torn}]
  BY DEF FillBlock, IInv, TypeOK
<1>2. Current \in Message /\ log # << >>
  <2>1. log # << >>
    BY <1>1 DEF IInv, WriterInv
  <2>2. Len(log) \in 1..Len(log)
    BY <2>1, InvFacts
  <2>3. QED
    BY <2>1, <2>2, ElementOfSeq, InvFacts DEF Current
<1>3. TypeOK'
  BY <1>1, <1>2, ShmAssumption DEF IInv, TypeOK, netVars, rVars
<1>4. WriterInv'
  BY <1>1, <1>2 DEF IInv, WriterInv
<1>5. Writing /\ Writing'
  BY <1>1 DEF Writing
<1>6. \A b \in Block : read_by'[b] \subseteq read_by[b]
  BY <1>1
<1>7. \A b \in Block : b # w_idx => data'[b] = data[b] /\ read_by'[b] = read_by[b]
  BY <1>1
<1>8. data'[w_idx] = Current /\ \A r \in LocalReader : ~(r < w_flag')
  BY <1>1, ShmAssumption DEF LocalReader
<1>9. RingInv' /\ (\A r \in LocalReader : ReaderInv(r)') /\ (\A r \in Reader : StreamInv(r)')
  BY <1>1, <1>5, <1>6, <1>7, <1>8, InsideBlock
<1>10. QED
  BY <1>3, <1>4, <1>9 DEF IInv

LEMMA ResetReadFlagStep ==
  ASSUME IInv, ResetReadFlag
  PROVE  IInv'
<1>1. /\ wpc = "flags" /\ w_flag <= NLocal /\ w_flag' = w_flag + 1 /\ w_idx \in Block
      /\ UNCHANGED <<written, data, wpc, w_idx, log, received, netVars, rVars>>
      /\ read_by' = [read_by EXCEPT ![w_idx] = @ \ {w_flag}]
      /\ read_by \in [Block -> SUBSET LocalReader] /\ w_flag \in 1..(NLocal + 1)
  BY DEF ResetReadFlag, IInv, TypeOK
<1>2. w_flag' \in 1..(NLocal + 1)
  BY <1>1, ShmAssumption
<1>3. TypeOK'
  BY <1>1, <1>2 DEF IInv, TypeOK, netVars, rVars
<1>4. WriterInv'
  BY <1>1 DEF IInv, WriterInv
<1>5. Writing /\ Writing'
  BY <1>1 DEF Writing
<1>6. \A b \in Block : read_by'[b] \subseteq read_by[b]
  BY <1>1
<1>7. \A b \in Block : b # w_idx => data'[b] = data[b] /\ read_by'[b] = read_by[b]
  BY <1>1
<1>8. data'[w_idx] = Current /\ \A r \in LocalReader : r < w_flag' => r \notin read_by'[w_idx]
  <2>1. data[w_idx] = Current /\ \A r \in LocalReader : r < w_flag => r \notin read_by[w_idx]
    BY <1>1 DEF IInv, RingInv
  <2>2. \A r \in LocalReader : r < w_flag' => r < w_flag \/ r = w_flag
    BY <1>1, ShmAssumption DEF LocalReader
  <2>3. read_by'[w_idx] = read_by[w_idx] \ {w_flag}
    BY <1>1
  <2>4. QED
    BY <1>1, <2>1, <2>2, <2>3
<1>9. RingInv' /\ (\A r \in LocalReader : ReaderInv(r)') /\ (\A r \in Reader : StreamInv(r)')
  BY <1>1, <1>5, <1>6, <1>7, <1>8, InsideBlock
<1>10. QED
  BY <1>3, <1>4, <1>9 DEF IInv

LEMMA SetWrittenStep ==
  ASSUME IInv, SetWritten
  PROVE  IInv'
<1>1. /\ wpc = "flags" /\ w_flag = NLocal + 1 /\ w_idx \in Block
      /\ UNCHANGED <<read_by, data, w_flag, log, received, netVars, rVars>>
      /\ written' = [written EXCEPT ![w_idx] = TRUE] /\ written \in [Block -> BOOLEAN]
      /\ read_by \in [Block -> SUBSET LocalReader]
  BY DEF SetWritten, IInv, TypeOK
<1>2. /\ wpc' \in {"publish", "remote", "idle"}
      /\ wpc' = "publish" <=> Current.overflow
      /\ wpc' = "remote" => RemoteReader # {}
      /\ wpc' = "idle" => RemoteReader = {}
  BY DEF SetWritten, AfterRing
<1>3. log # << >> /\ Len(log) > 0 /\ InRing + 1 = Len(log)
  BY <1>1, InvFacts DEF IInv, WriterInv, InRing
<1>4. InRing' = InRing + 1 /\ Claimed' = InRing + 1 /\ Claimed = InRing + 1 /\ Writing /\ ~Writing'
  BY <1>1, <1>2, <1>3 DEF InRing, Writing, Claimed
<1>5. \A r \in LocalReader : Taken(r)' = Taken(r)
  BY <1>1 DEF Taken, rVars
<1>6. w_idx = BlockOf(InRing + 1) /\ InRing + 1 \in Nat \ {0} /\ InRing \in Nat
  BY InvFacts DEF IInv, RingInv
<1>7. w_idx' = BlockOf(InRing' + 1) /\ w_idx' \in Block
  <2>1. w_idx' = (w_idx + 1) % MaxChunks
    BY DEF SetWritten
  <2>2. (BlockOf(InRing + 1) + 1) % MaxChunks = BlockOf((InRing + 1) + 1)
    BY <1>6, BlockOfProperties
  <2>3. BlockOf((InRing + 1) + 1) \in Block
    <3>1. (InRing + 1) + 1 \in Nat \ {0}
      BY <1>6
    <3>2. QED
      BY <3>1, BlockOfProperties
  <2>4. QED
    BY <1>4, <1>6, <2>1, <2>2, <2>3
<1>8. TypeOK'
  BY <1>1, <1>2, <1>7 DEF IInv, TypeOK, netVars, rVars
<1>9. WriterInv'
  BY <1>1, <1>2, <1>3 DEF IInv, WriterInv, Current
<1>10. read_by[w_idx] = {} /\ data[w_idx] = log[InRing + 1]
  <2>1. data[w_idx] = Current /\ \A r \in LocalReader : r < w_flag => r \notin read_by[w_idx]
    BY <1>1 DEF IInv, RingInv
  <2>2. \A r \in LocalReader : r < w_flag
    BY <1>1, ShmAssumption DEF LocalReader
  <2>3. QED
    BY <1>1, <1>3, <2>1, <2>2 DEF Current
<1>11. RingInv'
  <2>1. ASSUME NEW b \in Block, b >= InRing'
        PROVE  ~written'[b] /\ read_by'[b] = {}
    <3>1. b # w_idx /\ b >= InRing
      BY <1>4, <1>6, <2>1, UnusedBlock, ShmAssumption DEF Block
    <3>2. ~written[b] /\ read_by[b] = {}
      BY <3>1 DEF IInv, RingInv
    <3>3. QED
      BY <1>1, <3>1, <3>2
  <2>2. ASSUME NEW m \in Nat, Live(m)'
        PROVE  /\ written'[BlockOf(m)] /\ data'[BlockOf(m)] = log'[m]
               /\ \A r \in LocalReader : r \in read_by'[BlockOf(m)] <=> Taken(r)' >= m
    <3>1. CASE m = InRing + 1
      <4>1. BlockOf(m) = w_idx /\ written'[w_idx] /\ data'[w_idx] = log'[m]
        BY <1>1, <1>6, <1>10, <3>1
      <4>2. ASSUME NEW r \in LocalReader
            PROVE  ~(Taken(r)' >= m)
        <5>1. Taken(r) <= InRing /\ Taken(r) \in Nat
          BY LocalPublished, InvFacts DEF IInv, ReaderInv
        <5>2. QED
          BY <1>5, <1>6, <3>1, <5>1
      <4>3. read_by'[w_idx] = {}
        BY <1>1, <1>10
      <4>4. QED
        BY <4>1, <4>2, <4>3
    <3>2. CASE m # InRing + 1
      <4>1. Live(m) /\ m \in Nat \ {0}
        BY <1>4, <1>6, <2>2, <3>2 DEF Live
      <4>2. BlockOf(m) # w_idx /\ BlockOf(m) \in Block
        BY <1>4, <4>1, WriterBlock, BlockOfProperties
      <4>3. /\ written[BlockOf(m)] /\ data[BlockOf(m)] = log[m]
            /\ \A r \in LocalReader : r \in read_by[BlockOf(m)] <=> Taken(r) >= m
        BY <4>1 DEF IInv, RingInv
      <4>4. written'[BlockOf(m)] /\ log' = log /\ read_by' = read_by /\ data' = data
        BY <1>1, <4>2, <4>3
      <4>5. QED
        BY <1>5, <4>3, <4>4
    <3>3. QED
      BY <3>1, <3>2
  <2>3. QED
    BY <1>2, <1>4, <1>7, <2>1, <2>2 DEF RingInv
<1>12. ASSUME NEW r \in LocalReader
       PROVE  ReaderInv(r)'
  <2>1. Claimed' <= Taken(r) + MaxChunks
    BY <1>4 DEF IInv, ReaderInv
  <2>2. InRing' \in Int /\ InRing <= InRing'
    BY <1>4, <1>6
  <2>3. QED
    BY <1>1, <1>5, <2>1, <2>2, ReaderFrame DEF rVars
<1>13. ASSUME NEW r \in Reader
       PROVE  StreamInv(r)'
  <2>1. CASE r \in RemoteReader \/ Current.overflow
    <3>1. Published(r)' = Published(r)
      BY <1>1, <1>2, <2>1 DEF Published
    <3>2. QED
      BY <1>1, <3>1, StreamFrame, InvFacts DEF rVars, netVars
  <2>2. CASE r \notin RemoteReader /\ ~Current.overflow
    <3>1. Published(r) = Len(log) - 1 /\ Published(r)' = Len(log)
      BY <1>1, <1>2, <2>2 DEF Published
    <3>2. ~Carries(r \in RemoteReader, log, Len(log))
      BY <1>3, <2>2 DEF Carries, At, Current
    <3>3. StreamInv(r) /\ Passed(r)' = Passed(r)
      BY <1>1 DEF IInv, Passed, rVars
    <3>4. QueueOK(socket[r], log, Passed(r), Len(log) - 1, r \in RemoteReader)
      BY <3>1, <3>3 DEF StreamInv
    <3>5. QueueOK(socket[r], log, Passed(r), Len(log), r \in RemoteReader)
      <4>1. Len(log) - 1 \in Int /\ (Len(log) - 1) + 1 = Len(log)
        BY InvFacts
      <4>2. QED
        BY <3>2, <3>4, <4>1, InvFacts, QueueSkip
    <3>6. r \in subscribed
      BY <1>3, <3>1, <3>3, InvFacts DEF StreamInv
    <3>7. QED
      BY <1>1, <3>1, <3>3, <3>5, <3>6 DEF StreamInv, rVars, netVars
  <2>3. QED
    BY <2>1, <2>2
<1>14. QED
  BY <1>8, <1>9, <1>11, <1>12, <1>13 DEF IInv

---------------------------------------------------------------------------
(* The steps of the readers                                                *)

(* A step of reader r that leaves the ring alone. *)
LEMMA OneReader ==
  ASSUME IInv, NEW r \in Reader, UNCHANGED <<shmVars, wVars, log>>,
         r \in LocalReader => Taken(r)' = Taken(r),
         \A q \in Reader \ {r} : /\ rpc'[q] = rpc[q] /\ received'[q] = received[q]
                                 /\ socket'[q] = socket[q] /\ (q \in subscribed' <=> q \in subscribed),
         \A q \in LocalReader \ {r} : /\ r_idx'[q] = r_idx[q] /\ r_flag'[q] = r_flag[q]
                                      /\ r_obj'[q] = r_obj[q]
  PROVE  /\ WriterInv' /\ RingInv' /\ InRing' = InRing /\ Claimed' = Claimed
         /\ \A q \in LocalReader \ {r} : ReaderInv(q)'
         /\ \A q \in Reader \ {r} : StreamInv(q)'
         /\ Published(r)' = Published(r)
<1>1. InRing' = InRing /\ Claimed' = Claimed /\ Writing' = Writing
  BY DEF InRing, Claimed, Writing, wVars
<1>2. \A q \in LocalReader : Taken(q)' = Taken(q)
  BY LocalPublished DEF Taken
<1>3. RingInv'
  BY <1>1, <1>2, RingFrame DEF wVars
<1>4. WriterInv'
  BY DEF IInv, WriterInv, Current, wVars
<1>5. ASSUME NEW q \in LocalReader \ {r}
      PROVE  ReaderInv(q)'
  <2>1. Claimed' <= Taken(q) + MaxChunks /\ q \in Reader
    BY <1>1, LocalPublished DEF IInv, ReaderInv
  <2>2. InRing' \in Int /\ InRing <= InRing'
    BY <1>1, InvFacts
  <2>3. QED
    BY <1>1, <1>2, <2>1, <2>2, ReaderFrame DEF shmVars
<1>6. ASSUME NEW q \in Reader
      PROVE  Published(q)' = Published(q)
  BY DEF Published, wVars
<1>7. ASSUME NEW q \in Reader \ {r}
      PROVE  StreamInv(q)'
  BY <1>6, StreamFrame, InvFacts
<1>8. QED
  BY <1>1, <1>3, <1>4, <1>5, <1>6, <1>7

(* Reader r is between two dequeues, or not yet connected. *)
LEMMA ReaderOutside ==
  ASSUME IInv, NEW r \in LocalReader, InRing' = InRing, Claimed' = Claimed,
         Taken(r)' = Taken(r), r_idx'[r] = r_idx[r], rpc'[r] \in {"ready", "dequeue"}
  PROVE  ReaderInv(r)'
BY DEF IInv, ReaderInv

LEMMA SubscribeStep ==
  ASSUME IInv, NEW r \in Reader, Subscribe(r)
  PROVE  IInv'
<1>1. /\ rpc[r] = "connect" /\ subscribed' = subscribed \cup {r}
      /\ rpc' = [rpc EXCEPT ![r] = "ready"] /\ rpc'[r] = "ready"
      /\ \A q \in Reader \ {r} : rpc'[q] = rpc[q]
      /\ UNCHANGED <<socket, r_idx, r_flag, r_obj, log, received, shmVars, wVars>>
  BY DEF Subscribe, IInv, TypeOK
<1>2. Taken(r)' = Taken(r)
  BY <1>1 DEF Taken
<1>3. /\ WriterInv' /\ RingInv' /\ InRing' = InRing /\ Claimed' = Claimed
      /\ \A q \in LocalReader \ {r} : ReaderInv(q)'
      /\ \A q \in Reader \ {r} : StreamInv(q)'
      /\ Published(r)' = Published(r)
  BY <1>1, <1>2, OneReader
<1>4. r \in LocalReader => ReaderInv(r)'
  BY <1>1, <1>2, <1>3, ReaderOutside
<1>5. StreamInv(r)'
  <2>1. StreamInv(r) /\ Passed(r)' = Passed(r)
    BY <1>1 DEF IInv, Passed
  <2>2. QED
    BY <1>1, <1>3, <2>1 DEF StreamInv
<1>6. TypeOK'
  BY <1>1 DEF IInv, TypeOK, shmVars, wVars
<1>7. QED
  BY <1>3, <1>4, <1>5, <1>6 DEF IInv

LEMMA LoadReadFlagStep ==
  ASSUME IInv, NEW r \in LocalReader, LoadReadFlag(r)
  PROVE  IInv'
<1>1. /\ rpc[r] = "dequeue" /\ r \in Reader
      /\ rpc' = [rpc EXCEPT ![r] = "test"] /\ rpc'[r] = "test"
      /\ r_flag' = [r_flag EXCEPT ![r] = r \in read_by[r_idx[r]]]
      /\ r_flag'[r] = (r \in read_by[r_idx[r]])
      /\ \A q \in Reader \ {r} : rpc'[q] = rpc[q]
      /\ \A q \in LocalReader \ {r} : r_flag'[q] = r_flag[q]
      /\ UNCHANGED <<r_idx, r_obj, log, received, shmVars, netVars, wVars>>
  BY LocalPublished DEF LoadReadFlag, IInv, TypeOK
<1>2. Taken(r)' = Taken(r)
  BY <1>1 DEF Taken
<1>3. /\ WriterInv' /\ RingInv' /\ InRing' = InRing /\ Claimed' = Claimed
      /\ \A q \in LocalReader \ {r} : ReaderInv(q)'
      /\ \A q \in Reader \ {r} : StreamInv(q)'
      /\ Published(r)' = Published(r)
  BY <1>1, <1>2, OneReader DEF netVars
<1>4. ReaderInv(r)'
  <2>1. ~r_flag'[r] => r \notin read_by'[r_idx'[r]]
    BY <1>1 DEF shmVars
  <2>2. QED
    BY <1>1, <1>2, <1>3, <2>1 DEF IInv, ReaderInv
<1>5. StreamInv(r)'
  <2>1. StreamInv(r) /\ Passed(r)' = Passed(r)
    BY <1>1 DEF IInv, Passed
  <2>2. QED
    BY <1>1, <1>3, <2>1, LocalPublished DEF StreamInv, netVars
<1>6. TypeOK'
  BY <1>1 DEF IInv, TypeOK, shmVars, wVars, netVars
<1>7. QED
  BY <1>3, <1>4, <1>5, <1>6 DEF IInv

(* A reader that finds its flag clear and the block written is due a       *)
(* message that is in the ring: the writer is not in the block, and the    *)
(* block does not hold the message of the round before.                    *)
LEMMA BlockIsDue ==
  ASSUME IInv, NEW r \in LocalReader, written[r_idx[r]], r \notin read_by[r_idx[r]]
  PROVE  Taken(r) < InRing
<1>1. Taken(r) \in Nat /\ Taken(r) <= InRing /\ r_idx[r] = BlockOf(Taken(r) + 1) /\ InRing \in Nat
  BY LocalPublished, InvFacts DEF IInv, ReaderInv
<1>2. SUFFICES ASSUME Taken(r) = InRing PROVE FALSE
  BY <1>1
<1>3. r_idx[r] = w_idx /\ w_idx \in Block /\ w_idx = BlockOf(InRing + 1)
  BY <1>1, <1>2 DEF IInv, RingInv, TypeOK
<1>4. ~Writing
  BY <1>3 DEF IInv, RingInv
<1>5. CASE InRing + 1 > MaxChunks
  <2> DEFINE m == InRing + 1 - MaxChunks
  <2>1. m \in Nat /\ Live(m) /\ BlockOf(m) = w_idx /\ m <= InRing
    BY <1>4, <1>5, PreviousMessage, InvFacts
  <2> HIDE DEF m
  <2>2. r \in read_by[w_idx] <=> Taken(r) >= m
    BY <2>1 DEF IInv, RingInv
  <2>3. QED
    BY <1>1, <1>2, <1>3, <2>1, <2>2
<1>6. CASE InRing + 1 <= MaxChunks
  <2>1. w_idx = InRing
    <3>1. InRing + 1 \in Nat \ {0}
      BY <1>1
    <3>2. BlockOf(InRing + 1) = (InRing + 1) - 1
      BY <1>6, <3>1, BlockOfProperties
    <3>3. QED
      BY <1>1, <1>3, <3>2
  <2>2. w_idx >= InRing
    BY <1>1, <2>1
  <2>3. QED
    BY <1>3, <2>2 DEF IInv, RingInv
<1>7. QED
  BY <1>1, <1>5, <1>6, InvFacts

LEMMA TestWrittenStep ==
  ASSUME IInv, NEW r \in LocalReader, TestWritten(r)
  PROVE  IInv'
<1>1. /\ rpc[r] = "test" /\ r \in Reader /\ rpc'[r] \in {"dequeue", "read"}
      /\ rpc' = [rpc EXCEPT ![r] = IF ~written[r_idx[r]] \/ r_flag[r] THEN "dequeue" ELSE "read"]
      /\ rpc'[r] = "read" => written[r_idx[r]] /\ ~r_flag[r]
      /\ \A q \in Reader \ {r} : rpc'[q] = rpc[q]
      /\ UNCHANGED <<r_idx, r_flag, r_obj, log, received, shmVars, netVars, wVars>>
  BY LocalPublished DEF TestWritten, IInv, TypeOK
<1>2. Taken(r)' = Taken(r)
  BY <1>1 DEF Taken
<1>3. /\ WriterInv' /\ RingInv' /\ InRing' = InRing /\ Claimed' = Claimed
      /\ \A q \in LocalReader \ {r} : ReaderInv(q)'
      /\ \A q \in Reader \ {r} : StreamInv(q)'
      /\ Published(r)' = Published(r)
  BY <1>1, <1>2, OneReader DEF netVars
<1>4. ReaderInv(r)'
  <2>1. CASE rpc'[r] = "dequeue"
    BY <1>1, <1>2, <1>3, <2>1, ReaderOutside
  <2>2. CASE rpc'[r] = "read"
    <3>1. written[r_idx[r]] /\ r \notin read_by[r_idx[r]]
      BY <1>1, <2>2 DEF IInv, ReaderInv
    <3>2. Taken(r) < InRing
      BY <3>1, BlockIsDue
    <3>3. QED
      BY <1>1, <1>2, <1>3, <2>2, <3>2 DEF IInv, ReaderInv
  <2>3. QED
    BY <1>1, <2>1, <2>2
<1>5. StreamInv(r)'
  <2>1. StreamInv(r) /\ Passed(r)' = Passed(r)
    BY <1>1 DEF IInv, Passed
  <2>2. QED
    BY <1>1, <1>3, <2>1, LocalPublished DEF StreamInv, netVars
<1>6. TypeOK'
  BY <1>1 DEF IInv, TypeOK, shmVars, wVars, netVars
<1>7. QED
  BY <1>3, <1>4, <1>5, <1>6 DEF IInv

(* The block that a reader is due is still there. *)
LEMMA DueBlock ==
  ASSUME IInv, NEW r \in LocalReader, Taken(r) < InRing
  PROVE  /\ Taken(r) \in Nat /\ InRing \in Nat /\ Live(Taken(r) + 1) /\ r_idx[r] = BlockOf(Taken(r) + 1)
         /\ data[r_idx[r]] = log[Taken(r) + 1] /\ log[Taken(r) + 1] \in Message
<1>1. Taken(r) \in Nat /\ Claimed <= Taken(r) + MaxChunks /\ r_idx[r] = BlockOf(Taken(r) + 1)
  BY LocalPublished, InvFacts DEF IInv, ReaderInv
<1>2. Taken(r) + 1 \in Nat /\ Taken(r) + 1 \in 1..InRing /\ Live(Taken(r) + 1) /\ Taken(r) + 1 \in 1..Len(log)
  BY <1>1, InvFacts DEF Live
<1>3. data[r_idx[r]] = log[Taken(r) + 1]
  BY <1>1, <1>2 DEF IInv, RingInv
<1>4. log[Taken(r) + 1] \in Message
  BY <1>2, InvFacts, ElementOfSeq
<1>5. QED
  BY <1>1, <1>2, <1>3, <1>4, InvFacts

LEMMA ReadBlockStep ==
  ASSUME IInv, NEW r \in LocalReader, ReadBlock(r)
  PROVE  IInv'
<1>1. /\ rpc[r] = "read" /\ r \in Reader
      /\ rpc' = [rpc EXCEPT ![r] = "mark"] /\ rpc'[r] = "mark"
      /\ r_obj' = [r_obj EXCEPT ![r] = data[r_idx[r]]] /\ r_obj'[r] = data[r_idx[r]]
      /\ \A q \in Reader \ {r} : rpc'[q] = rpc[q]
      /\ \A q \in LocalReader \ {r} : r_obj'[q] = r_obj[q]
      /\ UNCHANGED <<r_idx, r_flag, log, received, shmVars, netVars, wVars>>
  BY LocalPublished DEF ReadBlock, IInv, TypeOK
<1>2. Taken(r)' = Taken(r)
  BY <1>1 DEF Taken
<1>3. /\ WriterInv' /\ RingInv' /\ InRing' = InRing /\ Claimed' = Claimed
      /\ \A q \in LocalReader \ {r} : ReaderInv(q)'
      /\ \A q \in Reader \ {r} : StreamInv(q)'
      /\ Published(r)' = Published(r)
  BY <1>1, <1>2, OneReader DEF netVars
<1>4. Taken(r) < InRing
  BY <1>1 DEF IInv, ReaderInv
<1>5. data[r_idx[r]] = log[Taken(r) + 1] /\ log[Taken(r) + 1] \in Message
  BY <1>4, DueBlock
<1>6. ReaderInv(r)'
  BY <1>1, <1>2, <1>3, <1>4, <1>5 DEF IInv, ReaderInv
<1>7. StreamInv(r)'
  <2>1. StreamInv(r) /\ Passed(r)' = Passed(r)
    BY <1>1 DEF IInv, Passed
  <2>2. QED
    BY <1>1, <1>3, <2>1, LocalPublished DEF StreamInv, netVars
<1>8. TypeOK'
  BY <1>1, <1>5 DEF IInv, TypeOK, shmVars, wVars, netVars
<1>9. QED
  BY <1>3, <1>6, <1>7, <1>8 DEF IInv

LEMMA WaitReadyStep ==
  ASSUME IInv, NEW r \in Reader, WaitReady(r)
  PROVE  IInv'
<1>1. /\ rpc[r] = "ready" /\ socket[r] # << >> /\ received[r] = << >>
      /\ socket' = [socket EXCEPT ![r] = Tail(@)] /\ socket'[r] = Tail(socket[r])
      /\ \A q \in Reader \ {r} : socket'[q] = socket[q]
      /\ UNCHANGED <<subscribed, r_idx, r_flag, r_obj, log, received, shmVars, wVars>>
  BY DEF WaitReady, IInv, TypeOK, StreamInv
<1>2. Passed(r) = -1 /\ Len(received[r]) = 0
  BY <1>1 DEF Passed
<1>3. /\ Published(r) >= 0 /\ Head(socket[r]) = Ready
      /\ Tail(socket[r]) \in Seq(Packet)
      /\ QueueOK(Tail(socket[r]), log, 0, Published(r), r \in RemoteReader)
  <2>1. QueueOK(socket[r], log, -1, Published(r), r \in RemoteReader)
    BY <1>2 DEF IInv, StreamInv
  <2>2. -1 \in Int /\ (-1) + 1 = 0 /\ At(log, 0) = Ready
    BY DEF At
  <2>3. Carries(r \in RemoteReader, log, 0)
    BY <2>2 DEF Carries, Ready
  <2>4. QED
    BY <1>1, <2>1, <2>2, <2>3, InvFacts, QueuePop
<1>4. /\ rpc' = [rpc EXCEPT ![r] = Start(r)] /\ rpc'[r] = Start(r)
      /\ \A q \in Reader \ {r} : rpc'[q] = rpc[q]
  BY <1>3 DEF WaitReady, IInv, TypeOK
<1>5. Start(r) \in {"dequeue", "recv"} /\ (r \in LocalReader <=> Start(r) = "dequeue")
  BY DEF Start
<1>6. r \in LocalReader => Taken(r)' = Taken(r)
  BY <1>1, <1>4, <1>5 DEF Taken
<1>7. /\ WriterInv' /\ RingInv' /\ InRing' = InRing /\ Claimed' = Claimed
      /\ \A q \in LocalReader \ {r} : ReaderInv(q)'
      /\ \A q \in Reader \ {r} : StreamInv(q)'
      /\ Published(r)' = Published(r)
  BY <1>1, <1>4, <1>6, OneReader
<1>8. r \in LocalReader => ReaderInv(r)'
  BY <1>1, <1>4, <1>5, <1>6, <1>7, ReaderOutside
<1>9. StreamInv(r)'
  <2>1. StreamInv(r) /\ Passed(r)' = 0
    BY <1>1, <1>2, <1>4, <1>5 DEF IInv, Passed
  <2>2. r \in RemoteReader => Start(r) = "recv"
    BY <1>5, LocalPublished
  <2>3. QED
    BY <1>1, <1>3, <1>4, <1>5, <1>7, <2>1, <2>2 DEF StreamInv
<1>10. TypeOK'
  BY <1>1, <1>3, <1>4, <1>5 DEF IInv, TypeOK, shmVars, wVars, Packet
<1>11. QED
  BY <1>7, <1>8, <1>9, <1>10 DEF IInv

(* Reader r returns the next message of the log. *)
Returns(r) ==
  /\ Len(received[r]) < Len(log)
  /\ received' = [received EXCEPT ![r] = Append(received[r], log[Len(received[r]) + 1])]

LEMMA Returned ==
  ASSUME IInv, NEW r \in Reader, Returns(r), log' = log
  PROVE  /\ received' \in [Reader -> Seq(Message)]
         /\ Len(received'[r]) = Len(received[r]) + 1 /\ Len(received'[r]) <= Len(log')
         /\ \A i \in 1..Len(received'[r]) : received'[r][i] = log'[i]
         /\ \A q \in Reader \ {r} : received'[q] = received[q]
<1> DEFINE s == received[r]
           n == Len(s)
           x == log[n + 1]
           t == Append(s, x)
<1>1. received \in [Reader -> Seq(Message)] /\ s \in Seq(Message) /\ n \in Nat /\ n < Len(log)
  BY InvFacts DEF IInv, TypeOK, Returns
<1>2. x \in Message
  <2>1. n + 1 \in 1..Len(log)
    BY <1>1, InvFacts
  <2>2. QED
    BY <2>1, ElementOfSeq, InvFacts
<1>3. \A i \in 1..n : s[i] = log[i]
  BY DEF IInv, StreamInv
<1>4. received' = [received EXCEPT ![r] = t]
  BY DEF Returns
<1> HIDE DEF s, x
<1>5. t \in Seq(Message) /\ Len(t) = n + 1 /\ t[n + 1] = x /\ \A i \in 1..n : t[i] = s[i]
  BY <1>1, <1>2, AppendProperties
<1> HIDE DEF t
<1>6. received'[r] = t /\ \A q \in Reader \ {r} : received'[q] = received[q]
  BY <1>1, <1>4
<1>7. received' \in [Reader -> Seq(Message)]
  BY <1>1, <1>4, <1>5
<1> HIDE DEF n
<1>8. \A i \in 1..(n + 1) : t[i] = log[i]
  <2>1. \A i \in 1..(n + 1) : i \in 1..n \/ i = n + 1
    BY <1>1
  <2>2. QED
    BY <1>3, <1>5, <2>1 DEF x
<1>9. n + 1 <= Len(log)
  BY <1>1, InvFacts
<1>10. QED
  BY <1>5, <1>6, <1>7, <1>8, <1>9 DEF n, s

LEMMA RecvStep ==
  ASSUME IInv, NEW r \in Reader, Recv(r)
  PROVE  IInv' /\ Returns(r) /\ log' = log
<1> DEFINE n == Len(received[r])
<1>1. /\ rpc[r] = "recv" /\ socket[r] # << >>
      /\ socket' = [socket EXCEPT ![r] = Tail(@)] /\ socket'[r] = Tail(socket[r])
      /\ \A q \in Reader \ {r} : socket'[q] = socket[q]
      /\ rpc' = [rpc EXCEPT ![r] = Start(r)] /\ rpc'[r] = Start(r)
      /\ \A q \in Reader \ {r} : rpc'[q] = rpc[q]
      /\ UNCHANGED <<subscribed, r_idx, r_flag, r_obj, log, shmVars, wVars>>
  BY DEF Recv, IInv, TypeOK
<1>2. Passed(r) = n /\ n \in Nat /\ Taken(r) = n + 1
  BY <1>1, InvFacts, TakenCases DEF Passed
<1>3. At(log, n + 1) = log[n + 1]
  BY <1>2 DEF At
<1>4. Carries(r \in RemoteReader, log, n + 1)
  <2>1. CASE r \in RemoteReader
    BY <2>1 DEF Carries
  <2>2. CASE r \in LocalReader
    <3>1. log[Taken(r)].overflow
      BY <1>1, <2>2 DEF IInv, ReaderInv
    <3>2. QED
      BY <1>2, <1>3, <3>1 DEF Carries
  <2>3. QED
    BY <2>1, <2>2 DEF Reader
<1>5. /\ n + 1 <= Published(r) /\ Head(socket[r]) = log[n + 1]
      /\ Tail(socket[r]) \in Seq(Packet)
      /\ QueueOK(Tail(socket[r]), log, n + 1, Published(r), r \in RemoteReader)
  <2>1. QueueOK(socket[r], log, n, Published(r), r \in RemoteReader)
    BY <1>2 DEF IInv, StreamInv
  <2>2. n \in Int /\ n >= -1
    BY <1>2
  <2> HIDE DEF n
  <2>3. QED
    BY <1>1, <1>3, <1>4, <2>1, <2>2, InvFacts, QueuePop
<1>6. Returns(r)
  <2>1. n < Len(log)
    BY <1>2, <1>5, InvFacts
  <2>2. received' = [received EXCEPT ![r] = Append(received[r], Head(socket[r]))]
    BY DEF Recv
  <2>3. QED
    BY <1>5, <2>1, <2>2 DEF Returns
<1>7. /\ received' \in [Reader -> Seq(Message)]
      /\ Len(received'[r]) = n + 1 /\ Len(received'[r]) <= Len(log')
      /\ \A i \in 1..Len(received'[r]) : received'[r][i] = log'[i]
      /\ \A q \in Reader \ {r} : received'[q] = received[q]
  BY <1>1, <1>6, Returned
<1>8. Start(r) \in {"dequeue", "recv"} /\ (r \in LocalReader <=> Start(r) = "dequeue")
  BY DEF Start
<1>9. r \in LocalReader => Taken(r)' = Taken(r)
  <2>1. r \in LocalReader => rpc'[r] # "recv"
    BY <1>1, <1>8
  <2>2. r \in LocalReader => Taken(r)' = Len(received'[r])
    BY <1>2, <1>7, <2>1 DEF Taken
  <2>3. QED
    BY <1>2, <1>7, <2>2
<1>10. /\ WriterInv' /\ RingInv' /\ InRing' = InRing /\ Claimed' = Claimed
       /\ \A q \in LocalReader \ {r} : ReaderInv(q)'
       /\ \A q \in Reader \ {r} : StreamInv(q)'
       /\ Published(r)' = Published(r)
  BY <1>1, <1>7, <1>9, OneReader
<1>11. r \in LocalReader => ReaderInv(r)'
  BY <1>1, <1>8, <1>9, <1>10, ReaderOutside
<1>12. StreamInv(r)'
  <2>1. StreamInv(r) /\ Passed(r)' = n + 1
    BY <1>1, <1>7, <1>8 DEF IInv, Passed
  <2>2. r \in RemoteReader => Start(r) = "recv"
    BY <1>8, LocalPublished
  <2>3. QueueOK(socket'[r], log', Passed(r)', Published(r)', r \in RemoteReader)
    BY <1>1, <1>5, <1>10, <2>1
  <2>4. rpc'[r] \notin {"connect", "ready"} /\ (r \in RemoteReader => rpc'[r] = "recv")
    BY <1>1, <1>8, <2>2
  <2>5. (r \in subscribed' <=> rpc'[r] # "connect") /\ (Published(r)' >= 0 => r \in subscribed')
    BY <1>1, <1>10, <2>1, <2>4 DEF StreamInv
  <2>6. QED
    BY <1>7, <2>3, <2>4, <2>5 DEF StreamInv
<1>13. TypeOK'
  BY <1>1, <1>5, <1>7, <1>8 DEF IInv, TypeOK, shmVars, wVars, Packet
<1>14. QED
  BY <1>1, <1>6, <1>10, <1>11, <1>12, <1>13 DEF IInv

LEMMA MarkReadStep ==
  ASSUME IInv, NEW r \in LocalReader, MarkRead(r)
  PROVE  IInv' /\ log' = log /\ (Returns(r) \/ received' = received)
<1> DEFINE n == Len(received[r])
           k == r_idx[r]
<1>1. /\ rpc[r] = "mark" /\ r \in Reader /\ r \notin RemoteReader /\ k \in Block
      /\ read_by' = [read_by EXCEPT ![k] = @ \cup {r}] /\ read_by \in [Block -> SUBSET LocalReader]
      /\ r_idx' = [r_idx EXCEPT ![r] = (k + 1) % MaxChunks] /\ r_idx \in [LocalReader -> Block]
      /\ UNCHANGED <<written, data, r_flag, r_obj, log, netVars, wVars>>
  BY LocalPublished DEF MarkRead, IInv, TypeOK
<1>2. /\ n \in Nat /\ Taken(r) = n /\ Passed(r) = n /\ n < InRing /\ InRing \in Nat
      /\ InRing <= Len(log) /\ Len(log) \in Nat
  <2>1. n \in Nat /\ InRing \in Nat /\ InRing <= Len(log) /\ Len(log) \in Nat
    BY <1>1, InvFacts
  <2>2. Taken(r) = n /\ Passed(r) = n
    BY <1>1, <2>1, TakenCases DEF Passed
  <2>3. Taken(r) < InRing
    BY <1>1 DEF IInv, ReaderInv
  <2>4. QED
    BY <2>1, <2>2, <2>3
<1>3. Live(n + 1) /\ k = BlockOf(n + 1) /\ r_obj[r] = log[n + 1] /\ n + 1 \in Nat \ {0}
  <2>1. Live(n + 1) /\ k = BlockOf(n + 1) /\ n + 1 \in Nat \ {0}
    BY <1>2, DueBlock
  <2>2. r_obj[r] = log[n + 1]
    BY <1>1, <1>2 DEF IInv, ReaderInv
  <2>3. QED
    BY <2>1, <2>2
<1>4. /\ rpc' = [rpc EXCEPT ![r] = rpc'[r]] /\ \A q \in Reader \ {r} : rpc'[q] = rpc[q]
      /\ \/ rpc'[r] = "recv" /\ log[n + 1].overflow /\ received' = received
         \/ /\ rpc'[r] = "dequeue" /\ ~log[n + 1].overflow
            /\ received' = [received EXCEPT ![r] = Append(received[r], log[n + 1])]
  <2>1. rpc \in [Reader -> {"connect", "ready", "dequeue", "test", "read", "mark", "recv"}]
    BY DEF IInv, TypeOK
  <2>2. CASE r_obj[r].overflow
    <3>1. rpc' = [rpc EXCEPT ![r] = "recv"] /\ received' = received
      BY <2>2 DEF MarkRead
    <3>2. QED
      BY <1>1, <1>3, <2>1, <2>2, <3>1
  <2>3. CASE ~r_obj[r].overflow
    <3>1. /\ rpc' = [rpc EXCEPT ![r] = "dequeue"]
          /\ received' = [received EXCEPT ![r] = Append(received[r], r_obj[r])]
      BY <2>3 DEF MarkRead
    <3>2. QED
      BY <1>1, <1>3, <2>1, <2>3, <3>1
  <2>4. QED
    BY <2>2, <2>3
<1>5. Returns(r) \/ received' = received
  BY <1>2, <1>4 DEF Returns
<1>6. /\ received' \in [Reader -> Seq(Message)]
      /\ \A q \in Reader \ {r} : received'[q] = received[q]
  <2>1. CASE Returns(r)
    BY <1>1, <2>1, Returned
  <2>2. CASE received' = received
    BY <2>2 DEF IInv, TypeOK
  <2>3. QED
    BY <1>5, <2>1, <2>2
<1>7. Taken(r)' = n + 1
  <2>1. CASE rpc'[r] = "recv"
    BY <1>2, <1>4, <2>1 DEF Taken
  <2>2. CASE rpc'[r] = "dequeue"
    <3>1. Returns(r)
      BY <1>2, <1>4, <2>2 DEF Returns
    <3>2. Len(received'[r]) = n + 1
      BY <1>1, <3>1, Returned
    <3>3. QED
      BY <1>2, <2>2, <3>2 DEF Taken
  <2>3. QED
    BY <1>4, <2>1, <2>2
<1>8. \A q \in LocalReader \ {r} : Taken(q)' = Taken(q)
  BY <1>4, <1>6, LocalPublished DEF Taken
<1>9. InRing' = InRing /\ Claimed' = Claimed /\ Writing' = Writing
  BY <1>1 DEF InRing, Claimed, Writing, wVars
<1>10. Claimed <= n + MaxChunks /\ InRing <= Claimed /\ Claimed \in Nat /\ MaxChunks \in Nat \ {0}
  BY <1>2, InvFacts DEF IInv, ReaderInv
<1>11. r_idx'[r] = BlockOf((n + 1) + 1) /\ r_idx'[r] \in Block
  <2>1. r_idx'[r] = (BlockOf(n + 1) + 1) % MaxChunks
    BY <1>1, <1>3
  <2>2. (BlockOf(n + 1) + 1) % MaxChunks = BlockOf((n + 1) + 1)
    BY <1>3, BlockOfProperties
  <2>3. (n + 1) + 1 \in Nat \ {0}
    BY <1>2
  <2>4. BlockOf((n + 1) + 1) \in Block
    BY <2>3, BlockOfProperties
  <2>5. QED
    BY <2>1, <2>2, <2>4
<1>12. TypeOK'
  <2>1. rpc'[r] \in {"recv", "dequeue"}
    BY <1>4
  <2>2. read_by' \in [Block -> SUBSET LocalReader]
    BY <1>1
  <2>3. r_idx' \in [LocalReader -> Block]
    BY <1>1, <1>11
  <2>4. rpc' \in [Reader -> {"connect", "ready", "dequeue", "test", "read", "mark", "recv"}]
    BY <1>4, <2>1 DEF IInv, TypeOK
  <2>5. QED
    BY <1>1, <1>6, <2>2, <2>3, <2>4 DEF IInv, TypeOK, wVars, netVars
<1>13. WriterInv'
  BY <1>1 DEF IInv, WriterInv, Current, wVars
<1>14. \A b \in Block : b # k => read_by'[b] = read_by[b]
  BY <1>1
<1>15. read_by'[k] = read_by[k] \cup {r}
  BY <1>1
<1> HIDE DEF n, k
<1>16. RingInv'
  <2>1. w_idx' = BlockOf(InRing' + 1)
    BY <1>1, <1>9 DEF IInv, RingInv, wVars
  <2>2. ASSUME NEW b \in Block, b >= InRing'
        PROVE  ~written'[b] /\ read_by'[b] = {}
    <3>1. b # k
      <4>1. b >= n + 1
        BY <1>2, <1>9, <2>2, ShmAssumption DEF Block
      <4>2. QED
        BY <1>3, <4>1, UnusedBlock
    <3>2. QED
      BY <1>1, <1>9, <1>14, <2>2, <3>1 DEF IInv, RingInv
  <2>3. ASSUME NEW m \in Nat, Live(m)'
        PROVE  /\ written'[BlockOf(m)] /\ data'[BlockOf(m)] = log'[m]
               /\ \A q \in LocalReader : q \in read_by'[BlockOf(m)] <=> Taken(q)' >= m
    <3>1. Live(m) /\ m \in Nat \ {0} /\ m <= InRing /\ Claimed < m + MaxChunks
      BY <1>9, <1>10, <2>3 DEF Live
    <3>2. BlockOf(m) \in Block
      BY <3>1, BlockOfProperties
    <3>3. /\ written[BlockOf(m)] /\ data[BlockOf(m)] = log[m]
          /\ \A q \in LocalReader : q \in read_by[BlockOf(m)] <=> Taken(q) >= m
      BY <3>1 DEF IInv, RingInv
    <3>4. written' = written /\ data' = data /\ log' = log
      BY <1>1
    <3>5. CASE m = n + 1
      <4>1. BlockOf(m) = k /\ read_by'[BlockOf(m)] = read_by[BlockOf(m)] \cup {r}
        BY <1>3, <1>15, <3>5
      <4>2. Taken(r)' >= m
        BY <1>2, <1>7, <3>5
      <4>3. \A q \in LocalReader : q \in read_by'[BlockOf(m)] <=> Taken(q)' >= m
        BY <1>8, <3>3, <4>1, <4>2
      <4>4. QED
        BY <3>3, <3>4, <4>3
    <3>6. CASE m # n + 1
      <4>1. BlockOf(m) # k
        <5>1. CASE m <= n + 1
          <6>1. n + 1 \in Nat /\ n + 1 < m + MaxChunks
            BY <1>2, <1>10, <3>1
          <6>2. QED
            BY <1>3, <3>1, <3>6, <5>1, <6>1, BlockOfProperties
        <5>2. CASE n + 1 <= m
          <6>1. m < (n + 1) + MaxChunks
            BY <1>2, <1>10, <3>1
          <6>2. QED
            BY <1>3, <3>1, <3>6, <5>2, <6>1, BlockOfProperties
        <5>3. QED
          BY <1>2, <5>1, <5>2
      <4>2. read_by'[BlockOf(m)] = read_by[BlockOf(m)]
        BY <1>14, <3>2, <4>1
      <4>3. Taken(r)' >= m <=> Taken(r) >= m
        BY <1>2, <1>7, <3>6
      <4>4. \A q \in LocalReader : q \in read_by'[BlockOf(m)] <=> Taken(q)' >= m
        BY <1>8, <3>3, <4>2, <4>3
      <4>5. QED
        BY <3>3, <3>4, <4>4
    <3>7. QED
      BY <3>5, <3>6
  <2>4. Writing' => ~written'[w_idx']
    BY <1>1, <1>9 DEF IInv, RingInv, wVars
  <2>5. ASSUME wpc' = "flags"
        PROVE  /\ data'[w_idx'] = Current'
               /\ \A q \in LocalReader : q < w_flag' => q \notin read_by'[w_idx']
    <3>1. /\ Writing /\ wpc = "flags" /\ w_idx' = w_idx /\ w_flag' = w_flag /\ w_idx \in Block
          /\ Current' = Current /\ data' = data
      BY <1>1, <2>5 DEF Writing, wVars, Current, IInv, TypeOK
    <3>2. k # w_idx
      BY <1>3, <3>1, WriterBlock
    <3>3. QED
      BY <1>14, <3>1, <3>2 DEF IInv, RingInv
  <2>6. QED
    BY <2>1, <2>2, <2>3, <2>4, <2>5 DEF RingInv
<1>17. ReaderInv(r)'
  <2>1. Taken(r)' <= InRing' /\ Claimed' <= Taken(r)' + MaxChunks
    BY <1>2, <1>7, <1>9, <1>10
  <2>2. rpc'[r] = "recv" => log'[Taken(r)'].overflow
    BY <1>1, <1>4, <1>7
  <2>3. rpc'[r] \in {"recv", "dequeue"}
    BY <1>4
  <2>4. QED
    BY <1>7, <1>11, <2>1, <2>2, <2>3 DEF ReaderInv
<1>18. ASSUME NEW q \in LocalReader \ {r}
       PROVE  ReaderInv(q)'
  <2>1. q \in read_by'[r_idx[q]] => q \in read_by[r_idx[q]]
    <3>1. r_idx[q] \in Block
      BY <1>1
    <3>2. QED
      BY <1>14, <1>15, <3>1
  <2>2. r_idx'[q] = r_idx[q] /\ rpc'[q] = rpc[q] /\ Taken(q)' = Taken(q)
    BY <1>1, <1>4, <1>8, LocalPublished
  <2>3. Claimed' <= Taken(q) + MaxChunks /\ InRing' \in Int /\ InRing <= InRing'
    BY <1>2, <1>9 DEF IInv, ReaderInv
  <2>4. QED
    BY <1>1, <2>1, <2>2, <2>3, ReaderFrame
<1>19. \A q \in Reader : Published(q)' = Published(q)
  BY <1>1 DEF Published, wVars
<1>20. ASSUME NEW q \in Reader \ {r}
       PROVE  StreamInv(q)'
  BY <1>1, <1>4, <1>6, <1>19, StreamFrame, InvFacts DEF netVars
<1>21. StreamInv(r)'
  <2>1. StreamInv(r) /\ QueueOK(socket[r], log, n, Published(r), r \in RemoteReader)
    BY <1>1, <1>2 DEF IInv, StreamInv
  <2>2. CASE rpc'[r] = "recv"
    <3>1. received' = received /\ Passed(r)' = Passed(r)
      BY <1>1, <1>2, <1>4, <2>2 DEF Passed, n
    <3>2. QED
      BY <1>1, <1>19, <2>1, <2>2, <3>1 DEF StreamInv, netVars
  <2>3. CASE rpc'[r] = "dequeue"
    <3>1. Returns(r) /\ ~log[n + 1].overflow
      BY <1>2, <1>4, <2>3 DEF Returns, n
    <3>2. /\ Len(received'[r]) = n + 1 /\ Len(received'[r]) <= Len(log')
          /\ \A i \in 1..Len(received'[r]) : received'[r][i] = log'[i]
      BY <1>1, <3>1, Returned DEF n
    <3>3. ~Carries(r \in RemoteReader, log, n + 1)
      BY <1>1, <1>2, <3>1 DEF Carries, At
    <3>4. n + 1 <= Published(r)
      <4>1. n + 1 <= InRing
        BY <1>2
      <4>2. CASE wpc = "publish"
        <5>1. n + 1 # Len(log)
          BY <3>1, <4>2 DEF IInv, WriterInv, Current
        <5>2. Published(r) = Len(log) - 1
          BY <4>2 DEF Published
        <5>3. QED
          BY <1>2, <4>1, <5>1, <5>2
      <4>3. CASE wpc \in {"wait_local", "wait_remote"}
        <5>1. log = << >>
          BY <4>3 DEF IInv, WriterInv
        <5>2. QED
          BY <1>2, <5>1
      <4>4. CASE wpc \notin {"publish", "wait_local", "wait_remote"}
        <5>1. Published(r) = InRing
          BY <1>1, <4>4 DEF Published, InRing
        <5>2. QED
          BY <4>1, <5>1
      <4>5. QED
        BY <4>2, <4>3, <4>4
    <3>5. QueueOK(socket[r], log, n + 1, Published(r), r \in RemoteReader)
      <4>1. n \in Int
        BY <1>2
      <4>2. QED
        BY <1>1, <2>1, <3>3, <3>4, <4>1, InvFacts, QueuePass
    <3>6. Passed(r)' = n + 1
      BY <2>3, <3>2 DEF Passed
    <3>7. QED
      BY <1>1, <1>19, <2>1, <2>3, <3>2, <3>5, <3>6 DEF StreamInv, netVars
  <2>4. QED
    BY <1>4, <2>2, <2>3
<1>22. QED
  BY <1>1, <1>5, <1>12, <1>13, <1>16, <1>17, <1>18, <1>20, <1>21 DEF IInv

---------------------------------------------------------------------------
(* The theorems                                                            *)

LEMMA InitInv == Init => IInv
<1>1. SUFFICES ASSUME Init PROVE IInv
  OBVIOUS
<1>2. Len(log) = 0 /\ InRing = 0 /\ Claimed = 0 /\ ~Writing /\ log \in Seq(Message) /\ wpc = "wait_local"
  BY <1>1, EmptySeq DEF Init, InRing, Claimed, Writing
<1>3. 0 \in Block /\ MaxChunks \in Nat \ {0} /\ NLocal \in Nat \ {0} /\ MaxMessages \in Nat
  BY ShmAssumption DEF Block
<1>4. BlockOf(0 + 1) = 0
  BY <1>3, BlockOfProperties
<1>5. TypeOK
  <2>1. << >> \in Seq(Message) /\ << >> \in Seq(Message \cup {Ready})
    OBVIOUS
  <2>2. 1 \in 1..(NLocal + 1)
    BY <1>3
  <2>3. QED
    BY <1>1, <1>3, <2>1, <2>2 DEF Init, TypeOK
<1>6. WriterInv
  BY <1>1, <1>2, <1>3 DEF Init, WriterInv, LogOK
<1>7. RingInv
  <2>1. \A m \in Nat : ~Live(m)
    BY <1>2 DEF Live
  <2>2. QED
    BY <1>1, <1>2, <1>4, <2>1 DEF Init, RingInv
<1>8. ASSUME NEW r \in Reader
      PROVE  StreamInv(r) /\ Taken(r) = 0
  <2>1. received[r] = << >> /\ socket[r] = << >> /\ rpc[r] = "connect" /\ r \notin subscribed
    BY <1>1 DEF Init
  <2>2. Passed(r) = -1 /\ Published(r) = -1
    BY <1>2, <2>1 DEF Passed, Published
  <2>3. Taken(r) = 0
    BY <2>1, TakenCases
  <2>4. QueueOK(socket[r], log, -1, -1, r \in RemoteReader)
    BY <2>1 DEF QueueOK
  <2>5. QED
    BY <1>2, <2>1, <2>2, <2>3, <2>4 DEF StreamInv
<1>9. ASSUME NEW r \in LocalReader
      PROVE  ReaderInv(r)
  <2>1. r \in Reader /\ rpc[r] = "connect" /\ r_idx[r] = 0
    BY <1>1 DEF Init, Reader
  <2>2. QED
    BY <1>2, <1>3, <1>4, <1>8, <2>1 DEF ReaderInv
<1>10. QED
  BY <1>5, <1>6, <1>7, <1>8, <1>9 DEF IInv

(* Every step keeps the invariant, and enqueues a message, returns the     *)
(* next one to a reader, or leaves what the callers see unchanged.         *)
LEMMA NextInv ==
  ASSUME IInv, [Next]_vars
  PROVE  IInv' /\ [Queue!Next]_(Queue!vars)
<1>1. ASSUME NEW overflow \in BOOLEAN, Enqueue(overflow)
      PROVE  IInv' /\ [Queue!Next]_(Queue!vars)
  <2>1. IInv' /\ log'[Len(log) + 1] \in Message /\ log' = Append(log, log'[Len(log) + 1])
    BY <1>1, EnqueueStep
  <2>2. received' = received
    BY <1>1 DEF Enqueue
  <2>3. Queue!Enqueue(log'[Len(log) + 1])
    BY <2>1, <2>2 DEF Queue!Enqueue
  <2>4. QED
    BY <2>1, <2>3 DEF Queue!Next
<1>2. ASSUME WriterStep
      PROVE  IInv' /\ [Queue!Next]_(Queue!vars)
  <2>1. CASE WaitLocal
    BY <2>1, WaitLocalStep DEF WaitLocal, Queue!vars
  <2>2. CASE WaitRemote
    BY <2>2, WaitRemoteStep DEF WaitRemote, Queue!vars
  <2>3. CASE AcquireWrite
    BY <2>3, AcquireWriteStep DEF AcquireWrite, Queue!vars
  <2>4. CASE FillBlock
    BY <2>4, FillBlockStep DEF FillBlock, Queue!vars
  <2>5. CASE ResetReadFlag
    BY <2>5, ResetReadFlagStep DEF ResetReadFlag, Queue!vars
  <2>6. CASE SetWritten
    BY <2>6, SetWrittenStep DEF SetWritten, Queue!vars
  <2>7. CASE PublishLocal
    BY <2>7, PublishLocalStep DEF PublishLocal, Queue!vars
  <2>8. CASE PublishRemote
    BY <2>8, PublishRemoteStep DEF PublishRemote, Queue!vars
  <2>9. QED
    BY <1>2, <2>1, <2>2, <2>3, <2>4, <2>5, <2>6, <2>7, <2>8 DEF WriterStep
<1>3. ASSUME NEW r \in Reader, Returns(r), log' = log
      PROVE  [Queue!Next]_(Queue!vars)
  BY <1>3 DEF Returns, Queue!Next, Queue!Dequeue
<1>4. ASSUME NEW r \in Reader, ReaderStep(r)
      PROVE  IInv' /\ [Queue!Next]_(Queue!vars)
  <2>1. CASE Subscribe(r)
    BY <2>1, SubscribeStep DEF Subscribe, Queue!vars
  <2>2. CASE WaitReady(r)
    BY <2>2, WaitReadyStep DEF WaitReady, Queue!vars
  <2>3. CASE Recv(r)
    BY <1>3, <2>3, RecvStep
  <2>4. CASE r \in LocalReader /\ LoadReadFlag(r)
    BY <2>4, LoadReadFlagStep DEF LoadReadFlag, Queue!vars
  <2>5. CASE r \in LocalReader /\ TestWritten(r)
    BY <2>5, TestWrittenStep DEF TestWritten, Queue!vars
  <2>6. CASE r \in LocalReader /\ ReadBlock(r)
    BY <2>6, ReadBlockStep DEF ReadBlock, Queue!vars
  <2>7. CASE r \in LocalReader /\ MarkRead(r)
    BY <1>3, <2>7, MarkReadStep DEF Queue!vars
  <2>8. QED
    BY <1>4, <2>1, <2>2, <2>3, <2>4, <2>5, <2>6, <2>7 DEF ReaderStep, LocalStep
<1>5. CASE UNCHANGED vars
  <2>1. UNCHANGED <<shmVars, rVars, wVars, netVars, log, received>>
    BY <1>5 DEF vars
  <2>2. /\ InRing' = InRing /\ Claimed' = Claimed /\ Writing' = Writing
        /\ (\A r \in Reader : Published(r)' = Published(r) /\ Taken(r)' = Taken(r))
    BY <2>1 DEF InRing, Claimed, Writing, Published, Taken, wVars, rVars
  <2>3. RingInv'
    BY <2>1, <2>2, LocalPublished, RingFrame DEF wVars
  <2>4. ASSUME NEW r \in LocalReader
        PROVE  ReaderInv(r)'
    <3>1. Claimed <= Taken(r) + MaxChunks /\ InRing \in Int /\ InRing <= InRing /\ r \in Reader
      BY InvFacts, LocalPublished DEF IInv, ReaderInv
    <3>2. QED
      BY <2>1, <2>2, <3>1, ReaderFrame DEF shmVars, rVars
  <2>5. \A r \in Reader : StreamInv(r)'
    BY <2>1, <2>2, StreamFrame, InvFacts DEF rVars, netVars
  <2>6. TypeOK' /\ WriterInv'
    BY <2>1 DEF IInv, TypeOK, WriterInv, Current, shmVars, rVars, wVars, netVars
  <2>7. QED
    BY <2>1, <2>3, <2>4, <2>5, <2>6 DEF IInv, Queue!vars
<1>6. QED
  BY <1>1, <1>2, <1>4, <1>5 DEF Next

LEMMA ShmInductive == Spec => []IInv
BY InitInv, NextInv, PTL DEF Spec

(* Every flag, block, queue and index keeps its type; no reader fails the  *)
(* assertion on READY.                                                     *)
THEOREM ShmTypes == Spec => []TypeOK
<1>1. IInv => TypeOK
  BY DEF IInv
<1>2. QED
  BY <1>1, ShmInductive, PTL

(* The block that a reader is in holds the message it is due, complete,    *)
(* until the reader has marked it (acquire_write, acquire_read).           *)
THEOREM ShmBlockStable == Spec => []BlockStable
<1>1. IInv => BlockStable
  <2>1. SUFFICES ASSUME IInv, NEW r \in LocalReader, rpc[r] \in {"read", "mark"}
                 PROVE  Taken(r) < Len(log) /\ data[r_idx[r]] = log[Taken(r) + 1]
    BY DEF BlockStable
  <2>2. Taken(r) < InRing
    BY <2>1 DEF IInv, ReaderInv
  <2>3. QED
    BY <2>1, <2>2, DueBlock, InvFacts
<1>2. QED
  BY <1>1, ShmInductive, PTL

(* The ring bounds the local publish socket: at most one message more than *)
(* its blocks waits for a reader, so ZeroMQ drops none.                    *)
THEOREM ShmSocketBounded == Spec => []SocketBounded
<1>1. IInv => SocketBounded
  BY LocalPublished DEF SocketBounded
<1>2. QED
  BY <1>1, ShmInductive, PTL

(* The ring and the sockets implement the queue that enqueue and dequeue   *)
(* promise: every reader gets each message once and in order.              *)
THEOREM ShmImplements == Spec => Queue!Safety
<1>1. Init => Queue!Init
  BY DEF Init, Queue!Init
<1>2. IInv /\ [Next]_vars => [Queue!Next]_(Queue!vars)
  BY NextInv
<1>3. QED
  BY <1>1, <1>2, ShmInductive, PTL DEF Spec, Queue!Safety
=============================================================================
