---------------------------- MODULE ShmBroadcast ----------------------------
(***************************************************************************)
(* MessageQueue and ShmRingBuffer                                          *)
(* (distributed/device_communicators/shm_broadcast.py): one writer, local  *)
(* readers on a ring of blocks in shared memory, remote readers on a       *)
(* publish socket.  A block carries one flag of the writer and one of each *)
(* local reader, and there is no lock: every access to a flag is a step of *)
(* its own.  A message too big for a block is announced in the ring and    *)
(* sent on the local publish socket.                                       *)
(*                                                                         *)
(* Loads and stores of bytes take effect in program order.  The writer's   *)
(* sum over the reader flags is one step: the flags only rise meanwhile.   *)
(***************************************************************************)
EXTENDS Integers, Sequences

CONSTANTS
  NLocal,        \* n_local_reader; the local readers are 1..NLocal
  RemoteReader,
  MaxChunks,     \* blocks of the ring
  MaxMessages,   \* bound: messages the writer enqueues
  Hwm            \* high-water mark of a publish socket (ZeroMQ drops above it)

LocalReader == 1..NLocal
Reader == LocalReader \cup RemoteReader
Block == 0..(MaxChunks - 1)

(* A remote reader may lag behind by every message, a local one only by    *)
(* what fits in the ring.                                                  *)
ASSUME ShmAssumption ==
  /\ NLocal \in Nat \ {0} /\ MaxChunks \in Nat \ {0} /\ MaxMessages \in Nat
  /\ RemoteReader \cap LocalReader = {}
  /\ Hwm \in Nat /\ Hwm > MaxChunks + 1
  /\ RemoteReader # {} => Hwm > MaxMessages

(* A message is its place in the order and whether it overflows a block. *)
Message == [id : 1..MaxMessages, overflow : BOOLEAN]
Ready == [id |-> 0, overflow |-> TRUE]      \* b"READY"
Torn  == [id |-> -1, overflow |-> FALSE]    \* a block while it is being written

VARIABLES
  \* shared memory
  written,     \* written[b]: the written flag of block b
  read_by,     \* read_by[b]: the local readers whose flag of block b is 1
  data,        \* data[b]: the contents of block b
  \* the sockets, one queue per subscriber
  subscribed, socket,
  \* the writer
  wpc, w_idx, w_flag,
  \* the readers
  rpc, r_idx, r_flag, r_obj,
  \* what was passed to enqueue and returned by dequeue
  log, received

shmVars == <<written, read_by, data>>
netVars == <<subscribed, socket>>
wVars   == <<wpc, w_idx, w_flag>>
rVars   == <<rpc, r_idx, r_flag, r_obj>>
vars    == <<shmVars, netVars, wVars, rVars, log, received>>

Init ==
  /\ written = [b \in Block |-> FALSE] /\ read_by = [b \in Block |-> {}]
  /\ data = [b \in Block |-> Torn]
  /\ subscribed = {} /\ socket = [r \in Reader |-> << >>]
  /\ wpc = "wait_local" /\ w_idx = 0 /\ w_flag = 1
  /\ rpc = [r \in Reader |-> "connect"]
  /\ r_idx = [r \in LocalReader |-> 0] /\ r_flag = [r \in LocalReader |-> FALSE]
  /\ r_obj = [r \in LocalReader |-> Torn]
  /\ log = << >> /\ received = [r \in Reader |-> << >>]

---------------------------------------------------------------------------
(* ZeroMQ (external): a publish socket queues a message for every          *)
(* subscriber it knows of, and drops it for one whose queue is full.       *)
Publish(group, m) ==
  socket' = [r \in Reader |-> IF r \in group \cap subscribed /\ Len(socket[r]) < Hwm
                              THEN Append(socket[r], m) ELSE socket[r]]

---------------------------------------------------------------------------
(* The writer                                                              *)

(* The writer does not wait for the subscriptions (mutation). *)
NotWaiting(group) == TRUE

(* one subscription message received from each reader of the group *)
AllSubscribed(group) == group \subseteq subscribed

(* wait_until_ready, writer side *)
WaitLocal ==
  /\ wpc = "wait_local" /\ AllSubscribed(LocalReader)
  /\ Publish(LocalReader, Ready)
  /\ wpc' = IF RemoteReader = {} THEN "idle" ELSE "wait_remote"
  /\ UNCHANGED <<subscribed, w_idx, w_flag, log, received>> /\ UNCHANGED <<shmVars, rVars>>

WaitRemote ==
  /\ wpc = "wait_remote" /\ AllSubscribed(RemoteReader)
  /\ Publish(RemoteReader, Ready)
  /\ wpc' = "idle"
  /\ UNCHANGED <<subscribed, w_idx, w_flag, log, received>> /\ UNCHANGED <<shmVars, rVars>>

Current == log[Len(log)]

Enqueue(overflow) ==
  /\ wpc = "idle" /\ Len(log) < MaxMessages
  /\ log' = Append(log, [id |-> Len(log) + 1, overflow |-> overflow])
  /\ wpc' = "acquire"
  /\ UNCHANGED <<w_idx, w_flag, received>> /\ UNCHANGED <<shmVars, netVars, rVars>>

(* A written block is taken when some reader has read it (mutation). *)
BlockHalfFree(b) == ~written[b] \/ read_by[b] # {}

(* the test of acquire_write *)
BlockFree(b) == ~written[b] \/ read_by[b] = LocalReader

(* acquire_write: the block is free; it is marked as not written.  The     *)
(* caller starts to fill it.                                               *)
AcquireWrite ==
  /\ wpc = "acquire" /\ BlockFree(w_idx)
  /\ written' = [written EXCEPT ![w_idx] = FALSE]
  /\ data' = [data EXCEPT ![w_idx] = Torn]
  /\ wpc' = "fill"
  /\ UNCHANGED <<read_by, w_idx, w_flag, log, received>> /\ UNCHANGED <<netVars, rVars>>

FillBlock ==
  /\ wpc = "fill"
  /\ data' = [data EXCEPT ![w_idx] = Current]
  /\ wpc' = "flags" /\ w_flag' = 1
  /\ UNCHANGED <<written, read_by, w_idx, log, received>> /\ UNCHANGED <<netVars, rVars>>

(* The flag of the last reader is not reset (mutation). *)
ResetFlagsButLast ==
  /\ wpc = "flags" /\ w_flag <= NLocal
  /\ read_by' = [read_by EXCEPT ![w_idx] = @ \ ({w_flag} \ {NLocal})]
  /\ w_flag' = w_flag + 1
  /\ UNCHANGED <<written, data, wpc, w_idx, log, received>> /\ UNCHANGED <<netVars, rVars>>

ResetReadFlag ==
  /\ wpc = "flags" /\ w_flag <= NLocal
  /\ read_by' = [read_by EXCEPT ![w_idx] = @ \ {w_flag}]
  /\ w_flag' = w_flag + 1
  /\ UNCHANGED <<written, data, wpc, w_idx, log, received>> /\ UNCHANGED <<netVars, rVars>>

AfterRing == IF Current.overflow THEN "publish"
             ELSE IF RemoteReader # {} THEN "remote" ELSE "idle"

SetWritten ==
  /\ wpc = "flags" /\ w_flag = NLocal + 1
  /\ written' = [written EXCEPT ![w_idx] = TRUE]
  /\ w_idx' = (w_idx + 1) % MaxChunks
  /\ wpc' = AfterRing
  /\ UNCHANGED <<read_by, data, w_flag, log, received>> /\ UNCHANGED <<netVars, rVars>>

(* local_socket.send of a message that overflows a block *)
PublishLocal ==
  /\ wpc = "publish"
  /\ Publish(LocalReader, Current)
  /\ wpc' = IF RemoteReader # {} THEN "remote" ELSE "idle"
  /\ UNCHANGED <<subscribed, w_idx, w_flag, log, received>> /\ UNCHANGED <<shmVars, rVars>>

(* remote_socket.send *)
PublishRemote ==
  /\ wpc = "remote"
  /\ Publish(RemoteReader, Current)
  /\ wpc' = "idle"
  /\ UNCHANGED <<subscribed, w_idx, w_flag, log, received>> /\ UNCHANGED <<shmVars, rVars>>

---------------------------------------------------------------------------
(* The readers                                                             *)

(* create_from_handle: the subscription reaches the writer's socket *)
Subscribe(r) ==
  /\ rpc[r] = "connect"
  /\ subscribed' = subscribed \cup {r}
  /\ rpc' = [rpc EXCEPT ![r] = "ready"]
  /\ UNCHANGED <<socket, r_idx, r_flag, r_obj, log, received>> /\ UNCHANGED <<shmVars, wVars>>

Start(r) == IF r \in LocalReader THEN "dequeue" ELSE "recv"

(* wait_until_ready, reader side: "assert recv == b"READY"" *)
WaitReady(r) ==
  /\ rpc[r] = "ready" /\ socket[r] # << >>
  /\ socket' = [socket EXCEPT ![r] = Tail(@)]
  /\ rpc' = [rpc EXCEPT ![r] = IF Head(socket[r]) = Ready THEN Start(r) ELSE "failed"]
  /\ UNCHANGED <<subscribed, r_idx, r_flag, r_obj, log, received>> /\ UNCHANGED <<shmVars, wVars>>

(* acquire_read, first load: this reader's flag *)
LoadReadFlag(r) ==
  /\ rpc[r] = "dequeue"
  /\ r_flag' = [r_flag EXCEPT ![r] = r \in read_by[r_idx[r]]]
  /\ rpc' = [rpc EXCEPT ![r] = "test"]
  /\ UNCHANGED <<r_idx, r_obj, log, received>> /\ UNCHANGED <<shmVars, netVars, wVars>>

(* A block is read again if the writer has not come round (mutation). *)
TestWrittenOnly(r) ==
  /\ rpc[r] = "test"
  /\ rpc' = [rpc EXCEPT ![r] = IF ~written[r_idx[r]] THEN "dequeue" ELSE "read"]
  /\ UNCHANGED <<r_idx, r_flag, r_obj, log, received>> /\ UNCHANGED <<shmVars, netVars, wVars>>

(* acquire_read, second load and test: written and not read yet *)
TestWritten(r) ==
  /\ rpc[r] = "test"
  /\ rpc' = [rpc EXCEPT ![r] = IF ~written[r_idx[r]] \/ r_flag[r] THEN "dequeue" ELSE "read"]
  /\ UNCHANGED <<r_idx, r_flag, r_obj, log, received>> /\ UNCHANGED <<shmVars, netVars, wVars>>

(* the caller reads the block *)
ReadBlock(r) ==
  /\ rpc[r] = "read"
  /\ r_obj' = [r_obj EXCEPT ![r] = data[r_idx[r]]]
  /\ rpc' = [rpc EXCEPT ![r] = "mark"]
  /\ UNCHANGED <<r_idx, r_flag, log, received>> /\ UNCHANGED <<shmVars, netVars, wVars>>

(* The end of acquire_read, and of dequeue unless the message is on the    *)
(* socket.                                                                 *)
MarkRead(r) ==
  /\ rpc[r] = "mark"
  /\ read_by' = [read_by EXCEPT ![r_idx[r]] = @ \cup {r}]
  /\ r_idx' = [r_idx EXCEPT ![r] = (@ + 1) % MaxChunks]
  /\ IF r_obj[r].overflow
     THEN rpc' = [rpc EXCEPT ![r] = "recv"] /\ UNCHANGED received
     ELSE /\ rpc' = [rpc EXCEPT ![r] = "dequeue"]
          /\ received' = [received EXCEPT ![r] = Append(@, r_obj[r])]
  /\ UNCHANGED <<written, data, r_flag, r_obj, log>> /\ UNCHANGED <<netVars, wVars>>

(* local_socket.recv of an overflow, remote_socket.recv of any message *)
Recv(r) ==
  /\ rpc[r] = "recv" /\ socket[r] # << >>
  /\ socket' = [socket EXCEPT ![r] = Tail(@)]
  /\ received' = [received EXCEPT ![r] = Append(@, Head(socket[r]))]
  /\ rpc' = [rpc EXCEPT ![r] = Start(r)]
  /\ UNCHANGED <<subscribed, r_idx, r_flag, r_obj, log>> /\ UNCHANGED <<shmVars, wVars>>

---------------------------------------------------------------------------
WriterStep == \/ WaitLocal \/ WaitRemote \/ AcquireWrite \/ FillBlock \/ ResetReadFlag
              \/ SetWritten \/ PublishLocal \/ PublishRemote

LocalStep(r) == LoadReadFlag(r) \/ TestWritten(r) \/ ReadBlock(r) \/ MarkRead(r)

ReaderStep(r) == \/ Subscribe(r) \/ WaitReady(r) \/ Recv(r)
                 \/ r \in LocalReader /\ LocalStep(r)

Next == \/ \E overflow \in BOOLEAN : Enqueue(overflow)
        \/ WriterStep
        \/ \E r \in Reader : ReaderStep(r)

(* Every process is scheduled: a loop that finds nothing to do yields the  *)
(* processor (os.sched_yield).  The writer need not enqueue anything; the  *)
(* readers call dequeue for ever.                                          *)
Fairness == WF_vars(WriterStep) /\ \A r \in Reader : WF_vars(ReaderStep(r))

Spec == Init /\ [][Next]_vars /\ Fairness

---------------------------------------------------------------------------
(* Properties                                                              *)

(* Type invariant. *)
TypeOK ==
  /\ written \in [Block -> BOOLEAN] /\ read_by \in [Block -> SUBSET LocalReader]
  /\ data \in [Block -> Message \cup {Torn}]
  /\ subscribed \subseteq Reader /\ socket \in [Reader -> Seq(Message \cup {Ready})]
  /\ wpc \in {"wait_local", "wait_remote", "idle", "acquire", "fill", "flags", "publish", "remote"}
  /\ w_idx \in Block /\ w_flag \in 1..(NLocal + 1)
  /\ rpc \in [Reader -> {"connect", "ready", "dequeue", "test", "read", "mark", "recv"}]
  /\ r_idx \in [LocalReader -> Block] /\ r_flag \in [LocalReader -> BOOLEAN]
  /\ r_obj \in [LocalReader -> Message \cup {Torn}]
  /\ log \in Seq(Message) /\ received \in [Reader -> Seq(Message)]

(* the messages that reader r has taken from the ring *)
Taken(r) == Len(received[r]) + (IF rpc[r] = "recv" THEN 1 ELSE 0)

(* As long as a reader is in a block, the block holds the message it is    *)
(* due, complete: the writer, which looks at flags only, never starts to   *)
(* fill a block that a reader still reads (acquire_write, acquire_read).   *)
BlockStable ==
  \A r \in LocalReader :
    rpc[r] \in {"read", "mark"} => /\ Taken(r) < Len(log)
                                   /\ data[r_idx[r]] = log[Taken(r) + 1]

(* The ring is the flow control of the local publish socket: a reader      *)
(* marks a block before it receives what overflowed, so at most one        *)
(* message more than the ring holds waits for it, and none is dropped.     *)
SocketBounded == \A r \in LocalReader : Len(socket[r]) <= MaxChunks + 1

(* Every reader, local or remote, dequeues each message once and in the    *)
(* order of the enqueues, and none waits for ever.                         *)
Queue == INSTANCE BroadcastQueue
         WITH Reader <- Reader, Message <- Message, log <- log, received <- received
Broadcast == Queue!Spec
=============================================================================
