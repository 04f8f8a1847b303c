------------------------------- MODULE RWLock -------------------------------
(***************************************************************************)
(* The reader-writer lock of the tokenizer manager (aio_rwlock.py).  Every *)
(* generation request holds it as a reader from admission to its last      *)
(* token; a weight update holds it as a writer.                            *)
(*                                                                         *)
(* All tasks run in one asyncio event loop.  A task gives up the loop only *)
(* inside Condition.wait: the internal asyncio.Lock is never contended and *)
(* a stretch of code between two waits is one step.  A task is             *)
(*   "start"   before it asks for the lock,                                *)
(*   "wait"    suspended in Condition.wait,                                *)
(*   "woken"   notified, and not yet run again,                            *)
(*   "in"      inside the reader_lock or writer_lock block,                *)
(*   "done"    out of it, or cancelled.                                    *)
(* A task asks once: generate_request and the update handlers are one task *)
(* per request.                                                            *)
(***************************************************************************)
EXTENDS Integers, FiniteSets

CONSTANTS Readers, Writers

ASSUME TaskAssumption == /\ IsFiniteSet(Readers) /\ IsFiniteSet(Writers)
                         /\ Readers \cap Writers = {}

VARIABLES readers,           \* _readers
          writer_active,     \* _writer_active
          waiting_writers,   \* _waiting_writers
          pc                 \* where each task is

vars == <<readers, writer_active, waiting_writers, pc>>

Tasks == Readers \cup Writers

Init == /\ readers = 0
        /\ writer_active = FALSE
        /\ waiting_writers = 0
        /\ pc = [t \in Tasks |-> "start"]

(* Condition.notify_all, for a task that moves to state s at the same time *)
NotifyAll(t, s) == [u \in Tasks |-> IF u = t THEN s
                                    ELSE IF pc[u] = "wait" THEN "woken" ELSE pc[u]]

(* the loop condition of acquire_reader *)
ReaderBlocked == writer_active \/ waiting_writers > 0

(* the loop condition of acquire_writer *)
WriterBlocked == writer_active \/ readers > 0

(* acquire_reader, on entry and each time its wait returns *)
AcquireReader(r) ==
  /\ pc[r] \in {"start", "woken"}
  /\ \/ /\ ReaderBlocked
        /\ pc' = [pc EXCEPT ![r] = "wait"]
        /\ UNCHANGED readers
     \/ /\ ~ReaderBlocked
        /\ pc' = [pc EXCEPT ![r] = "in"]
        /\ readers' = readers + 1
  /\ UNCHANGED <<writer_active, waiting_writers>>

(* notify_all is called one reader too early (mutation). *)
ReleaseReaderEarly(r) ==
  /\ pc[r] = "in"
  /\ readers' = readers - 1
  /\ pc' = IF readers' = 1 THEN NotifyAll(r, "done") ELSE [pc EXCEPT ![r] = "done"]
  /\ UNCHANGED <<writer_active, waiting_writers>>

(* release_reader: the last one out wakes everybody *)
ReleaseReader(r) ==
  /\ pc[r] = "in"
  /\ readers' = readers - 1
  /\ pc' = IF readers' = 0 THEN NotifyAll(r, "done") ELSE [pc EXCEPT ![r] = "done"]
  /\ UNCHANGED <<writer_active, waiting_writers>>

(* acquire_writer does not wait for the readers inside (mutation). *)
AcquireWriterAtOnce(w) ==
  /\ pc[w] = "start"
  /\ pc' = [pc EXCEPT ![w] = "in"]
  /\ writer_active' = TRUE
  /\ UNCHANGED <<readers, waiting_writers>>

(* acquire_writer, on entry: it counts itself as waiting first *)
AcquireWriter(w) ==
  /\ pc[w] = "start"
  /\ \/ /\ WriterBlocked
        /\ pc' = [pc EXCEPT ![w] = "wait"]
        /\ waiting_writers' = waiting_writers + 1
        /\ UNCHANGED writer_active
     \/ /\ ~WriterBlocked
        /\ pc' = [pc EXCEPT ![w] = "in"]
        /\ writer_active' = TRUE
        /\ UNCHANGED waiting_writers
  /\ UNCHANGED readers

(* A writer that gets the lock stays counted as waiting (mutation). *)
ResumeWriterStillWaiting(w) ==
  /\ pc[w] = "woken"
  /\ pc' = [pc EXCEPT ![w] = IF WriterBlocked THEN "wait" ELSE "in"]
  /\ writer_active' = (writer_active \/ ~WriterBlocked)
  /\ UNCHANGED <<readers, waiting_writers>>

(* acquire_writer, when its wait returns *)
ResumeWriter(w) ==
  /\ pc[w] = "woken"
  /\ \/ /\ WriterBlocked
        /\ pc' = [pc EXCEPT ![w] = "wait"]
        /\ UNCHANGED <<writer_active, waiting_writers>>
     \/ /\ ~WriterBlocked
        /\ pc' = [pc EXCEPT ![w] = "in"]
        /\ writer_active' = TRUE
        /\ waiting_writers' = waiting_writers - 1
  /\ UNCHANGED readers

(* release_writer *)
ReleaseWriter(w) ==
  /\ pc[w] = "in"
  /\ writer_active' = FALSE
  /\ pc' = NotifyAll(w, "done")
  /\ UNCHANGED <<readers, waiting_writers>>

(* A cancelled reader is counted out as if it had been in (mutation). *)
CancelReaderReleases(r) == /\ pc[r] \in {"wait", "woken"}
                           /\ pc' = [pc EXCEPT ![r] = "done"]
                           /\ readers' = readers - 1
                           /\ UNCHANGED <<writer_active, waiting_writers>>

(* A streaming request is cancelled (its client is gone) in Condition.wait,*)
(* notified or not, and nobody else is notified.                           *)
CancelReader(r) == /\ pc[r] \in {"wait", "woken"}
                   /\ pc' = [pc EXCEPT ![r] = "done"]
                   /\ UNCHANGED <<readers, writer_active, waiting_writers>>

(* A writer leaves the count through the finally clause.  No handler of the*)
(* server cancels an update; an embedding program may, and is assumed to do*)
(* so before a notification reached it (README, "Not modelled").           *)
CancelWriter(w) == /\ pc[w] = "wait"
                   /\ pc' = [pc EXCEPT ![w] = "done"]
                   /\ waiting_writers' = waiting_writers - 1
                   /\ UNCHANGED <<readers, writer_active>>

ReaderStep(r) == AcquireReader(r) \/ ReleaseReader(r)
WriterStep(w) == AcquireWriter(w) \/ ResumeWriter(w) \/ ReleaseWriter(w)

(* every task is through *)
Terminating == /\ \A t \in Tasks : pc[t] = "done"
               /\ UNCHANGED vars

Next == \/ \E r \in Readers : ReaderStep(r) \/ CancelReader(r)
        \/ \E w \in Writers : WriterStep(w) \/ CancelWriter(w)
        \/ Terminating

(* The event loop runs every ready task, and the body of a lock block ends:*)
(* a request finishes, an update returns.  Cancellation is never assured.  *)
Fairness == /\ \A r \in Readers : WF_vars(ReaderStep(r))
            /\ \A w \in Writers : WF_vars(WriterStep(w))

Spec == Init /\ [][Next]_vars /\ Fairness

---------------------------------------------------------------------------
Inside(S) == {t \in S : pc[t] = "in"}

Queued == {w \in Writers : pc[w] \in {"wait", "woken"}}

(* Type invariant: the counters never go below zero. *)
TypeOK == /\ readers \in Nat
          /\ writer_active \in BOOLEAN
          /\ waiting_writers \in Nat
          /\ pc \in [Tasks -> {"start", "wait", "woken", "in", "done"}]

(* The counters are the sets they stand for (acquire and release of both   *)
(* kinds, and cancellation, keep them in step).                            *)
CountersExact == /\ readers = Cardinality(Inside(Readers))
                 /\ waiting_writers = Cardinality(Queued)
                 /\ writer_active = (Inside(Writers) # {})

(* While weights are updated no request is in progress, and one update at  *)
(* a time (writer_lock: "exclusive access").                               *)
Exclusion == \A w \in Inside(Writers) : Inside(Tasks) = {w}

(* No wake-up is lost: whenever a task sleeps un-notified, somebody is     *)
(* inside, whose release will notify it, or a notified writer is about to  *)
(* run and will either enter or find somebody inside (notify_all in        *)
(* release_reader and release_writer; nobody notifies on cancellation).    *)
NoLostWakeup ==
  \A t \in Tasks : pc[t] = "wait" =>
     \/ Inside(Tasks) # {}
     \/ \E w \in Writers : pc[w] = "woken"

(* Every request and every weight update gets the lock and leaves, whatever*)
(* the others do, or is cancelled.                                         *)
AllServed == \A t \in Tasks : <>(pc[t] = "done")
=============================================================================
