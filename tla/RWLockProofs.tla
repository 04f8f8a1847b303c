---------------------------- MODULE RWLockProofs ----------------------------
(* Proofs about RWLock, for any finite sets of readers and writers. *)
EXTENDS RWLock, FiniteSetTheorems, TLAPS

Inv == TypeOK /\ CountersExact /\ Exclusion /\ NoLostWakeup

(* A finite set of tasks that gains or loses one member. *)
LEMMA CountStep ==
  ASSUME NEW S, NEW T, IsFiniteSet(S), NEW x
  PROVE  /\ x \notin S /\ T = S \cup {x} => Cardinality(T) = Cardinality(S) + 1
         /\ x \in S /\ T = S \ {x} => Cardinality(T) = Cardinality(S) - 1
         /\ Cardinality(S) \in Nat
         /\ Cardinality(S) = 0 <=> S = {}
<1>1. x \notin S /\ T = S \cup {x} => Cardinality(T) = Cardinality(S) + 1
  BY FS_AddElement
<1>2. x \in S /\ T = S \ {x} => Cardinality(T) = Cardinality(S) - 1
  BY FS_RemoveElement
<1>3. Cardinality(S) \in Nat
  BY FS_CardinalityType
<1>4. Cardinality(S) = 0 <=> S = {}
  BY FS_EmptySet
<1> QED BY <1>1, <1>2, <1>3, <1>4

(* The sets that the counters count are finite. *)
LEMMA FiniteCounts == /\ IsFiniteSet(Inside(Readers))
                      /\ IsFiniteSet(Queued)
<1>1. Inside(Readers) \subseteq Readers /\ Queued \subseteq Writers
  BY DEF Inside, Queued
<1> QED BY <1>1, TaskAssumption, FS_Subset

(* The invariant holds at the start: nobody has asked for the lock yet. *)
LEMMA InitInv == Init => Inv
<1> SUFFICES ASSUME Init PROVE Inv
  OBVIOUS
<1>1. Inside(Readers) = {} /\ Queued = {} /\ Inside(Writers) = {} /\ Inside(Tasks) = {}
  BY DEF Init, Inside, Queued, Tasks
<1>2. CountersExact
  BY <1>1, FS_EmptySet DEF Init, CountersExact
<1> QED BY <1>1, <1>2 DEF Init, Inv, TypeOK, Exclusion, NoLostWakeup, Tasks

(* Every step keeps the invariant.  The facts f to dis relate the counters *)
(* to the sets they count; then one step per action.                       *)
LEMMA StepInv == Inv /\ [Next]_vars => Inv'
<1> SUFFICES ASSUME Inv, [Next]_vars PROVE Inv'
  OBVIOUS
<1> USE DEF Inv, Tasks
<1>f. /\ IsFiniteSet(Inside(Readers)) /\ IsFiniteSet(Queued)
      /\ Cardinality(Inside(Readers)) = 0 <=> Inside(Readers) = {}
      /\ Cardinality(Queued) = 0 <=> Queued = {}
  BY FiniteCounts, CountStep
<1>wa. writer_active <=> Inside(Writers) # {}
  BY Zenon DEF CountersExact
<1>rd. readers > 0 <=> Inside(Readers) # {}
  BY <1>f DEF CountersExact, TypeOK
<1>in. Inside(Tasks) = Inside(Readers) \cup Inside(Writers)
  BY DEF Inside
<1>dis. Readers \cap Writers = {}
  BY TaskAssumption
<1>1. ASSUME NEW r \in Readers, AcquireReader(r) PROVE Inv'
  <2>1. CASE ReaderBlocked /\ pc' = [pc EXCEPT ![r] = "wait"] /\ UNCHANGED readers
    <3>1. /\ Inside(Readers)' = Inside(Readers) /\ Queued' = Queued
          /\ Inside(Writers)' = Inside(Writers) /\ Inside(Tasks)' = Inside(Tasks)
      BY <1>1, <2>1, <1>dis DEF AcquireReader, Inside, Queued, TypeOK
    <3>2. TypeOK' /\ CountersExact' /\ Exclusion'
      BY <3>1, <2>1, <1>1 DEF AcquireReader, TypeOK, CountersExact, Exclusion
    <3>3. writer_active => Inside(Tasks)' # {}
      BY <3>1, <1>in DEF CountersExact
    <3>4. ASSUME waiting_writers > 0 PROVE Inside(Tasks)' # {} \/ \E w \in Writers : pc'[w] = "woken"
      <4>1. PICK w \in Writers : pc[w] \in {"wait", "woken"}
        BY <3>4, <1>f DEF CountersExact, Queued
      <4>2. w # r /\ pc'[w] = pc[w]
        BY <4>1, <2>1, <1>dis DEF TypeOK
      <4>3. CASE pc[w] = "woken"
        BY <4>3, <4>2
      <4>4. CASE pc[w] = "wait"
        <5>1. Inside(Tasks) # {} \/ \E u \in Writers : pc[u] = "woken"
          BY <4>4 DEF NoLostWakeup
        <5> QED BY <5>1, <3>1, <2>1, <1>dis DEF TypeOK
      <4> QED BY <4>1, <4>3, <4>4
    <3> QED BY <3>2, <3>3, <3>4, <2>1 DEF NoLostWakeup, ReaderBlocked
  <2>2. CASE ~ReaderBlocked /\ pc' = [pc EXCEPT ![r] = "in"] /\ readers' = readers + 1
    <3>1. /\ r \notin Inside(Readers) /\ Inside(Readers)' = Inside(Readers) \cup {r}
          /\ Queued' = Queued /\ Inside(Writers)' = Inside(Writers)
      BY <1>1, <2>2, <1>dis DEF AcquireReader, Inside, Queued, TypeOK
    <3>2. TypeOK' /\ CountersExact'
      BY <3>1, <2>2, <1>1, <1>f, CountStep DEF AcquireReader, TypeOK, CountersExact
    <3>3. Inside(Writers)' = {}
      BY <3>1, <2>2 DEF CountersExact, ReaderBlocked
    <3>4. r \in Inside(Tasks)'
      BY <2>2 DEF Inside, TypeOK
    <3> QED BY <3>2, <3>3, <3>4 DEF Exclusion, NoLostWakeup
  <2> QED BY <1>1, <2>1, <2>2 DEF AcquireReader
<1>2. ASSUME NEW r \in Readers, ReleaseReader(r) PROVE Inv'
  <2>0. r \in Inside(Readers)
    BY <1>2 DEF ReleaseReader, Inside
  <2>1. \A t \in Tasks : /\ t = r => pc'[t] = "done"
                         /\ t # r => pc'[t] = pc[t] \/ (pc[t] = "wait" /\ pc'[t] = "woken")
    BY <1>2 DEF ReleaseReader, NotifyAll, TypeOK
  <2>2. pc' \in [Tasks -> {"start", "wait", "woken", "in", "done"}]
    BY <1>2 DEF ReleaseReader, NotifyAll, TypeOK
  <2>3. /\ Inside(Readers)' = Inside(Readers) \ {r}
        /\ Queued' = Queued /\ Inside(Writers)' = Inside(Writers)
        /\ Inside(Tasks)' = Inside(Tasks) \ {r}
    BY <2>1, <1>dis DEF Inside, Queued
  <2>4. TypeOK' /\ CountersExact'
    BY <2>0, <2>2, <2>3, <1>2, <1>f, CountStep DEF ReleaseReader, TypeOK, CountersExact
  <2>5. Inside(Writers)' = {}
    BY <2>0, <2>3, <1>in, <1>dis DEF Exclusion, Inside
  <2>6. NoLostWakeup'
    <3>1. CASE readers' = 0
      BY <3>1, <1>2 DEF ReleaseReader, NotifyAll, NoLostWakeup, TypeOK
    <3>2. CASE readers' # 0
      <4>1. Inside(Readers)' # {}
        BY <3>2, <2>4, FS_EmptySet DEF CountersExact
      <4> QED BY <4>1 DEF NoLostWakeup, Inside
    <3> QED BY <3>1, <3>2
  <2> QED BY <2>4, <2>5, <2>6 DEF Exclusion
<1>3. ASSUME NEW w \in Writers, AcquireWriter(w) PROVE Inv'
  <2>1. CASE WriterBlocked /\ pc' = [pc EXCEPT ![w] = "wait"]
             /\ waiting_writers' = waiting_writers + 1 /\ UNCHANGED writer_active
    <3>1. /\ w \notin Queued /\ Queued' = Queued \cup {w}
          /\ Inside(Readers)' = Inside(Readers) /\ Inside(Writers)' = Inside(Writers)
          /\ Inside(Tasks)' = Inside(Tasks)
      BY <1>3, <2>1, <1>dis DEF AcquireWriter, Inside, Queued, TypeOK
    <3>2. TypeOK' /\ CountersExact'
      BY <3>1, <2>1, <1>3, <1>f, CountStep DEF AcquireWriter, TypeOK, CountersExact
    <3>3. Inside(Tasks)' # {}
      BY <3>1, <2>1, <1>in, <1>wa, <1>rd DEF WriterBlocked
    <3> QED BY <3>1, <3>2, <3>3, <2>1 DEF Exclusion, NoLostWakeup
  <2>2. CASE ~WriterBlocked /\ pc' = [pc EXCEPT ![w] = "in"]
             /\ writer_active' = TRUE /\ UNCHANGED waiting_writers
    <3>0. Inside(Readers) = {} /\ Inside(Writers) = {}
      BY <2>2, <1>wa, <1>rd DEF WriterBlocked
    <3>1. /\ Inside(Readers)' = Inside(Readers)
          /\ Queued' = Queued /\ Inside(Writers)' = {w} /\ Inside(Tasks)' = {w}
      BY <1>3, <2>2, <3>0, <1>dis DEF AcquireWriter, Inside, Queued, TypeOK
    <3> QED BY <3>1, <2>2, <1>3 DEF AcquireWriter, TypeOK, CountersExact, Exclusion, NoLostWakeup
  <2> QED BY <1>3, <2>1, <2>2 DEF AcquireWriter
<1>4. ASSUME NEW w \in Writers, ResumeWriter(w) PROVE Inv'
  <2>1. CASE WriterBlocked /\ pc' = [pc EXCEPT ![w] = "wait"] /\ UNCHANGED <<writer_active, waiting_writers>>
    <3>1. /\ Queued' = Queued
          /\ Inside(Readers)' = Inside(Readers) /\ Inside(Writers)' = Inside(Writers)
          /\ Inside(Tasks)' = Inside(Tasks)
      BY <1>4, <2>1, <1>dis DEF ResumeWriter, Inside, Queued, TypeOK
    <3>3. Inside(Tasks)' # {}
      BY <3>1, <2>1, <1>in, <1>wa, <1>rd DEF WriterBlocked
    <3> QED BY <3>1, <3>3, <2>1, <1>4 DEF ResumeWriter, TypeOK, CountersExact, Exclusion, NoLostWakeup
  <2>2. CASE ~WriterBlocked /\ pc' = [pc EXCEPT ![w] = "in"]
             /\ writer_active' = TRUE /\ waiting_writers' = waiting_writers - 1
    <3>0. Inside(Readers) = {} /\ Inside(Writers) = {}
      BY <2>2, <1>wa, <1>rd DEF WriterBlocked
    <3>1. /\ Inside(Readers)' = Inside(Readers)
          /\ w \in Queued /\ Queued' = Queued \ {w}
          /\ Inside(Writers)' = {w} /\ Inside(Tasks)' = {w}
      BY <1>4, <2>2, <3>0, <1>dis DEF ResumeWriter, Inside, Queued, TypeOK
    <3>2. waiting_writers' = Cardinality(Queued') /\ waiting_writers' \in Nat
      BY <3>1, <2>2, <1>f, CountStep, FS_RemoveElement, FS_CardinalityType DEF CountersExact
    <3> QED BY <3>1, <3>2, <2>2, <1>4 DEF ResumeWriter, TypeOK, CountersExact, Exclusion, NoLostWakeup
  <2> QED BY <1>4, <2>1, <2>2 DEF ResumeWriter
<1>5. ASSUME NEW w \in Writers, ReleaseWriter(w) PROVE Inv'
  <2>1. \A t \in Tasks : /\ t = w => pc'[t] = "done"
                         /\ t # w => pc'[t] = pc[t] \/ (pc[t] = "wait" /\ pc'[t] = "woken")
                         /\ pc'[t] # "wait"
    BY <1>5 DEF ReleaseWriter, NotifyAll, TypeOK
  <2>2. pc' \in [Tasks -> {"start", "wait", "woken", "in", "done"}]
    BY <1>5 DEF ReleaseWriter, NotifyAll, TypeOK
  <2>3. Inside(Tasks) = {w}
    BY <1>5 DEF ReleaseWriter, Exclusion, Inside
  <2>4. /\ Inside(Readers)' = Inside(Readers) /\ Queued' = Queued /\ Inside(Writers)' = {}
        /\ Inside(Tasks)' = {}
    BY <2>1, <2>3, <1>5, <1>dis DEF ReleaseWriter, Inside, Queued
  <2> QED BY <2>1, <2>2, <2>4, <1>5 DEF ReleaseWriter, TypeOK, CountersExact, Exclusion, NoLostWakeup
<1>6. ASSUME NEW r \in Readers, CancelReader(r) PROVE Inv'
  <2>1. /\ Inside(Readers)' = Inside(Readers) /\ Queued' = Queued
        /\ Inside(Writers)' = Inside(Writers) /\ Inside(Tasks)' = Inside(Tasks)
    BY <1>6, <1>dis DEF CancelReader, Inside, Queued, TypeOK
  <2>2. /\ \A u \in Tasks : pc'[u] = "wait" => pc[u] = "wait"
        /\ \A w \in Writers : pc[w] = "woken" => pc'[w] = "woken"
    BY <1>6, <1>dis DEF CancelReader, TypeOK
  <2> QED BY <2>1, <2>2, <1>6 DEF CancelReader, TypeOK, CountersExact, Exclusion, NoLostWakeup
<1>7. ASSUME NEW w \in Writers, CancelWriter(w) PROVE Inv'
  <2>1. /\ Inside(Readers)' = Inside(Readers) /\ w \in Queued /\ Queued' = Queued \ {w}
        /\ Inside(Writers)' = Inside(Writers) /\ Inside(Tasks)' = Inside(Tasks)
    BY <1>7, <1>dis DEF CancelWriter, Inside, Queued, TypeOK
  <2>2. \A u \in Tasks : /\ pc'[u] = "wait" => pc[u] = "wait"
                         /\ pc[u] = "woken" => pc'[u] = "woken"
    BY <1>7 DEF CancelWriter, TypeOK
  <2>3. waiting_writers' = Cardinality(Queued') /\ waiting_writers' \in Nat
    BY <2>1, <1>7, <1>f, CountStep, FS_RemoveElement, FS_CardinalityType DEF CountersExact, CancelWriter
  <2> QED BY <2>1, <2>2, <2>3, <1>7 DEF CancelWriter, TypeOK, CountersExact, Exclusion, NoLostWakeup
<1>8. CASE UNCHANGED vars
  BY <1>8 DEF vars, TypeOK, CountersExact, Exclusion, NoLostWakeup, Inside, Queued
<1> QED BY <1>1, <1>2, <1>3, <1>4, <1>5, <1>6, <1>7, <1>8
        DEF Next, ReaderStep, WriterStep, Terminating

(* A weight update never overlaps a request in progress or another update, *)
(* for any number of requests and updates (writer_lock and reader_lock).   *)
THEOREM RWLockExclusion == Spec => []Exclusion
<1>1. Init => Inv
  BY InitInv
<1>2. Inv /\ [Next]_vars => Inv'
  BY StepInv
<1>3. Inv => Exclusion
  BY DEF Inv
<1> QED BY <1>1, <1>2, <1>3, PTL DEF Spec

(* No task sleeps in Condition.wait unless somebody is there whose release *)
(* will wake it (notify_all in release_reader and release_writer).         *)
THEOREM RWLockNoLostWakeup == Spec => []NoLostWakeup
<1>1. Init => Inv
  BY InitInv
<1>2. Inv /\ [Next]_vars => Inv'
  BY StepInv
<1>3. Inv => NoLostWakeup
  BY DEF Inv
<1> QED BY <1>1, <1>2, <1>3, PTL DEF Spec

(* _readers and _waiting_writers count the tasks inside and queued, and    *)
(* never go below zero.                                                    *)
THEOREM RWLockCounters == Spec => [](TypeOK /\ CountersExact)
<1>1. Init => Inv
  BY InitInv
<1>2. Inv /\ [Next]_vars => Inv'
  BY StepInv
<1>3. Inv => TypeOK /\ CountersExact
  BY DEF Inv
<1> QED BY <1>1, <1>2, <1>3, PTL DEF Spec

(* Type correctness of the lock for any set of tasks: the counters are     *)
(* natural numbers, although release decrements them without a test.       *)
THEOREM RWLockTypes == Spec => []TypeOK
<1>1. Init => Inv
  BY InitInv
<1>2. Inv /\ [Next]_vars => Inv'
  BY StepInv
<1>3. Inv => TypeOK
  BY DEF Inv
<1> QED BY <1>1, <1>2, <1>3, PTL DEF Spec
=============================================================================
