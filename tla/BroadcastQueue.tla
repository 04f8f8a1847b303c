--------------------------- MODULE BroadcastQueue ---------------------------
(***************************************************************************)
(* What MessageQueue promises its callers: one process enqueues, every     *)
(* reader dequeues each message exactly once and in the order of the       *)
(* enqueues.  A reader may lag, and nobody waits for ever.                 *)
(***************************************************************************)
EXTENDS Naturals, Sequences

CONSTANTS Reader, Message

VARIABLES
  log,        \* the messages enqueued so far
  received    \* received[r]: what dequeue returned to reader r

vars == <<log, received>>

Init == log = << >> /\ received = [r \in Reader |-> << >>]

Enqueue(m) == log' = Append(log, m) /\ UNCHANGED received

Dequeue(r) ==
  /\ Len(received[r]) < Len(log)
  /\ received' = [received EXCEPT ![r] = Append(@, log[Len(@) + 1])]
  /\ UNCHANGED log

Next == (\E m \in Message : Enqueue(m)) \/ (\E r \in Reader : Dequeue(r))

Safety == Init /\ [][Next]_vars

(* A message that was enqueued reaches every reader. *)
Fairness == \A r \in Reader : WF_vars(Dequeue(r))

Spec == Safety /\ Fairness
=============================================================================
