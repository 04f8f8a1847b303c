------------------------------- MODULE Queues -------------------------------
(* What several components do with a queue of requests, and sums over a    *)
(* set of requests.  The first are recursive functions.                    *)
EXTENDS Integers, Sequences, FiniteSets, FiniteSetsExt, SequencesExt

(* queue s without the elements of S, in the same order *)
Without(s, S) ==
  LET upto[i \in 0..Len(s)] ==
        IF i = 0 THEN << >>
        ELSE IF s[i] \in S THEN upto[i - 1] ELSE Append(upto[i - 1], s[i])
  IN  upto[Len(s)]

(* queue s with only the elements of S *)
Queued(s, S) == Without(s, ToSet(s) \ S)

(* the place of r in queue s *)
PlaceOf(s, r) == CHOOSE i \in 1..Len(s) : s[i] = r

SumOver(f, S) == MapThenSumSet(LAMBDA r : f[r], S)
=============================================================================
