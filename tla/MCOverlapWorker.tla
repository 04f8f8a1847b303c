--------------------------- MODULE MCOverlapWorker ---------------------------
(* Finite instances of OverlapWorker: a request that decodes while the     *)
(* prompt of another one is prefilled in chunks.                           *)
EXTENDS OverlapWorker, TLC

CONSTANTS r1, r2, r3

ShortPrompt == [r \in Req |-> IF r = r1 THEN 3 ELSE 1]
LongPrompt  == [r \in Req |-> IF r = r1 THEN 8 ELSE 1]
Answers     == [r \in Req |-> IF r = r2 THEN 3 ELSE 2]
=============================================================================
