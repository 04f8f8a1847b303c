-------------------------- MODULE MCDisaggregation --------------------------
(* Finite instances of Disaggregation: a prompt of two chunks and a prompt *)
(* of one, in memory that holds both, or only one at a time.               *)
EXTENDS Disaggregation

CONSTANTS a, b

TwoChunks == [r \in Req |-> IF r = a THEN 2 ELSE 1]
Answers   == [r \in Req |-> 2]

Deploy(n, p, R, f) == [ranks |-> 1..n, pages |-> p, reqs |-> R, faults |-> f]

FaultConfigs ==
  {Deploy(2, 5, {a, b}, f) : f \in {{}, {"fetch"}}} \cup {Deploy(2, 4, {a, b}, {})}
  \cup {Deploy(1, 5, {a, b}, {f}) : f \in {"send", "crash"}}
  \cup {Deploy(2, 5, {a}, {f}) : f \in {"send", "crash"}}

FetchConfigs == {Deploy(1, 5, {a, b}, {"fetch"})}
=============================================================================
