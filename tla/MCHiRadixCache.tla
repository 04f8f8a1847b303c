---------------------------- MODULE MCHiRadixCache ----------------------------
(* Small instances of HiRadixCache for TLC. *)
EXTENDS HiRadixCache, TLC

(* The long prompt fills half of the pool and is evicted, written out and  *)
(* loaded back; a short one grows by decoding into its node and splits it, *)
(* the other grows beside it.  A prompt and its output leave two slots of  *)
(* the pool, as max_req_len demands.                                       *)
MCPrompt == {<<1, 1, 1, 1>>, <<1>>, <<2>>}
MCMaxNew == <<1, 1, 1, 1>> :> 1 @@ <<1>> :> 4 @@ <<2>> :> 4

Reserving == [threshold |-> 1, ratio |-> 1]
BothPolicies == {Reserving, [threshold |-> 2, ratio |-> 0]}
WriteThrough == {[threshold |-> 1, ratio |-> 0]}
=============================================================================
