---------------------------- MODULE MCRadixCache ----------------------------
(* Finite instance of RadixCache: two prompts that share a prefix. *)
EXTENDS RadixCache, TLC

MCToken == {"a", "b"}
MCPrompt == {<<"a", "b", "a">>, <<"a", "a">>}
Symmetry == Permutations(Page) \cup Permutations(Req)
=============================================================================
