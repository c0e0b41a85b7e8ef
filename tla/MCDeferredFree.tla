--------------------------- MODULE MCDeferredFree ---------------------------
(* DeferredFree on small instances; requests and blocks are interchangeable. *)
EXTENDS DeferredFree, TLC

Symmetry == Permutations(Requests) \cup Permutations(Blocks)
=============================================================================
