---------------------------- MODULE MCBlockAlloc ----------------------------
(* TLC instances of BlockAlloc. *)
EXTENDS BlockAlloc, TLC

Symmetry == Permutations(Threads)
=============================================================================
