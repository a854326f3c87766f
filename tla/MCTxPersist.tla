---------------------------- MODULE MCTxPersist -----------------------------
(* TLC instances of TxPersist. *)
EXTENDS TxPersist, TLC

Symmetry == Permutations(Threads)
=============================================================================
