---------------------------- MODULE MCLogEntries ----------------------------
(* TLC instances of LogEntries. *)
EXTENDS LogEntries, TLC

Symmetry == Permutations(Threads)
=============================================================================
