----------------------------- MODULE AppendLog -----------------------------
(***************************************************************************)
(* What the transaction log of a file promises: one sequence to which      *)
(* every write transaction is appended at most once, in one indivisible    *)
(* step between its start and its end.  A transaction whose process dies   *)
(* may never be appended.                                                  *)
(***************************************************************************)
EXTENDS Sequences, SequencesExt

CONSTANT Ops          \* all write transactions

VARIABLES hist,       \* the committed transactions, in commit order
          pending     \* those that have started and are not committed yet

Init == hist = << >> /\ pending = {}

Begin(e) ==
  /\ e \notin pending
  /\ pending' = pending \cup {e}
  /\ e \notin ToSet(hist)
  /\ UNCHANGED hist

Commit(e) ==
  /\ e \in pending
  /\ pending' = pending \ {e}
  /\ hist' = Append(hist, e)

Abandon(e) ==
  /\ e \in pending
  /\ pending' = pending \ {e}
  /\ UNCHANGED hist

Next == \E e \in Ops : Begin(e) \/ Commit(e) \/ Abandon(e)

Spec == Init /\ [][Next]_<<hist, pending>>
=============================================================================
