------------------------------ MODULE MCTxLog ------------------------------
(* TLC instances of TxLog, and the refinement of AppendLog by TxLog. *)
EXTENDS TxLog, FiniteSets, SequencesExt

\* The list of tx blocks, read from the meta block along the links.
BlockAt[n \in Nat] == IF n = 0 THEN Null ELSE next[BlockAt[n - 1]]
LastBlock == CHOOSE n \in 0 .. Cardinality(TxBlocks) : next[BlockAt[n]] = Null

EntriesOf(b) == [i \in 1 .. get_capacity(b) |-> entry[b][i - 1]]
History ==
  SelectSeq(FlattenSeq([n \in 1 .. LastBlock + 1 |-> EntriesOf(BlockAt[n - 1])]),
            is_valid)

Writing == {"update", "replay", "commit", "conflict"}
Abstract ==
  INSTANCE AppendLog WITH
    Ops <- Txs,
    hist <- History,
    pending <- {<<t, ntx[t]>> : t \in {u \in Threads : pc[u] \in Writing}}

(* The linked tx blocks with their compare-and-swaps implement one         *)
(* append-only sequence: each transaction takes effect once, at the end of *)
(* the log, at one instant between its start and its return.               *)
ImplementsAppendLog == Abstract!Spec
=============================================================================
