---------------------------- MODULE TxLogProofs ----------------------------
(* Proofs about TxLog, part 4: the inductive invariant and the theorems that *)
(* follow from it.                                                           *)
EXTENDS TxLogAlloc, TxLogAppend

USE TxLogConstants

\* Every step keeps the inductive invariant.
LEMMA InvStep == Inv /\ [Next]_vars => Inv'
<1> SUFFICES ASSUME Inv, [Next]_vars PROVE Inv'
  OBVIOUS
<1>0. TypeOK'
  BY TypeStep DEF Inv
<1>1. ASSUME NEW t \in Threads, BeginWrite(t) \/ BeginRead(t) PROVE Inv'
  <2>1. PICK where : Start(t, where)
    BY <1>1 DEF BeginWrite, BeginRead
  <2> QED BY <1>0, <2>1, InvStart
<1>2. ASSUME NEW t \in Threads, Step(t) PROVE Inv'
  <2>1. CASE AllocTxBlock(t)
    BY <2>1, <1>0, InvReuseSpare, InvFreshBlock
  <2> QED
    BY <1>0, <1>2, <2>1, InvConsume, InvFollowNext, InvLinkTxBlock,
       InvReachTail, InvTryCommit DEF Step
<1>3. ASSUME NEW t \in Threads, ExitThread(t) \/ Crash(t) PROVE Inv'
  BY <1>0, <1>3, InvExitThread, InvCrash
<1>4. CASE UNCHANGED vars
  <2>1. UNCHANGED <<entry, next, seq, pool, avail, cand>> /\ UNCHANGED <<cursor, tabcur, pc>>
    BY <1>4 DEF vars
  <2>2. SparesPrivate' /\ CursorsSound'
    BY <2>1, ListUntouched DEF Inv, SparesPrivate, Spare, CursorsSound, Overflow
  <2> QED BY <1>0, <2>1, <2>2, ListUntouched DEF Inv
<1> QED BY <1>1, <1>2, <1>3, <1>4 DEF Next

(* The strengthening holds in every reachable state, for any number of     *)
(* threads, blocks and transactions and any capacities.                    *)
THEOREM InvHolds == Spec => []Inv
<1>1. Init => Inv
  BY InvInit
<1>2. Inv /\ [Next]_vars => Inv'
  BY InvStep
<1> QED BY <1>1, <1>2, PTL DEF Spec

(* The state of the log and of its readers and writers is well-formed.     *)
THEOREM TypeCorrect == Spec => []TypeOK
<1>1. Inv => TypeOK
  BY DEF Inv
<1> QED BY <1>1, InvHolds, PTL

(* The log never has a hole: appending only to the slot a cursor stands on *)
(* (TxCursor::try_commit) and linking only after a full block              *)
(* (handle_overflow) keep the valid entries a prefix.                      *)
THEOREM LogHasNoHoles == Spec => []LogContiguous
<1>1. Inv => LogContiguous
  BY DEF Inv
<1> QED BY <1>1, InvHolds, PTL

(* Racing threads never break the chain of tx blocks: the swap of the link *)
(* (TxBlock::try_set_next_tx_block) lets one block in, and a loser's block *)
(* stays its own.                                                          *)
THEOREM ChainIsSound == Spec => []ChainSound
<1>1. Inv => ChainSound
  BY DEF Inv
<1> QED BY <1>1, InvHolds, PTL

(* No recycled bytes are ever read as tx entries (TxBlockAllocator::alloc  *)
(* clears a block before it can be linked).                                *)
THEOREM NoStaleBytesRead == Spec => []NoStaleBytes
<1>1. Inv => NoStaleBytes
  BY DEF Inv
<1> QED BY <1>1, InvHolds, PTL

-----------------------------------------------------------------------------
\* What a step may do to a block of the list.
KeepsList(b) ==
  /\ \A i \in Idx : is_valid(entry[b][i]) => entry'[b][i] = entry[b][i]
  /\ next[b] # Null => next'[b] = next[b]

\* No action takes an entry or a link out of the list.
LEMMA StepKeepsList ==
  ASSUME Inv, Next, NEW b \in AllBlocks, Linked(b)
  PROVE  KeepsList(b)
<1>1. PICK t \in Threads :
        \/ BeginWrite(t) \/ BeginRead(t) \/ Step(t) \/ ExitThread(t) \/ Crash(t)
  BY DEF Next
<1>2. CASE AllocTxBlock(t)
  <2>1. CASE avail[t] # Null
    BY <1>2, <2>1 DEF AllocTxBlock, KeepsList
  <2>2. CASE avail[t] = Null
    <3>1. PICK d \in pool : /\ next' = [next EXCEPT ![d] = Null]
                            /\ entry' = [entry EXCEPT ![d] = [i \in Idx |-> Empty]]
      BY <1>2, <2>2 DEF AllocTxBlock, ZeroInit
    <3>2. d # b
      BY <3>1, LinkedNotFree
    <3> QED BY <3>1, <3>2 DEF KeepsList, Inv, TypeOK
  <2> QED BY <2>1, <2>2
<1>3. CASE LinkTxBlock(t)
  BY <1>3 DEF LinkTxBlock, try_set_next_tx_block, KeepsList, Inv, TypeOK
<1>4. CASE TryCommit(t)
  <2> DEFINE p == cursor[t].blk
             i == cursor[t].idx
             v == IF is_valid(entry[p][i]) THEN entry[p][i] ELSE <<t, ntx[t]>>
  <2>1. p \in AllBlocks /\ i \in Idx
    BY <1>4, SlotOfCursor DEF TryCommit, Inv, TypeOK
  <2>2. entry' = [entry EXCEPT ![p] = [entry[p] EXCEPT ![i] = v]]
    BY <1>4, <2>1 DEF TryCommit, try_append, Inv, TypeOK
  <2>3. \A j \in Idx : is_valid(entry[b][j]) => entry'[b][j] = entry[b][j]
    BY <2>1, <2>2 DEF Inv, TypeOK
  <2> QED BY <1>4, <2>3 DEF TryCommit, KeepsList
<1>5. CASE \/ BeginWrite(t) \/ BeginRead(t) \/ Consume(t) \/ FollowNext(t)
           \/ ReachTail(t) \/ ExitThread(t) \/ Crash(t)
  BY <1>5 DEF BeginWrite, BeginRead, Start, Consume, FollowNext, ReachTail,
              ExitThread, Crash, KeepsList
<1> QED BY <1>1, <1>2, <1>3, <1>4, <1>5 DEF Step

(* Committed entries and links are for ever (TxBlock::try_append and       *)
(* try_set_next_tx_block swap from zero, and only unlinked blocks are      *)
(* cleared).                                                               *)
THEOREM CommittedForEver == Spec => LogAppendOnly
<1>1. Inv /\ [Next]_vars =>
        [\A b \in AllBlocks : Linked(b) =>
           /\ \A i \in Idx : is_valid(entry[b][i]) => entry'[b][i] = entry[b][i]
           /\ next[b] # Null => next'[b] = next[b]]_vars
  BY StepKeepsList DEF KeepsList
<1> QED BY <1>1, InvHolds, PTL DEF Spec, LogAppendOnly

\* Where a walk ends, there is nothing behind its end.
LEMMA TailHasNothingBehind ==
  ASSUME Inv, NEW t \in Threads, AtTail(t),
         NEW b \in AllBlocks, NEW i \in Idx,
         Linked(b), i < get_capacity(b), is_valid(entry[b][i])
  PROVE  Before(b, i, cursor[t])
<1> DEFINE c == cursor[t]
<1>1. /\ c \in Cursors /\ c.blk \in AllBlocks /\ c.idx \in Nat
      /\ Linked(c.blk)
  BY DEF Inv, TypeOK, Cursors, CursorsSound, CursorSound
<1>2. i \in Nat /\ get_capacity(b) \in Nat
  BY CapacityFacts
<1>3. CASE b = c.blk
  <2>1. CASE Overflow(c)
    BY <1>1, <1>2, <1>3, <2>1 DEF Overflow, Before
  <2>2. CASE ~Overflow(c)
    <3>1. c.idx \in Idx /\ ~is_valid(entry[b][c.idx])
      BY <1>1, <1>3, <2>2, SlotOfCursor DEF AtTail, get_entry
    <3>2. ~(c.idx < i) /\ c.idx # i
      BY <3>1 DEF Inv, LogContiguous
    <3> QED BY <1>1, <1>2, <1>3, <3>2 DEF Before
  <2> QED BY <2>1, <2>2
<1>4. CASE b # c.blk
  <2>1. next[c.blk] = Null
    <3>1. CASE Overflow(c)
      BY <3>1 DEF AtTail
    <3>2. CASE ~Overflow(c)
      <4>1. c.idx \in Idx /\ c.idx < get_capacity(c.blk) /\ ~is_valid(entry[c.blk][c.idx])
        BY <1>1, <3>2, SlotOfCursor DEF AtTail, get_entry
      <4> QED BY <4>1, <1>1 DEF Inv, LogContiguous, Full
    <3> QED BY <3>1, <3>2
  <2>2. seq[c.blk] # seq[b] /\ ~(seq[c.blk] < seq[b])
    BY <1>1, <1>4, <2>1 DEF Inv, SeqTotal
  <2>3. seq[c.blk] \in Nat /\ seq[b] \in Nat
    BY <1>1 DEF Inv, TypeOK
  <2> QED BY <1>4, <2>2, <2>3 DEF Before
<1> QED BY <1>3, <1>4

(* A read or a replay that stops has seen every committed entry: the empty *)
(* slot, or the full block without a successor, at which                   *)
(* BlkTable::update_unsafe and ReadTx::exec stop is the end of the log.    *)
THEOREM WalkMissesNothing == Spec => TailIsTail
<1>1. ASSUME Inv, Next, NEW t \in Threads,
             pc[t] \in Walking, pc'[t] \in {"validate", "commit", "idle"},
             pc'[t] # pc[t]
      PROVE  AtTail(t)
  <2>1. PICK u \in Threads :
          \/ BeginWrite(u) \/ BeginRead(u) \/ Step(u) \/ ExitThread(u) \/ Crash(u)
    BY <1>1 DEF Next
  <2>2. ~Consume(u) /\ ~FollowNext(u) /\ ~AllocTxBlock(u) /\ ~LinkTxBlock(u)
    BY <1>1 DEF Consume, FollowNext, AllocTxBlock, LinkTxBlock
  <2>3. ~BeginWrite(u) /\ ~BeginRead(u) /\ ~TryCommit(u) /\ ~ExitThread(u) /\ ~Crash(u)
    BY <1>1 DEF BeginWrite, BeginRead, Start, TryCommit, ExitThread, Crash,
                Walking, Replaying, Inv, TypeOK
  <2>4. ReachTail(u) /\ u = t
    BY <1>1, <2>1, <2>2, <2>3 DEF Step, ReachTail, Inv, TypeOK
  <2> QED BY <2>4 DEF ReachTail
<1>2. Inv /\ [Next]_vars =>
        [\A t \in Threads :
           (/\ pc[t] \in Walking
            /\ pc'[t] \in {"validate", "commit", "idle"}
            /\ pc'[t] # pc[t])
           => \A b \in AllBlocks, i \in Idx :
                (Linked(b) /\ i < get_capacity(b) /\ is_valid(entry[b][i]))
                  => Before(b, i, cursor[t])]_vars
  BY <1>1, TailHasNothingBehind
<1> QED BY <1>2, InvHolds, PTL DEF Spec, TailIsTail
=============================================================================
