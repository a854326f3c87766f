---------------------------- MODULE TxLogBasics ----------------------------
(* Proofs about TxLog, part 1: what the initial state and a typed step give, *)
(* and the steps that leave the shared list of tx blocks as it is.           *)
EXTENDS TxLog, TLAPS

USE TxLogConstants

\* A block has at least one slot, and its slots are indices (get_capacity).
LEMMA CapacityFacts ==
  /\ \A b : get_capacity(b) \in Nat \ {0}
  /\ \A b, i : i \in Nat /\ i < get_capacity(b) => i \in Idx
  /\ Idx \subseteq Nat
  BY DEF get_capacity, Idx

\* A cursor that does not overflow names a slot of its block.
LEMMA SlotOfCursor ==
  ASSUME NEW c \in Cursors, ~Overflow(c)
  PROVE  c.blk \in AllBlocks /\ c.idx \in Idx /\ c.idx < get_capacity(c.blk)
  BY DEF Cursors, Overflow, get_capacity, Idx

\* A fresh file is well-formed.
LEMMA TypeInit == Init => TypeOK
  BY DEF Init, TypeOK, AllBlocks, Cursors, PCs, Walking, Replaying

\* Every action keeps the state well-formed.
LEMMA TypeStep == TypeOK /\ [Next]_vars => TypeOK'
<1> SUFFICES ASSUME TypeOK, [Next]_vars PROVE TypeOK'
  OBVIOUS
<1> USE DEF TypeOK, PCs, Walking, Replaying, HasAllocator
<1>1. ASSUME NEW t \in Threads, BeginWrite(t) PROVE TypeOK'
  BY <1>1 DEF BeginWrite, Start
<1>2. ASSUME NEW t \in Threads, BeginRead(t) PROVE TypeOK'
  BY <1>2 DEF BeginRead, Start
<1>3. ASSUME NEW t \in Threads, Consume(t) PROVE TypeOK'
  BY <1>3 DEF Consume, Cursors, Advance
<1>4. ASSUME NEW t \in Threads, FollowNext(t) PROVE TypeOK'
  BY <1>4, CapacityFacts DEF FollowNext, Cursors, EnterBlock, Overflow
<1>5. ASSUME NEW t \in Threads, AllocTxBlock(t) PROVE TypeOK'
  <2>0. seq[cursor[t].blk] + 1 \in Nat
    BY DEF Cursors
  <2>1. CASE avail[t] # Null
    BY <1>5, <2>0, <2>1, SMTT(20) DEF AllocTxBlock, AllBlocks
  <2>2. CASE avail[t] = Null
    <3>1. PICK b \in pool :
             /\ cand' = [cand EXCEPT ![t] = b]
             /\ pool' = pool \ {b}
             /\ seq' = [seq EXCEPT ![b] = seq[cursor[t].blk] + 1]
             /\ next' = [next EXCEPT ![b] = Null]
             /\ entry' = [entry EXCEPT ![b] = [i \in Idx |-> Empty]]
      BY <1>5, <2>2 DEF AllocTxBlock, ZeroInit
    <3> QED BY <1>5, <2>0, <2>2, <3>1 DEF AllocTxBlock, AllBlocks
  <2> QED BY <2>1, <2>2
<1>6. ASSUME NEW t \in Threads, LinkTxBlock(t) PROVE TypeOK'
  <2>1. next' \in [AllBlocks -> AllBlocks]
    BY <1>6 DEF LinkTxBlock, try_set_next_tx_block, Cursors
  <2>2. cursor[t].idx - get_capacity(cursor[t].blk) \in Nat
    BY <1>6, CapacityFacts DEF LinkTxBlock, Overflow, Cursors
  <2> QED BY <1>6, <2>1, <2>2 DEF LinkTxBlock, Cursors, EnterBlock, AllBlocks
<1>7. ASSUME NEW t \in Threads, ReachTail(t) PROVE TypeOK'
  BY <1>7 DEF ReachTail
<1>8. ASSUME NEW t \in Threads, TryCommit(t) PROVE TypeOK'
  <2> DEFINE b == cursor[t].blk
             i == cursor[t].idx
             v == IF is_valid(entry[b][i]) THEN entry[b][i] ELSE <<t, ntx[t]>>
  <2>1. b \in AllBlocks /\ i \in Idx
    BY <1>8, SlotOfCursor DEF TryCommit
  <2>2. <<t, ntx[t]>> \in Txs
    BY DEF Txs
  <2>3. entry[b] \in [Idx -> Txs \cup {Empty, Junk}]
    BY <2>1
  <2>4. v \in Txs \cup {Empty, Junk}
    BY <2>1, <2>2, <2>3
  <2>5. entry' = [entry EXCEPT ![b] = [entry[b] EXCEPT ![i] = v]]
    BY <1>8, <2>1 DEF TryCommit, try_append
  <2>6. [entry[b] EXCEPT ![i] = v] \in [Idx -> Txs \cup {Empty, Junk}]
    BY <2>1, <2>3, <2>4
  <2>7. entry' \in [AllBlocks -> [Idx -> Txs \cup {Empty, Junk}]]
    BY <2>1, <2>5, <2>6
  <2> QED BY <1>8, <2>7 DEF TryCommit
<1>9. ASSUME NEW t \in Threads, ExitThread(t) PROVE TypeOK'
  BY <1>9 DEF ExitThread, AllBlocks
<1>10. ASSUME NEW t \in Threads, Crash(t) PROVE TypeOK'
  BY <1>10 DEF Crash
<1>11. CASE UNCHANGED vars
  BY <1>11 DEF vars
<1> QED
  BY <1>1, <1>2, <1>3, <1>4, <1>5, <1>6, <1>7, <1>8, <1>9, <1>10, <1>11
     DEF Next, Step

-----------------------------------------------------------------------------
\* A fresh file has the meta block as its whole list, and nothing in it.
LEMMA InvInit == Init => Inv
<1> SUFFICES ASSUME Init PROVE Inv
  OBVIOUS
<1>1. TypeOK
  BY TypeInit
<1>2. \A b \in AllBlocks : Linked(b) <=> b = Null
  BY DEF Init, Linked, AllBlocks
<1>3. LogContiguous /\ ChainSound /\ NoStaleBytes /\ SeqTotal
  BY <1>2 DEF Init, LogContiguous, ChainSound, NoStaleBytes, SeqTotal,
              AllBlocks, Full, is_valid
<1>4. SparesPrivate
  <2>1. \A t \in Threads : Spare(t) = {} /\ cand[t] = Null
    BY DEF Init, Spare
  <2> QED BY <2>1 DEF SparesPrivate
<1>5. CursorsSound
  <2> DEFINE c == [blk |-> Null, idx |-> 0]
  <2>1. c.blk = Null /\ c.idx = 0
    OBVIOUS
  <2>2. \A i \in Idx : ~(i < 0)
    BY DEF Idx
  <2>3. Linked(Null) /\ 0 <= get_capacity(Null)
    BY DEF Linked, get_capacity
  <2>4. CursorSound(c)
    BY <2>1, <2>2, <2>3 DEF CursorSound
  <2> QED BY <2>4 DEF Init, CursorsSound
<1> QED BY <1>1, <1>3, <1>4, <1>5 DEF Inv

\* Steps that leave the shared blocks alone keep what is said about the list.
LEMMA ListUntouched ==
  ASSUME Inv, UNCHANGED <<entry, next, seq, pool, avail, cand>>
  PROVE  /\ \A b : Linked(b)' <=> Linked(b)
         /\ LogContiguous' /\ ChainSound' /\ NoStaleBytes' /\ SeqTotal'
         /\ \A c : CursorSound(c) => CursorSound(c)'
<1>1. \A b : Linked(b)' <=> Linked(b)
  BY DEF Linked
<1>2. LogContiguous'
  BY <1>1 DEF Inv, LogContiguous, Full
<1>3. ChainSound'
  BY DEF Inv, ChainSound
<1>4. NoStaleBytes' /\ SeqTotal'
  BY <1>1 DEF Inv, NoStaleBytes, SeqTotal
<1>5. \A c : CursorSound(c) => CursorSound(c)'
  BY <1>1 DEF CursorSound
<1> QED BY <1>1, <1>2, <1>3, <1>4, <1>5

\* An operation starts from a cursor that was sound when it was published.
LEMMA InvStart ==
  ASSUME Inv, TypeOK', NEW t \in Threads, NEW where, Start(t, where)
  PROVE  Inv'
<1>1. SparesPrivate'
  BY ListUntouched DEF Start, Inv, SparesPrivate, Spare, TypeOK, HasAllocator
<1>2. CursorsSound'
  BY ListUntouched DEF Start, Inv, CursorsSound, TypeOK
<1> QED BY <1>1, <1>2, ListUntouched DEF Start, Inv

\* Passing a valid entry extends the prefix the cursor has seen.
LEMMA InvConsume ==
  ASSUME Inv, TypeOK', NEW t \in Threads, Consume(t)
  PROVE  Inv'
<1>1. SparesPrivate'
  BY ListUntouched DEF Consume, Inv, SparesPrivate, Spare, TypeOK
<1>2. cursor[t] \in Cursors
  BY DEF Inv, TypeOK
<1>3. CursorSound(Advance(cursor[t]))
  BY <1>2, SlotOfCursor, CapacityFacts
     DEF Consume, Inv, CursorsSound, CursorSound, Advance, get_entry, Cursors
<1>4. CursorsSound'
  BY <1>3, ListUntouched DEF Consume, Inv, CursorsSound, TypeOK
<1> QED BY <1>1, <1>4, ListUntouched DEF Consume, Inv

\* A block of the list is not in the pool.
LEMMA LinkedNotFree ==
  ASSUME Inv, NEW b \in AllBlocks, Linked(b)
  PROVE  b \notin pool
  BY DEF Inv, Linked, ChainSound, TypeOK

\* Where a cursor lands when it leaves a full block for a linked one.
LEMMA EnterSound ==
  ASSUME Inv, NEW c \in Cursors, CursorSound(c), Overflow(c),
         NEW b, Linked(b)
  PROVE  CursorSound(EnterBlock(c, b))
<1> DEFINE d == EnterBlock(c, b)
<1>1. c.idx = get_capacity(c.blk)
  BY CapacityFacts DEF CursorSound, Overflow, Cursors
<1>2. d.blk = b /\ d.idx = 0
  BY <1>1, CapacityFacts DEF EnterBlock, Cursors
<1>3. \A i \in Idx : ~(i < 0)
  BY DEF Idx
<1>4. 0 <= get_capacity(b)
  BY DEF get_capacity
<1> HIDE DEF d
<1>5. CursorSound(d)
  BY <1>2, <1>3, <1>4 DEF CursorSound
<1> QED BY <1>5 DEF d

\* TxCursor::handle_overflow to a block already linked.
LEMMA InvFollowNext ==
  ASSUME Inv, TypeOK', NEW t \in Threads, FollowNext(t)
  PROVE  Inv'
<1>1. SparesPrivate'
  BY ListUntouched, SMTT(20) DEF FollowNext, Inv, SparesPrivate, Spare, TypeOK
<1>2. cursor[t] \in Cursors /\ cursor[t].blk \in AllBlocks
  BY DEF Inv, TypeOK, Cursors
<1>3. Linked(next[cursor[t].blk])
  BY <1>2, LinkedNotFree DEF Inv, CursorsSound, CursorSound, Linked
<1>4. CursorSound(EnterBlock(cursor[t], next[cursor[t].blk]))
  BY <1>2, <1>3, EnterSound DEF FollowNext, Inv, CursorsSound
<1>5. CursorsSound'
  BY <1>4, ListUntouched DEF FollowNext, Inv, CursorsSound, TypeOK
<1> QED BY <1>1, <1>5, ListUntouched DEF FollowNext, Inv

\* Publishing a sound cursor in the block table.
LEMMA InvReachTail ==
  ASSUME Inv, TypeOK', NEW t \in Threads, ReachTail(t)
  PROVE  Inv'
<1>1. SparesPrivate'
  BY ListUntouched DEF ReachTail, Inv, SparesPrivate, Spare, TypeOK
<1>2. CursorsSound'
  BY ListUntouched DEF ReachTail, Inv, CursorsSound, TypeOK
<1> QED BY <1>1, <1>2, ListUntouched DEF ReachTail, Inv

\* A dead thread keeps what it had; nobody else can reach it.
LEMMA InvCrash ==
  ASSUME Inv, TypeOK', NEW t \in Threads, Crash(t)
  PROVE  Inv'
<1>1. SparesPrivate'
  BY ListUntouched, SMTT(20) DEF Crash, Inv, SparesPrivate, Spare, TypeOK
<1>2. CursorsSound'
  BY ListUntouched DEF Crash, Inv, CursorsSound, TypeOK
<1> QED BY <1>1, <1>2, ListUntouched DEF Crash, Inv
=============================================================================
