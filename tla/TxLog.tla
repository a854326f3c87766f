------------------------------- MODULE TxLog -------------------------------
(***************************************************************************)
(* The transaction log of one MadFS file: the tx entries inlined in the    *)
(* meta block (logical block 0) followed by a linked list of tx blocks.    *)
(* Threads of any number of processes replay the log with a private        *)
(* cursor, append to it with a compare-and-swap on the first empty slot,   *)
(* and race to link a new tx block when the last one is full.              *)
(*                                                                         *)
(* Every thread stands for a process of its own: tabcur[t] is the cursor   *)
(* kept in that process's BlkTable.  Threads that share a BlkTable are the *)
(* subject of module OccFile.  There is no garbage collector here, so what *)
(* a linked block holds never goes away.                                   *)
(***************************************************************************)
EXTENDS Naturals

CONSTANTS
  Threads,    \* threads operating on the file
  TxBlocks,   \* logical blocks the allocator can hand out
  NumInline,  \* NUM_INLINE_TX_ENTRY: tx entries in the meta block
  PerBlock,   \* NUM_TX_ENTRY_PER_BLOCK: tx entries in a tx block
  MaxTx,      \* bound: write transactions per thread
  Mortal,     \* bound: the threads that may die
  Empty,      \* the all-zero tx entry
  Junk        \* non-zero bytes left in a recycled block

Null == 0     \* LogicalBlockIdx 0: the meta block, and "no block" in a link

ASSUME TxLogConstants ==
  /\ NumInline \in Nat \ {0}
  /\ PerBlock \in Nat \ {0}
  /\ MaxTx \in Nat /\ Mortal \subseteq Threads
  /\ Null \notin TxBlocks
  /\ Empty # Junk
  /\ Empty \notin Threads \X Nat
  /\ Junk \notin Threads \X Nat

AllBlocks == {Null} \cup TxBlocks
Idx == 0 .. ((IF NumInline > PerBlock THEN NumInline ELSE PerBlock) - 1)
Txs == Threads \X (0 .. MaxTx)
Cursors == [blk : AllBlocks, idx : Nat]

VARIABLES
  entry,   \* entry[b][i]: slot i of block b (std::atomic<TxEntry>)
  next,    \* next[b]: next tx block in the list, Null if none
  seq,     \* seq[b]: tx_seq of the block
  pool,    \* blocks the block allocator has not handed out
  avail,   \* avail[t]: avail_tx_block kept after a lost race, Null if none
  cand,    \* cand[t]: block allocated by alloc_next and not yet linked
  cursor,  \* cursor[t]: state.cursor of the running operation
  tabcur,  \* tabcur[t]: blk_table.state.cursor of the thread's process
  pc,      \* pc[t]: where the operation stands
  ntx      \* ntx[t]: write transactions started

vars == <<entry, next, seq, pool, avail, cand, cursor, tabcur, pc, ntx>>

(* "update": BlkTable::update with an allocator (pwrite);                  *)
(* "replay": BlkTable::update without one (write at the file offset);      *)
(* "read":   BlkTable::update without one (read, fsync);                   *)
(* "commit": TxCursor::try_commit;  "conflict": Tx::handle_conflict;       *)
(* "validate": the loop at the end of ReadTx::exec.                        *)
Replaying == {"update", "replay", "read"}
Walking == Replaying \cup {"conflict", "validate"}
HasAllocator == {"update", "commit"}
PCs == Walking \cup {"idle", "commit", "exited", "dead"}

TypeOK ==
  /\ entry \in [AllBlocks -> [Idx -> Txs \cup {Empty, Junk}]]
  /\ next \in [AllBlocks -> AllBlocks]
  /\ seq \in [AllBlocks -> Nat]
  /\ pool \subseteq TxBlocks
  /\ avail \in [Threads -> AllBlocks]
  /\ cand \in [Threads -> AllBlocks]
  /\ cursor \in [Threads -> Cursors]
  /\ tabcur \in [Threads -> Cursors]
  /\ pc \in [Threads -> PCs]
  /\ ntx \in [Threads -> 0 .. MaxTx]

(***************************************************************************)
(* The meta block of a fresh file is zero; the blocks the allocator hands  *)
(* out may be recycled ones that hold old data anywhere, the place of the  *)
(* link and of the sequence number included.                               *)
(***************************************************************************)
Init ==
  /\ entry = [b \in AllBlocks |->
                [i \in Idx |-> IF b = Null THEN Empty ELSE Junk]]
  /\ next = [b \in AllBlocks |-> b]
  /\ seq = [b \in AllBlocks |-> 0]
  /\ pool = TxBlocks
  /\ avail = [t \in Threads |-> Null]
  /\ cand = [t \in Threads |-> Null]
  /\ cursor = [t \in Threads |-> [blk |-> Null, idx |-> 0]]
  /\ tabcur = [t \in Threads |-> [blk |-> Null, idx |-> 0]]
  /\ pc = [t \in Threads |-> "idle"]
  /\ ntx = [t \in Threads |-> 0]

(***************************************************************************)
(* Pieces of TxEntryIdx, TxCursor and TxBlock.                             *)
(***************************************************************************)
get_capacity(b) == IF b = Null THEN NumInline ELSE PerBlock
is_valid(e) == e # Empty
Overflow(c) == c.idx >= get_capacity(c.blk)
get_entry(c) == entry[c.blk][c.idx]
InOperation(t) == pc[t] \notin {"idle", "exited", "dead"}

Advance(c) == [blk |-> c.blk, idx |-> c.idx + 1]

\* fault: the local index is kept when the cursor enters the next block
EnterBlockKeepIdx(c, b) == [blk |-> b, idx |-> c.idx]

\* The cursor leaves its full block for block b (idx.local_idx -= capacity).
EnterBlock(c, b) == [blk |-> b, idx |-> c.idx - get_capacity(c.blk)]

\* fault: a recycled block is handed out without being zeroed
ZeroInitSkipped(b) == UNCHANGED entry

ZeroInit(b) == entry' = [entry EXCEPT ![b] = [i \in Idx |-> Empty]]

\* fault: the link is stored whatever it was
set_next_tx_block(p, b) == next' = [next EXCEPT ![p] = b]

\* Compare-and-swap of the link from zero.
try_set_next_tx_block(p, b) ==
  next' = [next EXCEPT ![p] = IF @ = Null THEN b ELSE @]

\* fault: the entry is stored whatever the slot held
append_unchecked(c, e) == entry' = [entry EXCEPT ![c.blk][c.idx] = e]

\* Compare-and-swap of the slot from the empty entry.
try_append(c, e) ==
  entry' = [entry EXCEPT ![c.blk][c.idx] = IF is_valid(@) THEN @ ELSE e]

(***************************************************************************)
(* Operations start from the cursor of the process's block table.          *)
(***************************************************************************)
Start(t, where) ==
  /\ pc[t] = "idle"
  /\ pc' = [pc EXCEPT ![t] = where]
  /\ cursor' = [cursor EXCEPT ![t] = tabcur[t]]
  /\ UNCHANGED <<entry, next, seq, pool, avail, cand, tabcur>>

\* File::pwrite updates the table with an allocator, File::write without one.
BeginWrite(t) ==
  /\ ntx[t] < MaxTx
  /\ ntx' = [ntx EXCEPT ![t] = @ + 1]
  /\ \E where \in {"update", "replay"} : Start(t, where)

BeginRead(t) ==
  /\ Start(t, "read")
  /\ UNCHANGED ntx

\* The cursor is at a valid entry: apply it and go on (idx.local_idx++).
Consume(t) ==
  /\ pc[t] \in Walking
  /\ ~Overflow(cursor[t])
  /\ is_valid(get_entry(cursor[t]))
  /\ cursor' = [cursor EXCEPT ![t] = Advance(@)]
  /\ UNCHANGED <<entry, next, seq, pool, avail, cand, tabcur, pc, ntx>>

\* TxCursor::handle_overflow when the next block is already linked.
FollowNext(t) ==
  /\ pc[t] \in Walking \cup {"commit"}
  /\ cand[t] = Null
  /\ Overflow(cursor[t])
  /\ next[cursor[t].blk] # Null
  /\ cursor' = [cursor EXCEPT ![t] = EnterBlock(@, next[@.blk])]
  /\ UNCHANGED <<entry, next, seq, pool, avail, cand, tabcur, pc, ntx>>

(***************************************************************************)
(* TxBlockAllocator::alloc, called by alloc_next: reuse the block kept     *)
(* after a lost race (only its sequence number is set), else take one from *)
(* the block allocator, clear it and set its sequence number.              *)
(***************************************************************************)
AllocTxBlock(t) ==
  /\ pc[t] \in HasAllocator
  /\ cand[t] = Null
  /\ Overflow(cursor[t])
  /\ next[cursor[t].blk] = Null
  /\ \/ /\ avail[t] # Null
        /\ cand' = [cand EXCEPT ![t] = avail[t]]
        /\ avail' = [avail EXCEPT ![t] = Null]
        /\ seq' = [seq EXCEPT ![avail[t]] = seq[cursor[t].blk] + 1]
        /\ UNCHANGED <<pool, next, entry>>
     \/ /\ avail[t] = Null
        /\ \E b \in pool :
             /\ cand' = [cand EXCEPT ![t] = b]
             /\ pool' = pool \ {b}
             /\ seq' = [seq EXCEPT ![b] = seq[cursor[t].blk] + 1]
             /\ next' = [next EXCEPT ![b] = Null]
             /\ ZeroInit(b)
        /\ UNCHANGED avail
  /\ UNCHANGED <<cursor, tabcur, pc, ntx>>

(***************************************************************************)
(* The rest of alloc_next and handle_overflow: the winner's block becomes  *)
(* the next one; a loser keeps its block in avail_tx_block and moves to    *)
(* the winner's.  The load of the link after a failed swap is part of the  *)
(* step: a link never changes once set.                                    *)
(***************************************************************************)
LinkTxBlock(t) ==
  /\ InOperation(t)
  /\ cand[t] # Null
  /\ Overflow(cursor[t])
  /\ try_set_next_tx_block(cursor[t].blk, cand[t])
  /\ avail' = IF next[cursor[t].blk] = Null THEN avail
              ELSE [avail EXCEPT ![t] = cand[t]]
  /\ cursor' = [cursor EXCEPT ![t] = EnterBlock(@, next'[@.blk])]
  /\ cand' = [cand EXCEPT ![t] = Null]
  /\ UNCHANGED <<entry, seq, pool, tabcur, pc, ntx>>

\* fault: an overflowing cursor with no next block is not taken for the tail
AtTailNoOverflow(t) ==
  /\ ~Overflow(cursor[t])
  /\ ~is_valid(get_entry(cursor[t]))

\* fault: a full block is taken for the last one without loading its link
AtTailNoLink(t) ==
  \/ ~Overflow(cursor[t]) /\ ~is_valid(get_entry(cursor[t]))
  \/ Overflow(cursor[t]) /\ pc[t] \notin HasAllocator

(***************************************************************************)
(* The walk ends at an empty slot or, for a caller without an allocator,   *)
(* when handle_overflow returns false.                                     *)
(***************************************************************************)
AtTail(t) ==
  \/ /\ ~Overflow(cursor[t])
     /\ ~is_valid(get_entry(cursor[t]))
  \/ /\ Overflow(cursor[t])
     /\ next[cursor[t].blk] = Null
     /\ pc[t] \notin HasAllocator

\* No entry was met, only an overflowing cursor was resolved.
SameSpot(t) ==
  \/ cursor[t] = tabcur[t]
  \/ /\ Overflow(tabcur[t])
     /\ cursor[t] = EnterBlock(tabcur[t], next[tabcur[t].blk])

(***************************************************************************)
(* BlkTable::update publishes the cursor it reached, except that           *)
(* need_update returns early when there is nothing to apply; update(fn),   *)
(* used by File::write, never takes that shortcut.                         *)
(***************************************************************************)
ReachTail(t) ==
  /\ pc[t] \in Walking
  /\ cand[t] = Null
  /\ AtTail(t)
  /\ pc' = [pc EXCEPT ![t] = CASE @ = "read" -> "validate"
                               [] @ = "validate" -> "idle"
                               [] OTHER -> "commit"]
  /\ tabcur' = IF pc[t] = "replay" \/ (pc[t] \in Replaying /\ ~SameSpot(t))
               THEN [tabcur EXCEPT ![t] = cursor[t]] ELSE tabcur
  /\ UNCHANGED <<entry, next, seq, pool, avail, cand, cursor, ntx>>

(***************************************************************************)
(* TxCursor::try_commit once the overflow is resolved: on success the      *)
(* transaction is over, else handle_conflict walks from the entry found.   *)
(***************************************************************************)
TryCommit(t) ==
  /\ pc[t] = "commit"
  /\ ~Overflow(cursor[t])
  /\ try_append(cursor[t], <<t, ntx[t]>>)
  /\ pc' = [pc EXCEPT ![t] =
       IF is_valid(get_entry(cursor[t])) THEN "conflict" ELSE "idle"]
  /\ UNCHANGED <<next, seq, pool, avail, cand, cursor, tabcur, ntx>>

\* fault: the kept block is freed without looking whether there is one
ExitThreadUnchecked(t) ==
  /\ pc[t] = "idle"
  /\ pc' = [pc EXCEPT ![t] = "exited"]
  /\ pool' = pool \cup {avail[t]}
  /\ avail' = [avail EXCEPT ![t] = Null]
  /\ UNCHANGED <<entry, next, seq, cand, cursor, tabcur, ntx>>

\* ~TxBlockAllocator: the kept block goes back to the block allocator.
ExitThread(t) ==
  /\ pc[t] = "idle"
  /\ pc' = [pc EXCEPT ![t] = "exited"]
  /\ pool' = pool \cup ({avail[t]} \ {Null})
  /\ avail' = [avail EXCEPT ![t] = Null]
  /\ UNCHANGED <<entry, next, seq, cand, cursor, tabcur, ntx>>

\* The process dies anywhere; what it had allocated is lost.
Crash(t) ==
  /\ pc[t] \notin {"exited", "dead"}
  /\ pc' = [pc EXCEPT ![t] = "dead"]
  /\ UNCHANGED <<entry, next, seq, pool, avail, cand, cursor, tabcur, ntx>>

Step(t) ==
  \/ Consume(t)
  \/ FollowNext(t)
  \/ AllocTxBlock(t)
  \/ LinkTxBlock(t)
  \/ ReachTail(t)
  \/ TryCommit(t)

Next ==
  \E t \in Threads :
    \/ BeginWrite(t)
    \/ BeginRead(t)
    \/ Step(t)
    \/ ExitThread(t)
    \/ t \in Mortal /\ Crash(t)

Spec == Init /\ [][Next]_vars

\* The scheduler runs every live thread: a step it can take is taken.
FairSpec == Spec /\ \A t \in Threads : WF_vars(Step(t))

-----------------------------------------------------------------------------
(***************************************************************************)
(* Properties.                                                             *)
(***************************************************************************)

\* A block of the list: the meta block, or the target of a link.
Linked(b) == b = Null \/ \E p \in AllBlocks \ pool : next[p] = b
Full(b) == \A i \in Idx : i < get_capacity(b) => is_valid(entry[b][i])

(* TxLog stays a list without holes: in a linked block every slot before a *)
(* valid one is valid, and a block has a successor only when all its slots *)
(* are taken.  Replay stops at the first empty slot (blk_table.h:124), so  *)
(* an entry behind a hole would be a committed write nobody sees.          *)
LogContiguous ==
  \A b \in AllBlocks : Linked(b) =>
    /\ \A i, j \in Idx :
         (i < j /\ j < get_capacity(b) /\ is_valid(entry[b][j]))
           => is_valid(entry[b][i])
    /\ next[b] # Null => Full(b)

(* The list of tx blocks is one chain: two blocks never share a successor, *)
(* the successor's tx_seq is one more (TxCursor::operator< orders cursors  *)
(* by it), and a block in the chain is neither free nor kept by a thread   *)
(* as its spare (tx_block.h:55-67).                                        *)
ChainSound ==
  \A p \in AllBlocks \ pool : next[p] # Null =>
    /\ seq[next[p]] = seq[p] + 1
    /\ next[p] \notin pool
    /\ \A q \in AllBlocks \ pool : next[q] = next[p] => q = p
    /\ \A t \in Threads : next[p] # avail[t] /\ next[p] # cand[t]

(* A block in the list holds committed entries and empty slots only, never *)
(* the bytes it held before it was recycled (tx_block.h:13-15, 84-90).     *)
NoStaleBytes ==
  \A b \in AllBlocks : Linked(b) => \A i \in Idx : entry[b][i] # Junk

(* A committed entry is never overwritten and a link never changes: every  *)
(* process that replayed it has built on it (tx_entry.h:142-154).          *)
LogAppendOnly ==
  [][\A b \in AllBlocks : Linked(b) =>
       /\ \A i \in Idx : is_valid(entry[b][i]) => entry'[b][i] = entry[b][i]
       /\ next[b] # Null => next'[b] = next[b]]_vars

\* TxCursor::operator<, for a slot of block b and a cursor.
Before(b, i, c) == \/ b = c.blk /\ i < c.idx
                   \/ b # c.blk /\ seq[b] < seq[c.blk]

(* When a read or a replay decides that it has reached the end of the log, *)
(* every entry committed so far is behind its cursor: it has missed none.  *)
TailIsTail ==
  [][\A t \in Threads :
       (/\ pc[t] \in Walking
        /\ pc'[t] \in {"validate", "commit", "idle"}
        /\ pc'[t] # pc[t])
       => \A b \in AllBlocks, i \in Idx :
            (Linked(b) /\ i < get_capacity(b) /\ is_valid(entry[b][i]))
              => Before(b, i, cursor[t])]_vars

(* Under fair scheduling every operation of a live thread ends, whatever   *)
(* the other threads do and even if they die in the middle of a step: no   *)
(* thread waits for another (the writes of the others are bounded).        *)
OperationsEnd ==
  \A t \in Threads : InOperation(t) ~> ~InOperation(t)

-----------------------------------------------------------------------------
(***************************************************************************)
(* The inductive strengthening of the safety properties above.             *)
(***************************************************************************)

\* What thread t keeps for itself: at most one block, empty and unlinked.
Spare(t) == {avail[t], cand[t]} \ {Null}

(* A spare is out of the pool, blank, not in the list and nobody else's;   *)
(* a candidate for a link is numbered one past the block it was taken for. *)
SparesPrivate ==
  \A t \in Threads :
    /\ \A b \in Spare(t) :
         /\ b \notin pool
         /\ ~Linked(b)
         /\ next[b] = Null
         /\ \A i \in Idx : entry[b][i] = Empty
         /\ \A u \in Threads : b \in Spare(u) => u = t
    /\ cand[t] # Null =>
         /\ pc[t] \in HasAllocator \cup {"dead"}
         /\ avail[t] = Null
         /\ Overflow(cursor[t])
         /\ seq[cand[t]] = seq[cursor[t].blk] + 1

\* A cursor stands in the list, at most one past a block, on a taken prefix.
CursorSound(c) ==
  /\ Linked(c.blk)
  /\ c.idx <= get_capacity(c.blk)
  /\ \A i \in Idx : i < c.idx => is_valid(entry[c.blk][i])

CursorsSound == \A t \in Threads : CursorSound(cursor[t]) /\ CursorSound(tabcur[t])

\* tx_seq numbers the list: only the highest block can be the last one.
SeqTotal ==
  \A p, q \in AllBlocks : (Linked(p) /\ Linked(q) /\ p # q) =>
    /\ seq[p] # seq[q]
    /\ seq[p] < seq[q] => next[p] # Null

Inv ==
  /\ TypeOK
  /\ LogContiguous
  /\ ChainSound
  /\ NoStaleBytes
  /\ SparesPrivate
  /\ CursorsSound
  /\ SeqTotal
=============================================================================
