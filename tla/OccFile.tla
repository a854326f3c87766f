------------------------------ MODULE OccFile ------------------------------
(***************************************************************************)
(* Reads and writes of one MadFS file as optimistic transactions: pread    *)
(* (ReadTx) and pwrite (AlignedTx, SingleBlockTx, MultiBlockTx) by threads *)
(* of several processes.  The transaction log is the append-only sequence  *)
(* that TxLog is shown to implement.  A block holds BlockSize cells; a     *)
(* cell holds the identity of the write it comes from.                     *)
(*                                                                         *)
(* Every process has a block table (BlkTable), brought up to date under a  *)
(* spinlock and looked up without it; every thread has a free list of its  *)
(* own.  Garbage collection and the file offset are not part of this       *)
(* module: only pread and pwrite occur.                                    *)
(***************************************************************************)
EXTENDS Integers, Sequences, FiniteSetsExt

CONSTANTS
  Threads, Procs,
  ProcOf,     \* ProcOf[t]: the process of thread t
  NumVBlocks, \* virtual blocks of the file
  NumBlocks,  \* logical blocks 1 .. NumBlocks; 0 is "not allocated"
  BlockSize,  \* cells per block
  Chunk,      \* BITMAP_ENTRY_BLOCKS_CAPACITY
  MaxInline,  \* TxEntryInline::NUM_BLOCKS_MAX
  Reads,      \* ranges [off, cnt] that are read
  Writes,     \* Writes[t]: ranges [off, cnt] that thread t writes
  MaxOps,     \* bound: MaxOps[t] operations of thread t
  Mortal,     \* bound: the processes that may die
  Nobody      \* no thread

Ranges == [off : 0 .. NumVBlocks * BlockSize - 1,
           cnt : 1 .. NumVBlocks * BlockSize]

ASSUME OccFileConstants ==
  /\ ProcOf \in [Threads -> Procs]
  /\ NumVBlocks \in Nat \ {0} /\ NumBlocks \in Nat \ {0}
  /\ BlockSize \in Nat \ {0} /\ Chunk \in Nat \ {0} /\ MaxInline \in 0 .. Chunk
  /\ Reads \subseteq Ranges /\ Writes \in [Threads -> SUBSET Ranges]
  /\ \A t \in Threads : \A r \in Writes[t] : r.off + r.cnt <= NumVBlocks * BlockSize
  /\ MaxOps \in [Threads -> Nat] /\ Mortal \subseteq Procs
  /\ Nobody \notin Threads

VIdx == 0 .. NumVBlocks - 1
Lidx == 1 .. NumBlocks
InBlock == 0 .. BlockSize - 1
Zero == <<>>                       \* the content of a hole
Junk == <<"junk">>                 \* what a block held in an earlier life
Values == {Zero, Junk} \cup UNION {{t} \X (1 .. MaxOps[t]) : t \in Threads}

VARIABLES
  log,     \* the committed tx entries, in order
  data,    \* data[l]: cells of logical block l
  pool,    \* blocks not allocated in the shared bitmap
  mine,    \* mine[t]: blocks in the free lists of thread t
  table,   \* table[p][v]: BlkTable::table of process p
  tcur,    \* tcur[p]: BlkTable::state.cursor, as a number of entries
  tsize,   \* tsize[p]: BlkTable::state.file_size
  holder,  \* holder[p]: thread in the spinlock (version is odd), or Nobody
  pc,      \* pc[t]: where the transaction stands
  tx,      \* tx[t]: the fields of the transaction
  nops     \* nops[t]: operations started

vars == <<log, data, pool, mine, table, tcur, tsize, holder, pc, tx, nops>>

(***************************************************************************)
(* Ranges of cells and the blocks they touch (constructors of Tx, CoWTx).  *)
(***************************************************************************)
ALIGN_DOWN(x) == (x \div BlockSize) * BlockSize
ALIGN_UP(x) == ALIGN_DOWN(x + BlockSize - 1)
end_offset(r) == r.off + r.cnt
begin_vidx(r) == r.off \div BlockSize
end_vidx(r) == ALIGN_UP(end_offset(r)) \div BlockSize
num_blocks(r) == end_vidx(r) - begin_vidx(r)
begin_full_vidx(r) == ALIGN_UP(r.off) \div BlockSize
end_full_vidx(r) == end_offset(r) \div BlockSize

\* Which transaction File::pwrite runs.
IsAligned(r) == r.cnt % BlockSize = 0 /\ r.off % BlockSize = 0
IsSingle(r) == ~IsAligned(r) /\ begin_vidx(r) = (end_offset(r) - 1) \div BlockSize
IsMulti(r) == ~IsAligned(r) /\ ~IsSingle(r)

\* Cells of the i-th block of r that lie in r.
Covers(r, i, c) ==
  LET x == (begin_vidx(r) + i) * BlockSize + c IN r.off <= x /\ x < end_offset(r)
IsFull(r, i) == \A c \in InBlock : Covers(r, i, c)

(***************************************************************************)
(* Tx entries.  lidxs[j] is the first logical block of the j-th chunk; wr  *)
(* is the write the entry stands for, which the code does not store.  The  *)
(* log entry of a transaction may be a chain of two: cut is the last chunk *)
(* of the first one, the last chunk of all if there is no second.          *)
(***************************************************************************)
LidxAt(lidxs, i) == lidxs[(i \div Chunk) + 1] + (i % Chunk)
NumChunks(n) == (n + Chunk - 1) \div Chunk

\* The last chunk of a log entry; of a chain, all entries but the last one have
\* a multiple of Chunk blocks.
LastChunks(e) == {e.cut, NumChunks(e.n) - 1}
get_last_lidx_num_blocks(e, j) == IF j < NumChunks(e.n) - 1 THEN 0 ELSE e.n % Chunk

\* fault: a write that ends in the last block is taken for an overwrite
leftover_bytes_past_end(r, size) ==
  LET rest == ALIGN_UP(end_offset(r)) - end_offset(r)
  IN IF end_offset(r) <= ALIGN_UP(size) THEN 0 ELSE rest

\* WriteTx::update_leftover_bytes
leftover_bytes(r, size) ==
  LET rest == ALIGN_UP(end_offset(r)) - end_offset(r)
  IN IF end_offset(r) <= ALIGN_DOWN(size) THEN 0 ELSE rest

\* WriteTx::prepare_commit_entry and recheck_commit_entry.  Where a chain is cut
\* depends on the room left in the current log entry block.
commit_entry(t, cut) ==
  [begin |-> begin_vidx(tx[t].req), n |-> num_blocks(tx[t].req),
   lidxs |-> tx[t].dst, left |-> tx[t].left, cut |-> cut,
   inline |-> num_blocks(tx[t].req) <= MaxInline /\ tx[t].left = 0,
   wr |-> [off |-> tx[t].req.off, cnt |-> tx[t].req.cnt, val |-> <<t, nops[t]>>]]

\* The mappings of an entry that handle_conflict looks at, chunk by chunk.
ChunksOf(e) ==
  {[first |-> e.begin + j * Chunk, lidx |-> e.lidxs[j + 1],
    num |-> IF e.inline THEN e.n
            ELSE IF j \notin LastChunks(e) THEN Chunk
            ELSE get_last_lidx_num_blocks(e, j)] : j \in 0 .. NumChunks(e.n) - 1}

\* The last block of a mapping: an unsigned number, so -1 is the largest one.
LastOf(ch) == IF ch.first + ch.num = 0 THEN NumVBlocks ELSE ch.first + ch.num - 1

Overlaps(ch, first, last) == ~(last < ch.first \/ first > LastOf(ch))
At(ch, v) == ch.first <= v /\ v <= LastOf(ch)

\* Tx::get_conflict_image: what it stores for the block at distance i from first.
conflict_lidx(ch, first, i) == ch.lidx + i

\* fault: the leftover bytes are not subtracted
EndOfWholeBlocks(e) == (e.begin + e.n) * BlockSize

\* What apply_inline_tx and apply_indirect_tx make of the file size.
EndOf(e) == (e.begin + e.n) * BlockSize - e.left

\* What handle_conflict makes of it, entry by entry of a chain, of which the last
\* one has the leftover bytes: an unsigned number again.
ConflictEnd(e) ==
  LET end(j) == (e.begin + j * Chunk + get_last_lidx_num_blocks(e, j)) * BlockSize
                  - (IF j = NumChunks(e.n) - 1 THEN e.left ELSE 0)
  IN IF e.inline THEN EndOf(e)
     ELSE Max({IF end(j) < 0 THEN (NumVBlocks + 1) * BlockSize ELSE end(j) :
                 j \in LastChunks(e)})

(***************************************************************************)
(* Tx::handle_conflict from the cursor of t to the tail, for the blocks    *)
(* first .. last.  The entries passed never change and the walk ends at a  *)
(* slot seen empty, so that it is one step at the moment of that last      *)
(* look.                                                                   *)
(***************************************************************************)
NewEntries(t) == tx[t].cur + 1 .. Len(log)

HasConflict(t, first, last) ==
  \E j \in NewEntries(t) : \E ch \in ChunksOf(log[j]) : Overlaps(ch, first, last)

conflict_image(t, first, last) ==
  [i \in DOMAIN tx[t].image |->
     LET hits == {j \in NewEntries(t) : \E ch \in ChunksOf(log[j]) : At(ch, first + i)}
     IN IF first + i > last \/ hits = {} THEN tx[t].image[i]
        ELSE conflict_lidx(CHOOSE ch \in ChunksOf(log[Max(hits)]) : At(ch, first + i),
                           first, i)]

\* There is a store to conflict_image that is not in it.
StoresPast(t, first, last) ==
  \E j \in NewEntries(t) : \E ch \in ChunksOf(log[j]) :
    \E v \in first .. last : At(ch, v) /\ v - first \notin DOMAIN tx[t].image

conflict_size(t) == Max({tx[t].size} \cup {ConflictEnd(log[j]) : j \in NewEntries(t)})

(***************************************************************************)
(* A fresh file: an empty log.  Free blocks hold what they held before.    *)
(***************************************************************************)
NoTx == [req |-> [off |-> 0, cnt |-> 0], read |-> FALSE, cur |-> 0, size |-> 0,
         k |-> 0, dst |-> <<>>, image |-> <<>>, src |-> <<>>, todo |-> {},
         left |-> 0, buf |-> <<>>, lim |-> 0]

Init ==
  /\ log = <<>>
  /\ data = [l \in Lidx |-> [c \in InBlock |-> Junk]]
  /\ pool = Lidx
  /\ mine = [t \in Threads |-> {}]
  /\ table = [p \in Procs |-> [v \in VIdx |-> 0]]
  /\ tcur = [p \in Procs |-> 0]
  /\ tsize = [p \in Procs |-> 0]
  /\ holder = [p \in Procs |-> Nobody]
  /\ pc = [t \in Threads |-> "idle"]
  /\ tx = [t \in Threads |-> NoTx]
  /\ nops = [t \in Threads |-> 0]

\* A read of logical block 0 is a read of the static zero block.
lidx_to_addr_ro(l) ==
  IF l = 0 THEN [c \in InBlock |-> Zero]
  ELSE IF l \in Lidx THEN data[l] ELSE [c \in InBlock |-> Junk]

(***************************************************************************)
(* BlockAllocator::alloc of n contiguous blocks: from the thread's own     *)
(* free lists if they have such a run, else the lowest run of the bitmap.  *)
(***************************************************************************)
Run(l, n) == l .. l + n - 1
RunsIn(S, n) == {l \in S : Run(l, n) \subseteq S}
alloc(own, shared, n) ==
  IF RunsIn(own, n) # {} THEN RunsIn(own, n)
  ELSE IF RunsIn(shared, n) = {} THEN {} ELSE {Min(RunsIn(shared, n))}

\* The loop of WriteTx's constructor: one allocation per chunk of n blocks.
ChunkSize(n, j) == IF j < NumChunks(n) THEN Chunk ELSE n - (NumChunks(n) - 1) * Chunk
AllocDst(t, n) ==
  {dst \in [1 .. NumChunks(n) -> Lidx] :
     \A j \in DOMAIN dst :
       LET taken == UNION {Run(dst[i], ChunkSize(n, i)) : i \in 1 .. j - 1}
       IN dst[j] \in alloc(mine[t] \ taken, pool \ taken, ChunkSize(n, j))}
DstBlocks(dst, n) == {LidxAt(dst, i) : i \in 0 .. n - 1}

Begin(t, r) ==
  /\ pc[t] = "idle"
  /\ nops[t] < MaxOps[t]
  /\ nops' = [nops EXCEPT ![t] = @ + 1]
  /\ pc' = [pc EXCEPT ![t] = "update"]

(***************************************************************************)
(* Constructor of WriteTx, and the copy of whole blocks from the caller's  *)
(* buffer that AlignedTx and MultiBlockTx do before anything else.         *)
(***************************************************************************)
Fill(dst, r, val, whole) ==
  [l \in Lidx |->
     [c \in InBlock |->
        IF \E i \in 0 .. num_blocks(r) - 1 :
             LidxAt(dst, i) = l /\ IsFull(r, i) = whole /\ Covers(r, i, c)
        THEN val ELSE data[l][c]]]

BeginWrite(t, r) ==
  /\ Begin(t, r)
  /\ \E dst \in AllocDst(t, num_blocks(r)) :
       /\ mine' = [mine EXCEPT ![t] = @ \ DstBlocks(dst, num_blocks(r))]
       /\ pool' = pool \ DstBlocks(dst, num_blocks(r))
       /\ data' = Fill(dst, r, <<t, nops[t] + 1>>, TRUE)
       /\ tx' = [tx EXCEPT ![t] = [NoTx EXCEPT !.req = r, !.dst = dst,
                    !.image = [i \in 0 .. num_blocks(r) - 1 |-> 0]]]
  /\ UNCHANGED <<log, table, tcur, tsize, holder>>

BeginRead(t, r) ==
  /\ Begin(t, r)
  /\ tx' = [tx EXCEPT ![t] = [NoTx EXCEPT !.req = r, !.read = TRUE,
                 !.image = [i \in 0 .. num_blocks(r) - 1 |-> 0]]]
  /\ UNCHANGED <<log, data, pool, mine, table, tcur, tsize, holder>>

(***************************************************************************)
(* BlkTable::update.  need_update reads the state outside the lock and is  *)
(* done if nothing follows the cursor; else the lock is taken, the entries *)
(* are applied block by block, in view of the lookups of other threads,    *)
(* and the cursor is published.                                            *)
(***************************************************************************)
P(t) == ProcOf[t]

\* Where BlkTable::update returns to: a read past the end of the file is over.
AfterUpdate(t, size) ==
  IF ~tx[t].read THEN "look" ELSE IF tx[t].req.off >= size THEN "done" ELSE "copyout"

\* The state handed to the transaction; a write computes its leftover bytes
\* (not AlignedTx), a read cuts its range at the end of the file.
WithState(t, cur, size) ==
  [tx[t] EXCEPT
     !.cur = cur, !.size = size, !.k = 0,
     !.left = IF tx[t].read \/ IsAligned(tx[t].req) THEN 0
              ELSE leftover_bytes(tx[t].req, size),
     !.lim = IF ~tx[t].read \/ tx[t].req.off >= size THEN 0
             ELSE Min({tx[t].req.cnt, size - tx[t].req.off})]

need_update(t) ==
  /\ pc[t] = "update"
  /\ \/ /\ holder[P(t)] = Nobody
        /\ tcur[P(t)] = Len(log)
        /\ tx' = [tx EXCEPT ![t] = WithState(t, tcur[P(t)], tsize[P(t)])]
        /\ pc' = [pc EXCEPT ![t] = AfterUpdate(t, tsize[P(t)])]
     \/ /\ holder[P(t)] # Nobody \/ tcur[P(t)] < Len(log)
        /\ pc' = [pc EXCEPT ![t] = "lock"]
        /\ UNCHANGED tx
  /\ UNCHANGED <<log, data, pool, mine, table, tcur, tsize, holder, nops>>

LockTable(t) ==
  /\ pc[t] = "lock"
  /\ holder[P(t)] = Nobody
  /\ holder' = [holder EXCEPT ![P(t)] = t]
  /\ pc' = [pc EXCEPT ![t] = "apply"]
  /\ tx' = [tx EXCEPT ![t].cur = tcur[P(t)], ![t].k = 0]
  /\ UNCHANGED <<log, data, pool, mine, table, tcur, tsize, nops>>

\* One store to the table; with the last one of an entry, its file size.
ApplyBlock(t) ==
  LET e == log[tx[t].cur + 1]
      last == tx[t].k + 1 = e.n
  IN /\ pc[t] = "apply"
     /\ tx[t].cur < Len(log)
     /\ table' = [table EXCEPT ![P(t)][e.begin + tx[t].k] = LidxAt(e.lidxs, tx[t].k)]
     /\ tsize' = IF last THEN [tsize EXCEPT ![P(t)] = Max({@, EndOf(e)})] ELSE tsize
     /\ tx' = [tx EXCEPT ![t].k = IF last THEN 0 ELSE @ + 1,
                         ![t].cur = IF last THEN @ + 1 ELSE @]
     /\ UNCHANGED <<log, data, pool, mine, tcur, holder, pc, nops>>

\* fault: the spinlock is not released
PublishTableLocked(t) ==
  /\ pc[t] = "apply"
  /\ tx[t].cur = Len(log)
  /\ tcur' = [tcur EXCEPT ![P(t)] = tx[t].cur]
  /\ tx' = [tx EXCEPT ![t] = WithState(t, tx[t].cur, tsize[P(t)])]
  /\ pc' = [pc EXCEPT ![t] = AfterUpdate(t, tsize[P(t)])]
  /\ UNCHANGED <<log, data, pool, mine, table, tsize, holder, nops>>

PublishTable(t) ==
  /\ pc[t] = "apply"
  /\ tx[t].cur = Len(log)
  /\ tcur' = [tcur EXCEPT ![P(t)] = tx[t].cur]
  /\ holder' = [holder EXCEPT ![P(t)] = Nobody]
  /\ tx' = [tx EXCEPT ![t] = WithState(t, tx[t].cur, tsize[P(t)])]
  /\ pc' = [pc EXCEPT ![t] = AfterUpdate(t, tsize[P(t)])]
  /\ UNCHANGED <<log, data, pool, mine, table, tsize, nops>>

(***************************************************************************)
(* Writes: note the blocks to be overwritten (recycle_image), write the    *)
(* rest of the buffer, copy what the write leaves alone from the old       *)
(* blocks, commit.                                                         *)
(***************************************************************************)
LookupOld(t) ==
  /\ pc[t] = "look"
  /\ tx[t].k < num_blocks(tx[t].req)
  /\ tx' = [tx EXCEPT ![t].image[tx[t].k] = table[P(t)][begin_vidx(tx[t].req) + tx[t].k],
                      ![t].k = @ + 1]
  /\ UNCHANGED <<log, data, pool, mine, table, tcur, tsize, holder, pc, nops>>

\* fault: need_copy_last is forgotten
PartialBlocksFirst(r) == {i \in {0} : ~IsFull(r, i)}

\* Blocks of which the write covers a part only: need_copy_first, need_copy_last.
PartialBlocks(r) == {i \in 0 .. num_blocks(r) - 1 : ~IsFull(r, i)}

WritePartial(t) ==
  LET r == tx[t].req IN
  /\ pc[t] = "look"
  /\ tx[t].k = num_blocks(r)
  /\ data' = Fill(tx[t].dst, r, <<t, nops[t]>>, FALSE)
  /\ tx' = [tx EXCEPT ![t].todo = PartialBlocks(r), ![t].src = tx[t].image]
  /\ pc' = [pc EXCEPT ![t] = "copy"]
  /\ UNCHANGED <<log, pool, mine, table, tcur, tsize, holder, nops>>

\* SingleBlockTx copies from recycle_image, MultiBlockTx from src_first/last.
CopySource(t, i) == IF IsMulti(tx[t].req) THEN tx[t].src[i] ELSE tx[t].image[i]

CopyOld(t) ==
  LET i == Min(tx[t].todo) IN
  /\ pc[t] = "copy"
  /\ tx[t].todo # {}
  /\ data' = [data EXCEPT ![LidxAt(tx[t].dst, i)] =
       [c \in InBlock |-> IF Covers(tx[t].req, i, c) THEN @[c]
                          ELSE lidx_to_addr_ro(CopySource(t, i))[c]]]
  /\ tx' = [tx EXCEPT ![t].todo = @ \ {i}]
  /\ UNCHANGED <<log, pool, mine, table, tcur, tsize, holder, pc, nops>>

\* fault: MultiBlockTx gives the end of its range, not its last block
last_vidx_end(t) ==
  LET r == tx[t].req IN
  IF tx[t].read THEN (ALIGN_UP(r.off + tx[t].lim) \div BlockSize) - 1
  ELSE IF IsMulti(r) THEN end_vidx(r) ELSE end_vidx(r) - 1

\* The last block handle_conflict is asked about; the one behind the last for a
\* MultiBlockTx that ends on a block boundary.
last_vidx(t) ==
  LET r == tx[t].req IN
  IF tx[t].read THEN (ALIGN_UP(r.off + tx[t].lim) \div BlockSize) - 1
  ELSE IF IsMulti(r) THEN end_full_vidx(r) ELSE end_vidx(r) - 1

\* TxCursor::try_commit finds the slot at the cursor empty.
Commit(t) ==
  /\ pc[t] = "copy"
  /\ tx[t].todo = {}
  /\ tx[t].cur = Len(log)
  /\ \E cut \in 0 .. NumChunks(num_blocks(tx[t].req)) - 1 :
       log' = Append(log, commit_entry(t, cut))
  /\ pc' = [pc EXCEPT ![t] = "free"]
  /\ UNCHANGED <<data, pool, mine, table, tcur, tsize, holder, tx, nops>>

\* fault: the commit is tried again without copying
RedoNothing(t, image) == {}

\* Blocks to copy again: SingleBlockTx its block, MultiBlockTx the first and
\* the last one if the image of that block has changed, AlignedTx none.
Redo(t, image) ==
  LET r == tx[t].req IN
  IF ~HasConflict(t, begin_vidx(r), last_vidx(t)) THEN {}
  ELSE IF IsMulti(r) THEN {i \in PartialBlocks(r) : image[i] # tx[t].image[i]}
  ELSE PartialBlocks(r)

(***************************************************************************)
(* TxCursor::try_commit finds an entry: go over the new entries, take the  *)
(* new image and the new leftover bytes, and copy again or only try again. *)
(* MultiBlockTx saves src_first and src_last before the new image is known.*)
(***************************************************************************)
Conflict(t) ==
  LET r == tx[t].req
      image == conflict_image(t, begin_vidx(r), last_vidx(t))
  IN /\ pc[t] = "copy"
     /\ tx[t].todo = {}
     /\ tx[t].cur < Len(log)
     /\ tx' = [tx EXCEPT ![t] =
          [@ EXCEPT !.cur = Len(log),
                    !.size = conflict_size(t),
                    !.src = tx[t].image,
                    !.image = image,
                    !.left = IF IsAligned(r) THEN 0
                             ELSE leftover_bytes(r, conflict_size(t)),
                    !.todo = Redo(t, image)]]
     /\ UNCHANGED <<log, data, pool, mine, table, tcur, tsize, holder, pc, nops>>

(***************************************************************************)
(* The same, with a store past the end of recycle_image.  Where the vector *)
(* has room behind its end, from an earlier and longer write of the thread *)
(* or from malloc, Conflict is what happens.  Where it has not, the heap   *)
(* of the process is overwritten, and what it does then is not followed.   *)
(***************************************************************************)
ConflictOverrun(t) ==
  /\ pc[t] = "copy"
  /\ tx[t].todo = {}
  /\ tx[t].cur < Len(log)
  /\ StoresPast(t, begin_vidx(tx[t].req), last_vidx(t))
  /\ pc' = [u \in Threads |-> IF P(u) = P(t) THEN "overrun" ELSE pc[u]]
  /\ UNCHANGED <<log, data, pool, mine, table, tcur, tsize, holder, tx, nops>>

\* fault: the holes of the image are freed as well
ImageBlocksAndHoles(t) == {tx[t].image[i] : i \in DOMAIN tx[t].image}

\* fault: the blocks looked up before the last conflict are freed
ImageBlocksStale(t) == {tx[t].src[i] : i \in DOMAIN tx[t].src} \ {0}

\* BlockAllocator::free(recycle_image), into the thread's own free lists.
ImageBlocks(t) == {tx[t].image[i] : i \in DOMAIN tx[t].image} \ {0}

FreeOld(t) ==
  /\ pc[t] = "free"
  /\ mine' = [mine EXCEPT ![t] = @ \cup ImageBlocks(t)]
  /\ pc' = [pc EXCEPT ![t] = "idle"]
  /\ tx' = [tx EXCEPT ![t] = NoTx]
  /\ UNCHANGED <<log, data, pool, table, tcur, tsize, holder, nops>>

(***************************************************************************)
(* Reads.  The blocks are looked up in order and copied to the buffer in   *)
(* order, each some time after its lookup (the code copies adjacent blocks *)
(* together); then the entries committed since are gone over, and blocks   *)
(* they replace are copied again, until there is no such entry.            *)
(***************************************************************************)
ReadBlocks(t) == last_vidx(t) - begin_vidx(tx[t].req) + 1

\* fault: the offset inside the first block is forgotten
CopyToBufAligned(t, i, l) ==
  [x \in 0 .. tx[t].lim - 1 |->
     IF (tx[t].req.off + x) \div BlockSize = begin_vidx(tx[t].req) + i
     THEN lidx_to_addr_ro(l)[x % BlockSize]
     ELSE IF x \in DOMAIN tx[t].buf THEN tx[t].buf[x] ELSE Junk]

\* The buffer after the i-th block of the range is copied from block l.
CopyToBuf(t, i, l) ==
  [x \in 0 .. tx[t].lim - 1 |->
     LET off == tx[t].req.off + x IN
     IF off \div BlockSize = begin_vidx(tx[t].req) + i
     THEN lidx_to_addr_ro(l)[off % BlockSize]
     ELSE IF x \in DOMAIN tx[t].buf THEN tx[t].buf[x] ELSE Junk]

ReadLookup(t) ==
  /\ pc[t] = "copyout"
  /\ Len(tx[t].src) < ReadBlocks(t)
  /\ tx' = [tx EXCEPT ![t].src =
       Append(@, table[P(t)][begin_vidx(tx[t].req) + Len(tx[t].src)])]
  /\ UNCHANGED <<log, data, pool, mine, table, tcur, tsize, holder, pc, nops>>

ReadCopy(t) ==
  /\ pc[t] = "copyout"
  /\ tx[t].k < Len(tx[t].src)
  /\ tx' = [tx EXCEPT ![t].buf = CopyToBuf(t, tx[t].k, tx[t].src[tx[t].k + 1]),
                      ![t].k = @ + 1]
  /\ pc' = [pc EXCEPT ![t] = IF tx[t].k + 1 = ReadBlocks(t) THEN "validate" ELSE @]
  /\ UNCHANGED <<log, data, pool, mine, table, tcur, tsize, holder, nops>>

\* The loop at the end of ReadTx::exec: done, or a new image to copy from.
Validate(t) ==
  LET first == begin_vidx(tx[t].req) IN
  /\ pc[t] = "validate"
  /\ pc' = [pc EXCEPT ![t] =
       IF HasConflict(t, first, last_vidx(t)) THEN "redo" ELSE "done"]
  /\ tx' = [tx EXCEPT ![t] =
       [@ EXCEPT !.cur = Len(log), !.size = conflict_size(t),
                 !.image = conflict_image(t, first, last_vidx(t))]]
  /\ UNCHANGED <<log, data, pool, mine, table, tcur, tsize, holder, nops>>

RedoBlocks(t) == {i \in DOMAIN tx[t].image : tx[t].image[i] # 0}

RedoCopy(t) ==
  LET i == Min(RedoBlocks(t)) IN
  /\ pc[t] = "redo"
  /\ RedoBlocks(t) # {}
  /\ tx' = [tx EXCEPT ![t].buf = CopyToBuf(t, i, tx[t].image[i]), ![t].image[i] = 0]
  /\ UNCHANGED <<log, data, pool, mine, table, tcur, tsize, holder, pc, nops>>

\* fault: what was copied again is not validated
RedoDoneUnchecked(t) ==
  /\ pc[t] = "redo"
  /\ RedoBlocks(t) = {}
  /\ pc' = [pc EXCEPT ![t] = "done"]
  /\ UNCHANGED <<log, data, pool, mine, table, tcur, tsize, holder, tx, nops>>

RedoDone(t) ==
  /\ pc[t] = "redo"
  /\ RedoBlocks(t) = {}
  /\ pc' = [pc EXCEPT ![t] = "validate"]
  /\ UNCHANGED <<log, data, pool, mine, table, tcur, tsize, holder, tx, nops>>

Return(t) ==
  /\ pc[t] = "done"
  /\ pc' = [pc EXCEPT ![t] = "idle"]
  /\ tx' = [tx EXCEPT ![t] = NoTx]
  /\ UNCHANGED <<log, data, pool, mine, table, tcur, tsize, holder, nops>>

\* Threads of which nothing more is heard.
Stopped == {"dead", "overrun"}

\* A process dies: its table, locks and free lists go with it.
Crash(p) ==
  /\ \E t \in Threads : P(t) = p /\ pc[t] \notin Stopped
  /\ pc' = [t \in Threads |-> IF P(t) = p THEN "dead" ELSE pc[t]]
  /\ UNCHANGED <<log, data, pool, mine, table, tcur, tsize, holder, tx, nops>>

Step(t) ==
  \/ need_update(t) \/ LockTable(t) \/ ApplyBlock(t) \/ PublishTable(t)
  \/ LookupOld(t) \/ WritePartial(t) \/ CopyOld(t)
  \/ Commit(t) \/ Conflict(t) \/ ConflictOverrun(t) \/ FreeOld(t)
  \/ ReadLookup(t) \/ ReadCopy(t) \/ Validate(t) \/ RedoCopy(t) \/ RedoDone(t)
  \/ Return(t)

Next ==
  \/ \E t \in Threads :
       \/ \E r \in Writes[t] : BeginWrite(t, r)
       \/ \E r \in Reads : BeginRead(t, r)
       \/ Step(t)
  \/ \E p \in Mortal : Crash(p)

Spec == Init /\ [][Next]_vars

\* The scheduler runs every thread, and the spinlock goes to somebody.
FairSpec == Spec /\ \A t \in Threads : WF_vars(Step(t))

-----------------------------------------------------------------------------
(***************************************************************************)
(* Reference: what the file is after the first n transactions, cell by     *)
(* cell, and where its blocks are.                                         *)
(***************************************************************************)
FileCells == 0 .. NumVBlocks * BlockSize - 1

Content(n, x) ==
  LET W == {j \in 1 .. n : log[j].wr.off <= x /\ x < log[j].wr.off + log[j].wr.cnt}
  IN IF W = {} THEN Zero ELSE log[Max(W)].wr.val

FileSize(n) == Max({0} \cup {log[j].wr.off + log[j].wr.cnt : j \in 1 .. n})

MapAt(n, v) ==
  LET W == {j \in 1 .. n : log[j].begin <= v /\ v < log[j].begin + log[j].n}
  IN IF W = {} THEN 0 ELSE LidxAt(log[Max(W)].lidxs, v - log[Max(W)].begin)

Live == {MapAt(Len(log), v) : v \in VIdx} \ {0}

-----------------------------------------------------------------------------
PCs == {"idle", "update", "lock", "apply", "look", "copy", "free",
        "copyout", "validate", "redo", "done"} \cup Stopped

TypeOK ==
  /\ \A j \in DOMAIN log :
       /\ log[j].begin \in VIdx /\ log[j].n \in 1 .. NumVBlocks
       /\ log[j].left \in 0 .. BlockSize - 1
       /\ \A i \in DOMAIN log[j].lidxs : log[j].lidxs[i] \in Lidx
  /\ data \in [Lidx -> [InBlock -> Values]]
  /\ pool \subseteq Lidx
  /\ mine \in [Threads -> SUBSET Lidx]
  /\ table \in [Procs -> [VIdx -> {0} \cup Lidx]]
  /\ tcur \in [Procs -> 0 .. Len(log)]
  /\ holder \in [Procs -> Threads \cup {Nobody}]
  /\ pc \in [Threads -> PCs]
  /\ \A t \in Threads : tx[t].cur \in 0 .. Len(log) /\ tx[t].todo \subseteq VIdx

(* The blocks the log maps hold the file: every cell is that of the last   *)
(* transaction that wrote it.  No concurrent write is lost when a block is *)
(* copied, and no block in use is handed out and overwritten.              *)
ContentExact ==
  \A v \in VIdx, c \in InBlock :
    lidx_to_addr_ro(MapAt(Len(log), v))[c] = Content(Len(log), v * BlockSize + c)

Running(t) == pc[t] \notin {"idle", "done"} \cup Stopped /\ ~tx[t].read
Committed(t) == pc[t] = "free"

\* The blocks a running write has allocated and not yet committed.
Allocated(t) ==
  IF Running(t) /\ ~Committed(t) THEN DstBlocks(tx[t].dst, num_blocks(tx[t].req))
  ELSE {}

\* The blocks a committed write is about to free.
Doomed(t) == IF Running(t) /\ Committed(t) THEN ImageBlocks(t) ELSE {}

(* A logical block has one owner: it is mapped by the log, or free in the  *)
(* bitmap, or in the free list of one thread, or the destination of one    *)
(* write, or about to be freed by the one write that replaced it.  So no   *)
(* block is freed twice or while it is in use (tx/write_*.h, done:).       *)
OneOwner ==
  LET Of(t) == mine[t] \cup Allocated(t) \cup Doomed(t)
  IN /\ Live \cap pool = {}
     /\ \A t \in Threads :
          /\ Of(t) \cap (Live \cup pool) = {}
          /\ mine[t] \cap (Allocated(t) \cup Doomed(t)) = {}
          /\ \A u \in Threads \ {t} : Of(t) \cap Of(u) = {}
     /\ \A u, v \in VIdx : (u # v /\ MapAt(Len(log), u) # 0)
                              => MapAt(Len(log), u) # MapAt(Len(log), v)

(* Whenever the spinlock of a block table is free, the table is the replay *)
(* of the log up to its cursor, and so is the file size, byte-exact        *)
(* although only leftover bytes are logged (blk_table.h:103-145).          *)
TableIsReplay ==
  \A p \in Procs : holder[p] = Nobody =>
    /\ \A v \in VIdx : table[p][v] = MapAt(tcur[p], v)
    /\ tsize[p] = FileSize(tcur[p])

(* A read returns a snapshot: when it is over, every cell of its buffer is *)
(* what the file holds at that moment, although it copied the blocks one   *)
(* by one, without a lock, from blocks that were overwritten and reused.   *)
ReadIsSnapshot ==
  [][\A t \in Threads : (pc[t] # "done" /\ pc'[t] = "done") =>
       \A x \in 0 .. tx'[t].lim - 1 :
         tx'[t].buf[x] = Content(Len(log), tx[t].req.off + x)]_vars

(* Every operation of a live process ends: the conflicts and the spinlock  *)
(* delay it only as long as others make progress.                          *)
OperationsEnd ==
  \A t \in Threads :
    pc[t] \notin {"idle"} \cup Stopped ~> pc[t] \in {"idle"} \cup Stopped

(* "last_vidx the last block's virtual idx" (tx.h:91): what others commit  *)
(* makes handle_conflict store past the end of recycle_image in one case   *)
(* only, a MultiBlockTx that ends on a block boundary, which gives the     *)
(* block behind its last one, when somebody has replaced that very block   *)
(* since the write looked at the log (write_unaligned.h:265, tx.h:186).    *)
OnlyAlignedEndOverruns ==
  [][\A p \in Procs :
       (\E t \in Threads : P(t) = p /\ pc[t] # "overrun" /\ pc'[t] = "overrun") =>
         \E t \in Threads :
           LET r == tx[t].req IN
           /\ P(t) = p /\ ~tx[t].read /\ IsMulti(r) /\ end_offset(r) % BlockSize = 0
           /\ \E j \in NewEntries(t) :
                end_vidx(r) \in log[j].begin .. log[j].begin + log[j].n - 1]_vars
=============================================================================
