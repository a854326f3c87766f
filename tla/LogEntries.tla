----------------------------- MODULE LogEntries -----------------------------
(***************************************************************************)
(* How the mapping of a transaction is packed into log entry blocks: the   *)
(* allocator of log entries of each thread, chains of entries over several *)
(* blocks, and what becomes of them when the commit meets a conflict.      *)
(*                                                                         *)
(* Sizes are in units of one LogicalBlockIdx.  The transaction log is a    *)
(* sequence, position n being in tx block n \div PerTx.  The size of the   *)
(* file is left out: leftover_bytes may become 0 whenever it is computed   *)
(* again, because others have extended the file.                           *)
(***************************************************************************)
EXTENDS Integers, Sequences, FiniteSets, SequencesExt, FiniteSetsExt

CONSTANTS
  Threads,
  NumBlocks,   \* bound: blocks that can become log entry blocks
  BlockUnits,  \* BLOCK_SIZE
  Chunk,       \* BITMAP_ENTRY_BLOCKS_CAPACITY
  MaxInline,   \* TxEntryInline::NUM_BLOCKS_MAX
  PerTx,       \* entries per tx block
  Sizes,       \* numbers of blocks that transactions write
  MaxOps       \* bound: writes of each thread

FIXED_SIZE == 3
min_required_size == FIXED_SIZE + 1
Null == <<0, 0>>
LogBlocks == 1 .. NumBlocks
Offsets == 0 .. BlockUnits

ASSUME LogEntriesConstants ==
  /\ NumBlocks \in Nat /\ BlockUnits \in Nat /\ BlockUnits >= min_required_size
  /\ Chunk \in Nat \ {0} /\ PerTx \in Nat \ {0} /\ MaxInline \in Nat
  /\ Sizes \subseteq Nat \ {0} /\ MaxOps \in Nat

VARIABLES
  store,    \* store[p]: the log entry at p = <<block, offset>>, or Junk
  avail,    \* blocks that are free
  curr,     \* curr[t]: <<curr_log_block_idx, curr_log_offset>> of thread t
  pinned,   \* pinned[t]: the tx block that thread t has pinned
  log,      \* the transaction log
  tx,       \* tx[t]: the write of thread t: what it maps, its commit_entry, cursor
  nops,     \* nops[t]: writes begun by thread t
  stray     \* blocks with entries given up for an inline entry

vars == <<store, avail, curr, pinned, log, tx, nops, stray>>

Idle == [busy |-> FALSE]
Junk == [junk |-> TRUE]
Positions == LogBlocks \X Offsets
IsInline(entry) == entry = Null
TxBlockOf(n) == n \div PerTx

Init ==
  /\ store = [p \in Positions |-> Junk]
  /\ avail = LogBlocks
  /\ curr = [t \in Threads |-> Null]
  /\ pinned = [t \in Threads |-> 0]
  /\ log = <<>>
  /\ tx = [t \in Threads |-> Idle]
  /\ nops = [t \in Threads |-> 0]
  /\ stray = {}

\* LogEntry::get_lidxs_len: logical indices for n blocks, one for each chunk.
get_lidxs_len(n) == (n + Chunk - 1) \div Chunk
\* Indices that fit behind the fixed part of an entry at an offset.
avail_lidxs_cnt(off) == BlockUnits - (off + FIXED_SIZE)

\* fault: room for the fixed part is taken for room for an entry
lacks_room_fixed(c) == c[1] = 0 \/ BlockUnits - c[2] < FIXED_SIZE

\* alloc starts in a new block if an entry with one index does not fit.
lacks_room(c) == c[1] = 0 \/ BlockUnits - c[2] < min_required_size

\* fault: the next entry starts at the same virtual block
NextVidx_same(vidx, room) == vidx

\* The virtual block where the entry after one of room indices starts.
NextVidx(vidx, room) == vidx + room * Chunk

(***************************************************************************)
(* alloc and append in one: the entries for num blocks from vidx on, the   *)
(* first one at an offset of block bs[1], each next one at the start of    *)
(* the next block of bs.  An entry that has a next one fills its block, so *)
(* that the next one is never in the same block.                           *)
(***************************************************************************)
RECURSIVE append(_, _, _, _, _, _)
append(bs, off, num, vidx, lidxs, left) ==
  LET room == avail_lidxs_cnt(off)
      last == get_lidxs_len(num) <= room
      rest == IF last THEN <<>>
              ELSE append(Tail(bs), 0, num - room * Chunk, NextVidx(vidx, room),
                          SubSeq(lidxs, room + 1, Len(lidxs)), left)
  IN <<[at |-> <<Head(bs), off>>,
        begin_vidx |-> vidx,
        num_blocks |-> IF last THEN num ELSE room * Chunk,
        begin_lidxs |-> IF last THEN lidxs ELSE SubSeq(lidxs, 1, room),
        leftover_bytes |-> IF last THEN left ELSE 0,
        next |-> IF last THEN Null ELSE Head(rest).at]>> \o rest

\* How many blocks append needs after the first.
MoreBlocks(off, num) ==
  LET rest == get_lidxs_len(num) - avail_lidxs_cnt(off)
  IN IF rest <= 0 THEN 0 ELSE 1 + (rest - 1) \div avail_lidxs_cnt(0)

\* The units an entry takes; storing it destroys what was there.
UnitsOf(e) == e.at[2] .. e.at[2] + FIXED_SIZE + Len(e.begin_lidxs) - 1
Overlaps(e, f) == e # Junk /\ e.at[1] = f.at[1] /\ UnitsOf(e) \cap UnitsOf(f) # {}
Stored(sto, es) ==
  [p \in Positions |->
     IF \E k \in DOMAIN es : es[k].at = p
       THEN es[CHOOSE k \in DOMAIN es : es[k].at = p]
       ELSE IF \E k \in DOMAIN es : Overlaps(sto[p], es[k]) THEN Junk ELSE sto[p]]

\* Blocks are alike; the lowest are taken, so that freed ones are soon reused.
RECURSIVE Lowest(_, _)
Lowest(n, S) == IF n = 0 THEN <<>> ELSE <<Min(S)>> \o Lowest(n - 1, S \ {Min(S)})

(***************************************************************************)
(* LogCursor: the chain of entries from a position on, its blocks          *)
(* (get_all_blocks) and what it says (apply_indirect_tx).                  *)
(***************************************************************************)
RECURSIVE ChainFrom(_, _, _)
ChainFrom(sto, p, n) ==
  IF n = 0 \/ sto[p] = Junk THEN <<>>
  ELSE <<sto[p]>> \o (IF sto[p].next = Null THEN <<>> ELSE ChainFrom(sto, sto[p].next, n - 1))
Chain(sto, p) == ChainFrom(sto, p, NumBlocks)
get_all_blocks(p) == {p[1]} \cup {e.at[1] : e \in ToSet(Chain(store, p))}

apply_indirect_tx(p) ==
  LET es == Chain(store, p)
  IN [table |-> UNION {{<<e.begin_vidx + o, e.begin_lidxs[1 + o \div Chunk], o % Chunk>> :
                          o \in 0 .. e.num_blocks - 1} : e \in ToSet(es)},
      left |-> IF es = <<>> THEN 0 ELSE es[Len(es)].leftover_bytes]

(***************************************************************************)
(* prepare_commit_entry: an inline entry, or log entries appended at c.    *)
(***************************************************************************)
\* TxEntryInline::can_inline also bounds the virtual and the logical index, by 28
\* and 29 bits: all files here are below that (1 TB), and an entry of such an index
\* is packed like any other that is not inline.
can_inline(r) == r.num <= MaxInline /\ r.left = 0
Prepared(sto, free, c, r) ==
  IF can_inline(r) THEN [store |-> sto, avail |-> free, curr |-> c, entry |-> Null]
  ELSE LET off == IF lacks_room(c) THEN 0 ELSE c[2]
           new == Lowest(MoreBlocks(off, r.num) + (IF lacks_room(c) THEN 1 ELSE 0), free)
           es == append(IF lacks_room(c) THEN new ELSE <<c[1]>> \o new,
                        off, r.num, r.vidx, r.lidxs, r.left)
           last == es[Len(es)]
       IN [store |-> Stored(sto, es),
           avail |-> free \ ToSet(new),
           curr |-> <<last.at[1], Max(UnitsOf(last)) + 1>>,
           entry |-> es[1].at]

Enough(free, num) == Cardinality(free) >= 1 + MoreBlocks(0, num)

\* exec up to prepare_commit_entry; reset if the tail is not in the pinned tx block.
BeginWrite(t) ==
  /\ ~tx[t].busy /\ nops[t] < MaxOps
  /\ \E num \in Sizes, left \in {0, 1} :
       LET r == [vidx |-> 1, num |-> num, left |-> left,
                 lidxs |-> [i \in 1 .. get_lidxs_len(num) |-> <<t, nops[t], i>>]]
           c == IF pinned[t] # TxBlockOf(Len(log)) THEN Null ELSE curr[t]
           q == Prepared(store, avail, c, r)
       IN /\ Enough(avail, num)
          /\ store' = q.store /\ avail' = q.avail
          /\ curr' = [curr EXCEPT ![t] = q.curr]
          /\ tx' = [tx EXCEPT ![t] =
                      [busy |-> TRUE, req |-> r, entry |-> q.entry, cursor |-> Len(log)]]
  /\ nops' = [nops EXCEPT ![t] = @ + 1]
  /\ UNCHANGED <<pinned, log, stray>>

\* try_commit succeeds; the tx block is pinned.
Commit(t) ==
  /\ tx[t].busy /\ tx[t].cursor = Len(log)
  /\ log' = Append(log, [entry |-> tx[t].entry, req |-> tx[t].req])
  /\ pinned' = [pinned EXCEPT ![t] = TxBlockOf(Len(log))]
  /\ tx' = [tx EXCEPT ![t] = Idle]
  /\ UNCHANGED <<store, avail, curr, nops, stray>>

\* fault: the first block is freed although there are other entries ahead
free_whole(p) == get_all_blocks(p)

\* fault: only the first block is looked at
free_head(p) == IF p[2] = 0 THEN {p[1]} ELSE {}

\* LogEntryAllocator::free: the blocks that are only taken by this chain.
free(p) == (IF p[2] = 0 THEN {p[1]} ELSE {}) \cup (get_all_blocks(p) \ {p[1]})

\* handle_conflict has moved into a new tx block: free, reset, prepare again.
ConflictNewBlock(t) ==
  /\ tx[t].busy /\ ~IsInline(tx[t].entry)
  /\ TxBlockOf(tx[t].cursor) # TxBlockOf(Len(log))
  /\ \E left \in {tx[t].req.left, 0} :
       LET r == [tx[t].req EXCEPT !.left = left]
           now == avail \cup free(tx[t].entry)
           q == Prepared(store, now, Null, r)
       IN /\ Enough(now, r.num)
          /\ store' = q.store /\ avail' = q.avail
          /\ curr' = [curr EXCEPT ![t] = q.curr]
          /\ tx' = [tx EXCEPT ![t].req = r, ![t].entry = q.entry, ![t].cursor = Len(log)]
  /\ UNCHANGED <<pinned, log, nops, stray>>

\* LogCursor::update_leftover_bytes: only the last entry of the chain counts.
update_leftover_bytes(p, left) ==
  LET es == Chain(store, p)
  IN [store EXCEPT ![es[Len(es)].at].leftover_bytes = left]

\* A conflict in the same tx block, or with an inline entry: recheck_commit_entry.
ConflictRecheck(t) ==
  /\ tx[t].busy /\ tx[t].cursor # Len(log)
  /\ IsInline(tx[t].entry) \/ TxBlockOf(tx[t].cursor) = TxBlockOf(Len(log))
  /\ \E left \in {tx[t].req.left, 0} :
       LET r == [tx[t].req EXCEPT !.left = left]
           same == IsInline(tx[t].entry) \/ left = tx[t].req.left
           inline == ~same /\ can_inline(r)
       IN /\ tx' = [tx EXCEPT ![t].req = r, ![t].cursor = Len(log),
                              ![t].entry = IF inline THEN Null ELSE @]
          /\ stray' = IF inline THEN stray \cup get_all_blocks(tx[t].entry) ELSE stray
          /\ store' = IF same \/ inline THEN store
                      ELSE update_leftover_bytes(tx[t].entry, left)
  /\ UNCHANGED <<avail, curr, pinned, log, nops>>

\* A read pins the tx block where it ended, an overflown cursor in the one before.
Read(t) ==
  /\ ~tx[t].busy
  /\ \E n \in {Len(log), Len(log) - 1} :
       /\ n = Len(log) \/ (n >= 0 /\ Len(log) % PerTx = 0)
       /\ pinned' = [pinned EXCEPT ![t] = TxBlockOf(n)]
  /\ UNCHANGED <<store, avail, curr, log, tx, nops, stray>>

Next ==
  \E t \in Threads :
    \/ BeginWrite(t) \/ Commit(t) \/ Read(t)
    \/ ConflictNewBlock(t) \/ ConflictRecheck(t)

Spec == Init /\ [][Next]_vars

-----------------------------------------------------------------------------
Entries == {Junk} \cup
  [at : Positions, begin_vidx : Nat, num_blocks : Nat \ {0}, leftover_bytes : {0, 1},
   next : Positions \cup {Null}, begin_lidxs : Seq(Threads \X Nat \X Nat)]

(* Entries lie inside their block, and the offset of the next entry never  *)
(* passes the end of the block (alloc/log_entry.h).                        *)
TypeOK ==
  /\ \A p \in Positions :
       store[p] # Junk => store[p] \in Entries /\ store[p].at = p
                          /\ Max(UnitsOf(store[p])) < BlockUnits
  /\ avail \subseteq LogBlocks /\ stray \subseteq LogBlocks
  /\ curr \in [Threads -> Positions \cup {Null}]
  /\ pinned \in [Threads -> Nat] /\ nops \in [Threads -> Nat]
  /\ \A t \in Threads : tx[t].busy => tx[t].entry \in Positions \cup {Null}

\* What a transaction set out to map.
Said(r) ==
  [table |-> {<<r.vidx + o, r.lidxs[1 + o \div Chunk], o % Chunk>> : o \in 0 .. r.num - 1},
   left |-> r.left]

(* A replay reads from the log entries of a committed transaction, for     *)
(* ever, exactly the mapping and the leftover bytes it was committed with, *)
(* however its chain was cut into blocks and whatever was appended, freed  *)
(* and appended again since (append, free, update_leftover_bytes).         *)
ReadsBack ==
  \A n \in DOMAIN log :
    ~IsInline(log[n].entry) => apply_indirect_tx(log[n].entry) = Said(log[n].req)

\* The chains that matter: of committed entries and of those about to be.
Live ==
  {log[n].entry : n \in DOMAIN log} \cup {tx[t].entry : t \in {u \in Threads : tx[u].busy}}
LiveBlocks == UNION {get_all_blocks(p) : p \in Live \ {Null}}

(* "If there is other log entries on this block, leave this block alone":  *)
(* free never gives away a block with a committed entry, one that a write  *)
(* is about to commit, or the current block of a thread, and threads never *)
(* append to the same block (LogEntryAllocator::free, block/log.h).        *)
InUseNotFree ==
  /\ LiveBlocks \cap avail = {}
  /\ \A t \in Threads : curr[t][1] \notin avail
  /\ \A t, u \in Threads : t # u /\ curr[t] # Null => curr[t][1] # curr[u][1]

(* "the uncommitted entry must be (semi-)freed to prevent memory leak":    *)
(* every block is free, or holds a live entry, or is the current block of  *)
(* a thread - but for entries given up for an inline one, which the code   *)
(* leaves where they are (recheck_commit_entry).                           *)
NothingLeaked ==
  LogBlocks \subseteq avail \cup LiveBlocks \cup stray \cup {curr[t][1] : t \in Threads}
=============================================================================
