# MadFS in TLA+

MadFS is a library that puts a POSIX file on persistent memory. A process that
preloads it maps the file and reads and writes it with loads and stores; other
processes may do the same with the same file at the same time. Nothing but the
file itself and a piece of shared memory connects them. This directory models the
parts of it that are hard to test - lock-free appends, optimistic transactions,
block reuse, what a power failure leaves - as TLA+ modules, checks them with TLC on
small instances, and proves the transaction log and the block allocator with TLAPS for
every instance.

## The system

A file is a sequence of 4 KiB blocks. Block 0 is the meta block. Every other
*logical* block holds data, tx entries or log entries, or is free. What the file
contains is defined by the **transaction log**: a list of 8-byte tx entries,
inline in the meta block and then in a linked list of tx blocks. An entry says
"the virtual blocks from v on, n of them, are now at these logical blocks",
inline or through log entries that also say how many bytes of the last block
are past the end of the file.

| Part | Code (`src/src/`) | State | Operations | Interacts with |
|---|---|---|---|---|
| transaction log | `cursor/tx_entry.h`, `block/tx.h`, `block/meta.h`, `idx.h` | entry slots, links, `tx_seq` | advance, handle_overflow, try_append, try_commit, flush | everything |
| tx block allocator | `alloc/tx_block.h` | spare block, pin | alloc, alloc_next, pin | block allocator, shared memory |
| transactions | `tx/*.h`, `file/write.cpp`, `file/read.cpp` | one object per call | pwrite, pread, write, read | log, table, allocators, offset |
| block table | `blk_table.h` | table, cursor, size, version, spinlock; one per process | update, lookup | log |
| log entries | `entry.h`, `cursor/log.h`, `alloc/log_entry.h` | entries packed in blocks | append, free, reset, advance | transactions, collector |
| block allocator, bitmap | `alloc/block.h`, `bitmap.h` | shared bitmap, free lists per thread | alloc, free, return_free_list | transactions |
| file offset | `offset.h`, `file/seek.cpp` | offset, tickets, slot queue | acquire, wait, validate, release, seek | write, read |
| persistence | `file/sync.cpp`, `utils/persist.h`, `block/meta.h` | `flushed_tx_tail`, cache lines | flush, fsync | log |
| garbage collector | `gc.h`, `cursor/tx_block.h` | new list, orphans | create, switch, scan, recycle | log, pins |
| shared memory | `shm.h` | bitmap, per-thread slots | create, try_init, reset | collector, allocator |
| opening | `file/file.cpp`, `file/file.h` | - | replay, rebuild of the bitmap | table, bitmap |
| memory table | `mem_table.h` | mapped regions | lookup, grow | everything |
| converter | `convert.h` | - | to and from an ordinary file | opening |
| library calls | `lib/*.cpp`, `posix.h` | descriptor map | one wrapper per call | files |

What makes it hard: threads and processes append to the same slot and link to the
same block; a transaction copies from blocks that others replace, free and reuse
meanwhile; the table of a process is looked up while another thread updates it;
a process may die between any two steps; sizes and chunks meet their boundaries.
`PROJECT.json` lists each such hazard with its line and the properties that watch
it.

## Plan

Most important first; each module with its abstract specification, runs, and, where
it pays, theorems.

1. `TxLog`, implementing `AppendLog`; proofs in `TxLogBasics` to `TxLogProofs` (done).
2. `OccFile`, implementing `AtomicFile` (done).
3. `BlockAlloc`: the bitmap and the free lists; proofs in `BlockAllocFacts`,
   `BlockAllocProofs` and `BlockAllocLost` (done).
4. `TxPersist`: persistent memory, fsync, power failure, replay (done).
5. `LogEntries`: packing of log entries (done).
6. The collector with pins, orphans, walking threads and per-thread slots in shared
   memory, and with the log entry blocks it frees.
7. The file offset: tickets, validation, the slot queue.
8. Opening a file: the rebuild of the bitmap, two processes at once.
9. The block table's seqlock with callers without the lock (`stat`); growth of the
   memory table; the converter's mapping.
10. Theorems on the inductive invariants of 4, 6 and 7.

## Modules

### TxLog - the transaction log

Every thread is a process of its own with its cursor `tabcur` (the cursor in its
`BlkTable`). Blocks hold slots `entry[b][i]`, a link `next[b]` and a number
`seq[b]`; blocks that were never handed out hold arbitrary old bytes (`Junk`).

| Action | Code |
|---|---|
| `BeginWrite`, `BeginRead` | an operation copies the cursor of the table |
| `Consume` | the body of a replay loop: entry at the cursor, `advance` |
| `FollowNext` | `handle_overflow` with a linked successor |
| `AllocTxBlock` | `TxBlockAllocator::alloc`: the spare block, or a fresh block with `zero_init` |
| `LinkTxBlock` | the compare-and-swap of the link in `alloc_next`; the loser keeps its block |
| `ReachTail` | the walk ends; the table is published unless `need_update` returned early |
| `TryCommit` | the compare-and-swap of the slot; on failure `handle_conflict` walks on |
| `ExitThread` | `~TxBlockAllocator` frees the spare block |
| `Crash` | the process dies between any two steps |

`AppendLog` is what this promises: one sequence, each transaction appended at most
once, at one instant. The refinement mapping in `MCTxLog` reads the slots along the
links.

### OccFile - reads and writes

The log is here the sequence that `TxLog` implements. A block has `BlockSize`
cells, and a cell holds the identity of the write it comes from, so that a stale or
lost cell is seen. A write goes through `BeginWrite` (constructor: allocate, copy
whole blocks), the update of the table (`need_update`, `LockTable`, `ApplyBlock`,
`PublishTable`), `LookupOld` (recycle_image, one block at a time), `WritePartial`,
`CopyOld` (one block at a time), then `Commit`, or `Conflict` and again; `FreeOld`
ends it. The three kinds of write (`AlignedTx`, `SingleBlockTx`, `MultiBlockTx`) differ
in which of these do anything, as in the code. A read goes through the same update,
then `ReadLookup`, `ReadCopy`, `Validate`, `RedoCopy`, until nothing conflicts.
`Crash` kills a process with all its threads.

`AtomicFile` is what this promises: a write changes all its cells at one instant, a
read returns cells that were in the file together at one instant.

Abstractions: a block is copied in one step; a walk over new entries is one step,
at the moment of its last look; an inline entry and a chain of log entries are one
record that remembers whether it was inline, and after which chunk (`cut`) the first
entry of the chain ended, because the last chunk of every entry is counted by itself in a
conflict; a chain has at most two entries, which is so up to about 1000 chunks. Unsigned
wrap-around gives a number larger than every index.

An unaligned write that ends on a block boundary gives `handle_conflict` the block behind
its last one, and when somebody has replaced that block, there is a store past the end of
`recycle_image`. It has two outcomes in the model: none, where the vector has room behind its
end (`Conflict`), and a process that is not followed any further, because its heap has been
overwritten (`ConflictOverrun`). `OnlyAlignedEndOverruns` says that there is no other case.
`Writes` gives every thread ranges of its own, so that a run can have this race without
the races of the runs called disagreements below.

### BlockAlloc - the bitmap and the free lists

`bits` are the marked blocks, `used` those that transactions hold, `free[t]` the groups
in the lists of a thread. `AllocLocal` is `alloc` from the lists (the shortest group
that is long enough, split if longer); `AllocShared`, `SkipWord`, `TakeWord` and
`NoWordLeft` are the search of `try_alloc` one word at a time, because each word is
exchanged by itself; `Free` is `free` of an image, with its grouping; `Recycle`, `Exit`,
`ReturnGroup` and `Returned` are `return_free_list`, one word of the bitmap at a time, as
called by the collector and by the destructor. Which of several groups of one length is
taken, and the order of return, are left open. The mask of a whole word is an undefined
shift and may come out empty. Blocks that follow each other across a word are freed as one
group, of which `BitmapMgr::free` clears the first word only. A stretch of an image longer
than a word has no list, and `free` indexes past the end of `free_lists` (`FreeOverrun`; the
thread is not followed any further). A collector (`Recycle`) may run beside any
other threads.

So two things one would like to say are false of the code: that a block always has one owner
(`BlockHasOneOwner`, run `alloc_collector`) and that no block is lost (`NothingLost`, run
`alloc_lost`). What holds, and is checked and proved without restriction, says where they
can fail: `OnlySecondReturnShares`, only the step that returns a list a second time gives
a block a second owner, and `LostOnlyAtEdges`, only returning a group that fills or crosses
a word, or freeing a stretch that has no list, loses a block.

### TxPersist - cache lines, fsync and power failures

`mem` is the log as processors see it, `dur` what is in persistent memory; both have slots,
links and `flushed_tx_tail`. A line is written back when it is flushed (`FlushLine`) or at any
other time (`Evict`). `TryCommit` is `handle_overflow` and the decision of `need_flush`;
`FlushUpTo`, `FlushLine` and `SetTail` are the flush, one line at a time in any order up to the
fence, for both `try_commit` and `fsync` (`BeginSync`); `Append` is the compare-and-swap.
`PowerFailure` puts `dur` in the place of `mem`. Blocks are numbered by their place in the
list, which `TxLog` justifies. `Builds` chooses whether entries are flushed in `fsync` only (the
default) or before a new line is touched. `NoGap` and `LostStaysLost` are about the second
build only: in the default build lines reach persistent memory in any order, a replay stops at
the gap, and nothing clears what is behind it. The comment of `need_flush` announces that this
build flushes in fsync only, so this is not counted as a disagreement.

### LogEntries - packing of log entries

`store` holds the entries by block and offset, in units of one block index, and storing one
destroys what it overlaps. `BeginWrite` is a write up to `prepare_commit_entry` with
`append`; `Commit` publishes and pins; `ConflictNewBlock` frees, resets and prepares again;
`ConflictRecheck` keeps the entries, updates their leftover bytes, or gives them up for an
inline entry; `Read` pins. The size of the file is left out: leftover bytes may become 0
whenever they are computed again. So are the bounds that `TxEntryInline::can_inline` sets to
the virtual and the logical index (28 and 29 bits, files of 1 TB): beyond them a short
mapping is packed like a long one.

## Runs

| Run | Question | Instance |
|---|---|---|
| `txlog` | Does the log stay one gap-free append-only chain, does no walk stop short, does it implement `AppendLog`, does every operation end, also when others die? | 2 processes, 2 writes each, 2 slots in the meta block, 1 per tx block, fairness: two boundaries are crossed and raced for |
| `occ_shared` | Content, ownership, table and snapshots for overlapping ranges with a common first block; do the transactions implement `AtomicFile`, and does every one end? | 2 threads sharing a table, 2 blocks of 2 cells, 3 + 1 operations, 8 logical blocks: freed blocks are reused; fairness |
| `occ_single` | The same for writes inside one block, two processes, extension of the file; which conflicts overrun `recycle_image`? | 2 + 2 operations, 3 blocks; both processes write in the third, one also writes the first two unaligned, up to the third or not |
| `occ_sequential` | Are cells, mapping and size right for every range? | 1 thread, 3 operations, all ranges of 3 blocks, chunks of 2 blocks |
| `alloc_safety` | Which steps can give a block a second owner, and which can lose one? | 2 threads that may both be collectors, 2 words of 2 blocks, requests of 1 and 2 blocks, images of up to 3: groups are split, regrouped, returned and taken again, fill a word, cross its end, and have no list |
| `persist_safety` | Does what fsync covered survive, is everything before the recorded tail persistent, are there no gaps, do lost transactions stay lost? | 2 threads, 4 transactions over 3 blocks, lines of 2 slots, one power failure, both builds |
| `log_entries` | Is every committed mapping read back, is no block in use freed, is none leaked? | 2 threads, 2 writes each of 1, 2 and 7 indices, blocks for at most 5 |
| `occ_straddle` | Disagreement: the image of a conflict | a read of 2 blocks, a write of the second |
| `occ_unaligned` | Disagreement: the second copy | an unaligned write of 2 blocks, a write in the first |
| `occ_chunk` | Disagreement: the length of the last chunk | two writes of one whole chunk |
| `alloc_collector` | Disagreement: lists returned twice | a collector and a thread |
| `alloc_lost` | Disagreement: groups across a word | 1 thread, 2 words of 3 blocks, images of up to 2 blocks |

The runs called disagreements end in a violation. They are places where the code does something
other than its own comment says (see "findings" in `PROJECT.json`). The passing runs of
`OccFile` use ranges for which the code and the comments agree: conflicting ranges that
start in the same block, no unaligned write over several blocks that races with a
write of its first or last block, no racing entries of a whole number of chunks, and so no
racing chains. The passing run of `BlockAlloc` leaves nothing out: its properties name the
steps where the code and its comments part.

**Bounds.** A block boundary of the log needs one slot before it; two boundaries show
the meta block's smaller capacity and the ordinary case. Two threads are enough
for every race of two compare-and-swaps; three operations of one thread free a block,
reuse it and commit it while one operation of the other is under way, which is the
shortest history in which a stale source can be overwritten. Two cells per block tell
a whole from a partial block. `Mortal` names the processes that may die in a run of
`TxLog` or `OccFile`: one of two is enough, the other one sees every state a death leaves behind.
One power failure is enough because the invariants of `TxPersist` speak of what is persistent
in every state; four transactions fill the meta block and two tx blocks, and fsync also meets
the cursor at the end of each. (A line that begins inside a block, with tx blocks of three
slots and five transactions, gives the same results but does not reach the link of a tx
block in the time of a run.) In `BlockAlloc` two words of two blocks have groups
shorter than a word, as long as a word in one word and across two, and longer than a word. In `LogEntries` two writes of each thread leave a committed
entry in front of one that is freed, and reuse what was freed; `NumBlocks` is never reached.

**Fairness.** Weak fairness of every step of a live thread: the scheduler runs
it. Nothing is assumed of dead threads, and none for `Crash`. The spinlock is won
eventually because the operations of the others are bounded.

**Deadlock** is not checked: when all operations are done, the model stops.

## Proofs

### The transaction log

`TxLogProofs`, on the lemmas of `TxLogBasics`, `TxLogAlloc` and `TxLogAppend`, proves, for any set of threads, any blocks, any capacities and any
number of transactions:

- `TypeCorrect`, `LogHasNoHoles`, `ChainIsSound`, `NoStaleBytesRead`:
  the four invariants of the run `txlog`;
- `CommittedForEver`: `LogAppendOnly`, a committed entry and a link never change;
- `WalkMissesNothing`: `TailIsTail`, a walk that ends has passed every entry.

The only assumptions are `TxLogConstants` in `TxLog`: capacities are positive, block 0
is not handed out, `Empty`, `Junk` and transactions differ.

None of the invariants is inductive. `Inv` adds three facts: `SparesPrivate` - a block
that a thread has allocated or kept but not linked is blank, not in the list, and nobody
else's (else linking it could bring in old bytes or a second predecessor); `CursorsSound`
- a cursor stands in the list behind a prefix of taken slots (else an append at the
cursor could leave a hole); `SeqTotal` - numbers of linked blocks differ and only the
highest can lack a successor (else two blocks could be extended). `InvHolds` proves
`Spec => []Inv`, one lemma per action; the theorems follow.

### The block allocator

For any threads, any number and size of words, any requests of at most a word and images of
any length, with collectors beside other threads:

- `TypeCorrect` (`BlockAllocProofs`): `TypeOK`;
- `OneOwner` (`BlockAllocProofs`): `OnlySecondReturnShares`, a step from a state where every
  block has one owner leads to such a state, unless it returns a list a second time;
- `LossAtEdges` (`BlockAllocLost`): `LostOnlyAtEdges`, a block that becomes marked and unowned
  was in a group that fills or crosses a word and is returned, or in a stretch without a list.

The only assumptions are `BlockAllocConstants`. `OneOwner` and `LossAtEdges` are about steps,
because the code does not keep `BlockHasOneOwner` and `NothingLost`. The steps need `Inv`
(`BlockAllocFacts`), which is inductive: `TypeOK`, block 0 is marked and never in use, and for
each thread `ThreadOK`: the groups in its lists are blocks of the bitmap and not block 0, it has
a request while it searches, and the groups it has yet to return are groups of its lists. Then
`OneOwner` goes action by action: what an action takes from a word, a group or `used`, it gives
to one place. `LossAtEdges` goes the other way: every block an action takes away
from an owner it gives to another one or unmarks. That needs facts on coverage: the zero runs of
a word cover its zero bits (`ZeroRunsCover`), the groups of an image cover it
(`ImageGroupsCover`), a group and its rest cover what was split (`RestCovers`); the first two
rest on smallest elements of sets of numbers.

### Only model-checked

Liveness under fairness is out of the provers' reach. The refinements of `AppendLog` and
`AtomicFile`, and all of `OccFile`, `TxPersist` and `LogEntries` have runs and
no proofs yet; the chains of `LogEntries` are defined by recursion, which the provers cannot
follow.

## Not modelled

The flushing of data and log entries before a commit, garbage collection, the file
offset, opening, growth of mappings, the converter and the library wrappers are not modelled
yet, or, where `PROJECT.json` says so, will not be: the wrappers only forward, mmap's result
is decided by the kernel, and the locks of `tx/lock.h` belong to other builds. Memory is
sequentially consistent in the models; the code's acquire and release orders are not
examined.
