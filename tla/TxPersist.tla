----------------------------- MODULE TxPersist ------------------------------
(***************************************************************************)
(* What of the transaction log is in persistent memory: the flushes of     *)
(* TxCursor and fsync, cache lines that are written back on their own, and *)
(* power failures.                                                         *)
(*                                                                         *)
(* TxLog shows that the blocks of the log form one list, so that block b   *)
(* is here the b-th of the list and a link only says that it has a         *)
(* successor.  A cursor is a pair of a block and a slot.                   *)
(***************************************************************************)
EXTENDS Integers, FiniteSets

CONSTANTS
  Threads,
  NumInline,  \* NUM_INLINE_TX_ENTRY
  PerBlock,   \* NUM_TX_ENTRY_PER_BLOCK
  PerLine,    \* NUM_TX_ENTRY_PER_CL
  MaxTx,      \* bound: number of transactions
  MaxFail,    \* bound: number of power failures
  Builds      \* values of BuildOptions::tx_flush_only_fsync

\* The last slots of a tx block share their line with its link.
ASSUME TxPersistConstants ==
  /\ NumInline \in Nat \ {0} /\ PerBlock \in Nat \ {0} /\ PerLine \in Nat \ {0}
  /\ NumInline % PerLine = 0 /\ PerBlock % PerLine # 0
  /\ MaxTx \in Nat /\ MaxFail \in Nat
  /\ Builds \subseteq BOOLEAN

Empty == 0
Txs == 1 .. MaxTx
\* The blocks that MaxTx entries can fill, and one more.
Blocks == 0 .. IF MaxTx < NumInline THEN 0 ELSE 1 + (MaxTx - NumInline) \div PerBlock
get_capacity(b) == IF b = 0 THEN NumInline ELSE PerBlock
Slots(b) == 0 .. get_capacity(b) - 1
Positions == UNION {{b} \X Slots(b) : b \in Blocks}
Cursors == UNION {{b} \X (0 .. get_capacity(b)) : b \in Blocks}

VARIABLES
  only_fsync,  \* tx_flush_only_fsync of this build
  mem,         \* the log as the processors see it: slots, links, flushed_tx_tail
  dur,         \* the log as it is in persistent memory
  op,          \* op[t]: what thread t is doing: "none", "write" or "fsync"
  pc,          \* pc[t]: "idle", "commit", "flush", "lines" or "append"
  cur,         \* cur[t]: cursor of the operation of thread t
  todo,        \* todo[t]: lines that flush_range of thread t has yet to flush
  goal,        \* goal[t]: transactions committed when fsync was called
  ntx,         \* number of transactions committed so far
  fails,       \* number of power failures so far
  synced,      \* transactions that a completed fsync has covered
  lost         \* transactions that were gone after a power failure

vars == <<only_fsync, mem, dur, op, pc, cur, todo, goal, ntx, fails, synced, lost>>

Blank == [slot |-> [p \in Positions |-> Empty], link |-> {}, tail |-> <<0, 0>>]

\* A file just created: fallocate leaves zeros.  Here and below, cur is <<0, 0>>
\* while there is no operation.
Init ==
  /\ only_fsync \in Builds
  /\ mem = Blank /\ dur = Blank
  /\ op = [t \in Threads |-> "none"]
  /\ pc = [t \in Threads |-> "idle"]
  /\ cur = [t \in Threads |-> <<0, 0>>]
  /\ todo = [t \in Threads |-> {}]
  /\ goal = [t \in Threads |-> {}]
  /\ ntx = 0 /\ fails = 0 /\ synced = {} /\ lost = {}

Before(c, d) == c[1] < d[1] \/ (c[1] = d[1] /\ c[2] < d[2])

\* Where a walk over image m ends: at the first empty slot, or overflown.
Chain(m) == {b \in Blocks : \A a \in 0 .. b - 1 : a \in m.link}
EmptySlots(m) == {p \in Positions : p[1] \in Chain(m) /\ m.slot[p] = Empty}
Tail(m) ==
  IF EmptySlots(m) # {}
    THEN CHOOSE p \in EmptySlots(m) : \A q \in EmptySlots(m) : ~Before(q, p)
    ELSE LET b == CHOOSE b \in Chain(m) : \A a \in Chain(m) : a <= b
         IN <<b, get_capacity(b)>>

\* The transactions that a walk over image m passes.
Walked(m) ==
  LET tail == Tail(m) IN {m.slot[p] : p \in {q \in Positions : Before(q, tail)}}

(***************************************************************************)
(* Cache lines.  A line is written back as a whole, when the program       *)
(* flushes it or at any other time.  Flushes of several lines are not      *)
(* ordered; the fence waits for all of them.                               *)
(***************************************************************************)
LineOf(p) == <<p[1], p[2] \div PerLine>>
MetaLine == <<0, -1>>
LinkLine(b) == IF b = 0 THEN MetaLine ELSE <<b, PerBlock \div PerLine>>
Lines == {LineOf(p) : p \in Positions} \cup {LinkLine(b) : b \in Blocks}

WrittenBack(lines) ==
  [slot |-> [p \in Positions |-> IF LineOf(p) \in lines THEN mem.slot[p] ELSE dur.slot[p]],
   link |-> {b \in Blocks : b \in (IF LinkLine(b) \in lines THEN mem.link ELSE dur.link)},
   tail |-> IF MetaLine \in lines THEN mem.tail ELSE dur.tail]

Evict ==
  /\ \E line \in Lines : dur' = WrittenBack({line})
  /\ UNCHANGED <<only_fsync, mem, op, pc, cur, todo, goal, ntx, fails, synced, lost>>

\* fault: the link of a block is not flushed with its entries
flush_range_entries(begin, end) ==
  {LineOf(p) : p \in {q \in Positions : ~Before(q, begin) /\ Before(q, end)}}

\* TxCursor::flush_range: the lines it flushes, with the links on the way
\* (flush_tx_block), and none if begin >= end.
flush_range(begin, end) ==
  {LineOf(p) : p \in {q \in Positions : ~Before(q, begin) /\ Before(q, end)}}
    \cup {LinkLine(b) : b \in begin[1] .. end[1] - 1}

\* fault: the first slot of a block is not taken for a new line
need_flush_inner(i) == ~only_fsync /\ i # 0 /\ i % PerLine = 0

\* TxEntry::need_flush: a new cache line is touched.
need_flush(i) == ~only_fsync /\ i % PerLine = 0

\* A write: the walk to the tail, then try_commit.  The bound leaves an entry
\* for every write that has begun.
BeginWrite(t) ==
  /\ pc[t] = "idle" /\ ntx + Cardinality({u \in Threads : op[u] = "write"}) < MaxTx
  /\ op' = [op EXCEPT ![t] = "write"]
  /\ cur' = [cur EXCEPT ![t] = Tail(mem)]
  /\ pc' = [pc EXCEPT ![t] = "commit"]
  /\ UNCHANGED <<only_fsync, mem, dur, todo, goal, ntx, fails, synced, lost>>

(***************************************************************************)
(* handle_overflow with an allocator.  A new block is zero in persistent   *)
(* memory (zero_init) before it is linked: the compare-and-swap of the     *)
(* link is a locked instruction, which orders the flushes before it.  Then *)
(* the flush, if needed.                                                   *)
(***************************************************************************)
Zeroed(m, b) ==
  [m EXCEPT !.slot = [p \in Positions |-> IF p[1] = b THEN Empty ELSE @[p]],
            !.link = @ \ {b}]

TryCommit(t) ==
  LET b == cur[t][1]
      over == cur[t][2] >= get_capacity(b)
      to == IF over THEN <<b + 1, 0>> ELSE cur[t]
  IN /\ pc[t] = "commit"
     /\ IF over /\ b \notin mem.link
          THEN /\ mem' = [Zeroed(mem, b + 1) EXCEPT !.link = @ \cup {b}]
               /\ dur' = Zeroed(dur, b + 1)
          ELSE UNCHANGED <<mem, dur>>
     /\ cur' = [cur EXCEPT ![t] = to]
     /\ pc' = [pc EXCEPT ![t] = IF need_flush(to[2]) THEN "flush" ELSE "append"]
     /\ UNCHANGED <<only_fsync, op, todo, goal, ntx, fails, synced, lost>>

\* The compare-and-swap of the slot; a taken one sends handle_conflict on.
Append(t) ==
  /\ pc[t] = "append"
  /\ \/ /\ mem.slot[cur[t]] = Empty
        /\ ntx' = ntx + 1
        /\ mem' = [mem EXCEPT !.slot[cur[t]] = ntx + 1]
        /\ op' = [op EXCEPT ![t] = "none"]
        /\ cur' = [cur EXCEPT ![t] = <<0, 0>>]
        /\ pc' = [pc EXCEPT ![t] = "idle"]
     \/ /\ mem.slot[cur[t]] # Empty
        /\ cur' = [cur EXCEPT ![t] = Tail(mem)]
        /\ pc' = [pc EXCEPT ![t] = "commit"]
        /\ UNCHANGED <<mem, op, ntx>>
  /\ UNCHANGED <<only_fsync, dur, todo, goal, fails, synced, lost>>

\* fsync: update without an allocator, the cursor may be overflown.
BeginSync(t) ==
  /\ pc[t] = "idle"
  /\ op' = [op EXCEPT ![t] = "fsync"]
  /\ cur' = [cur EXCEPT ![t] = Tail(mem)]
  /\ goal' = [goal EXCEPT ![t] = Walked(mem)]
  /\ pc' = [pc EXCEPT ![t] = "flush"]
  /\ UNCHANGED <<only_fsync, mem, dur, todo, ntx, fails, synced, lost>>

\* flush_up_to reads the tail; the lines to flush follow from it.
FlushUpTo(t) ==
  /\ pc[t] = "flush"
  /\ todo' = [todo EXCEPT ![t] = flush_range(mem.tail, cur[t])]
  /\ pc' = [pc EXCEPT ![t] = "lines"]
  /\ UNCHANGED <<only_fsync, mem, dur, op, cur, goal, ntx, fails, synced, lost>>

FlushLine(t) ==
  /\ pc[t] = "lines"
  /\ \E line \in todo[t] :
       /\ dur' = WrittenBack({line})
       /\ todo' = [todo EXCEPT ![t] = @ \ {line}]
  /\ UNCHANGED <<only_fsync, mem, op, pc, cur, goal, ntx, fails, synced, lost>>

\* fault: an overflown cursor is taken for the first slot of the next block
Settled_next(c) == IF c[2] >= get_capacity(c[1]) THEN <<c[1] + 1, 0>> ELSE c

\* fault: an overflown cursor is stored as it is
Settled_raw(c) == c

\* The tail that fsync stores: never an overflown cursor.
Settled(c) ==
  IF c[2] >= get_capacity(c[1]) THEN <<c[1], get_capacity(c[1]) - 1>> ELSE c

\* After the fence, set_flushed_tx_tail; then try_commit goes on, fsync returns.
SetTail(t) ==
  /\ pc[t] = "lines" /\ todo[t] = {}
  /\ mem' = [mem EXCEPT !.tail = Settled(cur[t])]
  /\ synced' = synced \cup goal[t]
  /\ goal' = [goal EXCEPT ![t] = {}]
  /\ \/ /\ op[t] = "write"
        /\ pc' = [pc EXCEPT ![t] = "append"]
        /\ UNCHANGED <<op, cur>>
     \/ /\ op[t] = "fsync"
        /\ op' = [op EXCEPT ![t] = "none"]
        /\ cur' = [cur EXCEPT ![t] = <<0, 0>>]
        /\ pc' = [pc EXCEPT ![t] = "idle"]
  /\ UNCHANGED <<only_fsync, dur, todo, ntx, fails, lost>>

\* Power fails: only what is in persistent memory is left, and is replayed.
\* (The death of a process alone is a thread that takes no more steps.)
PowerFailure ==
  /\ fails < MaxFail
  /\ fails' = fails + 1
  /\ mem' = dur
  /\ lost' = lost \cup (Walked(mem) \ Walked(dur))
  /\ op' = [t \in Threads |-> "none"]
  /\ pc' = [t \in Threads |-> "idle"]
  /\ cur' = [t \in Threads |-> <<0, 0>>]
  /\ todo' = [t \in Threads |-> {}]
  /\ goal' = [t \in Threads |-> {}]
  /\ UNCHANGED <<only_fsync, dur, ntx, synced>>

Next ==
  \/ \E t \in Threads :
       \/ BeginWrite(t) \/ TryCommit(t) \/ Append(t)
       \/ BeginSync(t) \/ FlushUpTo(t) \/ FlushLine(t) \/ SetTail(t)
  \/ Evict \/ PowerFailure

Spec == Init /\ [][Next]_vars

-----------------------------------------------------------------------------
Images ==
  [slot : [Positions -> {Empty} \cup Txs], link : SUBSET Blocks, tail : Positions]

(* The tail in the meta block is never an overflown position: "we keep an  *)
(* invariant that tx_tail must be a valid (non-overflow) idx" (sync.cpp).  *)
TypeOK ==
  /\ only_fsync \in BOOLEAN
  /\ mem \in Images /\ dur \in Images
  /\ op \in [Threads -> {"none", "write", "fsync"}]
  /\ pc \in [Threads -> {"idle", "commit", "flush", "lines", "append"}]
  /\ cur \in [Threads -> Cursors] /\ todo \in [Threads -> SUBSET Lines]
  /\ goal \in [Threads -> SUBSET Txs]
  /\ ntx \in 0 .. MaxTx /\ fails \in 0 .. MaxFail
  /\ synced \subseteq Txs /\ lost \subseteq Txs

(* "all tx entries before it must be flushed" (meta.h): whatever threads   *)
(* flush and set the tail in whatever order, also after power failures and *)
(* deaths, everything before flushed_tx_tail is in persistent memory, with *)
(* the links that lead there.                                              *)
TailIsFlushed ==
  /\ \A p \in Positions : Before(p, mem.tail) => dur.slot[p] # Empty
  /\ \A b \in Blocks : b < mem.tail[1] => b \in dur.link

(* What a completed fsync has covered is found again by a replay after a   *)
(* power failure at any moment, now or later, although fsync flushes only  *)
(* from flushed_tx_tail on (file/sync.cpp, TxCursor::flush_range).         *)
SyncedSurvives == synced \subseteq Walked(dur)

(* In a build that flushes a line before it touches the next, the entries  *)
(* in persistent memory never have a gap that a replay would stop at while *)
(* there are entries behind it (TxEntry::need_flush, try_commit).          *)
NoGap ==
  only_fsync \/ LET tail == Tail(dur)
                IN \A p \in Positions : dur.slot[p] # Empty => Before(p, tail)

(* In such a build, a transaction that a replay after a power failure did  *)
(* not find does not come back later behind newer ones, which would bring  *)
(* old data back: the "crash consistency" of README.md for entries that    *)
(* TxCursor::try_append stored and nothing had flushed.  For the default   *)
(* build need_flush promises nothing ("if only flush at fsync, always      *)
(* return false", entry.h), and there such a transaction may come back.    *)
LostStaysLost == only_fsync \/ lost \cap Walked(mem) = {}
=============================================================================
