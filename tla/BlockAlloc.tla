----------------------------- MODULE BlockAlloc -----------------------------
(***************************************************************************)
(* Which logical blocks are in use: the bitmap in shared memory (BitmapMgr *)
(* over BitmapEntry words) and the free lists of every thread              *)
(* (BlockAllocator).  A thread takes whole words out of the bitmap with an *)
(* atomic exchange and serves allocations from its own lists; freed blocks *)
(* stay in its lists until it exits.                                       *)
(*                                                                         *)
(* A group is a run of blocks in a free list; free_lists[n-1] holds the    *)
(* groups of length n.  The blocks in use belong to the transactions: one  *)
(* may be freed by another thread than the one that allocated it.          *)
(***************************************************************************)
EXTENDS Integers, Sequences, FiniteSetsExt

CONSTANTS
  Threads,
  NumWords,   \* NUM_BITMAP_ENTRIES
  Cap,        \* BITMAP_ENTRY_BLOCKS_CAPACITY
  Sizes,      \* numbers of blocks asked for in one allocation
  MaxImage    \* bound: length of the images that are freed

ASSUME BlockAllocConstants ==
  /\ NumWords \in Nat \ {0} /\ Cap \in Nat \ {0}
  /\ Sizes \subseteq 1 .. Cap
  /\ MaxImage \in Nat

Words == 0 .. NumWords - 1
Blocks == 0 .. NumWords * Cap - 1
Groups == [begin : Nat, len : Nat \ {0}]

VARIABLES
  bits,    \* blocks whose bit is set in the bitmap
  used,    \* blocks handed to transactions
  free,    \* free[t]: groups in the free lists of thread t
  recent,  \* recent[t]: recent_bitmap_idx, as a word
  want,    \* want[t]: num_blocks of the allocation under way
  at,      \* at[t]: word that try_alloc looks at
  todo,    \* todo[t]: groups return_free_list has still to return
  pc       \* pc[t]: "idle", "scan", "return", ...

vars == <<bits, used, free, recent, want, at, todo, pc>>

\* The meta block is marked when the bitmap is set up; the file is fresh.
Init ==
  /\ bits = {0}
  /\ used = {}
  /\ free = [t \in Threads |-> {}]
  /\ recent = [t \in Threads |-> 0]
  /\ want = [t \in Threads |-> 0]
  /\ at = [t \in Threads |-> 0]
  /\ todo = [t \in Threads |-> {}]
  /\ pc = [t \in Threads |-> "idle"]

Run(b, n) == b .. b + n - 1
BlocksOf(g) == Run(g.begin, g.len)
WordOf(b) == b \div Cap
BitsOf(w) == Run(w * Cap, Cap)

\* fault: the rest of a group that is split is not kept
RestDropped(g, n) == {}

\* What is left of group g when n blocks are taken from its front.
Rest(g, n) ==
  IF g.len = n THEN {} ELSE {[begin |-> g.begin + n, len |-> g.len - n]}

(***************************************************************************)
(* BlockAllocator::alloc.  The smallest group that is large enough serves  *)
(* the request; the code takes the last of that length, here it is any.    *)
(***************************************************************************)
Fitting(t, n) == {g \in free[t] : g.len >= n}

AllocLocal(t, n) ==
  /\ pc[t] = "idle"
  /\ \E g \in Fitting(t, n) :
       /\ \A h \in Fitting(t, n) : g.len <= h.len
       /\ free' = [free EXCEPT ![t] = (@ \ {g}) \cup Rest(g, n)]
       /\ used' = used \cup Run(g.begin, n)
  /\ UNCHANGED <<bits, recent, want, at, todo, pc>>

AllocShared(t, n) ==
  /\ pc[t] = "idle"
  /\ Fitting(t, n) = {}
  /\ pc' = [pc EXCEPT ![t] = "scan"]
  /\ want' = [want EXCEPT ![t] = n]
  /\ at' = [at EXCEPT ![t] = recent[t]]
  /\ UNCHANGED <<bits, used, free, recent, todo>>

\* The runs of zero bits of word w.
ZeroRuns(w) ==
  LET zeros == BitsOf(w) \ bits
  IN {g \in [begin : zeros, len : 1 .. Cap] :
        /\ BlocksOf(g) \subseteq zeros
        /\ g.begin - 1 \notin zeros
        /\ g.begin + g.len \notin zeros}

\* fault: the search looks at one word too many
InBitmapLong(w) == w <= NumWords

\* The loop condition of try_alloc.
InBitmap(w) == w < NumWords

\* fault: the word is read and not taken
alloc_rest_kept(w) == bits' = bits

\* BitmapEntry::alloc_rest: the word reads as it was and is now all ones.
alloc_rest(w) == bits' = bits \cup BitsOf(w)

\* try_alloc at a word without a zero bit: on to the next one.
SkipWord(t) ==
  /\ pc[t] = "scan"
  /\ InBitmap(at[t])
  /\ BitsOf(at[t]) \subseteq bits
  /\ at' = [at EXCEPT ![t] = @ + 1]
  /\ UNCHANGED <<bits, used, free, recent, want, todo, pc>>

(***************************************************************************)
(* try_alloc at a word with zero bits: all of it is taken.  The first run  *)
(* that is long enough serves the request; without one the search goes on. *)
(***************************************************************************)
TakeWord(t) ==
  LET runs == ZeroRuns(at[t])
      large == {g \in runs : g.len >= want[t]}
  IN /\ pc[t] = "scan"
     /\ InBitmap(at[t])
     /\ ~(BitsOf(at[t]) \subseteq bits)
     /\ alloc_rest(at[t])
     /\ recent' = [recent EXCEPT ![t] = at[t] + 1]
     /\ \/ /\ large = {}
           /\ free' = [free EXCEPT ![t] = @ \cup runs]
           /\ at' = [at EXCEPT ![t] = @ + 1]
           /\ UNCHANGED <<used, want, pc>>
        \/ \E g \in large :
             /\ \A h \in large : g.begin <= h.begin
             /\ free' = [free EXCEPT ![t] = @ \cup (runs \ {g}) \cup Rest(g, want[t])]
             /\ used' = used \cup Run(g.begin, want[t])
             /\ pc' = [pc EXCEPT ![t] = "idle"]
             /\ at' = [at EXCEPT ![t] = 0]
             /\ want' = [want EXCEPT ![t] = 0]
     /\ UNCHANGED todo

\* try_alloc runs off the end of the bitmap: PANIC.
NoWordLeft(t) ==
  /\ pc[t] = "scan"
  /\ ~InBitmap(at[t])
  /\ pc' = [pc EXCEPT ![t] = "panic"]
  /\ UNCHANGED <<bits, used, free, recent, want, at, todo>>

(***************************************************************************)
(* BlockAllocator::free of an image: maximal stretches of the image whose  *)
(* blocks follow each other become groups, holes (0) are passed over.      *)
(***************************************************************************)
Stretch(image, i, j) ==
  /\ i <= j
  /\ \A k \in i .. j : image[k] # 0 /\ image[k] = image[i] + (k - i)

Stretches(image) ==
  {s \in [from : DOMAIN image, to : DOMAIN image] :
     /\ Stretch(image, s.from, s.to)
     /\ s.from - 1 \in DOMAIN image => ~Stretch(image, s.from - 1, s.to)
     /\ s.to + 1 \in DOMAIN image => ~Stretch(image, s.from, s.to + 1)}

ImageGroups(image) ==
  {[begin |-> image[s.from], len |-> s.to - s.from + 1] : s \in Stretches(image)}

\* The blocks of an image are in use and differ.
Images ==
  {image \in UNION {[1 .. n -> used \cup {0}] : n \in 1 .. MaxImage} :
     /\ \A i, j \in DOMAIN image : (image[i] = image[j] /\ image[i] # 0) => i = j
     /\ \E i \in DOMAIN image : image[i] # 0}

\* Every group has its list: free_lists has Cap elements.
InLists(image) == \A g \in ImageGroups(image) : g.len <= Cap

Free(t, image) ==
  /\ pc[t] = "idle"
  /\ InLists(image)
  /\ free' = [free EXCEPT ![t] = @ \cup ImageGroups(image)]
  /\ used' = used \ {image[i] : i \in DOMAIN image}
  /\ UNCHANGED <<bits, recent, want, at, todo, pc>>

\* A longer stretch indexes past the end of free_lists.  What that store does to
\* the process is undefined; thread t is not followed any further.
FreeOverrun(t, image) ==
  /\ pc[t] = "idle"
  /\ ~InLists(image)
  /\ used' = used \ {image[i] : i \in DOMAIN image}
  /\ pc' = [pc EXCEPT ![t] = "overrun"]
  /\ UNCHANGED <<bits, free, recent, want, at, todo>>

(***************************************************************************)
(* return_free_list, called by GarbageCollector, while other threads and   *)
(* processes go on, and by the destructor.  It leaves the lists as they    *)
(* are: after a recycle the destructor goes through them again.            *)
(***************************************************************************)
Recycle(t) ==
  /\ pc[t] = "idle"
  /\ pc' = [pc EXCEPT ![t] = "return"]
  /\ todo' = [todo EXCEPT ![t] = free[t]]
  /\ UNCHANGED <<bits, used, free, recent, want, at>>

Exit(t) ==
  /\ pc[t] \in {"idle", "recycled"}
  /\ pc' = [pc EXCEPT ![t] = IF @ = "idle" THEN "exit" ELSE "again"]
  /\ todo' = [todo EXCEPT ![t] = free[t]]
  /\ UNCHANGED <<bits, used, free, recent, want, at>>

(***************************************************************************)
(* BitmapEntry::free in the word of the first block.  The mask of a whole  *)
(* word is 1 << 64: the shift may give 1, so that nothing is freed, or 0.  *)
(***************************************************************************)
Masks(g) ==
  LET mask == BlocksOf(g) \cap BitsOf(WordOf(g.begin))
  IN IF g.len >= Cap THEN {{}, mask} ELSE {mask}

Returning == {"return", "exit", "again"}

ReturnGroup(t) ==
  /\ pc[t] \in Returning
  /\ \E g \in todo[t] :
       /\ \E mask \in Masks(g) : bits' = bits \ mask
       /\ todo' = [todo EXCEPT ![t] = @ \ {g}]
  /\ UNCHANGED <<used, free, recent, want, at, pc>>

Returned(t) ==
  /\ pc[t] \in Returning
  /\ todo[t] = {}
  /\ pc' = [pc EXCEPT ![t] = IF @ = "return" THEN "recycled" ELSE "gone"]
  /\ free' = [free EXCEPT ![t] = IF pc[t] = "return" THEN @ ELSE {}]
  /\ UNCHANGED <<bits, used, recent, want, at, todo>>

Next ==
  \E t \in Threads :
    \/ \E n \in Sizes : AllocLocal(t, n) \/ AllocShared(t, n)
    \/ SkipWord(t) \/ TakeWord(t) \/ NoWordLeft(t)
    \/ \E image \in Images : Free(t, image) \/ FreeOverrun(t, image)
    \/ Recycle(t) \/ Exit(t) \/ ReturnGroup(t) \/ Returned(t)

Spec == Init /\ [][Next]_vars

-----------------------------------------------------------------------------
PCs == {"idle", "scan", "recycled", "gone", "panic", "overrun"} \cup Returning

TypeOK ==
  /\ bits \subseteq Blocks
  /\ used \subseteq Blocks
  /\ free \in [Threads -> SUBSET Groups]
  /\ recent \in [Threads -> 0 .. NumWords]
  /\ want \in [Threads -> 0 .. Cap]
  /\ at \in [Threads -> 0 .. NumWords]
  /\ todo \in [Threads -> SUBSET Groups]
  /\ pc \in [Threads -> PCs]

\* The groups that are a thread's: not those it has returned.
Mine(t) ==
  CASE pc[t] \in {"return", "exit"} -> todo[t]
    [] pc[t] \in {"recycled", "again"} -> {}
    [] OTHER -> free[t]

(* A block has one owner: the transactions that use it, or one group in    *)
(* the lists of one thread, or the bitmap, where its bit is zero.  A       *)
(* collector beside other threads breaks this (alloc/block.h:175: the      *)
(* lists are returned, and not emptied).                                   *)
BlockHasOneOwner ==
  /\ used \subseteq bits \ {0}
  /\ \A t \in Threads : \A g \in Mine(t) :
       /\ BlocksOf(g) \subseteq bits \ {0}
       /\ BlocksOf(g) \cap used = {}
       /\ \A u \in Threads : \A h \in Mine(u) :
            (t # u \/ g # h) => BlocksOf(g) \cap BlocksOf(h) = {}

\* A destructor returns a group that a collector has returned before, and
\* clears bits that somebody has set since then.
SecondReturn ==
  /\ bits' # bits
  /\ \E t \in Threads : pc[t] = "again" /\ todo'[t] # todo[t]

(* The second return of a list is the only step that can give a block a    *)
(* second owner: whatever any threads allocate, split, free, group and     *)
(* return, also across words and beside a collector, no two allocations    *)
(* get the same block (alloc/block.h, bitmap.h).                           *)
OnlySecondReturnShares ==
  [][BlockHasOneOwner => (BlockHasOneOwner' \/ SecondReturn)]_vars

\* Blocks whose bit is set and that nobody uses and no list holds.
Lost ==
  bits \ ({0} \cup used
           \cup UNION {BlocksOf(g) : g \in UNION {Mine(t) : t \in Threads}})

(* return_free_list is to "Return all the blocks in the free list to the   *)
(* bitmap" (alloc/block.h:173), and nothing else may drop a block.  It     *)
(* does not: a group that reaches into a second word, or fills one, leaves *)
(* bits set for good (bitmap.h:68).                                        *)
NothingLost == Lost = {}

\* Block x is in a group that is returned now, and BitmapEntry::free misses it:
\* the group fills a word, or x is past the word the group begins in.
MissedByReturn(x) ==
  \E t \in Threads : \E g \in todo[t] \ todo'[t] :
    /\ x \in BlocksOf(g)
    /\ g.len >= Cap \/ WordOf(x) # WordOf(g.begin)

\* Block x was in an image with a stretch that has no list.
MissedByFree(x) ==
  x \in used /\ \E t \in Threads : pc[t] # "overrun" /\ pc'[t] = "overrun"

(* A block gets lost at the edges of a word only: in a group that fills a  *)
(* word or crosses its end, when it is returned, or that is longer than    *)
(* the longest list, when it is freed.  Splitting a group, taking a word   *)
(* with others beside, grouping an image and all other returns keep every  *)
(* block (alloc/block.h, bitmap.h:64).                                     *)
LostOnlyAtEdges ==
  [][\A x \in Lost' \ Lost : MissedByReturn(x) \/ MissedByFree(x)]_vars
=============================================================================
