-------------------------- MODULE BlockAllocProofs --------------------------
(* Proofs about BlockAlloc: for any threads, bitmap, requests and images,  *)
(* its types, and that only a second return gives a block a second owner.  *)
EXTENDS BlockAllocFacts

USE BlockAllocConstants

-----------------------------------------------------------------------------
\* Allocation from the free lists.
LEMMA OwnerAllocLocal ==
  ASSUME Inv, BlockHasOneOwner, NEW t \in Threads, NEW n \in Sizes, AllocLocal(t, n)
  PROVE  BlockHasOneOwner'
<1>1. PICK g \in Fitting(t, n) :
        /\ free' = [free EXCEPT ![t] = (@ \ {g}) \cup Rest(g, n)]
        /\ used' = used \cup Run(g.begin, n)
  BY DEF AllocLocal
<1>2. /\ pc[t] = "idle" /\ UNCHANGED <<bits, want, todo, pc>>
      /\ free'[t] = (free[t] \ {g}) \cup Rest(g, n)
      /\ \A u \in Threads \ {t} : free'[u] = free[u]
  BY <1>1 DEF AllocLocal, Inv, TypeOK
<1>3. g \in free[t] /\ g \in Groups /\ n \in Nat \ {0} /\ n <= g.len
  BY DEF Fitting, Inv, TypeOK, Groups
<1>4. Mine(t) = free[t] /\ Mine(t)' = (Mine(t) \ {g}) \cup Rest(g, n)
  BY <1>2 DEF Mine
<1>5. \A u \in Threads \ {t} : Mine(u)' = Mine(u)
  BY <1>2, OthersOK
<1>6. /\ BlocksOf(g) \subseteq bits \ {0} /\ BlocksOf(g) \cap used = {}
      /\ \A u \in Threads : \A h \in Mine(u) :
           (u # t \/ h \notin {g}) => BlocksOf(h) \cap BlocksOf(g) = {}
  BY <1>3, <1>4 DEF BlockHasOneOwner
<1>7. /\ Run(g.begin, n) \subseteq BlocksOf(g)
      /\ \A h \in Rest(g, n) : BlocksOf(h) \subseteq BlocksOf(g) \ Run(g.begin, n)
      /\ \A h, k \in Rest(g, n) : h = k
  BY <1>3, RestFacts
<1>8. used' = (used \ BlocksOf(g)) \cup Run(g.begin, n)
  BY <1>1, <1>6
<1>9. Transferred(t, {g}, Rest(g, n), Run(g.begin, n), BlocksOf(g))
  BY <1>2, <1>4, <1>6, <1>7, <1>8 DEF Transferred
<1> QED BY <1>5, <1>9, Transfer

\* Allocation from the bitmap, a word at a time.
LEMMA OwnerTakeWord ==
  ASSUME Inv, BlockHasOneOwner, NEW t \in Threads, TakeWord(t)
  PROVE  BlockHasOneOwner'
<1> DEFINE w == at[t]
           runs == ZeroRuns(w)
           X == BitsOf(w) \ bits
<1>1. /\ pc[t] = "scan" /\ w \in Nat /\ UNCHANGED todo
      /\ bits' = bits \cup BitsOf(w) /\ want[t] \in Nat \ {0}
  BY DEF TakeWord, alloc_rest, Inv, TypeOK, ThreadOK
<1>2. /\ runs \subseteq Groups
      /\ \A g \in runs : BlocksOf(g) \subseteq X
      /\ \A g, h \in runs : g # h => BlocksOf(g) \cap BlocksOf(h) = {}
  BY <1>1, ZeroRunsFacts DEF Inv
<1>3. /\ X \subseteq bits' \ {0} /\ bits \subseteq bits' /\ X \cap used = {}
      /\ \A u \in Threads : \A h \in Mine(u) : BlocksOf(h) \cap X = {}
  BY <1>1 DEF Inv, BlockHasOneOwner
<1> DEFINE Into(N, U) ==
             /\ U \subseteq X
             /\ \A g \in N : BlocksOf(g) \subseteq X \ U
             /\ \A g, h \in N : g # h => BlocksOf(g) \cap BlocksOf(h) = {}
             /\ free'[t] = free[t] \cup N
             /\ used' = used \cup U
<1>4. ASSUME free' = [free EXCEPT ![t] = @ \cup runs], UNCHANGED used
      PROVE  \E N, U : Into(N, U)
  <2>1. free'[t] = free[t] \cup runs
    BY <1>4 DEF Inv, TypeOK
  <2> HIDE DEF X, runs
  <2>2. Into(runs, {})
    BY <1>2, <1>4, <2>1
  <2> HIDE DEF Into
  <2> QED BY <2>2, Zenon
<1>5. ASSUME NEW g \in runs, g.len >= want[t],
             free' = [free EXCEPT ![t] = @ \cup (runs \ {g}) \cup Rest(g, want[t])],
             used' = used \cup Run(g.begin, want[t])
      PROVE  \E N, U : Into(N, U)
  <2> DEFINE N == (runs \ {g}) \cup Rest(g, want[t])
             U == Run(g.begin, want[t])
  <2>1. g \in Groups /\ want[t] <= g.len
    BY <1>1, <1>2, <1>5 DEF Groups
  <2>2. /\ U \subseteq BlocksOf(g)
        /\ \A h \in Rest(g, want[t]) : BlocksOf(h) \subseteq BlocksOf(g) \ U
        /\ \A h, k \in Rest(g, want[t]) : h = k
    BY <1>1, <2>1, RestFacts
  <2>3. free'[t] = free[t] \cup N
    BY <1>5 DEF Inv, TypeOK
  <2> HIDE DEF X, runs, U
  <2>4. \A h \in runs \ {g} : BlocksOf(h) \cap BlocksOf(g) = {}
    BY <1>2, <1>5
  <2>5. U \subseteq X /\ \A h \in N : BlocksOf(h) \subseteq X \ U
    BY <1>2, <1>5, <2>2, <2>4
  <2>6. \A h, k \in N : h # k => BlocksOf(h) \cap BlocksOf(k) = {}
    <3>1. ASSUME NEW h \in runs \ {g}, NEW k \in Rest(g, want[t])
          PROVE  BlocksOf(h) \cap BlocksOf(k) = {} /\ BlocksOf(k) \cap BlocksOf(h) = {}
      BY <2>2, <2>4
    <3> QED BY <3>1, <1>2, <2>2
  <2> HIDE DEF N
  <2>7. Into(N, U)
    BY <1>5, <2>3, <2>5, <2>6 DEF U
  <2> HIDE DEF Into
  <2> QED BY <2>7, Zenon
<1>6. /\ pc'[t] \in {"scan", "idle"}
      /\ \A u \in Threads \ {t} : /\ pc'[u] = pc[u] /\ todo'[u] = todo[u]
                                   /\ free'[u] = free[u] /\ want'[u] = want[u]
  BY <1>1 DEF TakeWord, Inv, TypeOK
<1>7. \E N, U : Into(N, U)
  <2> HIDE DEF Into
  <2> QED BY <1>4, <1>5 DEF TakeWord
<1>8. PICK N, U : Into(N, U)
  BY <1>7
<1>9. \A u \in Threads \ {t} : Mine(u)' = Mine(u)
  BY <1>1, <1>6, OthersOK
<1>10. Mine(t)' = (Mine(t) \ {}) \cup N
  BY <1>1, <1>6, <1>8 DEF Mine
<1>11. used' = (used \ X) \cup U
  BY <1>3, <1>8
<1>12. Transferred(t, {}, N, U, X)
  <2> HIDE DEF X
  <2> QED BY <1>3, <1>8, <1>10, <1>11 DEF Transferred
<1> HIDE DEF X
<1> QED BY <1>9, <1>12, Transfer

\* Freeing an image.
LEMMA OwnerFree ==
  ASSUME Inv, BlockHasOneOwner, NEW t \in Threads, NEW image \in Images, Free(t, image)
  PROVE  BlockHasOneOwner'
<1> DEFINE N == ImageGroups(image)
           B == {image[i] : i \in DOMAIN image}
           X == used \cap B
<1>1. /\ pc[t] = "idle" /\ UNCHANGED <<bits, want, todo, pc>>
      /\ free'[t] = free[t] \cup N /\ used' = used \ B
      /\ \A u \in Threads \ {t} : free'[u] = free[u]
  BY DEF Free, Inv, TypeOK
<1>3. /\ \A g \in N : BlocksOf(g) \subseteq X
      /\ \A g, h \in N : g # h => BlocksOf(g) \cap BlocksOf(h) = {}
  BY ImageGroupsFacts DEF Inv
<1>4. \A u \in Threads \ {t} : Mine(u)' = Mine(u)
  BY <1>1, OthersOK
<1>5. Mine(t)' = (Mine(t) \ {}) \cup N
  BY <1>1 DEF Mine
<1>6. /\ X \subseteq bits \ {0}
      /\ \A u \in Threads : \A h \in Mine(u) : BlocksOf(h) \cap X = {}
  BY DEF Inv, BlockHasOneOwner
<1>7. used' = (used \ X) \cup {}
  BY <1>1
<1> HIDE DEF N, X
<1>8. Transferred(t, {}, N, {}, X)
  BY <1>1, <1>3, <1>5, <1>6, <1>7 DEF Transferred
<1> QED BY <1>4, <1>8, Transfer

-----------------------------------------------------------------------------
\* Owning less is no conflict.
LEMMA OwnedLess ==
  ASSUME BlockHasOneOwner, used' \subseteq used, used \subseteq bits',
         \A u \in Threads : Mine(u)' \subseteq Mine(u),
         \A u \in Threads : \A g \in Mine(u)' : BlocksOf(g) \subseteq bits'
  PROVE  BlockHasOneOwner'
<1>1. \A g : BlocksOf(g)' = BlocksOf(g)
  BY DEF BlocksOf, Run
<1> QED BY <1>1 DEF BlockHasOneOwner

\* Steps that hand out and return nothing; a thread that is lost in an overrun.
LEMMA OwnerNoBlocks ==
  ASSUME Inv, BlockHasOneOwner, NEW t \in Threads,
         \/ \E n \in Sizes : AllocShared(t, n)
         \/ SkipWord(t)
         \/ NoWordLeft(t)
         \/ \E image \in Images : FreeOverrun(t, image)
         \/ Recycle(t)
         \/ Exit(t)
  PROVE  BlockHasOneOwner'
<1>1. /\ UNCHANGED <<bits, free>> /\ used' \subseteq used
      /\ \A u \in Threads \ {t} : /\ pc'[u] = pc[u] /\ todo'[u] = todo[u]
                                   /\ free'[u] = free[u] /\ want'[u] = want[u]
  <2>1. CASE \E n \in Sizes : AllocShared(t, n)
    BY <2>1 DEF AllocShared, Inv, TypeOK
  <2>2. CASE SkipWord(t) \/ NoWordLeft(t)
    BY <2>2 DEF SkipWord, NoWordLeft, Inv, TypeOK
  <2>3. CASE \E image \in Images : FreeOverrun(t, image)
    BY <2>3 DEF FreeOverrun, Inv, TypeOK
  <2>4. CASE Recycle(t) \/ Exit(t)
    BY <2>4 DEF Recycle, Exit, Inv, TypeOK
  <2> QED BY <2>1, <2>2, <2>3, <2>4
<1>2. \A u \in Threads \ {t} : Mine(u)' = Mine(u)
  BY <1>1, OthersOK
<1>3. Mine(t)' = Mine(t)
  <2>1. CASE \E n \in Sizes : AllocShared(t, n)
    <3>1. pc[t] = "idle" /\ pc'[t] = "scan"
      BY <2>1 DEF AllocShared, Inv, TypeOK
    <3> QED BY <1>1, <3>1 DEF Mine
  <2>2. CASE SkipWord(t) \/ NoWordLeft(t)
    <3>1. pc[t] = "scan" /\ pc'[t] \in {"scan", "panic"}
      BY <2>2 DEF SkipWord, NoWordLeft, Inv, TypeOK
    <3> QED BY <1>1, <3>1 DEF Mine
  <2>3. CASE \E image \in Images : FreeOverrun(t, image)
    <3>1. pc[t] = "idle" /\ pc'[t] = "overrun"
      BY <2>3 DEF FreeOverrun, Inv, TypeOK
    <3> QED BY <1>1, <3>1 DEF Mine
  <2>4. CASE Recycle(t) \/ (Exit(t) /\ pc[t] = "idle")
    <3>1. pc[t] = "idle" /\ pc'[t] \in {"return", "exit"} /\ todo'[t] = free[t]
      BY <2>4 DEF Recycle, Exit, Inv, TypeOK
    <3> QED BY <3>1 DEF Mine
  <2>5. CASE Exit(t) /\ pc[t] # "idle"
    <3>1. pc[t] = "recycled" /\ pc'[t] = "again"
      BY <2>5 DEF Exit, Inv, TypeOK
    <3> QED BY <3>1 DEF Mine
  <2> QED BY <2>1, <2>2, <2>3, <2>4, <2>5
<1>4. \A u \in Threads : Mine(u)' \subseteq Mine(u)
  BY <1>2, <1>3
<1> QED BY <1>1, <1>4, OwnedLess DEF BlockHasOneOwner

\* A group goes back to the bitmap; if it does so a second time, a bit changes
\* that somebody may have set since.
LEMMA OwnerReturnGroup ==
  ASSUME Inv, BlockHasOneOwner, NEW t \in Threads, ReturnGroup(t)
  PROVE  BlockHasOneOwner' \/ SecondReturn
<1>1. PICK g \in todo[t] : /\ \E mask \in Masks(g) : bits' = bits \ mask
                           /\ todo' = [todo EXCEPT ![t] = @ \ {g}]
  BY DEF ReturnGroup
<1>2. PICK mask \in Masks(g) : bits' = bits \ mask
  BY <1>1
<1>3. mask \subseteq BlocksOf(g)
  BY DEF Masks
<1>4. /\ UNCHANGED <<used, free, want, pc>> /\ pc[t] \in Returning
      /\ todo'[t] = todo[t] \ {g}
      /\ \A u \in Threads \ {t} : todo'[u] = todo[u]
  BY <1>1 DEF ReturnGroup, Inv, TypeOK
<1>5. \A u \in Threads \ {t} : Mine(u)' = Mine(u)
  BY <1>4, OthersOK
<1>6. CASE pc[t] = "again"
  <2>1. todo'[t] # todo[t]
    BY <1>1, <1>4
  <2>2. CASE bits' # bits
    BY <1>6, <2>1, <2>2 DEF SecondReturn
  <2>3. CASE bits' = bits
    <3>1. Mine(t)' = {}
      BY <1>4, <1>6 DEF Mine
    <3>2. \A u \in Threads : Mine(u)' \subseteq Mine(u)
      BY <1>5, <3>1
    <3> QED BY <1>4, <2>3, <3>2, OwnedLess DEF BlockHasOneOwner
  <2> QED BY <2>2, <2>3
<1>7. CASE pc[t] \in {"return", "exit"}
  <2>1. Mine(t) = todo[t] /\ Mine(t)' = todo[t] \ {g}
    BY <1>4, <1>7 DEF Mine
  <2>2. /\ BlocksOf(g) \cap used = {}
        /\ \A u \in Threads : \A h \in Mine(u) :
             (t # u \/ g # h) => BlocksOf(g) \cap BlocksOf(h) = {}
    BY <2>1 DEF BlockHasOneOwner
  <2>3. ASSUME NEW u \in Threads, NEW h \in Mine(u)'
        PROVE  h \in Mine(u) /\ BlocksOf(h) \subseteq bits'
    <3>1. h \in Mine(u) /\ (t # u \/ g # h)
      BY <1>5, <2>1
    <3>2. BlocksOf(g) \cap BlocksOf(h) = {} /\ BlocksOf(h) \subseteq bits
      BY <3>1, <2>2 DEF BlockHasOneOwner
    <3> QED BY <3>1, <3>2, <1>2, <1>3
  <2>4. used \subseteq bits'
    BY <1>2, <1>3, <2>2 DEF BlockHasOneOwner
  <2> QED BY <1>4, <2>3, <2>4, OwnedLess
<1> QED BY <1>4, <1>6, <1>7 DEF Returning

\* All groups are back.
LEMMA OwnerReturned ==
  ASSUME Inv, BlockHasOneOwner, NEW t \in Threads, Returned(t)
  PROVE  BlockHasOneOwner'
<1>1. /\ UNCHANGED <<bits, used, want, todo>> /\ pc[t] \in Returning /\ todo[t] = {}
      /\ pc'[t] = IF pc[t] = "return" THEN "recycled" ELSE "gone"
      /\ free'[t] = IF pc[t] = "return" THEN free[t] ELSE {}
      /\ \A u \in Threads \ {t} : pc'[u] = pc[u] /\ free'[u] = free[u]
  BY DEF Returned, Inv, TypeOK
<1>2. \A u \in Threads \ {t} : Mine(u)' = Mine(u)
  BY <1>1, OthersOK
<1>3. Mine(t)' = {}
  BY <1>1 DEF Mine
<1>4. \A u \in Threads : Mine(u)' \subseteq Mine(u)
  BY <1>2, <1>3
<1> QED BY <1>1, <1>4, OwnedLess DEF BlockHasOneOwner

-----------------------------------------------------------------------------
\* What a step of thread t has to keep, the others being left alone.
Kept(t) == TypeOK /\ 0 \in bits /\ 0 \notin used /\ ThreadOK(t)

\* Allocation from the free lists keeps the types and the thread's groups.
LEMMA KeptAllocLocal ==
  ASSUME Inv, NEW t \in Threads, NEW n \in Sizes, AllocLocal(t, n)
  PROVE  Kept(t)'
<1>1. PICK g \in Fitting(t, n) :
        /\ free' = [free EXCEPT ![t] = (@ \ {g}) \cup Rest(g, n)]
        /\ used' = used \cup Run(g.begin, n)
  BY DEF AllocLocal
<1>2. /\ g \in Groups /\ g \in free[t] /\ n \in Nat \ {0} /\ n <= g.len
      /\ BlocksOf(g) \subseteq Blocks \ {0}
  BY DEF Fitting, Inv, TypeOK, ThreadOK
<1>3. /\ Rest(g, n) \subseteq Groups /\ Run(g.begin, n) \subseteq BlocksOf(g)
      /\ \A h \in Rest(g, n) : BlocksOf(h) \subseteq BlocksOf(g)
  BY <1>2, RestFacts
<1>4. /\ pc[t] = "idle" /\ UNCHANGED <<bits, recent, want, at, todo, pc>>
      /\ free'[t] = (free[t] \ {g}) \cup Rest(g, n)
  BY <1>1 DEF AllocLocal, Inv, TypeOK
<1>5. free' \in [Threads -> SUBSET Groups]
  BY <1>1, <1>3 DEF Inv, TypeOK
<1>6. used' \subseteq Blocks /\ 0 \notin used'
  BY <1>1, <1>2, <1>3 DEF Inv, TypeOK
<1>7. \A h \in free'[t] : BlocksOf(h) \subseteq Blocks \ {0}
  BY <1>2, <1>3, <1>4 DEF Inv, ThreadOK
<1>8. TypeOK' /\ 0 \in bits'
  BY <1>4, <1>5, <1>6 DEF Inv, TypeOK, Blocks
<1>9. ThreadOK(t)'
  BY <1>4, <1>7 DEF ThreadOK, Returning, BlocksOf, Run, Blocks
<1> QED BY <1>6, <1>8, <1>9 DEF Kept

\* Taking a word out of the bitmap does so: block 0 has its bit set.
LEMMA KeptTakeWord ==
  ASSUME Inv, NEW t \in Threads, TakeWord(t)
  PROVE  Kept(t)'
<1> DEFINE w == at[t]
           runs == ZeroRuns(w)
           large == {g \in runs : g.len >= want[t]}
<1>1. /\ w \in Nat /\ w < NumWords /\ w + 1 \in 0 .. NumWords
      /\ want[t] \in Nat \ {0} /\ pc[t] = "scan"
  BY DEF TakeWord, InBitmap, Inv, TypeOK, ThreadOK
<1>2. BitsOf(w) \subseteq Blocks
  BY <1>1, WordInBitmap
<1>3. /\ runs \subseteq Groups
      /\ \A g \in runs : BlocksOf(g) \subseteq BitsOf(w) \ bits
  BY <1>1, ZeroRunsFacts DEF Inv
<1>4. \A g \in runs : BlocksOf(g) \subseteq Blocks \ {0}
  BY <1>2, <1>3 DEF Inv
<1>5. /\ bits' \subseteq Blocks /\ 0 \in bits' /\ todo' = todo
      /\ recent' \in [Threads -> 0 .. NumWords]
  BY <1>1, <1>2 DEF TakeWord, alloc_rest, Inv, TypeOK
<1>6. CASE large = {}
  <2>1. /\ free' = [free EXCEPT ![t] = @ \cup runs] /\ at' = [at EXCEPT ![t] = @ + 1]
        /\ UNCHANGED <<used, want, pc>>
    BY <1>6 DEF TakeWord
  <2> HIDE DEF runs
  <2>2. free' \in [Threads -> SUBSET Groups] /\ free'[t] = free[t] \cup runs
    BY <1>3, <2>1 DEF Inv, TypeOK
  <2>3. TypeOK'
    BY <1>1, <1>5, <2>1, <2>2 DEF Inv, TypeOK, Blocks
  <2>4. \A h \in free'[t] : BlocksOf(h) \subseteq Blocks \ {0}
    BY <1>4, <2>2 DEF Inv, ThreadOK
  <2>5. ThreadOK(t)'
    BY <1>1, <2>1, <2>4 DEF ThreadOK, Returning, BlocksOf, Run, Blocks
  <2> QED BY <1>5, <2>1, <2>3, <2>5 DEF Kept, Inv
<1>7. CASE large # {}
  <2>1. PICK g \in large :
           /\ free' = [free EXCEPT ![t] = @ \cup (runs \ {g}) \cup Rest(g, want[t])]
           /\ used' = used \cup Run(g.begin, want[t])
           /\ pc' = [pc EXCEPT ![t] = "idle"]
           /\ at' = [at EXCEPT ![t] = 0]
           /\ want' = [want EXCEPT ![t] = 0]
    BY <1>7 DEF TakeWord
  <2>2. g \in runs /\ g \in Groups /\ want[t] <= g.len
    BY <1>1, <1>3 DEF Groups
  <2>3. /\ Rest(g, want[t]) \subseteq Groups /\ Run(g.begin, want[t]) \subseteq BlocksOf(g)
        /\ \A h \in Rest(g, want[t]) : BlocksOf(h) \subseteq BlocksOf(g)
    BY <1>1, <2>2, RestFacts
  <2> HIDE DEF runs, large
  <2>4. free' \in [Threads -> SUBSET Groups]
        /\ free'[t] = free[t] \cup (runs \ {g}) \cup Rest(g, want[t])
    BY <1>3, <2>1, <2>3 DEF Inv, TypeOK
  <2>5. used' \subseteq Blocks /\ 0 \notin used'
    BY <1>4, <2>1, <2>2, <2>3 DEF Inv, TypeOK
  <2>6. TypeOK'
    BY <1>5, <2>1, <2>4, <2>5 DEF Inv, TypeOK, PCs, Blocks
  <2>7. \A h \in free'[t] : BlocksOf(h) \subseteq Blocks \ {0}
    BY <1>4, <2>2, <2>3, <2>4 DEF Inv, ThreadOK
  <2>8. pc'[t] = "idle"
    BY <2>1 DEF Inv, TypeOK
  <2>9. ThreadOK(t)'
    BY <2>7, <2>8 DEF ThreadOK, Returning, BlocksOf, Run, Blocks
  <2> QED BY <1>5, <2>5, <2>6, <2>9 DEF Kept
<1> QED BY <1>6, <1>7

\* Freeing an image does so, with or without an overrun.
LEMMA KeptFree ==
  ASSUME Inv, NEW t \in Threads, NEW image \in Images,
         Free(t, image) \/ FreeOverrun(t, image)
  PROVE  Kept(t)'
<1>1. /\ ImageGroups(image) \subseteq Groups
      /\ \A g \in ImageGroups(image) : BlocksOf(g) \subseteq used
  BY ImageGroupsFacts DEF Inv
<1>2. /\ UNCHANGED <<bits, recent, want, at, todo>> /\ used' \subseteq used
      /\ pc'[t] \in {"idle", "overrun"} /\ pc' \in [Threads -> PCs]
  BY DEF Free, FreeOverrun, Inv, TypeOK, PCs
<1>3. /\ free' \in [Threads -> SUBSET Groups]
      /\ free'[t] \subseteq free[t] \cup ImageGroups(image)
  BY <1>1 DEF Free, FreeOverrun, Inv, TypeOK
<1>4. \A h \in free'[t] : BlocksOf(h) \subseteq Blocks \ {0}
  BY <1>1, <1>3 DEF Inv, TypeOK, ThreadOK
<1>5. TypeOK' /\ 0 \in bits' /\ 0 \notin used'
  BY <1>2, <1>3 DEF Inv, TypeOK, Blocks
<1>6. ThreadOK(t)'
  BY <1>2, <1>4 DEF ThreadOK, Returning, BlocksOf, Run, Blocks
<1> QED BY <1>5, <1>6 DEF Kept

\* Returning a group clears no bit of the meta block.
LEMMA KeptReturnGroup ==
  ASSUME Inv, NEW t \in Threads, ReturnGroup(t)
  PROVE  Kept(t)'
<1>1. PICK g \in todo[t] : /\ \E mask \in Masks(g) : bits' = bits \ mask
                           /\ todo' = [todo EXCEPT ![t] = @ \ {g}]
  BY DEF ReturnGroup
<1>2. PICK mask \in Masks(g) : bits' = bits \ mask
  BY <1>1
<1>3. /\ UNCHANGED <<used, free, recent, want, at, pc>> /\ pc[t] \in Returning
      /\ todo'[t] = todo[t] \ {g} /\ g \in free[t]
  BY <1>1 DEF ReturnGroup, Inv, TypeOK, ThreadOK
<1>4. mask \subseteq BlocksOf(g) /\ 0 \notin BlocksOf(g)
  BY <1>3 DEF Masks, Inv, ThreadOK
<1>5. TypeOK' /\ 0 \in bits' /\ 0 \notin used'
  BY <1>1, <1>2, <1>3, <1>4 DEF Inv, TypeOK, Blocks
<1>6. ThreadOK(t)'
  BY <1>3 DEF Inv, ThreadOK, Returning, BlocksOf, Run, Blocks
<1> QED BY <1>5, <1>6 DEF Kept

\* Steps that hand out and return nothing, and the end of a return.
LEMMA KeptNoBlocks ==
  ASSUME Inv, NEW t \in Threads,
         \/ \E n \in Sizes : AllocShared(t, n)
         \/ SkipWord(t)
         \/ NoWordLeft(t)
         \/ Recycle(t)
         \/ Exit(t)
         \/ Returned(t)
  PROVE  Kept(t)'
<1>1. /\ UNCHANGED <<bits, used>> /\ free' \in [Threads -> SUBSET Groups]
      /\ free'[t] \subseteq free[t]
  BY DEF AllocShared, SkipWord, NoWordLeft, Recycle, Exit, Returned, Inv, TypeOK
<1>2. TypeOK'
  <2>1. CASE \E n \in Sizes : AllocShared(t, n)
    BY <2>1 DEF AllocShared, Inv, TypeOK, PCs, Blocks
  <2>2. CASE SkipWord(t)
    BY <2>2 DEF SkipWord, InBitmap, Inv, TypeOK, Blocks
  <2>3. CASE NoWordLeft(t)
    BY <2>3 DEF NoWordLeft, Inv, TypeOK, PCs, Blocks
  <2>4. CASE Recycle(t) \/ Exit(t)
    BY <2>4 DEF Recycle, Exit, Inv, TypeOK, PCs, Returning, Blocks
  <2>5. CASE Returned(t)
    BY <2>5 DEF Returned, Inv, TypeOK, PCs, Blocks
  <2> QED BY <2>1, <2>2, <2>3, <2>4, <2>5
<1>3. /\ pc'[t] = "scan" => want'[t] > 0
      /\ pc'[t] \in Returning => todo'[t] \subseteq free'[t]
  <2>1. CASE \E n \in Sizes : AllocShared(t, n)
    <3>1. pc'[t] = "scan" /\ want'[t] \in 1 .. Cap
      BY <2>1 DEF AllocShared, Inv, TypeOK
    <3>2. want'[t] > 0
      BY <3>1
    <3> QED BY <3>1, <3>2 DEF Returning
  <2>2. CASE SkipWord(t)
    <3>1. pc'[t] = "scan" /\ want' = want /\ pc[t] = "scan"
      BY <2>2 DEF SkipWord
    <3> QED BY <3>1 DEF Inv, ThreadOK, Returning
  <2>3. CASE NoWordLeft(t) \/ Returned(t)
    <3>1. pc'[t] \in {"panic", "recycled", "gone"}
      BY <2>3 DEF NoWordLeft, Returned, Inv, TypeOK
    <3> QED BY <3>1 DEF Returning
  <2>4. CASE Recycle(t) \/ Exit(t)
    <3>1. todo'[t] = free[t] /\ free' = free /\ pc'[t] \in {"return", "exit", "again"}
      BY <2>4 DEF Recycle, Exit, Inv, TypeOK
    <3> QED BY <3>1 DEF Returning
  <2> QED BY <2>1, <2>2, <2>3, <2>4
<1>4. \A h \in free'[t] : BlocksOf(h) \subseteq Blocks \ {0}
  BY <1>1 DEF Inv, ThreadOK
<1>5. ThreadOK(t)'
  BY <1>3, <1>4 DEF ThreadOK, Returning, BlocksOf, Run, Blocks
<1> QED BY <1>1, <1>2, <1>5 DEF Kept, Inv

-----------------------------------------------------------------------------
\* A step is a step of one thread, and touches nothing of the others.
LEMMA OneThread ==
  ASSUME Inv, NEW t \in Threads,
         \/ \E n \in Sizes : AllocLocal(t, n) \/ AllocShared(t, n)
         \/ SkipWord(t) \/ TakeWord(t) \/ NoWordLeft(t)
         \/ \E image \in Images : Free(t, image) \/ FreeOverrun(t, image)
         \/ Recycle(t) \/ Exit(t) \/ ReturnGroup(t) \/ Returned(t)
  PROVE  \A u \in Threads \ {t} : /\ pc'[u] = pc[u] /\ todo'[u] = todo[u]
                                  /\ free'[u] = free[u] /\ want'[u] = want[u]
<1> USE DEF Inv, TypeOK
<1>1. ASSUME NEW n \in Sizes, AllocLocal(t, n) \/ AllocShared(t, n)
      PROVE  \A u \in Threads \ {t} : /\ pc'[u] = pc[u] /\ todo'[u] = todo[u]
                                      /\ free'[u] = free[u] /\ want'[u] = want[u]
  BY <1>1 DEF AllocLocal, AllocShared
<1>2. CASE SkipWord(t) \/ TakeWord(t) \/ NoWordLeft(t)
  BY <1>2 DEF SkipWord, TakeWord, NoWordLeft
<1>3. ASSUME NEW image \in Images, Free(t, image) \/ FreeOverrun(t, image)
      PROVE  \A u \in Threads \ {t} : /\ pc'[u] = pc[u] /\ todo'[u] = todo[u]
                                      /\ free'[u] = free[u] /\ want'[u] = want[u]
  BY <1>3 DEF Free, FreeOverrun
<1>4. CASE Recycle(t) \/ Exit(t) \/ ReturnGroup(t) \/ Returned(t)
  BY <1>4 DEF Recycle, Exit, ReturnGroup, Returned
<1> QED BY <1>1, <1>2, <1>3, <1>4

\* Every step keeps the invariant.
LEMMA InvStep ==
  ASSUME Inv, Next
  PROVE  Inv'
<1>1. PICK t \in Threads :
        \/ \E n \in Sizes : AllocLocal(t, n) \/ AllocShared(t, n)
        \/ SkipWord(t) \/ TakeWord(t) \/ NoWordLeft(t)
        \/ \E image \in Images : Free(t, image) \/ FreeOverrun(t, image)
        \/ Recycle(t) \/ Exit(t) \/ ReturnGroup(t) \/ Returned(t)
  BY DEF Next
<1>2. Kept(t)'
  BY <1>1, KeptAllocLocal, KeptTakeWord, KeptFree, KeptReturnGroup, KeptNoBlocks
<1>3. \A u \in Threads \ {t} : ThreadOK(u)'
  <2>1. \A u \in Threads \ {t} : /\ pc'[u] = pc[u] /\ todo'[u] = todo[u]
                                 /\ free'[u] = free[u] /\ want'[u] = want[u]
    BY <1>1, OneThread
  <2> QED BY <2>1, OthersOK
<1>4. \A u \in Threads : ThreadOK(u)'
  BY <1>2, <1>3 DEF Kept
<1> QED BY <1>2, <1>4 DEF Kept, Inv

\* Stuttering keeps the invariant.
LEMMA InvStutter ==
  ASSUME Inv, UNCHANGED vars
  PROVE  Inv'
<1>1. \A t \in Threads : ThreadOK(t) => ThreadOK(t)'
  BY DEF vars, ThreadOK, BlocksOf, Run, Blocks
<1> QED BY <1>1 DEF vars, Inv, TypeOK, Blocks

\* The fresh file satisfies the invariant.
LEMMA InvInit ==
  ASSUME Init
  PROVE  Inv
<1>1. TypeOK
  <2>1. 0 \in Blocks
    <3>1. NumWords * Cap \in Nat \ {0}
      OBVIOUS
    <3> QED BY <3>1 DEF Blocks
  <2> QED BY <2>1 DEF Init, TypeOK, PCs
<1>2. \A t \in Threads : ThreadOK(t)
  BY DEF Init, ThreadOK, Returning
<1> QED BY <1>1, <1>2 DEF Init, Inv

\* A step gives a block a second owner only if it is a second return.
LEMMA OwnerStep ==
  ASSUME Inv, BlockHasOneOwner, [Next]_vars
  PROVE  BlockHasOneOwner' \/ SecondReturn
<1>1. CASE UNCHANGED vars
  <2>1. \A t \in Threads : Mine(t)' = Mine(t)
    BY <1>1 DEF vars, Mine
  <2> QED BY <1>1, <2>1, OwnedLess DEF vars, BlockHasOneOwner
<1>2. CASE Next
  <2>1. PICK t \in Threads :
          \/ \E n \in Sizes : AllocLocal(t, n) \/ AllocShared(t, n)
          \/ SkipWord(t) \/ TakeWord(t) \/ NoWordLeft(t)
          \/ \E image \in Images : Free(t, image) \/ FreeOverrun(t, image)
          \/ Recycle(t) \/ Exit(t) \/ ReturnGroup(t) \/ Returned(t)
    BY <1>2 DEF Next
  <2> QED BY <2>1, OwnerAllocLocal, OwnerTakeWord, OwnerFree, OwnerNoBlocks,
             OwnerReturnGroup, OwnerReturned
<1> QED BY <1>1, <1>2

(* BlockAllocator keeps its types in every reachable state, whatever       *)
(* images are freed, also across words, and whoever collects garbage       *)
(* beside the others; also after a list was returned twice.                *)
THEOREM TypeCorrect == Spec => []TypeOK
<1>1. Inv /\ [Next]_vars => Inv'
  BY InvStep, InvStutter
<1>2. Inv => TypeOK
  BY DEF Inv
<1> QED BY InvInit, <1>1, <1>2, PTL DEF Spec

(* BlockAllocator::alloc hands a block out twice only after a destructor   *)
(* has returned a list that a collector had returned before: nothing else  *)
(* that threads allocate, split, free, group and return in a bitmap of any *)
(* size, for images of any length, gives a block a second owner.           *)
THEOREM OneOwner == Spec => OnlySecondReturnShares
<1>1. Inv /\ [Next]_vars => Inv'
  BY InvStep, InvStutter
<1>2. Inv /\ [Next]_vars => [BlockHasOneOwner => (BlockHasOneOwner' \/ SecondReturn)]_vars
  BY OwnerStep
<1> QED BY InvInit, <1>1, <1>2, PTL DEF Spec, OnlySecondReturnShares

=============================================================================
