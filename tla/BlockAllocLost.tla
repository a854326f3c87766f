--------------------------- MODULE BlockAllocLost ---------------------------
(* Proofs about BlockAlloc: for any threads, bitmap, requests and images,  *)
(* a block gets lost at the edges of a word only.                          *)
EXTENDS BlockAllocProofs, WellFoundedInduction

USE BlockAllocConstants

-----------------------------------------------------------------------------
\* A set of numbers has a least one.
LEMMA NatMin ==
  ASSUME NEW S, S \subseteq Nat, S # {}
  PROVE  \E x \in S : \A y \in S : x <= y
<1> DEFINE R == OpToRel(<, Nat)
<1>1. IsWellFoundedOn(R, Nat)
  BY NatLessThanWellFounded, Zenon
<1>2. \A x, y \in Nat : y < x => <<y, x>> \in R
  BY Zenon DEF OpToRel
<1> HIDE DEF R
<1>3. \E x \in S : \A y \in S : ~(<<y, x>> \in R)
  BY <1>1, WFMin
<1>4. \A x, y \in S : ~(y < x) => x <= y
  OBVIOUS
<1> QED BY <1>2, <1>3, <1>4

\* A block is in its word (bitmap.h).
LEMMA InItsWord ==
  ASSUME NEW x \in Nat
  PROVE  x \in BitsOf(WordOf(x))
<1>1. PICK q \in Nat : q = x \div Cap
  OBVIOUS
<1>2. q * Cap \in Nat /\ q * Cap <= x /\ x < q * Cap + Cap
  BY <1>1
<1> QED BY <1>1, <1>2 DEF WordOf, BitsOf, Run

\* Splitting a group loses no block of it (alloc).
LEMMA RestCovers ==
  ASSUME NEW g \in Groups, NEW n \in Nat \ {0}, n <= g.len
  PROVE  /\ \A x \in BlocksOf(g) : x \in Run(g.begin, n) \/ \E h \in Rest(g, n) : x \in BlocksOf(h)
         /\ \A h \in Rest(g, n) : h.len < g.len /\ BlocksOf(h) \subseteq BlocksOf(g)
<1>0. g.begin \in Nat /\ g.len \in Nat
  BY DEF Groups
<1>1. CASE g.len = n
  BY <1>1 DEF Rest, BlocksOf
<1>2. CASE g.len # n
  <2>1. PICK r : r = [begin |-> g.begin + n, len |-> g.len - n]
    OBVIOUS
  <2>2. r.begin = g.begin + n /\ r.len = g.len - n /\ Rest(g, n) = {r}
    BY <1>2, <2>1 DEF Rest
  <2>3. \A x \in BlocksOf(g) : x \in Run(g.begin, n) \/ x \in BlocksOf(r)
    BY <1>0, <2>2 DEF BlocksOf, Run
  <2>4. r.len < g.len
    BY <1>0, <2>2
  <2>5. BlocksOf(r) \subseteq BlocksOf(g)
    BY RestFacts, <2>2
  <2> QED BY <2>2, <2>3, <2>4, <2>5
<1> QED BY <1>1, <1>2

\* Every zero bit of a word is in one of its runs (try_alloc).
LEMMA ZeroRunsCover ==
  ASSUME NEW w \in Nat, NEW x \in BitsOf(w) \ bits
  PROVE  \E g \in ZeroRuns(w) : x \in BlocksOf(g)
<1> DEFINE zeros == BitsOf(w) \ bits
           lo == w * Cap
<1>1. lo \in Nat /\ Cap \in Nat
  OBVIOUS
<1>2. \A y \in zeros : y \in Nat /\ lo <= y /\ y < lo + Cap
  BY <1>1 DEF BitsOf, Run
<1>3. x \in zeros
  OBVIOUS
<1> HIDE DEF zeros, lo
<1>4. PICK b \in Nat : /\ b <= x /\ \A y \in b .. x : y \in zeros
                       /\ b - 1 \notin zeros
  <2> DEFINE S == {y \in Nat : y <= x /\ \A z \in y .. x : z \in zeros}
  <2>1. x \in S
    BY <1>2, <1>3
  <2>2. PICK b \in S : \A y \in S : b <= y
    BY <2>1, NatMin
  <2>3. ASSUME b - 1 \in zeros PROVE FALSE
    <3>1. b - 1 \in Nat /\ b \in Nat /\ x \in Nat
      BY <2>3, <1>2, <1>3
    <3>2. \A z \in b - 1 .. x : z = b - 1 \/ z \in b .. x
      BY <3>1
    <3>3. b - 1 \in S
      BY <3>1, <3>2, <2>3
    <3> QED BY <3>1, <3>3, <2>2
  <2> QED BY <2>3
<1>5. PICK e \in Nat : e > x /\ e \notin zeros /\ \A y \in x + 1 .. e - 1 : y \in zeros
  <2> DEFINE S == {y \in Nat : y > x /\ y \notin zeros}
  <2>1. lo + Cap \in S
    BY <1>1, <1>2, <1>3
  <2>2. PICK e \in S : \A y \in S : e <= y
    BY <2>1, NatMin
  <2>3. ASSUME NEW y \in x + 1 .. e - 1 PROVE y \in zeros
    <3>1. y \in Nat /\ y > x /\ ~(e <= y)
      BY <1>2, <1>3
    <3> QED BY <3>1, <2>2
  <2> QED BY <2>3
<1>6. \A y \in b .. e - 1 : y \in zeros
  <2>1. x \in Nat
    BY <1>2, <1>3
  <2>2. \A y \in b .. e - 1 : y \in b .. x \/ y \in x + 1 .. e - 1
    BY <2>1, <1>4, <1>5
  <2> QED BY <2>2, <1>4, <1>5
<1>7. /\ b \in zeros /\ e - 1 \in zeros /\ b <= x /\ x <= e - 1 /\ x \in Nat
      /\ e - b \in 1 .. Cap
  <2>1. x \in Nat /\ b <= e - 1
    BY <1>2, <1>3, <1>4, <1>5
  <2>2. b \in zeros /\ e - 1 \in zeros
    BY <1>6, <2>1
  <2>3. lo <= b /\ e - 1 < lo + Cap
    BY <1>2, <2>2
  <2> QED BY <1>1, <1>4, <1>5, <2>1, <2>2, <2>3
<1>8. PICK g : g = [begin |-> b, len |-> e - b]
  OBVIOUS
<1>9. g.begin = b /\ g.len = e - b /\ g \in [begin : zeros, len : 1 .. Cap]
  BY <1>7, <1>8
<1>10. BlocksOf(g) = b .. e - 1 /\ g.begin + g.len = e
  <2>1. b + (e - b) = e
    OBVIOUS
  <2> QED BY <1>9, <2>1 DEF BlocksOf, Run
<1>11. BlocksOf(g) \subseteq zeros /\ g.begin - 1 \notin zeros /\ g.begin + g.len \notin zeros
  BY <1>4, <1>5, <1>6, <1>9, <1>10
<1>12. g \in ZeroRuns(w)
  BY <1>9, <1>11 DEF ZeroRuns, zeros
<1>13. x \in BlocksOf(g)
  BY <1>4, <1>5, <1>7, <1>10
<1> QED BY <1>12, <1>13

\* Every block of an image is in one of its groups (free).
LEMMA ImageGroupsCover ==
  ASSUME TypeOK, 0 \notin used, NEW image \in Images
  PROVE  \A i \in DOMAIN image :
           image[i] # 0 => \E g \in ImageGroups(image) : image[i] \in BlocksOf(g)
<1>1. PICK n \in 1 .. MaxImage : DOMAIN image = 1 .. n
  BY DEF Images
<1>2. \A i \in 1 .. n : image[i] \in Nat
  BY <1>1, StretchFacts
<1>3. ASSUME NEW i \in 1 .. n, image[i] # 0
      PROVE  \E g \in ImageGroups(image) : image[i] \in BlocksOf(g)
  <2>1. PICK f \in 1 .. n : Stretch(image, f, i) /\ \A y \in 1 .. n : Stretch(image, y, i) => f <= y
    <3> DEFINE S == {y \in 1 .. n : Stretch(image, y, i)}
    <3>1. Stretch(image, i, i)
      BY <1>2, <1>3 DEF Stretch
    <3>2. i \in S /\ S \subseteq Nat
      BY <3>1
    <3>3. PICK f \in S : \A y \in S : f <= y
      BY <3>2, NatMin
    <3> QED BY <3>3
  <2>2. PICK e \in i + 1 .. n + 1 : /\ e \in 1 .. n => ~Stretch(image, f, e)
                                    /\ \A y \in i + 1 .. e - 1 : Stretch(image, f, y)
    <3> DEFINE S == {y \in i + 1 .. n + 1 : y \in 1 .. n => ~Stretch(image, f, y)}
    <3>1. n + 1 \in S /\ S \subseteq Nat
      OBVIOUS
    <3>2. PICK e \in S : \A y \in S : e <= y
      BY <3>1, NatMin
    <3>3. ASSUME NEW y \in i + 1 .. e - 1 PROVE Stretch(image, f, y)
      <4>1. y \in i + 1 .. n + 1 /\ y \in 1 .. n /\ ~(e <= y)
        OBVIOUS
      <4> QED BY <4>1, <3>2
    <3> QED BY <3>3
  <2>3. f <= i /\ i <= e - 1 /\ e - 1 \in 1 .. n /\ f \in Nat /\ e \in Nat /\ i \in Nat
    BY <2>1 DEF Stretch
  <2>4. Stretch(image, f, e - 1)
    <3>1. e - 1 = i \/ e - 1 \in i + 1 .. e - 1
      BY <2>3
    <3> QED BY <3>1, <2>1, <2>2
  <2>5. ASSUME f - 1 \in 1 .. n, Stretch(image, f - 1, e - 1) PROVE FALSE
    <3>1. \A k \in f - 1 .. i : k \in f - 1 .. e - 1
      BY <2>3
    <3>2. Stretch(image, f - 1, i)
      BY <3>1, <2>3, <2>5 DEF Stretch
    <3> QED BY <3>2, <2>1, <2>3, <2>5
  <2>6. PICK s : s = [from |-> f, to |-> e - 1]
    OBVIOUS
  <2>7. s.from = f /\ s.to = e - 1 /\ s \in [from : 1 .. n, to : 1 .. n] /\ s.to + 1 = e
    BY <2>3, <2>6
  <2>8. s \in Stretches(image)
    BY <1>1, <2>2, <2>4, <2>5, <2>7 DEF Stretches
  <2>9. PICK g : g = [begin |-> image[f], len |-> e - 1 - f + 1]
    OBVIOUS
  <2>10. g \in ImageGroups(image) /\ g.begin = image[f] /\ g.len = e - f
    BY <2>3, <2>7, <2>8, <2>9 DEF ImageGroups
  <2>11. image[i] = image[f] + (i - f) /\ image[f] \in Nat
    BY <2>1, <2>3, <1>2 DEF Stretch
  <2>12. image[i] \in BlocksOf(g)
    BY <2>3, <2>10, <2>11 DEF BlocksOf, Run
  <2> QED BY <2>10, <2>12
<1> QED BY <1>1, <1>3

-----------------------------------------------------------------------------
\* A lost block, by what it is not.
LEMMA LostFacts ==
  ASSUME NEW x
  PROVE  /\ x \in Lost <=> /\ x \in bits /\ x # 0 /\ x \notin used
                           /\ \A t \in Threads : \A g \in Mine(t) : x \notin BlocksOf(g)
         /\ x \in Lost' <=> /\ x \in bits' /\ x # 0 /\ x \notin used'
                            /\ \A t \in Threads : \A g \in Mine(t)' : x \notin BlocksOf(g)
<1> DEFINE L == UNION {BlocksOf(g) : g \in UNION {Mine(t) : t \in Threads}}
           K == UNION {BlocksOf(g) : g \in UNION {Mine(t)' : t \in Threads}}
<1>1. x \in L <=> \E t \in Threads : \E g \in Mine(t) : x \in BlocksOf(g)
  BY Zenon
<1>2. x \in K <=> \E t \in Threads : \E g \in Mine(t)' : x \in BlocksOf(g)
  BY Zenon
<1>3. Lost = bits \ ({0} \cup used \cup L)
  BY DEF Lost
<1>4. Lost' = bits' \ ({0} \cup used' \cup K)
  BY DEF Lost, BlocksOf, Run
<1> HIDE DEF L, K
<1> QED BY <1>1, <1>2, <1>3, <1>4

\* What a step of thread t loses was not in the bitmap's set bits, or in use, or
\* in a group of thread t.
LEMMA LostFrame ==
  ASSUME NEW t \in Threads, \A u \in Threads \ {t} : Mine(u)' = Mine(u),
         NEW x \in Lost' \ Lost
  PROVE  /\ x \in bits' /\ x # 0 /\ x \notin used'
         /\ \A g \in Mine(t)' : x \notin BlocksOf(g)
         /\ x \notin bits \/ x \in used \/ \E g \in Mine(t) : x \in BlocksOf(g)
BY LostFacts

\* Allocation from the free lists loses nothing.
LEMMA LostAllocLocal ==
  ASSUME Inv, NEW t \in Threads, NEW n \in Sizes, AllocLocal(t, n),
         \A u \in Threads \ {t} : Mine(u)' = Mine(u), NEW x \in Lost' \ Lost
  PROVE  FALSE
<1>1. PICK g \in Fitting(t, n) :
        /\ free' = [free EXCEPT ![t] = (@ \ {g}) \cup Rest(g, n)]
        /\ used' = used \cup Run(g.begin, n)
  BY DEF AllocLocal
<1>2. /\ pc[t] = "idle" /\ UNCHANGED <<bits, pc>>
      /\ free'[t] = (free[t] \ {g}) \cup Rest(g, n)
  BY <1>1 DEF AllocLocal, Inv, TypeOK
<1>3. g \in Groups /\ n \in Nat \ {0} /\ n <= g.len
  BY DEF Fitting, Inv, TypeOK, Groups
<1>4. Mine(t) = free[t] /\ Mine(t)' = free'[t]
  BY <1>2 DEF Mine
<1>5. \A y \in BlocksOf(g) :
        y \in Run(g.begin, n) \/ \E h \in Rest(g, n) : y \in BlocksOf(h)
  BY <1>3, RestCovers
<1>6. /\ x \in bits' /\ x \notin used' /\ \A h \in Mine(t)' : x \notin BlocksOf(h)
      /\ x \notin bits \/ x \in used \/ \E h \in Mine(t) : x \in BlocksOf(h)
  BY LostFrame
<1> QED BY <1>1, <1>2, <1>4, <1>5, <1>6

\* Allocation from the bitmap loses nothing of the word that it takes.
LEMMA LostTakeWord ==
  ASSUME Inv, NEW t \in Threads, TakeWord(t),
         \A u \in Threads \ {t} : Mine(u)' = Mine(u), NEW x \in Lost' \ Lost
  PROVE  FALSE
<1> DEFINE w == at[t]
           runs == ZeroRuns(w)
<1>1. /\ pc[t] = "scan" /\ w \in Nat /\ bits' = bits \cup BitsOf(w)
      /\ want[t] \in Nat \ {0}
  BY DEF TakeWord, alloc_rest, Inv, TypeOK, ThreadOK
<1>2. runs \subseteq Groups
  BY <1>1, ZeroRunsFacts DEF Inv
<1>3. x \in bits' => x \in bits \/ \E g \in runs : x \in BlocksOf(g)
  BY <1>1, ZeroRunsCover
<1>4. pc'[t] \in {"scan", "idle"}
  BY <1>1 DEF TakeWord, Inv, TypeOK
<1>5. Mine(t) = free[t] /\ Mine(t)' = free'[t]
  BY <1>1, <1>4 DEF Mine
<1>6. /\ x \in bits' /\ x \notin used' /\ \A h \in Mine(t)' : x \notin BlocksOf(h)
      /\ x \notin bits \/ x \in used \/ \E h \in Mine(t) : x \in BlocksOf(h)
  BY LostFrame
<1>7. CASE \A g \in runs : ~(g.len >= want[t])
  <2>1. free' = [free EXCEPT ![t] = @ \cup runs] /\ UNCHANGED used
    BY <1>7 DEF TakeWord
  <2>2. free'[t] = free[t] \cup runs
    BY <2>1 DEF Inv, TypeOK
  <2> HIDE DEF w, runs
  <2> QED BY <1>3, <1>5, <1>6, <2>1, <2>2
<1>8. CASE \E g \in runs : g.len >= want[t]
  <2>1. PICK g \in runs :
          /\ g.len >= want[t]
          /\ free' = [free EXCEPT ![t] = @ \cup (runs \ {g}) \cup Rest(g, want[t])]
          /\ used' = used \cup Run(g.begin, want[t])
    BY <1>8 DEF TakeWord
  <2>2. free'[t] = free[t] \cup (runs \ {g}) \cup Rest(g, want[t])
    BY <2>1 DEF Inv, TypeOK
  <2>3. g \in Groups /\ want[t] <= g.len
    BY <1>1, <1>2, <2>1 DEF Groups
  <2>4. \A y \in BlocksOf(g) :
          y \in Run(g.begin, want[t]) \/ \E h \in Rest(g, want[t]) : y \in BlocksOf(h)
    BY <1>1, <2>3, RestCovers
  <2> HIDE DEF w, runs
  <2> QED BY <1>3, <1>5, <1>6, <2>1, <2>2, <2>4
<1> QED BY <1>7, <1>8

\* Grouping an image loses nothing of it.
LEMMA LostFree ==
  ASSUME Inv, NEW t \in Threads, NEW image \in Images, Free(t, image),
         \A u \in Threads \ {t} : Mine(u)' = Mine(u), NEW x \in Lost' \ Lost
  PROVE  FALSE
<1> DEFINE N == ImageGroups(image)
           B == {image[i] : i \in DOMAIN image}
<1>1. /\ pc[t] = "idle" /\ UNCHANGED <<bits, pc>>
      /\ free'[t] = free[t] \cup N /\ used' = used \ B
  BY DEF Free, Inv, TypeOK
<1>2. \A i \in DOMAIN image : image[i] # 0 => \E g \in N : image[i] \in BlocksOf(g)
  BY ImageGroupsCover DEF Inv
<1>3. Mine(t) = free[t] /\ Mine(t)' = free'[t]
  BY <1>1 DEF Mine
<1>4. /\ x \in bits' /\ x # 0 /\ x \notin used' /\ \A h \in Mine(t)' : x \notin BlocksOf(h)
      /\ x \notin bits \/ x \in used \/ \E h \in Mine(t) : x \in BlocksOf(h)
  BY LostFrame
<1>5. x \notin B
  BY <1>1, <1>2, <1>3, <1>4
<1> HIDE DEF N, B
<1> QED BY <1>1, <1>3, <1>4, <1>5

\* A stretch that has no list is lost.
LEMMA LostFreeOverrun ==
  ASSUME Inv, NEW t \in Threads, NEW image \in Images, FreeOverrun(t, image),
         \A u \in Threads \ {t} : Mine(u)' = Mine(u), NEW x \in Lost' \ Lost
  PROVE  MissedByFree(x)
<1>1. pc[t] = "idle" /\ pc'[t] = "overrun" /\ UNCHANGED <<bits, free>>
  BY DEF FreeOverrun, Inv, TypeOK
<1>2. Mine(t) = Mine(t)'
  BY <1>1 DEF Mine
<1>3. x \in used
  BY <1>1, <1>2, LostFrame
<1> QED BY <1>1, <1>3 DEF MissedByFree

\* Returning a group loses what its mask leaves out.
LEMMA LostReturnGroup ==
  ASSUME Inv, NEW t \in Threads, ReturnGroup(t),
         \A u \in Threads \ {t} : Mine(u)' = Mine(u), NEW x \in Lost' \ Lost
  PROVE  MissedByReturn(x)
<1>1. PICK g \in todo[t] : /\ \E mask \in Masks(g) : bits' = bits \ mask
                           /\ todo' = [todo EXCEPT ![t] = @ \ {g}]
  BY DEF ReturnGroup
<1>2. PICK mask \in Masks(g) : bits' = bits \ mask
  BY <1>1
<1>3. /\ UNCHANGED <<used, pc>> /\ pc[t] \in Returning
      /\ todo'[t] = todo[t] \ {g} /\ g \in Groups
  BY <1>1 DEF ReturnGroup, Inv, TypeOK
<1>4. \A h \in Mine(t) : h \in Mine(t)' \/ h = g
  <2>1. CASE pc[t] = "again"
    BY <2>1 DEF Mine
  <2>2. CASE pc[t] \in {"return", "exit"}
    BY <2>2, <1>3 DEF Mine
  <2> QED BY <2>1, <2>2, <1>3 DEF Returning
<1>5. x \in bits /\ x \notin mask /\ x \in BlocksOf(g)
  BY <1>2, <1>3, <1>4, LostFrame
<1>6. x \in Nat /\ g.len \in Nat
  BY <1>3, <1>5, RunFacts DEF Groups
<1>7. g.len >= Cap \/ WordOf(x) # WordOf(g.begin)
  <2>1. CASE ~(g.len >= Cap)
    <3>1. mask = BlocksOf(g) \cap BitsOf(WordOf(g.begin))
      BY <2>1 DEF Masks
    <3>2. x \notin BitsOf(WordOf(g.begin))
      BY <1>5, <3>1
    <3> QED BY <1>6, <3>2, InItsWord
  <2> QED BY <2>1
<1>8. g \in todo[t] \ todo'[t]
  BY <1>3
<1> QED BY <1>5, <1>7, <1>8 DEF MissedByReturn

\* Steps that hand out and return nothing, and the end of a return.
LEMMA LostNoBlocks ==
  ASSUME Inv, NEW t \in Threads,
         \/ \E n \in Sizes : AllocShared(t, n)
         \/ SkipWord(t)
         \/ NoWordLeft(t)
         \/ Recycle(t)
         \/ Exit(t)
         \/ Returned(t),
         \A u \in Threads \ {t} : Mine(u)' = Mine(u), NEW x \in Lost' \ Lost
  PROVE  FALSE
<1>1. UNCHANGED <<bits, used>>
  BY DEF AllocShared, SkipWord, NoWordLeft, Recycle, Exit, Returned
<1>2. Mine(t) \subseteq Mine(t)'
  <2>1. CASE \E n \in Sizes : AllocShared(t, n)
    <3>1. pc[t] = "idle" /\ pc'[t] = "scan" /\ free' = free
      BY <2>1 DEF AllocShared, Inv, TypeOK
    <3> QED BY <3>1 DEF Mine
  <2>2. CASE SkipWord(t) \/ NoWordLeft(t)
    <3>1. pc[t] = "scan" /\ pc'[t] \in {"scan", "panic"} /\ free' = free
      BY <2>2 DEF SkipWord, NoWordLeft, Inv, TypeOK
    <3> QED BY <3>1 DEF Mine
  <2>3. CASE Recycle(t) \/ (Exit(t) /\ pc[t] = "idle")
    <3>1. pc[t] = "idle" /\ pc'[t] \in {"return", "exit"} /\ todo'[t] = free[t]
      BY <2>3 DEF Recycle, Exit, Inv, TypeOK
    <3> QED BY <3>1 DEF Mine
  <2>4. CASE Exit(t) /\ pc[t] # "idle"
    <3>1. pc[t] = "recycled"
      BY <2>4 DEF Exit
    <3> QED BY <3>1 DEF Mine
  <2>5. CASE Returned(t)
    <3>1. todo[t] = {} /\ pc[t] \in {"return", "exit", "again"}
      BY <2>5 DEF Returned, Returning
    <3> QED BY <3>1 DEF Mine
  <2> QED BY <2>1, <2>2, <2>3, <2>4, <2>5
<1> QED BY <1>1, <1>2, LostFrame

-----------------------------------------------------------------------------
\* A step loses a block only at the edge of a word.
LEMMA LostStep ==
  ASSUME Inv, [Next]_vars, NEW x \in Lost' \ Lost
  PROVE  MissedByReturn(x) \/ MissedByFree(x)
<1>1. CASE UNCHANGED vars
  <2>1. \A t \in Threads : Mine(t)' = Mine(t)
    BY <1>1 DEF vars, Mine
  <2>2. x \in Lost
    BY <1>1, <2>1, LostFacts DEF vars
  <2> QED BY <2>2
<1>2. CASE Next
  <2>1. PICK t \in Threads :
          \/ \E n \in Sizes : AllocLocal(t, n) \/ AllocShared(t, n)
          \/ SkipWord(t) \/ TakeWord(t) \/ NoWordLeft(t)
          \/ \E image \in Images : Free(t, image) \/ FreeOverrun(t, image)
          \/ Recycle(t) \/ Exit(t) \/ ReturnGroup(t) \/ Returned(t)
    BY <1>2 DEF Next
  <2>2. \A u \in Threads \ {t} : Mine(u)' = Mine(u)
    <3>1. \A u \in Threads \ {t} : /\ pc'[u] = pc[u] /\ todo'[u] = todo[u]
                                   /\ free'[u] = free[u] /\ want'[u] = want[u]
      BY <2>1, OneThread
    <3> QED BY <3>1, OthersOK
  <2> QED BY <2>1, <2>2, LostAllocLocal, LostTakeWord, LostFree, LostFreeOverrun,
             LostReturnGroup, LostNoBlocks
<1> QED BY <1>1, <1>2

(* BlockAllocator loses a block in two places only, for any threads,       *)
(* bitmap, requests and images, and also after a list was returned twice:  *)
(* returning a group that fills a word or crosses its end, and freeing a   *)
(* stretch that is longer than a word.                                     *)
THEOREM LossAtEdges == Spec => LostOnlyAtEdges
<1>1. Inv /\ [Next]_vars => Inv'
  BY InvStep, InvStutter
<1>2. Inv /\ [Next]_vars
        => [\A x \in Lost' \ Lost : MissedByReturn(x) \/ MissedByFree(x)]_vars
  BY LostStep
<1> QED BY InvInit, <1>1, <1>2, PTL DEF Spec, LostOnlyAtEdges

=============================================================================
