-------------------------- MODULE BlockAllocFacts ---------------------------
(* The inductive invariant of BlockAlloc, and what its operators keep:     *)
(* splitting, finding runs of zeros, grouping, passing blocks on.          *)
EXTENDS BlockAlloc, TLAPS

USE BlockAllocConstants

\* The groups of a thread lie in the bitmap and without the meta block; it has a
\* request while it searches; what it has still to return comes from its lists.
ThreadOK(t) ==
  /\ \A g \in free[t] : BlocksOf(g) \subseteq Blocks \ {0}
  /\ pc[t] = "scan" => want[t] > 0
  /\ pc[t] \in Returning => todo[t] \subseteq free[t]

\* The inductive invariant; block 0 is the meta block.  It holds of every state,
\* also after a block has got a second owner.
Inv ==
  /\ TypeOK
  /\ 0 \in bits /\ 0 \notin used
  /\ \A t \in Threads : ThreadOK(t)

-----------------------------------------------------------------------------
\* A group has blocks, all of them numbers from its first one on.
LEMMA RunFacts ==
  ASSUME NEW g \in Groups, NEW x
  PROVE  x \in BlocksOf(g) <=> x \in Nat /\ g.begin <= x /\ x < g.begin + g.len
BY DEF Groups, BlocksOf, Run

\* Splitting a group: the front and the rest are disjoint parts of it (alloc).
LEMMA RestFacts ==
  ASSUME NEW g \in Groups, NEW n \in Nat \ {0}, n <= g.len
  PROVE  /\ Rest(g, n) \subseteq Groups
         /\ Run(g.begin, n) \subseteq BlocksOf(g)
         /\ \A h \in Rest(g, n) : /\ BlocksOf(h) \subseteq BlocksOf(g)
                                  /\ BlocksOf(h) \cap Run(g.begin, n) = {}
         /\ \A h, k \in Rest(g, n) : h = k
<1>1. Run(g.begin, n) \subseteq BlocksOf(g)
  BY DEF Groups, BlocksOf, Run
<1>2. CASE g.len = n
  BY <1>1, <1>2 DEF Rest
<1>3. CASE g.len # n
  <2> DEFINE r == [begin |-> g.begin + n, len |-> g.len - n]
  <2>1. Rest(g, n) = {r}
    BY <1>3 DEF Rest
  <2>2. r \in Groups /\ r.begin = g.begin + n /\ r.len = g.len - n
    BY <1>3 DEF Groups
  <2>3. BlocksOf(r) \subseteq BlocksOf(g) /\ BlocksOf(r) \cap Run(g.begin, n) = {}
    BY <2>2 DEF Groups, BlocksOf, Run
  <2> QED BY <1>1, <2>1, <2>2, <2>3
<1> QED BY <1>2, <1>3

\* Two maximal runs of zero bits of a word are equal or disjoint (alloc).
LEMMA ZeroRunsFacts ==
  ASSUME TypeOK, NEW w \in Nat
  PROVE  /\ ZeroRuns(w) \subseteq Groups
         /\ \A g \in ZeroRuns(w) : BlocksOf(g) \subseteq BitsOf(w) \ bits
         /\ \A g, h \in ZeroRuns(w) : g # h => BlocksOf(g) \cap BlocksOf(h) = {}
<1> DEFINE zeros == BitsOf(w) \ bits
<1>0. zeros \subseteq Nat /\ 1 .. Cap \subseteq Nat \ {0}
  BY DEF BitsOf, Run
<1>1. ZeroRuns(w) \subseteq Groups
  BY <1>0 DEF ZeroRuns, Groups
<1>2. \A g \in ZeroRuns(w) : /\ BlocksOf(g) \subseteq zeros
                             /\ g.begin - 1 \notin zeros
                             /\ g.begin + g.len \notin zeros
  BY DEF ZeroRuns
<1>3. ASSUME NEW g \in ZeroRuns(w), NEW h \in ZeroRuns(w), g # h,
             NEW x \in BlocksOf(g) \cap BlocksOf(h)
      PROVE  FALSE
  <2> HIDE DEF zeros
  <2>1. g \in Groups /\ h \in Groups
    BY <1>1
  <2>2. g.begin \in Nat /\ h.begin \in Nat /\ g.len \in Nat \ {0} /\ h.len \in Nat \ {0}
    BY <2>1 DEF Groups
  <2>3. x \in Nat /\ g.begin <= x /\ x < g.begin + g.len
        /\ h.begin <= x /\ x < h.begin + h.len
    BY <2>1, RunFacts
  <2>4. ~(g.begin < h.begin)
    <3>1. g.begin < h.begin => h.begin - 1 \in BlocksOf(g)
      BY <2>1, <2>2, <2>3, RunFacts
    <3> QED BY <3>1, <1>2
  <2>5. ~(h.begin < g.begin)
    <3>1. h.begin < g.begin => g.begin - 1 \in BlocksOf(h)
      BY <2>1, <2>2, <2>3, RunFacts
    <3> QED BY <3>1, <1>2
  <2>6. g.begin = h.begin
    BY <2>2, <2>4, <2>5
  <2>7. ~(g.len < h.len)
    <3>1. g.len < h.len => g.begin + g.len \in BlocksOf(h)
      BY <2>1, <2>2, <2>6, RunFacts
    <3> QED BY <3>1, <1>2
  <2>8. ~(h.len < g.len)
    <3>1. h.len < g.len => h.begin + h.len \in BlocksOf(g)
      BY <2>1, <2>2, <2>6, RunFacts
    <3> QED BY <3>1, <1>2
  <2>9. g.len = h.len
    BY <2>2, <2>7, <2>8
  <2> QED BY <1>3, <2>1, <2>6, <2>9 DEF Groups
<1> QED BY <1>1, <1>2, <1>3

\* The blocks of the groups of an image are blocks of it (free).
LEMMA StretchFacts ==
  ASSUME TypeOK, 0 \notin used, NEW image \in Images
  PROVE  /\ DOMAIN image \subseteq Nat
         /\ \A i \in DOMAIN image : image[i] \in used \cup {0}
         /\ \A i, j \in DOMAIN image : (image[i] = image[j] /\ image[i] # 0) => i = j
         /\ \A i \in DOMAIN image : image[i] \in Nat
         /\ \A i, j \in DOMAIN image : i .. j \subseteq DOMAIN image
<1>1. PICK n \in 1 .. MaxImage : image \in [1 .. n -> used \cup {0}]
  BY DEF Images
<1>2. DOMAIN image = 1 .. n /\ \A i \in 1 .. n : image[i] \in used \cup {0}
  BY <1>1
<1>3. \A i, j \in DOMAIN image : (image[i] = image[j] /\ image[i] # 0) => i = j
  BY DEF Images
<1>4. used \cup {0} \subseteq Nat
  BY DEF TypeOK, Blocks
<1>5. n \in Nat
  OBVIOUS
<1>6. ASSUME NEW i \in 1 .. n PROVE image[i] \in Nat
  <2>1. image[i] \in used \cup {0}
    BY <1>2
  <2> QED BY <2>1, <1>4, Zenon
<1>7. \A i, j \in 1 .. n : i .. j \subseteq 1 .. n
  BY <1>5
<1> QED BY <1>2, <1>3, <1>5, <1>6, <1>7

\* Two stretches of an image that meet are one.
LEMMA StretchesMeet ==
  ASSUME TypeOK, 0 \notin used, NEW image \in Images,
         NEW s \in Stretches(image), NEW r \in Stretches(image),
         NEW k \in s.from .. s.to, k \in r.from .. r.to
  PROVE  s.from <= r.from /\ (s.from = r.from => s.to <= r.to)
<1> DEFINE D == DOMAIN image
<1>0. /\ D \subseteq Nat
      /\ \A i \in D : image[i] \in Nat
      /\ \A i, j \in D : i .. j \subseteq D
  BY StretchFacts
<1>1. /\ s.from \in D /\ s.to \in D /\ r.from \in D /\ r.to \in D
      /\ Stretch(image, s.from, s.to) /\ Stretch(image, r.from, r.to)
      /\ s.from - 1 \in D => ~Stretch(image, s.from - 1, s.to)
      /\ r.to + 1 \in D => ~Stretch(image, r.from, r.to + 1)
  BY DEF Stretches
<1> HIDE DEF D
<1>2. /\ s.from \in Nat /\ s.to \in Nat /\ r.from \in Nat /\ r.to \in Nat /\ k \in Nat
      /\ s.from <= k /\ k <= s.to /\ r.from <= k /\ k <= r.to
  <2>1. s.from \in Nat /\ s.to \in Nat /\ r.from \in Nat /\ r.to \in Nat
    BY <1>0, <1>1
  <2> QED BY <2>1
<1>3. ASSUME r.from < s.from PROVE FALSE
  <2> DEFINE p == s.from - 1
  <2>1. p \in r.from .. r.to /\ s.from \in r.from .. r.to /\ p \in D /\ p \in Nat
    BY <1>0, <1>1, <1>2, <1>3
  <2>2. image[p] # 0 /\ image[p] = image[r.from] + (p - r.from)
        /\ image[s.from] = image[r.from] + (s.from - r.from)
    BY <1>1, <2>1 DEF Stretch
  <2>3. image[s.from] = image[p] + 1 /\ image[p] \in Nat /\ image[s.from] \in Nat
    BY <1>0, <1>1, <1>2, <2>1, <2>2
  <2>4. ASSUME NEW m \in p .. s.to PROVE image[m] # 0 /\ image[m] = image[p] + (m - p)
    <3>1. CASE m = p
      BY <3>1, <2>1, <2>2, <2>3
    <3>2. CASE m # p
      <4>1. m \in s.from .. s.to /\ m \in Nat
        BY <3>2, <1>2, <2>1
      <4>2. image[m] # 0 /\ image[m] = image[s.from] + (m - s.from)
        BY <4>1, <1>1 DEF Stretch
      <4> QED BY <4>1, <4>2, <2>3, <1>2
    <3> QED BY <3>1, <3>2
  <2>5. Stretch(image, p, s.to)
    BY <2>4, <1>2 DEF Stretch
  <2> QED BY <2>1, <2>5, <1>1
<1>4. ASSUME s.from = r.from, r.to < s.to PROVE FALSE
  <2>1. r.to + 1 \in D /\ r.from .. r.to + 1 \subseteq s.from .. s.to
    BY <1>0, <1>1, <1>2, <1>4
  <2>2. Stretch(image, r.from, r.to + 1)
    BY <2>1, <1>1, <1>2, <1>4 DEF Stretch
  <2> QED BY <2>1, <2>2, <1>1
<1> QED BY <1>2, <1>3, <1>4

\* The groups of an image are disjoint and made of its blocks (free).
LEMMA ImageGroupsFacts ==
  ASSUME TypeOK, 0 \notin used, NEW image \in Images
  PROVE  /\ ImageGroups(image) \subseteq Groups
         /\ \A g \in ImageGroups(image) :
              BlocksOf(g) \subseteq used \cap {image[i] : i \in DOMAIN image}
         /\ \A g, h \in ImageGroups(image) :
              g # h => BlocksOf(g) \cap BlocksOf(h) = {}
<1> DEFINE D == DOMAIN image
           G(s) == [begin |-> image[s.from], len |-> s.to - s.from + 1]
<1>0. /\ D \subseteq Nat
      /\ \A i \in D : image[i] \in used \cup {0} /\ image[i] \in Nat
      /\ \A i, j \in D : (image[i] = image[j] /\ image[i] # 0) => i = j
      /\ \A i, j \in D : i .. j \subseteq D
  BY StretchFacts
<1>1. ASSUME NEW s \in Stretches(image)
      PROVE  /\ s.from \in D /\ s.to \in D /\ s.from <= s.to
             /\ \A m \in s.from .. s.to : image[m] # 0 /\ image[m] = image[s.from] + (m - s.from)
             /\ s \in [from : D, to : D]
  BY DEF Stretches, Stretch
<1>2. ASSUME NEW s \in Stretches(image)
      PROVE  /\ G(s) \in Groups
             /\ \A x \in BlocksOf(G(s)) :
                  \E m \in s.from .. s.to : m \in D /\ x = image[m] /\ image[m] # 0
  <2>1. /\ s.from \in Nat /\ s.to \in Nat /\ s.from <= s.to /\ image[s.from] \in Nat
        /\ s.from .. s.to \subseteq D
    BY <1>0, <1>1
  <2>2. G(s) \in Groups
    BY <2>1 DEF Groups
  <2>3. ASSUME NEW x \in BlocksOf(G(s))
        PROVE  \E m \in s.from .. s.to : m \in D /\ x = image[m] /\ image[m] # 0
    <3> DEFINE m == s.from + (x - image[s.from])
    <3>1. x \in Nat /\ image[s.from] <= x /\ x < image[s.from] + (s.to - s.from + 1)
      BY <2>2, RunFacts
    <3>2. m \in s.from .. s.to /\ m - s.from = x - image[s.from]
      BY <3>1, <2>1
    <3>3. image[m] # 0 /\ image[m] = image[s.from] + (m - s.from)
      BY <3>2, <1>1
    <3>4. image[m] = x
      BY <3>1, <3>2, <3>3, <2>1
    <3> QED BY <3>2, <3>3, <3>4, <2>1
  <2> QED BY <2>2, <2>3
<1>3. ASSUME NEW s \in Stretches(image), NEW r \in Stretches(image),
             NEW x \in BlocksOf(G(s)) \cap BlocksOf(G(r))
      PROVE  G(s) = G(r)
  <2>1. PICK m \in s.from .. s.to : m \in D /\ x = image[m] /\ image[m] # 0
    BY <1>2
  <2>2. PICK k \in r.from .. r.to : k \in D /\ x = image[k] /\ image[k] # 0
    BY <1>2
  <2>3. m = k
    BY <2>1, <2>2, <1>0
  <2>4. /\ s.from <= r.from /\ (s.from = r.from => s.to <= r.to)
        /\ r.from <= s.from /\ (r.from = s.from => r.to <= s.to)
    BY <2>1, <2>2, <2>3, StretchesMeet
  <2>5. s.from \in Nat /\ s.to \in Nat /\ r.from \in Nat /\ r.to \in Nat
    BY <1>0, <1>1
  <2>6. s.from = r.from /\ s.to = r.to
    BY <2>4, <2>5
  <2> QED BY <2>6
<1>4. ImageGroups(image) = {G(s) : s \in Stretches(image)}
  BY DEF ImageGroups
<1> HIDE DEF G
<1>5. \A g \in ImageGroups(image) : \E s \in Stretches(image) : g = G(s)
  BY <1>4
<1>6. \A g \in ImageGroups(image) :
        BlocksOf(g) \subseteq used \cap {image[i] : i \in DOMAIN image}
  BY <1>0, <1>2, <1>5
<1>7. \A g, h \in ImageGroups(image) : g # h => BlocksOf(g) \cap BlocksOf(h) = {}
  BY <1>3, <1>5
<1> QED BY <1>2, <1>5, <1>6, <1>7

\* Blocks X change hands: they were thread t's in the groups R, or free in
\* the bitmap, or in use, and are now in the groups N, or in use as U.
Transferred(t, R, N, U, X) ==
  /\ Mine(t)' = (Mine(t) \ R) \cup N
  /\ bits \subseteq bits' /\ X \subseteq bits' \ {0}
  /\ used' = (used \ X) \cup U /\ U \subseteq X
  /\ \A g \in N : BlocksOf(g) \subseteq X \ U
  /\ \A g, h \in N : g # h => BlocksOf(g) \cap BlocksOf(h) = {}
  /\ \A u \in Threads : \A h \in Mine(u) :
       (u # t \/ h \notin R) => BlocksOf(h) \cap X = {}

\* Then a block still has one owner.
LEMMA Transfer ==
  ASSUME BlockHasOneOwner, NEW t \in Threads, NEW R, NEW N, NEW U, NEW X,
         \A u \in Threads \ {t} : Mine(u)' = Mine(u),
         Transferred(t, R, N, U, X)
  PROVE  BlockHasOneOwner'
<1> USE DEF Transferred
<1>1. used' \subseteq bits' \ {0}
  BY DEF BlockHasOneOwner
<1>2. ASSUME NEW u \in Threads, NEW g \in Mine(u), u # t \/ g \notin R
      PROVE  /\ BlocksOf(g) \subseteq bits' \ {0} /\ BlocksOf(g) \cap used' = {}
             /\ \A h \in N : BlocksOf(g) \cap BlocksOf(h) = {}
  BY <1>2 DEF BlockHasOneOwner
<1>3. ASSUME NEW u \in Threads, NEW g \in Mine(u)'
      PROVE  /\ BlocksOf(g) \subseteq bits' \ {0} /\ BlocksOf(g) \cap used' = {}
             /\ \/ g \in N /\ u = t
                \/ g \in Mine(u) /\ (u # t \/ g \notin R)
  <2>1. CASE u = t /\ g \in N
    BY <2>1
  <2>2. CASE g \in Mine(u) /\ (u # t \/ g \notin R)
    BY <2>2, <1>2
  <2> QED BY <1>3, <2>1, <2>2
<1>4. ASSUME NEW u \in Threads, NEW g \in Mine(u)', NEW v \in Threads, NEW h \in Mine(v)',
             u # v \/ g # h
      PROVE  BlocksOf(g) \cap BlocksOf(h) = {}
  <2>1. CASE g \in N /\ u = t /\ h \in N /\ v = t
    BY <1>4, <2>1
  <2>2. CASE g \in N /\ h \in Mine(v) /\ (v # t \/ h \notin R)
    <3>1. BlocksOf(h) \cap BlocksOf(g) = {}
      BY <1>2, <2>2
    <3> QED BY <3>1
  <2>3. CASE h \in N /\ g \in Mine(u) /\ (u # t \/ g \notin R)
    BY <1>2, <2>3
  <2>4. CASE g \in Mine(u) /\ h \in Mine(v)
    BY <1>4, <2>4 DEF BlockHasOneOwner
  <2> QED BY <1>3, <2>1, <2>2, <2>3, <2>4
<1>5. \A g : BlocksOf(g)' = BlocksOf(g)
  BY DEF BlocksOf, Run
<1> QED BY <1>1, <1>3, <1>4, <1>5 DEF BlockHasOneOwner

\* A step of a thread leaves the others alone.
LEMMA OthersOK ==
  ASSUME Inv, NEW t \in Threads,
         \A u \in Threads \ {t} : /\ pc'[u] = pc[u] /\ todo'[u] = todo[u]
                                  /\ free'[u] = free[u] /\ want'[u] = want[u]
  PROVE  \A u \in Threads \ {t} : ThreadOK(u)' /\ Mine(u)' = Mine(u)
<1> SUFFICES ASSUME NEW u \in Threads \ {t} PROVE ThreadOK(u)' /\ Mine(u)' = Mine(u)
  OBVIOUS
<1>1. Mine(u)' = Mine(u)
  BY DEF Mine
<1>2. \A g : BlocksOf(g)' = BlocksOf(g)
  BY DEF BlocksOf, Run
<1> QED BY <1>1, <1>2 DEF Inv, ThreadOK, Returning

-----------------------------------------------------------------------------
\* A word of the bitmap lies in the bitmap.
LEMMA WordInBitmap ==
  ASSUME NEW w \in Nat, w < NumWords
  PROVE  BitsOf(w) \subseteq Blocks
<1>1. PICK d \in Nat : NumWords = w + 1 + d
  <2>1. NumWords - w - 1 \in Nat /\ NumWords = w + 1 + (NumWords - w - 1)
    OBVIOUS
  <2> QED BY <2>1
<1>2. w * Cap \in Nat /\ d * Cap \in Nat
  OBVIOUS
<1>3. NumWords * Cap = w * Cap + Cap + d * Cap
  BY <1>1
<1> QED BY <1>2, <1>3 DEF BitsOf, Run, Blocks
=============================================================================
