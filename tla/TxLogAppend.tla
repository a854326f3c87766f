---------------------------- MODULE TxLogAppend ----------------------------
(* Proofs about TxLog, part 3: the two compare-and-swaps that change the     *)
(* shared list, the commit of an entry and the link of a new tx block.       *)
EXTENDS TxLogBasics

USE TxLogConstants

\* The swap fills the first empty slot of the last block, or nothing.
LEMMA InvTryCommit ==
  ASSUME Inv, TypeOK', NEW t \in Threads, TryCommit(t)
  PROVE  Inv'
<1> DEFINE b == cursor[t].blk
           i == cursor[t].idx
           v == IF is_valid(entry[b][i]) THEN entry[b][i] ELSE <<t, ntx[t]>>
<1>0. /\ pc[t] = "commit"
      /\ UNCHANGED <<next, seq, pool, avail, cand, cursor, tabcur, ntx>>
      /\ pc' = [pc EXCEPT ![t] =
                  IF is_valid(get_entry(cursor[t])) THEN "conflict" ELSE "idle"]
  BY DEF TryCommit
<1>1. b \in AllBlocks /\ i \in Idx /\ i < get_capacity(b) /\ i \in Nat
  BY SlotOfCursor, CapacityFacts DEF TryCommit, Inv, TypeOK
<1>2. entry' = [entry EXCEPT ![b] = [entry[b] EXCEPT ![i] = v]]
  BY <1>1 DEF TryCommit, try_append, Inv, TypeOK
<1>3. v # Empty /\ (entry[b][i] # Junk => v # Junk)
  <2>1. <<t, ntx[t]>> \in Threads \X Nat
    BY DEF Inv, TypeOK
  <2> QED BY <2>1 DEF is_valid
<1>4. /\ \A p \in AllBlocks, j \in Idx : (p # b \/ j # i) => entry'[p][j] = entry[p][j]
      /\ entry'[b][i] = v
  BY <1>1, <1>2 DEF Inv, TypeOK
<1> HIDE DEF v
<1>5. \A p \in AllBlocks, j \in Idx : is_valid(entry[p][j]) => is_valid(entry'[p][j])
  BY <1>3, <1>4 DEF is_valid
<1>6. \A p : Linked(p)' <=> Linked(p)
  BY <1>0 DEF Linked
<1>7. /\ Linked(b)
      /\ \A j \in Idx : j < i => is_valid(entry[b][j])
  BY DEF Inv, CursorsSound, CursorSound
<1>8. cand[t] = Null
  BY DEF Inv, SparesPrivate, TryCommit
<1>9. LogContiguous'
  <2> SUFFICES ASSUME NEW p \in AllBlocks, Linked(p)
               PROVE  /\ \A j, k \in Idx :
                           (j < k /\ k < get_capacity(p) /\ is_valid(entry'[p][k]))
                             => is_valid(entry'[p][j])
                      /\ next[p] # Null =>
                           \A j \in Idx : j < get_capacity(p) => is_valid(entry'[p][j])
    BY <1>0, <1>6 DEF LogContiguous, Full
  <2>1. next[p] # Null =>
           \A j \in Idx : j < get_capacity(p) => is_valid(entry'[p][j])
    BY <1>5 DEF Inv, LogContiguous, Full
  <2>2. ASSUME NEW j \in Idx, NEW k \in Idx,
               j < k, k < get_capacity(p), is_valid(entry'[p][k])
        PROVE  is_valid(entry'[p][j])
    <3>1. CASE p = b /\ k = i
      BY <3>1, <2>2, <1>5, <1>7, <1>1
    <3>2. CASE p # b \/ k # i
      BY <3>2, <2>2, <1>4, <1>5 DEF Inv, LogContiguous
    <3> QED BY <3>1, <3>2
  <2> QED BY <2>1, <2>2
<1>10. ChainSound' /\ SeqTotal'
  BY <1>0, <1>6 DEF Inv, ChainSound, SeqTotal
<1>11. NoStaleBytes'
  BY <1>1, <1>3, <1>4, <1>6, <1>7 DEF Inv, NoStaleBytes
<1>12. CursorsSound'
  <2>1. \A c \in Cursors : CursorSound(c) => CursorSound(c)'
    BY <1>5, <1>6 DEF CursorSound, Cursors
  <2> QED BY <1>0, <2>1 DEF Inv, CursorsSound, TypeOK
<1>13. SparesPrivate'
  <2>1. \A u \in Threads : Spare(u)' = Spare(u)
    BY <1>0 DEF Spare
  <2>2. \A u \in Threads : \A d \in Spare(u) :
           d \in AllBlocks /\ d # b /\ \A j \in Idx : entry'[d][j] = Empty
    <3> SUFFICES ASSUME NEW u \in Threads, NEW d \in Spare(u)
                 PROVE  d \in AllBlocks /\ d # b
                        /\ \A j \in Idx : entry'[d][j] = Empty
      OBVIOUS
    <3>1. d \in AllBlocks
      BY DEF Spare, Inv, TypeOK
    <3>2. ~Linked(d) /\ \A j \in Idx : entry[d][j] = Empty
      BY DEF Inv, SparesPrivate
    <3>3. d # b
      BY <3>2, <1>7
    <3> QED BY <3>1, <3>2, <3>3, <1>4
  <2>3. \A u \in Threads : cand[u] # Null => pc'[u] \in HasAllocator \cup {"dead"}
    BY <1>0, <1>8 DEF Inv, SparesPrivate, TypeOK
  <2> QED BY <2>1, <2>2, <2>3, <1>0, <1>6 DEF Inv, SparesPrivate, Overflow
<1> QED BY <1>9, <1>10, <1>11, <1>12, <1>13 DEF Inv

\* The swap of the link: lost (first case) or won (second case).
LEMMA InvLinkTxBlock ==
  ASSUME Inv, TypeOK', NEW t \in Threads, LinkTxBlock(t)
  PROVE  Inv'
<1> DEFINE p == cursor[t].blk
           b == cand[t]
<1>0. /\ b # Null /\ Overflow(cursor[t])
      /\ next' = [next EXCEPT ![p] = IF next[p] = Null THEN b ELSE next[p]]
      /\ avail' = IF next[p] = Null THEN avail ELSE [avail EXCEPT ![t] = b]
      /\ cursor' = [cursor EXCEPT ![t] = EnterBlock(cursor[t], next'[p])]
      /\ cand' = [cand EXCEPT ![t] = Null]
      /\ UNCHANGED <<entry, seq, pool, tabcur, pc, ntx>>
  BY DEF LinkTxBlock, try_set_next_tx_block
<1>1. /\ p \in AllBlocks /\ Linked(p) /\ p \notin pool
      /\ cursor[t] \in Cursors /\ CursorSound(cursor[t])
  <2>1. p \in AllBlocks /\ Linked(p) /\ cursor[t] \in Cursors /\ CursorSound(cursor[t])
    BY DEF Inv, TypeOK, Cursors, CursorsSound, CursorSound
  <2> QED BY <2>1, LinkedNotFree
<1>2. /\ b \in AllBlocks /\ b \in Spare(t) /\ b # p
      /\ b \notin pool /\ ~Linked(b) /\ next[b] = Null
      /\ \A i \in Idx : entry[b][i] = Empty
      /\ avail[t] = Null /\ seq[b] = seq[p] + 1
      /\ \A u \in Threads : b \in Spare(u) => u = t
  <2>1. b \in AllBlocks /\ b \in Spare(t)
    BY <1>0 DEF Inv, TypeOK, Spare
  <2>2. /\ b \notin pool /\ ~Linked(b) /\ next[b] = Null
        /\ \A i \in Idx : entry[b][i] = Empty
        /\ \A u \in Threads : b \in Spare(u) => u = t
    BY <2>1 DEF Inv, SparesPrivate
  <2>3. avail[t] = Null /\ seq[b] = seq[p] + 1
    BY <1>0 DEF Inv, SparesPrivate
  <2> QED BY <2>1, <2>2, <2>3, <1>1
<1>3. \A u \in Threads : u # t =>
        /\ Spare(u)' = Spare(u) /\ cand'[u] = cand[u]
        /\ avail'[u] = avail[u] /\ cursor'[u] = cursor[u]
  BY <1>0 DEF Spare, Inv, TypeOK
<1>4. cand'[t] = Null
  BY <1>0 DEF Inv, TypeOK
<1>5. CASE next[p] # Null
  <2>1. next' = next
    BY <1>0, <1>1, <1>5 DEF Inv, TypeOK
  <2>2. avail'[t] = b
    BY <1>0, <1>5 DEF Inv, TypeOK
  <2>3. Spare(t)' = {b} /\ Spare(t) = {b}
    BY <2>2, <1>0, <1>2, <1>4 DEF Spare
  <2>4. \A q : Linked(q)' <=> Linked(q)
    BY <2>1, <1>0 DEF Linked
  <2>5. LogContiguous' /\ NoStaleBytes' /\ SeqTotal'
    BY <2>1, <2>4, <1>0 DEF Inv, LogContiguous, NoStaleBytes, SeqTotal, Full
  <2>6. ChainSound'
    <3>1. \A q \in AllBlocks \ pool : next[q] # b
      BY <1>2 DEF Linked
    <3>2. \A u \in Threads : avail'[u] \in {avail[u], b} /\ cand'[u] \in {cand[u], Null}
      BY <1>3, <1>4, <2>2
    <3> QED BY <3>1, <3>2, <2>1, <1>0, SMTT(20) DEF Inv, ChainSound
  <2>7. CursorsSound'
    <3>1. Linked(next[p])
      BY <1>1 DEF Linked
    <3>2. CursorSound(EnterBlock(cursor[t], next[p]))
      BY <3>1, <1>0, <1>1, EnterSound
    <3>3. \A c : CursorSound(c) => CursorSound(c)'
      BY <2>4, <1>0 DEF CursorSound
    <3>4. cursor'[t] = EnterBlock(cursor[t], next[p])
      BY <1>0, <2>1 DEF Inv, TypeOK
    <3> QED BY <3>2, <3>3, <3>4, <1>0, <1>3 DEF Inv, CursorsSound
  <2>8. SparesPrivate'
    <3>1. \A u \in Threads : Spare(u)' = Spare(u)
      BY <1>3, <2>3
    <3> QED BY <3>1, <2>1, <2>4, <1>0, <1>3, <1>4, SMTT(20) DEF Inv, SparesPrivate, Overflow
  <2> QED BY <2>5, <2>6, <2>7, <2>8 DEF Inv
<1>6. CASE next[p] = Null
  <2>1. next'[p] = b /\ \A q \in AllBlocks : q # p => next'[q] = next[q]
    BY <1>0, <1>1, <1>6 DEF Inv, TypeOK
  <2>2. avail' = avail /\ Spare(t)' = {}
    BY <1>0, <1>2, <1>4, <1>6 DEF Spare
  <2>3. \A q : Linked(q)' <=> (Linked(q) \/ q = b)
    BY <2>1, <1>0, <1>1, <1>6, <1>2 DEF Linked
  <2>4. Full(p)
    <3>1. cursor[t].idx = get_capacity(p)
      BY <1>0, <1>1, CapacityFacts DEF CursorSound, Overflow, Cursors
    <3> QED BY <3>1, <1>1 DEF CursorSound, Full
  <2>5. LogContiguous'
    <3>1. \A q \in AllBlocks : Full(q)' <=> Full(q)
      BY <1>0 DEF Full
    <3>2. next'[b] = Null
      BY <2>1, <1>2
    <3>3. \A i \in Idx : ~is_valid(entry'[b][i])
      BY <1>0, <1>2 DEF is_valid
    <3> QED BY <3>1, <3>2, <3>3, <2>1, <2>3, <2>4, <1>0 DEF Inv, LogContiguous
  <2>6. NoStaleBytes'
    BY <2>3, <1>0, <1>2 DEF Inv, NoStaleBytes
  <2>7. ChainSound'
    <3> SUFFICES ASSUME NEW q \in AllBlocks \ pool, next'[q] # Null
                 PROVE  /\ seq[next'[q]] = seq[q] + 1
                        /\ next'[q] \notin pool
                        /\ \A r \in AllBlocks \ pool : next'[r] = next'[q] => r = q
                        /\ \A u \in Threads : next'[q] # avail'[u] /\ next'[q] # cand'[u]
      BY <1>0, SMTT(20) DEF ChainSound
    <3>0. \A r \in AllBlocks \ pool : next[r] # b
      BY <1>2 DEF Linked
    <3>1. CASE q = p
      <4>1. \A r \in AllBlocks \ pool : next'[r] = b => r = p
        BY <3>0, <2>1
      <4>2. \A u \in Threads : b # avail'[u] /\ b # cand'[u]
        BY <1>2, <1>3, <1>4, <1>0, <2>2 DEF Spare
      <4> QED BY <3>1, <4>1, <4>2, <2>1, <1>2
    <3>2. CASE q # p
      <4>1. next'[q] = next[q] /\ next[q] # b
        BY <3>0, <3>2, <2>1
      <4>2. \A r \in AllBlocks \ pool : next'[r] = next[q] => r = q
        BY <4>1, <2>1 DEF Inv, ChainSound
      <4>3. \A u \in Threads : cand'[u] \in {cand[u], Null}
        BY <1>3, <1>4
      <4> QED BY <4>1, <4>2, <4>3, <2>2 DEF Inv, ChainSound
    <3> QED BY <3>1, <3>2
  <2>8. SeqTotal'
    <3>1. \A q \in AllBlocks : Linked(q) => seq[q] \in Nat /\ seq[q] <= seq[p]
      <4>1. seq[p] \in Nat /\ \A q \in AllBlocks : seq[q] \in Nat
        BY <1>1 DEF Inv, TypeOK
      <4>2. \A q \in AllBlocks : Linked(q) /\ q # p => ~(seq[p] < seq[q])
        BY <1>1, <1>6 DEF Inv, SeqTotal
      <4> QED BY <4>1, <4>2
    <3> SUFFICES ASSUME NEW q \in AllBlocks, NEW r \in AllBlocks,
                        Linked(q) \/ q = b, Linked(r) \/ r = b, q # r
                 PROVE  /\ seq[q] # seq[r]
                        /\ seq[q] < seq[r] => next'[q] # Null
      BY <2>3, <1>0 DEF SeqTotal
    <3>2. CASE q = b
      BY <3>1, <3>2, <1>1, <1>2
    <3>3. CASE r = b
      <4>1. Linked(q) /\ seq[q] # seq[r]
        BY <3>1, <3>3, <1>1, <1>2
      <4>2. q # p => next[q] # Null
        <5>1. q # p => seq[q] # seq[p] /\ (seq[q] < seq[p] => next[q] # Null)
          BY <4>1, <1>1 DEF Inv, SeqTotal
        <5>2. seq[q] \in Nat /\ seq[p] \in Nat /\ seq[q] <= seq[p]
          BY <4>1, <3>1, <1>1
        <5> QED BY <5>1, <5>2
      <4> QED BY <4>1, <4>2, <2>1, <1>0
    <3>4. CASE Linked(q) /\ Linked(r)
      BY <3>4, <2>1, <1>0 DEF Inv, SeqTotal
    <3> QED BY <3>2, <3>3, <3>4
  <2>9. \A c \in Cursors : CursorSound(c) => CursorSound(c)'
    BY <2>3, <1>0 DEF CursorSound
  <2>10. PICK d : d = EnterBlock(cursor[t], b)
    OBVIOUS
  <2>11. CursorSound(d)'
    <3>1. d.blk = b /\ d.idx = 0
      BY <2>10, <1>0, <1>1, CapacityFacts DEF EnterBlock, CursorSound, Overflow, Cursors
    <3>2. \A i \in Idx : ~(i < 0)
      BY DEF Idx
    <3>3. Linked(d.blk)' /\ 0 <= get_capacity(d.blk)
      BY <3>1, <2>3 DEF get_capacity
    <3> QED BY <3>1, <3>2, <3>3 DEF CursorSound
  <2>12. CursorsSound'
    <3>1. cursor'[t] = d
      BY <2>1, <2>10, <1>0 DEF Inv, TypeOK
    <3>2. \A u \in Threads : CursorSound(tabcur[u])'
      BY <2>9, <1>0 DEF Inv, CursorsSound, TypeOK
    <3>3. \A u \in Threads : u # t => CursorSound(cursor[u])'
      BY <2>9, <1>3 DEF Inv, CursorsSound, TypeOK
    <3> QED BY <2>11, <3>1, <3>2, <3>3 DEF CursorsSound
  <2>13. SparesPrivate'
    <3> SUFFICES ASSUME NEW u \in Threads, u # t
                 PROVE  /\ \A e \in Spare(u) :
                             /\ e \notin pool
                             /\ ~Linked(e)'
                             /\ next'[e] = Null
                             /\ \A i \in Idx : entry[e][i] = Empty
                             /\ \A w \in Threads : e \in Spare(w)' => w = u
                        /\ cand[u] # Null =>
                             /\ pc[u] \in HasAllocator \cup {"dead"}
                             /\ avail[u] = Null
                             /\ Overflow(cursor[u])
                             /\ seq[cand[u]] = seq[cursor[u].blk] + 1
      BY <2>2, <1>0, <1>3, <1>4, SMTT(20) DEF SparesPrivate, Overflow
    <3>1. ASSUME NEW e \in Spare(u)
          PROVE  ~Linked(e)' /\ next'[e] = Null /\ \A w \in Threads : e \in Spare(w)' => w = u
      <4>1. e \in AllBlocks /\ e # b /\ ~Linked(e) /\ next[e] = Null
        BY <3>1, <1>2 DEF Inv, SparesPrivate, Spare, TypeOK
      <4>2. e # p
        BY <4>1, <1>1
      <4>3. \A w \in Threads : e \in Spare(w)' => w = u
        BY <3>1, <2>2, <1>3 DEF Inv, SparesPrivate
      <4> QED BY <4>1, <4>2, <4>3, <2>1, <2>3
    <3> QED BY <3>1 DEF Inv, SparesPrivate
  <2> QED BY <2>5, <2>6, <2>7, <2>8, <2>12, <2>13 DEF Inv
<1> QED BY <1>5, <1>6
=============================================================================
