----------------------------- MODULE TxLogAlloc -----------------------------
(* Proofs about TxLog, part 2: the steps of TxBlockAllocator, which take a   *)
(* spare tx block, take one from the bitmap, or give one back.               *)
EXTENDS TxLogBasics

USE TxLogConstants

\* TxBlockAllocator::alloc with a block kept from a lost race.
LEMMA InvReuseSpare ==
  ASSUME Inv, TypeOK', NEW t \in Threads, AllocTxBlock(t), avail[t] # Null
  PROVE  Inv'
<1> DEFINE b == avail[t]
<1>0. /\ cand[t] = Null
      /\ cand' = [cand EXCEPT ![t] = b]
      /\ avail' = [avail EXCEPT ![t] = Null]
      /\ seq' = [seq EXCEPT ![b] = seq[cursor[t].blk] + 1]
      /\ UNCHANGED <<pool, next, entry, cursor, tabcur, pc, ntx>>
  BY DEF AllocTxBlock
<1>1. b \in AllBlocks /\ b \in Spare(t) /\ ~Linked(b) /\ next[b] = Null /\ b \notin pool
  BY DEF Inv, TypeOK, Spare, SparesPrivate
<1>2. \A p : Linked(p)' <=> Linked(p)
  BY <1>0 DEF Linked
<1>3. \A p \in AllBlocks : p # b => seq'[p] = seq[p]
  BY <1>0 DEF Inv, TypeOK
<1>4. LogContiguous' /\ NoStaleBytes'
  BY <1>0, <1>2 DEF Inv, LogContiguous, NoStaleBytes, Full
<1>5. CursorsSound'
  BY <1>0, <1>2 DEF Inv, CursorsSound, CursorSound
<1>6. SeqTotal'
  BY <1>1, <1>2, <1>3, <1>0 DEF Inv, SeqTotal
<1>7. ChainSound'
  <2> SUFFICES ASSUME NEW p \in AllBlocks \ pool, next[p] # Null
               PROVE  /\ seq'[next[p]] = seq'[p] + 1
                      /\ next[p] \notin pool
                      /\ \A q \in AllBlocks \ pool : next[q] = next[p] => q = p
                      /\ \A u \in Threads : next[p] # avail'[u] /\ next[p] # cand'[u]
    BY <1>0 DEF ChainSound
  <2>1. p # b /\ next[p] # b /\ next[p] \in AllBlocks
    BY <1>1 DEF Linked, Inv, TypeOK
  <2>2. seq'[next[p]] = seq'[p] + 1
    BY <2>1, <1>3 DEF Inv, ChainSound
  <2>3. \A u \in Threads : next[p] # avail'[u] /\ next[p] # cand'[u]
    BY <1>0, <2>1 DEF Inv, ChainSound, TypeOK
  <2> QED BY <2>2, <2>3 DEF Inv, ChainSound
<1>8. SparesPrivate'
  <2>1. \A u \in Threads : Spare(u)' = Spare(u)
    BY <1>0 DEF Spare, Inv, TypeOK
  <2>2. cursor[t].blk \in AllBlocks /\ Linked(cursor[t].blk)
    BY DEF Inv, TypeOK, CursorsSound, CursorSound, Cursors
  <2>3. seq'[b] = seq'[cursor[t].blk] + 1
    BY <1>0, <1>1, <1>3, <2>2 DEF Inv, TypeOK
  <2> SUFFICES ASSUME NEW u \in Threads
               PROVE  /\ \A d \in Spare(u)' :
                           /\ d \notin pool'
                           /\ ~Linked(d)'
                           /\ next'[d] = Null
                           /\ \A i \in Idx : entry'[d][i] = Empty
                           /\ \A w \in Threads : d \in Spare(w)' => w = u
                      /\ cand'[u] # Null =>
                           /\ pc'[u] \in HasAllocator \cup {"dead"}
                           /\ avail'[u] = Null
                           /\ Overflow(cursor[u])'
                           /\ seq'[cand'[u]] = seq'[cursor'[u].blk] + 1
    BY DEF SparesPrivate
  <2>4. \A d \in Spare(u)' :
           /\ d \notin pool'
           /\ ~Linked(d)'
           /\ next'[d] = Null
           /\ \A i \in Idx : entry'[d][i] = Empty
           /\ \A w \in Threads : d \in Spare(w)' => w = u
    BY <1>0, <1>2, <2>1 DEF Inv, SparesPrivate
  <2>5. CASE u = t
    BY <1>0, <2>3, <2>4, <2>5 DEF AllocTxBlock, Overflow, Inv, TypeOK
  <2>6. CASE u # t
    <3>1. cand'[u] = cand[u] /\ avail'[u] = avail[u]
      BY <1>0, <2>6 DEF Inv, TypeOK
    <3>2. cursor[u].blk \in AllBlocks /\ Linked(cursor[u].blk)
      BY DEF Inv, TypeOK, CursorsSound, CursorSound, Cursors
    <3>3. cursor[u].blk # b /\ cand[u] # b
      BY <1>1, <3>2, <2>6 DEF Inv, SparesPrivate, Spare
    <3>4. cand[u] \in AllBlocks
      BY DEF Inv, TypeOK
    <3>5. cand[u] # Null => seq'[cand'[u]] = seq'[cursor'[u].blk] + 1
      BY <1>0, <1>3, <3>1, <3>2, <3>3, <3>4 DEF Inv, SparesPrivate
    <3> QED BY <1>0, <2>4, <3>1, <3>5 DEF Inv, SparesPrivate, Overflow
  <2> QED BY <2>5, <2>6
<1> QED BY <1>4, <1>5, <1>6, <1>7, <1>8 DEF Inv

\* TxBlockAllocator::alloc with a block of the block allocator.
LEMMA InvFreshBlock ==
  ASSUME Inv, TypeOK', NEW t \in Threads, AllocTxBlock(t), avail[t] = Null
  PROVE  Inv'
<1>0. PICK b \in pool :
        /\ cand' = [cand EXCEPT ![t] = b]
        /\ pool' = pool \ {b}
        /\ seq' = [seq EXCEPT ![b] = seq[cursor[t].blk] + 1]
        /\ next' = [next EXCEPT ![b] = Null]
        /\ entry' = [entry EXCEPT ![b] = [i \in Idx |-> Empty]]
  BY DEF AllocTxBlock, ZeroInit
<1>1. /\ cand[t] = Null
      /\ UNCHANGED <<avail, cursor, tabcur, pc, ntx>>
      /\ pc[t] \in HasAllocator /\ Overflow(cursor[t])
  BY DEF AllocTxBlock
<1>2. b \in AllBlocks /\ b # Null /\ ~Linked(b)
  <2>1. b \in AllBlocks /\ b # Null
    BY DEF Inv, TypeOK, AllBlocks
  <2> QED BY <2>1, LinkedNotFree
<1>3. /\ \A p \in AllBlocks : p # b => /\ seq'[p] = seq[p]
                                       /\ next'[p] = next[p]
                                       /\ entry'[p] = entry[p]
      /\ next'[b] = Null
      /\ \A i \in Idx : entry'[b][i] = Empty
      /\ seq'[b] = seq[cursor[t].blk] + 1
  BY <1>0, <1>2 DEF Inv, TypeOK
<1>4. \A p \in AllBlocks : Linked(p)' <=> Linked(p)
  BY <1>0, <1>2, <1>3 DEF Linked
<1>5. \A p \in AllBlocks : Linked(p) => p # b
  BY <1>2
<1>6. LogContiguous' /\ NoStaleBytes'
  BY <1>3, <1>4, <1>5 DEF Inv, LogContiguous, NoStaleBytes, Full
<1>7. CursorsSound'
  <2>1. \A c \in Cursors : CursorSound(c) => CursorSound(c)'
    BY <1>3, <1>4, <1>5 DEF CursorSound, Cursors
  <2> QED BY <1>1, <2>1 DEF Inv, CursorsSound, TypeOK
<1>8. SeqTotal'
  BY <1>3, <1>4, <1>5 DEF Inv, SeqTotal
<1>9. ChainSound'
  <2> SUFFICES ASSUME NEW p \in AllBlocks \ pool', next'[p] # Null
               PROVE  /\ seq'[next'[p]] = seq'[p] + 1
                      /\ next'[p] \notin pool'
                      /\ \A q \in AllBlocks \ pool' : next'[q] = next'[p] => q = p
                      /\ \A u \in Threads : next'[p] # avail'[u] /\ next'[p] # cand'[u]
    BY DEF ChainSound
  <2>1. p # b /\ p \in AllBlocks \ pool /\ next'[p] = next[p]
    BY <1>0, <1>3
  <2>2. next[p] # b /\ next[p] \in AllBlocks
    BY <2>1, <1>2 DEF Linked, Inv, TypeOK
  <2>3. seq'[next'[p]] = seq'[p] + 1 /\ next'[p] \notin pool'
    BY <2>1, <2>2, <1>3, <1>0 DEF Inv, ChainSound
  <2>4. ASSUME NEW q \in AllBlocks \ pool', next'[q] = next'[p] PROVE q = p
    <3>1. q # b
      BY <2>4, <1>3
    <3> QED BY <3>1, <2>1, <2>4, <1>0, <1>3 DEF Inv, ChainSound
  <2>5. \A u \in Threads : next'[p] # avail'[u] /\ next'[p] # cand'[u]
    BY <1>0, <1>1, <2>1, <2>2 DEF Inv, ChainSound, TypeOK
  <2> QED BY <2>3, <2>4, <2>5
<1>10. SparesPrivate'
  <2>1. Spare(t)' = {b}
    BY <1>0, <1>1, <1>2 DEF Spare, Inv, TypeOK
  <2>2. \A u \in Threads : u # t =>
           Spare(u)' = Spare(u) /\ cand'[u] = cand[u] /\ avail'[u] = avail[u]
    BY <1>0, <1>1 DEF Spare, Inv, TypeOK
  <2>3. \A u \in Threads : b \notin Spare(u) /\ Spare(u) \subseteq AllBlocks
    BY <1>0 DEF Inv, SparesPrivate, Spare, TypeOK
  <2>4. \A u \in Threads : cursor[u].blk \in AllBlocks /\ cursor[u].blk # b
    BY <1>5 DEF Inv, TypeOK, CursorsSound, CursorSound, Cursors
  <2> SUFFICES ASSUME NEW u \in Threads
               PROVE  /\ \A d \in Spare(u)' :
                           /\ d \notin pool'
                           /\ ~Linked(d)'
                           /\ next'[d] = Null
                           /\ \A i \in Idx : entry'[d][i] = Empty
                           /\ \A w \in Threads : d \in Spare(w)' => w = u
                      /\ cand'[u] # Null =>
                           /\ pc'[u] \in HasAllocator \cup {"dead"}
                           /\ avail'[u] = Null
                           /\ Overflow(cursor[u])'
                           /\ seq'[cand'[u]] = seq'[cursor'[u].blk] + 1
    BY DEF SparesPrivate
  <2>5. CASE u = t
    <3>1. \A w \in Threads : b \in Spare(w)' => w = t
      BY <2>2, <2>3
    <3>2. cand'[t] = b
      BY <1>0 DEF Inv, TypeOK
    <3>3. seq'[b] = seq'[cursor'[t].blk] + 1 /\ Overflow(cursor[t])'
      BY <1>1, <1>3, <2>4 DEF Overflow
    <3>4. b \notin pool' /\ ~Linked(b)' /\ avail'[t] = Null /\ pc'[t] \in HasAllocator
      BY <1>0, <1>1, <1>2, <1>4
    <3> QED BY <2>1, <2>5, <3>1, <3>2, <3>3, <3>4, <1>3
  <2>6. CASE u # t
    <3>1. \A d \in Spare(u) : d # b /\ d \in AllBlocks
      BY <2>3
    <3>2. \A d \in Spare(u) :
             /\ d \notin pool'
             /\ ~Linked(d)'
             /\ next'[d] = Null
             /\ \A i \in Idx : entry'[d][i] = Empty
      BY <3>1, <1>0, <1>3, <1>4 DEF Inv, SparesPrivate
    <3>3. \A d \in Spare(u), w \in Threads : d \in Spare(w)' => w = u
      BY <3>1, <2>1, <2>2 DEF Inv, SparesPrivate
    <3>4. cand[u] # Null => cand[u] \in Spare(u)
      BY DEF Spare
    <3>5. cand[u] # Null => seq'[cand[u]] = seq'[cursor[u].blk] + 1
      BY <3>1, <3>4, <2>4, <1>3 DEF Inv, SparesPrivate
    <3>6. cand[u] # Null => /\ pc[u] \in HasAllocator \cup {"dead"}
                            /\ avail[u] = Null
                            /\ Overflow(cursor[u])
      BY DEF Inv, SparesPrivate
    <3> QED BY <2>2, <2>6, <3>2, <3>3, <3>5, <3>6, <1>1 DEF Overflow
  <2> QED BY <2>5, <2>6
<1> QED BY <1>6, <1>7, <1>8, <1>9, <1>10 DEF Inv

\* ~TxBlockAllocator returns a block that is in no list.
LEMMA InvExitThread ==
  ASSUME Inv, TypeOK', NEW t \in Threads, ExitThread(t)
  PROVE  Inv'
<1>0. /\ pc[t] = "idle"
      /\ pool' = pool \cup ({avail[t]} \ {Null})
      /\ avail' = [avail EXCEPT ![t] = Null]
      /\ pc' = [pc EXCEPT ![t] = "exited"]
      /\ UNCHANGED <<entry, next, seq, cand, cursor, tabcur, ntx>>
  BY DEF ExitThread
<1>1. cand[t] = Null
  BY <1>0 DEF Inv, SparesPrivate, HasAllocator
<1>2. \A b \in pool' \ pool : b \in Spare(t) /\ next[b] = Null /\ ~Linked(b)
  BY <1>0 DEF Spare, Inv, SparesPrivate
<1>3. \A b : Linked(b)' <=> Linked(b)
  BY <1>0, <1>2 DEF Linked
<1>4. LogContiguous' /\ NoStaleBytes' /\ SeqTotal'
  BY <1>0, <1>3 DEF Inv, LogContiguous, NoStaleBytes, SeqTotal, Full
<1>5. CursorsSound'
  BY <1>0, <1>3 DEF Inv, CursorsSound, CursorSound
<1>6. ChainSound'
  <2> SUFFICES ASSUME NEW p \in AllBlocks \ pool', next[p] # Null
               PROVE  /\ seq[next[p]] = seq[p] + 1
                      /\ next[p] \notin pool'
                      /\ \A q \in AllBlocks \ pool' : next[q] = next[p] => q = p
                      /\ \A u \in Threads : next[p] # avail'[u] /\ next[p] # cand[u]
    BY <1>0 DEF ChainSound
  <2>1. p \in AllBlocks \ pool /\ Linked(next[p])
    BY <1>0 DEF Linked
  <2>2. next[p] \notin pool'
    BY <2>1, <1>2 DEF Inv, ChainSound
  <2>3. \A u \in Threads : next[p] # avail'[u] /\ next[p] # cand[u]
    BY <1>0, <2>1 DEF Inv, ChainSound, TypeOK
  <2> QED BY <2>1, <2>2, <2>3, <1>0 DEF Inv, ChainSound
<1>7. SparesPrivate'
  <2>1. Spare(t)' = {}
    BY <1>0, <1>1 DEF Spare, Inv, TypeOK
  <2>2. \A u \in Threads : u # t =>
           Spare(u)' = Spare(u) /\ avail'[u] = avail[u] /\ pc'[u] = pc[u]
    BY <1>0 DEF Spare, Inv, TypeOK
  <2>3. \A u \in Threads : u # t => \A b \in Spare(u) : b \notin pool'
    BY <1>2 DEF Inv, SparesPrivate
  <2> QED BY <2>1, <2>2, <2>3, <1>0, <1>1, <1>3, SMTT(20) DEF Inv, SparesPrivate, Overflow
<1> QED BY <1>4, <1>5, <1>6, <1>7 DEF Inv
=============================================================================
