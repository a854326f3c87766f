----------------------------- MODULE MCOccFile -----------------------------
(* TLC instances of OccFile. *)
EXTENDS OccFile, TLC

CONSTANTS t1, t2, p1, p2

R(off, cnt) == [off |-> off, cnt |-> cnt]

\* Blocks of two cells.  Overlapping ranges all start in the same block.
SameStartWrites == [t \in Threads |-> {R(0, 1), R(0, 4)}]
WholeRead == {R(0, 4)}

\* Ranges inside the third block, and of t1 alone unaligned ones of the first two,
\* one of which ends where the third block begins.
SingleWrites == t1 :> {R(1, 2), R(1, 3), R(4, 1)} @@ t2 :> {R(5, 1), R(4, 2)}
SingleReads == {R(4, 2)}

\* Everything in a file of three blocks, for one thread.
AllWrites == [t \in Threads |-> {r \in Ranges : end_offset(r) <= NumVBlocks * BlockSize}]
SomeReads == {R(0, 6), R(1, 3), R(5, 2)}

\* A read of two blocks while the second is written.
StraddlingWrites == [t \in Threads |-> {R(0, 4), R(2, 2)}]

\* An unaligned write of two blocks while the first is written.
UnalignedWrites == [t \in Threads |-> {R(0, 1), R(1, 2)}]

\* Writes of exactly one chunk that do not start in block 0.
ChunkWrites == [t \in Threads |-> {R(2, 4)}]
NoReads == {}

OneProcess == [t \in Threads |-> p1]
TwoProcesses == t1 :> p1 @@ t2 :> p2
ThreeEach == [t \in Threads |-> 3]
TwoEach == [t \in Threads |-> 2]
ThreeAndOne == t1 :> 3 @@ t2 :> 1

\* The operation of thread t as AtomicFile sees it.
OpOf(t) ==
  CASE pc[t] \in {"idle"} \cup Stopped -> [at |-> "none"]
    [] pc[t] \in {"update", "lock", "apply"} /\ tx[t].read ->
         [at |-> "read", req |-> tx[t].req]
    [] pc[t] \in {"copyout", "validate", "redo"} ->
         [at |-> "cut", req |-> tx[t].req, lim |-> tx[t].lim]
    [] pc[t] = "done" ->
         [at |-> "result", cells |-> [x \in 0 .. tx[t].lim - 1 |-> tx[t].buf[x]]]
    [] pc[t] = "free" -> [at |-> "done"]
    [] OTHER -> [at |-> "write", req |-> tx[t].req, val |-> <<t, nops[t]>>]

\* What the log and the blocks it maps hold.
FileContent ==
  LET block == [v \in VIdx |-> lidx_to_addr_ro(MapAt(Len(log), v))]
  IN [x \in FileCells |-> block[x \div BlockSize][x % BlockSize]]

Abstract ==
  INSTANCE AtomicFile WITH
    Cells <- FileCells,
    Ranges <- Reads \cup UNION {Writes[t] : t \in Threads},
    content <- FileContent,
    size <- Max({0} \cup {EndOf(log[j]) : j \in DOMAIN log}),
    op <- [t \in Threads |-> OpOf(t)]

(* The lock-free transactions implement a file whose writes are atomic and *)
(* whose reads are snapshots: what the log and the blocks it maps hold     *)
(* changes only at a commit, then by exactly the cells of that write.      *)
ImplementsAtomicFile == Abstract!Spec
=============================================================================
