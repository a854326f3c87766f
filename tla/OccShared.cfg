\* Two threads of one process on overlapping ranges with a common first block, also
\* checked against the atomic file.  The three operations of t1 free a block and use
\* it again while t2 is busy.
CONSTANTS
  t1 = t1
  t2 = t2
  p1 = p1
  p2 = p2
  Threads = {t1, t2}
  Procs = {p1}
  ProcOf <- OneProcess
  NumVBlocks = 2
  NumBlocks = 8
  BlockSize = 2
  Chunk = 4
  MaxInline = 3
  Reads <- WholeRead
  Writes <- SameStartWrites
  MaxOps <- ThreeAndOne
  Mortal = {}
  Nobody = Nobody
SPECIFICATION FairSpec
INVARIANTS TypeOK ContentExact OneOwner TableIsReplay
PROPERTIES ReadIsSnapshot ImplementsAtomicFile OperationsEnd
CHECK_DEADLOCK FALSE
