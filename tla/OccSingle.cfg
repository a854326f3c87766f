\* Two processes, ranges inside the third block, and unaligned writes of the first two
\* by one of them.
CONSTANTS
  t1 = t1
  t2 = t2
  p1 = p1
  p2 = p2
  Threads = {t1, t2}
  Procs = {p1, p2}
  ProcOf <- TwoProcesses
  NumVBlocks = 3
  NumBlocks = 8
  BlockSize = 2
  Chunk = 4
  MaxInline = 3
  Reads <- SingleReads
  Writes <- SingleWrites
  MaxOps <- TwoEach
  Mortal = {p2}
  Nobody = Nobody
SPECIFICATION Spec
INVARIANTS ContentExact OneOwner TableIsReplay
PROPERTIES OnlyAlignedEndOverruns
CHECK_DEADLOCK FALSE
