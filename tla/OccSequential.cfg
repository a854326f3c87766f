\* One thread, every write range of a file of three blocks, chunks of two blocks.
CONSTANTS
  t1 = t1
  t2 = t2
  p1 = p1
  p2 = p2
  Threads = {t1}
  Procs = {p1}
  ProcOf <- OneProcess
  NumVBlocks = 3
  NumBlocks = 9
  BlockSize = 2
  Chunk = 2
  MaxInline = 1
  Reads <- SomeReads
  Writes <- AllWrites
  MaxOps <- ThreeEach
  Mortal = {}
  Nobody = Nobody
SPECIFICATION Spec
INVARIANTS ContentExact TableIsReplay
PROPERTIES ReadIsSnapshot
CHECK_DEADLOCK FALSE
