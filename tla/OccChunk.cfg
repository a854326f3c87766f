\* Two writes of the same whole chunk race.
CONSTANTS
  t1 = t1
  t2 = t2
  p1 = p1
  p2 = p2
  Threads = {t1, t2}
  Procs = {p1, p2}
  ProcOf <- TwoProcesses
  NumVBlocks = 3
  NumBlocks = 9
  BlockSize = 2
  Chunk = 2
  MaxInline = 1
  Reads <- NoReads
  Writes <- ChunkWrites
  MaxOps <- ThreeAndOne
  Mortal = {}
  Nobody = Nobody
SPECIFICATION Spec
INVARIANTS OneOwner
CHECK_DEADLOCK FALSE
