\* An unaligned write of two blocks races a write of the first one.
CONSTANTS
  t1 = t1
  t2 = t2
  p1 = p1
  p2 = p2
  Threads = {t1, t2}
  Procs = {p1, p2}
  ProcOf <- TwoProcesses
  NumVBlocks = 2
  NumBlocks = 8
  BlockSize = 2
  Chunk = 4
  MaxInline = 3
  Reads <- NoReads
  Writes <- UnalignedWrites
  MaxOps <- ThreeAndOne
  Mortal = {}
  Nobody = Nobody
SPECIFICATION Spec
INVARIANTS ContentExact
CHECK_DEADLOCK FALSE
