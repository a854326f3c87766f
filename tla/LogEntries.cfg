\* Entries of 1, 2 and 7 indices; a block holds two entries of one index or one entry
\* of five, so that the longest chain takes two blocks or three.
CONSTANTS
  Threads = {t1, t2}
  NumBlocks = 9
  BlockUnits = 8
  Chunk = 2
  MaxInline = 1
  PerTx = 2
  Sizes = {1, 3, 13}
  MaxOps = 2
SPECIFICATION Spec
SYMMETRY Symmetry
INVARIANTS TypeOK ReadsBack InUseNotFree NothingLeaked
CHECK_DEADLOCK FALSE
