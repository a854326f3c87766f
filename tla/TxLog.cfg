\* Two processes, a meta block of two slots and tx blocks of one: the log crosses
\* two block boundaries, and both processes race for each of them.  Three tx blocks
\* are as many as four writes can ask for, spare blocks included.
CONSTANTS
  Threads = {t1, t2}
  TxBlocks = {b1, b2, b3}
  NumInline = 2
  PerBlock = 1
  MaxTx = 2
  Mortal = {t1}
  Empty = Empty
  Junk = Junk
SPECIFICATION FairSpec
INVARIANTS TypeOK LogContiguous ChainSound NoStaleBytes
PROPERTIES LogAppendOnly TailIsTail ImplementsAppendLog OperationsEnd
CHECK_DEADLOCK FALSE
