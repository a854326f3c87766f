\* A collector returns its lists and is destroyed while another thread runs.
CONSTANTS
  Threads = {t1, t2}
  NumWords = 2
  Cap = 4
  Sizes = {1, 2}
  MaxImage = 1
SPECIFICATION Spec
INVARIANTS BlockHasOneOwner
CHECK_DEADLOCK FALSE
