\* Images shorter than a word: a group can only cross the end of a word.
CONSTANTS
  Threads = {t1}
  NumWords = 2
  Cap = 3
  Sizes = {1, 2}
  MaxImage = 2
SPECIFICATION Spec
INVARIANTS NothingLost
CHECK_DEADLOCK FALSE
