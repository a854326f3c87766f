\* Two threads and two words of two blocks: a group can fill a word, cross its end,
\* or be longer than the longest list.
CONSTANTS
  Threads = {t1, t2}
  NumWords = 2
  Cap = 2
  Sizes = {1, 2}
  MaxImage = 3
SPECIFICATION Spec
SYMMETRY Symmetry
INVARIANTS TypeOK
PROPERTIES  LostOnlyAtEdges
CHECK_DEADLOCK FALSE
