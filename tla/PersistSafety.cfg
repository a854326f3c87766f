\* One line of slots in the meta block; a tx block has one slot, in the line of its
\* link.  Four transactions cross two block boundaries and end at a third.
CONSTANTS
  Threads = {t1, t2}
  NumInline = 2
  PerBlock = 1
  PerLine = 2
  MaxTx = 4
  MaxFail = 1
  Builds = {TRUE, FALSE}
SPECIFICATION Spec
SYMMETRY Symmetry
INVARIANTS TypeOK TailIsFlushed SyncedSurvives NoGap LostStaysLost
CHECK_DEADLOCK FALSE
