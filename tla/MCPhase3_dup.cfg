\* What the build does: the uninitialised push_flag reads as FALSE, so an
\* announcement that changes nothing is journalled all the same.
CONSTANTS
  NPeers = 2
  Buf = {b1}
  Addr = {a1, a2}
  Tiebreak = {v1, v2}
  NULL = NULL
  UninitPushFlag = {FALSE}
  BIG = 3
  JOURNAL_EMPTY = JOURNAL_EMPTY
  EMPTY = EMPTY
  TableSize = 2
  StreamLen = 3
  MULTITHREAD = TRUE
SYMMETRY Symmetry
SPECIFICATION Spec
INVARIANT NoDuplicates
