\* Two peer threads and the main thread, compiled with MULTITHREAD: every
\* interleaving of short inputs, under fairness.  The table and the journal are
\* short enough for both assertions to fail.  No symmetry, which is not sound
\* for liveness.
CONSTANTS
  NPeers = 2
  Buf = {b1}
  Addr = {a1, a2}
  Tiebreak = {v1, v2}
  NULL = NULL
  UninitPushFlag = {TRUE, FALSE}
  BIG = 3
  JOURNAL_EMPTY = JOURNAL_EMPTY
  EMPTY = EMPTY
  TableSize = 2
  StreamLen = 3
  MULTITHREAD = TRUE
SPECIFICATION Spec
INVARIANTS TypeOK OneConsumer Scheduled InSync Flushed
PROPERTIES Termination EventuallyRead
