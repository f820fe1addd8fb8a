\* One peer, two small buffers: the buffer of a winner is freed and used for the
\* route of another message.
CONSTANTS
  NPeers = 1
  SMALL = 1
  LARGE = 2
  SMALL_MAX = 2
  LARGE_MAX = 1
  UINT32 = 3
  Buf <- MCBuf
  Addr = {a1, a2}
  Tiebreak = {v1, v2}
  UninitPushFlag = {FALSE}
  BIG = 9
  TableSize = 9
  StreamLen = 7
  InputLen = 7
  MessageLen = 2
  MULTITHREAD = FALSE
  REPEATS = FALSE
  ORPHANS = FALSE
  NULL = NULL
  Data = Data
  JOURNAL_EMPTY = JOURNAL_EMPTY
  EMPTY = EMPTY
SYMMETRY Symmetry
SPECIFICATION FullSpec
INVARIANT Faithful
