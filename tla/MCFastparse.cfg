\* Two peer threads and seven messages and prefixes between them: enough for one
\* peer to free a buffer and build another route in it, for the large pool to run
\* out, and for the small one to reach the third buffer, which lies over the large
\* one.  push_flag is initialised; the journal has a slot more than there are
\* addresses.
CONSTANTS
  NPeers = 2
  SMALL = 1
  LARGE = 2
  SMALL_MAX = 5
  LARGE_MAX = 1
  UINT32 = 3
  Buf <- MCBuf
  Addr = {a1, a2}
  Tiebreak = {v1}
  UninitPushFlag = {TRUE}
  BIG = 3
  TableSize = 2
  StreamLen = 7
  InputLen = 7
  MessageLen = 2
  MULTITHREAD = TRUE
  REPEATS = FALSE
  ORPHANS = FALSE
  NULL = NULL
  Data = Data
  JOURNAL_EMPTY = JOURNAL_EMPTY
  EMPTY = EMPTY
SYMMETRY Symmetry
SPECIFICATION FullSpec
INVARIANTS FullTypeOK CountsReferences ListsSound NoDuplicates
PROPERTIES UsesAlloc ImplementsPool
