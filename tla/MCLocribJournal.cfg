\* Three threads, each free to push or to pull, over a ring of three slots:
\* the cursors wrap, the ring empties, and it overruns.
CONSTANTS
  Thread = {t1, t2, t3}
  Addr = {a1, a2}
  BIG = 3
  JOURNAL_EMPTY = JOURNAL_EMPTY
  Garbage = Garbage
SYMMETRY Symmetry
SPECIFICATION Spec
INVARIANT TypeOK
PROPERTY ImplementsQueue
