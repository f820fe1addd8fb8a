\* Three threads race to look up two prefixes, twice each; six insertions are
\* possible, so a table of five entries can overflow.
CONSTANTS
  Thread = {t1, t2, t3}
  Prefix = {x1, x2}
  Empty = Empty
  BIG = 5
  Calls = 2
SYMMETRY Symmetry
SPECIFICATION Spec
INVARIANTS TypeOK NoSharedIndex IndexInRange ResolvesAtRest AnIndexPerThread
