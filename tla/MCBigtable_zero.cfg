\* One thread looks up the first prefix twice.
CONSTANTS
  Thread = {t1}
  Prefix = {x1, x2}
  Empty = Empty
  BIG = 4
  Calls = 3
SYMMETRY Symmetry
SPECIFICATION Spec
INVARIANT OneIndex
