\* Two peers.  A small pool of five octets in all, whose size is taken modulo
\* three: the large pool begins at the third small buffer.  (In the program it is
\* 40,000,000 * 256 octets modulo 2^32, and small buffer number 6,445,568.)
CONSTANTS
  Cache = {c1, c2}
  SMALL = 1
  LARGE = 2
  SMALL_MAX = 5
  LARGE_MAX = 1
  UINT32 = 3
  NULL = NULL
  Data = Data
SYMMETRY Symmetry
SPECIFICATION Spec
INVARIANT Isolated
