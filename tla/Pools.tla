-------------------------------- MODULE Pools -------------------------------
(***************************************************************************)
(* The layout of alloc.c's two pools.  init_pools() maps one slab and      *)
(* init_pool() carves the pools from it in order, but takes the size of a  *)
(* pool in 32 bits: a small pool that is larger than that does not end     *)
(* before the large one begins.                                            *)
(***************************************************************************)
EXTENDS Naturals

CONSTANTS
  SMALL, LARGE,          \* alloc_max: the octets of a buffer of either pool
  SMALL_MAX, LARGE_MAX,  \* index_max: the buffers of either pool
  UINT32                 \* 2^32, the modulus of init_pool()'s product

PoolsAssumption == {SMALL, LARGE, SMALL_MAX, LARGE_MAX, UINT32} \subseteq Nat \ {0}

Size == {"small", "large"}
alloc_max(s) == IF s = "small" THEN SMALL ELSE LARGE
index_max(s) == IF s = "small" THEN SMALL_MAX ELSE LARGE_MAX

(* A buffer is the pool that it is carved from and its index there.        *)
Pool(s) == {s} \X (0..(index_max(s) - 1))
Buffer == Pool("small") \cup Pool("large")

(* Where the pools begin, from the beginning of the slab.                  *)
buf(s) == IF s = "small" THEN 0 ELSE (SMALL_MAX * SMALL) % UINT32

(* The address that pool_alloc() computes, which is in 64 bits, and the    *)
(* octets from there on.                                                   *)
Place(b) == buf(b[1]) + alloc_max(b[1]) * b[2]
Octets(b) == Place(b)..(Place(b) + alloc_max(b[1]) - 1)

(* ISLARGE(), by which dalloc() chooses the free list.                     *)
SizeOf(b) == IF Place(b) >= buf("large") THEN "large" ELSE "small"
=============================================================================
