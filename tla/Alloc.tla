------------------------------- MODULE Alloc -------------------------------
(***************************************************************************)
(* alloc.c: two pools of fixed-size buffers shared by all threads, and in  *)
(* front of them a cache per peer, whose free lists are threaded through   *)
(* the first word of the freed buffers.  A peer's thread is the only one   *)
(* to use its cache, and the pools' index is fetched and added to in one   *)
(* atomic instruction, so each operation is one step.  The program is      *)
(* followed up to and with the first buffer that overlaps the other pool:  *)
(* what two holders then write over each other is not modelled.            *)
(***************************************************************************)
EXTENDS Pools, FiniteSets

CONSTANTS
  Cache,  \* the caches, one per peer
  NULL,
  Data    \* the first word of a buffer in use: no pointer

VARIABLES
  index,       \* of the next buffer that pool_alloc() carves, by pool
  free,        \* cache_line.free, by cache and size
  free_count,  \* cache_line.free_count
  link,        \* the first word of each buffer
  exhausted,   \* assert(index < index_max) of pool_alloc() has failed
  held         \* the buffers each peer has and has not freed

lists == <<free, free_count, link>>
vars == <<index, lists, exhausted, held>>

(* What pool_alloc() has carved so far, and whether the small buffers of   *)
(* it end before the large pool begins.                                    *)
carved == {b \in Buffer : b[2] < index[b[1]]}
InReach == SMALL * index["small"] <= buf("large")
Runs == InReach /\ ~exhausted

Init ==
  /\ index = [s \in Size |-> 0]
  /\ free = [c \in Cache |-> [s \in Size |-> NULL]]
  /\ free_count = [c \in Cache |-> [s \in Size |-> 0]]
  /\ link = [b \in Buffer |-> Data]
  /\ exhausted = FALSE
  /\ held = [c \in Cache |-> {}]

(* A plausible slip: the list's head is not advanced.                      *)
alloc_cache_line_stuck(c, s, b) ==
  /\ b = free[c][s] /\ b # NULL
  /\ link' = [link EXCEPT ![b] = Data]
  /\ free_count' = [free_count EXCEPT ![c][s] = @ - 1]
  /\ UNCHANGED <<free, index>>

(* alloc_cache_line(), whose caller then fills the buffer.                 *)
alloc_cache_line(c, s, b) ==
  /\ b = free[c][s] /\ b # NULL
  /\ free' = [free EXCEPT ![c][s] = link[b]]
  /\ link' = [link EXCEPT ![b] = Data]
  /\ free_count' = [free_count EXCEPT ![c][s] = @ - 1]
  /\ UNCHANGED index

(* pool_alloc(): the next buffer of the pool.                              *)
pool_alloc(s, b) ==
  /\ index[s] < index_max(s)
  /\ b = <<s, index[s]>>
  /\ index' = [index EXCEPT ![s] = @ + 1]
  /\ UNCHANGED lists

(* alloc(): alloc_small() or alloc_large(), the cache first, then the pool.*)
alloc(c, s, b) ==
  /\ Runs
  /\ \/ alloc_cache_line(c, s, b)
     \/ free[c][s] = NULL /\ pool_alloc(s, b)
  /\ UNCHANGED exhausted

(* The pool has nothing left: the program ends.                            *)
Exhaust(c, s) ==
  /\ Runs
  /\ free[c][s] = NULL /\ index[s] = index_max(s)
  /\ exhausted' = TRUE
  /\ UNCHANGED <<index, lists, held>>

(* A plausible slip: the list begun anew with every buffer.                *)
dallocAnew(c, b) ==
  /\ Runs
  /\ link' = [link EXCEPT ![b] = NULL]
  /\ free' = [free EXCEPT ![c][SizeOf(b)] = b]
  /\ free_count' = [free_count EXCEPT ![c][SizeOf(b)] = @ + 1]
  /\ UNCHANGED <<index, exhausted>>

(* dalloc() and dalloc_cache_line(), which leaves the list as it was       *)
(* behind the new head whether it was empty or not.                        *)
dalloc(c, b) ==
  /\ Runs
  /\ link' = [link EXCEPT ![b] = free[c][SizeOf(b)]]
  /\ free' = [free EXCEPT ![c][SizeOf(b)] = b]
  /\ free_count' = [free_count EXCEPT ![c][SizeOf(b)] = @ + 1]
  /\ UNCHANGED <<index, exhausted>>
-----------------------------------------------------------------------------
(* The use that a peer makes of them: it frees only what it holds.         *)
Acquire(c, s) ==
  \E b \in {free[c][s], <<s, index[s]>>} :
    /\ alloc(c, s, b)
    /\ held' = [held EXCEPT ![c] = @ \cup {b}]

Release(c) ==
  \E b \in held[c] :
    /\ dalloc(c, b)
    /\ held' = [held EXCEPT ![c] = @ \ {b}]

Next ==
  \/ \E c \in Cache : Release(c) \/ \E s \in Size : Acquire(c, s) \/ Exhaust(c, s)
  \/ ~Runs /\ UNCHANGED vars

Spec == Init /\ [][Next]_vars
-----------------------------------------------------------------------------
(* The n-th buffer of a free list, as far as its links lead.               *)
Nth(c, s, n) ==
  LET f[i \in 0..n] == IF i = 0 THEN free[c][s]
                       ELSE LET b == f[i - 1] IN IF b \in Buffer THEN link[b] ELSE NULL
  IN  f[n]

OnList(c, s) == {Nth(c, s, n) : n \in 0..Cardinality(Buffer)} \ {NULL}

(* Every variable keeps its type; in particular no free list leads to the  *)
(* first word of a buffer in use.                                          *)
TypeOK ==
  /\ \A s \in Size : index[s] \in 0..index_max(s)
  /\ free \in [Cache -> [Size -> Buffer \cup {NULL}]]
  /\ free_count \in [Cache -> [Size -> Nat]]
  /\ link \in [Buffer -> Buffer \cup {NULL, Data}]
  /\ exhausted \in BOOLEAN
  /\ held \in [Cache -> SUBSET Buffer]

(* A free list ends, is as long as free_count says, and holds buffers that *)
(* were carved from the pool of its size only.                             *)
ListsSound ==
  \A c \in Cache, s \in Size :
    /\ Nth(c, s, Cardinality(Buffer)) = NULL
    /\ OnList(c, s) \subseteq carved \cap Pool(s)
    /\ free_count[c][s] = Cardinality(OnList(c, s))

(* Nothing is lost: what the pools have given out is in somebody's hands   *)
(* or on somebody's free list.                                             *)
Conserved ==
  carved = UNION {held[c] \cup OnList(c, "small") \cup OnList(c, "large") : c \in Cache}

BP == INSTANCE BufferPool WITH overlap <- ~InReach

(* "which keeps per peer/thread pools isolated": a buffer is in one peer's *)
(* hands at most, and what alloc() returns is in nobody's yet, of the size *)
(* asked for and apart from every buffer in use, up to the first buffer    *)
(* that overlaps the other pool.                                           *)
ImplementsPool ==
  /\ BP!Spec
  /\ [][\A c \in Cache, s \in Size : Acquire(c, s) => BP!Give(c, s)]_vars

(* The same without the reservation: no octet is in two buffers in use.    *)
Isolated ==
  \A c, d \in Cache : \A b \in held[c], e \in held[d] :
    b # e => Octets(b) \cap Octets(e) = {}
=============================================================================
