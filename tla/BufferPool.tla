----------------------------- MODULE BufferPool -----------------------------
(***************************************************************************)
(* What alloc.c promises its callers: a buffer is given to one holder at a *)
(* time, of the size asked for and apart from every other's, and stays his *)
(* until he returns it.  The promise ends where the pools overlap.         *)
(***************************************************************************)
EXTENDS Pools

CONSTANT Cache  \* the holders: the peers, each with a cache

VARIABLES
  held,    \* the buffers in each holder's hands
  overlap  \* a buffer has been given out that overlaps the other pool

Init ==
  /\ held = [c \in Cache |-> {}]
  /\ overlap = FALSE

InHands == UNION {held[c] : c \in Cache}

Give(c, s) ==
  /\ ~overlap
  /\ \E b \in (held'[c] \cap Pool(s)) \ InHands :
       /\ held' = [held EXCEPT ![c] = @ \cup {b}]
       /\ ~overlap' => \A d \in InHands : Octets(b) \cap Octets(d) = {}

Take(c) ==
  /\ ~overlap
  /\ \E b \in held[c] \ held'[c] : held' = [held EXCEPT ![c] = @ \ {b}]
  /\ UNCHANGED overlap

Next == \E c \in Cache : Take(c) \/ \E s \in Size : Give(c, s)

Spec == Init /\ [][Next]_<<held, overlap>>
=============================================================================
