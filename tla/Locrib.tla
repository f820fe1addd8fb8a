------------------------------- MODULE Locrib -------------------------------
(***************************************************************************)
(* The loc-RIB table: locrib.c and the inline read_and_clear() of phase3.h.*)
(* An entry of LOCRIB holds the winning route (head), the push flag and a  *)
(* spin lock.  Both operations hold the lock over everything they do to    *)
(* the entry and nothing else touches it, so each is one step here.        *)
(***************************************************************************)
EXTENDS Naturals

CONSTANTS
  NPeers,         \* npeers: the number of peers, hence of parser threads
  Buf,            \* the route buffers of one peer
  Addr,           \* the address references, indices of LOCRIB
  Tiebreak,       \* the part of struct tiebreak that path attributes fill in
  NULL,
  UninitPushFlag  \* what locrib() may find in its uninitialised push_flag

Peer == 1..NPeers

(* A route pointer: a buffer of one peer.  phase1() stamps the peer's      *)
(* address on the route built in it, so the pointer tells the peer.        *)
Route == Peer \X Buf

ASSUME LocribAssumption ==
  /\ NPeers \in Nat
  /\ NULL \notin Route
  /\ UninitPushFlag \subseteq BOOLEAN

VARIABLES
  tiebreak,   \* what each route buffer holds
  head,       \* LOCRIB[a].head
  push_flag   \* LOCRIB[a].push_flag

(* tiebreaker(): memcmp() over the whole struct, which has the peer's      *)
(* address in it; not an order, any difference makes the new route win.    *)
tiebreaker(new, current) ==
  \/ new[1] # current[1]
  \/ tiebreak[new] # tiebreak[current]

(* The condition under which locrib() calls push().                        *)
Changes(a, new, update) ==
  IF update THEN head[a] = NULL \/ tiebreaker(new, head[a])
            ELSE head[a] # NULL /\ head[a] = new

(* A plausible slip: the push flag is read but not set.                    *)
PushNoFlag(a, new, pushed) ==
  /\ pushed = push_flag[a]
  /\ head' = [head EXCEPT ![a] = new]
  /\ UNCHANGED push_flag

(* push(): pushed is what it leaves in its caller's push_flag.  It has no  *)
(* parameter, so push(NULL) stores new as well.                            *)
Push(a, new, pushed) ==
  /\ pushed = push_flag[a]
  /\ push_flag' = [push_flag EXCEPT ![a] = TRUE]
  /\ head' = [head EXCEPT ![a] = new]

(* The locked part of locrib().  When nothing changes push_flag is read    *)
(* without ever having been written.                                       *)
Decide(a, new, update, pushed) ==
  IF Changes(a, new, update)
  THEN Push(a, new, pushed)
  ELSE pushed \in UninitPushFlag /\ UNCHANGED <<head, push_flag>>

(* read_and_clear(): the route it returns is head[a].                      *)
ClearFlag(a) ==
  /\ push_flag' = [push_flag EXCEPT ![a] = FALSE]
  /\ UNCHANGED head

LocribInit ==
  /\ tiebreak \in [Route -> Tiebreak]
  /\ head = [a \in Addr |-> NULL]
  /\ push_flag = [a \in Addr |-> FALSE]

LocribTypeOK ==
  /\ tiebreak \in [Route -> Tiebreak]
  /\ head \in [Addr -> Route \cup {NULL}]
  /\ push_flag \in [Addr -> BOOLEAN]
=============================================================================
