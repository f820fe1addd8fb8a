------------------------------ MODULE Fastparse -----------------------------
(***************************************************************************)
(* The parser threads in full: parse_update() takes a buffer for the route *)
(* of a message that has one, the adj-RIB-in counts the references to it,  *)
(* and update_adj_rib_in() frees it when the last is gone.  What follows   *)
(* locrib() is Phase3's.  A buffer belongs to the allocator's pools, which *)
(* all peers share; that Phase3 may take a route to be a pair of a peer    *)
(* and a buffer of that peer is shown here, not assumed.                   *)
(***************************************************************************)
EXTENDS Phase3, Pools, FiniteSets

CONSTANTS
  Data,        \* as in Alloc
  InputLen,    \* bound: messages and prefixes in all peers' input
  MessageLen,  \* the prefixes that fit in a message: its length is asserted
  REPEATS,     \* whether a message may list one prefix twice
  ORPHANS      \* whether all its prefixes may be longer than /24

CountLimit == 65536  \* use_count is a uint16_t

ASSUME FastparseAssumption ==
  /\ PoolsAssumption /\ Buf = Buffer
  /\ {NULL, Data} \cap Buf = {} /\ NULL # Data
  /\ MessageLen \in 1..(CountLimit - 1)
  /\ REPEATS \in BOOLEAN /\ ORPHANS \in BOOLEAN

VARIABLES
  index, free, free_count, link, exhausted,  \* as in Alloc
  use_count,  \* of the route in each buffer
  part,       \* the part of the message each peer is in
  listed,     \* the addresses its NLRI has listed so far
  told        \* the tiebreak last written to the peer groups, by address

allocVars == <<index, free, free_count, link, exhausted>>
messageVars == <<allocVars, use_count, part, listed>>
fullVars == <<vars, messageVars, told>>

(* What a peer must not lose: the routes in its adj-RIB-in and, while its  *)
(* NLRI is being parsed, the route of the message.                         *)
Referenced(p) == {b \in Buf : \E a \in Addr : adj_rib_in[p][a] = <<p, b>>}
Current(p) == {b \in Buf : part[p] = "nlri" /\ route[p] = <<p, b>>}

A == INSTANCE Alloc WITH Cache <- Peer,
                         held <- [p \in Peer |-> Referenced(p) \cup Current(p)]

(* Before a message, in its NLRI with a route, in its NLRI without one     *)
(* (there were no path attributes), in its withdrawn routes.               *)
Part == {"between", "nlri", "bare", "withdrawn"}

(* buf_parse() splits one input among the peers.                           *)
SplitInput == FoldFunction(+, 0, todo) <= InputLen

FullInit ==
  /\ Init
  /\ SplitInput
  /\ \A r, s \in Route : tiebreak[r] = tiebreak[s]  \* mmap() gives zeroed memory
  /\ index = [s \in Size |-> 0]
  /\ free = [p \in Peer |-> [s \in Size |-> NULL]]
  /\ free_count = [p \in Peer |-> [s \in Size |-> 0]]
  /\ link = [b \in Buf |-> Data]
  /\ exhausted = FALSE
  /\ use_count = [b \in Buf |-> 0]
  /\ part = [p \in Peer |-> "between"]
  /\ listed = [p \in Peer |-> {}]
  /\ told = [a \in Addr |-> NULL]
-----------------------------------------------------------------------------
Enter(p, to) ==
  /\ part' = [part EXCEPT ![p] = to]
  /\ listed' = [listed EXCEPT ![p] = {}]

(* A message with path attributes and NLRI: a buffer is taken, cleared and *)
(* filled in.  The NLRI has a prefix at least.                             *)
BeginRoute(p) ==
  /\ At(p, "idle") /\ part[p] = "between" /\ todo[p] > 1
  /\ \E b \in Buf, s \in Size, v \in Tiebreak :
       /\ A!alloc(p, s, b)
       /\ BuildRoute(p, b, v)
       /\ use_count' = [use_count EXCEPT ![b] = 0]
  /\ Enter(p, "nlri")
  /\ UNCHANGED told

(* alloc() finds the pool empty.                                           *)
NoBuffer(p) ==
  /\ At(p, "idle") /\ part[p] = "between" /\ todo[p] > 1
  /\ \E s \in Size : free[p][s] = NULL /\ index[s] = index_max(s)
  /\ exhausted' = TRUE
  /\ UNCHANGED <<vars, index, free, free_count, link, use_count, part, listed, told>>

(* A message with no path attributes, or with nothing but withdrawn routes.*)
BeginBare(p) ==
  /\ part[p] = "between" /\ todo[p] > 1
  /\ Skip(p)
  /\ \E to \in {"bare", "withdrawn"} : Enter(p, to)
  /\ UNCHANGED <<allocVars, use_count, told>>

(* Neither NLRI nor withdrawn routes: parse_update() returns at once.      *)
EndOfRib(p) ==
  /\ part[p] = "between"
  /\ Skip(p)
  /\ UNCHANGED <<messageVars, told>>

(* After a prefix: the part goes on or, if that was its last, the next one *)
(* begins.  The input ends with a message.                                 *)
After(p, last) ==
  IF ~last THEN todo[p] > 1 /\ UNCHANGED part
  ELSE \E to \in {"between"} \cup
                 (IF part[p] # "withdrawn" /\ todo[p] > 1 THEN {"withdrawn"} ELSE {}) :
         part' = [part EXCEPT ![p] = to]

(* A plausible slip: only a prefix that is new to the peer is counted.     *)
RecountNew(p, old, new) ==
  LET down == IF old = NULL THEN use_count
              ELSE [use_count EXCEPT ![old[2]] = (@ + CountLimit - 1) % CountLimit]
  IN  /\ use_count' = IF new = NULL \/ old # NULL THEN down
                      ELSE [down EXCEPT ![new[2]] = (@ + 1) % CountLimit]
      /\ IF old # NULL /\ down[old[2]] = 0 THEN A!dalloc(p, old[2]) ELSE UNCHANGED allocVars

(* A plausible slip: the test made before the count has gone down.         *)
RecountEarly(p, old, new) ==
  LET down == IF old = NULL THEN use_count
              ELSE [use_count EXCEPT ![old[2]] = (@ + CountLimit - 1) % CountLimit]
  IN  /\ use_count' = IF new = NULL THEN down
                      ELSE [down EXCEPT ![new[2]] = (@ + 1) % CountLimit]
      /\ IF old # NULL /\ use_count[old[2]] = 0
         THEN A!dalloc(p, old[2]) ELSE UNCHANGED allocVars

(* The counts in update_adj_rib_in(): the old route's goes down, and the   *)
(* buffer is freed when nothing refers to it any more; then the new one's  *)
(* goes up.  They may be one and the same.                                 *)
Recount(p, old, new) ==
  LET down == IF old = NULL THEN use_count
              ELSE [use_count EXCEPT ![old[2]] = (@ + CountLimit - 1) % CountLimit]
  IN  /\ use_count' = IF new = NULL THEN down
                      ELSE [down EXCEPT ![new[2]] = (@ + 1) % CountLimit]
      /\ IF old # NULL /\ down[old[2]] = 0 THEN A!dalloc(p, old[2]) ELSE UNCHANGED allocVars

(* A prefix of the NLRI, which is no longer than the message.  The last    *)
(* one ends the block.                                                     *)
Nlri(p, a, last) ==
  /\ part[p] = "nlri"
  /\ REPEATS \/ a \notin listed[p]
  /\ Cardinality(listed[p]) < MessageLen
  /\ ParsePrefix(p, a, TRUE, last)
  /\ Recount(p, adj_rib_in[p][a], route[p])
  /\ listed' = [listed EXCEPT ![p] = @ \cup {a}]
  /\ After(p, last)
  /\ UNCHANGED told

(* A withdrawn prefix, or one announced without a route, that the peer had *)
(* announced.                                                              *)
Withdraw(p, a, last) ==
  /\ part[p] \in {"bare", "withdrawn"}
  /\ ParsePrefix(p, a, FALSE, last)
  /\ Recount(p, adj_rib_in[p][a], NULL)
  /\ After(p, last)
  /\ UNCHANGED <<listed, told>>

(* One that it had not: "don't push this!".                                *)
WithdrawNothing(p, a, last) ==
  /\ part[p] \in {"bare", "withdrawn"}
  /\ adj_rib_in[p][a] = NULL
  /\ Skip(p)
  /\ After(p, last)
  /\ UNCHANGED <<allocVars, use_count, listed, told>>

(* lookup_RIB64() returns TOO_BIG: the prefix is passed over, and with it  *)
(* the end of the block if it is the last.                                 *)
TooLong(p, last) ==
  /\ part[p] # "between"
  /\ part[p] = "nlri" /\ last /\ listed[p] = {} => ORPHANS
  /\ Skip(p)
  /\ After(p, last)
  /\ UNCHANGED <<allocVars, use_count, listed, told>>
-----------------------------------------------------------------------------
(* A plausible slip: the pointer written for what it points to.            *)
TellPointer(t) ==
  /\ Emit(t)
  /\ told' = [a \in Addr |->
                IF a \notin Range(addrreftable[t]) THEN told[a] ELSE route1[t]]
  /\ UNCHANGED messageVars

(* serialize() reads the route where it is, when it is written.            *)
Tell(t) ==
  /\ Emit(t)
  /\ told' = [a \in Addr |->
                IF a \notin Range(addrreftable[t]) THEN told[a]
                ELSE IF route1[t] = NULL THEN NULL ELSE tiebreak[route1[t]]]
  /\ UNCHANGED messageVars

Parse(p) ==
  \/ BeginRoute(p) \/ NoBuffer(p) \/ BeginBare(p) \/ EndOfRib(p)
  \/ \E last \in BOOLEAN :
       \/ \E a \in Addr : Nlri(p, a, last) \/ Withdraw(p, a, last) \/ WithdrawNothing(p, a, last)
       \/ TooLong(p, last)

(* The steps of Phase3 that leave the parsers and the output alone.        *)
Pipeline ==
  /\ \/ \E p \in Peer : Start(p) \/ Finish(p) \/ LocribStep(p) \/ JournalPush(p)
     \/ JoinAll
     \/ \E t \in Thread : \/ TryLock(t) \/ Busy(t) \/ Prime(t) \/ PrimeRead(t)
                          \/ Collect(t) \/ TableFull(t) \/ Read(t) \/ Unlock(t)
  /\ UNCHANGED <<messageVars, told>>

(* The program is followed as far as Alloc follows it.                     *)
FullStop == (Ended \/ ~A!Runs) /\ UNCHANGED fullVars

FullNext ==
  \/ A!Runs /\ \E p \in Peer : Parse(p)
  \/ A!Runs /\ Pipeline
  \/ A!Runs /\ \E t \in Thread : Tell(t)
  \/ FullStop

FullSpec == FullInit /\ [][FullNext]_fullVars
-----------------------------------------------------------------------------
(* Every variable keeps its type.                                          *)
FullTypeOK ==
  /\ TypeOK
  /\ A!TypeOK
  /\ use_count \in [Buf -> 0..(CountLimit - 1)]
  /\ part \in [Peer -> Part]
  /\ listed \in [Peer -> SUBSET Addr]
  /\ told \in [Addr -> Tiebreak \cup {NULL}]

(* The count of a buffer in a peer's hands is the number of its references *)
(* in the peer's adj-RIB-in: it never runs below zero, and reaches zero    *)
(* with the last of them.                                                  *)
CountsReferences ==
  \A p \in Peer : \A b \in Referenced(p) \cup Current(p) :
    use_count[b] = Cardinality({a \in Addr : adj_rib_in[p][a] = <<p, b>>})

(* The free lists stay sound, and nothing is lost, in the parsers' hands.  *)
ListsSound == A!ListsSound /\ A!Conserved

(* The parsers use the allocator as it means to be used: a buffer is freed *)
(* once, by its holder, when no adj-RIB-in refers to it any more, and none *)
(* is dropped without being freed.                                         *)
UsesAlloc == A!Spec

(* And the allocator keeps its promise to them.                            *)
ImplementsPool == A!ImplementsPool

(* "if the route changes whilst we are working then a new action will be   *)
(* scheduled": in the end the peer groups have been told what the winner   *)
(* of every address is, not only which buffer it is in.                    *)
Faithful ==
  pc[Main] = "done" =>
    \A a \in Addr : told[a] = IF head[a] = NULL THEN NULL ELSE tiebreak[head[a]]
=============================================================================
