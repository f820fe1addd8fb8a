-------------------------- MODULE Fastparse_proofs --------------------------
(***************************************************************************)
(* The parser threads of Fastparse do nothing that Phase3 does not let     *)
(* them do, so what is proved of Phase3 holds of the whole pipeline.  And  *)
(* the reference counts of update_adj_rib_in() are right, so the parsers   *)
(* use the allocator as it means to be used, and it keeps its promise to   *)
(* them: for any peers, buffers and messages.                              *)
(***************************************************************************)
EXTENDS Fastparse, HardGuard_proofs

(* What a peer's thread does with a message is a step of its parser, or no *)
(* step, in Phase3.                                                        *)
LEMMA ParseStep ==
  ASSUME NEW p \in Peer, Parse(p)
  PROVE  [Next]_vars
<1>1. CASE BeginRoute(p)
  <2> PICK b \in Buf, v \in Tiebreak : BuildRoute(p, b, v)
    BY <1>1 DEF BeginRoute
  <2> QED BY DEF Next, PeerStep
<1>2. CASE NoBuffer(p)
  BY <1>2 DEF NoBuffer
<1>3. CASE BeginBare(p) \/ EndOfRib(p)
  BY <1>3 DEF BeginBare, EndOfRib, Next, PeerStep
<1>4. ASSUME NEW last \in BOOLEAN, TooLong(p, last) PROVE [Next]_vars
  BY <1>4 DEF TooLong, Next, PeerStep
<1>5. ASSUME NEW last \in BOOLEAN, NEW a \in Addr,
             Nlri(p, a, last) \/ Withdraw(p, a, last) \/ WithdrawNothing(p, a, last)
      PROVE  [Next]_vars
  <2>1. CASE Nlri(p, a, last)
    BY <2>1 DEF Nlri, Next, PeerStep
  <2>2. CASE Withdraw(p, a, last)
    BY <2>2 DEF Withdraw, Next, PeerStep
  <2>3. CASE WithdrawNothing(p, a, last)
    BY <2>3 DEF WithdrawNothing, Next, PeerStep
  <2> QED BY <1>5, <2>1, <2>2, <2>3
<1> QED BY <1>1, <1>2, <1>3, <1>4, <1>5 DEF Parse

(* Every step of the whole pipeline is a step of Phase3, or none.          *)
LEMMA FullStep == [FullNext]_fullVars => [Next]_vars
<1> SUFFICES ASSUME [FullNext]_fullVars PROVE [Next]_vars
  OBVIOUS
<1>1. ASSUME NEW p \in Peer, Parse(p) PROVE [Next]_vars
  BY <1>1, ParseStep
<1>2. CASE Pipeline
  BY <1>2 DEF Pipeline, Next, PeerStep, schedule_phase3
<1>3. ASSUME NEW t \in Thread, Tell(t) PROVE [Next]_vars
  BY <1>3 DEF Tell, Next, schedule_phase3
<1>4. CASE FullStop \/ UNCHANGED fullVars
  BY <1>4 DEF FullStop, fullVars
<1> QED BY <1>1, <1>2, <1>3, <1>4 DEF FullNext

(* The whole pipeline implements the safety part of Phase3.                *)
THEOREM Implements == FullSpec => Init /\ [][Next]_vars
<1>1. FullInit => Init
  BY DEF FullInit
<1> QED BY <1>1, FullStep, PTL DEF FullSpec

(* So there is one consumer, no push flag is forgotten, no change of a     *)
(* winner is lost, and when buf_parse() returns all are flushed, whatever  *)
(* the messages are.                                                       *)
THEOREM PipelineSafe == FullSpec => [](OneConsumer /\ Scheduled /\ InSync /\ Flushed)
<1>1. IInv => OneConsumer /\ Scheduled /\ InSync /\ Flushed
  BY IInvFlushed DEF IInv
<1> QED BY <1>1, Implements, InitIInv, NextIInv, PTL

(* No message, however it lists its prefixes, has an address journalled    *)
(* twice, for as long as no call of locrib() that changes nothing goes on  *)
(* to push.                                                                *)
THEOREM PipelineGuarded == FullSpec /\ [][Sober]_vars => []NoDuplicates
<1>1. IInv /\ GInv /\ [Next]_vars /\ [Sober]_vars => GInv'
  BY GInvStep DEF IInv
<1>2. GInv => NoDuplicates
  BY DEF GInv
<1> QED BY <1>1, <1>2, Implements, InitIInv, NextIInv, InitGInv, PTL
-----------------------------------------------------------------------------
Held == [p \in Peer |-> Referenced(p) \cup Current(p)]

AP == INSTANCE Alloc_proofs WITH Cache <- Peer, held <- Held

(* The instances speak of the same pools and of the same steps.            *)
LEMMA SamePools ==
  /\ \A s : A!Pool(s) = Pool(s) /\ AP!Pool(s) = Pool(s)
  /\ A!Buffer = Buffer /\ AP!Buffer = Buffer /\ A!Size = Size /\ AP!Size = Size
  /\ \A s : A!index_max(s) = index_max(s) /\ AP!index_max(s) = index_max(s)
  /\ \A b : AP!SizeOf(b) = A!SizeOf(b)
  /\ AP!InReach = A!InReach /\ AP!carved = A!carved
<1>1. /\ A!Buffer = Buffer /\ AP!Buffer = Buffer /\ A!Size = Size /\ AP!Size = Size
      /\ \A s : A!Pool(s) = Pool(s) /\ AP!Pool(s) = Pool(s)
      /\ \A s : A!index_max(s) = index_max(s) /\ AP!index_max(s) = index_max(s)
  BY DEF A!Buffer, AP!Buffer, Buffer, A!Pool, AP!Pool, Pool, A!Size, AP!Size, Size,
     A!index_max, AP!index_max, index_max
<1>2. \A b : AP!SizeOf(b) = A!SizeOf(b)
  BY DEF A!SizeOf, AP!SizeOf, A!Place, AP!Place, A!buf, AP!buf, A!alloc_max, AP!alloc_max
<1>3. AP!InReach = A!InReach
  BY DEF A!InReach, AP!InReach, A!buf, AP!buf
<1>4. AP!carved = A!carved
  BY <1>1 DEF A!carved, AP!carved
<1> QED BY <1>1, <1>2, <1>3, <1>4

LEMMA SameSteps ==
  ASSUME NEW c \in Peer
  PROVE  /\ A!Release(c) => AP!Release(c)
         /\ \A s \in Size : A!Acquire(c, s) => AP!Acquire(c, s)
<1>1. A!Runs => AP!Runs
  BY SamePools DEF A!Runs, AP!Runs
<1>2. ASSUME A!Release(c) PROVE AP!Release(c)
  BY <1>1, <1>2, SamePools DEF A!Release, AP!Release, A!dalloc, AP!dalloc, Held
<1>3. ASSUME NEW s \in Size, A!Acquire(c, s) PROVE AP!Acquire(c, s)
  BY <1>1, <1>3, SamePools DEF A!Acquire, AP!Acquire, A!alloc, AP!alloc,
     A!alloc_cache_line, AP!alloc_cache_line, A!pool_alloc, AP!pool_alloc, A!lists, AP!lists, Held
<1> QED BY <1>2, <1>3

LEMMA AllocApart == AP!Apart
<1>1. {NULL, Data} \cap Buffer = {} /\ NULL # Data /\ PoolsAssumption
  BY FastparseAssumption
<1> QED BY <1>1, SamePools DEF AP!Apart, AP!PoolsAssumption, PoolsAssumption

Refs(p, b) == {a \in Addr : adj_rib_in[p][a] = <<p, b>>}

(* What the code does not check: no message lists a prefix twice, or only  *)
(* prefixes that are too long.                                             *)
Disciplined == ~REPEATS /\ ~ORPHANS

Own(p) == ({p} \X Buf) \cup {NULL}

(* A peer has routes of its own only, and the message it is in has been    *)
(* announced for just what it has listed so far.                           *)
Messages ==
  /\ adj_rib_in \in [Peer -> [Addr -> Route \cup {NULL}]]
  /\ route \in [Peer -> Route \cup {NULL}]
  /\ part \in [Peer -> Part] /\ listed \in [Peer -> SUBSET Addr]
  /\ \A p \in Peer :
       /\ route[p] \in Own(p)
       /\ \A a \in Addr : adj_rib_in[p][a] \in Own(p)
       /\ part[p] = "nlri" =>
            route[p] # NULL /\ listed[p] = {a \in Addr : adj_rib_in[p][a] = route[p]}

(* A route has no more references than a message has prefixes.             *)
Countable ==
  \A p \in Peer, b \in Buf :
    IsFiniteSet(Refs(p, b)) /\ Cardinality(Refs(p, b)) <= MessageLen

BInv ==
  /\ use_count \in [Buf -> 0..(CountLimit - 1)]
  /\ Messages
  /\ Countable
  /\ CountsReferences
  /\ AP!IInv
-----------------------------------------------------------------------------
LEMMA Limit == /\ CountLimit \in Nat \ {0}
               /\ MessageLen \in Nat /\ MessageLen < CountLimit
<1>1. CountLimit \in Nat \ {0}
  BY DEF CountLimit
<1>2. MessageLen \in 1..(CountLimit - 1)
  BY FastparseAssumption
<1> QED BY <1>1, <1>2

LEMMA RefsFinite ==
  ASSUME NEW S, IsFiniteSet(S), Cardinality(S) <= MessageLen
  PROVE  /\ Cardinality(S) \in 0..(CountLimit - 1)
         /\ \A a : a \notin S => /\ IsFiniteSet(S \cup {a})
                                /\ Cardinality(S \cup {a}) = Cardinality(S) + 1
         /\ \A a : a \in S => /\ IsFiniteSet(S \ {a})
                             /\ Cardinality(S \ {a}) = Cardinality(S) - 1
         /\ Cardinality(S) = 0 <=> S = {}
<1>1. Cardinality(S) \in Nat
  BY FS_CardinalityType
<1>2. Cardinality(S) \in 0..(CountLimit - 1)
  BY <1>1, Limit
<1>3. ASSUME NEW a, a \notin S
      PROVE  IsFiniteSet(S \cup {a}) /\ Cardinality(S \cup {a}) = Cardinality(S) + 1
  BY <1>3, FS_AddElement, Zenon
<1>4. ASSUME NEW a, a \in S
      PROVE  IsFiniteSet(S \ {a}) /\ Cardinality(S \ {a}) = Cardinality(S) - 1
  BY <1>4, FS_RemoveElement, Zenon
<1>5. Cardinality(S) = 0 <=> S = {}
  BY FS_EmptySet, Zenon
<1> QED BY <1>2, <1>3, <1>4, <1>5

LEMMA Members ==
  ASSUME Messages, NEW p \in Peer
  PROVE  /\ \A b : b \in Referenced(p) <=> b \in Buf /\ Refs(p, b) # {}
         /\ Held[p] = Referenced(p) \cup Current(p)
         /\ Current(p) \subseteq Buf
         /\ part[p] # "nlri" => Current(p) = {}
         /\ part[p] = "nlri" => \E b \in Buf : route[p] = <<p, b>> /\ Current(p) = {b}
         /\ \A a \in Addr : adj_rib_in[p][a] # NULL =>
              \E b \in Buf : adj_rib_in[p][a] = <<p, b>> /\ b \in Held[p]
BY DEF Messages, Own, Referenced, Current, Refs, Held

LEMMA CountsAre ==
  ASSUME Messages
  PROVE  CountsReferences <=>
           \A p \in Peer : \A b \in Held[p] : use_count[b] = Cardinality(Refs(p, b))
BY DEF CountsReferences, Held, Refs

LEMMA SameHeld ==
  ASSUME UNCHANGED <<adj_rib_in, part, route>>
  PROVE  Held' = Held
BY DEF Held, Referenced, Current

(* The steps in which no peer's references change.                         *)
LEMMA Frame ==
  ASSUME BInv, UNCHANGED <<allocVars, use_count, adj_rib_in>>, Messages', Held' = Held
  PROVE  BInv' /\ UNCHANGED A!vars
<1>1. CountsReferences'
  <2>1. \A p \in Peer : \A b : Refs(p, b)' = Refs(p, b)
    BY DEF Refs
  <2>2. ASSUME NEW p \in Peer
        PROVE  (Referenced(p) \cup Current(p))' = Referenced(p) \cup Current(p)
    <3>1. Held'[p] = (Referenced(p) \cup Current(p))' /\ Held[p] = Referenced(p) \cup Current(p)
      BY DEF Held
    <3> QED BY <3>1
  <2>3. use_count' = use_count /\ CountsReferences
    BY DEF BInv
  <2> SUFFICES ASSUME NEW p \in Peer, NEW b \in (Referenced(p) \cup Current(p))'
               PROVE  use_count'[b] = Cardinality(Refs(p, b)')
    BY DEF CountsReferences, Refs
  <2>4. use_count[b] = Cardinality(Refs(p, b))
    BY <2>2, <2>3 DEF CountsReferences, Refs
  <2> QED BY <2>1, <2>3, <2>4
<1>2. AP!IInv'
  <2>1. exhausted' \in BOOLEAN
    BY DEF BInv, AP!IInv, AP!Types, allocVars
  <2> QED BY <2>1, AP!Idle DEF BInv, AP!lists, allocVars
<1>3. UNCHANGED A!vars
  BY DEF A!vars, A!lists, allocVars, Held
<1>4. Countable'
  BY DEF BInv, Countable, Refs
<1> QED BY <1>1, <1>2, <1>3, <1>4 DEF BInv

(* A count goes up and down by one where it cannot leave its width.        *)
LEMMA Wraps ==
  ASSUME NEW x \in Nat
  PROVE  /\ x >= 1 /\ x < CountLimit => (x + CountLimit - 1) % CountLimit = x - 1
         /\ x + 1 < CountLimit => (x + 1) % CountLimit = x + 1
BY DEF CountLimit

(* update_adj_rib_in() for one address: the old route loses a reference,   *)
(* the new one gains it, and a buffer that has lost its last is freed.     *)
LEMMA RecountStep ==
  ASSUME Disciplined, BInv, Messages',
         NEW p \in Peer, NEW a \in Addr, NEW new \in Own(p), new # adj_rib_in[p][a],
         IF new = NULL THEN part[p] # "nlri"
         ELSE part[p] = "nlri" /\ new = route[p] /\ Cardinality(listed[p]) < MessageLen,
         Recount(p, adj_rib_in[p][a], new),
         adj_rib_in' = [adj_rib_in EXCEPT ![p][a] = new],
         route' = route, \A q \in Peer \ {p} : part'[q] = part[q],
         part[p] # "nlri" => part'[p] # "nlri",
         A!Runs
  PROVE  BInv' /\ [A!Next]_A!vars
<1> DEFINE old == adj_rib_in[p][a]
<1>1. /\ Messages /\ Countable /\ CountsReferences /\ AP!IInv
      /\ use_count \in [Buf -> 0..(CountLimit - 1)]
  BY DEF BInv
<1>2. old = NULL \/ \E j \in Buf : old = <<p, j>>
  BY <1>1 DEF Messages, Own
<1>3. new = NULL \/ \E k \in Buf : new = <<p, k>> /\ Current(p) = {k}
  BY <1>1, Members
<1>4. NULL \notin Route
  BY LocribAssumption
<1>5. \A q \in Peer, b \in Buf : Refs(q, b)' =
        IF q = p /\ new = <<p, b>> THEN Refs(p, b) \cup {a}
        ELSE IF q = p /\ old = <<p, b>> THEN Refs(p, b) \ {a} ELSE Refs(q, b)
  <2> SUFFICES ASSUME NEW q \in Peer, NEW b \in Buf
               PROVE  Refs(q, b)' = IF q = p /\ new = <<p, b>> THEN Refs(p, b) \cup {a}
                                    ELSE IF q = p /\ old = <<p, b>> THEN Refs(p, b) \ {a}
                                    ELSE Refs(q, b)
    OBVIOUS
  <2>1. \A x \in Addr : adj_rib_in'[q][x] = (IF q = p /\ x = a THEN new ELSE adj_rib_in[q][x])
    BY <1>1 DEF Messages
  <2>2. CASE q # p
    BY <2>1, <2>2 DEF Refs
  <2>3. CASE q = p /\ new = <<p, b>>
    BY <2>1, <2>3 DEF Refs
  <2>4. CASE q = p /\ new # <<p, b>>
    <3>1. \A x : x \in Refs(p, b)' <=> x \in Refs(p, b) /\ x # a
      BY <2>1, <2>4 DEF Refs
    <3>2. CASE old = <<p, b>>
      BY <2>4, <3>1, <3>2
    <3>3. CASE old # <<p, b>>
      <4>1. a \notin Refs(p, b)
        BY <3>3 DEF Refs
      <4> QED BY <2>4, <3>1, <3>3, <4>1
    <3> QED BY <3>2, <3>3
  <2> QED BY <2>2, <2>3, <2>4
<1>6. \A q \in Peer \ {p} : Held'[q] = Held[q]
  <2> SUFFICES ASSUME NEW q \in Peer \ {p} PROVE Held'[q] = Held[q]
    OBVIOUS
  <2>1. adj_rib_in'[q] = adj_rib_in[q] /\ part'[q] = part[q] /\ route'[q] = route[q]
    BY <1>1 DEF Messages
  <2>2. Referenced(q)' = Referenced(q) /\ Current(q)' = Current(q)
    BY <2>1 DEF Referenced, Current
  <2> QED BY <2>2 DEF Held
<1>7. \A b \in Held[p] : b \in Buf /\ use_count[b] = Cardinality(Refs(p, b))
  BY <1>1, CountsAre, Members
<1>8. \A b \in Buf : old = <<p, b>> => b \in Held[p] /\ a \in Refs(p, b) /\ new # <<p, b>>
  <2>1. \A b \in Buf : old = <<p, b>> => a \in Refs(p, b)
    BY DEF Refs
  <2> QED BY <1>1, <2>1, Members
<1>9. \A b \in Buf : new = <<p, b>> => b \in Held[p] /\ a \notin Refs(p, b) /\ Current(p) = {b}
  <2> SUFFICES ASSUME NEW b \in Buf, new = <<p, b>>
               PROVE  b \in Held[p] /\ a \notin Refs(p, b) /\ Current(p) = {b}
    OBVIOUS
  <2>1. new # NULL
    BY <1>4 DEF Route
  <2>2. Current(p) = {b}
    BY <1>3, <2>1
  <2>3. b \in Held[p]
    BY <1>1, <2>2, Members
  <2> QED BY <2>2, <2>3 DEF Refs
<1>10. \A b \in Buf : new = <<p, b>> => Cardinality(Refs(p, b)) < MessageLen
  <2> SUFFICES ASSUME NEW b \in Buf, new = <<p, b>>
               PROVE  Cardinality(Refs(p, b)) < MessageLen
    OBVIOUS
  <2>1. new # NULL
    BY <1>4 DEF Route
  <2>2. part[p] = "nlri" /\ route[p] = <<p, b>> /\ Cardinality(listed[p]) < MessageLen
    BY <2>1
  <2>3. listed[p] = {x \in Addr : adj_rib_in[p][x] = route[p]}
    BY <1>1, <2>2 DEF Messages
  <2>4. listed[p] = Refs(p, b)
    BY <2>2, <2>3 DEF Refs
  <2> QED BY <2>2, <2>4
<1>11. \A b \in Buf : /\ old = <<p, b>> => use_count[b] \in 1..(CountLimit - 1)
                      /\ new = <<p, b>> => use_count[b] + 1 < CountLimit
  <2> SUFFICES ASSUME NEW b \in Buf
               PROVE  /\ old = <<p, b>> => use_count[b] \in 1..(CountLimit - 1)
                      /\ new = <<p, b>> => use_count[b] + 1 < CountLimit
    OBVIOUS
  <2>1. IsFiniteSet(Refs(p, b)) /\ Cardinality(Refs(p, b)) <= MessageLen
    BY <1>1 DEF Countable
  <2>2. /\ Cardinality(Refs(p, b)) \in 0..(CountLimit - 1)
        /\ Cardinality(Refs(p, b)) = 0 <=> Refs(p, b) = {}
    BY <2>1, RefsFinite
  <2>3. CASE old = <<p, b>>
    BY <1>7, <1>8, <2>2, <2>3
  <2>4. CASE new = <<p, b>>
    <3>1. use_count[b] = Cardinality(Refs(p, b)) /\ Cardinality(Refs(p, b)) < MessageLen
      BY <1>7, <1>9, <1>10, <2>4
    <3> QED BY <1>8, <2>2, <2>4, <3>1, Limit
  <2> QED BY <1>8, <2>3, <2>4
<1>12. /\ use_count' \in [Buf -> 0..(CountLimit - 1)]
       /\ \A b \in Buf : use_count'[b] = IF new = <<p, b>> THEN use_count[b] + 1
                                         ELSE IF old = <<p, b>> THEN use_count[b] - 1
                                         ELSE use_count[b]
       /\ IF old # NULL /\ use_count[old[2]] - 1 = 0 THEN A!dalloc(p, old[2])
          ELSE UNCHANGED allocVars
  <2> DEFINE down == IF old = NULL THEN use_count
                     ELSE [use_count EXCEPT ![old[2]] = (@ + CountLimit - 1) % CountLimit]
  <2>1. /\ use_count' = IF new = NULL THEN down
                        ELSE [down EXCEPT ![new[2]] = (@ + 1) % CountLimit]
        /\ IF old # NULL /\ down[old[2]] = 0 THEN A!dalloc(p, old[2]) ELSE UNCHANGED allocVars
    BY DEF Recount
  <2>2. /\ down \in [Buf -> 0..(CountLimit - 1)]
        /\ \A b \in Buf : down[b] = IF old = <<p, b>> THEN use_count[b] - 1 ELSE use_count[b]
    <3>1. CASE old = NULL
      <4>1. \A b \in Buf : old # <<p, b>>
        BY <1>4, <3>1 DEF Route
      <4> QED BY <1>1, <3>1, <4>1
    <3>2. ASSUME NEW j \in Buf, old = <<p, j>>
          PROVE  /\ down \in [Buf -> 0..(CountLimit - 1)]
                 /\ \A b \in Buf : down[b] = IF old = <<p, b>> THEN use_count[b] - 1 ELSE use_count[b]
      <4>1. old # NULL /\ old[2] = j
        BY <1>4, <3>2 DEF Route
      <4>2. (use_count[j] + CountLimit - 1) % CountLimit = use_count[j] - 1
        BY <1>11, <3>2, Wraps, Limit
      <4>3. down = [use_count EXCEPT ![j] = use_count[j] - 1]
        BY <4>1, <4>2
      <4>4. \A b \in Buf : old = <<p, b>> <=> b = j
        BY <3>2
      <4>5. use_count[j] - 1 \in 0..(CountLimit - 1)
        BY <1>11, <3>2, Limit
      <4> HIDE DEF down
      <4> QED BY <1>1, <4>3, <4>4, <4>5
    <3> QED BY <1>2, <3>1, <3>2
  <2> HIDE DEF down
  <2>3. /\ use_count' \in [Buf -> 0..(CountLimit - 1)]
        /\ \A b \in Buf : use_count'[b] = IF new = <<p, b>> THEN down[b] + 1 ELSE down[b]
    <3>1. CASE new = NULL
      <4>1. \A b \in Buf : new # <<p, b>>
        BY <1>4, <3>1 DEF Route
      <4> QED BY <2>1, <2>2, <3>1, <4>1
    <3>2. ASSUME NEW k \in Buf, new = <<p, k>>
          PROVE  /\ use_count' \in [Buf -> 0..(CountLimit - 1)]
                 /\ \A b \in Buf : use_count'[b] = IF new = <<p, b>> THEN down[b] + 1 ELSE down[b]
      <4>1. new # NULL /\ new[2] = k
        BY <1>4, <3>2 DEF Route
      <4>2. down[k] = use_count[k] /\ down[k] \in Nat /\ down[k] + 1 < CountLimit
        BY <1>8, <1>11, <2>2, <3>2
      <4>3. (down[k] + 1) % CountLimit = down[k] + 1
        BY <4>2, Wraps
      <4>4. use_count' = [down EXCEPT ![k] = down[k] + 1]
        BY <2>1, <4>1, <4>3
      <4>5. \A b \in Buf : new = <<p, b>> <=> b = k
        BY <3>2
      <4>6. down[k] + 1 \in 0..(CountLimit - 1)
        BY <4>2, Limit
      <4> QED BY <2>2, <4>4, <4>5, <4>6
    <3> QED BY <1>3, <3>1, <3>2
  <2>4. \A b \in Buf : old = <<p, b>> => new # <<p, b>>
    BY <1>8
  <2>5. old # NULL => old[2] \in Buf /\ old = <<p, old[2]>> /\ down[old[2]] = use_count[old[2]] - 1
    BY <1>2, <2>2
  <2> QED BY <2>1, <2>2, <2>3, <2>4, <2>5
<1>13. \A b \in Buf : old = <<p, b>> => (use_count[b] - 1 = 0 <=> Refs(p, b)' = {})
  <2> SUFFICES ASSUME NEW b \in Buf, old = <<p, b>>
               PROVE  use_count[b] - 1 = 0 <=> Refs(p, b)' = {}
    OBVIOUS
  <2>1. IsFiniteSet(Refs(p, b)) /\ Cardinality(Refs(p, b)) <= MessageLen
    BY <1>1 DEF Countable
  <2>2. /\ IsFiniteSet(Refs(p, b) \ {a})
        /\ Cardinality(Refs(p, b) \ {a}) = Cardinality(Refs(p, b)) - 1
        /\ Cardinality(Refs(p, b)) \in 0..(CountLimit - 1)
    BY <1>8, <2>1, RefsFinite
  <2>4. Cardinality(Refs(p, b) \ {a}) = 0 <=> Refs(p, b) \ {a} = {}
    BY <2>2, FS_EmptySet, Zenon
  <2>3. Refs(p, b)' = Refs(p, b) \ {a}
    BY <1>5, <1>8
  <2> QED BY <1>7, <1>8, <2>2, <2>3, <2>4
<1>14. \A b : b \in Held'[p] <=> b \in Held[p] /\ (old = <<p, b>> => Refs(p, b)' # {})
  <2>1. \A b : b \in Referenced(p)' <=> b \in Buf /\ Refs(p, b)' # {}
    BY DEF Referenced, Refs
  <2>2. \A b : b \in Current(p)' => b \in Buf /\ new = <<p, b>>
    <3>1. CASE new = NULL
      BY <3>1 DEF Current
    <3>2. CASE new # NULL
      BY <3>2 DEF Current
    <3> QED BY <3>1, <3>2
  <2>3. \A b \in Buf : new = <<p, b>> => Refs(p, b)' # {}
    BY <1>5
  <2>4. \A b : b \in Held'[p] <=> b \in Buf /\ Refs(p, b)' # {}
    BY <2>1, <2>2, <2>3 DEF Held
  <2>5. \A b : b \in Held[p] <=> b \in Buf /\ (Refs(p, b) # {} \/ b \in Current(p))
    BY <1>1, Members
  <2>6. \A b \in Buf : b \in Current(p) => new = <<p, b>>
    BY <1>3, <1>1, Members
  <2> SUFFICES ASSUME NEW b \in Buf
               PROVE  Refs(p, b)' # {} <=>
                        (Refs(p, b) # {} \/ b \in Current(p)) /\ (old = <<p, b>> => Refs(p, b)' # {})
    BY <2>4, <2>5
  <2>7. CASE new = <<p, b>>
    BY <1>8, <1>9, <2>3, <2>7
  <2>8. CASE old = <<p, b>>
    BY <1>8, <2>8
  <2>9. CASE new # <<p, b>> /\ old # <<p, b>>
    BY <1>5, <2>6, <2>9
  <2> QED BY <2>7, <2>8, <2>9
<1>15. CountsReferences'
  <2> SUFFICES ASSUME NEW q \in Peer, NEW b \in Held'[q]
               PROVE  use_count'[b] = Cardinality(Refs(q, b)')
    BY DEF CountsReferences, Held, Refs
  <2>1. b \in Held[q] /\ b \in Buf /\ use_count[b] = Cardinality(Refs(q, b))
    <3>1. b \in Held[q]
      BY <1>6, <1>14
    <3>2. b \in Buf
      BY <1>1, <3>1, Members
    <3> QED BY <1>1, <3>1, <3>2, CountsAre
  <2>2. CASE q # p
    <3>1. b \notin Held[p]
      BY <1>1, <2>1, <2>2 DEF AP!IInv, AP!OneHolder
    <3> QED BY <1>5, <1>8, <1>9, <1>12, <2>1, <2>2, <3>1
  <2>3. CASE q = p
    <3>1. IsFiniteSet(Refs(p, b)) /\ Cardinality(Refs(p, b)) <= MessageLen
      BY <1>1, <2>1 DEF Countable
    <3>2. /\ a \notin Refs(p, b) => Cardinality(Refs(p, b) \cup {a}) = Cardinality(Refs(p, b)) + 1
          /\ a \in Refs(p, b) => Cardinality(Refs(p, b) \ {a}) = Cardinality(Refs(p, b)) - 1
      BY <3>1, RefsFinite
    <3>3. CASE new = <<p, b>>
      BY <1>5, <1>9, <1>12, <2>1, <2>3, <3>2, <3>3
    <3>4. CASE old = <<p, b>>
      BY <1>5, <1>8, <1>12, <2>1, <2>3, <3>2, <3>4
    <3>5. CASE new # <<p, b>> /\ old # <<p, b>>
      BY <1>5, <1>12, <2>1, <2>3, <3>5
    <3> QED BY <3>3, <3>4, <3>5
  <2> QED BY <2>2, <2>3
<1>16. Countable'
  <2> SUFFICES ASSUME NEW q \in Peer, NEW b \in Buf
               PROVE  IsFiniteSet(Refs(q, b)') /\ Cardinality(Refs(q, b)') <= MessageLen
    BY DEF Countable
  <2>1. /\ IsFiniteSet(Refs(q, b)) /\ Cardinality(Refs(q, b)) <= MessageLen
        /\ Cardinality(Refs(q, b)) \in Nat
    BY <1>1, FS_CardinalityType DEF Countable
  <2>2. CASE q = p /\ new = <<p, b>>
    <3>1. /\ IsFiniteSet(Refs(p, b) \cup {a})
          /\ Cardinality(Refs(p, b) \cup {a}) = Cardinality(Refs(p, b)) + 1
      BY <1>9, <2>1, <2>2, RefsFinite
    <3>2. Refs(q, b)' = Refs(p, b) \cup {a}
      BY <1>5, <2>2
    <3>3. Cardinality(Refs(p, b)) < MessageLen
      BY <1>10, <2>2
    <3>4. Cardinality(Refs(p, b)) + 1 <= MessageLen
      BY <2>1, <2>2, <3>3, Limit
    <3> QED BY <3>1, <3>2, <3>4
  <2>3. CASE q = p /\ new # <<p, b>> /\ old = <<p, b>>
    <3>1. /\ IsFiniteSet(Refs(p, b) \ {a})
          /\ Cardinality(Refs(p, b) \ {a}) = Cardinality(Refs(p, b)) - 1
      BY <1>8, <2>1, <2>3, RefsFinite
    <3>2. Refs(q, b)' = Refs(p, b) \ {a}
      BY <1>5, <2>3
    <3>3. Cardinality(Refs(p, b)) - 1 <= MessageLen
      BY <2>1, <2>3, Limit
    <3> QED BY <3>1, <3>2, <3>3
  <2>4. CASE q # p \/ (new # <<p, b>> /\ old # <<p, b>>)
    BY <1>5, <2>1, <2>4
  <2> QED BY <2>2, <2>3, <2>4
<1>17. AP!Apart
  BY AllocApart
<1>18. CASE old # NULL /\ use_count[old[2]] - 1 = 0
  <2>1. PICK j \in Buf : old = <<p, j>> /\ old[2] = j
    BY <1>2, <1>18
  <2>2. A!dalloc(p, j) /\ j \in Held[p] /\ Refs(p, j)' = {}
    BY <1>8, <1>12, <1>13, <1>18, <2>1
  <2>3. \A b : old = <<p, b>> <=> b = j
    BY <2>1
  <2>4. Held'[p] = Held[p] \ {j}
    BY <1>14, <2>2, <2>3
  <2>5. Held' = [Held EXCEPT ![p] = @ \ {j}]
    BY <1>6, <2>4 DEF Held
  <2>6. A!Release(p) /\ AP!Release(p)
    BY <2>2, <2>5, SameSteps DEF A!Release, Held
  <2>7. AP!IInv'
    BY <1>1, <1>17, <2>6, AP!ReleaseStep
  <2> QED BY <1>12, <1>15, <1>16, <2>6, <2>7 DEF BInv, A!Next
<1>19. CASE ~(old # NULL /\ use_count[old[2]] - 1 = 0)
  <2>1. UNCHANGED allocVars
    BY <1>12, <1>19
  <2>2. \A b : old = <<p, b>> /\ b \in Held[p] => Refs(p, b)' # {}
    <3>1. \A b \in Buf : old = <<p, b>> => old # NULL /\ old[2] = b
      BY <1>4 DEF Route
    <3> QED BY <1>7, <1>13, <1>19, <3>1
  <2>3. Held'[p] = Held[p]
    BY <1>14, <2>2
  <2>4. Held' = Held
    BY <1>6, <2>3 DEF Held
  <2>5. AP!IInv'
    <3>1. exhausted' \in BOOLEAN
      BY <1>1, <2>1, <2>4 DEF AP!IInv, AP!Types, allocVars
    <3> QED BY <1>1, <2>1, <2>4, <3>1, AP!Idle DEF AP!lists, allocVars
  <2>6. UNCHANGED A!vars
    BY <2>1, <2>4 DEF A!vars, A!lists, allocVars, Held
  <2> QED BY <1>12, <1>15, <1>16, <2>5, <2>6 DEF BInv
<1> QED BY <1>18, <1>19
-----------------------------------------------------------------------------
LEMMA InitBInv == FullInit => BInv /\ A!Init
<1> SUFFICES ASSUME FullInit PROVE BInv /\ A!Init
  OBVIOUS
<1>1. Messages
  <2>1. /\ adj_rib_in = [p \in Peer |-> [a \in Addr |-> NULL]] /\ route = [p \in Peer |-> NULL]
        /\ part = [p \in Peer |-> "between"] /\ listed = [p \in Peer |-> {}]
    BY DEF FullInit, Init
  <2> QED BY <2>1 DEF Messages, Own, Part
<1>2. \A p \in Peer : Referenced(p) = {} /\ Current(p) = {}
  <2>1. NULL \notin Route
    BY LocribAssumption
  <2> QED BY <2>1 DEF FullInit, Init, Referenced, Current, Route
<1>3. Held = [p \in Peer |-> {}]
  BY <1>2 DEF Held
<1>4. A!Init
  <2>1. A!Buffer = Buf /\ A!Size = Size
    BY FastparseAssumption, SamePools
  <2>2. [p \in Peer |-> Referenced(p) \cup Current(p)] = [c \in Peer |-> {}]
    BY <1>3 DEF Held
  <2> QED BY <2>1, <2>2, Zenon DEF FullInit, A!Init
<1>5. AP!IInv
  <2>1. AP!Init
    BY <1>4, <1>3, SamePools DEF A!Init, AP!Init, Held
  <2> QED BY <2>1, AllocApart, AP!InitIInv
<1>6. CountsReferences /\ use_count \in [Buf -> 0..(CountLimit - 1)]
  BY <1>2, Limit DEF FullInit, CountsReferences
<1>7. Countable
  <2>1. \A p \in Peer, b \in Buf : Refs(p, b) = {}
    BY <1>2 DEF Refs, Referenced
  <2>2. IsFiniteSet({}) /\ Cardinality({}) = 0
    BY FS_EmptySet, Zenon
  <2> QED BY <2>1, <2>2, Limit DEF Countable
<1> QED BY <1>1, <1>4, <1>5, <1>6, <1>7 DEF BInv

LEMMA AfterFacts ==
  ASSUME Messages, NEW p \in Peer, NEW last \in BOOLEAN, After(p, last)
  PROVE  /\ part' \in [Peer -> Part]
         /\ \A q \in Peer \ {p} : part'[q] = part[q]
         /\ part'[p] = "nlri" => part[p] = "nlri"
         /\ ~last => part' = part
BY DEF After, Messages, Part

(* The steps that touch neither messages nor buffers.                      *)
LEMMA IdleStep ==
  ASSUME BInv, UNCHANGED <<allocVars, use_count, adj_rib_in, route, part, listed>>
  PROVE  BInv' /\ [A!Next]_A!vars
<1>1. Messages'
  BY DEF BInv, Messages
<1> QED BY <1>1, SameHeld, Frame

(* The steps of a message that neither begin its NLRI nor touch a buffer.  *)
LEMMA SkipStep ==
  ASSUME BInv, NEW p \in Peer,
         UNCHANGED <<allocVars, use_count, adj_rib_in, route>>,
         part' \in [Peer -> Part], listed' \in [Peer -> SUBSET Addr],
         \A q \in Peer \ {p} : part'[q] = part[q] /\ listed'[q] = listed[q],
         part'[p] = "nlri" => part[p] = "nlri" /\ listed'[p] = listed[p],
         part[p] = "nlri" /\ part'[p] # "nlri" => listed[p] # {}
  PROVE  BInv' /\ [A!Next]_A!vars
<1>1. Messages'
  BY DEF BInv, Messages
<1>2. \A q \in Peer : (Referenced(q) \cup Current(q))' = Referenced(q) \cup Current(q)
  <2> SUFFICES ASSUME NEW q \in Peer
               PROVE  (Referenced(q) \cup Current(q))' = Referenced(q) \cup Current(q)
    OBVIOUS
  <2>1. Referenced(q)' = Referenced(q)
    BY DEF Referenced
  <2>2. CASE part'[q] = "nlri" <=> part[q] = "nlri"
    <3>1. Current(q)' = Current(q)
      BY <2>2 DEF Current
    <3> QED BY <2>1, <3>1
  <2>3. CASE part[q] = "nlri" /\ part'[q] # "nlri"
    <3>1. q = p /\ listed[p] # {}
      BY <2>3
    <3>2. Current(q) \subseteq Referenced(q)
      BY <2>3, <3>1 DEF BInv, Messages, Current, Referenced
    <3>3. Current(q)' = {}
      BY <2>3 DEF Current
    <3> QED BY <2>1, <3>2, <3>3
  <2>4. part'[q] = "nlri" => part[q] = "nlri"
    OBVIOUS
  <2> QED BY <2>2, <2>3, <2>4
<1>3. Held' = Held
  BY <1>2 DEF Held
<1> QED BY <1>1, <1>3, Frame

(* A message begins with a buffer that is in nobody's hands.               *)
LEMMA BeginStep ==
  ASSUME BInv, NEW p \in Peer, BeginRoute(p)
  PROVE  BInv' /\ [A!Next]_A!vars
<1>1. PICK b \in Buf, s \in Size, v \in Tiebreak :
        /\ A!alloc(p, s, b) /\ BuildRoute(p, b, v)
        /\ use_count' = [use_count EXCEPT ![b] = 0]
  BY DEF BeginRoute
<1>2. Messages /\ CountsReferences /\ AP!IInv /\ use_count \in [Buf -> 0..(CountLimit - 1)]
  BY DEF BInv
<1>3. /\ part[p] = "between" /\ adj_rib_in' = adj_rib_in
      /\ route' = [route EXCEPT ![p] = <<p, b>>]
      /\ part' = [part EXCEPT ![p] = "nlri"] /\ listed' = [listed EXCEPT ![p] = {}]
  BY <1>1 DEF BeginRoute, BuildRoute, Enter
<1>4. \A q \in Peer : /\ Referenced(q)' = Referenced(q)
                      /\ Current(q)' = IF q = p THEN {b} ELSE Current(q)
  BY <1>2, <1>3 DEF Messages, Referenced, Current
<1>5. Current(p) = {}
  BY <1>3 DEF Current
<1>6. Held' = [Held EXCEPT ![p] = @ \cup {b}]
  BY <1>4, <1>5 DEF Held
<1>7. A!Acquire(p, s) /\ AP!Acquire(p, s)
  <2>1. b \in {free[p][s], <<s, index[s]>>}
    BY <1>1 DEF A!alloc, A!alloc_cache_line, A!pool_alloc
  <2>2. A!Acquire(p, s)
    BY <1>1, <1>6, <2>1 DEF A!Acquire, Held
  <2>3. AP!Acquire(p, s)
    BY <2>2, SameSteps
  <2> QED BY <2>2, <2>3
<1>8. AP!Apart /\ s \in AP!Size
  BY AllocApart, SamePools
<1>9. AP!IInv' /\ AP!BP!Give(p, s)
  BY <1>2, <1>7, <1>8, AP!AcquireStep
<1>10. \A q \in Peer : b \notin Held[q]
  <2>1. PICK d : /\ \A q \in Peer : d \notin Held[q]
                 /\ Held' = [Held EXCEPT ![p] = @ \cup {d}]
    BY <1>9 DEF AP!BP!Give, AP!BP!InHands, Held
  <2>2. Held[p] \cup {d} = Held[p] \cup {b}
    <3>1. Held'[p] = Held[p] \cup {d} /\ Held'[p] = Held[p] \cup {b}
      BY <1>6, <2>1 DEF Held
    <3> QED BY <3>1
  <2> QED BY <2>1, <2>2
<1>11. Refs(p, b) = {}
  BY <1>2, <1>10, Members
<1>12. Messages'
  <2>1. NULL \notin Route /\ <<p, b>> \in Route /\ <<p, b>> \in Own(p)
    BY LocribAssumption DEF Route, Own
  <2>2. \A a \in Addr : adj_rib_in[p][a] # <<p, b>>
    BY <1>11 DEF Refs
  <2> QED BY <1>2, <1>3, <2>1, <2>2 DEF Messages, Part
<1>13. CountsReferences'
  <2> SUFFICES ASSUME NEW q \in Peer, NEW x \in Held'[q]
               PROVE  use_count'[x] = Cardinality(Refs(q, x)')
    BY DEF CountsReferences, Held, Refs
  <2>1. Refs(q, x)' = Refs(q, x)
    BY <1>3 DEF Refs
  <2>2. CASE x = b
    <3>1. q = p
      BY <1>4, <1>10, <2>2 DEF Held
    <3>2. Cardinality(Refs(q, x)') = 0
      BY <1>11, <2>1, <2>2, <3>1, FS_EmptySet, Zenon
    <3>3. use_count'[x] = 0
      BY <1>1, <1>2, <2>2
    <3> QED BY <3>2, <3>3
  <2>3. CASE x # b
    <3>1. x \in Held[q]
      <4>1. Held'[q] = Held[q] \/ Held'[q] = Held[q] \cup {b}
        BY <1>6 DEF Held
      <4> QED BY <2>3, <4>1
    <3>2. x \in Buf /\ use_count[x] = Cardinality(Refs(q, x))
      BY <1>2, <3>1, CountsAre, Members
    <3> QED BY <1>1, <1>2, <2>1, <2>3, <3>2
  <2> QED BY <2>2, <2>3
<1>14. use_count' \in [Buf -> 0..(CountLimit - 1)]
  BY <1>1, <1>2, Limit
<1>15. Countable'
  BY <1>3 DEF BInv, Countable, Refs
<1> QED BY <1>7, <1>9, <1>12, <1>13, <1>14, <1>15, SamePools DEF BInv, A!Next

(* alloc() finds nothing: the program ends.                                *)
LEMMA ExhaustStep ==
  ASSUME BInv, NEW p \in Peer, NoBuffer(p), A!Runs
  PROVE  BInv' /\ [A!Next]_A!vars
<1>1. PICK s \in Size : free[p][s] = NULL /\ index[s] = index_max(s)
  BY DEF NoBuffer
<1>2. /\ exhausted' = TRUE
      /\ UNCHANGED <<index, free, free_count, link, use_count, adj_rib_in, route, part, listed>>
  BY DEF NoBuffer, vars, parserVars
<1>3. Messages' /\ Held' = Held
  BY <1>2, SameHeld DEF BInv, Messages
<1>4. A!Exhaust(p, s)
  BY <1>1, <1>2, <1>3, SamePools DEF A!Exhaust, A!lists, Held
<1>5. AP!IInv'
  BY <1>2, <1>3, AP!Idle DEF BInv, AP!lists
<1>6. Countable'
  BY <1>2 DEF BInv, Countable, Refs
<1>7. CountsReferences'
  <2>1. \A q \in Peer : Referenced(q)' = Referenced(q) /\ Current(q)' = Current(q)
    BY <1>2 DEF Referenced, Current
  <2> QED BY <1>2, <2>1 DEF BInv, CountsReferences
<1> QED BY <1>2, <1>3, <1>4, <1>5, <1>7, <1>6, SamePools DEF BInv, A!Next

(* A prefix is announced: the route had not listed it yet.                 *)
LEMMA NlriStep ==
  ASSUME Disciplined, BInv, A!Runs, NEW p \in Peer, NEW a \in Addr, NEW last \in BOOLEAN,
         Nlri(p, a, last)
  PROVE  BInv' /\ [A!Next]_A!vars
<1>1. Messages
  BY DEF BInv
<1>2. /\ part[p] = "nlri" /\ a \notin listed[p] /\ Cardinality(listed[p]) < MessageLen
      /\ adj_rib_in' = [adj_rib_in EXCEPT ![p][a] = route[p]] /\ route' = route
      /\ listed' = [listed EXCEPT ![p] = @ \cup {a}]
      /\ Recount(p, adj_rib_in[p][a], route[p]) /\ After(p, last)
  BY DEF Nlri, ParsePrefix, Disciplined
<1>3. /\ part' \in [Peer -> Part] /\ \A q \in Peer \ {p} : part'[q] = part[q]
  BY <1>1, <1>2, AfterFacts
<1>4. /\ route[p] \in Own(p) /\ route[p] # NULL
      /\ listed[p] = {x \in Addr : adj_rib_in[p][x] = route[p]}
  BY <1>1, <1>2 DEF Messages
<1>5. route[p] # adj_rib_in[p][a]
  BY <1>2, <1>4
<1>6. Messages'
  <2>1. /\ adj_rib_in' \in [Peer -> [Addr -> Route \cup {NULL}]]
        /\ listed' \in [Peer -> SUBSET Addr]
    BY <1>1, <1>2 DEF Messages
  <2> SUFFICES ASSUME NEW q \in Peer
               PROVE  /\ route'[q] \in Own(q)
                      /\ \A x \in Addr : adj_rib_in'[q][x] \in Own(q)
                      /\ part'[q] = "nlri" => /\ route'[q] # NULL
                           /\ listed'[q] = {x \in Addr : adj_rib_in'[q][x] = route'[q]}
    BY <1>1, <1>2, <1>3, <2>1 DEF Messages, Own
  <2>2. CASE q = p
    <3>1. \A x \in Addr : adj_rib_in'[p][x] = (IF x = a THEN route[p] ELSE adj_rib_in[p][x])
      BY <1>1, <1>2 DEF Messages
    <3>2. listed'[p] = listed[p] \cup {a}
      BY <1>1, <1>2 DEF Messages
    <3>3. \A x \in Addr : adj_rib_in[p][x] \in Own(p)
      BY <1>1 DEF Messages
    <3> QED BY <1>2, <1>4, <2>2, <3>1, <3>2, <3>3
  <2>3. CASE q # p
    <3>1. adj_rib_in'[q] = adj_rib_in[q] /\ listed'[q] = listed[q] /\ part'[q] = part[q]
      BY <1>1, <1>2, <1>3, <2>3 DEF Messages
    <3> QED BY <1>1, <1>2, <3>1 DEF Messages
  <2> QED BY <2>2, <2>3
<1> QED BY <1>2, <1>3, <1>4, <1>5, <1>6, RecountStep

(* A prefix is withdrawn.                                                  *)
LEMMA WithdrawStep ==
  ASSUME Disciplined, BInv, A!Runs, NEW p \in Peer, NEW a \in Addr, NEW last \in BOOLEAN,
         Withdraw(p, a, last)
  PROVE  BInv' /\ [A!Next]_A!vars
<1>1. Messages
  BY DEF BInv
<1>2. /\ part[p] # "nlri" /\ adj_rib_in[p][a] # NULL
      /\ adj_rib_in' = [adj_rib_in EXCEPT ![p][a] = NULL] /\ route' = route
      /\ Recount(p, adj_rib_in[p][a], NULL) /\ After(p, last) /\ listed' = listed
  BY DEF Withdraw, ParsePrefix
<1>3. /\ part' \in [Peer -> Part] /\ part'[p] # "nlri"
      /\ \A q \in Peer \ {p} : part'[q] = part[q]
  BY <1>1, <1>2, AfterFacts
<1>4. Messages'
  <2>1. adj_rib_in' \in [Peer -> [Addr -> Route \cup {NULL}]]
    BY <1>1, <1>2 DEF Messages
  <2>2. \A q \in Peer, x \in Addr :
          adj_rib_in'[q][x] = (IF q = p /\ x = a THEN NULL ELSE adj_rib_in[q][x])
    BY <1>1, <1>2 DEF Messages
  <2>3. \A q \in Peer \ {p} : adj_rib_in'[q] = adj_rib_in[q]
    BY <1>1, <1>2 DEF Messages
  <2> QED BY <1>1, <1>2, <1>3, <2>1, <2>2, <2>3 DEF Messages, Own
<1>5. NULL \in Own(p)
  BY DEF Own
<1> QED BY <1>2, <1>3, <1>4, <1>5, RecountStep

(* The other steps of a parser leave its routes as they are.               *)
LEMMA PassStep ==
  ASSUME Disciplined, BInv, NEW p \in Peer,
         \/ BeginBare(p) \/ EndOfRib(p)
         \/ \E last \in BOOLEAN : TooLong(p, last) \/ \E a \in Addr : WithdrawNothing(p, a, last)
  PROVE  BInv' /\ [A!Next]_A!vars
<1>1. Messages
  BY DEF BInv
<1>2. UNCHANGED <<allocVars, use_count, adj_rib_in, route>>
  BY DEF BeginBare, EndOfRib, TooLong, WithdrawNothing, Skip, messageVars
<1>3. CASE EndOfRib(p)
  BY <1>2, <1>3, IdleStep DEF EndOfRib, messageVars
<1>4. CASE BeginBare(p)
  <2>1. PICK to \in {"bare", "withdrawn"} : Enter(p, to)
    BY <1>4 DEF BeginBare
  <2>2. /\ part' \in [Peer -> Part] /\ listed' \in [Peer -> SUBSET Addr]
        /\ part[p] # "nlri" /\ part'[p] # "nlri"
        /\ \A q \in Peer \ {p} : part'[q] = part[q] /\ listed'[q] = listed[q]
    BY <1>1, <1>4, <2>1 DEF BeginBare, Enter, Messages, Part
  <2> QED BY <1>2, <2>2, SkipStep
<1>5. ASSUME NEW last \in BOOLEAN,
             TooLong(p, last) \/ \E a \in Addr : WithdrawNothing(p, a, last)
      PROVE  BInv' /\ [A!Next]_A!vars
  <2>1. /\ After(p, last) /\ listed' = listed
        /\ part[p] = "nlri" /\ last => listed[p] # {}
    BY <1>5 DEF TooLong, WithdrawNothing, Disciplined
  <2>2. /\ part' \in [Peer -> Part]
        /\ \A q \in Peer \ {p} : part'[q] = part[q]
        /\ part'[p] = "nlri" => part[p] = "nlri"
        /\ ~last => part' = part
    BY <1>1, <2>1, AfterFacts
  <2> QED BY <1>1, <1>2, <2>1, <2>2, SkipStep DEF Messages
<1> QED BY <1>3, <1>4, <1>5

LEMMA StepBInv == Disciplined /\ BInv /\ [FullNext]_fullVars => BInv' /\ [A!Next]_A!vars
<1> SUFFICES ASSUME Disciplined, BInv, [FullNext]_fullVars PROVE BInv' /\ [A!Next]_A!vars
  OBVIOUS
<1>1. ASSUME NEW p \in Peer, Parse(p), A!Runs PROVE BInv' /\ [A!Next]_A!vars
  BY <1>1, BeginStep, ExhaustStep, NlriStep, WithdrawStep, PassStep DEF Parse
<1>2. CASE Pipeline
  <2>1. UNCHANGED <<adj_rib_in, route>>
    BY <1>2 DEF Pipeline, Start, Finish, LocribStep, JournalPush, JoinAll, TryLock, Busy, Prime,
       PrimeRead, Collect, TableFull, Read, Unlock, parserVars
  <2> QED BY <1>2, <2>1, IdleStep DEF Pipeline, messageVars
<1>3. ASSUME NEW t \in Thread, Tell(t) PROVE BInv' /\ [A!Next]_A!vars
  <2>1. UNCHANGED <<adj_rib_in, route>>
    BY <1>3 DEF Tell, Emit, parserVars
  <2> QED BY <1>3, <2>1, IdleStep DEF Tell, messageVars
<1>4. CASE FullStop \/ UNCHANGED fullVars
  BY <1>4, IdleStep DEF FullStop, fullVars, vars, parserVars, messageVars
<1> QED BY <1>1, <1>2, <1>3, <1>4 DEF FullNext
-----------------------------------------------------------------------------
(* The count of a buffer in a peer's hands is the number of its references *)
(* in the peer's adj-RIB-in, whatever the threads and the messages.        *)
THEOREM CountsRight == ASSUME Disciplined PROVE FullSpec => []CountsReferences
<1>1. FullInit => BInv
  BY InitBInv
<1>2. BInv /\ [FullNext]_fullVars => BInv'
  BY StepBInv
<1>3. BInv => CountsReferences
  BY DEF BInv
<1> QED BY <1>1, <1>2, <1>3, PTL DEF FullSpec

(* So a buffer is freed once, by its holder, when nothing of his refers to *)
(* it any more.                                                            *)
THEOREM Uses == ASSUME Disciplined PROVE FullSpec => UsesAlloc
<1>1. FullInit => BInv /\ A!Init
  BY InitBInv
<1>2. BInv /\ [FullNext]_fullVars => BInv' /\ [A!Next]_A!vars
  BY StepBInv
<1> QED BY <1>1, <1>2, PTL DEF FullSpec, UsesAlloc, A!Spec

(* And the allocator keeps its promise to the parsers, until the first     *)
(* buffer that overlaps the other pool.                                    *)
THEOREM PoolKept == ASSUME Disciplined PROVE FullSpec => ImplementsPool
<1> DEFINE H == [p \in Peer |-> Referenced(p) \cup Current(p)]
           Mapped == [A!BP!Next]_<<H, ~A!InReach>>
<1>1. FullInit => BInv /\ A!BP!Init
  <2>1. ASSUME A!Init PROVE A!BP!Init
    <3>1. AP!Init
      BY <2>1, SamePools DEF A!Init, AP!Init, Held
    <3>2. AP!InReach
      BY <3>1, AllocApart, AP!Layout DEF AP!Init, AP!InReach, AP!Size
    <3> QED BY <2>1, <3>2, SamePools DEF A!Init, A!BP!Init
  <2> QED BY <2>1, InitBInv
<1>2. BInv /\ [FullNext]_fullVars => BInv' /\ [A!Next]_A!vars
  BY StepBInv
<1>3. /\ \A s : A!BP!Pool(s) = AP!BP!Pool(s)
      /\ \A b : A!BP!Octets(b) = AP!BP!Octets(b)
  BY DEF A!BP!Pool, AP!BP!Pool, A!BP!index_max, AP!BP!index_max, A!BP!Octets, AP!BP!Octets,
     A!BP!Place, AP!BP!Place, A!BP!alloc_max, AP!BP!alloc_max, A!BP!buf, AP!BP!buf
<1>4. ASSUME NEW c \in Peer, NEW s \in Size, BInv, A!Acquire(c, s) PROVE A!BP!Give(c, s)
  <2>1. AP!Acquire(c, s) /\ s \in AP!Size
    BY <1>4, SameSteps, SamePools
  <2>2. AP!BP!Give(c, s)
    BY <1>4, <2>1, AllocApart, AP!AcquireStep DEF BInv
  <2>3. AP!InReach = A!InReach /\ AP!InReach' = A!InReach'
    BY SamePools DEF A!InReach, AP!InReach, A!buf, AP!buf
  <2> QED BY <1>3, <2>2, <2>3 DEF AP!BP!Give, A!BP!Give, AP!BP!InHands, A!BP!InHands, Held
<1>5. ASSUME NEW c \in Peer, A!Release(c) PROVE A!BP!Take(c)
  <2>1. PICK b \in H[c] : A!dalloc(c, b) /\ H' = [H EXCEPT ![c] = @ \ {b}]
    BY <1>5 DEF A!Release
  <2>2. b \in H[c] \ H'[c]
    BY <2>1
  <2> QED BY <2>1, <2>2 DEF A!BP!Take, A!dalloc, A!Runs, A!InReach
<1>6. BInv /\ [A!Next]_A!vars => Mapped
  <2>1. ASSUME NEW c \in Peer, NEW s \in Size, A!Exhaust(c, s) PROVE UNCHANGED <<H, ~A!InReach>>
    BY <2>1 DEF A!Exhaust, A!InReach
  <2>2. UNCHANGED A!vars => UNCHANGED <<H, ~A!InReach>>
    BY DEF A!vars, A!InReach
  <2>3. A!BP!Size = Size /\ A!Size = Size
    BY DEF A!BP!Size, A!Size, Size
  <2> QED BY <1>4, <1>5, <2>1, <2>2, <2>3 DEF A!Next, A!BP!Next
<1>7. BInv /\ [A!Next]_A!vars =>
        [\A c \in Peer, s \in A!Size : A!Acquire(c, s) => A!BP!Give(c, s)]_A!vars
  BY <1>4, SamePools
<1> QED BY <1>1, <1>2, <1>6, <1>7, PTL DEF FullSpec, ImplementsPool, A!ImplementsPool, A!BP!Spec

(* The free lists of every peer end, are as long as free_count says and    *)
(* hold buffers carved from the pool of their size only, and no buffer is  *)
(* lost.                                                                   *)
THEOREM FreeLists == ASSUME Disciplined PROVE FullSpec => []ListsSound
<1>1. FullInit => BInv
  BY InitBInv
<1>2. BInv /\ [FullNext]_fullVars => BInv'
  BY StepBInv
<1>3. BInv => ListsSound
  <2> SUFFICES ASSUME BInv PROVE ListsSound
    OBVIOUS
  <2>1. AP!Apart /\ AP!IsFiniteSet(AP!Buffer)
    BY AllocApart, AP!Finite
  <2>2. AP!ListsSound /\ AP!Conserved
    BY <2>1, AP!Sound DEF BInv
  <2>3. /\ A!Buffer = AP!Buffer /\ A!Size = AP!Size /\ \A s : A!Pool(s) = AP!Pool(s)
        /\ A!carved = AP!carved
        /\ \A S : A!Cardinality(S) = AP!Cardinality(S)
    BY SamePools DEF A!Cardinality, AP!Cardinality
  <2>3a. \A c, s, n : A!Nth(c, s, n) = AP!Nth(c, s, n)
    BY <2>3 DEF A!Nth, AP!Nth
  <2>4. \A c, s : A!OnList(c, s) = AP!OnList(c, s)
    BY <2>3, <2>3a DEF A!OnList, AP!OnList
  <2>5. A!ListsSound
    BY <2>2, <2>3, <2>3a, <2>4 DEF A!ListsSound, AP!ListsSound
  <2>6. A!Conserved
    BY <2>2, <2>3, <2>4 DEF A!Conserved, AP!Conserved, Held
  <2> QED BY <2>5, <2>6 DEF ListsSound
<1> QED BY <1>1, <1>2, <1>3, PTL DEF FullSpec

(* What the peer groups have been told is a tiebreak, or nothing.          *)
LEMMA ToldType ==
  ASSUME TypeOK, Locals, told \in [Addr -> Tiebreak \cup {NULL}], [FullNext]_fullVars
  PROVE  told' \in [Addr -> Tiebreak \cup {NULL}]
<1>1. ASSUME NEW t \in Thread, Tell(t) PROVE told' \in [Addr -> Tiebreak \cup {NULL}]
  <2>1. route1[t] \in Route \cup {NULL} /\ tiebreak \in [Route -> Tiebreak]
    BY <1>1 DEF Tell, Emit, Locals, LocalsOf, At, TypeOK, LocribTypeOK
  <2> QED BY <1>1, <2>1 DEF Tell
<1>2. ASSUME NEW p \in Peer, Parse(p) PROVE told' = told
  BY <1>2 DEF Parse, BeginRoute, NoBuffer, BeginBare, EndOfRib, Nlri, Withdraw, WithdrawNothing,
     TooLong
<1>3. CASE Pipeline \/ FullStop \/ UNCHANGED fullVars
  BY <1>3 DEF Pipeline, FullStop, fullVars
<1> QED BY <1>1, <1>2, <1>3 DEF FullNext

(* Every variable of the pipeline keeps its type.                          *)
THEOREM FullTypeCorrect == ASSUME Disciplined PROVE FullSpec => []FullTypeOK
<1> DEFINE Told == told \in [Addr -> Tiebreak \cup {NULL}]
<1>1. FullInit => BInv /\ IInv /\ Told
  BY InitBInv, InitIInv DEF FullInit
<1>2. BInv /\ IInv /\ Told /\ [FullNext]_fullVars => BInv' /\ IInv' /\ Told'
  BY StepBInv, FullStep, NextIInv, ToldType DEF IInv
<1>3. BInv /\ IInv /\ Told => FullTypeOK
  <2> SUFFICES ASSUME BInv, IInv, Told PROVE FullTypeOK
    OBVIOUS
  <2>1. AP!TypeOK
    BY AP!CarvedIs DEF BInv, AP!IInv, AP!Types, AP!TypeOK
  <2>2. A!TypeOK
    BY <2>1, SamePools DEF A!TypeOK, AP!TypeOK, Held
  <2> QED BY <2>2 DEF FullTypeOK, BInv, IInv, Messages
<1> QED BY <1>1, <1>2, <1>3, PTL DEF FullSpec
=============================================================================
