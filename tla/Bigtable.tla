------------------------------ MODULE Bigtable ------------------------------
(***************************************************************************)
(* bigtable.c: RIB maps an encoded prefix to an index, bigtable maps the   *)
(* index back.  Any thread may look a prefix up; one that is not there is  *)
(* given the next index under spinlock_bt.  What is tested before the lock *)
(* is not tested again under it, and each store to shared memory is a step *)
(* of its own.                                                             *)
(***************************************************************************)
EXTENDS Naturals, FiniteSets

CONSTANTS
  Thread,    \* the peer threads
  Prefix,    \* the encoded prefixes
  Empty,     \* what calloc() leaves in bigtable; no prefix is encoded so
  BIG,       \* entries of bigtable
  Calls      \* bound: lookups in one thread

ASSUME BigtableAssumption ==
  /\ Empty \notin Prefix
  /\ BIG \in Nat \ {0}
  /\ Calls \in Nat

VARIABLES
  RIB, bigtable, bigtable_index, spinlock_bt,
  pc,         \* where each thread is in lookup_RIB()
  index,      \* the encoded prefix each thread looks up
  btindex,    \* lookup_RIB(): the local of that name
  calls,      \* lookups each thread has begun
  returned    \* the (prefix, index) pairs lookup_RIB() has returned

sharedVars == <<RIB, bigtable, bigtable_index, spinlock_bt>>
vars == <<sharedVars, pc, index, btindex, calls, returned>>

PC == {"idle", "test", "lock", "load", "incr", "rib", "bigtable", "unlock", "return"}

init_bigtable ==
  /\ RIB = [x \in Prefix |-> 0]
  /\ bigtable = [i \in 0..(BIG - 1) |-> Empty]
  /\ bigtable_index = 0
  /\ spinlock_bt = FALSE

Init ==
  /\ init_bigtable
  /\ pc = [t \in Thread |-> "idle"]
  /\ index \in [Thread -> Prefix]
  /\ btindex = [t \in Thread |-> 0]
  /\ calls = [t \in Thread |-> 0]
  /\ returned = {}

(* A store past the end of bigtable leaves the program without a state to  *)
(* speak of: nothing follows it.                                           *)
OutOfBounds == \E t \in Thread : pc[t] = "bigtable" /\ btindex[t] >= BIG

Goto(t, from, to) ==
  /\ ~OutOfBounds
  /\ pc[t] = from
  /\ pc' = [pc EXCEPT ![t] = to]

(* lookup_RIB64() of a prefix that is not too long.                        *)
lookup_RIB(t) ==
  /\ calls[t] < Calls
  /\ Goto(t, "idle", "test")
  /\ calls' = [calls EXCEPT ![t] = @ + 1]
  /\ \E x \in Prefix : index' = [index EXCEPT ![t] = x]
  /\ UNCHANGED <<sharedVars, btindex, returned>>

(* btindex = RIB[index]; if (0 == btindex) ...                             *)
Test(t) ==
  /\ btindex' = [btindex EXCEPT ![t] = RIB[index[t]]]
  /\ Goto(t, "test", IF RIB[index[t]] = 0 THEN "lock" ELSE "return")
  /\ UNCHANGED <<sharedVars, index, calls, returned>>

(* A plausible slip: the lock taken without waiting for its holder.        *)
LockIgnoresHolder(t) ==
  /\ Goto(t, "lock", "load")
  /\ spinlock_bt' = TRUE
  /\ UNCHANGED <<RIB, bigtable, bigtable_index, index, btindex, calls, returned>>

Lock(t) ==
  /\ ~spinlock_bt
  /\ Goto(t, "lock", "load")
  /\ spinlock_bt' = TRUE
  /\ UNCHANGED <<RIB, bigtable, bigtable_index, index, btindex, calls, returned>>

(* btindex = bigtable_index++ is a load and a store.                       *)
Load(t) ==
  /\ Goto(t, "load", "incr")
  /\ btindex' = [btindex EXCEPT ![t] = bigtable_index]
  /\ UNCHANGED <<sharedVars, index, calls, returned>>

(* A plausible slip: the count left alone while the table has room.        *)
IncrWhenFull(t) ==
  /\ Goto(t, "incr", "rib")
  /\ bigtable_index' = IF btindex[t] + 1 < BIG THEN btindex[t] ELSE btindex[t] + 1
  /\ UNCHANGED <<RIB, bigtable, spinlock_bt, index, btindex, calls, returned>>

Incr(t) ==
  /\ Goto(t, "incr", "rib")
  /\ bigtable_index' = btindex[t] + 1
  /\ UNCHANGED <<RIB, bigtable, spinlock_bt, index, btindex, calls, returned>>

(* A plausible slip: the slot given the count instead of the local.        *)
StoreRIBCount(t) ==
  /\ Goto(t, "rib", "bigtable")
  /\ RIB' = [RIB EXCEPT ![index[t]] = bigtable_index]
  /\ UNCHANGED <<bigtable, bigtable_index, spinlock_bt, index, btindex, calls, returned>>

(* RIB[index] = btindex                                                    *)
StoreRIB(t) ==
  /\ Goto(t, "rib", "bigtable")
  /\ RIB' = [RIB EXCEPT ![index[t]] = btindex[t]]
  /\ UNCHANGED <<bigtable, bigtable_index, spinlock_bt, index, btindex, calls, returned>>

(* A plausible slip: the entry stored one place off.                       *)
StoreBigtableNext(t) ==
  /\ Goto(t, "bigtable", "unlock")
  /\ bigtable' = [i \in DOMAIN bigtable |-> IF i = btindex[t] + 1 THEN index[t] ELSE bigtable[i]]
  /\ UNCHANGED <<RIB, bigtable_index, spinlock_bt, index, btindex, calls, returned>>

(* A plausible slip: the index stored for the prefix.                      *)
StoreBigtableIndex(t) ==
  /\ Goto(t, "bigtable", "unlock")
  /\ bigtable' = [bigtable EXCEPT ![btindex[t]] = btindex[t]]
  /\ UNCHANGED <<RIB, bigtable_index, spinlock_bt, index, btindex, calls, returned>>

(* bigtable[btindex] = index                                               *)
StoreBigtable(t) ==
  /\ Goto(t, "bigtable", "unlock")
  /\ bigtable' = [bigtable EXCEPT ![btindex[t]] = index[t]]
  /\ UNCHANGED <<RIB, bigtable_index, spinlock_bt, index, btindex, calls, returned>>

Unlock(t) ==
  /\ Goto(t, "unlock", "return")
  /\ spinlock_bt' = FALSE
  /\ UNCHANGED <<RIB, bigtable, bigtable_index, index, btindex, calls, returned>>

Return(t) ==
  /\ Goto(t, "return", "idle")
  /\ returned' = returned \cup {<<index[t], btindex[t]>>}
  /\ UNCHANGED <<sharedVars, index, btindex, calls>>

Step(t) ==
  \/ lookup_RIB(t) \/ Test(t) \/ Lock(t) \/ Load(t) \/ Incr(t)
  \/ StoreRIB(t) \/ StoreBigtable(t) \/ Unlock(t) \/ Return(t)

(* The input is used up, or the table has overflowed.                      *)
Stop ==
  /\ OutOfBounds \/ \A t \in Thread : pc[t] = "idle" /\ calls[t] = Calls
  /\ UNCHANGED vars

Next == (\E t \in Thread : Step(t)) \/ Stop

Spec == Init /\ [][Next]_vars
-----------------------------------------------------------------------------
(* Every variable keeps its type.                                          *)
TypeOK ==
  /\ RIB \in [Prefix -> Nat]
  /\ bigtable \in [0..(BIG - 1) -> Prefix \cup {Empty}]
  /\ bigtable_index \in Nat
  /\ spinlock_bt \in BOOLEAN
  /\ pc \in [Thread -> PC]
  /\ index \in [Thread -> Prefix]
  /\ btindex \in [Thread -> Nat]
  /\ calls \in [Thread -> 0..Calls]
  /\ returned \subseteq Prefix \X Nat

(* Two prefixes never share an index, whatever the threads do: an address  *)
(* reference names one prefix.                                             *)
NoSharedIndex ==
  \A x, y \in returned : x[2] = y[2] => x[1] = y[1]

(* assert(index < bigtable_index) of lookup_bigtable() holds of every      *)
(* index handed out, at once and for ever.                                 *)
IndexInRange == \A x \in returned : x[2] < bigtable_index

(* What lookup_bigtable() reads for an index handed out is the prefix it   *)
(* was handed out for: "we must protect both the cursor and the slot       *)
(* content after cursor is acquired".                                      *)
Resolves == \A x \in returned : bigtable[x[2]] = x[1]

(* At the latest it is so when nobody is inserting.                        *)
ResolvesAtRest == (\A t \in Thread : pc[t] = "idle") => Resolves

(* "map every prefix of /24 and smaller in a table": a prefix has one      *)
(* index, so that all routes for it meet in one entry of LOCRIB.           *)
OneIndex == \A x, y \in returned : x[1] = y[1] => x[2] = y[2]

(* What the race on an empty slot can do at worst: a prefix has no more    *)
(* indices than there are threads to lose it (index 0 apart), and one only *)
(* where lookups do not overlap.                                           *)
AnIndexPerThread ==
  \A x \in Prefix :
    Cardinality({r \in returned : r[1] = x /\ r[2] # 0}) <= Cardinality(Thread)
=============================================================================
