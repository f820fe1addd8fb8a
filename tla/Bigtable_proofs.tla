--------------------------- MODULE Bigtable_proofs ---------------------------
(***************************************************************************)
(* Proofs about Bigtable, for any threads, prefixes and table size: an     *)
(* index never stands for two prefixes, is in range as soon as it is       *)
(* handed out, and resolves to its prefix once nobody is inserting.        *)
(***************************************************************************)
EXTENDS Bigtable, FunctionTheorems, FiniteSetTheorems, TLAPS

(* The part of lookup_RIB() under the lock.                                *)
Critical == {"load", "incr", "rib", "bigtable", "unlock"}

OneInserter ==
  /\ \A t, u \in Thread : pc[t] \in Critical /\ pc[u] \in Critical => t = u
  /\ \A t \in Thread : pc[t] \in Critical => spinlock_bt

(* x has been given index i: by RIB, by a thread that has just taken it    *)
(* from the count, or by one that has returned it.                         *)
Given(x, i) ==
  \/ <<x, i>> \in returned
  \/ RIB[x] = i /\ i # 0
  \/ \E t \in Thread : /\ pc[t] \in {"rib", "bigtable", "unlock", "return"}
                       /\ index[t] = x /\ btindex[t] = i

(* The index a thread has loaded is the next one until it stores the       *)
(* count, and below the count afterwards, as are all that were given.      *)
Distinct ==
  /\ \A t \in Thread : pc[t] = "incr" => btindex[t] = bigtable_index
  /\ \A x \in Prefix, i \in Nat : Given(x, i) => i < bigtable_index
  /\ \A x, y \in Prefix, i \in Nat : Given(x, i) /\ Given(y, i) => x = y

(* A given index resolves, unless the thread that took it has still to     *)
(* store its prefix.                                                       *)
Settling ==
  \A x \in Prefix, i \in Nat : Given(x, i) =>
    \/ bigtable[i] = x
    \/ \E t \in Thread : pc[t] \in {"rib", "bigtable"} /\ btindex[t] = i /\ index[t] = x

IInv == TypeOK /\ OneInserter /\ Distinct /\ Settling
-----------------------------------------------------------------------------
(* Nothing has been given to begin with.                                   *)
LEMMA InitIInv == Init => IInv
<1> SUFFICES ASSUME Init PROVE IInv
  OBVIOUS
<1>1. TypeOK
  <2>1. /\ RIB \in [Prefix -> Nat] /\ bigtable_index \in Nat
        /\ bigtable \in [0..(BIG - 1) -> Prefix \cup {Empty}]
    BY DEF Init, init_bigtable
  <2>2. pc \in [Thread -> PC] /\ spinlock_bt \in BOOLEAN
    BY DEF Init, init_bigtable, PC
  <2>3. calls \in [Thread -> 0..Calls]
    BY BigtableAssumption DEF Init
  <2> QED BY <2>1, <2>2, <2>3 DEF Init, TypeOK
<1>2. OneInserter
  BY DEF Init, OneInserter, Critical
<1>3. \A x \in Prefix, i \in Nat : ~Given(x, i)
  BY DEF Init, init_bigtable, Given
<1> QED BY <1>1, <1>2, <1>3 DEF IInv, Distinct, Settling, Init

(* Every step keeps every variable in its type.                            *)
LEMMA TypeStep ==
  ASSUME TypeOK, [Next]_vars
  PROVE  TypeOK'
<1> USE DEF TypeOK, Goto, PC, sharedVars
<1>1. ASSUME NEW t \in Thread, lookup_RIB(t)
      PROVE  TypeOK'
  <2>1. calls[t] + 1 \in 0..Calls
    BY <1>1, BigtableAssumption DEF lookup_RIB
  <2> QED BY <1>1, <2>1 DEF lookup_RIB
<1>2. ASSUME NEW t \in Thread, Test(t)
      PROVE  TypeOK'
  BY <1>2 DEF Test
<1>3. ASSUME NEW t \in Thread, Lock(t)
      PROVE  TypeOK'
  BY <1>3 DEF Lock
<1>4. ASSUME NEW t \in Thread, Load(t)
      PROVE  TypeOK'
  BY <1>4 DEF Load
<1>5. ASSUME NEW t \in Thread, Incr(t)
      PROVE  TypeOK'
  BY <1>5 DEF Incr
<1>6. ASSUME NEW t \in Thread, StoreRIB(t)
      PROVE  TypeOK'
  BY <1>6 DEF StoreRIB
<1>7. ASSUME NEW t \in Thread, StoreBigtable(t)
      PROVE  TypeOK'
  BY <1>7 DEF StoreBigtable
<1>8. ASSUME NEW t \in Thread, Unlock(t)
      PROVE  TypeOK'
  BY <1>8 DEF Unlock
<1>9. ASSUME NEW t \in Thread, Return(t)
      PROVE  TypeOK'
  BY <1>9 DEF Return
<1>10. CASE UNCHANGED vars
  BY <1>10 DEF vars
<1> QED
  BY <1>1, <1>2, <1>3, <1>4, <1>5, <1>6, <1>7, <1>8, <1>9, <1>10
     DEF Next, Step, Stop

(* spinlock_bt admits one thread at a time.                                *)
LEMMA OneInserterStep ==
  ASSUME TypeOK, OneInserter, [Next]_vars
  PROVE  OneInserter'
<1> USE DEF TypeOK, Goto, Critical, OneInserter, sharedVars
<1>1. ASSUME NEW t \in Thread, lookup_RIB(t)
      PROVE  OneInserter'
  BY <1>1 DEF lookup_RIB
<1>2. ASSUME NEW t \in Thread, Test(t)
      PROVE  OneInserter'
  BY <1>2 DEF Test
<1>3. ASSUME NEW t \in Thread, Lock(t)
      PROVE  OneInserter'
  BY <1>3 DEF Lock
<1>4. ASSUME NEW t \in Thread, Load(t)
      PROVE  OneInserter'
  BY <1>4 DEF Load
<1>5. ASSUME NEW t \in Thread, Incr(t)
      PROVE  OneInserter'
  BY <1>5 DEF Incr
<1>6. ASSUME NEW t \in Thread, StoreRIB(t)
      PROVE  OneInserter'
  BY <1>6 DEF StoreRIB
<1>7. ASSUME NEW t \in Thread, StoreBigtable(t)
      PROVE  OneInserter'
  BY <1>7 DEF StoreBigtable
<1>8. ASSUME NEW t \in Thread, Unlock(t)
      PROVE  OneInserter'
  BY <1>8 DEF Unlock
<1>9. ASSUME NEW t \in Thread, Return(t)
      PROVE  OneInserter'
  BY <1>9 DEF Return
<1>10. CASE UNCHANGED vars
  BY <1>10 DEF vars
<1> QED
  BY <1>1, <1>2, <1>3, <1>4, <1>5, <1>6, <1>7, <1>8, <1>9, <1>10
     DEF Next, Step, Stop

(* What a step may newly give.                                             *)
LEMMA DistinctStep ==
  ASSUME TypeOK, OneInserter, Distinct, [Next]_vars
  PROVE  Distinct'
<1>1. ASSUME NEW t \in Thread, lookup_RIB(t)
      PROVE  Distinct'
  <2>1. \A x \in Prefix, i \in Nat : Given(x, i)' => Given(x, i)
    BY <1>1 DEF lookup_RIB, Goto, TypeOK, Given, sharedVars
  <2>2. bigtable_index' = bigtable_index
    BY <1>1 DEF lookup_RIB, sharedVars
  <2>3. \A u \in Thread : pc'[u] = "incr" => pc[u] = "incr" /\ btindex'[u] = btindex[u]
    BY <1>1 DEF lookup_RIB, Goto, TypeOK
  <2> QED BY <2>1, <2>2, <2>3 DEF Distinct
<1>2. ASSUME NEW t \in Thread, Test(t)
      PROVE  Distinct'
  <2>1. \A x \in Prefix, i \in Nat : Given(x, i)' => Given(x, i)
    BY <1>2 DEF Test, Goto, TypeOK, Given, sharedVars
  <2>2. bigtable_index' = bigtable_index
    BY <1>2 DEF Test, sharedVars
  <2>3. \A u \in Thread : pc'[u] = "incr" => pc[u] = "incr" /\ btindex'[u] = btindex[u]
    BY <1>2 DEF Test, Goto, TypeOK
  <2> QED BY <2>1, <2>2, <2>3 DEF Distinct
<1>3. ASSUME NEW t \in Thread, Lock(t)
      PROVE  Distinct'
  <2>1. \A x \in Prefix, i \in Nat : Given(x, i)' => Given(x, i)
    BY <1>3 DEF Lock, Goto, TypeOK, Given, sharedVars
  <2>2. bigtable_index' = bigtable_index
    BY <1>3 DEF Lock, sharedVars
  <2>3. \A u \in Thread : pc'[u] = "incr" => pc[u] = "incr" /\ btindex'[u] = btindex[u]
    BY <1>3 DEF Lock, Goto, TypeOK
  <2> QED BY <2>1, <2>2, <2>3 DEF Distinct
<1>4. ASSUME NEW t \in Thread, Load(t)
      PROVE  Distinct'
  <2>1. \A x \in Prefix, i \in Nat : Given(x, i)' => Given(x, i)
    BY <1>4 DEF Load, Goto, TypeOK, Given, sharedVars
  <2>2. bigtable_index' = bigtable_index /\ btindex'[t] = bigtable_index
    BY <1>4 DEF Load, TypeOK, sharedVars
  <2>3. \A u \in Thread : pc'[u] = "incr" => u = t
    BY <1>4 DEF Load, Goto, TypeOK, OneInserter, Critical
  <2> QED BY <2>1, <2>2, <2>3 DEF Distinct
<1>5. ASSUME NEW t \in Thread, Incr(t)
      PROVE  Distinct'
  <2>1. /\ btindex[t] = bigtable_index /\ bigtable_index' = bigtable_index + 1
        /\ bigtable_index \in Nat /\ index[t] \in Prefix
    BY <1>5 DEF Incr, Goto, TypeOK, Distinct
  <2>2. \A x \in Prefix, i \in Nat :
          Given(x, i)' => Given(x, i) \/ (x = index[t] /\ i = bigtable_index)
    BY <1>5, <2>1 DEF Incr, Goto, TypeOK, Given
  <2>3. \A u \in Thread : pc'[u] # "incr"
    BY <1>5 DEF Incr, Goto, TypeOK, OneInserter, Critical
  <2>4. \A x \in Prefix, i \in Nat : Given(x, i)' => i < bigtable_index'
    BY <2>1, <2>2 DEF Distinct
  <2>5. \A x \in Prefix : ~Given(x, bigtable_index)
    BY <2>1 DEF Distinct
  <2>6. \A x, y \in Prefix, i \in Nat : Given(x, i)' /\ Given(y, i)' => x = y
    BY <2>2, <2>5 DEF Distinct
  <2> QED BY <2>3, <2>4, <2>6 DEF Distinct
<1>6. ASSUME NEW t \in Thread, StoreRIB(t)
      PROVE  Distinct'
  <2>1. \A x \in Prefix, i \in Nat : Given(x, i)' => Given(x, i)
    BY <1>6 DEF StoreRIB, Goto, TypeOK, Given, sharedVars
  <2>2. bigtable_index' = bigtable_index
    BY <1>6 DEF StoreRIB, sharedVars
  <2>3. \A u \in Thread : pc'[u] = "incr" => pc[u] = "incr" /\ btindex'[u] = btindex[u]
    BY <1>6 DEF StoreRIB, Goto, TypeOK
  <2> QED BY <2>1, <2>2, <2>3 DEF Distinct
<1>7. ASSUME NEW t \in Thread, StoreBigtable(t)
      PROVE  Distinct'
  <2>1. \A x \in Prefix, i \in Nat : Given(x, i)' => Given(x, i)
    BY <1>7 DEF StoreBigtable, Goto, TypeOK, Given, sharedVars
  <2>2. bigtable_index' = bigtable_index
    BY <1>7 DEF StoreBigtable, sharedVars
  <2>3. \A u \in Thread : pc'[u] = "incr" => pc[u] = "incr" /\ btindex'[u] = btindex[u]
    BY <1>7 DEF StoreBigtable, Goto, TypeOK
  <2> QED BY <2>1, <2>2, <2>3 DEF Distinct
<1>8. ASSUME NEW t \in Thread, Unlock(t)
      PROVE  Distinct'
  <2>1. \A x \in Prefix, i \in Nat : Given(x, i)' => Given(x, i)
    BY <1>8 DEF Unlock, Goto, TypeOK, Given, sharedVars
  <2>2. bigtable_index' = bigtable_index
    BY <1>8 DEF Unlock, sharedVars
  <2>3. \A u \in Thread : pc'[u] = "incr" => pc[u] = "incr" /\ btindex'[u] = btindex[u]
    BY <1>8 DEF Unlock, Goto, TypeOK
  <2> QED BY <2>1, <2>2, <2>3 DEF Distinct
<1>9. ASSUME NEW t \in Thread, Return(t)
      PROVE  Distinct'
  <2>1. \A x \in Prefix, i \in Nat : Given(x, i)' => Given(x, i)
    BY <1>9 DEF Return, Goto, TypeOK, Given, sharedVars
  <2>2. bigtable_index' = bigtable_index
    BY <1>9 DEF Return, sharedVars
  <2>3. \A u \in Thread : pc'[u] = "incr" => pc[u] = "incr" /\ btindex'[u] = btindex[u]
    BY <1>9 DEF Return, Goto, TypeOK
  <2> QED BY <2>1, <2>2, <2>3 DEF Distinct
<1>10. CASE UNCHANGED vars
  BY <1>10 DEF vars, sharedVars, Distinct, Given
<1> QED
  BY <1>1, <1>2, <1>3, <1>4, <1>5, <1>6, <1>7, <1>8, <1>9, <1>10
     DEF Next, Step, Stop

(* A prefix is stored before the lock is released, where its index says.   *)
LEMMA SettlingStep ==
  ASSUME TypeOK, OneInserter, Distinct, Settling, [Next]_vars
  PROVE  Settling'
<1>1. ASSUME NEW t \in Thread, lookup_RIB(t)
      PROVE  Settling'
  <2>1. \A x \in Prefix, i \in Nat : Given(x, i)' => Given(x, i)
    BY <1>1 DEF lookup_RIB, Goto, TypeOK, Given, sharedVars
  <2>2. bigtable' = bigtable
    BY <1>1 DEF lookup_RIB, sharedVars
  <2>3. \A u \in Thread : pc[u] \in {"rib", "bigtable"} =>
          /\ pc'[u] \in {"rib", "bigtable"}
          /\ btindex'[u] = btindex[u] /\ index'[u] = index[u]
    BY <1>1 DEF lookup_RIB, Goto, TypeOK
  <2> QED BY <2>1, <2>2, <2>3 DEF Settling
<1>2. ASSUME NEW t \in Thread, Test(t)
      PROVE  Settling'
  <2>1. \A x \in Prefix, i \in Nat : Given(x, i)' => Given(x, i)
    BY <1>2 DEF Test, Goto, TypeOK, Given, sharedVars
  <2>2. bigtable' = bigtable
    BY <1>2 DEF Test, sharedVars
  <2>3. \A u \in Thread : pc[u] \in {"rib", "bigtable"} =>
          /\ pc'[u] \in {"rib", "bigtable"}
          /\ btindex'[u] = btindex[u] /\ index'[u] = index[u]
    BY <1>2 DEF Test, Goto, TypeOK
  <2> QED BY <2>1, <2>2, <2>3 DEF Settling
<1>3. ASSUME NEW t \in Thread, Lock(t)
      PROVE  Settling'
  <2>1. \A x \in Prefix, i \in Nat : Given(x, i)' => Given(x, i)
    BY <1>3 DEF Lock, Goto, TypeOK, Given, sharedVars
  <2>2. bigtable' = bigtable
    BY <1>3 DEF Lock, sharedVars
  <2>3. \A u \in Thread : pc[u] \in {"rib", "bigtable"} =>
          /\ pc'[u] \in {"rib", "bigtable"}
          /\ btindex'[u] = btindex[u] /\ index'[u] = index[u]
    BY <1>3 DEF Lock, Goto, TypeOK
  <2> QED BY <2>1, <2>2, <2>3 DEF Settling
<1>4. ASSUME NEW t \in Thread, Load(t)
      PROVE  Settling'
  <2>1. \A x \in Prefix, i \in Nat : Given(x, i)' => Given(x, i)
    BY <1>4 DEF Load, Goto, TypeOK, Given, sharedVars
  <2>2. bigtable' = bigtable
    BY <1>4 DEF Load, sharedVars
  <2>3. \A u \in Thread : pc[u] \in {"rib", "bigtable"} =>
          /\ pc'[u] \in {"rib", "bigtable"}
          /\ btindex'[u] = btindex[u] /\ index'[u] = index[u]
    BY <1>4 DEF Load, Goto, TypeOK
  <2> QED BY <2>1, <2>2, <2>3 DEF Settling
<1>5. ASSUME NEW t \in Thread, Incr(t)
      PROVE  Settling'
  <2>1. \A x \in Prefix, i \in Nat :
          Given(x, i)' => Given(x, i) \/ (x = index[t] /\ i = btindex[t])
    BY <1>5 DEF Incr, Goto, TypeOK, Given
  <2>2. bigtable' = bigtable /\ btindex' = btindex /\ index' = index /\ pc'[t] = "rib"
    BY <1>5 DEF Incr, Goto, TypeOK
  <2>3. \A u \in Thread : pc[u] \in {"rib", "bigtable"} => pc'[u] = pc[u]
    BY <1>5 DEF Incr, Goto, TypeOK
  <2> QED BY <2>1, <2>2, <2>3 DEF Settling
<1>6. ASSUME NEW t \in Thread, StoreRIB(t)
      PROVE  Settling'
  <2>1. \A x \in Prefix, i \in Nat : Given(x, i)' => Given(x, i)
    BY <1>6 DEF StoreRIB, Goto, TypeOK, Given, sharedVars
  <2>2. bigtable' = bigtable
    BY <1>6 DEF StoreRIB, sharedVars
  <2>3. \A u \in Thread : pc[u] \in {"rib", "bigtable"} =>
          /\ pc'[u] \in {"rib", "bigtable"}
          /\ btindex'[u] = btindex[u] /\ index'[u] = index[u]
    BY <1>6 DEF StoreRIB, Goto, TypeOK
  <2> QED BY <2>1, <2>2, <2>3 DEF Settling
<1>7. ASSUME NEW t \in Thread, StoreBigtable(t)
      PROVE  Settling'
  <2>1. /\ pc[t] = "bigtable" /\ btindex[t] < BIG /\ btindex[t] \in 0..(BIG - 1)
        /\ index[t] \in Prefix
    BY <1>7, BigtableAssumption DEF StoreBigtable, Goto, OutOfBounds, TypeOK
  <2>2. \A x \in Prefix, i \in Nat : Given(x, i)' => Given(x, i)
    BY <1>7 DEF StoreBigtable, Goto, TypeOK, Given
  <2>3. Given(index[t], btindex[t])
    BY <2>1 DEF Given
  <2>4. \A u \in Thread : pc[u] \in {"rib", "bigtable"} => u = t
    BY <2>1 DEF OneInserter, Critical
  <2>5. bigtable' = [bigtable EXCEPT ![btindex[t]] = index[t]]
    BY <1>7 DEF StoreBigtable
  <2>6. ASSUME NEW x \in Prefix, NEW i \in Nat, Given(x, i)
        PROVE  bigtable'[i] = x
    <3>1. CASE i = btindex[t]
      <4>1. x = index[t]
        BY <2>1, <2>3, <2>6, <3>1 DEF Distinct
      <4> QED BY <2>1, <2>5, <3>1, <4>1 DEF TypeOK
    <3>2. CASE i # btindex[t]
      <4>1. bigtable[i] = x
        BY <2>4, <2>6, <3>2 DEF Settling
      <4> QED BY <2>5, <3>2, <4>1 DEF TypeOK
    <3> QED BY <3>1, <3>2
  <2> QED BY <2>2, <2>6 DEF Settling
<1>8. ASSUME NEW t \in Thread, Unlock(t)
      PROVE  Settling'
  <2>1. \A x \in Prefix, i \in Nat : Given(x, i)' => Given(x, i)
    BY <1>8 DEF Unlock, Goto, TypeOK, Given, sharedVars
  <2>2. bigtable' = bigtable
    BY <1>8 DEF Unlock, sharedVars
  <2>3. \A u \in Thread : pc[u] \in {"rib", "bigtable"} =>
          /\ pc'[u] \in {"rib", "bigtable"}
          /\ btindex'[u] = btindex[u] /\ index'[u] = index[u]
    BY <1>8 DEF Unlock, Goto, TypeOK
  <2> QED BY <2>1, <2>2, <2>3 DEF Settling
<1>9. ASSUME NEW t \in Thread, Return(t)
      PROVE  Settling'
  <2>1. \A x \in Prefix, i \in Nat : Given(x, i)' => Given(x, i)
    BY <1>9 DEF Return, Goto, TypeOK, Given, sharedVars
  <2>2. bigtable' = bigtable
    BY <1>9 DEF Return, sharedVars
  <2>3. \A u \in Thread : pc[u] \in {"rib", "bigtable"} =>
          /\ pc'[u] \in {"rib", "bigtable"}
          /\ btindex'[u] = btindex[u] /\ index'[u] = index[u]
    BY <1>9 DEF Return, Goto, TypeOK
  <2> QED BY <2>1, <2>2, <2>3 DEF Settling
<1>10. CASE UNCHANGED vars
  BY <1>10 DEF vars, sharedVars, Settling, Given
<1> QED
  BY <1>1, <1>2, <1>3, <1>4, <1>5, <1>6, <1>7, <1>8, <1>9, <1>10
     DEF Next, Step, Stop
-----------------------------------------------------------------------------
LEMMA NextIInv == IInv /\ [Next]_vars => IInv'
BY TypeStep, OneInserterStep, DistinctStep, SettlingStep DEF IInv

LEMMA IInvHolds == Spec => []IInv
BY InitIInv, NextIInv, PTL DEF Spec

(* Whatever was returned was given.                                        *)
LEMMA ReturnedGiven ==
  ASSUME TypeOK, NEW r \in returned
  PROVE  /\ r[1] \in Prefix /\ r[2] \in Nat /\ Given(r[1], r[2])
<1>1. r \in Prefix \X Nat
  BY DEF TypeOK
<1>2. r = <<r[1], r[2]>> /\ r[1] \in Prefix /\ r[2] \in Nat
  BY <1>1
<1> QED BY <1>2 DEF Given

(* Every variable keeps its type.                                          *)
THEOREM TypeCorrect == Spec => []TypeOK
BY IInvHolds, PTL DEF IInv

(* No two prefixes are ever given one index.                               *)
THEOREM Unshared == Spec => []NoSharedIndex
<1>1. IInv => NoSharedIndex
  BY ReturnedGiven DEF IInv, Distinct, NoSharedIndex
<1> QED BY <1>1, IInvHolds, PTL

(* The assertion of lookup_bigtable() holds of every index handed out.     *)
THEOREM InRange == Spec => []IndexInRange
<1>1. IInv => IndexInRange
  BY ReturnedGiven DEF IInv, Distinct, IndexInRange
<1> QED BY <1>1, IInvHolds, PTL

(* With nobody inserting, what was handed out for a prefix resolves to it. *)
THEOREM Settled == Spec => []ResolvesAtRest
<1>1. IInv => ResolvesAtRest
  BY ReturnedGiven DEF IInv, Settling, ResolvesAtRest, Resolves
<1> QED BY <1>1, IInvHolds, PTL
-----------------------------------------------------------------------------
(* The indices x has been given, 0 apart, and the threads that found none  *)
(* and have still to take one.                                             *)
Ids(x) == {i \in Nat \ {0} : Given(x, i)}
Racing(x) == {t \in Thread : index[t] = x /\ pc[t] \in {"lock", "load", "incr"}}

(* While a slot is 0, only a thread about to store there has taken an      *)
(* index for it, the last one counted.                                     *)
Unstored ==
  /\ \A t \in Thread : pc[t] = "rib" => bigtable_index = btindex[t] + 1
  /\ \A x \in Prefix : RIB[x] = 0 => \A i \in Ids(x) :
       \E t \in Thread : pc[t] = "rib" /\ index[t] = x /\ btindex[t] = i

(* Every index was taken by a thread, or will be.                          *)
Shares ==
  \A x \in Prefix : /\ IsFiniteSet(Ids(x))
                    /\ Cardinality(Ids(x)) + Cardinality(Racing(x)) <= Cardinality(Thread)

LEMMA UnstoredStep ==
  ASSUME TypeOK, OneInserter, Distinct, Unstored, [Next]_vars
  PROVE  Unstored'
<1>1. ASSUME NEW t \in Thread, lookup_RIB(t) \/ Test(t) \/ Lock(t) \/ Load(t)
      PROVE  Unstored'
  <2>1. \A x \in Prefix : Ids(x)' \subseteq Ids(x)
    BY <1>1 DEF lookup_RIB, Test, Lock, Load, Goto, TypeOK, Given, Ids, sharedVars
  <2>2. RIB' = RIB /\ bigtable_index' = bigtable_index
    BY <1>1 DEF lookup_RIB, Test, Lock, Load, sharedVars
  <2>3. \A u \in Thread : /\ pc'[u] = "rib" <=> pc[u] = "rib"
                          /\ pc[u] = "rib" => btindex'[u] = btindex[u] /\ index'[u] = index[u]
    BY <1>1 DEF lookup_RIB, Test, Lock, Load, Goto, TypeOK
  <2> QED BY <2>1, <2>2, <2>3 DEF Unstored
<1>2. ASSUME NEW t \in Thread, Incr(t)
      PROVE  Unstored'
  <2>1. /\ btindex' = btindex /\ index' = index /\ RIB' = RIB
        /\ bigtable_index' = btindex[t] + 1 /\ pc[t] = "incr" /\ pc'[t] = "rib"
        /\ \A u \in Thread \ {t} : pc'[u] = pc[u]
    BY <1>2 DEF Incr, Goto, TypeOK
  <2>2. \A u \in Thread : pc'[u] = "rib" => u = t
    BY <2>1 DEF OneInserter, Critical
  <2>3. \A u \in Thread : pc[u] # "rib"
    BY <2>1 DEF OneInserter, Critical
  <2>4. \A x \in Prefix : \A i \in Ids(x)' : i \in Ids(x) \/ (x = index[t] /\ i = btindex[t])
    BY <1>2 DEF Incr, Goto, TypeOK, Given, Ids
  <2>5. \A x \in Prefix : RIB[x] = 0 => Ids(x) = {}
    BY <2>3 DEF Unstored
  <2> QED BY <2>1, <2>2, <2>4, <2>5 DEF Unstored
<1>3. ASSUME NEW t \in Thread, StoreRIB(t)
      PROVE  Unstored'
  <2>1. /\ pc[t] = "rib" /\ btindex' = btindex /\ index' = index
        /\ \A u \in Thread : pc'[u] # "rib"
        /\ index[t] \in Prefix /\ btindex[t] \in Nat
        /\ \A x \in Prefix : RIB'[x] = IF x = index[t] THEN btindex[t] ELSE RIB[x]
    BY <1>3 DEF StoreRIB, Goto, TypeOK, OneInserter, Critical
  <2>2. \A x \in Prefix : Ids(x)' \subseteq Ids(x)
    BY <1>3 DEF StoreRIB, Goto, TypeOK, Given, Ids, sharedVars
  <2>3. \A u \in Thread : pc[u] = "rib" => u = t
    BY <2>1 DEF OneInserter, Critical
  <2>4. ASSUME NEW x \in Prefix, RIB'[x] = 0
        PROVE  Ids(x) = {}
    <3>1. CASE x = index[t]
      <4>1. btindex[t] = 0 /\ bigtable_index = 1
        BY <2>1, <2>4, <3>1 DEF Unstored
      <4>2. \A i \in Ids(x) : i \in Nat \ {0} /\ i < 1
        BY <4>1 DEF Ids, Distinct
      <4> QED BY <4>2
    <3>2. CASE x # index[t]
      BY <2>1, <2>3, <2>4, <3>2 DEF Unstored
    <3> QED BY <3>1, <3>2
  <2> QED BY <2>1, <2>2, <2>4 DEF Unstored
<1>4. ASSUME NEW t \in Thread, StoreBigtable(t) \/ Unlock(t) \/ Return(t)
      PROVE  Unstored'
  <2>1. \A x \in Prefix : Ids(x)' \subseteq Ids(x)
    BY <1>4 DEF StoreBigtable, Unlock, Return, Goto, TypeOK, Given, Ids, sharedVars
  <2>2. /\ RIB' = RIB /\ bigtable_index' = bigtable_index
        /\ btindex' = btindex /\ index' = index
    BY <1>4 DEF StoreBigtable, Unlock, Return, sharedVars
  <2>3. \A u \in Thread : pc'[u] = "rib" <=> pc[u] = "rib"
    BY <1>4 DEF StoreBigtable, Unlock, Return, Goto, TypeOK
  <2> QED BY <2>1, <2>2, <2>3 DEF Unstored
<1>5. CASE UNCHANGED vars
  BY <1>5 DEF vars, sharedVars, Unstored, Ids, Given
<1> QED
  BY <1>1, <1>2, <1>3, <1>4, <1>5 DEF Next, Step, Stop

LEMMA SharesStep ==
  ASSUME IsFiniteSet(Thread), TypeOK, OneInserter, Unstored, Shares, [Next]_vars
  PROVE  Shares'
<1>1. /\ Cardinality(Thread) \in Nat
      /\ \A S \in SUBSET Thread :
           /\ IsFiniteSet(S) /\ Cardinality(S) \in Nat /\ Cardinality(S) <= Cardinality(Thread)
           /\ \A t \in Thread : /\ t \notin S => Cardinality(S \cup {t}) = Cardinality(S) + 1
                               /\ t \in S => Cardinality(S \ {t}) = Cardinality(S) - 1
  BY FS_CardinalityType, FS_Subset, FS_AddElement, FS_RemoveElement
<1>2. \A x : Racing(x) \in SUBSET Thread /\ Racing(x)' \in SUBSET Thread
  BY DEF Racing
<1>3. \A x \in Prefix : /\ IsFiniteSet(Ids(x)) /\ Cardinality(Ids(x)) \in Nat
                        /\ Cardinality(Ids(x)) + Cardinality(Racing(x)) <= Cardinality(Thread)
  BY FS_CardinalityType DEF Shares
<1>4. ASSUME NEW x \in Prefix, Ids(x)' \subseteq Ids(x)
      PROVE  /\ IsFiniteSet(Ids(x)') /\ Cardinality(Ids(x)') \in Nat
             /\ Cardinality(Ids(x)') <= Cardinality(Ids(x))
  BY <1>3, <1>4, FS_Subset, FS_CardinalityType
<1>5. ASSUME NEW t \in Thread,
             \/ lookup_RIB(t) \/ Lock(t) \/ Load(t)
             \/ StoreRIB(t) \/ StoreBigtable(t) \/ Unlock(t) \/ Return(t)
      PROVE  Shares'
  <2>1. \A x \in Prefix : Ids(x)' \subseteq Ids(x)
    BY <1>5 DEF lookup_RIB, Lock, Load, StoreRIB, StoreBigtable, Unlock, Return, Goto, TypeOK,
       Given, Ids, sharedVars
  <2>2. \A x \in Prefix : Racing(x)' = Racing(x)
    BY <1>5 DEF lookup_RIB, Lock, Load, StoreRIB, StoreBigtable, Unlock, Return, Goto, TypeOK, Racing
  <2> SUFFICES ASSUME NEW x \in Prefix
               PROVE  /\ IsFiniteSet(Ids(x)')
                      /\ Cardinality(Ids(x)') + Cardinality(Racing(x)') <= Cardinality(Thread)
    BY DEF Shares
  <2> QED BY <1>1, <1>2, <1>3, <1>4, <2>1, <2>2
<1>6. ASSUME NEW t \in Thread, Test(t)
      PROVE  Shares'
  <2> SUFFICES ASSUME NEW x \in Prefix
               PROVE  /\ IsFiniteSet(Ids(x)')
                      /\ Cardinality(Ids(x)') + Cardinality(Racing(x)') <= Cardinality(Thread)
    BY DEF Shares
  <2>1. Ids(x)' \subseteq Ids(x)
    BY <1>6 DEF Test, Goto, TypeOK, Given, Ids, sharedVars
  <2>2. CASE x # index[t] \/ RIB[x] # 0
    <3>1. Racing(x)' = Racing(x)
      BY <1>6, <2>2 DEF Test, Goto, TypeOK, Racing
    <3> QED BY <1>1, <1>2, <1>3, <1>4, <2>1, <3>1
  <2>3. CASE x = index[t] /\ RIB[x] = 0
    <3>1. Racing(x)' = Racing(x) \cup {t} /\ t \notin Racing(x) /\ pc[t] = "test"
      BY <1>6, <2>3 DEF Test, Goto, TypeOK, Racing
    <3>2. Cardinality(Racing(x)') \in Nat /\ Cardinality(Racing(x)') <= Cardinality(Thread)
      BY <1>1, <1>2
    <3>3. CASE Ids(x) = {}
      <4>1. Ids(x)' = {} /\ IsFiniteSet({}) /\ Cardinality({}) = 0
        BY <2>1, <3>3, FS_EmptySet, Zenon
      <4> QED BY <1>1, <3>2, <4>1
    <3>4. CASE Ids(x) # {}
      <4>1. PICK u \in Thread : pc[u] = "rib" /\ Ids(x) = {btindex[u]}
        <5>1. PICK i \in Ids(x) : TRUE
          BY <3>4
        <5>2. PICK u \in Thread : pc[u] = "rib" /\ index[u] = x /\ btindex[u] = i
          BY <2>3, <5>1 DEF Unstored
        <5>3. \A j \in Ids(x) : j = btindex[u]
          BY <2>3, <5>2 DEF Unstored, OneInserter, Critical
        <5> QED BY <5>1, <5>2, <5>3
      <4>2. u \notin Racing(x)'
        BY <1>6, <4>1, <3>1 DEF Racing
      <4>3. Cardinality(Racing(x)' \cup {u}) = Cardinality(Racing(x)') + 1
        BY <1>1, <1>2, <4>2
      <4>4. Cardinality(Racing(x)' \cup {u}) <= Cardinality(Thread)
        BY <1>1, <1>2
      <4>5. Cardinality(Ids(x)) = 1
        BY <4>1, FS_Singleton
      <4> QED BY <1>1, <1>4, <2>1, <3>2, <4>3, <4>4, <4>5
    <3> QED BY <3>3, <3>4
  <2> QED BY <2>2, <2>3
<1>7. ASSUME NEW t \in Thread, Incr(t)
      PROVE  Shares'
  <2> SUFFICES ASSUME NEW x \in Prefix
               PROVE  /\ IsFiniteSet(Ids(x)')
                      /\ Cardinality(Ids(x)') + Cardinality(Racing(x)') <= Cardinality(Thread)
    BY DEF Shares
  <2>1. \A i \in Ids(x)' : i \in Ids(x) \/ (x = index[t] /\ i = btindex[t])
    BY <1>7 DEF Incr, Goto, TypeOK, Given, Ids
  <2>2. CASE x # index[t]
    <3>1. Racing(x)' = Racing(x)
      BY <1>7, <2>2 DEF Incr, Goto, TypeOK, Racing
    <3> QED BY <1>1, <1>2, <1>3, <1>4, <2>1, <2>2, <3>1
  <2>3. CASE x = index[t]
    <3>1. Racing(x)' = Racing(x) \ {t} /\ t \in Racing(x)
      BY <1>7, <2>3 DEF Incr, Goto, TypeOK, Racing
    <3>2. Cardinality(Racing(x)') = Cardinality(Racing(x)) - 1 /\ Cardinality(Racing(x)) \in Nat
      BY <1>1, <1>2, <3>1
    <3> DEFINE T == Ids(x) \cup {btindex[t]}
    <3>3. IsFiniteSet(T) /\ Cardinality(T) \in Nat /\ Cardinality(T) <= Cardinality(Ids(x)) + 1
      <4>1. /\ IsFiniteSet(T)
            /\ Cardinality(T) = IF btindex[t] \in Ids(x) THEN Cardinality(Ids(x))
                                ELSE Cardinality(Ids(x)) + 1
        BY <1>3, FS_AddElement, Zenon
      <4> HIDE DEF T
      <4> QED BY <1>3, <4>1
    <3>4. Ids(x)' \in SUBSET T
      BY <2>1
    <3> HIDE DEF T
    <3>5. /\ IsFiniteSet(Ids(x)') /\ Cardinality(Ids(x)') \in Nat
          /\ Cardinality(Ids(x)') <= Cardinality(T)
      BY <3>3, <3>4, FS_Subset, FS_CardinalityType
    <3> QED BY <1>1, <1>3, <3>2, <3>3, <3>5
  <2> QED BY <2>2, <2>3
<1>8. CASE UNCHANGED vars
  BY <1>8 DEF vars, sharedVars, Shares, Ids, Given, Racing
<1> QED
  BY <1>5, <1>6, <1>7, <1>8 DEF Next, Step, Stop

LEMMA InitShares ==
  ASSUME IsFiniteSet(Thread), Init
  PROVE  Unstored /\ Shares
<1>1. \A x \in Prefix : Ids(x) = {}
  BY DEF Init, init_bigtable, Given, Ids
<1>2. \A x \in Prefix : Racing(x) = {}
  BY DEF Init, Racing
<1>3. IsFiniteSet({}) /\ Cardinality({}) = 0 /\ Cardinality(Thread) \in Nat
  BY FS_EmptySet, FS_CardinalityType
<1>4. Shares
  BY <1>1, <1>2, <1>3 DEF Shares
<1>5. \A t \in Thread : pc[t] # "rib"
  BY DEF Init
<1> QED BY <1>1, <1>4, <1>5 DEF Unstored

(* What was returned for a prefix are indices it was given.                *)
LEMMA SharesBound ==
  ASSUME IsFiniteSet(Thread), TypeOK, Shares
  PROVE  AnIndexPerThread
<1> SUFFICES ASSUME NEW x \in Prefix
             PROVE  Cardinality({r \in returned : r[1] = x /\ r[2] # 0}) <= Cardinality(Thread)
  BY DEF AnIndexPerThread
<1> DEFINE R == {r \in returned : r[1] = x /\ r[2] # 0}
           f == [r \in R |-> r[2]]
<1>1. \A r \in R : r = <<x, r[2]>> /\ r[2] \in Ids(x)
  BY ReturnedGiven DEF TypeOK, Ids
<1>2. f \in Injection(R, Ids(x))
  <2>1. f \in [R -> Ids(x)]
    BY <1>1
  <2>2. \A r, s \in R : f[r] = f[s] => r = s
    BY <1>1
  <2> QED BY <2>1, <2>2, Fun_IsInj
<1>3. IsFiniteSet(Ids(x)) /\ Cardinality(Ids(x)) \in Nat
  BY FS_CardinalityType DEF Shares
<1>4. Cardinality(R) <= Cardinality(Ids(x)) /\ IsFiniteSet(R)
  BY <1>2, <1>3, FS_Injection, Zenon
<1>5. Cardinality(R) \in Nat /\ Cardinality(Thread) \in Nat
  BY <1>4, FS_CardinalityType
<1>6. Racing(x) \in SUBSET Thread
  BY DEF Racing
<1>7. Cardinality(Racing(x)) \in Nat
  BY <1>6, FS_Subset, FS_CardinalityType
<1>8. Cardinality(Ids(x)) <= Cardinality(Thread)
  BY <1>3, <1>5, <1>7 DEF Shares
<1> QED BY <1>3, <1>4, <1>5, <1>8

(* However the race on an empty slot goes, a prefix has no more indices    *)
(* than there are threads, index 0 apart.                                  *)
THEOREM FewIndices == ASSUME IsFiniteSet(Thread) PROVE Spec => []AnIndexPerThread
<1>1. Init => Unstored /\ Shares
  BY InitShares
<1>2. IInv /\ Unstored /\ Shares /\ [Next]_vars => (Unstored /\ Shares)'
  BY UnstoredStep, SharesStep DEF IInv
<1>3. IInv /\ Shares => AnIndexPerThread
  BY SharesBound DEF IInv
<1> QED BY <1>1, <1>2, <1>3, IInvHolds, PTL DEF Spec
=============================================================================
