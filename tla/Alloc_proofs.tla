---------------------------- MODULE Alloc_proofs ----------------------------
(***************************************************************************)
(* The allocator keeps its promise as far as the pools do not overlap, for *)
(* any number of caches and buffers: Alloc implements BufferPool.  And its *)
(* free lists are sound: each ends, is as long as its cache counts, and    *)
(* holds buffers of its own size, and every buffer handed out is in        *)
(* somebody's hands or on a list.                                          *)
(***************************************************************************)
EXTENDS Alloc, FiniteSetTheorems, SequenceTheorems, TLAPS

(* No pointer looks like NULL.  Of the layout nothing is assumed but that  *)
(* its numbers are positive.                                               *)
Apart ==
  /\ PoolsAssumption
  /\ NULL \notin Buffer /\ Data \notin Buffer \cup {NULL}

(* The buffers that were carved from a pool and have been freed.           *)
Freed == carved \ UNION {held[c] : c \in Cache}

Types ==
  /\ index \in [Size -> Nat] /\ \A s \in Size : index[s] \in 0..index_max(s)
  /\ free \in [Cache -> [Size -> Buffer \cup {NULL}]]
  /\ free_count \in [Cache -> [Size -> Nat]]
  /\ link \in [Buffer -> Buffer \cup {NULL, Data}]
  /\ exhausted \in BOOLEAN
  /\ held \in [Cache -> SUBSET carved]

(* A buffer in use has one holder.                                         *)
OneHolder == \A c, d \in Cache : \A b \in held[c] : b \in held[d] => c = d

(* A list's head has been freed, is of the list's size, and is no other's. *)
Heads ==
  \A c \in Cache, s \in Size : free[c][s] # NULL =>
    /\ free[c][s] \in Freed \cap Pool(s)
    /\ \A d \in Cache, z \in Size : free[d][z] = free[c][s] => d = c /\ z = s

(* The first word of a freed buffer leads to one of its size that no other *)
(* leads to, and to no head, or it is the end.                             *)
Links ==
  \A b \in Freed : link[b] # NULL =>
    /\ link[b] \in Freed /\ link[b][1] = b[1]
    /\ \A x \in Freed : link[x] = link[b] => x = b
    /\ \A c \in Cache, s \in Size : free[c][s] # link[b]

(* q is the list of n different members of S that begins at h.             *)
IsList(lk, S, h, n, q) ==
  /\ q \in [1..n -> S]
  /\ \A i, j \in 1..n : q[i] = q[j] => i = j
  /\ h = IF n = 0 THEN NULL ELSE q[1]
  /\ \A i \in 1..n : lk[q[i]] = IF i = n THEN NULL ELSE q[i + 1]

List(c, s, q) == IsList(link, Freed \cap Pool(s), free[c][s], free_count[c][s], q)

(* Every free list ends where its count says.                              *)
Chains == \A c \in Cache, s \in Size : \E q : List(c, s, q)

(* Every freed buffer is on one.                                           *)
Covered ==
  \A b \in Freed :
    \E c \in Cache, s \in Size : \E q : List(c, s, q) /\ \E i \in 1..free_count[c][s] : q[i] = b

IInv == Types /\ OneHolder /\ Heads /\ Links /\ Chains /\ Covered
-----------------------------------------------------------------------------
(* Every set of natural numbers has a least: a least counterexample serves *)
(* for induction.                                                          *)
LEMMA Least ==
  ASSUME NEW T, T \subseteq Nat, T # {}
  PROVE  \E x \in T : \A y \in T : x <= y
<1> DEFINE R == OpToRel(<, Nat)
<1>1. R = {ss \in Nat \X Nat : ss[1] < ss[2]}
  BY Zenon DEF OpToRel
<1>2. IsWellFoundedOn(R, Nat)
  BY NatLessThanWellFounded, Zenon
<1> HIDE DEF R
<1>3. PICK x \in T : \A y \in T : ~(<<y, x>> \in R)
  BY <1>2, WFMin
<1>4. ASSUME NEW y \in T PROVE x <= y
  <2>1. ~(y < x)
    BY <1>1, <1>3
  <2> QED BY <2>1
<1> QED BY <1>4

(* Without its head, a list is one shorter.                                *)
Shorter(n, q) == [i \in 1..(n - 1) |-> q[i + 1]]
Same(lk, ln, S) == \A x \in S : ln[x] = lk[x]
Popped(lk, S, h, n, q, ln) ==
  /\ n # 0 /\ h = q[1] /\ h \in S
  /\ IsList(ln, S \ {h}, lk[h], n - 1, Shorter(n, q))
LEMMA Pop ==
  ASSUME NEW lk, NEW S, NEW h, NEW n \in Nat, NEW q, IsList(lk, S, h, n, q), h # NULL,
         NEW ln, Same(lk, ln, S \ {h})
  PROVE  Popped(lk, S, h, n, q, ln)
<1> USE DEF IsList, Popped, Same
<1>1. n # 0 /\ h = q[1] /\ 1 \in 1..n /\ h \in S
  OBVIOUS
<1> DEFINE r == Shorter(n, q)
<1>2. \A i \in 1..(n - 1) : /\ r[i] = q[i + 1] /\ i \in 1..n /\ i + 1 \in 1..n
                            /\ q[i + 1] \in S /\ q[i + 1] # h
  <2> SUFFICES ASSUME NEW i \in 1..(n - 1)
               PROVE  /\ r[i] = q[i + 1] /\ i \in 1..n /\ i + 1 \in 1..n
                      /\ q[i + 1] \in S /\ q[i + 1] # h
    OBVIOUS
  <2>1. i \in 1..n /\ i + 1 \in 1..n /\ i + 1 # 1
    BY <1>1
  <2> QED BY <1>1, <2>1 DEF Shorter
<1>3. r \in [1..(n - 1) -> S \ {h}]
  <2>1. r = [i \in 1..(n - 1) |-> r[i]]
    BY DEF Shorter
  <2>2. \A i \in 1..(n - 1) : r[i] \in S \ {h}
    BY <1>2, Zenon
  <2> HIDE DEF r
  <2> QED BY <2>1, <2>2, Zenon
<1> HIDE DEF r
<1>4. \A i, j \in 1..(n - 1) : r[i] = r[j] => i = j
  <2> SUFFICES ASSUME NEW i \in 1..(n - 1), NEW j \in 1..(n - 1), r[i] = r[j] PROVE i = j
    OBVIOUS
  <2>1. i + 1 = j + 1
    BY <1>2
  <2> QED BY <2>1
<1>5. lk[h] = IF n - 1 = 0 THEN NULL ELSE r[1]
  <2>1. lk[h] = IF 1 = n THEN NULL ELSE q[2]
    BY <1>1
  <2>2. CASE n = 1
    BY <2>1, <2>2
  <2>3. CASE n # 1
    <3>1. 1 \in 1..(n - 1)
      BY <1>1, <2>3
    <3>2. r[1] = q[2]
      BY <1>2, <3>1
    <3> QED BY <2>1, <2>3, <3>2
  <2> QED BY <2>2, <2>3
<1>6. \A i \in 1..(n - 1) : ln[r[i]] = IF i = n - 1 THEN NULL ELSE r[i + 1]
  <2> SUFFICES ASSUME NEW i \in 1..(n - 1)
               PROVE  ln[r[i]] = IF i = n - 1 THEN NULL ELSE r[i + 1]
    OBVIOUS
  <2>1. ln[r[i]] = lk[q[i + 1]] /\ lk[q[i + 1]] = IF i + 1 = n THEN NULL ELSE q[i + 1 + 1]
    BY <1>2
  <2>2. CASE i = n - 1
    BY <2>1, <2>2
  <2>3. CASE i # n - 1
    <3>1. i + 1 \in 1..(n - 1)
      BY <2>3
    <3>2. r[i + 1] = q[i + 1 + 1]
      BY <1>2, <3>1
    <3> QED BY <2>1, <2>3, <3>2
  <2> QED BY <2>2, <2>3
<1> QED BY <1>1, <1>3, <1>4, <1>5, <1>6 DEF r

(* With a new head, one longer.                                            *)
Longer(b, n, q) == [i \in 1..(n + 1) |-> IF i = 1 THEN b ELSE q[i - 1]]
LEMMA Push ==
  ASSUME NEW lk, NEW S, NEW h, NEW n \in Nat, NEW q, IsList(lk, S, h, n, q),
         NEW b, b \notin S, NEW ln, h = ln[b], Same(lk, ln, S)
  PROVE  IsList(ln, S \cup {b}, b, n + 1, Longer(b, n, q))
<1> USE DEF IsList, Same
<1> DEFINE r == Longer(b, n, q)
<1>1. 1 \in 1..(n + 1) /\ r[1] = b
  BY DEF Longer
<1>2. \A i \in 2..(n + 1) : r[i] = q[i - 1] /\ i - 1 \in 1..n /\ q[i - 1] \in S
  BY DEF Longer
<1>3. \A i \in 1..(n + 1) : i = 1 \/ i \in 2..(n + 1)
  OBVIOUS
<1>4. r \in [1..(n + 1) -> S \cup {b}]
  <2>1. r = [i \in 1..(n + 1) |-> r[i]]
    BY DEF Longer
  <2>2. \A i \in 1..(n + 1) : r[i] \in S \cup {b}
    BY <1>1, <1>2, <1>3, Zenon
  <2> HIDE DEF r
  <2> QED BY <2>1, <2>2, Zenon
<1> HIDE DEF r
<1>5. \A i, j \in 1..(n + 1) : r[i] = r[j] => i = j
  <2> SUFFICES ASSUME NEW i \in 1..(n + 1), NEW j \in 1..(n + 1), r[i] = r[j] PROVE i = j
    OBVIOUS
  <2>1. CASE i \in 2..(n + 1) /\ j \in 2..(n + 1)
    <3>1. i - 1 = j - 1
      BY <1>2, <2>1
    <3> QED BY <3>1
  <2>2. CASE i = 1 /\ j \in 2..(n + 1)
    BY <1>1, <1>2, <2>2
  <2>3. CASE j = 1 /\ i \in 2..(n + 1)
    BY <1>1, <1>2, <2>3
  <2> QED BY <1>3, <2>1, <2>2, <2>3
<1>6. \A i \in 1..(n + 1) : ln[r[i]] = IF i = n + 1 THEN NULL ELSE r[i + 1]
  <2> SUFFICES ASSUME NEW i \in 1..(n + 1)
               PROVE  ln[r[i]] = IF i = n + 1 THEN NULL ELSE r[i + 1]
    OBVIOUS
  <2>1. i # n + 1 => i + 1 \in 2..(n + 1) /\ r[i + 1] = q[i]
    <3>1. i # n + 1 => i + 1 \in 2..(n + 1) /\ i + 1 - 1 = i
      OBVIOUS
    <3> QED BY <1>2, <3>1
  <2>2. CASE i = 1
    <3>1. ln[r[i]] = IF n = 0 THEN NULL ELSE q[1]
      BY <1>1, <2>2
    <3> QED BY <2>1, <2>2, <3>1
  <2>3. CASE i \in 2..(n + 1)
    <3>1. ln[r[i]] = lk[q[i - 1]] /\ i - 1 \in 1..n
      BY <1>2, <2>3
    <3>2. lk[q[i - 1]] = IF i - 1 = n THEN NULL ELSE q[i - 1 + 1]
      BY <3>1
    <3> QED BY <2>1, <2>3, <3>1, <3>2
  <2> QED BY <1>3, <2>2, <2>3
<1>7. b = IF n + 1 = 0 THEN NULL ELSE r[1]
  BY <1>1
<1> QED BY <1>4, <1>5, <1>6, <1>7 DEF r

(* What does not touch the list leaves it as it is.                        *)
Kept(lk, ln, T, n, q) == \A i \in 1..n : q[i] \in T /\ ln[q[i]] = lk[q[i]]
LEMMA Keep ==
  ASSUME NEW lk, NEW S, NEW h, NEW n, NEW q, IsList(lk, S, h, n, q),
         NEW ln, NEW T, Kept(lk, ln, T, n, q)
  PROVE  IsList(ln, T, h, n, q)
<1>1. \A i \in 1..n : q[i] \in T /\ ln[q[i]] = lk[q[i]]
  BY DEF Kept
<1>2. q \in [1..n -> T]
  <2>1. q = [i \in 1..n |-> q[i]]
    BY DEF IsList
  <2> QED BY <1>1, <2>1, Zenon
<1> QED BY <1>1, <1>2 DEF IsList

(* Following the links from the head goes through the list and to its end. *)
Followed(lk, h, k, f) ==
  f = [i \in 0..k |-> IF i = 0 THEN h ELSE IF f[i - 1] \in Buffer THEN lk[f[i - 1]] ELSE NULL]
At(n, q, i) == IF i < n THEN q[i + 1] ELSE NULL
Following(lk, h, k) == (CHOOSE f : Followed(lk, h, k, f))[k]
LEMMA Follow ==
  ASSUME NEW lk, NEW S, S \subseteq Buffer, NULL \notin Buffer, NEW h, NEW n \in Nat,
         NEW q, IsList(lk, S, h, n, q), NEW k \in Nat
  PROVE  Following(lk, h, k) = At(n, q, k)
<1>1. ASSUME NEW i \in Nat
      PROVE  At(n, q, i + 1) = IF At(n, q, i) \in Buffer THEN lk[At(n, q, i)] ELSE NULL
  <2>1. CASE i < n
    <3>1. i + 1 \in 1..n /\ At(n, q, i) = q[i + 1] /\ q[i + 1] \in Buffer
      BY <2>1 DEF IsList, At
    <3>2. lk[q[i + 1]] = IF i + 1 = n THEN NULL ELSE q[i + 1 + 1]
      BY <3>1 DEF IsList
    <3>3. At(n, q, i + 1) = IF i + 1 = n THEN NULL ELSE q[i + 1 + 1]
      BY <2>1 DEF At
    <3> QED BY <3>1, <3>2, <3>3
  <2>2. CASE ~(i < n)
    BY <2>2 DEF At
  <2> QED BY <2>1, <2>2
<1>2. At(n, q, 0) = h
  BY DEF At, IsList
<1>3. ASSUME NEW f, Followed(lk, h, k, f) PROVE \A i \in 0..k : f[i] = At(n, q, i)
  <2> DEFINE T == {i \in 0..k : f[i] # At(n, q, i)}
  <2>1. \A i \in 0..k : f[i] = IF i = 0 THEN h
                               ELSE IF f[i - 1] \in Buffer THEN lk[f[i - 1]] ELSE NULL
    BY <1>3 DEF Followed
  <2> SUFFICES ASSUME T # {} PROVE FALSE
    OBVIOUS
  <2>2. T \subseteq Nat
    OBVIOUS
  <2>3. PICK i \in T : \A j \in T : i <= j
    <3> HIDE DEF T
    <3> QED BY <2>2, Least
  <2>4. i \in 0..k /\ f[i] # At(n, q, i)
    OBVIOUS
  <2>5. i # 0
    BY <1>2, <2>1, <2>4
  <2>6. i - 1 \in 0..k /\ i - 1 \in Nat /\ i - 1 \notin T
    BY <2>3, <2>4, <2>5
  <2>7. f[i - 1] = At(n, q, i - 1)
    BY <2>6
  <2>8. At(n, q, i - 1 + 1) = IF At(n, q, i - 1) \in Buffer THEN lk[At(n, q, i - 1)] ELSE NULL
    BY <1>1, <2>6, Zenon
  <2>9. i - 1 + 1 = i
    BY <2>4
  <2> QED BY <2>1, <2>4, <2>5, <2>7, <2>8, <2>9
<1>4. \E f : Followed(lk, h, k, f)
  <2> DEFINE g == [i \in 0..k |-> At(n, q, i)]
  <2>1. \A i \in 0..k : g[i] = IF i = 0 THEN h
                               ELSE IF g[i - 1] \in Buffer THEN lk[g[i - 1]] ELSE NULL
    <3> SUFFICES ASSUME NEW i \in 0..k, i # 0
                 PROVE  g[i] = IF g[i - 1] \in Buffer THEN lk[g[i - 1]] ELSE NULL
      BY <1>2
    <3>1. i - 1 \in Nat /\ i - 1 + 1 = i /\ g[i - 1] = At(n, q, i - 1) /\ g[i] = At(n, q, i)
      OBVIOUS
    <3>2. At(n, q, i - 1 + 1) = IF At(n, q, i - 1) \in Buffer THEN lk[At(n, q, i - 1)] ELSE NULL
      BY <1>1, <3>1, Zenon
    <3> QED BY <3>1, <3>2
  <2>2. g = [i \in 0..k |-> g[i]]
    OBVIOUS
  <2> HIDE DEF g
  <2>3. Followed(lk, h, k, g)
    BY <2>1, <2>2 DEF Followed
  <2> QED BY <2>3
<1>5. Followed(lk, h, k, CHOOSE f : Followed(lk, h, k, f))
  BY <1>4, Zenon
<1>6. k \in 0..k
  OBVIOUS
<1> QED BY <1>3, <1>5, <1>6, Zenon DEF Following
-----------------------------------------------------------------------------
LEMMA Times ==
  ASSUME NEW K \in Nat, NEW i \in Nat, NEW j \in Nat, i < j
  PROVE  K * i + K <= K * j /\ K * i \in Nat /\ K * j \in Nat
<1>1. PICK d \in Nat : j = i + 1 + d
  <2>1. j - i - 1 \in Nat /\ j = i + 1 + (j - i - 1)
    OBVIOUS
  <2> QED BY <2>1
<1>2. K * d \in Nat /\ K * i \in Nat
  OBVIOUS
<1>3. K * j = K * i + K + K * d
  BY <1>1
<1> QED BY <1>2, <1>3

LEMMA PoolIs ==
  /\ \A b, s : b \in Pool(s) => b[1] = s /\ b[2] \in 0..(index_max(s) - 1) /\ b = <<b[1], b[2]>>
  /\ \A b \in Buffer, s \in Size : b \in Pool(s) <=> b[1] = s
  /\ \A b \in Buffer : b[1] \in Size
<1>1. ASSUME NEW s, NEW b \in Pool(s)
      PROVE  b[1] = s /\ b[2] \in 0..(index_max(s) - 1) /\ b = <<b[1], b[2]>>
  BY DEF Pool
<1> QED BY <1>1 DEF Buffer, Size

(* Where the numbers are.                                                  *)
LEMMA Layout ==
  ASSUME Apart
  PROVE  /\ SMALL \in Nat /\ LARGE \in Nat /\ buf("small") = 0 /\ buf("large") \in Nat
         /\ SMALL > 0 /\ LARGE > 0
         /\ \A s \in Size : index_max(s) \in Nat /\ index_max(s) > 0
<1>1. {SMALL, LARGE, SMALL_MAX, LARGE_MAX, UINT32} \subseteq Nat \ {0}
  BY DEF Apart, PoolsAssumption
<1>2. SMALL_MAX * SMALL \in Nat
  BY <1>1
<1>3. (SMALL_MAX * SMALL) % UINT32 \in Nat
  BY <1>1, <1>2
<1> QED BY <1>1, <1>3 DEF buf, index_max, Size

(* As long as the first n small buffers end before the large pool begins,  *)
(* the buffers have their addresses, and dalloc() knows them by those.     *)
LEMMA PlaceIs ==
  ASSUME Apart, NEW n \in Nat, SMALL * n <= buf("large"),
         NEW b \in Buffer, b[1] = "small" => b[2] < n
  PROVE  /\ b[2] \in Nat /\ Place(b) \in Nat
         /\ b[1] = "small" => Place(b) = SMALL * b[2] /\ Place(b) + SMALL <= buf("large")
         /\ b[1] = "large" => Place(b) = buf("large") + LARGE * b[2] /\ LARGE * b[2] \in Nat
         /\ SizeOf(b) = b[1]
<1>1. b[2] \in Nat /\ b[1] \in Size
  <2>1. b[1] \in Size /\ b \in Pool(b[1])
    BY PoolIs
  <2> QED BY <2>1, PoolIs, Layout
<1>2. CASE b[1] = "small"
  <2>1. SMALL * b[2] + SMALL <= SMALL * n /\ SMALL * b[2] \in Nat /\ SMALL * n \in Nat
    BY <1>1, <1>2, Layout, Times
  <2>2. Place(b) = SMALL * b[2]
    BY <1>2, <2>1, Layout DEF Place, alloc_max
  <2> QED BY <1>1, <1>2, <2>1, <2>2, Layout DEF SizeOf
<1>3. CASE b[1] = "large"
  <2>1. LARGE * b[2] \in Nat
    BY <1>1, Layout, Times
  <2>2. Place(b) = buf("large") + LARGE * b[2]
    BY <1>3, Layout DEF Place, alloc_max
  <2> QED BY <1>1, <1>3, <2>1, <2>2, Layout DEF SizeOf
<1> QED BY <1>1, <1>2, <1>3 DEF Size

(* And no two of them share an octet.                                      *)
LEMMA Disjoint ==
  ASSUME Apart, NEW n \in Nat, SMALL * n <= buf("large"),
         NEW b \in Buffer, b[1] = "small" => b[2] < n,
         NEW d \in Buffer, d[1] = "small" => d[2] < n, b # d
  PROVE  Octets(b) \cap Octets(d) = {}
<1> DEFINE Ends(x, y) == Place(x) + alloc_max(x[1]) <= Place(y)
<1>1. /\ b[2] \in Nat /\ d[2] \in Nat /\ Place(b) \in Nat /\ Place(d) \in Nat
      /\ b[1] \in Size /\ d[1] \in Size
      /\ b[1] = "small" => Place(b) = SMALL * b[2] /\ Place(b) + SMALL <= buf("large")
      /\ d[1] = "small" => Place(d) = SMALL * d[2] /\ Place(d) + SMALL <= buf("large")
      /\ b[1] = "large" => Place(b) = buf("large") + LARGE * b[2] /\ LARGE * b[2] \in Nat
      /\ d[1] = "large" => Place(d) = buf("large") + LARGE * d[2] /\ LARGE * d[2] \in Nat
  BY PlaceIs, PoolIs
<1>2. alloc_max("small") = SMALL /\ alloc_max("large") = LARGE
  BY DEF alloc_max
<1>3. Ends(b, d) \/ Ends(d, b)
  <2>1. CASE b[1] # d[1]
    BY <1>1, <1>2, <2>1, Layout DEF Size
  <2>2. CASE b[1] = d[1]
    <3>1. b[2] < d[2] \/ d[2] < b[2]
      <4>1. b = <<b[1], b[2]>> /\ d = <<d[1], d[2]>>
        BY <1>1, PoolIs
      <4> QED BY <1>1, <2>2, <4>1
    <3>2. ASSUME NEW K \in Nat
          PROVE  K * b[2] + K <= K * d[2] \/ K * d[2] + K <= K * b[2]
      BY <1>1, <3>1, <3>2, Times
    <3>3. CASE b[1] = "small"
      BY <1>1, <1>2, <2>2, <3>2, <3>3, Layout
    <3>4. CASE b[1] = "large"
      <4>1. LARGE * b[2] + LARGE <= LARGE * d[2] \/ LARGE * d[2] + LARGE <= LARGE * b[2]
        BY <3>2, Layout
      <4> QED BY <1>1, <1>2, <2>2, <3>4, <4>1, Layout
    <3> QED BY <1>1, <3>3, <3>4 DEF Size
  <2> QED BY <2>1, <2>2
<1>4. alloc_max(b[1]) \in Nat /\ alloc_max(d[1]) \in Nat
  BY <1>1, <1>2, Layout DEF Size
<1> QED BY <1>1, <1>3, <1>4 DEF Octets

LEMMA InitIInv == Apart /\ Init => IInv
<1> SUFFICES ASSUME Apart, Init PROVE IInv
  OBVIOUS
<1>0. carved = {}
  <2>1. \A b \in Buffer : ~(b[2] < index[b[1]])
    <3> SUFFICES ASSUME NEW b \in Buffer PROVE ~(b[2] < index[b[1]])
      OBVIOUS
    <3>1. b[1] \in Size /\ b[2] \in Nat /\ index[b[1]] = 0
      BY PoolIs, Layout DEF Init
    <3> QED BY <3>1
  <2> QED BY <2>1 DEF carved
<1>1. Types
  <2>1. index \in [Size -> Nat] /\ \A s \in Size : index[s] = 0 /\ index_max(s) \in Nat
    BY Layout DEF Init
  <2>2. \A s \in Size : index[s] \in 0..index_max(s)
    BY <2>1
  <2> QED BY <1>0, <2>1, <2>2 DEF Init, Types
<1>2. OneHolder /\ Heads /\ Links /\ Freed = {}
  BY <1>0 DEF Init, OneHolder, Heads, Links, Freed
<1>3. Covered
  BY <1>2 DEF Covered
<1>4. ASSUME NEW c \in Cache, NEW s \in Size PROVE \E q : List(c, s, q)
  <2> DEFINE q == [i \in 1..0 |-> i]
  <2>1. free[c][s] = NULL /\ free_count[c][s] = 0
    BY DEF Init
  <2>2. List(c, s, q)
    BY <2>1 DEF List, IsList
  <2> QED BY <2>2
<1> QED BY <1>1, <1>2, <1>3, <1>4 DEF IInv, Chains

LEMMA CarvedIs == carved \subseteq Buffer
BY DEF carved

(* What pool_alloc() returns is new, and that is all it carves.            *)
LEMMA Carve ==
  ASSUME Apart, Types, NEW s \in Size, NEW b, pool_alloc(s, b)
  PROVE  /\ b \in Pool(s) /\ b \in Buffer /\ b \notin carved /\ carved' = carved \cup {b}
         /\ index' \in [Size -> Nat] /\ \A z \in Size : index'[z] \in 0..index_max(z)
<1>1. /\ index[s] < index_max(s) /\ b = <<s, index[s]>> /\ index[s] \in Nat
      /\ \A z \in Size : index'[z] = (IF z = s THEN index[s] + 1 ELSE index[z])
      /\ index' \in [Size -> Nat] /\ index_max(s) \in Nat
  BY Layout DEF pool_alloc, Types
<1>2. b \in Pool(s)
  BY <1>1 DEF Pool
<1>3. b \in Buffer /\ b \notin carved /\ b[1] = s /\ b[2] = index[s]
  BY <1>1, <1>2 DEF Buffer, Size, carved
<1>4. ASSUME NEW x \in Buffer PROVE x \in carved' <=> x \in carved \/ x = b
  <2>1. x[1] \in Size /\ x[2] \in Nat /\ x = <<x[1], x[2]>>
    BY PoolIs, Layout
  <2>2. index[x[1]] \in Nat
    BY <2>1 DEF Types
  <2> QED BY <1>1, <1>3, <2>1, <2>2 DEF carved
<1>5. \A z \in Size : index'[z] \in 0..index_max(z)
  BY <1>1, Layout DEF Types
<1>6. carved' \subseteq Buffer /\ carved \subseteq Buffer
  BY DEF carved
<1> QED BY <1>1, <1>2, <1>3, <1>4, <1>5, <1>6

(* A buffer at the head of a list is on no other.                          *)
LEMMA OnOne ==
  ASSUME Types, Heads, Links, NEW c \in Cache, NEW s \in Size, free[c][s] # NULL,
         NEW d \in Cache, NEW z \in Size, NEW q, List(d, z, q),
         NEW i \in 1..free_count[d][z], q[i] = free[c][s]
  PROVE  d = c /\ z = s
<1> DEFINE n == free_count[d][z]
<1>1. n \in Nat
  BY DEF Types
<1>2. CASE i = 1
  <2>1. free[d][z] = free[c][s]
    BY <1>1, <1>2 DEF List, IsList
  <2> QED BY <2>1 DEF Heads
<1>3. CASE i # 1
  <2>1. i - 1 \in 1..n /\ i - 1 # n /\ i - 1 + 1 = i
    BY <1>1, <1>3
  <2>2. q[i - 1] \in Freed /\ link[q[i - 1]] = q[i]
    BY <2>1 DEF List, IsList
  <2> QED BY <2>2 DEF Links
<1> QED BY <1>2, <1>3

(* The lists after a step that changes one of them: what is on the others  *)
(* is left alone.                                                          *)
Beside(d, z, q, b) ==
  /\ free'[d][z] = free[d][z] /\ free_count'[d][z] = free_count[d][z]
  /\ \A i \in 1..free_count[d][z] : q[i] # b
  /\ \A x \in Freed : x # b => x \in Freed' /\ link'[x] = link[x]
LEMMA Others ==
  ASSUME NEW d \in Cache, NEW z \in Size, NEW q, List(d, z, q), NEW b, Beside(d, z, q, b)
  PROVE  List(d, z, q)' /\ free_count'[d][z] = free_count[d][z]
<1> USE DEF Beside
<1> DEFINE S == Freed \cap Pool(z)
           T == Freed' \cap Pool(z)
           n == free_count[d][z]
<1>1. IsList(link, S, free[d][z], n, q)
  BY DEF List
<1>2. Kept(link, link', T, n, q)
  BY <1>1 DEF Kept, IsList, Pool
<1> HIDE DEF S, T, n, Beside
<1>3. IsList(link', T, free[d][z], n, q)
  BY <1>1, <1>2, Keep, Zenon
<1> QED BY <1>3 DEF List, T, n, Pool, Beside

LEMMA SameLists ==
  ASSUME Chains, Covered, Freed' = Freed, UNCHANGED lists
  PROVE  Chains' /\ Covered'
<1>1. \A c, s, q : List(c, s, q)' <=> List(c, s, q)
  BY DEF List, lists
<1> QED BY <1>1 DEF Chains, Covered, lists

(* A list loses its head.                                                  *)
LEMMA PopLists ==
  ASSUME IInv, NEW c \in Cache, NEW s \in Size, NEW b, b = free[c][s], b # NULL,
         Freed' = Freed \ {b},
         \A d \in Cache, z \in Size :
           /\ free'[d][z] = (IF d = c /\ z = s THEN link[b] ELSE free[d][z])
           /\ free_count'[d][z] = (IF d = c /\ z = s THEN free_count[c][s] - 1
                                   ELSE free_count[d][z]),
         \A x \in Buffer : link'[x] = (IF x = b THEN Data ELSE link[x])
  PROVE  Chains' /\ Covered' /\ free_count[c][s] - 1 \in Nat
<1> USE DEF IInv
<1> DEFINE n == free_count[c][s]
           S == Freed \cap Pool(s)
<1>1. n \in Nat /\ Freed \subseteq Buffer
  BY CarvedIs DEF Types, Freed
<1>2. ASSUME NEW q, List(c, s, q)
      PROVE  n # 0 /\ q[1] = b /\ \A r : r = Shorter(n, q) => List(c, s, r)'
  <2>1. IsList(link, S, b, n, q)
    BY <1>2 DEF List
  <2>2. Same(link, link', S \ {b})
    BY <1>1 DEF Same
  <2>3. Popped(link, S, b, n, q, link')
    <3> HIDE DEF S, n, IInv
    <3> QED BY ONLY <1>1, <2>1, <2>2, b # NULL, Pop, Zenon
  <2>4. free'[c][s] = link[b] /\ free_count'[c][s] = n - 1 /\ (Freed \cap Pool(s))' = S \ {b}
    BY DEF Pool
  <2>5. ASSUME NEW r, r = Shorter(n, q) PROVE List(c, s, r)'
    <3> HIDE DEF S, n
    <3>1. IsList(link', S \ {b}, link[b], n - 1, r)
      BY <2>3, <2>5 DEF Popped
    <3>2. IsList(link', (Freed \cap Pool(s))', free'[c][s], free_count'[c][s], r)
      BY <2>4, <3>1
    <3> QED BY <3>2 DEF List
  <2>6. n # 0 /\ q[1] = b
    BY <2>3 DEF Popped
  <2> QED BY <2>5, <2>6
<1>3. n - 1 \in Nat
  <2>1. PICK q : List(c, s, q)
    BY DEF Chains
  <2>2. n # 0
    BY <1>2, <2>1, Zenon
  <2> QED BY <1>1, <2>2
<1>4. ASSUME NEW d \in Cache, NEW z \in Size, ~(d = c /\ z = s), NEW q, List(d, z, q)
      PROVE  List(d, z, q)' /\ free_count'[d][z] = free_count[d][z]
  <2>1. \A i \in 1..free_count[d][z] : q[i] # b
    BY <1>4, OnOne
  <2>2. \A x \in Freed : x # b => x \in Freed' /\ link'[x] = link[x]
    BY <1>1
  <2>3. free'[d][z] = free[d][z] /\ free_count'[d][z] = free_count[d][z]
    BY <1>4
  <2>4. Beside(d, z, q, b)
    BY <2>1, <2>2, <2>3 DEF Beside
  <2> QED BY <1>4, <2>4, Others
<1> HIDE DEF n
<1>5. Chains'
  <2> SUFFICES ASSUME NEW d \in Cache, NEW z \in Size PROVE \E q : List(d, z, q)'
    BY DEF Chains
  <2>1. PICK q : List(d, z, q)
    BY DEF Chains
  <2>2. CASE d = c /\ z = s
    BY <1>2, <2>1, <2>2
  <2>3. CASE ~(d = c /\ z = s)
    BY <1>4, <2>1, <2>3
  <2> QED BY <2>2, <2>3
<1>6. Covered'
  <2> SUFFICES ASSUME NEW x \in Freed \ {b}
               PROVE  \E d \in Cache, z \in Size : \E q :
                        List(d, z, q)' /\ \E i \in 1..free_count'[d][z] : q[i] = x
    BY DEF Covered
  <2>1. PICK d \in Cache, z \in Size :
          \E q : List(d, z, q) /\ \E i \in 1..free_count[d][z] : q[i] = x
    BY DEF Covered
  <2>2. PICK q : List(d, z, q) /\ \E i \in 1..free_count[d][z] : q[i] = x
    BY <2>1
  <2>3. CASE d = c /\ z = s
    <3>1. PICK i \in 1..n : q[i] = x
      BY <2>2, <2>3 DEF n
    <3>2. PICK r : r = Shorter(n, q)
      OBVIOUS
    <3>3. q[1] = b /\ List(d, z, r)'
      BY <1>2, <2>2, <2>3, <3>2
    <3>4. i - 1 \in 1..(n - 1) /\ i - 1 + 1 = i
      BY <1>1, <3>1, <3>3
    <3>5. r[i - 1] = x
      BY <3>1, <3>2, <3>4 DEF Shorter
    <3>6. free_count'[d][z] = n - 1
      BY <2>3 DEF n
    <3>7. \E j \in 1..free_count'[d][z] : r[j] = x
      BY <3>4, <3>5, <3>6
    <3> QED BY <3>3, <3>7
  <2>4. CASE ~(d = c /\ z = s)
    <3>1. List(d, z, q)' /\ free_count'[d][z] = free_count[d][z]
      BY <1>4, <2>2, <2>4, Zenon
    <3> QED BY <2>2, <3>1
  <2> QED BY <2>3, <2>4
<1> QED BY <1>3, <1>5, <1>6 DEF n

(* A list gets a new head.                                                 *)
LEMMA PushLists ==
  ASSUME IInv, NEW c \in Cache, NEW s \in Size, NEW b \in Pool(s), b \notin Freed,
         Freed' = Freed \cup {b},
         \A d \in Cache, z \in Size :
           /\ free'[d][z] = (IF d = c /\ z = s THEN b ELSE free[d][z])
           /\ free_count'[d][z] = (IF d = c /\ z = s THEN free_count[c][s] + 1
                                   ELSE free_count[d][z]),
         \A x \in Buffer : link'[x] = (IF x = b THEN free[c][s] ELSE link[x])
  PROVE  Chains' /\ Covered'
<1> USE DEF IInv
<1> DEFINE n == free_count[c][s]
           S == Freed \cap Pool(s)
<1>1. n \in Nat /\ Freed \subseteq Buffer /\ b \in Buffer
  BY PoolIs, CarvedIs DEF Types, Freed, Buffer, Size
<1>2. ASSUME NEW q, List(c, s, q)
      PROVE  \A r : r = Longer(b, n, q) => List(c, s, r)'
  <2>1. IsList(link, S, free[c][s], n, q) /\ b \notin S
    BY <1>2 DEF List
  <2>2. free[c][s] = link'[b] /\ Same(link, link', S)
    BY <1>1 DEF Same
  <2>3. free'[c][s] = b /\ free_count'[c][s] = n + 1 /\ (Freed \cap Pool(s))' = S \cup {b}
    BY DEF Pool
  <2> HIDE DEF S, n, IInv
  <2>4. IsList(link', S \cup {b}, b, n + 1, Longer(b, n, q))
    BY <1>1, <2>1, <2>2, Push
  <2> SUFFICES ASSUME NEW r, r = Longer(b, n, q) PROVE List(c, s, r)'
    OBVIOUS
  <2>5. IsList(link', (Freed \cap Pool(s))', free'[c][s], free_count'[c][s], r)
    BY <2>3, <2>4
  <2> QED BY <2>5 DEF List
<1>3. ASSUME NEW d \in Cache, NEW z \in Size, ~(d = c /\ z = s), NEW q, List(d, z, q)
      PROVE  List(d, z, q)' /\ free_count'[d][z] = free_count[d][z]
  <2>1. \A i \in 1..free_count[d][z] : q[i] # b
    BY <1>3 DEF List, IsList
  <2>2. \A x \in Freed : x # b => x \in Freed' /\ link'[x] = link[x]
    BY <1>1
  <2>3. free'[d][z] = free[d][z] /\ free_count'[d][z] = free_count[d][z]
    BY <1>3
  <2>4. Beside(d, z, q, b)
    BY <2>1, <2>2, <2>3 DEF Beside
  <2> QED BY <1>3, <2>4, Others
<1> HIDE DEF n
<1>4. Chains'
  <2> SUFFICES ASSUME NEW d \in Cache, NEW z \in Size PROVE \E q : List(d, z, q)'
    BY DEF Chains
  <2>1. PICK q : List(d, z, q)
    BY DEF Chains
  <2>2. CASE d = c /\ z = s
    BY <1>2, <2>1, <2>2
  <2>3. CASE ~(d = c /\ z = s)
    BY <1>3, <2>1, <2>3
  <2> QED BY <2>2, <2>3
<1>5. Covered'
  <2> SUFFICES ASSUME NEW x \in Freed \cup {b}
               PROVE  \E d \in Cache, z \in Size : \E q :
                        List(d, z, q)' /\ \E i \in 1..free_count'[d][z] : q[i] = x
    BY DEF Covered
  <2>1. free_count'[c][s] = n + 1
    BY DEF n
  <2>2. CASE x = b
    <3>1. PICK q : List(c, s, q)
      BY DEF Chains
    <3>2. PICK r : r = Longer(b, n, q)
      OBVIOUS
    <3>3. 1 \in 1..(n + 1) /\ r[1] = x
      BY <1>1, <2>2, <3>2 DEF Longer
    <3>4. List(c, s, r)'
      BY <1>2, <3>1, <3>2
    <3>5. \E i \in 1..free_count'[c][s] : r[i] = x
      BY <2>1, <3>3
    <3> QED BY <3>4, <3>5
  <2>3. CASE x # b
    <3>1. PICK d \in Cache, z \in Size :
            \E q : List(d, z, q) /\ \E i \in 1..free_count[d][z] : q[i] = x
      BY <2>3 DEF Covered
    <3>2. PICK q : List(d, z, q) /\ \E i \in 1..free_count[d][z] : q[i] = x
      BY <3>1
    <3>3. CASE d = c /\ z = s
      <4>1. PICK i \in 1..n : q[i] = x
        BY <3>2, <3>3 DEF n
      <4>2. PICK r : r = Longer(b, n, q)
        OBVIOUS
      <4>3. List(c, s, r)'
        BY <1>2, <3>2, <3>3, <4>2
      <4>4. i + 1 \in 1..(n + 1) /\ i + 1 # 1 /\ i + 1 - 1 = i
        BY <1>1, <4>1
      <4>5. r[i + 1] = x
        BY <4>1, <4>2, <4>4 DEF Longer
      <4>6. \E j \in 1..free_count'[c][s] : r[j] = x
        BY <2>1, <4>4, <4>5
      <4> QED BY <4>3, <4>6
    <3>4. CASE ~(d = c /\ z = s)
      <4>1. List(d, z, q)' /\ free_count'[d][z] = free_count[d][z]
        BY <1>3, <3>2, <3>4, Zenon
      <4> QED BY <3>2, <4>1
    <3> QED BY <3>3, <3>4
  <2> QED BY <2>2, <2>3
<1> QED BY <1>4, <1>5

(* A buffer carved by this step or before, and in nobody's hands, may be   *)
(* given: unless the pools overlap from now on, it is apart from all.      *)
LEMMA GiveNew ==
  ASSUME Apart, Types, index' \in [Size -> Nat], NEW c \in Cache, NEW s \in Size,
         NEW b \in Pool(s), alloc(c, s, b), \A d \in Cache : b \notin held[d],
         held' = [held EXCEPT ![c] = @ \cup {b}], b \in carved', carved \subseteq carved'
  PROVE  BP!Give(c, s)
<1>1. InReach
  BY DEF alloc, Runs
<1>2. ASSUME InReach', NEW d \in UNION {held[e] : e \in Cache}
      PROVE  Octets(b) \cap Octets(d) = {}
  <2>1. b \in carved' /\ d \in carved' /\ b # d
    BY <1>2 DEF Types
  <2> DEFINE n == index'["small"]
  <2>2. n \in Nat /\ SMALL * n <= buf("large")
    BY <1>2 DEF InReach, Size
  <2>3. /\ b \in Buffer /\ d \in Buffer
        /\ b[1] = "small" => b[2] < n
        /\ d[1] = "small" => d[2] < n
    BY <2>1 DEF carved
  <2> HIDE DEF n
  <2> QED BY <2>1, <2>2, <2>3, Disjoint
<1>3. Pool(s) = BP!Pool(s)
  BY DEF Pool, BP!Pool, index_max, BP!index_max
<1>4. \A x \in Buffer : Octets(x) = BP!Octets(x)
  BY DEF Octets, BP!Octets, Place, BP!Place, alloc_max, BP!alloc_max, buf, BP!buf
<1>5. b \in (held'[c] \cap BP!Pool(s)) \ BP!InHands
  BY <1>3 DEF BP!InHands, Types
<1>6. ~(~InReach)' => \A d \in BP!InHands : BP!Octets(b) \cap BP!Octets(d) = {}
  <2> SUFFICES ASSUME InReach', NEW d \in BP!InHands PROVE BP!Octets(b) \cap BP!Octets(d) = {}
    OBVIOUS
  <2>1. d \in Buffer /\ b \in Buffer
    BY PoolIs, CarvedIs DEF BP!InHands, Types, Buffer, carved
  <2>2. Octets(b) \cap Octets(d) = {}
    BY <1>2 DEF BP!InHands
  <2> QED BY <1>4, <2>1, <2>2
<1> QED BY <1>1, <1>5, <1>6 DEF BP!Give

(* What alloc() returns was in nobody's hands.                             *)
LEMMA AcquireStep ==
  ASSUME Apart, IInv, NEW c \in Cache, NEW s \in Size, Acquire(c, s)
  PROVE  IInv' /\ BP!Give(c, s)
<1>1. PICK b \in {free[c][s], <<s, index[s]>>} :
        alloc(c, s, b) /\ held' = [held EXCEPT ![c] = @ \cup {b}]
  BY DEF Acquire
<1>2. Types /\ OneHolder /\ Heads /\ Links /\ Chains /\ Covered
  BY DEF IInv
<1>3. CASE alloc_cache_line(c, s, b)
  <2>1. /\ b = free[c][s] /\ b # NULL /\ b \in Freed /\ b \in Pool(s) /\ b \in Buffer
        /\ index' = index /\ carved' = carved
    BY <1>2, <1>3, CarvedIs DEF alloc_cache_line, Heads, Freed, carved
  <2>2. \A d \in Cache : held'[d] = (IF d = c THEN held[c] \cup {b} ELSE held[d])
    BY <1>1, <1>2 DEF Types
  <2>3. Freed' = Freed \ {b}
    BY <2>1, <2>2 DEF Freed
  <2>4. \A d \in Cache, z \in Size :
          /\ free'[d][z] = (IF d = c /\ z = s THEN link[b] ELSE free[d][z])
          /\ free_count'[d][z] = (IF d = c /\ z = s THEN free_count[c][s] - 1
                                  ELSE free_count[d][z])
    BY <1>2, <1>3 DEF alloc_cache_line, Types
  <2>5. \A x \in Buffer : link'[x] = (IF x = b THEN Data ELSE link[x])
    BY <1>2, <1>3 DEF alloc_cache_line, Types
  <2>6. link[b] = NULL \/ link[b] \in Freed \ {b}
    BY <1>2, <2>1 DEF Links
  <2>6a. Chains' /\ Covered' /\ free_count[c][s] - 1 \in Nat
    BY <2>1, <2>3, <2>4, <2>5, PopLists
  <2>7. Types'
    <3>1. link[b] \in Buffer \cup {NULL}
      BY <1>2, <2>6, CarvedIs DEF Types, Freed
    <3>2. free' \in [Cache -> [Size -> Buffer \cup {NULL}]]
      BY <1>2, <1>3, <3>1 DEF alloc_cache_line, Types
    <3>3. link' \in [Buffer -> Buffer \cup {NULL, Data}]
      BY <1>2, <1>3 DEF alloc_cache_line, Types
    <3>4. held' \in [Cache -> SUBSET carved']
      BY <1>1, <1>2, <2>1 DEF Types, Freed
    <3>5. free_count' \in [Cache -> [Size -> Nat]]
      BY <1>2, <1>3, <2>6a DEF alloc_cache_line, Types
    <3>6. exhausted' = exhausted
      BY <1>1 DEF alloc
    <3> QED BY <1>2, <2>1, <3>2, <3>3, <3>4, <3>5, <3>6 DEF Types
  <2>8. OneHolder'
    BY <1>2, <2>1, <2>2 DEF OneHolder, Freed
  <2>9. Heads'
    <3> SUFFICES ASSUME NEW d \in Cache, NEW z \in Size, free'[d][z] # NULL
                 PROVE  /\ free'[d][z] \in Freed' \cap Pool(z)
                        /\ \A e \in Cache, y \in Size : free'[e][y] = free'[d][z] => e = d /\ y = z
      BY DEF Heads
    <3>1. free'[d][z] \in Freed \ {b}
      BY <1>2, <2>1, <2>4, <2>6 DEF Heads
    <3>2. free'[d][z] \in Pool(z)
      <4>1. CASE d = c /\ z = s
        <5>1. link[b] # NULL /\ link[b][1] = b[1] /\ link[b] \in Buffer
          BY <1>2, <2>1, <2>4, <3>1, <4>1, CarvedIs DEF Links, Freed, Types
        <5> QED BY <2>1, <2>4, <4>1, <5>1, PoolIs
      <4>2. CASE ~(d = c /\ z = s)
        BY <1>2, <2>4, <4>2 DEF Heads
      <4> QED BY <4>1, <4>2
    <3>3. \A e \in Cache, y \in Size : free[e][y] # link[b] \/ link[b] = NULL
      BY <1>2, <2>1 DEF Links
    <3>4. \A e \in Cache, y \in Size : free'[e][y] = free'[d][z] => e = d /\ y = z
      BY <1>2, <2>4, <3>3 DEF Heads
    <3> QED BY <2>3, <3>1, <3>2, <3>4
  <2>10. Links'
    <3> SUFFICES ASSUME NEW x \in Freed', link'[x] # NULL
                 PROVE  /\ link'[x] \in Freed' /\ link'[x][1] = x[1]
                        /\ \A y \in Freed' : link'[y] = link'[x] => y = x
                        /\ \A d \in Cache, z \in Size : free'[d][z] # link'[x]
      BY DEF Links
    <3>1. x \in Freed /\ x # b /\ \A y \in Freed' : y \in Freed /\ y # b /\ y \in Buffer
      BY <1>2, <2>3, CarvedIs DEF Freed, Types
    <3>2. link'[x] = link[x] /\ \A y \in Freed' : link'[y] = link[y]
      BY <2>5, <3>1
    <3>3. link[x] # b
      BY <1>2, <2>1, <3>1, <3>2 DEF Links
    <3>4. link[x] # link[b]
      BY <1>2, <2>1, <3>1, <3>2 DEF Links
    <3> QED BY <1>2, <2>3, <2>4, <3>1, <3>2, <3>3, <3>4 DEF Links
  <2>11. BP!Give(c, s)
    <3>1. b \in Pool(s) /\ b \in carved' /\ carved \subseteq carved' /\ \A d \in Cache : b \notin held[d]
      BY <2>1 DEF Freed
    <3>2. index' \in [Size -> Nat]
      BY <1>2, <2>1 DEF Types
    <3> QED BY <1>1, <1>2, <3>1, <3>2, GiveNew
  <2> QED BY <2>6a, <2>7, <2>8, <2>9, <2>10, <2>11 DEF IInv
<1>4. CASE free[c][s] = NULL /\ pool_alloc(s, b)
  <2>1. /\ b \in Pool(s) /\ b \notin carved /\ carved' = carved \cup {b} /\ b \in Buffer
        /\ free' = free /\ free_count' = free_count /\ link' = link /\ exhausted' = exhausted
    BY <1>1, <1>2, <1>4, Carve DEF pool_alloc, lists, alloc
  <2>2. \A d \in Cache : held'[d] = (IF d = c THEN held[c] \cup {b} ELSE held[d])
    BY <1>1, <1>2 DEF Types
  <2>3. \A d \in Cache : b \notin held[d]
    BY <1>2, <2>1 DEF Types
  <2>4. Freed' = Freed
    BY <2>1, <2>2, <2>3 DEF Freed
  <2>5. Types'
    <3>1. held' \in [Cache -> SUBSET carved']
      BY <1>1, <1>2, <2>1 DEF Types
    <3>2. index' \in [Size -> Nat] /\ \A z \in Size : index'[z] \in 0..index_max(z)
      BY <1>2, <1>4, Carve
    <3> QED BY <1>2, <2>1, <3>1, <3>2 DEF Types
  <2>6. OneHolder'
    BY <1>2, <2>2, <2>3 DEF OneHolder
  <2>7. Heads' /\ Links'
    BY <1>2, <2>1, <2>4 DEF Heads, Links
  <2>8. BP!Give(c, s)
    <3>1. b \in carved' /\ carved \subseteq carved'
      BY <2>1
    <3>2. index' \in [Size -> Nat]
      BY <1>2, <1>4, Carve
    <3> QED BY <1>1, <1>2, <2>1, <2>3, <3>1, <3>2, GiveNew
  <2>9. Chains' /\ Covered'
    BY <1>2, <2>1, <2>4, SameLists DEF lists
  <2> QED BY <2>5, <2>6, <2>7, <2>8, <2>9 DEF IInv
<1> QED BY <1>1, <1>3, <1>4 DEF alloc

(* A buffer given back becomes the head of one list.                       *)
LEMMA ReleaseStep ==
  ASSUME Apart, IInv, NEW c \in Cache, Release(c)
  PROVE  IInv' /\ BP!Take(c)
<1>1. PICK b \in held[c] : dalloc(c, b) /\ held' = [held EXCEPT ![c] = @ \ {b}]
  BY DEF Release
<1>2. Types /\ OneHolder /\ Heads /\ Links /\ Chains /\ Covered
  BY DEF IInv
<1> DEFINE s == SizeOf(b)
<1>3. b \in Buffer /\ b \in carved /\ b \notin Freed /\ s \in Size /\ b # NULL /\ b \in Pool(s)
  <2>1. b \in Buffer /\ b \in carved /\ b \notin Freed
    BY <1>2, CarvedIs DEF Types, Freed
  <2>2. index["small"] \in Nat /\ SMALL * index["small"] <= buf("large")
    BY <1>1, <1>2 DEF dalloc, Runs, InReach, Types, Size
  <2>3. b[1] = "small" => b[2] < index["small"]
    BY <2>1 DEF carved
  <2>4. s = b[1]
    BY <2>1, <2>2, <2>3, PlaceIs
  <2> QED BY <2>1, <2>4, PoolIs DEF Apart
<1> HIDE DEF s
<1>4. index' = index /\ carved' = carved /\ \A d \in Cache : held'[d] = (IF d = c THEN held[c] \ {b} ELSE held[d])
  BY <1>1, <1>2 DEF dalloc, Types, carved
<1>5. Freed' = Freed \cup {b}
  BY <1>2, <1>3, <1>4 DEF Freed, OneHolder
<1>6. \A d \in Cache, z \in Size :
        /\ free'[d][z] = (IF d = c /\ z = s THEN b ELSE free[d][z])
        /\ free_count'[d][z] = (IF d = c /\ z = s THEN free_count[c][s] + 1
                                ELSE free_count[d][z])
  BY <1>1, <1>2, <1>3 DEF dalloc, Types, s
<1>7. \A x \in Buffer : link'[x] = (IF x = b THEN free[c][s] ELSE link[x])
  BY <1>1, <1>2 DEF dalloc, Types, s
<1>8. Types'
  <2>1. free' \in [Cache -> [Size -> Buffer \cup {NULL}]]
    BY <1>1, <1>2, <1>3 DEF dalloc, Types, s
  <2>2. link' \in [Buffer -> Buffer \cup {NULL, Data}]
    BY <1>1, <1>2, <1>3 DEF dalloc, Types, s
  <2>3. held' \in [Cache -> SUBSET carved']
    BY <1>1, <1>2, <1>4 DEF Types
  <2>4. free_count' \in [Cache -> [Size -> Nat]]
    <3>1. free_count[c][s] \in Nat /\ free_count[c][s] + 1 \in Nat
      BY <1>2, <1>3 DEF Types
    <3> QED BY <1>1, <1>2, <1>3, <3>1 DEF dalloc, Types, s
  <2>5. exhausted' = exhausted
    BY <1>1 DEF dalloc
  <2> QED BY <1>2, <1>4, <2>1, <2>2, <2>3, <2>4, <2>5 DEF Types
<1>9. OneHolder'
  BY <1>2, <1>4 DEF OneHolder
<1>10. Heads'
  <2> SUFFICES ASSUME NEW d \in Cache, NEW z \in Size, free'[d][z] # NULL
               PROVE  /\ free'[d][z] \in Freed' \cap Pool(z)
                      /\ \A e \in Cache, y \in Size : free'[e][y] = free'[d][z] => e = d /\ y = z
    BY DEF Heads
  <2>1. \A e \in Cache, y \in Size : free[e][y] # b
    BY <1>2, <1>3 DEF Heads
  <2> QED BY <1>2, <1>3, <1>5, <1>6, <2>1 DEF Heads
<1>11. Links'
  <2> SUFFICES ASSUME NEW x \in Freed', link'[x] # NULL
               PROVE  /\ link'[x] \in Freed' /\ link'[x][1] = x[1]
                      /\ \A y \in Freed' : link'[y] = link'[x] => y = x
                      /\ \A d \in Cache, z \in Size : free'[d][z] # link'[x]
    BY DEF Links
  <2>1. \A y \in Freed : y # b /\ y \in Buffer /\ link'[y] = link[y]
    BY <1>2, <1>3, <1>7, CarvedIs DEF Freed, Types
  <2>2. link'[b] = free[c][s]
    BY <1>3, <1>7
  <2>3. \A y \in Freed : link[y] # b
    BY <1>2, <1>3 DEF Links
  <2>4. \A y \in Freed : free[c][s] # NULL => link[y] # free[c][s]
    BY <1>2, <1>3 DEF Links
  <2>5. CASE x = b
    <3>1. link'[x] = free[c][s] /\ free[c][s] \in Freed /\ free[c][s] \in Pool(s)
      BY <1>2, <1>3, <2>2, <2>5 DEF Heads
    <3>2. link'[x][1] = x[1]
      BY <1>3, <2>1, <2>5, <3>1, PoolIs
    <3>3. \A y \in Freed' : link'[y] = link'[x] => y = x
      BY <1>5, <2>1, <2>2, <2>4, <2>5
    <3>4. \A d \in Cache, z \in Size : free'[d][z] # link'[x]
      BY <1>2, <1>3, <1>6, <2>1, <2>5, <3>1 DEF Heads
    <3> QED BY <1>5, <3>1, <3>2, <3>3, <3>4
  <2>6. CASE x \in Freed
    <3>1. link'[x] = link[x] /\ link[x] # NULL
      BY <2>1, <2>6
    <3>2. link[x] \in Freed /\ link[x][1] = x[1]
      BY <1>2, <2>6, <3>1 DEF Links
    <3>3. \A y \in Freed' : link'[y] = link'[x] => y = x
      BY <1>2, <1>3, <1>5, <2>1, <2>2, <2>4, <2>6, <3>1 DEF Links
    <3>4. \A d \in Cache, z \in Size : free'[d][z] # link'[x]
      BY <1>2, <1>6, <2>3, <2>6, <3>1 DEF Links
    <3> QED BY <1>5, <3>1, <3>2, <3>3, <3>4
  <2> QED BY <1>5, <2>5, <2>6
<1>12. BP!Take(c)
  <2>1. b \in held[c] \ held'[c]
    BY <1>1, <1>2 DEF Types
  <2> QED BY <1>1, <1>4, <2>1 DEF BP!Take, dalloc, Runs, InReach
<1>13. Chains' /\ Covered'
  BY <1>3, <1>5, <1>6, <1>7, PushLists
<1> QED BY <1>8, <1>9, <1>10, <1>11, <1>12, <1>13 DEF IInv

(* A step that touches neither the lists nor who holds what.               *)
LEMMA Idle ==
  ASSUME IInv, UNCHANGED <<index, lists, held>>, exhausted' \in BOOLEAN
  PROVE  IInv'
<1>1. Types' /\ OneHolder' /\ Heads' /\ Links' /\ Freed' = Freed
  BY DEF lists, IInv, Types, OneHolder, Heads, Links, Freed, carved
<1>2. Chains' /\ Covered'
  BY <1>1, SameLists DEF IInv
<1> QED BY <1>1, <1>2 DEF IInv

LEMMA NextStep ==
  ASSUME Apart, IInv, [Next]_vars
  PROVE  IInv' /\ [BP!Next]_<<held, ~InReach>>
<1> DEFINE Mapped == [BP!Next]_<<held, ~InReach>>
<1>1. ASSUME NEW c \in Cache, Release(c) PROVE IInv' /\ Mapped
  BY <1>1, ReleaseStep DEF BP!Next
<1>2. ASSUME NEW c \in Cache, NEW s \in Size, Acquire(c, s) PROVE IInv' /\ Mapped
  BY <1>2, AcquireStep DEF BP!Next, BP!Size, Size
<1>3. ASSUME NEW c \in Cache, NEW s \in Size, Exhaust(c, s) PROVE IInv' /\ Mapped
  BY <1>3, Idle DEF Exhaust, InReach
<1>4. CASE UNCHANGED vars
  BY <1>4, Idle DEF vars, IInv, Types, InReach
<1> QED BY <1>1, <1>2, <1>3, <1>4 DEF Next

(* A buffer is in one peer's hands at most, and what alloc() returns is in *)
(* nobody's yet, of the size asked for and apart from every buffer in use, *)
(* for as long as a peer frees only what it holds, and until the small     *)
(* pool has given out more than 32 bits of its size leave room for.        *)
THEOREM Implements == ASSUME Apart PROVE Spec => ImplementsPool
<1>1. Apart /\ Init => BP!Init
  BY Layout DEF Init, BP!Init, InReach, Size
<1>2. IInv /\ [Next]_vars => IInv' /\ [BP!Next]_<<held, ~InReach>>
  BY NextStep
<1>3. IInv /\ [Next]_vars =>
        [\A c \in Cache, s \in Size : Acquire(c, s) => BP!Give(c, s)]_vars
  BY AcquireStep
<1> QED BY <1>1, <1>2, <1>3, InitIInv, PTL DEF Spec, ImplementsPool, BP!Spec
-----------------------------------------------------------------------------
(* Following a free list's links goes through just the buffers on it.      *)
LEMMA NthIs ==
  ASSUME Apart, Types, NEW c \in Cache, NEW s \in Size, NEW q, List(c, s, q), NEW k \in Nat
  PROVE  Nth(c, s, k) = At(free_count[c][s], q, k)
<1> DEFINE n == free_count[c][s]
           S == Freed \cap Pool(s)
<1>1. n \in Nat /\ S \subseteq Buffer /\ NULL \notin Buffer
  BY CarvedIs DEF Types, Freed, Apart
<1>2. IsList(link, S, free[c][s], n, q)
  BY DEF List
<1>3. Nth(c, s, k) = Following(link, free[c][s], k)
  BY Zenon DEF Nth, Followed, Following
<1> HIDE DEF n, S
<1>4. Following(link, free[c][s], k) = At(n, q, k)
  BY <1>1, <1>2, Follow
<1> QED BY <1>3, <1>4 DEF n

(* So a list is as long as its count says, and no longer than there are    *)
(* buffers.                                                                *)
LEMMA OnListIs ==
  ASSUME Apart, IsFiniteSet(Buffer), Types, NEW c \in Cache, NEW s \in Size,
         NEW q, List(c, s, q)
  PROVE  /\ OnList(c, s) = {q[i] : i \in 1..free_count[c][s]}
         /\ Nth(c, s, Cardinality(Buffer)) = NULL
         /\ free_count[c][s] = Cardinality(OnList(c, s))
<1> DEFINE n == free_count[c][s]
           m == Cardinality(Buffer)
           R == {q[i] : i \in 1..n}
<1>1. n \in Nat /\ m \in Nat /\ NULL \notin Buffer /\ Freed \subseteq Buffer
  BY FS_CardinalityType, CarvedIs DEF Types, Apart, Freed
<1>2. /\ q \in [1..n -> Freed \cap Pool(s)]
      /\ \A i, j \in 1..n : q[i] = q[j] => i = j
  BY DEF List, IsList
<1>3. \A k \in 0..m : Nth(c, s, k) = At(n, q, k)
  <2>1. \A k \in 0..m : k \in Nat
    OBVIOUS
  <2> QED BY <2>1, NthIs, Zenon
<1>4. R \subseteq Buffer
  BY <1>1, <1>2
<1>5. Cardinality(R) = n
  <2>1. q \in Bijection(1..n, R)
    BY <1>2 DEF Bijection, Injection, Surjection, IsInjective
  <2>2. ExistsBijection(1..n, R)
    BY <2>1 DEF ExistsBijection
  <2> HIDE DEF R, n
  <2> QED BY <1>1, <2>2, FS_CountingElements
<1>6. n <= m
  <2> HIDE DEF R, n
  <2>1. Cardinality(R) <= m
    BY <1>4, FS_Subset
  <2> QED BY <1>5, <2>1
<1>7. OnList(c, s) = R
  <2>1. ASSUME NEW x \in OnList(c, s) PROVE x \in R
    <3>1. PICK k \in 0..m : x = Nth(c, s, k) /\ x # NULL
      BY <2>1 DEF OnList
    <3>2. k < n /\ x = q[k + 1]
      BY <1>3, <3>1 DEF At
    <3>3. k + 1 \in 1..n
      BY <1>1, <3>1, <3>2
    <3> QED BY <3>2, <3>3
  <2>2. ASSUME NEW i \in 1..n PROVE q[i] \in OnList(c, s)
    <3>1. i - 1 \in 0..m /\ i - 1 < n /\ i - 1 + 1 = i
      BY <1>1, <1>6
    <3>2. Nth(c, s, i - 1) = q[i]
      BY <1>3, <3>1 DEF At
    <3>3. q[i] # NULL
      BY <1>1, <1>2
    <3> QED BY <3>1, <3>2, <3>3 DEF OnList
  <2> QED BY <2>1, <2>2
<1>8. Nth(c, s, m) = NULL
  <2>1. m \in 0..m /\ ~(m < n)
    BY <1>1, <1>6
  <2> QED BY <1>3, <2>1 DEF At
<1> QED BY <1>5, <1>7, <1>8

LEMMA Finite == ASSUME Apart PROVE IsFiniteSet(Buffer)
<1>1. ASSUME NEW s \in Size PROVE IsFiniteSet(Pool(s))
  <2>1. index_max(s) - 1 \in Int
    BY Layout
  <2>2. IsFiniteSet(0..(index_max(s) - 1))
    BY <2>1, FS_Interval
  <2>3. IsFiniteSet({s})
    BY FS_Singleton
  <2> QED BY <2>2, <2>3, FS_Product DEF Pool
<1> QED BY <1>1, FS_Union DEF Buffer, Size

LEMMA Sound ==
  ASSUME Apart, IsFiniteSet(Buffer), IInv
  PROVE  ListsSound /\ Conserved
<1> USE DEF IInv
<1>1. ListsSound
  <2> SUFFICES ASSUME NEW c \in Cache, NEW s \in Size
               PROVE  /\ Nth(c, s, Cardinality(Buffer)) = NULL
                      /\ OnList(c, s) \subseteq carved \cap Pool(s)
                      /\ free_count[c][s] = Cardinality(OnList(c, s))
    BY DEF ListsSound
  <2>1. PICK q : List(c, s, q)
    BY DEF Chains
  <2>2. /\ OnList(c, s) = {q[i] : i \in 1..free_count[c][s]}
        /\ Nth(c, s, Cardinality(Buffer)) = NULL
        /\ free_count[c][s] = Cardinality(OnList(c, s))
    BY <2>1, OnListIs, Zenon
  <2>3. \A i \in 1..free_count[c][s] : q[i] \in carved \cap Pool(s)
    BY <2>1 DEF List, IsList, Freed
  <2> QED BY <2>2, <2>3
<1>2. ASSUME NEW c \in Cache, NEW s \in Size, NEW q, List(c, s, q)
      PROVE  OnList(c, s) = {q[i] : i \in 1..free_count[c][s]} /\ OnList(c, s) \subseteq Freed
  <2>1. OnList(c, s) = {q[i] : i \in 1..free_count[c][s]}
    BY <1>2, OnListIs
  <2>2. \A i \in 1..free_count[c][s] : q[i] \in Freed
    BY <1>2 DEF List, IsList
  <2> QED BY <2>1, <2>2
<1>3. \A c \in Cache, s \in Size : OnList(c, s) \subseteq Freed
  BY <1>2, Zenon DEF Chains
<1>4. ASSUME NEW b \in Freed PROVE \E c \in Cache, s \in Size : b \in OnList(c, s)
  <2>1. PICK c \in Cache, s \in Size :
          \E q : List(c, s, q) /\ \E i \in 1..free_count[c][s] : q[i] = b
    BY DEF Covered
  <2>2. PICK q : List(c, s, q) /\ \E i \in 1..free_count[c][s] : q[i] = b
    BY <2>1
  <2>3. b \in OnList(c, s)
    BY <1>2, <2>2
  <2> QED BY <2>3
<1>5. \A c \in Cache : held[c] \subseteq carved
  BY DEF Types
<1>6. Conserved
  BY <1>3, <1>4, <1>5 DEF Conserved, Freed, Size
<1> QED BY <1>1, <1>6

(* Every variable keeps its type: a count never goes below zero, and no    *)
(* free list leads to the first word of a buffer in use.                   *)
THEOREM TypeCorrect == ASSUME Apart PROVE Spec => []TypeOK
<1>1. IInv /\ [Next]_vars => IInv'
  BY NextStep
<1>2. IInv => TypeOK
  BY CarvedIs DEF IInv, Types, TypeOK
<1> QED BY <1>1, <1>2, InitIInv, PTL DEF Spec

(* A free list ends, is as long as free_count says, and holds buffers that *)
(* were carved from the pool of its size only; and every buffer that the   *)
(* pools have given out is in somebody's hands or on somebody's list.      *)
THEOREM NoneLost == ASSUME Apart PROVE Spec => [](ListsSound /\ Conserved)
<1>1. IInv /\ [Next]_vars => IInv'
  BY NextStep
<1>2. IInv => ListsSound /\ Conserved
  BY Finite, Sound
<1> QED BY <1>1, <1>2, InitIInv, PTL DEF Spec

(* The pools would be isolated, from the first buffer to the last, if the  *)
(* small pool's size fitted the 32 bits that it is computed in.            *)
THEOREM WouldFit ==
  ASSUME Apart, SMALL_MAX * SMALL < UINT32
  PROVE  Spec => []Isolated
<1>1. IInv /\ [Next]_vars => IInv'
  BY NextStep
<1>2. ASSUME IInv PROVE Isolated
  <2>1. Types
    BY <1>2 DEF IInv
  <2> DEFINE n == index["small"]
  <2>2. n \in Nat /\ SMALL_MAX \in Nat /\ SMALL \in Nat /\ UINT32 \in Nat \ {0} /\ n <= SMALL_MAX
    BY <2>1 DEF Types, Size, index_max, Apart, PoolsAssumption
  <2>3. buf("large") = SMALL_MAX * SMALL
    <3>1. SMALL_MAX * SMALL \in Nat
      BY <2>2
    <3> HIDE DEF n
    <3> QED BY <2>2, <3>1 DEF buf
  <2>4. SMALL * n <= buf("large")
    <3> HIDE DEF n
    <3>1. SMALL * n <= SMALL * SMALL_MAX
      BY <2>2, Times
    <3> QED BY <2>2, <2>3, <3>1
  <2>5. ASSUME NEW c \in Cache, NEW b \in held[c] PROVE b \in Buffer /\ (b[1] = "small" => b[2] < n)
    <3>1. b \in carved
      BY <2>1 DEF Types
    <3> QED BY <3>1 DEF carved
  <2> HIDE DEF n
  <2> QED BY <2>2, <2>4, <2>5, Disjoint DEF Isolated
<1> QED BY <1>1, <1>2, InitIInv, PTL DEF Spec
=============================================================================
