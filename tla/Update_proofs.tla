---------------------------- MODULE Update_proofs ---------------------------
(***************************************************************************)
(* What an UPDATE message becomes on its way through the program, for any  *)
(* message of whole prefixes and paths and any widths.                     *)
(*                                                                         *)
(* First the attributes: what the recursive functions compute, with the    *)
(* least counterexample in the place of induction; what as_path_count(),   *)
(* get(), copy() and prepend() return; SInv, which relates what has been   *)
(* written to how far the cursors are.  Then the prefixes: the arithmetic  *)
(* of the codecs on octets, where the walk over a field goes, and NInv,    *)
(* which follows every prefix of the message through the table to the      *)
(* field that is written.  Last, Budget counts the octets.                 *)
(***************************************************************************)
EXTENDS Update, FiniteSetTheorems, SequenceTheorems, TLAPS

(* Every set of natural numbers has a least: a least counterexample serves *)
(* for induction.                                                          *)
LEMMA Least ==
  ASSUME NEW T, T \subseteq Nat, T # {}
  PROVE  \E x \in T : \A y \in T : x <= y
<1> DEFINE R == OpToRel(<, Nat)
<1>1. R = {ss \in Nat \X Nat : ss[1] < ss[2]}
  BY Zenon DEF OpToRel
<1>2. IsWellFoundedOn(R, Nat)
  BY NatLessThanWellFounded, Zenon
<1> HIDE DEF R
<1>3. PICK x \in T : \A y \in T : ~(<<y, x>> \in R)
  BY <1>2, WFMin
<1>4. ASSUME NEW y \in T PROVE x <= y
  <2>1. ~(y < x)
    BY <1>1, <1>3
  <2> QED BY <2>1
<1> QED BY <1>4

(* What holds of no least number holds of none: T is where it fails.       *)
Descends(T) == \A x \in T : \E y \in T : y < x
LEMMA Nowhere ==
  ASSUME NEW T, T \subseteq Nat, Descends(T)
  PROVE  T = {}
<1> SUFFICES ASSUME T # {} PROVE FALSE
  OBVIOUS
<1>1. PICK x \in T : \A y \in T : x <= y
  BY Least
<1>2. PICK y \in T : y < x
  BY DEF Descends
<1> QED BY <1>1, <1>2

(* Two functions that go on in the same way are the same.                  *)
Alike(g, h, n) == \A i \in 1..n : g[i - 1] = h[i - 1] => g[i] = h[i]
LEMMA Agree ==
  ASSUME NEW n \in Nat, NEW g, NEW h, g[0] = h[0], Alike(g, h, n)
  PROVE  \A i \in 0..n : g[i] = h[i]
<1> DEFINE T == {i \in 0..n : g[i] # h[i]}
<1>1. T \subseteq Nat
  OBVIOUS
<1>2. Descends(T)
  <2> SUFFICES ASSUME NEW i \in T PROVE \E y \in T : y < i
    BY DEF Descends
  <2>1. i \in 1..n /\ i - 1 \in 0..n
    OBVIOUS
  <2>2. g[i - 1] # h[i - 1]
    BY <2>1 DEF Alike
  <2> QED BY <2>1, <2>2
<1> HIDE DEF T
<1>3. T = {}
  BY <1>1, <1>2, Nowhere
<1> QED BY <1>3 DEF T

(* A function whose values from 0 to n are made from the ones before them. *)
Recursive(D, n, x, step, g) ==
  /\ g \in [0..n -> D] /\ g[0] = x
  /\ \A i \in 1..n : g[i] = step[<<i, g[i - 1]>>]

(* A recursive function exists.                                            *)
LEMMA Recursion ==
  ASSUME NEW D, NEW n \in Nat, NEW x \in D, NEW step \in [Nat \X D -> D]
  PROVE  \E g : Recursive(D, n, x, step, g)
<1> DEFINE Has(k) == \E g : Recursive(D, k, x, step, g)
           T == {k \in Nat : ~Has(k)}
<1> USE DEF Recursive
<1>1. Has(0)
  <2> DEFINE g == [i \in 0..0 |-> x]
  <2>1. \A i \in 0..0 : g[i] = x
    OBVIOUS
  <2>2. g \in [0..0 -> D] /\ g[0] = x
    BY <2>1
  <2> HIDE DEF g
  <2>3. \A i \in 1..0 : g[i] = step[<<i, g[i - 1]>>]
    OBVIOUS
  <2> QED BY <2>2, <2>3
<1>2. ASSUME NEW k \in Nat \ {0}, Has(k - 1) PROVE Has(k)
  <2>1. PICK g \in [0..(k - 1) -> D] : g[0] = x /\ \A i \in 1..(k - 1) : g[i] = step[<<i, g[i - 1]>>]
    BY <1>2
  <2> DEFINE h == [i \in 0..k |-> IF i = k THEN step[<<k, g[k - 1]>>] ELSE g[i]]
  <2>2. g[k - 1] \in D /\ step[<<k, g[k - 1]>>] \in D
    BY <2>1
  <2>3. h \in [0..k -> D]
    <3> SUFFICES ASSUME NEW i \in 0..k PROVE h[i] \in D
      OBVIOUS
    <3>1. CASE i = k
      BY <2>2, <3>1
    <3>2. CASE i # k
      BY <2>1, <3>2
    <3> QED BY <3>1, <3>2
  <2>4. h[0] = x
    BY <2>1
  <2>5. ASSUME NEW i \in 1..k PROVE h[i] = step[<<i, h[i - 1]>>]
    <3>1. i \in 0..k /\ i - 1 \in 0..k /\ i - 1 # k /\ h[i - 1] = g[i - 1]
      OBVIOUS
    <3>2. CASE i = k
      BY <3>1, <3>2
    <3>3. CASE i # k
      BY <2>1, <3>1, <3>3
    <3> QED BY <3>2, <3>3
  <2> HIDE DEF h
  <2> QED BY <2>3, <2>4, <2>5
<1> HIDE DEF Has
<1>3. Descends(T)
  <2> SUFFICES ASSUME NEW k \in T PROVE \E y \in T : y < k
    BY DEF Descends
  <2>1. k \in Nat \ {0} /\ k - 1 \in Nat /\ k - 1 < k
    BY <1>1
  <2> QED BY <1>2, <2>1
<1>4. T = {}
  <2>1. T \subseteq Nat
    OBVIOUS
  <2> HIDE DEF T
  <2> QED BY <1>3, <2>1, Nowhere
<1>5. Has(n)
  BY <1>4
<1> QED BY <1>5 DEF Has

(* The function that a LET declares, for numbers.  step need not be a      *)
(* function on all numbers: next is what the declaration says.             *)
Numbers(f, n) == \A i \in 1..n : f[i] \in Nat
Summing(f, n, h) == h = [i \in 0..n |-> IF i = 0 THEN 0 ELSE h[i - 1] + f[i]]
(* Total() of numbers is such a sum, term by term.                         *)
LEMMA TotalIs ==
  ASSUME NEW f, NEW n \in Nat, Numbers(f, n)
  PROVE  \E g \in [0..n -> Nat] : /\ g[0] = 0 /\ \A i \in 1..n : g[i] = g[i - 1] + f[i]
                                  /\ Total(f, n) = g[n]
<1> DEFINE step == [y \in Nat \X Nat |-> IF y[1] \in 1..n THEN y[2] + f[y[1]] ELSE 0]
<1>1. step \in [Nat \X Nat -> Nat]
  BY DEF Numbers
<1>2. \A i \in 1..n, y \in Nat : step[<<i, y>>] = y + f[i]
  OBVIOUS
<1> HIDE DEF step
<1>3. PICK g : Recursive(Nat, n, 0, step, g)
  BY <1>1, Recursion
<1>4. g \in [0..n -> Nat] /\ g[0] = 0 /\ \A i \in 1..n : g[i] = g[i - 1] + f[i]
  <2>1. \A i \in 1..n : i - 1 \in 0..n
    OBVIOUS
  <2> QED BY <1>2, <1>3, <2>1 DEF Recursive
<1>5. Summing(f, n, g)
  <2>1. g = [i \in 0..n |-> g[i]]
    BY <1>4
  <2>2. \A i \in 0..n : g[i] = IF i = 0 THEN 0 ELSE g[i - 1] + f[i]
    BY <1>4
  <2> QED BY <2>1, <2>2 DEF Summing
<1>6. ASSUME NEW h, Summing(f, n, h) PROVE h[n] = g[n]
  <2>1. \A i \in 0..n : h[i] = IF i = 0 THEN 0 ELSE h[i - 1] + f[i]
    BY <1>6 DEF Summing
  <2>2. h[0] = g[0] /\ Alike(h, g, n)
    BY <1>4, <2>1 DEF Alike
  <2> QED BY <2>2, Agree
<1>7. Total(f, n) = (CHOOSE h : Summing(f, n, h))[n]
  BY Zenon DEF Total, Summing
<1>8. Summing(f, n, CHOOSE h : Summing(f, n, h))
  BY <1>5, Zenon
<1>9. Total(f, n) = g[n]
  BY <1>6, <1>7, <1>8, Zenon
<1> QED BY <1>4, <1>9

(* A sum is made up term by term.                                          *)
LEMMA TotalStep ==
  ASSUME NEW f, NEW n \in Nat, Numbers(f, n)
  PROVE  /\ Total(f, n) \in Nat /\ (n = 0 => Total(f, n) = 0)
         /\ \A k \in 1..n : /\ Total(f, k) \in Nat /\ Total(f, k - 1) \in Nat
                            /\ Total(f, k) = Total(f, k - 1) + f[k]
<1> DEFINE Sums(m, g) == /\ g \in [0..m -> Nat] /\ g[0] = 0
                         /\ \A i \in 1..m : g[i] = g[i - 1] + f[i]
                         /\ Total(f, m) = g[m]
<1>1. \A m \in 0..n : \E g : Sums(m, g)
  <2> SUFFICES ASSUME NEW m \in 0..n PROVE \E g : Sums(m, g)
    OBVIOUS
  <2>1. Numbers(f, m) /\ m \in Nat
    BY DEF Numbers
  <2> QED BY <2>1, TotalIs
<1>2. \A m \in 0..n : Total(f, m) \in Nat
  BY <1>1
<1>3. n = 0 => Total(f, n) = 0
  BY <1>1
<1>4. ASSUME NEW k \in 1..n PROVE Total(f, k) = Total(f, k - 1) + f[k]
  <2>1. k \in 0..n /\ k - 1 \in 0..n
    OBVIOUS
  <2>2. PICK g : Sums(k, g)
    BY <1>1, <2>1
  <2>3. PICK h : Sums(k - 1, h)
    BY <1>1, <2>1
  <2>4. Alike(g, h, k - 1) /\ g[0] = h[0] /\ k - 1 \in Nat
    BY <2>2, <2>3 DEF Alike
  <2>5. \A i \in 0..(k - 1) : g[i] = h[i]
    BY <2>4, Agree
  <2>6. g[k - 1] = h[k - 1] /\ g[k] = g[k - 1] + f[k]
    BY <2>2, <2>5
  <2> QED BY <2>2, <2>3, <2>6
<1>5. \A k \in 1..n : k \in 0..n /\ k - 1 \in 0..n
  OBVIOUS
<1>6. n \in 0..n
  OBVIOUS
<1> HIDE DEF Sums
<1> QED BY <1>2, <1>3, <1>4, <1>5, <1>6

-----------------------------------------------------------------------------
(* The size of a value, and get().                                         *)
Sizes(s) == [i \in DOMAIN s |-> s[i].size]
(* The size of a value is the sum of the sizes of its items, and a number. *)
LEMMA SizesNat ==
  ASSUME NEW s \in Seq(Items)
  PROVE  /\ Len(s) \in Nat /\ Numbers(Sizes(s), Len(s)) /\ Size(s) = Total(Sizes(s), Len(s))
         /\ Size(s) \in Nat /\ \A i \in 1..Len(s) : s[i].size \in Nat /\ Sizes(s)[i] = s[i].size
<1>1. Len(s) \in Nat /\ DOMAIN s = 1..Len(s)
  OBVIOUS
<1>2. \A i \in 1..Len(s) : s[i].size \in Nat /\ Sizes(s)[i] = s[i].size
  <2> SUFFICES ASSUME NEW i \in 1..Len(s) PROVE s[i].size \in Nat /\ Sizes(s)[i] = s[i].size
    OBVIOUS
  <2>1. s[i] \in Items /\ i \in DOMAIN s
    OBVIOUS
  <2>2. s[i].size \in Nat
    BY <2>1 DEF Items
  <2> QED BY <2>1, <2>2 DEF Sizes
<1>3. Numbers(Sizes(s), Len(s))
  BY <1>2 DEF Numbers
<1>4. Size(s) = Total(Sizes(s), Len(s))
  BY DEF Size, Sizes
<1> QED BY <1>1, <1>2, <1>3, <1>4, TotalStep

(* Sums that begin alike are alike as far as that.                         *)
AlikeTo(f, g, n) == \A i \in 1..n : f[i] = g[i]
LEMMA TotalAlike ==
  ASSUME NEW f, NEW g, NEW n \in Nat, Numbers(f, n), AlikeTo(f, g, n)
  PROVE  Total(f, n) = Total(g, n)
<1>1. Numbers(g, n)
  BY DEF Numbers, AlikeTo
<1>2. PICK F \in [0..n -> Nat] : /\ F[0] = 0 /\ \A i \in 1..n : F[i] = F[i - 1] + f[i]
                                 /\ Total(f, n) = F[n]
  BY TotalIs
<1>3. PICK G \in [0..n -> Nat] : /\ G[0] = 0 /\ \A i \in 1..n : G[i] = G[i - 1] + g[i]
                                 /\ Total(g, n) = G[n]
  BY <1>1, TotalIs
<1>4. Alike(F, G, n) /\ F[0] = G[0]
  BY <1>2, <1>3 DEF Alike, AlikeTo
<1>5. \A i \in 0..n : F[i] = G[i]
  BY <1>4, Agree
<1>6. n \in 0..n
  OBVIOUS
<1> QED BY <1>2, <1>3, <1>5, <1>6

(* A sum that skips: g goes on from b as f does from a.                    *)
Shifted(f, a, g, b, n) == \A i \in 1..n : g[b + i] = f[a + i]
LEMMA TotalShifted ==
  ASSUME NEW f, NEW g, NEW a \in Nat, NEW b \in Nat, NEW n \in Nat,
         Numbers(f, a + n), Numbers(g, b + n), Shifted(f, a, g, b, n)
  PROVE  Total(g, b + n) - Total(g, b) = Total(f, a + n) - Total(f, a)
<1> DEFINE T == {k \in 0..n : Total(g, b + k) - Total(g, b) # Total(f, a + k) - Total(f, a)}
<1>1. \A k \in 0..n : Total(g, b + k) \in Nat /\ Total(f, a + k) \in Nat
  <2> SUFFICES ASSUME NEW k \in 0..n PROVE Total(g, b + k) \in Nat /\ Total(f, a + k) \in Nat
    OBVIOUS
  <2>1. Numbers(f, a + k) /\ Numbers(g, b + k) /\ a + k \in Nat /\ b + k \in Nat
    BY DEF Numbers
  <2> QED BY <2>1, TotalStep
<1>2. Descends(T)
  <2> SUFFICES ASSUME NEW k \in T PROVE \E y \in T : y < k
    BY DEF Descends
  <2>1. k # 0
    BY <1>1
  <2>2. k - 1 \in 0..n /\ k - 1 < k /\ b + k \in 1..(b + n) /\ a + k \in 1..(a + n)
        /\ b + k - 1 = b + (k - 1) /\ a + k - 1 = a + (k - 1) /\ k \in 1..n
    BY <2>1
  <2>3. Total(g, b + k) = Total(g, b + k - 1) + g[b + k]
    BY <2>2, TotalStep
  <2>4. Total(f, a + k) = Total(f, a + k - 1) + f[a + k]
    BY <2>2, TotalStep
  <2>5. g[b + k] = f[a + k] /\ f[a + k] \in Nat
    BY <2>2 DEF Shifted, Numbers
  <2>6. Total(g, b + 0) \in Nat /\ Total(f, a + 0) \in Nat /\ b + 0 = b /\ a + 0 = a
    BY <1>1
  <2>7. k - 1 \in T
    <3> SUFFICES ASSUME Total(g, b + (k - 1)) - Total(g, b) = Total(f, a + (k - 1)) - Total(f, a)
                 PROVE  FALSE
      BY <2>2
    <3> DEFINE x == Total(g, b + (k - 1))
               y == Total(f, a + (k - 1))
               z == Total(g, b)
               w == Total(f, a)
               d == f[a + k]
    <3>1. x \in Nat /\ y \in Nat /\ z \in Nat /\ w \in Nat /\ d \in Nat /\ x - z = y - w
      BY <1>1, <2>2, <2>5, <2>6
    <3>2. Total(g, b + k) = x + d /\ Total(f, a + k) = y + d
      BY <2>2, <2>3, <2>4, <2>5
    <3>3. Total(g, b + k) - z # Total(f, a + k) - w
      OBVIOUS
    <3> HIDE DEF x, y, z, w, d, T
    <3>4. (x + d) - z = (y + d) - w
      BY <3>1
    <3> QED BY <3>2, <3>3, <3>4
  <2> QED BY <2>2, <2>7
<1>3. T \subseteq Nat /\ n \in 0..n
  OBVIOUS
<1> HIDE DEF T
<1>4. T = {}
  BY <1>2, <1>3, Nowhere
<1> QED BY <1>3, <1>4 DEF T

(* What get() finds: the first attribute from r on whose type is not below *)
(* the one wanted, if it is of that type.                                  *)
Passes(s, k, i, w) == \A j \in k..(i - 1) : s[j].type < w
Got(s, k, w, g) ==
  /\ g.r \in k..(Len(s) + 1)
  /\ g.attr_ptr # 0 =>
       /\ g.attr_ptr \in k..Len(s) /\ s[g.attr_ptr].type = w
       /\ g.r = g.attr_ptr + 1 /\ Passes(s, k, g.attr_ptr, w)
  /\ g.attr_ptr = 0 =>
       \/ g.r = Len(s) + 1 /\ Passes(s, k, g.r, w)
       \/ g.r - 1 \in k..Len(s) /\ s[g.r - 1].type > w /\ Passes(s, k, g.r - 1, w)
Typed(s) == \A i \in 1..Len(s) : s[i].type \in Nat
LEMMA GetIs ==
  ASSUME NEW s, Len(s) \in Nat, Typed(s), NEW k \in 1..(Len(s) + 1), NEW w \in Nat
  PROVE  Got(s, k, w, get(s, k, w))
<1> DEFINE rest == {i \in k..Len(s) : s[i].type >= w}
           stop == IF rest = {} THEN Len(s) + 1 ELSE Min(rest)
           ptr == IF rest # {} /\ s[stop].type = w THEN stop ELSE 0
           after == IF rest = {} THEN stop ELSE stop + 1
<1>1. get(s, k, w).r = after /\ get(s, k, w).attr_ptr = ptr
  BY Zenon DEF get
<1>2. CASE rest = {}
  <2>1. \A j \in k..Len(s) : s[j].type < w
    BY <1>2 DEF Typed
  <2>2. after = Len(s) + 1 /\ ptr = 0
    BY <1>2
  <2> HIDE DEF rest, after, ptr, stop
  <2> QED BY <1>1, <2>1, <2>2 DEF Got, Passes
<1>3. CASE rest # {}
  <2>1. rest \subseteq Nat
    OBVIOUS
  <2>2. PICK x \in rest : \A y \in rest : x <= y
    <3> HIDE DEF rest
    <3> QED BY <1>3, <2>1, Least
  <2>3. Min(rest) \in rest /\ \A y \in rest : Min(rest) <= y
    BY <2>2 DEF Min
  <2>4. stop \in k..Len(s) /\ s[stop].type >= w /\ stop = Min(rest)
    BY <1>3, <2>3
  <2>5. \A j \in k..(stop - 1) : s[j].type < w
    <3> SUFFICES ASSUME NEW j \in k..(stop - 1) PROVE s[j].type < w
      OBVIOUS
    <3>1. j \in k..Len(s) /\ ~(stop <= j)
      BY <2>4
    <3>2. j \notin rest
      BY <2>3, <2>4, <3>1
    <3> QED BY <3>1, <3>2 DEF Typed
  <2>6. after = stop + 1
    BY <1>3
  <2>7. CASE s[stop].type = w
    <3>1. ptr = stop
      BY <1>3, <2>7
    <3> HIDE DEF rest, stop, ptr, after
    <3> QED BY <1>1, <2>4, <2>5, <2>6, <2>7, <3>1 DEF Got, Passes
  <2>8. CASE s[stop].type # w
    <3>1. ptr = 0
      BY <2>8
    <3>2. stop + 1 - 1 = stop /\ s[stop].type \in Nat /\ s[stop].type > w
      <4> HIDE DEF rest, stop, ptr, after
      <4>1. stop \in 1..Len(s)
        BY <2>4
      <4>2. s[stop].type \in Nat
        BY <4>1 DEF Typed
      <4> QED BY <2>4, <2>8, <4>1, <4>2
    <3> HIDE DEF rest, stop, ptr, after
    <3> QED BY <1>1, <2>4, <2>5, <2>6, <3>1, <3>2 DEF Got, Passes
  <2> QED BY <2>7, <2>8
<1> QED BY <1>2, <1>3

(* bswap_32() and the store undo each other.                               *)
LEMMA Swapped ==
  ASSUME NEW S, NEW s \in Seq(S)
  PROVE  Store(bswap_32(s)) = s
<1>1. Len(s) \in Nat /\ s = [i \in 1..Len(s) |-> s[i]]
  OBVIOUS
<1>2. Reverse(s) = [i \in 1..Len(s) |-> s[Len(s) - i + 1]]
  BY DEF Reverse
<1>3. Len(Reverse(s)) = Len(s)
  <2>1. \A i \in 1..Len(s) : Len(s) - i + 1 \in 1..Len(s)
    OBVIOUS
  <2>2. Reverse(s) \in Seq(S) /\ DOMAIN Reverse(s) = 1..Len(s)
    BY <1>2, <2>1
  <2> QED BY <2>2
<1>4. Reverse(Reverse(s)) = [i \in 1..Len(s) |-> Reverse(s)[Len(s) - i + 1]]
  BY <1>3 DEF Reverse
<1>5. \A i \in 1..Len(s) : Len(s) - i + 1 \in 1..Len(s) /\ Len(s) - (Len(s) - i + 1) + 1 = i
  OBVIOUS
<1>6. \A i \in 1..Len(s) : Reverse(s)[Len(s) - i + 1] = s[i]
  BY <1>2, <1>5
<1>7. Reverse(Reverse(s)) = [i \in 1..Len(s) |-> s[i]]
  BY <1>4, <1>6
<1> QED BY <1>1, <1>7 DEF Store, bswap_32

-----------------------------------------------------------------------------
(* What the serializers write.                                             *)
Outs == [type : Nat, extended : BOOLEAN, length : Nat, value : Seq(Items)]
Fits(x) == x.length = Size(x.value) /\ x.extended = (x.length >= UINT8)
Bares(x) == [type |-> x.type, value |-> x.value]

IsWritten(x, type, length, s) ==
  /\ x \in Outs /\ x.type = type /\ x.length = length /\ x.value = s
  /\ x.extended = (x.length >= UINT8) /\ Bares(x) = [type |-> type, value |-> s]
LEMMA WrittenIs ==
  ASSUME NEW type \in Nat, NEW length \in Nat, NEW s \in Seq(Items)
  PROVE  IsWritten(Written(type, length, s), type, length, s)
<1>1. (length >= UINT8) \in BOOLEAN
  BY SMT, AttributesAssumption
<1> QED BY <1>1 DEF IsWritten, Written, Outs, Bares

(* copy() writes a header for the size of the value, and the value.        *)
LEMMA CopyIs ==
  ASSUME NEW type \in Nat, NEW s \in Seq(Items)
  PROVE  IsWritten(copy(type, s), type, Size(s), s)
<1>1. Size(s) \in Nat
  BY SizesNat
<1> QED BY <1>1, WrittenIs, Zenon DEF copy

(* What a sequence of two holds, as the value of a path with one AS.       *)
LEMMA Two ==
  ASSUME NEW S, NEW a \in S, NEW b \in S
  PROVE  LET s == <<a, b>> IN s \in Seq(S) /\ Len(s) = 2 /\ s[1] = a /\ s[2] = b
OBVIOUS

(* What set() writes is an octet.                                          *)
LEMMA SetIs ==
  ASSUME NEW type \in Nat, NEW s \in Seq(Items), IsOctets(s)
  PROVE  /\ FirstOctet(s) \in Items /\ Size(<<FirstOctet(s)>>) = 1
         /\ IsWritten(set(type, s), type, 1, <<FirstOctet(s)>>)
<1> DEFINE x == FirstOctet(s)
<1>1. x \in Items /\ x.size = 1
  <2>1. CASE s = <<>>
    <3>1. x = [size |-> 1, kind |-> "beyond", n |-> 0]
      BY <2>1 DEF FirstOctet, Item
    <3> QED BY <3>1 DEF Items
  <2>2. CASE s # <<>>
    <3>1. 1 \in DOMAIN s /\ s[1] \in Items
      BY <2>2
    <3> QED BY <2>2, <3>1 DEF FirstOctet, IsOctets
  <2> QED BY <2>1, <2>2
<1> HIDE DEF x
<1>2. <<x>> \in Seq(Items) /\ Len(<<x>>) = 1 /\ <<x>>[1] = x
  <2> HIDE DEF Items
  <2> QED BY <1>1
<1> DEFINE v == <<x>>
<1> HIDE DEF v
<1>3. v \in Seq(Items) /\ Len(v) = 1 /\ v[1] = x /\ DOMAIN v = 1..1
  BY <1>2 DEF v
<1>4. Numbers(Sizes(v), 1) /\ Sizes(v)[1] = 1
  BY <1>1, <1>3 DEF Numbers, Sizes
<1>5. Total(Sizes(v), 1) = Total(Sizes(v), 0) + Sizes(v)[1] /\ Total(Sizes(v), 0) = 0
  <2>1. 1 - 1 = 0 /\ 1 \in 1..1 /\ 1 \in Nat /\ 0 \in Nat
    OBVIOUS
  <2> DEFINE f == Sizes(v)
  <2>2. Numbers(f, 0)
    BY DEF Numbers
  <2> HIDE DEF f
  <2>3. Total(f, 0) = 0
    BY <2>1, <2>2, TotalStep
  <2>4. Numbers(f, 1)
    BY <1>4 DEF f
  <2>5. Total(f, 1) = Total(f, 1 - 1) + f[1]
    BY <2>1, <2>4, TotalStep
  <2> QED BY <2>1, <2>3, <2>5 DEF f
<1>6. Size(v) = 1
  <2>1. Size(v) = Total(Sizes(v), Len(v))
    BY DEF Size, Sizes
  <2> QED BY <1>3, <1>4, <1>5, <2>1
<1>7. IsWritten(Written(type, 1, v), type, 1, v)
  BY <1>3, WrittenIs
<1> QED BY <1>1, <1>6, <1>7 DEF set, x, v

(* prepend() of a path that begins with a sequence.                        *)
LEMMA PrependIs ==
  ASSUME NEW as \in Nat, NEW s \in Seq(Items), IsPath(s), s # <<>>
  PROVE  LET x == prepend(as, s)
         IN  x \in Outs /\ Fits(x) /\ x.type = AS_PATH /\ x.length = Size(s) + 4
<1> DEFINE head == SegmentHead("seq", s[1].n + 1)
           rest == SubSeq(s, 3, Len(s))
           new == <<head, AS(as)>> \o rest \o <<Beyond>>
<1>1. Len(s) \in Nat /\ 1 \in DOMAIN s /\ DOMAIN s = 1..Len(s) /\ Len(s) >= 1
  OBVIOUS
<1>2. s[1] \in Items /\ s[1].kind # "as" /\ s[1].n \in Nat /\ s[1].n > 0 /\ 1 + s[1].n <= Len(s)
      /\ s[1].size = 2
  <2>1. s[1] \in Items
    BY <1>1
  <2>2. s[1].n \in Nat
    BY <2>1 DEF Items
  <2> QED BY <1>1, <2>1, <2>2 DEF IsPath
<1>3. 2 \in DOMAIN s /\ 2 \in (1 + 1)..(1 + s[1].n) /\ Len(s) >= 2
  BY <1>1, <1>2
<1>4. s[2].kind = "as" /\ s[2].size = 4
  <2>1. s[2].kind = "as"
    BY <1>1, <1>2, <1>3 DEF IsPath
  <2> QED BY <1>3, <2>1 DEF IsPath
<1>5. head \in Items /\ AS(as) \in Items /\ Beyond \in Items
      /\ head.size = 2 /\ AS(as).size = 4 /\ Beyond.size = 4
  <2>1. s[1].n + 1 \in Nat
    BY <1>2
  <2> QED BY <2>1 DEF Items, SegmentHead, AS, Beyond, Item
<1>6. rest \in Seq(Items) /\ Len(rest) = Len(s) - 2 /\ \A i \in 1..(Len(s) - 2) : rest[i] = s[i + 2]
  <2>1. Len(s) - 3 + 1 = Len(s) - 2 /\ \A i \in 1..(Len(s) - 2) : 3 + i - 1 = i + 2
    BY <1>1
  <2>2. rest = [i \in 1..(Len(s) - 3 + 1) |-> s[3 + i - 1]]
    BY <1>1, <1>3
  <2>3. \A i \in 1..(Len(s) - 2) : s[i + 2] \in Items
    <3> SUFFICES ASSUME NEW i \in 1..(Len(s) - 2) PROVE s[i + 2] \in Items
      OBVIOUS
    <3>1. i + 2 \in 1..Len(s)
      BY <1>1
    <3> QED BY <3>1
  <2>4. rest \in Seq(Items) /\ Len(rest) = Len(s) - 2
    BY <1>1, <1>3, <2>1, <2>2, <2>3
  <2> QED BY <2>1, <2>2, <2>4
<1> HIDE DEF head, rest
<1> DEFINE two == <<head, AS(as)>>
           most == two \o rest
<1>7. new \in Seq(Items) /\ Len(new) = Len(s) + 1
      /\ new[1] = head /\ new[2] = AS(as) /\ new[Len(s) + 1] = Beyond
      /\ \A i \in 1..(Len(s) - 2) : new[i + 2] = s[i + 2]
  <2>1. two \in Seq(Items) /\ Len(two) = 2 /\ two[1] = head /\ two[2] = AS(as)
    BY <1>5, Two
  <2>2. new = most \o <<Beyond>>
    OBVIOUS
  <2> HIDE DEF two, new
  <2>3. most \in Seq(Items) /\ Len(most) = Len(two) + Len(rest)
        /\ \A i \in 1..(Len(two) + Len(rest)) : most[i] = IF i <= Len(two) THEN two[i] ELSE rest[i - Len(two)]
    <3>1. two \in Seq(Items) /\ rest \in Seq(Items)
      BY <1>6, <2>1
    <3> QED BY <3>1, ConcatProperties
  <2> HIDE DEF most
  <2>4. Len(most) = Len(s) /\ most[1] = head /\ most[2] = AS(as)
    <3>1. 1 \in 1..(2 + Len(rest)) /\ 2 \in 1..(2 + Len(rest)) /\ 2 + (Len(s) - 2) = Len(s)
      BY <1>1, <1>3, <1>6
    <3>2. Len(most) = Len(s)
      BY <1>6, <2>1, <2>3, <3>1
    <3>3. most[1] = two[1] /\ most[2] = two[2]
      <4>1. 1 <= Len(two) /\ 2 <= Len(two)
        BY <2>1
      <4>2. 1 \in 1..(Len(two) + Len(rest)) /\ 2 \in 1..(Len(two) + Len(rest))
        BY <2>1, <3>1
      <4> QED BY <2>3, <4>1, <4>2
    <3> QED BY <2>1, <3>2, <3>3
  <2>5. \A i \in 1..(Len(s) - 2) : most[i + 2] = s[i + 2]
    <3> SUFFICES ASSUME NEW i \in 1..(Len(s) - 2) PROVE most[i + 2] = s[i + 2]
      OBVIOUS
    <3>1. i + 2 \in 1..(2 + Len(rest)) /\ ~(i + 2 <= 2) /\ i + 2 - 2 = i
      BY <1>1, <1>6
    <3> QED BY <1>6, <2>1, <2>3, <3>1
  <2>6. new = Append(most, Beyond)
    BY <1>5, <2>2, <2>3, AppendIsConcat
  <2>7. new \in Seq(Items) /\ Len(new) = Len(most) + 1 /\ new[Len(most) + 1] = Beyond
        /\ \A i \in 1..Len(most) : new[i] = most[i]
    BY <1>5, <2>3, <2>6, AppendProperties
  <2>8. 1 \in 1..Len(most) /\ 2 \in 1..Len(most) /\ \A i \in 1..(Len(s) - 2) : i + 2 \in 1..Len(most)
    BY <1>1, <1>3, <2>4
  <2> QED BY <2>4, <2>5, <2>7, <2>8
<1> HIDE DEF new, two, most
<1>9. AlikeTo(Sizes(s), Sizes(new), Len(s))
  <2> SUFFICES ASSUME NEW i \in 1..Len(s) PROVE new[i].size = s[i].size
    BY <1>1, <1>7 DEF AlikeTo, Sizes
  <2>1. CASE i = 1
    BY <1>2, <1>5, <1>7, <2>1
  <2>2. CASE i = 2
    BY <1>4, <1>5, <1>7, <2>2
  <2>3. CASE i > 2
    <3>1. i - 2 \in 1..(Len(s) - 2) /\ (i - 2) + 2 = i
      BY <1>1, <2>3
    <3> QED BY <1>7, <3>1
  <2> QED BY <2>1, <2>2, <2>3
<1>10. Size(new) = Size(s) + 4
  <2>1. Numbers(Sizes(s), Len(s)) /\ Size(s) = Total(Sizes(s), Len(s)) /\ Size(s) \in Nat
    BY SizesNat
  <2>2. Numbers(Sizes(new), Len(s) + 1) /\ Size(new) = Total(Sizes(new), Len(s) + 1)
        /\ Sizes(new)[Len(s) + 1] = new[Len(s) + 1].size
    <3>1. Len(s) + 1 \in 1..Len(new)
      BY <1>1, <1>7
    <3> QED BY <1>7, <3>1, SizesNat
  <2>3. Total(Sizes(new), Len(s)) = Size(s)
    BY <1>1, <1>9, <2>1, TotalAlike
  <2>4. Len(s) + 1 \in 1..(Len(s) + 1) /\ Len(s) + 1 - 1 = Len(s) /\ Len(s) + 1 \in Nat
    BY <1>1
  <2>5. Total(Sizes(new), Len(s) + 1) = Total(Sizes(new), Len(s)) + Sizes(new)[Len(s) + 1]
    <3>1. Total(Sizes(new), Len(s) + 1) = Total(Sizes(new), Len(s) + 1 - 1) + Sizes(new)[Len(s) + 1]
      BY <2>2, <2>4, TotalStep
    <3> QED BY <2>4, <3>1
  <2> QED BY <1>5, <1>7, <2>2, <2>3, <2>5
<1>11. prepend(as, s) = Written(AS_PATH, Size(s) + 4, new)
  BY Zenon DEF prepend, new, head, rest
<1>12. AS_PATH \in Nat /\ Size(s) + 4 \in Nat
  BY SizesNat DEF AS_PATH
<1>13. IsWritten(prepend(as, s), AS_PATH, Size(s) + 4, new)
  BY <1>7, <1>11, <1>12, WrittenIs, Zenon
<1> QED BY <1>10, <1>13, Zenon DEF Fits, IsWritten

-----------------------------------------------------------------------------
(* as_path_count().  From the end of a path to its beginning.              *)
Weight(path, i) == IF path[i].kind = "set" THEN 1 ELSE path[i].n
After(path, i) == i + 1 + path[i].n
Counting(path, h) ==
  h = [i \in Nat \ {0} |-> IF i > Len(path) THEN 0
                           ELSE (IF path[i].kind = "set" THEN 1 ELSE path[i].n) + h[i + 1 + path[i].n]]
Counts(path, h, k) ==
  /\ \A i \in Nat \ {0} : i > Len(path) => h[i] = 0
  /\ \A i \in k..Len(path) : h[i] = Weight(path, i) + h[After(path, i)]

(* The ASes of a segment, its weight and where the next one starts are     *)
(* numbers.                                                                *)
LEMMA PathTypes ==
  ASSUME NEW path \in Seq(Items)
  PROVE  /\ Len(path) \in Nat
         /\ \A i \in 1..Len(path) : /\ path[i].n \in Nat /\ Weight(path, i) \in Nat
                                    /\ After(path, i) \in Nat \ {0} /\ After(path, i) > i
<1>1. Len(path) \in Nat
  OBVIOUS
<1>2. ASSUME NEW i \in 1..Len(path)
      PROVE  /\ path[i].n \in Nat /\ Weight(path, i) \in Nat
             /\ After(path, i) \in Nat \ {0} /\ After(path, i) > i
  <2>1. path[i] \in Items
    OBVIOUS
  <2>2. path[i].n \in Nat
    BY <2>1 DEF Items
  <2> QED BY <1>1, <2>2 DEF Weight, After
<1> QED BY <1>1, <1>2

Put(f, i, v) == [f EXCEPT ![i] = v]
IsPut(h, f, i, v) == h \in [Nat -> Nat] /\ h[i] = v /\ \A j \in Nat : j # i => h[j] = f[j]
(* What a function is once one value is put in.                            *)
LEMMA PutIs ==
  ASSUME NEW f \in [Nat -> Nat], NEW i \in Nat, NEW v \in Nat
  PROVE  IsPut(Put(f, i, v), f, i, v)
BY DEF Put, IsPut

(* The count of a path from each segment on exists: made from its end.     *)
LEMMA CountsFrom ==
  ASSUME NEW path \in Seq(Items)
  PROVE  \E h \in [Nat -> Nat] : Counts(path, h, 1)
<1> DEFINE L == Len(path)
           D == [Nat -> Nat]
           pos(k) == L + 1 - k
           put(k, f) == Put(f, pos(k), Weight(path, pos(k)) + f[After(path, pos(k))])
           step == [y \in Nat \X D |-> IF y[1] \in 1..L THEN put(y[1], y[2]) ELSE y[2]]
<1>1. L \in Nat
  BY PathTypes
<1>2. \A k \in 1..L : pos(k) \in 1..L
  BY <1>1
<1>3. ASSUME NEW k \in 1..L, NEW f \in D
      PROVE  /\ step[<<k, f>>] \in D
             /\ step[<<k, f>>][pos(k)] = Weight(path, pos(k)) + f[After(path, pos(k))]
             /\ \A i \in Nat : i # pos(k) => step[<<k, f>>][i] = f[i]
  <2>1. step[<<k, f>>] = put(k, f)
    <3> HIDE DEF put, D
    <3> QED OBVIOUS
  <2>2. pos(k) \in 1..L /\ pos(k) \in Nat
    BY <1>2
  <2> HIDE DEF pos, step
  <2>3. Weight(path, pos(k)) \in Nat /\ f[After(path, pos(k))] \in Nat
    <3>1. Weight(path, pos(k)) \in Nat /\ After(path, pos(k)) \in Nat
      BY <2>2, PathTypes
    <3> QED BY <3>1
  <2>4. Weight(path, pos(k)) + f[After(path, pos(k))] \in Nat
    <3> DEFINE x == Weight(path, pos(k))
               y == f[After(path, pos(k))]
    <3>1. x \in Nat /\ y \in Nat
      BY <2>3
    <3> HIDE DEF x, y
    <3>2. x + y \in Nat
      BY <3>1
    <3> QED BY <3>2 DEF x, y
  <2>5. IsPut(step[<<k, f>>], f, pos(k), Weight(path, pos(k)) + f[After(path, pos(k))])
    BY <2>1, <2>2, <2>4, PutIs, Zenon
  <2> QED BY <2>5 DEF IsPut
<1>4. step \in [Nat \X D -> D]
  <2> SUFFICES ASSUME NEW k \in Nat, NEW f \in D PROVE step[<<k, f>>] \in D
    BY DEF step
  <2>1. CASE k \in 1..L
    BY <1>3, <2>1
  <2>2. CASE k \notin 1..L
    <3> HIDE DEF put, D
    <3> QED BY <2>2
  <2> QED BY <2>1, <2>2
<1> HIDE DEF step
<1> DEFINE zero == [i \in Nat |-> 0]
<1>5. zero \in D
  OBVIOUS
<1>6. PICK g : Recursive(D, L, zero, step, g)
  <2> HIDE DEF D, L, zero
  <2> QED BY <1>1, <1>4, <1>5, Recursion
<1>7. g \in [0..L -> D] /\ g[0] = zero /\ \A k \in 1..L : g[k] = step[<<k, g[k - 1]>>]
  BY <1>6 DEF Recursive
<1> DEFINE Good(k) == Counts(path, g[k], L + 1 - k)
           T == {k \in 0..L : ~Good(k)}
<1>8. Good(0)
  <2>1. \A i \in Nat : g[0][i] = 0
    BY <1>7
  <2>2. \A i \in (L + 1 - 0)..L : FALSE
    BY <1>1
  <2> QED BY <2>1, <2>2 DEF Counts
<1>9. ASSUME NEW k \in 1..L, Good(k - 1) PROVE Good(k)
  <2>1. k - 1 \in 0..L /\ g[k - 1] \in D /\ g[k] = step[<<k, g[k - 1]>>]
    <3>1. k - 1 \in 0..L
      BY <1>1
    <3> HIDE DEF D, L
    <3> QED BY <1>7, <3>1
  <2> DEFINE f == g[k - 1]
             m == pos(k)
  <2>2. /\ g[k] \in D /\ g[k][m] = Weight(path, m) + f[After(path, m)]
        /\ \A i \in Nat : i # m => g[k][i] = f[i]
    <3> HIDE DEF D, L, pos, f
    <3> QED BY <1>3, <2>1 DEF f
  <2>3. m \in 1..L /\ L + 1 - (k - 1) = m + 1 /\ L + 1 - k = m
    BY <1>1, <1>2
  <2>4. Counts(path, f, m + 1)
    BY <1>9, <2>3
  <2> HIDE DEF f, m
  <2>5. \A i \in Nat \ {0} : i > L => g[k][i] = 0
    <3> SUFFICES ASSUME NEW i \in Nat \ {0}, i > L PROVE g[k][i] = 0
      OBVIOUS
    <3>1. i # m /\ f[i] = 0
      BY <1>1, <2>3, <2>4 DEF Counts
    <3> QED BY <2>2, <3>1
  <2>6. ASSUME NEW i \in m..L PROVE g[k][i] = Weight(path, i) + g[k][After(path, i)]
    <3>1. i \in 1..L /\ After(path, i) \in Nat /\ After(path, i) > i /\ After(path, i) # m
      <4>1. i \in 1..L
        BY <1>1, <2>3
      <4>2. After(path, i) \in Nat /\ After(path, i) > i
        BY <4>1, PathTypes
      <4> QED BY <1>1, <2>3, <4>1, <4>2
    <3>2. g[k][After(path, i)] = f[After(path, i)]
      BY <2>2, <3>1
    <3>3. CASE i = m
      BY <2>2, <3>2, <3>3
    <3>4. CASE i # m
      <4>1. i \in (m + 1)..L
        BY <1>1, <2>3, <3>4
      <4>2. f[i] = Weight(path, i) + f[After(path, i)]
        BY <2>4, <4>1 DEF Counts
      <4> QED BY <2>2, <3>1, <3>2, <3>4, <4>2
    <3> QED BY <3>3, <3>4
  <2> QED BY <2>3, <2>5, <2>6 DEF Counts
<1>10. Good(L)
  <2>1. Descends(T)
    <3> SUFFICES ASSUME NEW k \in T PROVE \E y \in T : y < k
      BY DEF Descends
    <3>1. k # 0 /\ k \in 0..L /\ ~Good(k)
      BY <1>8
    <3>2. k \in 1..L /\ k - 1 \in 0..L /\ k - 1 < k
      BY <1>1, <3>1
    <3>3. ~Good(k - 1)
      BY <1>9, <3>1, <3>2
    <3> QED BY <3>2, <3>3
  <2>2. T \subseteq Nat /\ L \in 0..L
    BY <1>1
  <2> HIDE DEF T
  <2>3. T = {}
    BY <2>1, <2>2, Nowhere
  <2> QED BY <2>2, <2>3 DEF T
<1>11. g[L] \in [Nat -> Nat] /\ L + 1 - L = 1
  BY <1>1, <1>7
<1> QED BY <1>10, <1>11

(* What the declared function is, and that only one function is it.        *)
LEMMA CountIs ==
  ASSUME NEW path \in Seq(Items)
  PROVE  \E h \in [Nat -> Nat] : Counts(path, h, 1) /\ as_path_count(path) = h[1]
<1>1. PICK F \in [Nat -> Nat] : Counts(path, F, 1)
  BY CountsFrom
<1> DEFINE G == [i \in Nat \ {0} |-> F[i]]
           L == Len(path)
<1>2. L \in Nat
  BY PathTypes
<1>3. Counting(path, G)
  <2>1. \A i \in Nat \ {0} : i > L => G[i] = 0
    BY <1>1 DEF Counts
  <2>2. ASSUME NEW i \in 1..L
        PROVE  G[i] = (IF path[i].kind = "set" THEN 1 ELSE path[i].n) + G[i + 1 + path[i].n]
    <3>1. After(path, i) \in Nat \ {0}
      BY PathTypes
    <3>2. F[i] = Weight(path, i) + F[After(path, i)]
      BY <1>1 DEF Counts
    <3> QED BY <3>1, <3>2 DEF Weight, After
  <2>3. \A i \in Nat \ {0} : ~(i > L) => i \in 1..L
    BY <1>2
  <2>4. \A i \in Nat \ {0} : G[i] = IF i > L THEN 0
                             ELSE (IF path[i].kind = "set" THEN 1 ELSE path[i].n) + G[i + 1 + path[i].n]
    <3> HIDE DEF G
    <3> QED BY <2>1, <2>2, <2>3
  <2>5. G = [i \in Nat \ {0} |-> G[i]]
    OBVIOUS
  <2> HIDE DEF G
  <2> QED BY <2>4, <2>5 DEF Counting
<1>4. ASSUME NEW h, Counting(path, h) PROVE h[1] = F[1]
  <2> DEFINE T == {k \in 0..L : h[L + 1 - k] # F[L + 1 - k]}
  <2>1. \A i \in Nat \ {0} : h[i] = IF i > L THEN 0
                             ELSE (IF path[i].kind = "set" THEN 1 ELSE path[i].n) + h[i + 1 + path[i].n]
    BY <1>4 DEF Counting
  <2>2. \A i \in Nat \ {0} : i > L => h[i] = 0
    BY <2>1
  <2>3. ASSUME NEW i \in 1..L PROVE h[i] = Weight(path, i) + h[After(path, i)]
    <3>1. i \in Nat \ {0} /\ ~(i > L)
      BY <1>2
    <3> QED BY <2>1, <3>1 DEF Weight, After
  <2>4. Descends(T)
    <3> SUFFICES ASSUME NEW k \in T PROVE \E y \in T : y < k
      BY DEF Descends
    <3> DEFINE i == L + 1 - k
    <3>1. i \in 1..(L + 1) /\ h[i] # F[i]
      BY <1>2
    <3>2. i # L + 1
      <4>1. L + 1 \in Nat \ {0} /\ L + 1 > L
        <5> HIDE DEF L, T
        <5> QED BY <1>2
      <4>2. h[L + 1] = 0 /\ F[L + 1] = 0
        BY <1>1, <2>2, <4>1 DEF Counts
      <4> QED BY <3>1, <4>2
    <3>3. i \in 1..L
      BY <1>2, <3>1, <3>2
    <3>4. h[After(path, i)] # F[After(path, i)]
      <4>1. F[i] = Weight(path, i) + F[After(path, i)]
        BY <1>1, <3>3 DEF Counts
      <4> HIDE DEF i, T
      <4> QED BY <2>3, <3>1, <3>3, <4>1
    <3>5. After(path, i) \in Nat \ {0} /\ After(path, i) > i
      BY <3>3, PathTypes
    <3>6. ~(After(path, i) > L)
      BY <1>1, <2>2, <3>4, <3>5 DEF Counts
    <3> DEFINE y == L + 1 - After(path, i)
    <3>7. y \in 0..L /\ y < k /\ L + 1 - y = After(path, i)
      <4> DEFINE x == After(path, i)
      <4>1. x \in Nat /\ x > i /\ ~(x > L) /\ i \in 1..L /\ k \in 0..L /\ i = L + 1 - k
        BY <3>3, <3>5, <3>6
      <4> HIDE DEF x, i, L, T
      <4>2. L + 1 - x \in 0..L /\ L + 1 - x < k /\ L + 1 - (L + 1 - x) = x
        BY <1>2, <4>1
      <4> QED BY <4>2 DEF x
    <3> QED BY <3>4, <3>7
  <2>5. T \subseteq Nat
    OBVIOUS
  <2> HIDE DEF T
  <2>6. T = {}
    BY <2>4, <2>5, Nowhere
  <2>7. CASE L = 0
    <3>1. 1 \in Nat \ {0} /\ 1 > L
      BY <2>7
    <3> QED BY <1>1, <2>2, <3>1 DEF Counts
  <2>8. CASE L # 0
    <3>1. L \in 0..L /\ L + 1 - L = 1
      BY <1>2
    <3>2. ~(h[L + 1 - L] # F[L + 1 - L])
      BY <2>6, <3>1 DEF T
    <3> HIDE DEF L
    <3> QED BY <3>1, <3>2
  <2> QED BY <2>7, <2>8
<1>5. as_path_count(path) = (CHOOSE h : Counting(path, h))[1]
  BY Zenon DEF as_path_count, Counting
<1>6. Counting(path, CHOOSE h : Counting(path, h))
  BY <1>3, Zenon
<1>7. as_path_count(path) = F[1]
  BY <1>4, <1>5, <1>6, Zenon
<1> QED BY <1>1, <1>7

(* What as_path_count() counts: the ASes that no set holds, and the sets,  *)
(* from a segment on.                                                      *)
Singles(path, i) == {k \in i..Len(path) : path[k].kind = "as" /\ k \notin InSet(path)}
Groups(path, i) == {k \in i..Len(path) : path[k].kind = "set"}
AtHead(path, i) == i = Len(path) + 1 \/ (i \in 1..Len(path) /\ path[i].kind # "as")

(* One segment of a path: where the next one starts, and which of its ASes *)
(* a set holds.                                                            *)
LEMMA Segment ==
  ASSUME NEW path \in Seq(Items), IsPath(path), NEW i \in 1..Len(path), path[i].kind # "as"
  PROVE  LET j == After(path, i)
         IN  /\ j \in (i + 1)..(Len(path) + 1) /\ AtHead(path, j)
             /\ path[i].kind = "seq" =>
                  /\ Singles(path, i) = Singles(path, j) \cup ((i + 1)..(j - 1))
                  /\ Groups(path, i) = Groups(path, j)
             /\ path[i].kind = "set" =>
                  /\ Singles(path, i) = Singles(path, j)
                  /\ Groups(path, i) = Groups(path, j) \cup {i}
<1> DEFINE L == Len(path)
           j == After(path, i)
<1>1. L \in Nat /\ DOMAIN path = 1..L
  OBVIOUS
<1>2. path[i].n \in Nat
  BY <1>1, PathTypes DEF IsPath
<1>3. j = i + 1 + path[i].n
  BY DEF After
<1>4. \A k \in 1..L :
        /\ path[k].kind \in {"seq", "set", "as"}
        /\ path[k].kind # "as" =>
             /\ path[k].n \in Nat /\ k + path[k].n <= L
             /\ \A x \in (k + 1)..(k + path[k].n) : path[x].kind = "as"
             /\ k + path[k].n < L => path[k + path[k].n + 1].kind # "as"
  BY <1>1, PathTypes DEF IsPath
<1>5. j \in (i + 1)..(L + 1) /\ \A k \in (i + 1)..(j - 1) : k \in 1..L /\ path[k].kind = "as"
  <2>1. i + path[i].n <= L /\ \A x \in (i + 1)..(i + path[i].n) : path[x].kind = "as"
    BY <1>4
  <2> HIDE DEF L, j
  <2> QED BY <1>1, <1>2, <1>3, <2>1
<1>6. AtHead(path, j)
  <2>1. i + path[i].n < L => path[i + path[i].n + 1].kind # "as"
    BY <1>4
  <2>2. i + path[i].n + 1 = j
    BY <1>2, <1>3
  <2>3. i + path[i].n < L => path[j].kind # "as"
    BY <2>1, <2>2
  <2>4. (j \in 1..L /\ i + path[i].n < L) \/ j = L + 1
    <3> DEFINE n == path[i].n
    <3>1. n \in Nat /\ j = i + 1 + n /\ j \in (i + 1)..(L + 1)
      BY <1>2, <1>3, <1>5
    <3> HIDE DEF L, j, n
    <3>2. (j \in 1..L /\ i + n < L) \/ j = L + 1
      BY <1>1, <3>1
    <3> QED BY <3>2 DEF n
  <2> QED BY <2>3, <2>4 DEF AtHead
<1>7. ASSUME NEW k \in (i + 1)..(j - 1) PROVE k \in InSet(path) <=> path[i].kind = "set"
  <2>1. k \in 1..L /\ k > i /\ k <= i + path[i].n
    <3> HIDE DEF L, j
    <3> QED BY <1>1, <1>2, <1>3, <1>5
  <2>2. CASE path[i].kind = "set"
    <3>1. i \in Kind(path, "set") /\ k \in (i + 1)..(i + path[i].n)
      BY <1>1, <1>2, <2>1, <2>2 DEF Kind
    <3> QED BY <1>1, <2>1, <2>2, <3>1 DEF InSet
  <2>3. CASE path[i].kind # "set"
    <3> SUFFICES ASSUME NEW x \in Kind(path, "set"), k \in (x + 1)..(x + path[x].n) PROVE FALSE
      BY <2>3 DEF InSet
    <3>1. x \in 1..L /\ path[x].kind = "set" /\ path[x].n \in Nat
      BY <1>1, <1>4 DEF Kind
    <3>2. CASE x < i
      <4>1. i \in (x + 1)..(x + path[x].n)
        BY <2>1, <3>1, <3>2
      <4> QED BY <1>4, <3>1, <4>1
    <3>3. CASE x > i
      <4>1. x \in (i + 1)..(j - 1)
        BY <1>5, <3>1, <3>3
      <4> QED BY <1>5, <3>1, <4>1
    <3>4. x # i
      BY <2>3, <3>1
    <3> QED BY <3>1, <3>2, <3>3, <3>4
  <2> QED BY <2>2, <2>3
<1> HIDE DEF j
<1>8. \A k : k \in i..L <=> k = i \/ k \in (i + 1)..(j - 1) \/ k \in j..L
  <2> HIDE DEF L
  <2> QED BY <1>1, <1>5
<1>9. CASE path[i].kind = "seq"
  <2>1. Singles(path, i) = Singles(path, j) \cup ((i + 1)..(j - 1))
    <3> SUFFICES ASSUME NEW k PROVE k \in Singles(path, i) <=> k \in Singles(path, j) \/ k \in (i + 1)..(j - 1)
      OBVIOUS
    <3>1. k \in (i + 1)..(j - 1) => path[k].kind = "as" /\ k \notin InSet(path)
      BY <1>5, <1>7, <1>9
    <3> HIDE DEF L
    <3> QED BY <1>8, <1>9, <3>1, Zenon DEF Singles, L
  <2>2. Groups(path, i) = Groups(path, j)
    <3> SUFFICES ASSUME NEW k PROVE k \in Groups(path, i) <=> k \in Groups(path, j)
      OBVIOUS
    <3>1. k \in (i + 1)..(j - 1) => path[k].kind = "as"
      BY <1>5
    <3> QED BY <1>8, <1>9, <3>1 DEF Groups
  <2> QED BY <1>5, <1>6, <1>9, <2>1, <2>2 DEF j
<1>10. CASE path[i].kind = "set"
  <2>1. Singles(path, i) = Singles(path, j)
    <3> SUFFICES ASSUME NEW k PROVE k \in Singles(path, i) <=> k \in Singles(path, j)
      OBVIOUS
    <3>1. k \in (i + 1)..(j - 1) => k \in InSet(path)
      BY <1>7, <1>10
    <3> HIDE DEF L
    <3> QED BY <1>8, <1>10, <3>1, Zenon DEF Singles, L
  <2>2. Groups(path, i) = Groups(path, j) \cup {i}
    <3> SUFFICES ASSUME NEW k PROVE k \in Groups(path, i) <=> k \in Groups(path, j) \/ k = i
      OBVIOUS
    <3>1. k \in (i + 1)..(j - 1) => path[k].kind = "as"
      BY <1>5
    <3> QED BY <1>8, <1>10, <3>1 DEF Groups
  <2> QED BY <1>5, <1>6, <1>10, <2>1, <2>2 DEF j
<1> QED BY <1>5, <1>6, <1>9, <1>10, <1>4 DEF j

(* The ASes outside sets, and the sets, are finitely many.                 *)
LEMMA Pieces ==
  ASSUME NEW path \in Seq(Items), NEW i \in 1..(Len(path) + 1)
  PROVE  /\ IsFiniteSet(Singles(path, i)) /\ Cardinality(Singles(path, i)) \in Nat
         /\ IsFiniteSet(Groups(path, i)) /\ Cardinality(Groups(path, i)) \in Nat
<1>1. Len(path) \in Nat /\ i \in Int /\ Len(path) \in Int
  OBVIOUS
<1>2. IsFiniteSet(i..Len(path))
  BY <1>1, FS_Interval
<1>3. Singles(path, i) \in SUBSET (i..Len(path)) /\ Groups(path, i) \in SUBSET (i..Len(path))
  BY DEF Singles, Groups
<1>4. IsFiniteSet(Singles(path, i)) /\ IsFiniteSet(Groups(path, i))
  BY <1>2, <1>3, FS_Subset
<1> QED BY <1>4, FS_CardinalityType

(* as_path_count() is the number of the ASes outside sets and of the sets. *)
LEMMA PathCounted ==
  ASSUME NEW path \in Seq(Items), IsPath(path)
  PROVE  /\ as_path_count(path) \in Nat
         /\ as_path_count(path) = Cardinality(Kind(path, "as") \ InSet(path)) + Cardinality(Kind(path, "set"))
<1> DEFINE L == Len(path)
<1>1. L \in Nat /\ DOMAIN path = 1..L
  OBVIOUS
<1>2. PICK h \in [Nat -> Nat] : Counts(path, h, 1) /\ as_path_count(path) = h[1]
  BY CountIs
<1> DEFINE Good(i) == h[i] = Cardinality(Singles(path, i)) + Cardinality(Groups(path, i))
           T == {k \in 0..L : AtHead(path, L + 1 - k) /\ ~Good(L + 1 - k)}
<1>3. Good(L + 1)
  <2>1. Singles(path, L + 1) = {} /\ Groups(path, L + 1) = {}
    <3>1. \A k : k \notin (L + 1)..L
      <4> HIDE DEF L
      <4> QED BY <1>1
    <3> HIDE DEF L
    <3> QED BY <3>1, Zenon DEF Singles, Groups, L
  <2>2. h[L + 1] = 0
    <3>1. L + 1 \in Nat \ {0} /\ L + 1 > L
      <4> HIDE DEF L
      <4> QED BY <1>1
    <3> QED BY <1>2, <3>1 DEF Counts
  <2>3. Cardinality({}) = 0
    BY FS_EmptySet
  <2>4. 0 = 0 + 0
    OBVIOUS
  <2> HIDE DEF L
  <2> QED BY <2>1, <2>2, <2>3, <2>4, Zenon
<1>4. ASSUME NEW i \in 1..L, path[i].kind # "as", Good(After(path, i)) PROVE Good(i)
  <2> DEFINE n == path[i].n
             j == After(path, i)
             x == Cardinality(Singles(path, j))
             y == Cardinality(Groups(path, j))
  <2>1. /\ j \in (i + 1)..(L + 1) /\ AtHead(path, j)
        /\ path[i].kind = "seq" =>
             /\ Singles(path, i) = Singles(path, j) \cup ((i + 1)..(j - 1))
             /\ Groups(path, i) = Groups(path, j)
        /\ path[i].kind = "set" =>
             /\ Singles(path, i) = Singles(path, j)
             /\ Groups(path, i) = Groups(path, j) \cup {i}
    BY <1>4, Segment
  <2>2. h[i] = Weight(path, i) + h[j]
    BY <1>2 DEF Counts
  <2>3. path[i].kind \in {"seq", "set"} /\ n \in Nat /\ j = i + 1 + n /\ i \in Nat
    <3>1. path[i].kind \in {"seq", "set"}
      BY <1>1, <1>4 DEF IsPath
    <3>2. n \in Nat
      BY PathTypes
    <3>3. i \in Nat
      <4> HIDE DEF L
      <4> QED BY <1>1
    <3> QED BY <3>1, <3>2, <3>3 DEF After
  <2>9. (path[i].kind = "seq" => Weight(path, i) = n) /\ (path[i].kind = "set" => Weight(path, i) = 1)
    BY DEF Weight
  <2> HIDE DEF n
  <2>10. n \in Nat /\ j = i + 1 + n /\ i \in Nat
    BY <2>3
  <2>4. j \in 1..(L + 1)
    <3> HIDE DEF L, j
    <3> QED BY <1>1, <2>1
  <2>5. /\ IsFiniteSet(Singles(path, j)) /\ x \in Nat
        /\ IsFiniteSet(Groups(path, j)) /\ y \in Nat
    <3> HIDE DEF j
    <3> QED BY <2>4, Pieces
  <2>6. h[j] = x + y
    BY <1>4
  <2>7. CASE path[i].kind = "seq"
    <3>1. Cardinality(Singles(path, i)) = x + n
      <4> DEFINE I == (i + 1)..(j - 1)
      <4>1. IsFiniteSet(I) /\ Cardinality(I) = n
        <5>1. i + 1 \in Int /\ j - 1 \in Int
          <6> HIDE DEF j, L
          <6> QED BY <2>10
        <5>2. IsFiniteSet(I) /\ Cardinality(I) = IF i + 1 > j - 1 THEN 0 ELSE (j - 1) - (i + 1) + 1
          <6> HIDE DEF j
          <6> QED BY <5>1, FS_Interval
        <5>3. (j - 1) - (i + 1) + 1 = n /\ (i + 1 > j - 1 => n = 0)
          <6> HIDE DEF j, L
          <6> QED BY <2>10
        <5> HIDE DEF I, j
        <5> QED BY <5>2, <5>3
      <4>2. Singles(path, j) \cap I = {}
        <5> HIDE DEF j
        <5> QED BY <1>1, <2>4 DEF Singles
      <4>3. Cardinality({}) = 0
        BY FS_EmptySet
      <4>4. Singles(path, i) = Singles(path, j) \cup I
        BY <2>1, <2>7
      <4> HIDE DEF I, j
      <4>5. Cardinality(Singles(path, j) \cup I)
              = Cardinality(Singles(path, j)) + Cardinality(I) - Cardinality(Singles(path, j) \cap I)
        BY <2>5, <4>1, FS_Union
      <4> HIDE DEF x, L
      <4>6. Cardinality(Singles(path, i)) = x + n - 0
        BY <4>1, <4>2, <4>3, <4>4, <4>5, Zenon DEF x
      <4> QED BY <2>5, <2>10, <4>6
    <3>2. Cardinality(Groups(path, i)) = y
      BY <2>1, <2>7
    <3>3. Weight(path, i) = n
      BY <2>7, <2>9
    <3> HIDE DEF x, y, j
    <3> QED BY <2>2, <2>3, <2>5, <2>6, <3>1, <3>2, <3>3
  <2>8. CASE path[i].kind = "set"
    <3>1. Cardinality(Singles(path, i)) = x
      BY <2>1, <2>8
    <3>2. i \notin Groups(path, j)
      <4> HIDE DEF j
      <4> QED BY <1>1, <2>1 DEF Groups
    <3>3. Cardinality(Groups(path, i)) = y + 1
      <4>1. Groups(path, i) = Groups(path, j) \cup {i}
        BY <2>1, <2>8
      <4> HIDE DEF j
      <4> QED BY <2>5, <3>2, <4>1, FS_AddElement
    <3>4. Weight(path, i) = 1
      BY <2>8, <2>9
    <3> HIDE DEF x, y, j
    <3> QED BY <2>2, <2>5, <2>6, <3>1, <3>3, <3>4
  <2> QED BY <2>3, <2>7, <2>8
<1> HIDE DEF Good
<1>5. Descends(T)
  <2> SUFFICES ASSUME NEW k \in T PROVE \E y \in T : y < k
    BY DEF Descends
  <2> DEFINE i == L + 1 - k
  <2>1. k \in 0..L /\ AtHead(path, i) /\ ~Good(i)
    OBVIOUS
  <2>2. i \in 1..L /\ path[i].kind # "as"
    BY <1>3, <2>1 DEF AtHead
  <2> DEFINE j == After(path, i)
  <2>3. ~Good(j)
    <3> HIDE DEF i
    <3> QED BY <1>4, <2>1, <2>2
  <2>4. j \in (i + 1)..(L + 1) /\ AtHead(path, j)
    <3> HIDE DEF i
    <3> QED BY <2>2, Segment
  <2>5. L + 1 - j \in 0..L /\ L + 1 - j < k /\ L + 1 - (L + 1 - j) = j
    <3>1. i = L + 1 - k
      OBVIOUS
    <3> HIDE DEF i, j, L, T
    <3> QED BY <1>1, <2>1, <2>2, <2>4, <3>1
  <2> HIDE DEF i, j, L
  <2> QED BY <2>3, <2>4, <2>5
<1>6. T = {}
  <2>1. T \subseteq Nat
    OBVIOUS
  <2> HIDE DEF T
  <2> QED BY <1>5, <2>1, Nowhere
<1>7. AtHead(path, 1)
  <2>1. CASE L = 0
    BY <2>1 DEF AtHead
  <2>2. CASE L # 0
    <3>1. 1 \in 1..L
      BY <1>1, <2>2
    <3> QED BY <1>1, <3>1 DEF AtHead, IsPath
  <2> QED BY <2>1, <2>2
<1>8. Good(1)
  <2>1. L \in 0..L /\ L + 1 - L = 1
    <3> HIDE DEF L
    <3> QED BY <1>1
  <2>2. ~(AtHead(path, L + 1 - L) /\ ~Good(L + 1 - L))
    BY <1>6, <2>1 DEF T
  <2> HIDE DEF L
  <2> QED BY <1>7, <2>1, <2>2
<1>9. Singles(path, 1) = Kind(path, "as") \ InSet(path) /\ Groups(path, 1) = Kind(path, "set")
  BY <1>1 DEF Singles, Groups, Kind
<1> QED BY <1>2, <1>8, <1>9 DEF Good

-----------------------------------------------------------------------------
(* The messages that may come.                                             *)
Lists(s) ==
  /\ Len(s) \in Nat \ {0} /\ DOMAIN s = 1..Len(s)
  /\ \A i \in 1..Len(s) :
       /\ s[i].type \in Nat /\ s[i].value \in Seq(Items)
       /\ s[i] = [type |-> s[i].type, value |-> s[i].value]
       /\ s[i].type = AS_PATH => IsPath(s[i].value)
       /\ s[i].type = ORIGIN => IsOctets(s[i].value)
LEMMA MessageIs ==
  ASSUME NEW m \in Messages
  PROVE  Lists(m.attributes)
<1> DEFINE s == m.attributes
           A == [type : Nat, value : Seq(Items)]
<1>1. /\ s \in Seq(A) /\ Len(s) > 0
      /\ \A i \in DOMAIN s : /\ s[i].type = AS_PATH => IsPath(s[i].value)
                             /\ s[i].type = ORIGIN => IsOctets(s[i].value)
  BY UpdateAssumption
<1> HIDE DEF s
<1>2. Len(s) \in Nat \ {0} /\ DOMAIN s = 1..Len(s) /\ \A i \in 1..Len(s) : s[i] \in A
  <2> HIDE DEF A
  <2> QED BY <1>1
<1>3. ASSUME NEW a \in A
      PROVE  a.type \in Nat /\ a.value \in Seq(Items) /\ a = [type |-> a.type, value |-> a.value]
  OBVIOUS
<1> HIDE DEF A
<1>4. Lists(s)
  BY <1>1, <1>2, <1>3 DEF Lists
<1> QED BY <1>4 DEF s

(* The calls of a serializer: each writes a type above the ones before.    *)
Calling(s) ==
  /\ Len(s) = 4
  /\ \A k \in 1..4 : s[k][2] \in Nat \ {0} /\ s[k][1] \in {"set", "copy", "prepend", "set4"}
  /\ \A k \in 1..3 : s[k][2] < s[k + 1][2]
LEMMA Serializers ==
  ASSUME NEW g \in Group
  PROVE  /\ Calling(Program(g))
         /\ \A k \in 1..4 : /\ Program(g)[k][1] = "prepend" => g = "ebgp" /\ k = 2 /\ Program(g)[k][2] = AS_PATH
                            /\ Program(g)[k][1] = "set4" => g = "ibgp" /\ k = 4 /\ Program(g)[k][2] = LOCAL_PREF
                            /\ k = 4 => (g = "ibgp" => Program(g)[k][1] = "set4")
                            /\ k = 1 => Program(g)[k][2] = ORIGIN
                            /\ k = 2 => Program(g)[k][2] = AS_PATH
                            /\ k = 3 => Program(g)[k][2] = NEXT_HOP
                            /\ k # 4 => Program(g)[k][1] # "set4"
                            /\ Program(g)[k][1] = "set" => k = 1 /\ g # "copy"
<1> USE DEF Calling, ORIGIN, AS_PATH, NEXT_HOP, LOCAL_PREF, COMMUNITY
<1>1. \A k : k \in 1..4 <=> k = 1 \/ k = 2 \/ k = 3 \/ k = 4
  OBVIOUS
<1>2. \A k : k \in 1..3 <=> k = 1 \/ k = 2 \/ k = 3
  OBVIOUS
<1>3. CASE g = "ibgp"
  <2>1. Program(g) = serialize_ibgp
    BY <1>3 DEF Program
  <2> QED BY <1>1, <1>2, <1>3, <2>1 DEF serialize_ibgp
<1>4. CASE g = "ebgp"
  <2>1. Program(g) = serialize_ebgp
    BY <1>4 DEF Program
  <2> QED BY <1>1, <1>2, <1>4, <2>1 DEF serialize_ebgp
<1>5. CASE g = "copy"
  <2>1. Program(g) = serialize_copy
    BY <1>5 DEF Program
  <2> QED BY <1>1, <1>2, <1>5, <2>1 DEF serialize_copy
<1> QED BY <1>3, <1>4, <1>5 DEF Group

-----------------------------------------------------------------------------
(* Where the program is, and what it has of the message there.             *)
Registers ==
  [origin : Items, path_length : 0..(UINT8 - 1), med : Seq(Items \cup Nat), local_pref : Seq(Items)]
Places ==
  /\ message \in Messages /\ group \in Group /\ pc \in PC
  /\ p \in 1..(Len(attributes) + 1)
  /\ pc = "attributes" => p \in 1..Len(attributes)
  /\ pc \notin {"attributes", "assert"} => p = Len(attributes) + 1
Tiebreak ==
  /\ tiebreak \in Registers /\ Size(tiebreak.local_pref) = 4
  /\ LOCAL_PREF \notin Types(attributes) => tiebreak.local_pref = static_local_pref
Checked == \A i \in 1..(p - 1) : Asserted(attributes[i])
PathCounts ==
  \A i \in 1..(p - 1) :
    attributes[i].type = AS_PATH /\ (\A j \in 1..(p - 1) : attributes[j].type = AS_PATH => j <= i)
      => tiebreak.path_length = as_path_count(attributes[i].value)
Parsed == Places /\ Tiebreak /\ Checked /\ PathCounts

Serialized ==
  /\ r \in 1..(Len(attributes) + 1) /\ call \in 0..4 /\ q \in Seq(Outs)
  /\ pc \in {"attributes", "nlri"} => call = 0 /\ q = <<>> /\ r = 1
  /\ pc = "serialize" => call < 4
  /\ pc = "build" => call = 4

(* A sum backwards.                                                        *)
Backwards(f, g, n) == \A i \in 1..n : g[i] = f[n + 1 - i]
LEMMA TotalBackwards ==
  ASSUME NEW f, NEW g, NEW n \in Nat, Numbers(f, n), Backwards(f, g, n)
  PROVE  Total(g, n) = Total(f, n)
<1>1. \A i \in 1..n : n + 1 - i \in 1..n
  OBVIOUS
<1>2. Numbers(g, n)
  BY <1>1 DEF Numbers, Backwards
<1> DEFINE F(k) == Total(f, k)
           G(k) == Total(g, k)
<1>3. F(0) = 0 /\ G(0) = 0
  <2>1. Numbers(f, 0) /\ Numbers(g, 0)
    BY DEF Numbers
  <2> QED BY <2>1, TotalStep
<1>4. \A k \in 1..n : F(k) \in Nat /\ F(k - 1) \in Nat /\ F(k) = F(k - 1) + f[k]
                     /\ G(k) \in Nat /\ G(k - 1) \in Nat /\ G(k) = G(k - 1) + g[k]
  BY <1>2, TotalStep
<1> HIDE DEF F, G
<1>5. \A k \in 0..n : F(k) \in Nat /\ G(k) \in Nat
  BY <1>3, <1>4
<1> DEFINE T == {k \in 0..n : G(k) # F(n) - F(n - k)}
<1>6. Descends(T)
  <2> SUFFICES ASSUME NEW k \in T PROVE \E y \in T : y < k
    BY DEF Descends
  <2>1. k \in 0..n /\ G(k) # F(n) - F(n - k)
    OBVIOUS
  <2>2. k # 0
    <3> SUFFICES ASSUME k = 0 PROVE FALSE
      OBVIOUS
    <3>1. n - k = n /\ n \in 0..n
      OBVIOUS
    <3>2. F(n - k) = F(n) /\ F(n) \in Nat /\ G(k) = 0
      BY <1>3, <1>5, <3>1
    <3> HIDE DEF T
    <3> QED BY <2>1, <3>2
  <2>3. k \in 1..n /\ k - 1 \in 0..n /\ n + 1 - k \in 1..n /\ n + 1 - k - 1 = n - k
        /\ n - (k - 1) = n + 1 - k /\ n \in 0..n
    BY <2>1, <2>2
  <2>4. g[k] = f[n + 1 - k]
    BY <2>3 DEF Backwards
  <2>5. G(k) = G(k - 1) + g[k] /\ G(k - 1) \in Nat
    BY <1>4, <2>3
  <2>6. F(n + 1 - k) = F(n - k) + f[n + 1 - k] /\ F(n - k) \in Nat /\ F(n) \in Nat
    <3>1. F(n + 1 - k) = F(n + 1 - k - 1) + f[n + 1 - k] /\ F(n + 1 - k - 1) \in Nat
      BY <1>4, <2>3
    <3> HIDE DEF T
    <3> QED BY <1>5, <2>3, <3>1
  <2>7. f[n + 1 - k] \in Nat
    BY <2>3 DEF Numbers
  <2>8. G(k - 1) # F(n) - F(n - (k - 1))
    <3> SUFFICES ASSUME G(k - 1) = F(n) - F(n + 1 - k) PROVE FALSE
      BY <2>3
    <3> DEFINE x == f[n + 1 - k]
               y == F(n - k)
               z == F(n)
               w == G(k - 1)
    <3>1. x \in Nat /\ y \in Nat /\ z \in Nat /\ w \in Nat /\ w = z - (y + x)
      BY <2>5, <2>6, <2>7
    <3>2. G(k) = w + x /\ G(k) # z - y
      BY <2>1, <2>4, <2>5
    <3> HIDE DEF x, y, z, w, T
    <3>3. w + x = z - y
      BY <3>1
    <3> QED BY <3>2, <3>3
  <2> QED BY <2>3, <2>8
<1>7. T \subseteq Nat
  OBVIOUS
<1>8. n \in 0..n /\ n - n = 0
  OBVIOUS
<1> HIDE DEF T
<1>9. T = {}
  BY <1>6, <1>7, Nowhere
<1>10. G(n) = F(n) - F(n - n)
  BY <1>8, <1>9 DEF T
<1>11. G(n) = F(n) - 0 /\ F(n) \in Nat
  BY <1>3, <1>5, <1>8, <1>10
<1>12. G(n) = F(n)
  BY <1>11
<1> QED BY <1>12 DEF F, G

(* A sequence reversed.                                                    *)
LEMMA ReverseIs ==
  ASSUME NEW S, NEW s \in Seq(S)
  PROVE  Reverse(s) \in Seq(S) /\ Len(Reverse(s)) = Len(s)
         /\ \A i \in 1..Len(s) : Reverse(s)[i] = s[Len(s) + 1 - i]
<1>1. Len(s) \in Nat
  OBVIOUS
<1>2. Reverse(s) = [i \in 1..Len(s) |-> s[Len(s) - i + 1]]
  BY DEF Reverse
<1>3. \A i \in 1..Len(s) : Len(s) - i + 1 \in 1..Len(s) /\ Len(s) - i + 1 = Len(s) + 1 - i
  BY <1>1
<1>4. Reverse(s) \in Seq(S) /\ DOMAIN Reverse(s) = 1..Len(s)
  BY <1>1, <1>2, <1>3
<1>5. Len(Reverse(s)) = Len(s)
  BY <1>1, <1>4
<1> QED BY <1>2, <1>3, <1>4, <1>5

(* The octets of a number turned around are as many as before.             *)
LEMMA SizeReversed ==
  ASSUME NEW s \in Seq(Items)
  PROVE  Load(s) \in Seq(Items) /\ Size(Load(s)) = Size(s)
<1> DEFINE t == Reverse(s)
           n == Len(s)
<1>1. n \in Nat /\ t \in Seq(Items) /\ Len(t) = n /\ \A i \in 1..n : t[i] = s[n + 1 - i]
  BY ReverseIs
<1>2. \A i \in 1..n : n + 1 - i \in 1..n
  <2>1. n \in Nat
    BY <1>1
  <2> HIDE DEF n, t
  <2> QED BY <2>1
<1>3. Size(s) = Total(Sizes(s), n) /\ Numbers(Sizes(s), n) /\ \A i \in 1..n : Sizes(s)[i] = s[i].size
  BY SizesNat
<1> HIDE DEF t
<1>4. Size(t) = Total(Sizes(t), n) /\ \A i \in 1..n : Sizes(t)[i] = t[i].size
  BY <1>1, SizesNat
<1> HIDE DEF n
<1>5. Backwards(Sizes(s), Sizes(t), n)
  <2> SUFFICES ASSUME NEW i \in 1..n PROVE Sizes(t)[i] = Sizes(s)[n + 1 - i]
    BY DEF Backwards
  <2>1. Sizes(t)[i] = t[i].size /\ t[i] = s[n + 1 - i]
    BY <1>1, <1>4
  <2>2. Sizes(s)[n + 1 - i] = s[n + 1 - i].size
    BY <1>2, <1>3
  <2> QED BY <2>1, <2>2
<1>6. Total(Sizes(t), n) = Total(Sizes(s), n)
  BY <1>1, <1>3, <1>5, TotalBackwards
<1> QED BY <1>1, <1>3, <1>4, <1>6 DEF Load, t

LEMMA Fields ==
  ASSUME NEW A, NEW B, NEW C, NEW D,
         NEW t \in [origin : A, path_length : B, med : C, local_pref : D]
  PROVE  /\ \A v \in A : LET u == [t EXCEPT !.origin = v]
                          IN  /\ u \in [origin : A, path_length : B, med : C, local_pref : D]
                              /\ u.path_length = t.path_length /\ u.local_pref = t.local_pref
         /\ \A v \in B : LET u == [t EXCEPT !.path_length = v]
                          IN  /\ u \in [origin : A, path_length : B, med : C, local_pref : D]
                              /\ u.path_length = v /\ u.local_pref = t.local_pref
         /\ \A v \in C : LET u == [t EXCEPT !.med = v]
                          IN  /\ u \in [origin : A, path_length : B, med : C, local_pref : D]
                              /\ u.path_length = t.path_length /\ u.local_pref = t.local_pref
         /\ \A v \in D : LET u == [t EXCEPT !.local_pref = v]
                          IN  /\ u \in [origin : A, path_length : B, med : C, local_pref : D]
                              /\ u.path_length = t.path_length /\ u.local_pref = v
OBVIOUS

(* What parse_attribute() does to the registers.                           *)
LEMMA RegistersKept ==
  ASSUME NEW t \in Registers, Size(t.local_pref) = 4, NEW a,
         a.type \in Nat, a.value \in Seq(Items), a.type = AS_PATH => IsPath(a.value), Asserted(a)
  PROVE  LET u == parse_attribute(t, a)
         IN  /\ u \in Registers /\ Size(u.local_pref) = 4
             /\ a.type # LOCAL_PREF => u.local_pref = t.local_pref
             /\ u.path_length = IF a.type = AS_PATH THEN as_path_count(a.value) ELSE t.path_length
<1> DEFINE u == parse_attribute(t, a)
<1>1. Load(a.value) \in Seq(Items) /\ Size(Load(a.value)) = Size(a.value)
  BY SizeReversed
<1>2. Load(a.value) \in Seq(Items \cup Nat)
  BY <1>1
<1>3. a.type = AS_PATH => as_path_count(a.value) \in 0..(UINT8 - 1)
  <2> SUFFICES ASSUME a.type = AS_PATH PROVE as_path_count(a.value) \in 0..(UINT8 - 1)
    OBVIOUS
  <2>1. as_path_count(a.value) \in Nat /\ as_path_count(a.value) < UINT8
    BY PathCounted DEF Asserted
  <2> DEFINE x == as_path_count(a.value)
  <2> HIDE DEF x
  <2>2. x \in Nat /\ x < UINT8 => x \in 0..(UINT8 - 1)
    BY AttributesAssumption
  <2> QED BY <2>1, <2>2 DEF x
<1> DEFINE Is(v) == /\ v \in Registers /\ Size(v.local_pref) = 4
                    /\ a.type # LOCAL_PREF => v.local_pref = t.local_pref
                    /\ v.path_length = IF a.type = AS_PATH THEN as_path_count(a.value) ELSE t.path_length
<1>4. /\ ORIGIN # AS_PATH /\ ORIGIN # MULTI_EXIT_DISC /\ ORIGIN # LOCAL_PREF
      /\ AS_PATH # MULTI_EXIT_DISC /\ AS_PATH # LOCAL_PREF /\ MULTI_EXIT_DISC # LOCAL_PREF
  BY DEF ORIGIN, AS_PATH, MULTI_EXIT_DISC, LOCAL_PREF
<1> DEFINE o == [t EXCEPT !.origin = FirstOctet(a.value)]
           c == [t EXCEPT !.path_length = as_path_count(a.value)]
           m == [t EXCEPT !.med = Load(a.value)]
           l == [t EXCEPT !.local_pref = Load(a.value)]
<1>5. o \in Registers /\ o.path_length = t.path_length /\ o.local_pref = t.local_pref
  <2>1. FirstOctet(a.value) \in Items
    <3>1. CASE a.value = <<>>
      BY <3>1 DEF FirstOctet, Item, Items
    <3>2. CASE a.value # <<>>
      BY <3>2 DEF FirstOctet
    <3> QED BY <3>1, <3>2
  <2> QED BY <2>1, Fields DEF Registers
<1>6. a.type = AS_PATH => c \in Registers /\ c.path_length = as_path_count(a.value) /\ c.local_pref = t.local_pref
  BY <1>3, Fields DEF Registers
<1>7. m \in Registers /\ m.path_length = t.path_length /\ m.local_pref = t.local_pref
  BY <1>2, Fields DEF Registers
<1>8. l \in Registers /\ l.path_length = t.path_length /\ l.local_pref = Load(a.value)
  BY <1>1, Fields DEF Registers
<1>9. a.type = LOCAL_PREF => Size(Load(a.value)) = 4
  BY <1>1 DEF Asserted
<1>10. u = CASE a.type = ORIGIN -> o [] a.type = AS_PATH -> c [] a.type = MULTI_EXIT_DISC -> m
             [] a.type = LOCAL_PREF -> l [] OTHER -> t
  BY Zenon DEF parse_attribute
<1> HIDE DEF u, o, c, m, l
<1>11. CASE a.type = ORIGIN
  <2>1. u = o
    BY <1>4, <1>10, <1>11, Zenon
  <2> QED BY <1>4, <1>5, <1>11, <2>1, Zenon DEF u
<1>12. CASE a.type = AS_PATH
  <2>1. u = c
    BY <1>4, <1>10, <1>12, Zenon
  <2> QED BY <1>4, <1>6, <1>12, <2>1, Zenon DEF u
<1>13. CASE a.type = MULTI_EXIT_DISC
  <2>1. u = m
    BY <1>4, <1>10, <1>13, Zenon
  <2> QED BY <1>4, <1>7, <1>13, <2>1, Zenon DEF u
<1>14. CASE a.type = LOCAL_PREF
  <2>1. u = l
    BY <1>4, <1>10, <1>14, Zenon
  <2> QED BY <1>4, <1>8, <1>9, <1>14, <2>1, Zenon DEF u
<1>15. CASE a.type # ORIGIN /\ a.type # AS_PATH /\ a.type # MULTI_EXIT_DISC /\ a.type # LOCAL_PREF
  <2>1. u = t
    BY <1>10, <1>15, Zenon
  <2> QED BY <1>15, <2>1, Zenon DEF u
<1> QED BY <1>11, <1>12, <1>13, <1>14, <1>15, Zenon

(* The steps after the attributes are parsed leave the route as it is.     *)
Later == parse_nlri \/ Set \/ Copy \/ Prepend \/ Set4 \/ Build \/ Stop
LEMMA LaterKeeps ==
  ASSUME Later, pc \in PC
  PROVE  /\ pc # "attributes" /\ pc' \in PC \ {"attributes"} /\ (pc = "assert" => pc' = "assert")
         /\ message' = message /\ group' = group /\ p' = p /\ tiebreak' = tiebreak
<1>1. CASE parse_nlri
  BY <1>1 DEF parse_nlri, PC
<1>2. ASSUME Calls("set") \/ Calls("copy") \/ Calls("prepend") \/ Calls("set4") PROVE pc = "serialize"
  BY <1>2, Zenon DEF Calls
<1>3. ASSUME NEW w, Writes(w), pc = "serialize"
      PROVE  /\ pc' \in {"serialize", "build"}
             /\ message' = message /\ group' = group /\ p' = p /\ tiebreak' = tiebreak
  BY <1>3 DEF Writes
<1>4. ASSUME Fails
      PROVE  /\ pc' = "assert"
             /\ message' = message /\ group' = group /\ p' = p /\ tiebreak' = tiebreak
  BY <1>4 DEF Fails
<1>5. "serialize" # "attributes" /\ {"serialize", "build", "assert"} \subseteq PC \ {"attributes"}
      /\ "serialize" # "assert"
  BY DEF PC
<1>6. CASE Set
  BY <1>2, <1>3, <1>4, <1>5, <1>6 DEF Set
<1>7. CASE Copy
  BY <1>2, <1>3, <1>4, <1>5, <1>7 DEF Copy
<1>8. CASE Prepend
  BY <1>2, <1>3, <1>4, <1>5, <1>8 DEF Prepend
<1>9. CASE Set4
  BY <1>2, <1>3, <1>4, <1>5, <1>9 DEF Set4
<1>10. CASE Build
  BY <1>10 DEF Build, PC
<1>11. CASE Stop
  BY <1>11 DEF Stop, vars, PC
<1> QED BY <1>1, <1>6, <1>7, <1>8, <1>9, <1>10, <1>11 DEF Later

(* Parsed holds at the start.                                              *)
LEMMA ParsedInit == Init => Parsed
<1> SUFFICES ASSUME Init PROVE Parsed
  OBVIOUS
<1>1. message \in Messages /\ group \in Group /\ pc = "attributes" /\ p = 1 /\ tiebreak = phase1
  BY DEF Init
<1>2. Lists(attributes)
  BY <1>1, MessageIs DEF attributes
<1>3. Places
  <2>1. Len(attributes) \in Nat \ {0}
    BY <1>2 DEF Lists
  <2> QED BY <1>1, <2>1 DEF Places, PC
<1>4. Tiebreak
  <2>1. static_local_pref \in Seq(Items) /\ Size(static_local_pref) = 4
    BY UpdateAssumption
  <2>2. Item(1, "octet", 0) \in Items /\ <<0, 0, 0, 0>> \in Seq(Items \cup Nat) /\ 0 \in 0..(UINT8 - 1)
    <3>1. 0 \in Items \cup Nat
      OBVIOUS
    <3>2. <<0, 0, 0, 0>> \in Seq(Items \cup Nat)
      <4> DEFINE S == Items \cup Nat
      <4> HIDE DEF S
      <4>1. \A x \in S : <<x, x, x, x>> \in Seq(S)
        OBVIOUS
      <4> QED BY <3>1, <4>1 DEF S
    <3>3. Item(1, "octet", 0) \in Items
      BY DEF Item, Items
    <3> QED BY <3>2, <3>3, AttributesAssumption
  <2>3. phase1 \in Registers /\ phase1.local_pref = static_local_pref
    BY <2>1, <2>2 DEF phase1, Registers
  <2> QED BY <1>1, <2>1, <2>3 DEF Tiebreak
<1>5. Checked /\ PathCounts
  <2>1. \A i : i \notin 1..(p - 1)
    BY <1>1
  <2> QED BY <2>1, Zenon DEF Checked, PathCounts
<1> QED BY <1>3, <1>4, <1>5 DEF Parsed

(* Every step keeps Parsed.                                                *)
LEMMA ParsedStep == Parsed /\ [Next]_vars => Parsed'
<1> SUFFICES ASSUME Parsed, [Next]_vars PROVE Parsed'
  OBVIOUS
<1>0. Places /\ Tiebreak /\ Checked /\ PathCounts
  BY DEF Parsed
<1>1. CASE Later \/ UNCHANGED vars
  <2>1. /\ message' = message /\ group' = group /\ p' = p /\ tiebreak' = tiebreak
    BY <1>0, <1>1, LaterKeeps DEF Places, vars
  <2>2. attributes' = attributes
    BY <2>1 DEF attributes
  <2>3. /\ pc' \in PC /\ (pc' = "attributes" => pc = "attributes")
        /\ (pc' \notin {"attributes", "assert"} => pc \notin {"attributes", "assert"})
    <3>1. CASE Later
      BY <1>0, <3>1, LaterKeeps DEF Places
    <3>2. CASE UNCHANGED vars
      BY <1>0, <3>2 DEF Places, vars
    <3> QED BY <1>1, <3>1, <3>2
  <2>4. Places'
    BY <1>0, <2>1, <2>2, <2>3 DEF Places
  <2>5. Tiebreak' /\ Checked' /\ PathCounts'
    BY <1>0, <2>1, <2>2 DEF Tiebreak, Checked, PathCounts
  <2> QED BY <2>4, <2>5 DEF Parsed
<1>2. CASE parse_attributes
  <2>1. /\ pc = "attributes" /\ message' = message /\ group' = group /\ attributes' = attributes
    BY <1>2 DEF parse_attributes, attributes
  <2>2. Lists(attributes) /\ p \in 1..Len(attributes)
    BY <1>0, <2>1, MessageIs DEF Places, attributes
  <2> DEFINE a == attributes[p]
             L == Len(attributes)
  <2>3. /\ a.type \in Nat /\ a.value \in Seq(Items) /\ (a.type = AS_PATH => IsPath(a.value))
        /\ L \in Nat
    BY <2>2 DEF Lists
  <2>4. CASE ~Asserted(a)
    <3>1. pc' = "assert" /\ tiebreak' = tiebreak /\ p' = p
      BY <1>2, <2>4 DEF parse_attributes
    <3>2. Places'
      BY <1>0, <2>1, <3>1 DEF Places, PC
    <3>3. Tiebreak' /\ Checked' /\ PathCounts'
      BY <1>0, <2>1, <3>1 DEF Tiebreak, Checked, PathCounts
    <3> QED BY <3>2, <3>3 DEF Parsed
  <2>5. CASE Asserted(a)
    <3>1. /\ tiebreak' = parse_attribute(tiebreak, a) /\ p' = p + 1
          /\ pc' = IF p < L THEN "attributes" ELSE "nlri"
      BY <1>2, <2>1, <2>5 DEF parse_attributes
    <3>2. /\ tiebreak' \in Registers /\ Size(tiebreak'.local_pref) = 4
          /\ a.type # LOCAL_PREF => tiebreak'.local_pref = tiebreak.local_pref
          /\ tiebreak'.path_length = IF a.type = AS_PATH THEN as_path_count(a.value) ELSE tiebreak.path_length
      <4>1. tiebreak \in Registers /\ Size(tiebreak.local_pref) = 4
        BY <1>0 DEF Tiebreak
      <4> HIDE DEF a
      <4> QED BY <2>3, <2>5, <3>1, <4>1, RegistersKept
    <3>3. Places'
      <4>1. p' \in 1..(L + 1) /\ (pc' = "attributes" => p' \in 1..L) /\ (pc' # "attributes" => p' = L + 1)
        <5>1. p \in Nat /\ p >= 1 /\ p <= L
          BY <2>2
        <5> HIDE DEF L
        <5> QED BY <2>3, <3>1, <5>1
      <4>2. pc' \in PC
        BY <3>1 DEF PC
      <4> QED BY <1>0, <2>1, <4>1, <4>2 DEF Places
    <3>4. Tiebreak'
      <4>1. ASSUME LOCAL_PREF \notin Types(attributes) PROVE tiebreak'.local_pref = static_local_pref
        <5>1. a.type # LOCAL_PREF
          BY <2>2, <4>1 DEF Types, Lists
        <5> QED BY <1>0, <3>2, <4>1, <5>1 DEF Tiebreak
      <4> QED BY <2>1, <3>2, <4>1 DEF Tiebreak
    <3>5. \A i : i \in 1..(p' - 1) <=> i = p \/ i \in 1..(p - 1)
      <4>1. p \in Nat /\ p >= 1
        BY <2>2
      <4> HIDE DEF a, L
      <4> QED BY <3>1, <4>1
    <3>6. Checked'
      BY <1>0, <2>1, <2>5, <3>5 DEF Checked
    <3>7. PathCounts'
      <4> SUFFICES ASSUME NEW i \in 1..(p' - 1), attributes[i].type = AS_PATH,
                          \A j \in 1..(p' - 1) : attributes[j].type = AS_PATH => j <= i
                   PROVE  tiebreak'.path_length = as_path_count(attributes[i].value)
        BY <2>1 DEF PathCounts
      <4>1. CASE i = p
        BY <3>2, <4>1
      <4>2. CASE i # p
        <5>1. i \in 1..(p - 1)
          BY <3>5, <4>2
        <5>2. a.type # AS_PATH
          <6>1. ~(p <= i)
            BY <2>2, <5>1
          <6> QED BY <3>5, <6>1
        <5>3. \A j \in 1..(p - 1) : attributes[j].type = AS_PATH => j <= i
          BY <3>5
        <5>4. tiebreak.path_length = as_path_count(attributes[i].value)
          BY <1>0, <5>1, <5>3 DEF PathCounts
        <5> QED BY <3>2, <5>2, <5>4
      <4> QED BY <4>1, <4>2
    <3> QED BY <3>3, <3>4, <3>6, <3>7 DEF Parsed
  <2> QED BY <2>4, <2>5
<1> QED BY <1>1, <1>2 DEF Next, Later

-----------------------------------------------------------------------------
(* What a call of a serializer does.                                       *)
Doing == Program(group)[call + 1][1]
Want == Program(group)[call + 1][2]
Advances ==
  /\ pc = "serialize" /\ call' = call + 1 /\ r' \in 1..(Len(attributes) + 1)
  /\ pc' = IF call + 1 < 4 THEN "serialize" ELSE "build"
  /\ UNCHANGED <<message, group, p, tiebreak, nlrip, table, txp>>
Finds == r' = found.r /\ Got(attributes, r, Want, found)
Skips == Advances /\ Finds /\ Doing \in {"copy", "prepend"} /\ found.attr_ptr = 0 /\ q' = q
(* What is passed on of the value, and what that adds to it.               *)
Sent == IF Doing = "set" THEN <<FirstOctet(value)>> ELSE value
Takes(x) ==
  /\ Advances /\ Finds /\ Doing \in {"set", "copy"} /\ found.attr_ptr # 0 /\ q' = Append(q, x)
  /\ IsWritten(x, Want, Size(Sent), Sent)
  /\ Doing = "set" => Want = ORIGIN /\ group # "copy" /\ Size(Sent) = 1 /\ IsOctets(value)
Puts(x) ==
  /\ Advances /\ Finds /\ Doing = "prepend" /\ found.attr_ptr # 0 /\ q' = Append(q, x)
  /\ Fits(x) /\ x.type = AS_PATH /\ x.length = Size(value) + 4
Sets(x) ==
  /\ Advances /\ Doing = "set4" /\ r' = r /\ q' = Append(q, x)
  /\ IsWritten(x, LOCAL_PREF, Size(tiebreak.local_pref), tiebreak.local_pref)
Rests ==
  /\ UNCHANGED <<message, group, r, call, q>>
  /\ pc' \in {"serialize", "build"} => pc' = pc \/ (pc = "nlri" /\ pc' = "serialize")
  /\ pc' \in {"attributes", "nlri"} => pc \in {"attributes", "nlri"}
Serves == Skips \/ \E x \in Outs : Takes(x) \/ Puts(x) \/ Sets(x)

LEMMA CallIs ==
  ASSUME Parsed, Serialized, pc = "serialize"
  PROVE  /\ call + 1 \in 1..4 /\ Len(Program(group)) = 4 /\ Want \in Nat /\ Lists(attributes)
         /\ Got(attributes, r, Want, found)
         /\ found.attr_ptr # 0 =>
              /\ found.attr_ptr \in 1..Len(attributes) /\ attributes[found.attr_ptr].type = Want
              /\ value \in Seq(Items) /\ Size(value) \in Nat
         /\ found.r \in 1..(Len(attributes) + 1)
<1>1. group \in Group /\ message \in Messages
  BY DEF Parsed, Places
<1>2. Calling(Program(group)) /\ call + 1 \in 1..4
  BY <1>1, Serializers DEF Serialized
<1>3. Lists(attributes)
  BY <1>1, MessageIs DEF attributes
<1>4. Want \in Nat /\ Len(Program(group)) = 4
  BY <1>2 DEF Calling, Want
<1>5. Len(attributes) \in Nat /\ Typed(attributes) /\ r \in 1..(Len(attributes) + 1)
  BY <1>3 DEF Lists, Typed, Serialized
<1>6. Got(attributes, r, Want, found)
  BY <1>4, <1>5, GetIs DEF found, Want
<1>7. ASSUME found.attr_ptr # 0
      PROVE  /\ found.attr_ptr \in 1..Len(attributes) /\ attributes[found.attr_ptr].type = Want
             /\ value \in Seq(Items) /\ Size(value) \in Nat
  <2>1. found.attr_ptr \in r..Len(attributes) /\ attributes[found.attr_ptr].type = Want
    BY <1>6, <1>7 DEF Got
  <2>2. found.attr_ptr \in 1..Len(attributes)
    BY <1>5, <2>1
  <2>3. value \in Seq(Items)
    BY <1>3, <2>2 DEF Lists, value
  <2> QED BY <2>1, <2>2, <2>3, SizesNat
<1>8. found.r \in 1..(Len(attributes) + 1)
  BY <1>5, <1>6 DEF Got
<1> QED BY <1>2, <1>3, <1>4, <1>6, <1>7, <1>8

(* A step either leaves the serializer where it is or is one of its calls. *)
LEMMA Serving ==
  ASSUME Parsed, Serialized, [Next]_vars
  PROVE  Rests \/ Serves
<1>1. CASE parse_attributes
  BY <1>1 DEF parse_attributes, Rests
<1>2. CASE parse_nlri
  BY <1>2 DEF parse_nlri, Rests
<1>3. CASE Build
  BY <1>3 DEF Build, Rests
<1>4. CASE Stop \/ UNCHANGED vars
  BY <1>4 DEF Stop, vars, Rests
<1>5. CASE Fails
  BY <1>5 DEF Fails, Rests
<1>6. ASSUME pc = "serialize", NEW w, Writes(w)
      PROVE  /\ call' = call + 1 /\ pc' = IF call + 1 < 4 THEN "serialize" ELSE "build"
             /\ UNCHANGED <<message, group, p, tiebreak, nlrip, table, txp>>
             /\ q' = q \o w
  BY <1>6, CallIs DEF Writes
<1>7. q \in Seq(Outs) /\ r \in 1..(Len(attributes) + 1)
  BY DEF Serialized
<1>8. ASSUME NEW w, w = <<>> PROVE q \o w = q
  BY <1>7, <1>8, ConcatEmptySeq
<1>9. ASSUME NEW x \in Outs, NEW w, w = <<x>> PROVE q \o w = Append(q, x)
  BY <1>7, <1>9, AppendIsConcat
<1>10. ASSUME pc = "serialize", r' = found.r, NEW w, Writes(w) PROVE Advances /\ Finds
  BY <1>6, <1>10, CallIs DEF Advances, Finds
<1>11. ASSUME pc = "serialize", found.attr_ptr # 0
       PROVE  copied \in Outs /\ IsWritten(copied, Want, Size(value), value)
  <2>1. Want \in Nat /\ attributes[found.attr_ptr].type = Want /\ value \in Seq(Items)
    BY <1>11, CallIs
  <2>2. copied = copy(Want, value)
    BY <2>1 DEF copied
  <2>3. IsWritten(copied, Want, Size(value), value)
    BY <2>1, <2>2, CopyIs
  <2> QED BY <2>3 DEF IsWritten
<1>17. ASSUME Calls("set"), found.attr_ptr # 0
       PROVE  LET x == set(attributes[found.attr_ptr].type, value)
              IN  /\ x \in Outs /\ IsWritten(x, Want, Size(Sent), Sent)
                  /\ Want = ORIGIN /\ group # "copy" /\ Size(Sent) = 1 /\ IsOctets(value)
  <2>1. pc = "serialize" /\ Doing = "set"
    BY <1>17 DEF Calls, Doing
  <2>2. group \in Group
    BY DEF Parsed, Places
  <2>3. Want = ORIGIN /\ group # "copy"
    <3>1. call + 1 \in 1..4
      BY <2>1, CallIs
    <3> QED BY <2>1, <2>2, <3>1, Serializers DEF Want, Doing
  <2>4. /\ found.attr_ptr \in 1..Len(attributes) /\ attributes[found.attr_ptr].type = Want
        /\ value \in Seq(Items) /\ Lists(attributes)
    BY <1>17, <2>1, CallIs
  <2>5. IsOctets(value)
    BY <2>3, <2>4 DEF Lists, value
  <2>6. Sent = <<FirstOctet(value)>>
    BY <2>1 DEF Sent
  <2>7. Size(Sent) = 1 /\ IsWritten(set(Want, value), Want, 1, Sent)
    BY <2>3, <2>4, <2>5, <2>6, SetIs DEF ORIGIN
  <2> QED BY <2>3, <2>4, <2>5, <2>7 DEF IsWritten
<1>12. \A op : Calls(op) <=> pc = "serialize" /\ Doing = op
  BY Zenon DEF Calls, Doing
<1>13. CASE Set
  <2>1. pc = "serialize" /\ Doing = "set"
    BY <1>12, <1>13 DEF Set
  <2>2. CASE found.attr_ptr = 0
    BY <1>5, <1>13, <2>2 DEF Set
  <2>3. CASE found.attr_ptr # 0
    <3> DEFINE x == set(attributes[found.attr_ptr].type, value)
    <3>1. r' = found.r /\ Writes(<<x>>)
      BY <1>13, <2>3 DEF Set
    <3>2. /\ x \in Outs /\ IsWritten(x, Want, Size(Sent), Sent)
          /\ Want = ORIGIN /\ group # "copy" /\ Size(Sent) = 1 /\ IsOctets(value)
      BY <1>13, <1>17, <2>3 DEF Set
    <3> HIDE DEF x
    <3>3. Advances /\ Finds
      BY <1>10, <2>1, <3>1
    <3>4. q' = Append(q, x)
      BY <1>6, <1>9, <2>1, <3>1, <3>2
    <3> QED BY <2>1, <2>3, <3>2, <3>3, <3>4 DEF Takes, Serves
  <2> QED BY <2>2, <2>3
<1>14. CASE Copy
  <2>1. pc = "serialize" /\ Doing = "copy" /\ r' = found.r
    BY <1>12, <1>14 DEF Copy
  <2>2. CASE found.attr_ptr = 0
    <3>1. Writes(<<>>)
      BY <1>14, <2>2 DEF Copy
    <3>2. Advances /\ Finds
      BY <1>10, <2>1, <3>1
    <3>3. q' = q
      BY <1>6, <1>8, <2>1, <3>1
    <3> QED BY <2>1, <2>2, <3>2, <3>3 DEF Skips, Serves
  <2>3. CASE found.attr_ptr # 0
    <3>1. Writes(<<copied>>)
      BY <1>14, <2>3 DEF Copy
    <3>2. copied \in Outs /\ IsWritten(copied, Want, Size(value), value)
      BY <1>11, <2>1, <2>3
    <3>3. Advances /\ Finds
      BY <1>10, <2>1, <3>1
    <3>4. q' = Append(q, copied)
      BY <1>6, <1>9, <2>1, <3>1, <3>2
    <3>5. Sent = value /\ Doing # "set"
      BY <2>1 DEF Sent
    <3> QED BY <2>1, <2>3, <3>2, <3>3, <3>4, <3>5 DEF Takes, Serves
  <2> QED BY <2>2, <2>3
<1>15. CASE Prepend
  <2>1. pc = "serialize" /\ Doing = "prepend"
    BY <1>12, <1>15 DEF Prepend
  <2>2. CASE found.attr_ptr = 0
    <3>1. r' = found.r /\ Writes(<<>>)
      BY <1>15, <2>2 DEF Prepend
    <3>2. Advances /\ Finds
      BY <1>10, <2>1, <3>1
    <3>3. q' = q
      BY <1>6, <1>8, <2>1, <3>1
    <3> QED BY <2>1, <2>2, <3>2, <3>3 DEF Skips, Serves
  <2>3. CASE found.attr_ptr # 0
    <3>1. CASE Fails
      BY <1>5, <3>1
    <3>2. CASE ~Fails
      <4>1. r' = found.r /\ Writes(<<prepend(OwnAS, value)>>) /\ value # <<>>
        BY <1>15, <2>3, <3>2 DEF Prepend
      <4> DEFINE x == prepend(OwnAS, value)
      <4>2. x \in Outs /\ Fits(x) /\ x.type = AS_PATH /\ x.length = Size(value) + 4
        <5>1. Want = AS_PATH
          <6>1. group \in Group
            BY DEF Parsed, Places
          <6> QED BY <2>1, <6>1, CallIs, Serializers DEF Want, Doing
        <5>2. IsPath(value)
          BY <2>1, <2>3, <5>1, CallIs DEF Lists, value
        <5> QED BY <2>1, <2>3, <4>1, <5>2, CallIs, PrependIs, UpdateAssumption
      <4> HIDE DEF x
      <4>3. Advances /\ Finds
        BY <1>10, <2>1, <4>1
      <4>4. q' = Append(q, x)
        BY <1>6, <1>9, <2>1, <4>1, <4>2 DEF x
      <4> QED BY <2>1, <2>3, <4>2, <4>3, <4>4 DEF Puts, Serves
    <3> QED BY <3>1, <3>2
  <2> QED BY <2>2, <2>3
<1>16. CASE Set4
  <2>1. pc = "serialize" /\ Doing = "set4" /\ r' = r
    BY <1>12, <1>16 DEF Set4
  <2> DEFINE lp == tiebreak.local_pref
             x == copy(LOCAL_PREF, Store(bswap_32(lp)))
  <2>2. Writes(<<x>>)
    BY <1>16 DEF Set4
  <2>3. lp \in Seq(Items)
    BY DEF Parsed, Tiebreak, Registers
  <2> HIDE DEF lp
  <2>4. Store(bswap_32(lp)) = lp
    BY <2>3, Swapped
  <2>5. IsWritten(x, LOCAL_PREF, Size(lp), lp)
    BY <2>3, <2>4, CopyIs DEF LOCAL_PREF
  <2> HIDE DEF x
  <2>6. x \in Outs
    BY <2>5 DEF IsWritten
  <2>7. Advances
    BY <1>6, <1>7, <2>1, <2>2 DEF Advances
  <2>8. q' = Append(q, x)
    BY <1>6, <1>9, <2>1, <2>2, <2>6
  <2> QED BY <2>1, <2>5, <2>6, <2>7, <2>8 DEF Sets, Serves, lp
<1> QED BY <1>1, <1>2, <1>3, <1>4, <1>13, <1>14, <1>15, <1>16 DEF Next

(* Every step keeps Serialized: what a call writes is typed, and the       *)
(* cursor moves past what get() found.                                     *)
LEMMA SerializedStep == Parsed /\ Serialized /\ [Next]_vars => Serialized'
<1> SUFFICES ASSUME Parsed, Serialized, [Next]_vars PROVE Serialized'
  OBVIOUS
<1>1. CASE Rests
  <2>1. attributes' = attributes
    BY <1>1 DEF Rests, attributes
  <2>2. ASSUME pc' = "serialize" PROVE call < 4
    BY <1>1, <2>2 DEF Rests, Serialized
  <2>3. ASSUME pc' = "build" PROVE call = 4
    BY <1>1, <2>3 DEF Rests, Serialized
  <2>4. ASSUME pc' \in {"attributes", "nlri"} PROVE call = 0 /\ q = <<>> /\ r = 1
    BY <1>1, <2>4 DEF Rests, Serialized
  <2> QED BY <1>1, <2>1, <2>2, <2>3, <2>4 DEF Serialized, Rests
<1>2. CASE Serves
  <2>1. Advances
    BY <1>2 DEF Serves, Skips, Takes, Puts, Sets
  <2>2. q' \in Seq(Outs)
    <3>1. q \in Seq(Outs)
      BY DEF Serialized
    <3>2. q' = q \/ \E x \in Outs : q' = Append(q, x)
      BY <1>2 DEF Serves, Skips, Takes, Puts, Sets
    <3> HIDE DEF Outs
    <3> QED BY <3>1, <3>2, AppendProperties
  <2>3. call + 1 \in 1..4
    BY <2>1, CallIs DEF Advances
  <2>4. attributes' = attributes
    BY <2>1 DEF Advances, attributes
  <2>5. call' \in 0..4 /\ (pc' = "serialize" => call' < 4) /\ (pc' = "build" => call' = 4)
        /\ pc' \in {"serialize", "build"}
    BY <2>1, <2>3 DEF Advances, Serialized
  <2> QED BY <2>1, <2>2, <2>4, <2>5 DEF Serialized, Advances
<1> QED BY <1>1, <1>2, Serving

-----------------------------------------------------------------------------
(* What is written ascends, fits its length and comes from the message.    *)
LastType == IF call = 0 THEN 0 ELSE Program(group)[call][2]
Sound(x) ==
  /\ Fits(x)
  /\ \/ Bares(x) \in ToSet(attributes)
     \/ x.type = LOCAL_PREF /\ group = "ibgp"
     \/ x.type = AS_PATH /\ group = "ebgp"
     \/ /\ x.type = ORIGIN /\ group # "copy"
        /\ \E a \in Origins(attributes) : a.value # <<>> => x.value = <<a.value[1]>>
Sorted ==
  /\ Ascending(q)
  /\ \A i \in 1..Len(q) : q[i].type <= LastType /\ Sound(q[i])

(* What a sequence holds with one element more.                            *)
LEMMA Appended ==
  ASSUME NEW S, NEW s \in Seq(S), NEW x \in S
  PROVE  LET t == Append(s, x)
         IN  /\ Len(s) \in Nat /\ DOMAIN s = 1..Len(s) /\ DOMAIN t = 1..(Len(s) + 1) /\ Len(t) = Len(s) + 1
             /\ t[Len(s) + 1] = x /\ \A i \in 1..Len(s) : t[i] = s[i]
             /\ \A i \in 1..(Len(s) + 1) : i = Len(s) + 1 \/ i \in 1..Len(s)
OBVIOUS

(* Every step keeps Sorted: a call writes a type above those written, with *)
(* the length of its value.                                                *)
LEMMA SortedStep == Parsed /\ Serialized /\ Sorted /\ [Next]_vars => Sorted'
<1> SUFFICES ASSUME Parsed, Serialized, Sorted, [Next]_vars PROVE Sorted'
  OBVIOUS
<1>1. CASE Rests
  <2>1. message' = message /\ group' = group /\ call' = call /\ q' = q /\ attributes' = attributes
    BY <1>1 DEF Rests, attributes
  <2>2. LastType' = LastType
    BY <2>1 DEF LastType
  <2>3. \A x : Sound(x)' <=> Sound(x)
    BY <2>1 DEF Sound, Origins
  <2> QED BY <2>1, <2>2, <2>3 DEF Sorted
<1>2. CASE Serves
  <2>1. Advances
    BY <1>2 DEF Serves, Skips, Takes, Puts, Sets
  <2>2. /\ pc = "serialize" /\ message' = message /\ group' = group /\ attributes' = attributes
        /\ call' = call + 1
    BY <2>1 DEF Advances, attributes
  <2>3. call + 1 \in 1..4 /\ call \in Nat
    BY <2>2, CallIs DEF Serialized
  <2>4. Calling(Program(group))
    BY Serializers DEF Parsed, Places
  <2>5. LastType' = Want
    BY <2>2, <2>3 DEF LastType, Want
  <2>6. LastType \in Nat /\ Want \in Nat /\ LastType < Want
    <3>1. Want \in Nat \ {0}
      BY <2>3, <2>4 DEF Calling, Want
    <3>2. CASE call = 0
      BY <3>1, <3>2 DEF LastType
    <3>3. CASE call # 0
      <4>1. call \in 1..3 /\ call \in 1..4
        BY <2>3, <3>3
      <4> QED BY <2>4, <3>1, <3>3, <4>1 DEF Calling, LastType, Want
    <3> QED BY <3>2, <3>3
  <2>7. \A x : Sound(x)' <=> Sound(x)
    BY <2>2 DEF Sound, Origins
  <2>8. q \in Seq(Outs) /\ \A i \in 1..Len(q) : q[i].type \in Nat
    <3>1. q \in Seq(Outs)
      BY DEF Serialized
    <3>2. \A x \in Outs : x.type \in Nat
      BY DEF Outs
    <3> HIDE DEF Outs
    <3> QED BY <3>1, <3>2
  <2>9. CASE q' = q
    BY <2>5, <2>6, <2>7, <2>8, <2>9 DEF Sorted
  <2>10. ASSUME NEW x \in Outs, Takes(x) \/ Puts(x) \/ Sets(x) PROVE x.type = Want /\ Sound(x) /\ q' = Append(q, x)
    <3>1. q' = Append(q, x)
      BY <2>10 DEF Takes, Puts, Sets
    <3>2. group \in Group
      BY DEF Parsed, Places
    <3>3. CASE Takes(x)
      <4>1. IsWritten(x, Want, Size(Sent), Sent) /\ found.attr_ptr # 0
        BY <3>3 DEF Takes
      <4>2. /\ found.attr_ptr \in 1..Len(attributes) /\ attributes[found.attr_ptr].type = Want
            /\ Lists(attributes)
        BY <2>2, <4>1, CallIs
      <4>3. attributes[found.attr_ptr] \in ToSet(attributes)
        BY <4>2 DEF ToSet, Lists
      <4>4. CASE Doing # "set"
        <5>1. Sent = value
          BY <4>4 DEF Sent
        <5>2. Bares(x) = attributes[found.attr_ptr]
          BY <4>1, <4>2, <5>1 DEF IsWritten, Lists, value
        <5> QED BY <3>1, <4>1, <4>3, <5>2 DEF IsWritten, Sound, Fits
      <4>5. CASE Doing = "set"
        <5>1. Want = ORIGIN /\ group # "copy" /\ Sent = <<FirstOctet(value)>>
          BY <3>3, <4>5 DEF Takes, Sent
        <5>2. attributes[found.attr_ptr] \in Origins(attributes) /\ attributes[found.attr_ptr].value = value
          BY <4>2, <4>3, <5>1 DEF Origins, value
        <5>3. value # <<>> => x.value = <<value[1]>>
          BY <4>1, <5>1 DEF IsWritten, FirstOctet
        <5> QED BY <3>1, <4>1, <5>1, <5>2, <5>3 DEF IsWritten, Sound, Fits
      <4> QED BY <4>4, <4>5
    <3>4. CASE Puts(x)
      <4>1. Fits(x) /\ x.type = AS_PATH /\ Doing = "prepend"
        BY <3>4 DEF Puts
      <4>2. group = "ebgp" /\ Want = AS_PATH
        BY <2>3, <3>2, <4>1, Serializers DEF Doing, Want
      <4> QED BY <3>1, <4>1, <4>2 DEF Sound
    <3>5. CASE Sets(x)
      <4>1. IsWritten(x, LOCAL_PREF, Size(tiebreak.local_pref), tiebreak.local_pref) /\ Doing = "set4"
        BY <3>5 DEF Sets
      <4>2. group = "ibgp" /\ Want = LOCAL_PREF
        BY <2>3, <3>2, <4>1, Serializers DEF Doing, Want
      <4> QED BY <3>1, <4>1, <4>2 DEF IsWritten, Sound, Fits
    <3> QED BY <2>10, <3>3, <3>4, <3>5
  <2>11. CASE q' # q
    <3>1. PICK x \in Outs : Takes(x) \/ Puts(x) \/ Sets(x)
      BY <1>2, <2>11 DEF Serves, Skips
    <3>2. x.type = Want /\ Sound(x) /\ q' = Append(q, x)
      BY <2>10, <3>1
    <3> DEFINE n == Len(q)
    <3>3. /\ n \in Nat /\ DOMAIN q = 1..n /\ DOMAIN q' = 1..(n + 1) /\ Len(q') = n + 1
          /\ q'[n + 1] = x /\ \A i \in 1..n : q'[i] = q[i]
          /\ \A i \in 1..(n + 1) : i = n + 1 \/ i \in 1..n
      <4> HIDE DEF Outs
      <4> QED BY <2>8, <3>2, Appended
    <3> HIDE DEF n
    <3>4. \A i \in 1..n : q[i].type \in Nat /\ q[i].type <= LastType /\ Sound(q[i])
      BY <2>8 DEF Sorted, n
    <3>5. ASSUME NEW i \in 1..(n + 1), NEW j \in 1..(n + 1), i < j PROVE q'[i].type < q'[j].type
      <4>1. i \in 1..n
        BY <3>3, <3>5
      <4>2. CASE j = n + 1
        BY <2>6, <3>2, <3>3, <3>4, <4>1, <4>2
      <4>3. CASE j \in 1..n
        <5>1. q[i].type < q[j].type
          BY <3>3, <3>5, <4>1, <4>3 DEF Sorted, Ascending
        <5> QED BY <3>3, <4>1, <4>3, <5>1
      <4> QED BY <3>3, <4>2, <4>3
    <3>6. Ascending(q')
      BY <3>3, <3>5 DEF Ascending
    <3>7. ASSUME NEW i \in 1..(n + 1) PROVE q'[i].type <= Want /\ Sound(q'[i])
      <4>1. CASE i = n + 1
        BY <2>6, <3>2, <3>3, <4>1
      <4>2. CASE i \in 1..n
        BY <2>6, <3>3, <3>4, <4>2
      <4> QED BY <3>3, <4>1, <4>2
    <3> QED BY <2>5, <2>7, <3>3, <3>6, <3>7 DEF Sorted
  <2> QED BY <2>9, <2>11
<1> QED BY <1>1, <1>2, Serving

SInv == Parsed /\ Serialized /\ Sorted

(* SInv holds at the start.                                                *)
LEMMA SInvInit == Init => SInv
<1> SUFFICES ASSUME Init PROVE SInv
  OBVIOUS
<1>1. Parsed
  BY ParsedInit
<1>2. pc = "attributes" /\ call = 0 /\ q = <<>> /\ r = 1
  BY DEF Init
<1>3. Serialized
  <2>1. Len(attributes) \in Nat
    BY <1>1, MessageIs DEF Parsed, Places, Lists, attributes
  <2> QED BY <1>2, <2>1 DEF Serialized
<1>4. Sorted
  BY <1>2 DEF Sorted, Ascending
<1> QED BY <1>1, <1>3, <1>4 DEF SInv

(* Every step keeps SInv.                                                  *)
LEMMA SInvStep == SInv /\ [Next]_vars => SInv'
BY ParsedStep, SerializedStep, SortedStep DEF SInv

(* SInv is an invariant.                                                   *)
LEMMA SInvAlways == Spec => []SInv
<1>1. SInv /\ [Next]_vars => SInv'
  BY SInvStep
<1> QED BY <1>1, SInvInit, PTL DEF Spec

(* Attributes that come in any order, or not at all: none is passed on     *)
(* twice, out of order or in another's place; of an ORIGIN it is the first *)
(* octet that is passed on where set() writes it, if it has any.           *)
THEOREM OwnPlace == Spec => []NeverAnothers
<1>1. SInv => NeverAnothers
  <2> SUFFICES ASSUME SInv PROVE NeverAnothers
    OBVIOUS
  <2>1. Sorted /\ DOMAIN q = 1..Len(q)
    BY DEF SInv, Serialized
  <2>2. \A i \in DOMAIN q : Bare(q)[i] = Bares(q[i])
    BY DEF Bare, Bares
  <2> QED BY <2>1, <2>2, Zenon DEF Sorted, Sound, NeverAnothers
<1> QED BY <1>1, SInvAlways, PTL

(* What is written can be read: the length is that of the value, in one    *)
(* octet only if it fits one.                                              *)
THEOREM Readable == Spec => []WellFormed
<1>1. SInv => WellFormed
  <2> SUFFICES ASSUME SInv PROVE WellFormed
    OBVIOUS
  <2>1. Sorted /\ DOMAIN q = 1..Len(q) /\ q \in Seq(Outs)
    BY DEF SInv, Serialized
  <2> SUFFICES ASSUME NEW i \in 1..Len(q)
               PROVE  q[i].length = Size(q[i].value) /\ (~q[i].extended => q[i].length < UINT8)
    BY <2>1 DEF WellFormed
  <2>2. Fits(q[i]) /\ q[i].length \in Nat
    <3>1. \A x \in Outs : x.length \in Nat
      BY DEF Outs
    <3> HIDE DEF Outs
    <3> QED BY <2>1, <3>1 DEF Sorted, Sound
  <2>3. ~q[i].extended => ~(q[i].length >= UINT8)
    BY <2>2, Zenon DEF Fits
  <2>4. ~(q[i].length >= UINT8) => q[i].length < UINT8
    BY <2>2, AttributesAssumption
  <2>5. q[i].length = Size(q[i].value)
    BY <2>2 DEF Fits
  <2> QED BY <2>3, <2>4, <2>5
<1> QED BY <1>1, SInvAlways, PTL

(* path_length is the number of ASes in the last path with each set taken  *)
(* as one, not cut to eight bits.                                          *)
THEOREM Counted8 == Spec => []PathLength
<1>1. SInv => PathLength
  <2> SUFFICES ASSUME SInv, pc \notin {"attributes", "assert"}, NEW i \in LastOf(AS_PATH)
               PROVE  tiebreak.path_length
                        = Cardinality(Kind(attributes[i].value, "as") \ InSet(attributes[i].value))
                          + Cardinality(Kind(attributes[i].value, "set"))
    BY DEF PathLength
  <2>1. p = Len(attributes) + 1 /\ Lists(attributes) /\ PathCounts
    BY MessageIs DEF SInv, Parsed, Places, attributes
  <2>2. /\ i \in 1..Len(attributes) /\ attributes[i].type = AS_PATH /\ p - 1 = Len(attributes)
        /\ \A j \in 1..Len(attributes) : attributes[j].type = AS_PATH => j <= i
    BY <2>1 DEF LastOf, Lists
  <2>3. tiebreak.path_length = as_path_count(attributes[i].value)
    BY <2>1, <2>2 DEF PathCounts
  <2>4. attributes[i].value \in Seq(Items) /\ IsPath(attributes[i].value)
    BY <2>1, <2>2 DEF Lists
  <2> QED BY <2>3, <2>4, PathCounted
<1> QED BY <1>1, SInvAlways, PTL

-----------------------------------------------------------------------------
(* Of a message with the mandatory attributes, all in order and the ORIGIN *)
(* of one octet, nothing is lost: the cursor has passed what is not above the last type called for, *)
(* and of that what is to be passed on is written.                         *)
Pick(S) == {a \in S : a.type \in Wanted(group)}
UpTo(t) == {a \in ToSet(attributes) : a.type \in Wanted(group) /\ a.type <= t}
Preference == [type |-> LOCAL_PREF, value |-> static_local_pref]
Abreast ==
  Regular =>
    /\ call <= 3 => \A i \in 1..Len(attributes) : i < r => attributes[i].type <= LastType
    /\ Pick(ToSet(Bare(q))) = UpTo(LastType)
    /\ group = "ibgp" /\ LOCAL_PREF \notin Types(attributes) =>
         ToSet(Bare(q)) = UpTo(LastType) \cup (IF call = 4 THEN {Preference} ELSE {})

(* One attribute more is one more in the set of what is written.           *)
LEMMA BareAppended ==
  ASSUME NEW s \in Seq(Outs), NEW x \in Outs
  PROVE  ToSet(Bare(Append(s, x))) = ToSet(Bare(s)) \cup {Bares(x)}
<1> DEFINE t == Append(s, x)
           n == Len(s)
<1>1. /\ n \in Nat /\ DOMAIN s = 1..n /\ DOMAIN t = 1..(n + 1) /\ t[n + 1] = x
      /\ (\A i \in 1..n : t[i] = s[i]) /\ \A i \in 1..(n + 1) : i = n + 1 \/ i \in 1..n
  <2> HIDE DEF Outs
  <2> QED BY Appended
<1> HIDE DEF t, n
<1>2. ToSet(Bare(t)) = {Bares(t[i]) : i \in 1..(n + 1)}
  BY <1>1 DEF ToSet, Bare, Bares
<1>3. ToSet(Bare(s)) = {Bares(s[i]) : i \in 1..n}
  BY <1>1 DEF ToSet, Bare, Bares
<1>4. n + 1 \in 1..(n + 1) /\ \A i \in 1..n : i \in 1..(n + 1)
  BY <1>1
<1>5. ASSUME NEW y PROVE y \in ToSet(Bare(t)) <=> y \in ToSet(Bare(s)) \/ y = Bares(x)
  <2>1. y \in ToSet(Bare(t)) <=> \E i \in 1..(n + 1) : y = Bares(t[i])
    BY <1>2
  <2>2. y \in ToSet(Bare(s)) <=> \E i \in 1..n : y = Bares(s[i])
    BY <1>3
  <2> QED BY <1>1, <1>4, <2>1, <2>2, Zenon
<1> QED BY <1>5 DEF t

(* The types of a serializer are those of its calls.                       *)
LEMMA WantedIs ==
  ASSUME NEW g \in Group
  PROVE  \A t : t \in Wanted(g) <=> \E k \in 1..4 : Program(g)[k][1] \in {"set", "copy"} /\ t = Program(g)[k][2]
<1>1. Len(Program(g)) = 4
  BY Serializers DEF Calling
<1>2. DOMAIN Program(g) = 1..4
  <2>1. Program(g) \in {serialize_ibgp, serialize_ebgp, serialize_copy}
    BY DEF Program, Group
  <2> QED BY <2>1 DEF serialize_ibgp, serialize_ebgp, serialize_copy
<1>3. ToSet(Program(g)) = {Program(g)[k] : k \in 1..4}
  BY <1>2 DEF ToSet
<1> QED BY <1>3, Zenon DEF Wanted

(* Every step keeps Abreast: a call takes the attribute that the message   *)
(* has of its type, or has none to take.                                   *)
LEMMA AbreastStep == SInv /\ Abreast /\ [Next]_vars => Abreast'
<1> SUFFICES ASSUME SInv, Abreast, [Next]_vars, Regular' PROVE
       /\ call' <= 3 => \A i \in 1..Len(attributes') : i < r' => attributes'[i].type <= LastType'
       /\ Pick(ToSet(Bare(q)))' = UpTo(LastType)'
       /\ group' = "ibgp" /\ LOCAL_PREF \notin Types(attributes') =>
            ToSet(Bare(q')) = UpTo(LastType)' \cup (IF call' = 4 THEN {Preference} ELSE {})
  BY DEF Abreast, Preference
<1>0. Parsed /\ Serialized /\ Sorted
  BY DEF SInv
<1>1. CASE Rests
  <2>1. /\ message' = message /\ group' = group /\ call' = call /\ q' = q /\ r' = r
        /\ attributes' = attributes
    BY <1>1 DEF Rests, attributes
  <2>2. LastType' = LastType /\ Regular
    BY <2>1 DEF LastType, Regular, Origins
  <2>3. UpTo(LastType)' = UpTo(LastType) /\ Pick(ToSet(Bare(q)))' = Pick(ToSet(Bare(q)))
    BY <2>1, <2>2 DEF UpTo, Pick
  <2> QED BY <2>1, <2>2, <2>3 DEF Abreast
<1>2. CASE Serves
  <2>1. Advances
    BY <1>2 DEF Serves, Skips, Takes, Puts, Sets
  <2>2. /\ pc = "serialize" /\ message' = message /\ group' = group /\ attributes' = attributes
        /\ call' = call + 1 /\ tiebreak' = tiebreak
    BY <2>1 DEF Advances, attributes
  <2>3. call + 1 \in 1..4 /\ call \in Nat /\ call <= 3 /\ call # 4
    BY <1>0, <2>2, CallIs DEF Serialized
  <2>4. group \in Group /\ Calling(Program(group))
    BY <1>0, Serializers DEF Parsed, Places
  <2>5. LastType' = Want
    BY <2>2, <2>3 DEF LastType, Want
  <2>6. LastType \in Nat /\ Want \in Nat /\ LastType < Want
    <3>1. Want \in Nat \ {0}
      BY <2>3, <2>4 DEF Calling, Want
    <3>2. CASE call = 0
      BY <3>1, <3>2 DEF LastType
    <3>3. CASE call # 0
      <4>1. call \in 1..3 /\ call \in 1..4
        BY <2>3, <3>3
      <4> QED BY <2>4, <3>1, <3>3, <4>1 DEF Calling, LastType, Want
    <3> QED BY <3>2, <3>3
  <2>7. Regular /\ Lists(attributes) /\ Len(attributes) \in Nat /\ DOMAIN attributes = 1..Len(attributes)
    BY <1>0, <2>2, CallIs DEF Regular, Origins, Lists
  <2>8. /\ \A i \in 1..Len(attributes) : i < r => attributes[i].type <= LastType
        /\ Pick(ToSet(Bare(q))) = UpTo(LastType)
        /\ group = "ibgp" /\ LOCAL_PREF \notin Types(attributes) => ToSet(Bare(q)) = UpTo(LastType)
    BY <2>3, <2>7 DEF Abreast
  <2> DEFINE At == {a \in ToSet(attributes) : a.type = Want /\ Want \in Wanted(group)}
  <2>9. \A t \in Wanted(group) : t \in Nat /\ (t <= Want => t <= LastType \/ t = Want)
    <3> SUFFICES ASSUME NEW t \in Wanted(group) PROVE t \in Nat /\ (t <= Want => t <= LastType \/ t = Want)
      OBVIOUS
    <3>1. PICK k \in 1..4 : t = Program(group)[k][2]
      BY <2>4, WantedIs
    <3> DEFINE T(j) == Program(group)[j][2]
    <3>2. /\ T(1) \in Nat /\ T(2) \in Nat /\ T(3) \in Nat /\ T(4) \in Nat
          /\ T(1) < T(2) /\ T(2) < T(3) /\ T(3) < T(4)
      <4>1. 1 + 1 = 2 /\ 2 + 1 = 3 /\ 3 + 1 = 4
        OBVIOUS
      <4>2. 1 \in 1..4 /\ 2 \in 1..4 /\ 3 \in 1..4 /\ 4 \in 1..4 /\ 1 \in 1..3 /\ 2 \in 1..3 /\ 3 \in 1..3
        OBVIOUS
      <4>3. \A j \in 1..4 : T(j) \in Nat
        BY <2>4 DEF Calling
      <4>4. \A j \in 1..3 : T(j) < T(j + 1)
        BY <2>4 DEF Calling
      <4> HIDE DEF T
      <4>5. T(1) < T(1 + 1) /\ T(2) < T(2 + 1) /\ T(3) < T(3 + 1)
        BY <4>2, <4>4
      <4> QED BY <4>1, <4>2, <4>3, <4>5
    <3>3. t = T(k) /\ Want = T(call + 1) /\ (call # 0 => LastType = T(call))
      BY <3>1 DEF Want, LastType
    <3> HIDE DEF T
    <3>4. k = 1 \/ k = 2 \/ k = 3 \/ k = 4
      OBVIOUS
    <3>5. call = 0 \/ call = 1 \/ call = 2 \/ call = 3
      BY <2>3
    <3>6. t \in Nat
      BY <3>2, <3>3, <3>4
    <3>7. CASE call = 0
      BY <3>2, <3>3, <3>4, <3>7
    <3>8. CASE call = 1
      BY <3>2, <3>3, <3>4, <3>8
    <3>9. CASE call = 2
      BY <3>2, <3>3, <3>4, <3>9
    <3>10. CASE call = 3
      BY <3>2, <3>3, <3>4, <3>10
    <3> QED BY <3>5, <3>6, <3>7, <3>8, <3>9, <3>10
  <2>10. UpTo(LastType)' = UpTo(LastType) \cup At
    <3>1. UpTo(LastType)' = {a \in ToSet(attributes) : a.type \in Wanted(group) /\ a.type <= Want}
      BY <2>2, <2>5 DEF UpTo
    <3>2. \A t \in Wanted(group) : t <= LastType => t <= Want
      BY <2>6, <2>9
    <3>3. Want <= Want
      BY <2>6
    <3> QED BY <2>9, <3>1, <3>2, <3>3 DEF UpTo
  <2>11. \A i, j \in 1..Len(attributes) : i < j => attributes[i].type < attributes[j].type
    BY <2>7 DEF Regular, Ascending
  <2>12. \A i \in 1..Len(attributes) : attributes[i].type \in Nat
    BY <2>7 DEF Lists
  <2>13. ASSUME Finds, found.attr_ptr # 0
         PROVE  /\ \A i \in 1..Len(attributes) : i < r' => attributes[i].type <= Want
                /\ At = IF Want \in Wanted(group) THEN {attributes[found.attr_ptr]} ELSE {}
    <3> DEFINE f == found.attr_ptr
    <3>1. /\ f \in 1..Len(attributes) /\ attributes[f].type = Want /\ r' = f + 1
      BY <1>0, <2>2, <2>13, CallIs DEF Finds, Got
    <3> HIDE DEF f
    <3>2. ASSUME NEW i \in 1..Len(attributes) PROVE i < r' => attributes[i].type <= Want
      <4>1. CASE i < f
        <5>1. attributes[i].type < Want
          BY <2>11, <3>1, <4>1
        <5> QED BY <2>6, <2>12, <3>1, <4>1, <5>1
      <4>2. CASE i = f
        BY <2>6, <3>1, <4>2
      <4>3. CASE i > f
        <5>1. Want < attributes[i].type
          BY <2>11, <3>1, <4>3
        <5> QED BY <2>6, <2>12, <3>1, <4>3, <5>1
      <4> QED BY <3>1, <4>1, <4>2, <4>3
    <3>3. \A i \in 1..Len(attributes) : attributes[i].type = Want => i = f
      <4> SUFFICES ASSUME NEW i \in 1..Len(attributes), attributes[i].type = Want, i # f PROVE FALSE
        OBVIOUS
      <4>1. i < f \/ f < i
        BY <2>7, <3>1
      <4>2. Want < Want
        BY <2>11, <3>1, <4>1
      <4> QED BY <2>6, <4>2
    <3>4. \A a : a \in ToSet(attributes) /\ a.type = Want <=> a = attributes[f]
      BY <2>7, <3>1, <3>3 DEF ToSet
    <3> QED BY <3>2, <3>4 DEF f
  <2>14. ASSUME Finds, found.attr_ptr = 0
         PROVE  At = {} /\ Want \notin Types(attributes)
    <3>1. \/ found.r = Len(attributes) + 1 /\ Passes(attributes, r, found.r, Want)
          \/ /\ found.r - 1 \in r..Len(attributes) /\ attributes[found.r - 1].type > Want
             /\ Passes(attributes, r, found.r - 1, Want)
      BY <2>14 DEF Finds, Got
    <3>2. r \in 1..(Len(attributes) + 1) /\ found.r \in 1..(Len(attributes) + 1)
      BY <1>0, <2>2, CallIs DEF Serialized
    <3>3. ASSUME NEW i \in 1..Len(attributes), attributes[i].type = Want PROVE FALSE
      <4>1. ~(i < r)
        BY <2>6, <2>8, <2>12, <3>3
      <4>2. CASE found.r = Len(attributes) + 1 /\ Passes(attributes, r, found.r, Want)
        <5>1. i \in r..(found.r - 1)
          BY <2>7, <3>2, <4>1, <4>2
        <5>2. attributes[i].type < Want
          BY <4>2, <5>1 DEF Passes
        <5> QED BY <2>6, <3>3, <5>2
      <4>3. CASE /\ found.r - 1 \in r..Len(attributes) /\ attributes[found.r - 1].type > Want
                 /\ Passes(attributes, r, found.r - 1, Want)
        <5> DEFINE g == found.r - 1
        <5>1. g \in 1..Len(attributes) /\ attributes[g].type > Want /\ Passes(attributes, r, g, Want)
          BY <2>7, <3>2, <4>3
        <5> HIDE DEF g
        <5>2. CASE i < g
          <6>1. i \in r..(g - 1)
            BY <2>7, <3>2, <4>1, <5>1, <5>2
          <6> QED BY <2>6, <3>3, <5>1, <6>1 DEF Passes
        <5>3. CASE i = g
          BY <2>6, <3>3, <5>1, <5>3
        <5>4. CASE i > g
          <6>1. attributes[g].type < Want
            BY <2>11, <3>3, <5>1, <5>4
          <6> QED BY <2>6, <2>12, <5>1, <6>1
        <5> QED BY <2>7, <5>1, <5>2, <5>3, <5>4
      <4> QED BY <3>1, <4>2, <4>3
    <3>4. Want \notin Types(attributes)
      BY <2>7, <3>3 DEF Types
    <3>5. \A a \in ToSet(attributes) : a.type # Want
      BY <2>7, <3>3 DEF ToSet
    <3> QED BY <3>4, <3>5
  <2>15. ASSUME call + 1 <= 3 PROVE Want \in Types(attributes)
    <3>1. call + 1 = 1 \/ call + 1 = 2 \/ call + 1 = 3
      BY <2>3, <2>15
    <3>2. Want \in Mandatory
      BY <2>3, <2>4, <3>1, Serializers DEF Want, Mandatory
    <3> QED BY <2>7, <3>2 DEF Regular
  <2> HIDE DEF At
  <2>16. q \in Seq(Outs)
    BY <1>0 DEF Serialized
  <2>17. CASE Skips
    <3>1. Finds /\ found.attr_ptr = 0 /\ q' = q /\ Doing \in {"copy", "prepend"}
      BY <2>17 DEF Skips
    <3>2. At = {} /\ Want \notin Types(attributes)
      BY <2>14, <3>1
    <3>3. ~(call' <= 3)
      BY <2>2, <2>15, <3>2
    <3>4. Pick(ToSet(Bare(q)))' = Pick(ToSet(Bare(q)))
      BY <2>2, <3>1 DEF Pick
    <3>5. UpTo(LastType)' = UpTo(LastType)
      BY <2>10, <3>2
    <3>6. group # "ibgp"
      <4>1. call + 1 = 4
        BY <2>2, <2>3, <3>3
      <4> QED BY <2>4, <3>1, <4>1, Serializers DEF Doing
    <3> QED BY <2>2, <2>8, <3>3, <3>4, <3>5, <3>6
  <2>18. ASSUME NEW x \in Outs, q' = Append(q, x)
         PROVE  /\ ToSet(Bare(q')) = ToSet(Bare(q)) \cup {Bares(x)}
                /\ Pick(ToSet(Bare(q)))' = Pick(ToSet(Bare(q))) \cup (IF x.type \in Wanted(group) THEN {Bares(x)} ELSE {})
    <3>1. ToSet(Bare(q')) = ToSet(Bare(q)) \cup {Bares(x)}
      BY <2>16, <2>18, BareAppended
    <3>2. Bares(x).type = x.type
      BY DEF Bares
    <3>3. Pick(ToSet(Bare(q)))' = {a \in ToSet(Bare(q')) : a.type \in Wanted(group)}
      BY <2>2 DEF Pick
    <3> QED BY <3>1, <3>2, <3>3 DEF Pick
  <2>19. ASSUME NEW x \in Outs, Takes(x) PROVE
           /\ call' <= 3 => \A i \in 1..Len(attributes') : i < r' => attributes'[i].type <= LastType'
           /\ Pick(ToSet(Bare(q)))' = UpTo(LastType)'
           /\ group' = "ibgp" /\ LOCAL_PREF \notin Types(attributes') =>
                ToSet(Bare(q')) = UpTo(LastType)' \cup (IF call' = 4 THEN {Preference} ELSE {})
    <3>1. /\ Finds /\ found.attr_ptr # 0 /\ q' = Append(q, x) /\ Doing \in {"set", "copy"}
          /\ x.type = Want /\ Bares(x) = [type |-> Want, value |-> value]
      <4>1. /\ Finds /\ found.attr_ptr # 0 /\ q' = Append(q, x) /\ Doing \in {"set", "copy"}
            /\ x.type = Want /\ Bares(x) = [type |-> Want, value |-> Sent]
            /\ Doing = "set" => Want = ORIGIN
        BY <2>19 DEF Takes, IsWritten
      <4>2. Sent = value
        <5>1. CASE Doing = "set"
          <6>1. /\ found.attr_ptr \in 1..Len(attributes) /\ attributes[found.attr_ptr].type = ORIGIN
                /\ value \in Seq(Items)
            BY <1>0, <2>2, <4>1, <5>1, CallIs
          <6>2. attributes[found.attr_ptr] \in Origins(attributes) /\ attributes[found.attr_ptr].value = value
            BY <2>7, <6>1 DEF Origins, ToSet, value
          <6>3. Len(value) = 1
            BY <2>7, <6>2 DEF Regular
          <6> DEFINE v == value
          <6>4. v \in Seq(Items) /\ Len(v) = 1
            BY <6>1, <6>3
          <6> HIDE DEF v, Items
          <6>5. v # <<>> /\ v = <<v[1]>>
            BY <6>4
          <6> QED BY <5>1, <6>5 DEF Sent, FirstOctet, v
        <5>2. CASE Doing # "set"
          BY <5>2 DEF Sent
        <5> QED BY <5>1, <5>2
      <4> QED BY <4>1, <4>2
    <3>2. Bares(x) = attributes[found.attr_ptr]
      <4>1. found.attr_ptr \in 1..Len(attributes) /\ attributes[found.attr_ptr].type = Want
        BY <1>0, <2>2, <3>1, CallIs
      <4> QED BY <2>7, <3>1, <4>1 DEF Lists, value
    <3>3. Want \in Wanted(group)
      BY <2>3, <2>4, <3>1, WantedIs DEF Doing, Want
    <3>4. At = {Bares(x)}
      BY <2>13, <3>1, <3>2, <3>3
    <3>5. group = "ibgp" => call' # 4
      <4> SUFFICES ASSUME group = "ibgp", call + 1 = 4 PROVE FALSE
        BY <2>2
      <4>1. Doing = "set4"
        BY <2>4, Serializers DEF Doing
      <4> QED BY <3>1, <4>1
    <3>6. \A i \in 1..Len(attributes') : i < r' => attributes'[i].type <= LastType'
      BY <2>2, <2>5, <2>13, <3>1
    <3>7. /\ ToSet(Bare(q')) = ToSet(Bare(q)) \cup {Bares(x)}
          /\ Pick(ToSet(Bare(q)))' = Pick(ToSet(Bare(q))) \cup {Bares(x)}
      BY <2>18, <3>1, <3>3
    <3> QED BY <2>2, <2>8, <2>10, <3>4, <3>5, <3>6, <3>7, Zenon
  <2>20. ASSUME NEW x \in Outs, Puts(x) PROVE
           /\ call' <= 3 => \A i \in 1..Len(attributes') : i < r' => attributes'[i].type <= LastType'
           /\ Pick(ToSet(Bare(q)))' = UpTo(LastType)'
           /\ group' # "ibgp"
    <3>1. /\ Finds /\ found.attr_ptr # 0 /\ q' = Append(q, x) /\ Doing = "prepend" /\ x.type = AS_PATH
      BY <2>20 DEF Puts
    <3>2. group = "ebgp" /\ Want = AS_PATH
      BY <2>3, <2>4, <3>1, Serializers DEF Doing, Want
    <3>3. AS_PATH \notin Wanted(group)
      <4>1. \A k \in 1..4 : Program(group)[k][2] = AS_PATH => Program(group)[k][1] = "prepend"
        BY <3>2 DEF Program, serialize_ebgp, ORIGIN, AS_PATH, NEXT_HOP, COMMUNITY
      <4> QED BY <2>4, <4>1, WantedIs
    <3>4. At = {}
      BY <2>13, <3>1, <3>2, <3>3
    <3>5. \A i \in 1..Len(attributes') : i < r' => attributes'[i].type <= LastType'
      BY <2>2, <2>5, <2>13, <3>1
    <3>6. Pick(ToSet(Bare(q)))' = Pick(ToSet(Bare(q)))
      BY <2>18, <3>1, <3>3
    <3> QED BY <2>2, <2>8, <2>10, <3>2, <3>4, <3>5, <3>6
  <2>21. ASSUME NEW x \in Outs, Sets(x) PROVE
           /\ ~(call' <= 3)
           /\ Pick(ToSet(Bare(q)))' = UpTo(LastType)'
           /\ group' = "ibgp" /\ LOCAL_PREF \notin Types(attributes') =>
                ToSet(Bare(q')) = UpTo(LastType)' \cup (IF call' = 4 THEN {Preference} ELSE {})
    <3>1. /\ q' = Append(q, x) /\ Doing = "set4" /\ x.type = LOCAL_PREF
          /\ Bares(x) = [type |-> LOCAL_PREF, value |-> tiebreak.local_pref]
      BY <2>21 DEF Sets, IsWritten
    <3>2. group = "ibgp" /\ Want = LOCAL_PREF /\ call + 1 = 4
      BY <2>3, <2>4, <3>1, Serializers DEF Doing, Want
    <3>3. LOCAL_PREF \notin Wanted(group)
      <4>1. \A k \in 1..4 : Program(group)[k][2] = LOCAL_PREF => Program(group)[k][1] = "set4"
        BY <3>2 DEF Program, serialize_ibgp, ORIGIN, AS_PATH, NEXT_HOP, LOCAL_PREF
      <4> QED BY <2>4, <4>1, WantedIs
    <3>4. At = {}
      BY <3>2, <3>3 DEF At
    <3>5. /\ ToSet(Bare(q')) = ToSet(Bare(q)) \cup {Bares(x)}
          /\ Pick(ToSet(Bare(q)))' = Pick(ToSet(Bare(q)))
      BY <2>18, <3>1, <3>3
    <3>6. LOCAL_PREF \notin Types(attributes) => Bares(x) = Preference
      BY <1>0, <3>1 DEF Parsed, Tiebreak, Preference
    <3>7. call' = 4
      BY <2>2, <3>2
    <3> QED BY <2>2, <2>8, <2>10, <3>2, <3>4, <3>5, <3>6, <3>7
  <2> QED BY <1>2, <2>2, <2>17, <2>19, <2>20, <2>21 DEF Serves
<1> QED BY <1>0, <1>1, <1>2, Serving

(* What a serializer writes of a message that has the mandatory attributes,*)
(* in order and with an ORIGIN of one octet, is what it is to pass on, each*)
(* as it was and in its order, and the peer's LOCAL_PREF where none was    *)
(* received.                                                               *)
THEOREM PassedOn == Spec => []AttributesKept
<1> DEFINE I == SInv /\ Abreast
<1>1. Init => I
  <2> SUFFICES ASSUME Init PROVE I
    OBVIOUS
  <2>1. SInv /\ Lists(attributes) /\ group \in Group
    BY SInvInit, MessageIs DEF SInv, Parsed, Places, attributes
  <2>2. call = 0 /\ q = <<>> /\ r = 1
    BY DEF Init
  <2>3. LastType = 0
    BY <2>2 DEF LastType
  <2>4. ASSUME NEW w \in Wanted(group) PROVE w \in Nat /\ ~(w <= 0)
    <3>1. PICK k \in 1..4 : w = Program(group)[k][2]
      BY <2>1, WantedIs
    <3>2. Program(group)[k][2] \in Nat \ {0}
      BY <2>1, Serializers DEF Calling
    <3> QED BY <3>1, <3>2
  <2>5. UpTo(LastType) = {}
    BY <2>3, <2>4 DEF UpTo
  <2>6. Bare(q) = <<>>
    BY <2>2 DEF Bare
  <2>7. ToSet(Bare(q)) = {}
    BY <2>6 DEF ToSet
  <2>8. \A i \in 1..Len(attributes) : ~(i < r)
    BY <2>2
  <2> QED BY <2>1, <2>2, <2>5, <2>7, <2>8 DEF Abreast, Pick
<1>2. I /\ [Next]_vars => I'
  BY SInvStep, AbreastStep
<1>3. I => AttributesKept
  <2> SUFFICES ASSUME SInv, Abreast, pc = "build", Regular
               PROVE  /\ Ascending(q)
                      /\ {a \in ToSet(Bare(q)) : a.type \in Wanted(group)}
                           = {a \in ToSet(attributes) : a.type \in Wanted(group)}
                      /\ group = "ibgp" /\ LOCAL_PREF \notin Types(attributes) =>
                           ToSet(Bare(q)) = {a \in ToSet(attributes) : a.type \in Wanted(group)} \cup {Preference}
    BY Zenon DEF AttributesKept, Regular, Preference
  <2>1. call = 4 /\ group \in Group /\ Ascending(q) /\ Calling(Program(group))
    BY Serializers DEF SInv, Serialized, Parsed, Places, Sorted
  <2>2. LastType = Program(group)[4][2]
    BY <2>1 DEF LastType
  <2>3. \A w \in Wanted(group) : w <= LastType
    <3> SUFFICES ASSUME NEW w \in Wanted(group) PROVE w <= LastType
      OBVIOUS
    <3>1. PICK k \in 1..4 : w = Program(group)[k][2]
      BY <2>1, WantedIs
    <3> DEFINE T(j) == Program(group)[j][2]
    <3>2. /\ T(1) \in Nat /\ T(2) \in Nat /\ T(3) \in Nat /\ T(4) \in Nat
          /\ T(1) < T(2) /\ T(2) < T(3) /\ T(3) < T(4)
      <4>1. 1 + 1 = 2 /\ 2 + 1 = 3 /\ 3 + 1 = 4
        OBVIOUS
      <4>2. 1 \in 1..4 /\ 2 \in 1..4 /\ 3 \in 1..4 /\ 4 \in 1..4 /\ 1 \in 1..3 /\ 2 \in 1..3 /\ 3 \in 1..3
        OBVIOUS
      <4>3. \A j \in 1..4 : T(j) \in Nat
        BY <2>1 DEF Calling
      <4>4. \A j \in 1..3 : T(j) < T(j + 1)
        BY <2>1 DEF Calling
      <4> HIDE DEF T
      <4>5. T(1) < T(1 + 1) /\ T(2) < T(2 + 1) /\ T(3) < T(3 + 1)
        BY <4>2, <4>4
      <4> QED BY <4>1, <4>2, <4>3, <4>5
    <3>3. k = 1 \/ k = 2 \/ k = 3 \/ k = 4
      OBVIOUS
    <3>4. w = T(k) /\ LastType = T(4)
      BY <2>2, <3>1
    <3> HIDE DEF T
    <3> QED BY <3>2, <3>3, <3>4
  <2>4. UpTo(LastType) = {a \in ToSet(attributes) : a.type \in Wanted(group)}
    BY <2>3 DEF UpTo
  <2> QED BY <2>1, <2>4 DEF Abreast, Pick
<1>4. Spec => []I
  BY <1>1, <1>2, PTL DEF Spec
<1> QED BY <1>3, <1>4, PTL

-----------------------------------------------------------------------------
(* Powers of two.                                                          *)
Powers(n, h) == h = [i \in 0..n |-> IF i = 0 THEN 1 ELSE 2 * h[i - 1]]
(* Pow2() is the function that doubles.                                    *)
LEMMA PowIs ==
  ASSUME NEW n \in Nat
  PROVE  \E g \in [0..n -> Nat] : g[0] = 1 /\ (\A i \in 1..n : g[i] = 2 * g[i - 1]) /\ Pow2(n) = g[n]
<1> DEFINE step == [y \in Nat \X Nat |-> 2 * y[2]]
<1>1. step \in [Nat \X Nat -> Nat]
  OBVIOUS
<1>2. \A i \in Nat, y \in Nat : step[<<i, y>>] = 2 * y
  OBVIOUS
<1> HIDE DEF step
<1>3. PICK g : Recursive(Nat, n, 1, step, g)
  BY <1>1, Recursion
<1>4. g \in [0..n -> Nat] /\ g[0] = 1 /\ \A i \in 1..n : g[i] = 2 * g[i - 1]
  <2>1. \A i \in 1..n : i - 1 \in 0..n /\ i \in Nat
    OBVIOUS
  <2> QED BY <1>2, <1>3, <2>1 DEF Recursive
<1>5. Powers(n, g)
  <2>1. g = [i \in 0..n |-> g[i]]
    BY <1>4
  <2>2. \A i \in 0..n : g[i] = IF i = 0 THEN 1 ELSE 2 * g[i - 1]
    BY <1>4
  <2> QED BY <2>1, <2>2 DEF Powers
<1>6. ASSUME NEW h, Powers(n, h) PROVE h[n] = g[n]
  <2>1. \A i \in 0..n : h[i] = IF i = 0 THEN 1 ELSE 2 * h[i - 1]
    BY <1>6 DEF Powers
  <2>2. \A i \in 1..n : i \in 0..n /\ i # 0 /\ 0 \in 0..n /\ n \in 0..n
    OBVIOUS
  <2>3. h[0] = g[0] /\ n \in 0..n
    BY <1>4, <2>1
  <2>4. ASSUME NEW i \in 1..n, h[i - 1] = g[i - 1] PROVE h[i] = g[i]
    <3>1. h[i] = 2 * h[i - 1]
      BY <2>1, <2>2
    <3>2. g[i] = 2 * g[i - 1]
      BY <1>4
    <3> QED BY <2>4, <3>1, <3>2, Zenon
  <2>5. Alike(h, g, n)
    BY <2>4 DEF Alike
  <2> QED BY <2>3, <2>5, Agree
<1>7. Pow2(n) = (CHOOSE h : Powers(n, h))[n]
  BY Zenon DEF Pow2, Powers
<1>8. Powers(n, CHOOSE h : Powers(n, h))
  BY <1>5, Zenon
<1>9. Pow2(n) = g[n]
  BY <1>6, <1>7, <1>8, Zenon
<1> QED BY <1>4, <1>9

(* Pow2() starts at 1 and doubles.                                         *)
LEMMA PowStep ==
  /\ Pow2(0) = 1
  /\ \A n \in Nat : Pow2(n) \in Nat /\ Pow2(n) > 0 /\ Pow2(n + 1) = 2 * Pow2(n)
<1> DEFINE Is(n, g) == g \in [0..n -> Nat] /\ g[0] = 1 /\ (\A i \in 1..n : g[i] = 2 * g[i - 1]) /\ Pow2(n) = g[n]
<1>1. \A n \in Nat : \E g : Is(n, g)
  BY PowIs
<1> HIDE DEF Is
<1>0. \A n, g : Is(n, g) => g \in [0..n -> Nat] /\ g[0] = 1 /\ Pow2(n) = g[n]
                          /\ (\A i \in 1..n : g[i] = 2 * g[i - 1])
  BY DEF Is
<1>2. Pow2(0) = 1
  BY <1>0, <1>1
<1>3. ASSUME NEW n \in Nat PROVE Pow2(n) \in Nat
  <2>1. PICK g : Is(n, g)
    BY <1>1
  <2>2. g \in [0..n -> Nat] /\ Pow2(n) = g[n]
    BY <1>0, <2>1, Zenon
  <2>3. n \in 0..n
    OBVIOUS
  <2> QED BY <2>2, <2>3
<1>4. ASSUME NEW n \in Nat PROVE Pow2(n + 1) = 2 * Pow2(n)
  <2>0. n + 1 \in Nat
    OBVIOUS
  <2>1. PICK g : Is(n + 1, g)
    BY <1>1, <2>0
  <2>2. PICK h : Is(n, h)
    BY <1>1
  <2>6. g[0] = 1 /\ Pow2(n + 1) = g[n + 1] /\ (\A i \in 1..(n + 1) : g[i] = 2 * g[i - 1])
    BY <2>1, Zenon DEF Is
  <2>7. h[0] = 1 /\ Pow2(n) = h[n] /\ (\A i \in 1..n : h[i] = 2 * h[i - 1])
    BY <2>2, Zenon DEF Is
  <2>3. Alike(g, h, n) /\ g[0] = h[0]
    <3>1. \A i \in 1..n : i \in 1..(n + 1)
      OBVIOUS
    <3>2. ASSUME NEW i \in 1..n, g[i - 1] = h[i - 1] PROVE g[i] = h[i]
      <4>1. g[i] = 2 * g[i - 1] /\ h[i] = 2 * h[i - 1]
        BY <2>6, <2>7, <3>1
      <4> QED BY <3>2, <4>1, Zenon
    <3> QED BY <2>6, <2>7, <3>2 DEF Alike
  <2>4. n \in 0..n /\ n + 1 \in 1..(n + 1) /\ n + 1 - 1 = n
    OBVIOUS
  <2>5. g[n] = h[n]
    BY <2>3, <2>4, Agree
  <2>8. Pow2(n + 1) = 2 * g[n + 1 - 1]
    BY <2>4, <2>6
  <2> QED BY <2>4, <2>5, <2>7, <2>8
<1>5. \A n \in Nat : Pow2(n) > 0
  <2> DEFINE T == {n \in Nat : ~(Pow2(n) > 0)}
  <2>1. Descends(T)
    <3> SUFFICES ASSUME NEW n \in T PROVE \E y \in T : y < n
      BY DEF Descends
    <3>1. n # 0
      BY <1>2
    <3>2. n - 1 \in Nat /\ n - 1 < n /\ n - 1 + 1 = n
      BY <3>1
    <3>3. Pow2(n - 1 + 1) = 2 * Pow2(n - 1) /\ Pow2(n - 1) \in Nat
      BY <1>3, <1>4, <3>2
    <3>4. Pow2(n) = 2 * Pow2(n - 1)
      BY <3>2, <3>3
    <3>5. ~(Pow2(n - 1) > 0)
      BY <3>3, <3>4
    <3> QED BY <3>2, <3>5
  <2>2. T \subseteq Nat
    OBVIOUS
  <2> HIDE DEF T
  <2>3. T = {}
    BY <2>1, <2>2, Nowhere
  <2> QED BY <2>3 DEF T
<1> QED BY <1>2, <1>3, <1>4, <1>5

(* The power of a sum is the product of the powers.                        *)
LEMMA PowSum ==
  ASSUME NEW a \in Nat, NEW b \in Nat
  PROVE  Pow2(a + b) = Pow2(a) * Pow2(b)
<1> DEFINE T == {n \in Nat : Pow2(a + n) # Pow2(a) * Pow2(n)}
<1>1. Descends(T)
  <2> SUFFICES ASSUME NEW n \in T PROVE \E y \in T : y < n
    BY DEF Descends
  <2>1. n # 0
    <3> SUFFICES ASSUME n = 0 PROVE FALSE
      OBVIOUS
    <3>1. a + 0 = a /\ Pow2(a) \in Nat
      BY PowStep
    <3>2. Pow2(a + 0) = Pow2(a) * Pow2(0)
      BY <3>1, PowStep
    <3> QED BY <3>2
  <2>2. n - 1 \in Nat /\ n - 1 < n /\ n - 1 + 1 = n /\ a + (n - 1) \in Nat /\ a + (n - 1) + 1 = a + n
    BY <2>1
  <2> DEFINE x == Pow2(a)
             y == Pow2(n - 1)
             z == Pow2(a + (n - 1))
  <2>3. x \in Nat /\ y \in Nat /\ z \in Nat
    BY <2>2, PowStep
  <2>4. Pow2(n) = 2 * y /\ Pow2(a + n) = 2 * z
    <3>1. Pow2(n - 1 + 1) = 2 * y /\ Pow2(a + (n - 1) + 1) = 2 * z
      BY <2>2, PowStep
    <3> QED BY <2>2, <3>1
  <2>5. Pow2(a + n) # x * Pow2(n)
    OBVIOUS
  <2> HIDE DEF x, y, z, T
  <2>6. z # x * y
    BY <2>3, <2>4, <2>5
  <2> QED BY <2>2, <2>6 DEF x, y, z, T
<1>2. T \subseteq Nat
  OBVIOUS
<1> HIDE DEF T
<1>3. T = {}
  BY <1>1, <1>2, Nowhere
<1> QED BY <1>3 DEF T

(* Powers of two grow as their exponents do.                               *)
LEMMA PowMono ==
  ASSUME NEW a \in Nat, NEW b \in Nat
  PROVE  (a <= b => Pow2(a) <= Pow2(b)) /\ (a < b => 2 * Pow2(a) <= Pow2(b)) /\ (Pow2(a) <= Pow2(b) => a <= b)
<1>1. ASSUME NEW x \in Nat, NEW y \in Nat, x <= y PROVE Pow2(x) <= Pow2(y)
  <2>1. y - x \in Nat /\ x + (y - x) = y
    BY <1>1
  <2>2. Pow2(x + (y - x)) = Pow2(x) * Pow2(y - x)
    BY <2>1, PowSum
  <2> DEFINE u == Pow2(x)
             v == Pow2(y - x)
  <2>3. u \in Nat /\ v \in Nat /\ v >= 1
    <3>1. Pow2(y - x) \in Nat /\ Pow2(y - x) > 0
      BY <2>1, PowStep
    <3> QED BY <3>1, PowStep
  <2>4. Pow2(y) = u * v
    BY <2>1, <2>2
  <2> HIDE DEF u, v
  <2>5. u <= u * v
    BY <2>3
  <2> QED BY <2>4, <2>5 DEF u
<1>2. ASSUME NEW x \in Nat, NEW y \in Nat, x < y PROVE 2 * Pow2(x) <= Pow2(y)
  <2>1. x + 1 \in Nat /\ x + 1 <= y
    BY <1>2
  <2>2. Pow2(x + 1) <= Pow2(y)
    BY <1>1, <2>1
  <2> QED BY <2>2, PowStep
<1>3. ASSUME Pow2(a) <= Pow2(b), ~(a <= b) PROVE FALSE
  <2>1. b < a
    BY <1>3
  <2>2. 2 * Pow2(b) <= Pow2(a)
    BY <1>2, <2>1
  <2>3. Pow2(a) \in Nat /\ Pow2(b) \in Nat /\ Pow2(b) > 0
    BY PowStep
  <2> QED BY <1>3, <2>2, <2>3
<1> QED BY <1>1, <1>2, <1>3

(* Division.                                                               *)
LEMMA Divides ==
  ASSUME NEW a \in Nat, NEW d \in Nat, d > 0
  PROVE  a \div d \in Nat /\ a % d \in 0..(d - 1) /\ a = d * (a \div d) + (a % d)
OBVIOUS
LEMMA Quotient ==
  ASSUME NEW d \in Nat, d > 0, NEW x \in Nat, NEW y \in 0..(d - 1)
  PROVE  (d * x + y) \div d = x /\ (d * x + y) % d = y
OBVIOUS

-----------------------------------------------------------------------------
(* The address that is made of some octets.                                *)
Base == Pow2(OctetBits)
Octal(f, off, n) == \A i \in 1..n : f[off + i - 1] \in Octet
Going(f, off, n, g) == \A i \in 1..n : g[i] = g[i - 1] * Base + f[off + i - 1]
Accumulating(f, off, n, h) ==
  h = [i \in 0..n |-> IF i = 0 THEN 0 ELSE h[i - 1] * Pow2(OctetBits) + f[off + i - 1]]

(* An octet is a digit of the base.                                        *)
LEMMA BaseIs == Base \in Nat /\ Base > 0 /\ Octet = 0..(Base - 1) /\ Octet \subseteq Nat
<1>1. OctetBits \in Nat
  BY PrefixAssumption
<1>2. Base \in Nat /\ Base > 0
  BY <1>1, PowStep DEF Base
<1> QED BY <1>2 DEF Octet, Base

(* Accumulated() is the function that goes on by an octet.                 *)
LEMMA AccumulatedIs ==
  ASSUME NEW f, NEW off \in Nat, NEW n \in Nat, Octal(f, off, n)
  PROVE  \E g \in [0..n -> Nat] : g[0] = 0 /\ Going(f, off, n, g) /\ Accumulated(f, off, n) = g[n]
<1> DEFINE step == [y \in Nat \X Nat |-> IF y[1] \in 1..n THEN y[2] * Base + f[off + y[1] - 1] ELSE 0]
<1>0. \A i \in 1..n : f[off + i - 1] \in Nat
  BY BaseIs DEF Octal
<1>1. ASSUME NEW i \in 1..n, NEW y \in Nat
      PROVE  step[<<i, y>>] = y * Base + f[off + i - 1] /\ y * Base + f[off + i - 1] \in Nat
  <2>1. step[<<i, y>>] = y * Base + f[off + i - 1]
    OBVIOUS
  <2> DEFINE z == f[off + i - 1]
  <2>2. z \in Nat /\ Base \in Nat
    BY <1>0, BaseIs
  <2> HIDE DEF z
  <2>3. y * Base + z \in Nat
    BY <2>2
  <2> QED BY <2>1, <2>3 DEF z
<1>2. step \in [Nat \X Nat -> Nat]
  <2> SUFFICES ASSUME NEW i \in Nat, NEW y \in Nat PROVE step[<<i, y>>] \in Nat
    OBVIOUS
  <2>1. CASE i \in 1..n
    <3> HIDE DEF step
    <3> QED BY <1>1, <2>1
  <2>2. CASE i \notin 1..n
    BY <2>2
  <2> QED BY <2>1, <2>2
<1> HIDE DEF step
<1>3. PICK g : Recursive(Nat, n, 0, step, g)
  BY <1>2, Recursion
<1>4. g \in [0..n -> Nat] /\ g[0] = 0 /\ \A i \in 1..n : g[i] = step[<<i, g[i - 1]>>]
  BY <1>3 DEF Recursive
<1>5. Going(f, off, n, g)
  <2> SUFFICES ASSUME NEW i \in 1..n PROVE g[i] = g[i - 1] * Base + f[off + i - 1]
    BY DEF Going
  <2>1. i - 1 \in 0..n
    OBVIOUS
  <2>2. g[i - 1] \in Nat
    BY <1>4, <2>1
  <2> QED BY <1>1, <1>4, <2>2
<1>6. Accumulating(f, off, n, g)
  <2>1. g = [i \in 0..n |-> g[i]]
    BY <1>4
  <2>2. \A i \in 0..n : i = 0 \/ i \in 1..n
    OBVIOUS
  <2>3. \A i \in 1..n : i # 0
    OBVIOUS
  <2>4. \A i \in 0..n : g[i] = IF i = 0 THEN 0 ELSE g[i - 1] * Pow2(OctetBits) + f[off + i - 1]
    BY <1>4, <1>5, <2>2, <2>3, Zenon DEF Going, Base
  <2> QED BY <2>1, <2>4, Zenon DEF Accumulating
<1>7. ASSUME NEW h, Accumulating(f, off, n, h) PROVE h[n] = g[n]
  <2>1. \A i \in 0..n : h[i] = IF i = 0 THEN 0 ELSE h[i - 1] * Base + f[off + i - 1]
    BY <1>7, Zenon DEF Accumulating, Base
  <2>2. \A i \in 1..n : i \in 0..n /\ i # 0
    OBVIOUS
  <2>3. 0 \in 0..n /\ n \in 0..n
    OBVIOUS
  <2>4. h[0] = g[0]
    BY <1>4, <2>1, <2>3
  <2>5. ASSUME NEW i \in 1..n, h[i - 1] = g[i - 1] PROVE h[i] = g[i]
    <3>1. h[i] = h[i - 1] * Base + f[off + i - 1]
      BY <2>1, <2>2, Zenon
    <3>2. g[i] = g[i - 1] * Base + f[off + i - 1]
      BY <1>5 DEF Going
    <3> QED BY <2>5, <3>1, <3>2, Zenon
  <2>6. Alike(h, g, n)
    BY <2>5 DEF Alike
  <2> QED BY <2>3, <2>4, <2>6, Agree
<1>8. Accumulated(f, off, n) = (CHOOSE h : Accumulating(f, off, n, h))[n]
  BY Zenon DEF Accumulated, Accumulating
<1>9. Accumulating(f, off, n, CHOOSE h : Accumulating(f, off, n, h))
  BY <1>6, Zenon
<1>10. Accumulated(f, off, n) = g[n]
  BY <1>7, <1>8, <1>9, Zenon
<1> QED BY <1>4, <1>5, <1>10

(* Each octet shifts the address and is added.                             *)
LEMMA AccumulatedStep ==
  ASSUME NEW f, NEW off \in Nat, NEW n \in Nat, Octal(f, off, n)
  PROVE  /\ \A k \in 0..n : Accumulated(f, off, k) \in Nat
         /\ Accumulated(f, off, 0) = 0
         /\ \A k \in 1..n : Accumulated(f, off, k) = Accumulated(f, off, k - 1) * Base + f[off + k - 1]
<1> DEFINE A(k) == Accumulated(f, off, k)
           Is(k, g) == g \in [0..k -> Nat] /\ g[0] = 0 /\ Going(f, off, k, g) /\ A(k) = g[k]
<1>1. \A k \in 0..n : \E g : Is(k, g)
  <2> SUFFICES ASSUME NEW k \in 0..n PROVE \E g : Is(k, g)
    OBVIOUS
  <2>1. Octal(f, off, k) /\ k \in Nat
    BY DEF Octal
  <2> QED BY <2>1, AccumulatedIs
<1> HIDE DEF A
<1>2. ASSUME NEW k \in 0..n PROVE A(k) \in Nat
  <2>1. PICK g : Is(k, g)
    BY <1>1
  <2>2. k \in 0..k
    OBVIOUS
  <2> QED BY <2>1, <2>2
<1>3. A(0) = 0
  <2>1. 0 \in 0..n
    OBVIOUS
  <2>2. PICK g : Is(0, g)
    BY <1>1, <2>1, Zenon
  <2> QED BY <2>2
<1>4. ASSUME NEW k \in 1..n PROVE A(k) = A(k - 1) * Base + f[off + k - 1]
  <2>1. k \in 0..n /\ k - 1 \in 0..n /\ k - 1 \in Nat /\ k \in 1..k /\ \A i \in 1..(k - 1) : i \in 1..k
    OBVIOUS
  <2>2. PICK g : Is(k, g)
    BY <1>1, <2>1, Zenon
  <2>3. PICK h : Is(k - 1, h)
    BY <1>1, <2>1, Zenon
  <2>4. ASSUME NEW i \in 1..(k - 1), g[i - 1] = h[i - 1] PROVE g[i] = h[i]
    <3>1. h[i] = h[i - 1] * Base + f[off + i - 1]
      BY <2>3 DEF Going
    <3>2. g[i] = g[i - 1] * Base + f[off + i - 1]
      BY <2>1, <2>2, Zenon DEF Going
    <3> QED BY <2>4, <3>1, <3>2, Zenon
  <2>5. Alike(g, h, k - 1) /\ g[0] = h[0]
    BY <2>2, <2>3, <2>4 DEF Alike
  <2>6. k - 1 \in 0..(k - 1)
    OBVIOUS
  <2>7. g[k - 1] = h[k - 1]
    BY <2>1, <2>5, <2>6, Agree
  <2>8. g[k] = g[k - 1] * Base + f[off + k - 1]
    BY <2>1, <2>2, Zenon DEF Going
  <2> QED BY <2>2, <2>3, <2>7, <2>8, Zenon
<1> QED BY <1>2, <1>3, <1>4 DEF A

(* Powers of the base.                                                     *)
LEMMA BasePower ==
  ASSUME NEW n \in Nat
  PROVE  /\ OctetBits * n \in Nat /\ Pow2(OctetBits * n) \in Nat /\ Pow2(OctetBits * n) > 0
         /\ Pow2(OctetBits * (n + 1)) = Base * Pow2(OctetBits * n)
<1>1. OctetBits \in Nat
  BY PrefixAssumption
<1>2. OctetBits * n \in Nat /\ OctetBits * (n + 1) = OctetBits + OctetBits * n
  BY <1>1
<1>3. Pow2(OctetBits + OctetBits * n) = Pow2(OctetBits) * Pow2(OctetBits * n)
  BY <1>1, <1>2, PowSum
<1> QED BY <1>2, <1>3, PowStep DEF Base

(* The address of n octets fits n octets.                                  *)
LEMMA AccumulatedBound ==
  ASSUME NEW f, NEW off \in Nat, NEW n \in Nat, Octal(f, off, n)
  PROVE  Accumulated(f, off, n) < Pow2(OctetBits * n)
<1> DEFINE A(k) == Accumulated(f, off, k)
           P(k) == Pow2(OctetBits * k)
           T == {k \in 0..n : ~(A(k) < P(k))}
<1>1. A(0) < P(0)
  <2>1. OctetBits * 0 = 0
    BY PrefixAssumption
  <2>2. A(0) = 0
    BY AccumulatedStep
  <2> QED BY <2>1, <2>2, PowStep
<1>2. \A k \in 1..n : /\ A(k) = A(k - 1) * Base + f[off + k - 1] /\ A(k - 1) \in Nat
                      /\ P(k - 1) \in Nat /\ P(k) = Base * P(k - 1)
  <2> SUFFICES ASSUME NEW k \in 1..n
               PROVE  /\ A(k) = A(k - 1) * Base + f[off + k - 1] /\ A(k - 1) \in Nat
                      /\ P(k - 1) \in Nat /\ P(k) = Base * P(k - 1)
    OBVIOUS
  <2>1. k - 1 \in 0..n /\ k - 1 \in Nat /\ k - 1 + 1 = k
    OBVIOUS
  <2>2. A(k) = A(k - 1) * Base + f[off + k - 1] /\ A(k - 1) \in Nat
    BY <2>1, AccumulatedStep
  <2>3. P(k - 1) \in Nat /\ Pow2(OctetBits * (k - 1 + 1)) = Base * P(k - 1)
    BY <2>1, BasePower
  <2> QED BY <2>1, <2>2, <2>3
<1>3. Descends(T)
  <2> SUFFICES ASSUME NEW k \in T PROVE \E y \in T : y < k
    BY DEF Descends
  <2>1. k \in 0..n /\ ~(A(k) < P(k))
    OBVIOUS
  <2> HIDE DEF A, P, T
  <2>2. k # 0
    BY <1>1, <2>1
  <2>3. k \in 1..n /\ k - 1 \in 0..n /\ k - 1 < k
    BY <2>1, <2>2
  <2> DEFINE x == A(k - 1)
             y == P(k - 1)
             z == f[off + k - 1]
  <2>4. x \in Nat /\ y \in Nat /\ z \in Nat /\ z < Base /\ Base \in Nat
    <3>1. z \in Octet
      BY <2>3 DEF Octal
    <3>2. \A o \in Octet : o \in Nat /\ o < Base
      BY BaseIs
    <3> QED BY <1>2, <2>3, <3>1, <3>2, BaseIs
  <2>5. A(k) = x * Base + z /\ P(k) = Base * y
    BY <1>2, <2>3
  <2> HIDE DEF x, y, z
  <2>6. ~(x < y)
    <3> SUFFICES ASSUME x < y PROVE FALSE
      OBVIOUS
    <3>1. (x + 1) * Base <= y * Base
      <4>1. x + 1 <= y /\ x + 1 \in Nat
        BY <2>4
      <4> QED BY <2>4, <4>1
    <3>2. x * Base + z < y * Base
      <4>1. (x + 1) * Base = x * Base + Base
        BY <2>4
      <4>2. x * Base \in Nat /\ y * Base \in Nat
        BY <2>4
      <4> QED BY <2>4, <3>1, <4>1, <4>2
    <3>3. y * Base = Base * y
      BY <2>4
    <3> QED BY <2>1, <2>5, <3>2, <3>3
  <2> QED BY <2>3, <2>6 DEF T, x, y
<1>4. T \subseteq Nat /\ n \in 0..n
  OBVIOUS
<1> HIDE DEF T
<1>5. T = {}
  BY <1>3, <1>4, Nowhere
<1> QED BY <1>4, <1>5 DEF T

-----------------------------------------------------------------------------
(* A prefix, its octets and its index.                                     *)
LEMMA Chunks ==
  ASSUME NEW l \in 0..Width
  PROVE  /\ CHUNKSIZE(l) \in 0..Octets /\ CHUNKSIZE(l) \in Nat
         /\ OctetBits * CHUNKSIZE(l) >= l /\ OctetBits * CHUNKSIZE(l) \in Nat
         /\ l = 0 => CHUNKSIZE(l) = 0
         /\ l > 0 => CHUNKSIZE(l) > 0 /\ OctetBits * (CHUNKSIZE(l) - 1) < l
<1> DEFINE b == OctetBits
           c == CHUNKSIZE(l)
           m == (l + b - 1) % b
<1>1. b \in Nat /\ b > 0 /\ Octets \in Nat /\ l \in Nat /\ l <= b * Octets
  BY PrefixAssumption DEF Width
<1>2. l + b - 1 \in Nat
  BY <1>1
<1>3. c \in Nat /\ m \in 0..(b - 1) /\ l + b - 1 = b * c + m
  BY <1>1, <1>2, Divides DEF CHUNKSIZE
<1> HIDE DEF c, b, m
<1>4. b * c \in Nat /\ b * c >= l /\ b * c <= l + b - 1
  BY <1>1, <1>3
<1>5. b * (c - 1) = b * c - b
  BY <1>1, <1>3
<1>6. c <= Octets
  <2> SUFFICES ASSUME c >= Octets + 1 PROVE FALSE
    BY <1>1, <1>3
  <2>1. b * c >= b * (Octets + 1)
    BY <1>1, <1>3
  <2>2. b * (Octets + 1) = b * Octets + b
    BY <1>1
  <2>3. b * Octets \in Nat
    BY <1>1
  <2> QED BY <1>1, <1>4, <2>1, <2>2, <2>3
<1>7. l = 0 => c = 0
  <2> SUFFICES ASSUME l = 0, c >= 1 PROVE FALSE
    BY <1>3
  <2>1. b * c >= b
    BY <1>1, <1>3
  <2> QED BY <1>1, <1>4, <2>1
<1>8. l > 0 => c > 0
  <2> SUFFICES ASSUME l > 0, c = 0 PROVE FALSE
    BY <1>3
  <2>1. b * c = 0
    BY <1>1
  <2> QED BY <1>1, <1>4, <2>1
<1>9. l > 0 => b * (c - 1) < l
  BY <1>1, <1>4, <1>5
<1> QED BY <1>1, <1>3, <1>4, <1>6, <1>7, <1>8, <1>9 DEF b, c

IsPair(x) == x.length \in 0..Width /\ x.address \in 0..(Pow2(Width) - 1)
Spare(x) == Pow2(Width - x.length)
Kept(x) == x.address \div Spare(x)

(* What encode() keeps of an address: it is split at the length, and the   *)
(* bits past it are dropped.                                               *)
LEMMA SpareIs ==
  ASSUME NEW x, IsPair(x)
  PROVE  /\ x.length \in Nat /\ x.address \in Nat /\ Spare(x) \in Nat /\ Spare(x) > 0 /\ Kept(x) \in Nat
         /\ Pow2(Width) = Pow2(x.length) * Spare(x) /\ Pow2(Width) \in Nat
         /\ Pow2(x.length) \in Nat /\ Pow2(x.length) > 0 /\ Kept(x) < Pow2(x.length)
         /\ x.address = Spare(x) * Kept(x) + (x.address % Spare(x))
         /\ x.address % Spare(x) \in 0..(Spare(x) - 1)
         /\ encode(x) = Pow2(x.length) + Kept(x)
<1> DEFINE l == x.length
           a == x.address
           W == Width
<1>1. W \in Nat
  BY PrefixAssumption DEF Width
<1>2. l \in 0..W /\ a \in 0..(Pow2(W) - 1)
  BY DEF IsPair
<1> HIDE DEF l, a, W
<1>3. l \in Nat /\ W - l \in Nat /\ l + (W - l) = W
  BY <1>1, <1>2
<1> DEFINE u == Pow2(l)
           d == Pow2(W - l)
           V == Pow2(W)
           k == a \div d
           m == a % d
<1>4. u \in Nat /\ u > 0 /\ d \in Nat /\ d > 0 /\ V \in Nat
  BY <1>1, <1>3, PowStep
<1>5. V = u * d
  <2>1. Pow2(l + (W - l)) = Pow2(l) * Pow2(W - l)
    BY <1>3, PowSum
  <2> QED BY <1>3, <2>1
<1>6. a \in Nat /\ a < V
  BY <1>2, <1>4
<1>7. k \in Nat /\ m \in 0..(d - 1) /\ a = d * k + m
  BY <1>4, <1>6, Divides
<1>8. encode(x) = (V + a) \div d
  BY DEF encode, l, a, W
<1> HIDE DEF u, d, V, k, m
<1>9. k < u
  <2> SUFFICES ASSUME k >= u PROVE FALSE
    BY <1>4, <1>7
  <2>1. d * k >= d * u
    BY <1>4, <1>7
  <2>2. d * k \in Nat /\ d * u = u * d /\ d * u \in Nat
    BY <1>4, <1>7
  <2>3. a >= d * k
    BY <1>6, <1>7, <2>2
  <2> QED BY <1>5, <1>6, <2>1, <2>2, <2>3
<1>10. (V + a) \div d = u + k
  <2>1. V + a = d * (u + k) + m
    <3>1. d * (u + k) = d * u + d * k /\ u * d = d * u
      BY <1>4, <1>7
    <3>2. d * u \in Nat /\ d * k \in Nat
      BY <1>4, <1>7
    <3> QED BY <1>5, <1>7, <3>1, <3>2
  <2>2. u + k \in Nat
    BY <1>4, <1>7
  <2>3. (d * (u + k) + m) \div d = u + k
    BY <1>4, <1>7, <2>2, Quotient
  <2> QED BY <2>1, <2>3
<1> QED BY <1>3, <1>4, <1>5, <1>6, <1>7, <1>8, <1>9, <1>10 DEF Spare, Kept, l, a, W, u, d, V, k, m

(* The position of the leading 1 is the length.                            *)
Leading(ref, l) == l \in 0..Width /\ Pow2(l) <= ref /\ ref < 2 * Pow2(l) /\ ref \in Nat
LEMMA LeadingIs ==
  ASSUME NEW ref, NEW l, Leading(ref, l)
  PROVE  Max({n \in 0..Width : Pow2(n) <= ref}) = l
<1> DEFINE S == {n \in 0..Width : Pow2(n) <= ref}
<1>1. l \in Nat /\ l \in 0..Width /\ Pow2(l) <= ref /\ ref < 2 * Pow2(l) /\ ref \in Nat /\ Pow2(l) \in Nat
  BY PowStep DEF Leading
<1>2. l \in S
  BY <1>1
<1>3. ASSUME NEW n \in S PROVE n <= l /\ n \in Nat
  <2>1. n \in Nat /\ Pow2(n) <= ref
    OBVIOUS
  <2>2. Pow2(n) \in Nat
    BY <2>1, PowStep
  <2>3. l < n => 2 * Pow2(l) <= Pow2(n)
    BY <1>1, <2>1, PowMono
  <2> QED BY <1>1, <2>1, <2>2, <2>3
<1> HIDE DEF S
<1>4. Max(S) = CHOOSE x \in S : \A y \in S : x >= y
  BY Zenon DEF Max
<1>5. \A y \in S : l >= y
  BY <1>1, <1>3
<1>6. \A x \in S : (\A y \in S : x >= y) => x = l
  BY <1>1, <1>2, <1>3
<1>7. Max(S) = l
  BY <1>2, <1>4, <1>5, <1>6, Zenon
<1> QED BY <1>7 DEF S

(* The leading 1 of an index is at the length of its prefix.               *)
LEMMA EncodeIs ==
  ASSUME NEW x, IsPair(x)
  PROVE  Leading(encode(x), x.length)
<1>1. /\ Pow2(x.length) \in Nat /\ Kept(x) \in Nat /\ Kept(x) < Pow2(x.length)
      /\ encode(x) = Pow2(x.length) + Kept(x)
  BY SpareIs
<1> DEFINE u == Pow2(x.length)
           k == Kept(x)
<1>2. x.length \in 0..Width
  BY DEF IsPair
<1>3. u \in Nat /\ k \in Nat /\ k < u /\ encode(x) = u + k
  BY <1>1
<1> HIDE DEF u, k
<1>4. u <= encode(x) /\ encode(x) < 2 * u /\ encode(x) \in Nat
  BY <1>3
<1> QED BY <1>2, <1>4 DEF Leading, u

(* decode() of an index gives back the length, and the bits of the address *)
(* that the length covers.                                                 *)
LEMMA DecodeLength ==
  ASSUME NEW ref, NEW l, Leading(ref, l)
  PROVE  /\ \A y \in decode(ref) : y.length = l
         /\ decode(ref) # {}
         /\ l = 0 => ref = 1 /\ \A y \in decode(ref) : y.address \in {0, 1}
<1> DEFINE A == IF l = 0 THEN {0, ref} ELSE {(ref * Pow2(Width - l)) % Pow2(Width)}
<1>1. Max({n \in 0..Width : Pow2(n) <= ref}) = l
  BY LeadingIs
<1>2. decode(ref) = {[length |-> l, address |-> a] : a \in A}
  BY <1>1, Zenon DEF decode
<1>3. A # {}
  OBVIOUS
<1>4. l = 0 => ref = 1 /\ A = {0, 1}
  <2> SUFFICES ASSUME l = 0 PROVE ref = 1 /\ A = {0, 1}
    OBVIOUS
  <2>1. ref \in Nat /\ 1 <= ref /\ ref < 2
    BY PowStep DEF Leading
  <2>2. ref = 1
    BY <2>1
  <2> QED BY <2>2
<1> HIDE DEF A
<1>5. \A y \in decode(ref) : y.length = l /\ y.address \in A
  BY <1>2
<1>6. decode(ref) # {}
  BY <1>2, <1>3
<1> QED BY <1>4, <1>5, <1>6, Zenon

LEMMA DecodeIs ==
  ASSUME NEW x, IsPair(x), NEW y \in decode(encode(x))
  PROVE  y.length = x.length /\ (x.length # 0 => y.address = Spare(x) * Kept(x))
<1> DEFINE l == x.length
           ref == encode(x)
           d == Spare(x)
           k == Kept(x)
           u == Pow2(l)
           V == Pow2(Width)
<1>1. Leading(ref, l)
  BY EncodeIs
<1>2. y.length = l
  BY <1>1, DecodeLength
<1>3. ASSUME l # 0 PROVE y.address = d * k
  <2>1. Max({n \in 0..Width : Pow2(n) <= ref}) = l
    BY <1>1, LeadingIs
  <2>2. decode(ref) = {[length |-> l, address |-> a] : a \in {(ref * Pow2(Width - l)) % Pow2(Width)}}
    BY <1>3, <2>1, Zenon DEF decode
  <2>3. y.address = (ref * d) % V
    <3> DEFINE b == (ref * Pow2(Width - l)) % Pow2(Width)
    <3>1. decode(ref) = {[length |-> l, address |-> a] : a \in {b}}
      BY <2>2
    <3>2. y \in decode(ref)
      OBVIOUS
    <3>3. b = (ref * d) % V
      BY DEF Spare
    <3> HIDE DEF b, l, ref, d, V
    <3> QED BY <3>1, <3>2, <3>3
  <2>4. /\ u \in Nat /\ k \in Nat /\ d \in Nat /\ V \in Nat /\ u > 0 /\ d > 0
        /\ k < u /\ V = u * d /\ ref = u + k
    BY SpareIs
  <2> HIDE DEF l, ref, d, k, u, V
  <2>5. ref * d = V * 1 + d * k
    <3>1. (u + k) * d = u * d + d * k
      BY <2>4
    <3>2. V * 1 = V
      BY <2>4
    <3> QED BY <2>4, <3>1, <3>2
  <2>6. d * k \in 0..(V - 1) /\ V > 0
    <3>1. d * k < d * u
      BY <2>4
    <3>2. d * u = u * d /\ d * k \in Nat /\ u * d > 0
      BY <2>4
    <3> QED BY <2>4, <3>1, <3>2
  <2>7. (V * 1 + d * k) % V = d * k
    BY <2>4, <2>6, Quotient
  <2> QED BY <2>3, <2>5, <2>7
<1> QED BY <1>2, <1>3

-----------------------------------------------------------------------------
(* Powers under division.                                                  *)
LEMMA PowDivides ==
  ASSUME NEW n \in Nat, NEW a \in Nat, NEW b \in Nat
  PROVE  /\ (n \div Pow2(a)) \div Pow2(b) = n \div Pow2(a + b)
         /\ (n * Pow2(b)) \div Pow2(a + b) = n \div Pow2(a)
         /\ n \div Pow2(a) \in Nat /\ n % Pow2(a) \in 0..(Pow2(a) - 1)
         /\ n = Pow2(a) * (n \div Pow2(a)) + (n % Pow2(a))
<1> DEFINE x == Pow2(a)
           y == Pow2(b)
           z == Pow2(a + b)
           k == n \div x
           m == n % x
<1>1. x \in Nat /\ x > 0 /\ y \in Nat /\ y > 0 /\ z \in Nat
  BY PowStep
<1>2. z = x * y
  BY PowSum
<1> HIDE DEF x, y, z
<1>3. k \in Nat /\ m \in 0..(x - 1) /\ n = x * k + m
  BY <1>1, Divides
<1> HIDE DEF k, m
<1>4. x * y \in Nat /\ x * y > 0
  BY <1>1
<1>5. k \div y = n \div (x * y)
  <2> DEFINE i == k \div y
             j == k % y
  <2>1. i \in Nat /\ j \in 0..(y - 1) /\ k = y * i + j
    BY <1>1, <1>3, Divides
  <2> HIDE DEF i, j
  <2>2. n = (x * y) * i + (x * j + m)
    <3>1. x * k = x * (y * i) + x * j /\ x * (y * i) = (x * y) * i
      BY <1>1, <2>1
    <3>2. x * (y * i) \in Nat /\ x * j \in Nat
      BY <1>1, <2>1
    <3> QED BY <1>3, <3>1, <3>2
  <2>3. x * j + m \in 0..(x * y - 1)
    <3>1. x * (j + 1) <= x * y
      <4>1. j + 1 \in Nat /\ j + 1 <= y
        BY <1>1, <2>1
      <4> QED BY <1>1, <4>1
    <3>2. x * (j + 1) = x * j + x /\ x * j \in Nat
      BY <1>1, <2>1
    <3> QED BY <1>1, <1>3, <1>4, <3>1, <3>2
  <2>4. ((x * y) * i + (x * j + m)) \div (x * y) = i
    BY <1>4, <2>1, <2>3, Quotient
  <2> QED BY <2>2, <2>4 DEF i
<1>6. (n * y) \div (x * y) = k
  <2>1. n * y = (x * y) * k + m * y
    <3>1. (x * k + m) * y = (x * k) * y + m * y /\ (x * k) * y = (x * y) * k
      BY <1>1, <1>3
    <3> QED BY <1>3, <3>1
  <2>2. m * y \in 0..(x * y - 1)
    <3>1. (m + 1) * y <= x * y
      <4>1. m + 1 \in Nat /\ m + 1 <= x
        BY <1>1, <1>3
      <4> QED BY <1>1, <4>1
    <3>2. (m + 1) * y = m * y + y /\ m * y \in Nat
      BY <1>1, <1>3
    <3> QED BY <1>1, <1>4, <3>1, <3>2
  <2>3. ((x * y) * k + m * y) \div (x * y) = k
    BY <1>3, <1>4, <2>2, Quotient
  <2> QED BY <2>1, <2>3
<1> QED BY <1>2, <1>3, <1>5, <1>6 DEF x, y, z, k, m

Accumulates(f, off, n) ==
  /\ \A k \in 0..n : Accumulated(f, off, k) \in Nat
  /\ \A k \in 1..n : Accumulated(f, off, k) = Accumulated(f, off, k - 1) * Base + f[off + k - 1]
(* The facts about an accumulated address as one.                          *)
LEMMA AccumulatedAll ==
  ASSUME NEW f, NEW off \in Nat, NEW n \in Nat, Octal(f, off, n)
  PROVE  Accumulates(f, off, n)
BY AccumulatedStep, Zenon DEF Accumulates

(* The first octets are what the others do not reach.                      *)
LEMMA AccumulatedTop ==
  ASSUME NEW f, NEW off \in Nat, NEW n \in Nat, Octal(f, off, n), NEW k \in 0..n
  PROVE  Accumulated(f, off, n) \div Pow2(OctetBits * (n - k)) = Accumulated(f, off, k)
<1> DEFINE A(i) == Accumulated(f, off, i)
           D(i) == Pow2(OctetBits * i)
           T == {i \in 0..n : A(n) \div D(i) # A(n - i)}
<1>1. Descends(T)
  <2> SUFFICES ASSUME NEW i \in T PROVE \E y \in T : y < i
    BY DEF Descends
  <2>1. i \in 0..n /\ A(n) \div D(i) # A(n - i)
    OBVIOUS
  <2>2. A(n) \in Nat
    <3>1. n \in 0..n
      OBVIOUS
    <3> QED BY <3>1, AccumulatedStep
  <2> HIDE DEF T
  <2>3. i # 0
    <3> SUFFICES ASSUME i = 0 PROVE FALSE
      OBVIOUS
    <3>1. D(0) = 1
      <4>1. OctetBits * 0 = 0
        BY PrefixAssumption
      <4> QED BY <4>1, PowStep
    <3> DEFINE a == A(n)
    <3> HIDE DEF a, D
    <3>2. a \div 1 = a
      BY <2>2 DEF a
    <3>3. n - 0 = n
      OBVIOUS
    <3> QED BY <2>1, <3>1, <3>2, <3>3 DEF a
  <2>4. i - 1 \in 0..n /\ i - 1 \in Nat /\ i - 1 + 1 = i /\ n - (i - 1) \in 1..n /\ n - (i - 1) - 1 = n - i
        /\ n - i \in 0..n
    BY <2>1, <2>3
  <2> DEFINE j == n - (i - 1)
             o == f[off + j - 1]
             h == A(n - i)
  <2>5. A(j) = h * Base + o /\ h \in Nat
    <3>1. A(j) = A(j - 1) * Base + f[off + j - 1]
      BY <2>4, AccumulatedStep
    <3>2. A(n - i) \in Nat
      BY <2>4, AccumulatedStep
    <3> QED BY <2>4, <3>1, <3>2
  <2>6. o \in 0..(Base - 1) /\ Base \in Nat /\ Base > 0
    <3>1. o \in Octet
      BY <2>4 DEF Octal
    <3> QED BY <3>1, BaseIs
  <2>7. A(n) \div D(i) = (A(n) \div D(i - 1)) \div Base
    <3>1. OctetBits * (i - 1) \in Nat /\ OctetBits \in Nat /\ OctetBits * (i - 1) + OctetBits = OctetBits * i
      BY <2>4, PrefixAssumption
    <3>2. (A(n) \div Pow2(OctetBits * (i - 1))) \div Pow2(OctetBits) = A(n) \div Pow2(OctetBits * (i - 1) + OctetBits)
      BY <2>2, <3>1, PowDivides
    <3> QED BY <3>1, <3>2 DEF Base
  <2>8. A(j) \div Base = h
    <3> HIDE DEF o, h, j
    <3>1. (Base * h + o) \div Base = h
      BY <2>5, <2>6, Quotient
    <3>2. Base * h = h * Base
      BY <2>5, <2>6
    <3> QED BY <2>5, <3>1, <3>2
  <2>9. A(n) \div D(i - 1) # A(j)
    <3> HIDE DEF A, D
    <3> QED BY <2>1, <2>7, <2>8, Zenon
  <2> QED BY <2>4, <2>9 DEF T
<1>2. T \subseteq Nat
  OBVIOUS
<1>3. n - k \in 0..n /\ n - (n - k) = k
  OBVIOUS
<1> HIDE DEF T
<1>4. T = {}
  BY <1>1, <1>2, Nowhere
<1>5. A(n) \div D(n - k) = A(n - (n - k))
  BY <1>3, <1>4 DEF T
<1> QED BY <1>3, <1>5

(* Octets that are alike make the same address.                            *)
OctetsAlike(f, a, g, b, n) == \A i \in 1..n : f[a + i - 1] = g[b + i - 1]
LEMMA AccumulatedAlike ==
  ASSUME NEW f, NEW g, NEW a \in Nat, NEW b \in Nat, NEW n \in Nat,
         Octal(f, a, n), OctetsAlike(f, a, g, b, n)
  PROVE  Octal(g, b, n) /\ Accumulated(g, b, n) = Accumulated(f, a, n)
<1>1. Octal(g, b, n)
  BY DEF Octal, OctetsAlike
<1> DEFINE F == [i \in 0..n |-> Accumulated(f, a, i)]
           G == [i \in 0..n |-> Accumulated(g, b, i)]
<1>2. F[0] = G[0]
  BY <1>1, AccumulatedStep
<1>3. ASSUME NEW i \in 1..n, F[i - 1] = G[i - 1] PROVE F[i] = G[i]
  <2>1. i \in 0..n /\ i - 1 \in 0..n
    OBVIOUS
  <2>2. F[i] = F[i - 1] * Base + f[a + i - 1]
    BY <2>1, AccumulatedStep
  <2>3. G[i] = G[i - 1] * Base + g[b + i - 1]
    BY <1>1, <2>1, AccumulatedStep
  <2>4. f[a + i - 1] = g[b + i - 1]
    BY DEF OctetsAlike
  <2> HIDE DEF F, G
  <2> QED BY <1>3, <2>2, <2>3, <2>4, Zenon
<1>4. n \in 0..n
  OBVIOUS
<1> HIDE DEF F, G
<1>5. Alike(F, G, n)
  BY <1>3 DEF Alike
<1>6. F[n] = G[n]
  BY <1>2, <1>4, <1>5, Agree
<1> QED BY <1>1, <1>4, <1>6 DEF F, G

-----------------------------------------------------------------------------
(* The pair that a prefix on the wire stands for.                          *)
Sizable(f, off) ==
  off \in Nat /\ f[off] \in 0..Width /\ Octal(f, off + 1, CHUNKSIZE(f[off]))
Address(f, off) == Accumulated(f, off + 1, CHUNKSIZE(f[off]))
Excess(l) == OctetBits * CHUNKSIZE(l) - l
Absent(l) == OctetBits * (Octets - CHUNKSIZE(l))

(* The bits past the length: those of the last octet, and those of the     *)
(* octets not sent.                                                        *)
LEMMA Bits ==
  ASSUME NEW l \in 0..Width
  PROVE  /\ Excess(l) \in Nat /\ Absent(l) \in Nat /\ Width - l = Excess(l) + Absent(l)
         /\ Width = OctetBits * CHUNKSIZE(l) + Absent(l)
         /\ l > 0 => Excess(l) < OctetBits
<1> DEFINE b == OctetBits
           c == CHUNKSIZE(l)
<1>1. b \in Nat /\ b > 0 /\ Octets \in Nat /\ l \in Nat /\ Width = b * Octets
  BY PrefixAssumption DEF Width
<1>2. /\ c \in 0..Octets /\ b * c >= l /\ b * c \in Nat
      /\ l > 0 => b * (c - 1) < l
  BY Chunks
<1> HIDE DEF b, c
<1>3. b * (Octets - c) = b * Octets - b * c /\ b * (c - 1) = b * c - b /\ b * (Octets - c) \in Nat
  BY <1>1, <1>2
<1>4. /\ b * c - l \in Nat /\ b * Octets - l = (b * c - l) + b * (Octets - c)
      /\ b * Octets = b * c + b * (Octets - c)
      /\ l > 0 => b * c - l < b
  <2> DEFINE u == b * c
             v == b * Octets
             d == b * (Octets - c)
  <2>1. u \in Nat /\ u >= l /\ d \in Nat /\ v = u + d /\ (l > 0 => u - b < l)
    BY <1>1, <1>2, <1>3
  <2> HIDE DEF u, v, d
  <2>2. u - l \in Nat /\ v - l = (u - l) + d /\ (l > 0 => u - l < b)
    BY <1>1, <2>1
  <2> QED BY <2>1, <2>2 DEF u, v, d
<1> QED BY <1>1, <1>3, <1>4 DEF Excess, Absent, b, c

LEMMA PairIs ==
  ASSUME NEW f, NEW off, Sizable(f, off)
  PROVE  LET x == nlri_iter(f, off)
         IN  /\ IsPair(x.pair) /\ x.pair.length = f[off] /\ x.next = off + 1 + CHUNKSIZE(f[off])
             /\ x.pair.address = Address(f, off) * Pow2(Absent(f[off]))
             /\ Kept(x.pair) = Address(f, off) \div Pow2(Excess(f[off]))
             /\ Spare(x.pair) = Pow2(Excess(f[off])) * Pow2(Absent(f[off]))
             /\ Address(f, off) \in Nat
<1> DEFINE l == f[off]
           x == nlri_iter(f, off)
           c == CHUNKSIZE(l)
           A == Address(f, off)
           D == Pow2(Absent(l))
           C == Pow2(OctetBits * c)
<1>1. l \in 0..Width /\ off + 1 \in Nat /\ Octal(f, off + 1, c) /\ c \in Nat
  BY Chunks DEF Sizable
<1>2. x.pair.length = l /\ x.pair.address = A * D /\ x.next = off + 1 + c
  BY DEF nlri_iter, Absent, Address
<1>3. /\ Excess(l) \in Nat /\ Absent(l) \in Nat /\ Width - l = Excess(l) + Absent(l)
      /\ Width = OctetBits * c + Absent(l) /\ OctetBits * c \in Nat
  BY <1>1, Bits, Chunks
<1>4. A \in Nat /\ A < C
  <2>1. c \in 0..c
    BY <1>1
  <2> QED BY <1>1, <2>1, AccumulatedStep, AccumulatedBound DEF Address
<1> HIDE DEF l, x, A
<1>5. D \in Nat /\ D > 0 /\ C \in Nat /\ C > 0 /\ Pow2(Width) = C * D
  <2>1. Pow2(OctetBits * c + Absent(l)) = C * D
    BY <1>3, PowSum
  <2> QED BY <1>3, <2>1, PowStep
<1>6. Pow2(Excess(l) + Absent(l)) = Pow2(Excess(l)) * D
  BY <1>3, PowSum
<1>7. (A * Pow2(Absent(l))) \div Pow2(Excess(l) + Absent(l)) = A \div Pow2(Excess(l))
  BY <1>3, <1>4, PowDivides
<1>8. A * D \in 0..(Pow2(Width) - 1)
  <2> HIDE DEF C, D
  <2>1. A * D < C * D
    BY <1>4, <1>5
  <2>2. A * D \in Nat /\ C * D \in Nat
    BY <1>4, <1>5
  <2> QED BY <1>5, <2>1, <2>2
<1>9. Spare(x.pair) = Pow2(Excess(l) + Absent(l)) /\ Kept(x.pair) = (A * D) \div Pow2(Excess(l) + Absent(l))
  BY <1>2, <1>3 DEF Spare, Kept
<1>10. IsPair(x.pair)
  BY <1>1, <1>2, <1>8 DEF IsPair
<1> HIDE DEF c, C
<1> QED BY <1>2, <1>4, <1>6, <1>7, <1>9, <1>10, Zenon DEF x, l, A, c, D

(* A prefix on the wire: it comes back from its pair.                      *)
IsWire(w) == w \in Seq(Nat) /\ Len(w) = 1 + CHUNKSIZE(w[1]) /\ Sizable(w, 1)
Pair(w) == nlri_iter(w, 1).pair

Digit(a, i) == (a \div Pow2(OctetBits * (Octets - i))) % Pow2(OctetBits)
Digits(x, v, c) == \A i \in 1..c : Digit(x.address, i) = v[i + 1]
LEMMA BuildAt ==
  ASSUME NEW x, NEW c \in Nat, c = CHUNKSIZE(x.length), NEW v, v \in Seq(Nat), Len(v) = 1 + c,
         v[1] = x.length, Digits(x, v, c)
  PROVE  build_nlri(x) = v
<1> DEFINE o == [i \in 1..c |-> Digit(x.address, i)]
           h == <<x.length>>
<1>1. build_nlri(x) = h \o o
  BY Zenon DEF build_nlri, Digit
<1>2. \A i \in 1..c : o[i] = v[i + 1] /\ i + 1 \in 1..Len(v)
  BY DEF Digits
<1>3. \A i \in 1..c : v[i + 1] \in Nat
  BY <1>2
<1>4. o \in Seq(Nat) /\ Len(o) = c
  <2>1. DOMAIN o = 1..c /\ o = [i \in 1..c |-> v[i + 1]]
    BY <1>2
  <2> HIDE DEF o
  <2>2. o \in Seq(Nat)
    BY <1>3, <2>1
  <2>3. Len(o) \in Nat /\ DOMAIN o = 1..Len(o)
    BY <2>2
  <2>4. Len(o) = c
    <3> DEFINE n == Len(o)
    <3>1. n \in Nat /\ 1..n = 1..c
      BY <2>1, <2>3
    <3> HIDE DEF n
    <3>2. n = c
      BY <3>1
    <3> QED BY <3>2 DEF n
  <2> QED BY <2>2, <2>4
<1> HIDE DEF o
<1>5. x.length \in Nat
  <2>1. 1 \in 1..Len(v)
    OBVIOUS
  <2>2. v[1] \in Nat
    BY <2>1
  <2> QED BY <2>2
<1>6. h \in Seq(Nat) /\ Len(h) = 1 /\ h[1] = v[1]
  BY <1>5
<1> HIDE DEF h
<1>7. /\ h \o o \in Seq(Nat) /\ Len(h \o o) = 1 + c
      /\ \A i \in 1..(1 + c) : (h \o o)[i] = IF i <= 1 THEN h[i] ELSE o[i - 1]
  <2>1. /\ h \o o \in Seq(Nat) /\ Len(h \o o) = Len(h) + Len(o)
        /\ \A i \in 1..(Len(h) + Len(o)) : (h \o o)[i] = IF i <= Len(h) THEN h[i] ELSE o[i - Len(h)]
    BY <1>4, <1>6, ConcatProperties
  <2> QED BY <1>4, <1>6, <2>1
<1> DEFINE u == h \o o
<1>8. \A i \in 1..(1 + c) : u[i] = v[i]
  <2> SUFFICES ASSUME NEW i \in 1..(1 + c) PROVE u[i] = v[i]
    OBVIOUS
  <2>1. CASE i = 1
    BY <1>6, <1>7, <2>1
  <2>2. CASE i # 1
    <3>1. i - 1 \in 1..c /\ i - 1 + 1 = i /\ ~(i <= 1)
      BY <2>2
    <3>2. u[i] = o[i - 1]
      BY <1>7, <3>1
    <3>3. o[i - 1] = v[i - 1 + 1]
      BY <1>2, <3>1
    <3> QED BY <3>1, <3>2, <3>3
  <2> QED BY <2>1, <2>2
<1> HIDE DEF u
<1>9. u = v
  <2>1. u \in Seq(Nat) /\ Len(u) = Len(v)
    BY <1>7 DEF u
  <2> QED BY <1>8, <2>1
<1> QED BY <1>1, <1>9 DEF u

(* A prefix on the wire is read as a pair of its length and its octets.    *)
LEMMA WireIs ==
  ASSUME NEW w, IsWire(w)
  PROVE  LET l == w[1]
             c == CHUNKSIZE(w[1])
         IN  /\ l \in 0..Width /\ c \in Nat /\ c \in 0..Octets /\ Octal(w, 2, c) /\ Sizable(w, 1)
             /\ Address(w, 1) = Accumulated(w, 2, c) /\ Address(w, 1) \in Nat
             /\ IsPair(Pair(w)) /\ Pair(w).length = l
             /\ Pair(w).address = Address(w, 1) * Pow2(Absent(l))
             /\ Excess(l) \in Nat /\ Absent(l) \in Nat
<1>1. Sizable(w, 1) /\ 1 + 1 = 2
  BY DEF IsWire
<1>2. w[1] \in 0..Width /\ Octal(w, 2, CHUNKSIZE(w[1]))
  BY <1>1 DEF Sizable
<1>3. Address(w, 1) = Accumulated(w, 2, CHUNKSIZE(w[1]))
  BY <1>1 DEF Address
<1> QED BY <1>1, <1>2, <1>3, Chunks, Bits, PairIs DEF Pair

(* build_nlri() undoes nlri_iter(): no octet of a prefix is lost.          *)
LEMMA RoundTrip ==
  ASSUME NEW w, IsWire(w)
  PROVE  build_nlri(Pair(w)) = w
<1> DEFINE l == w[1]
           c == CHUNKSIZE(l)
           x == Pair(w)
           A == Address(w, 1)
<1>1. /\ l \in 0..Width /\ c \in Nat /\ c \in 0..Octets /\ Octal(w, 2, c) /\ A = Accumulated(w, 2, c)
      /\ A \in Nat /\ x.length = l /\ x.address = A * Pow2(Absent(l)) /\ Absent(l) \in Nat
  BY WireIs
<1>2. w \in Seq(Nat) /\ Len(w) = 1 + c
  BY DEF IsWire
<1>4. /\ \A k \in 0..c : Accumulated(w, 2, k) \in Nat
      /\ \A k \in 1..c : Accumulated(w, 2, k) = Accumulated(w, 2, k - 1) * Base + w[2 + k - 1]
  <2> HIDE DEF c
  <2>1. Accumulates(w, 2, c)
    BY <1>1, AccumulatedAll
  <2> QED BY <2>1, Zenon DEF Accumulates
<1>3. ASSUME NEW i \in 1..c
      PROVE  Digit(x.address, i) = w[i + 1]
  <2>1. i \in 0..c /\ i - 1 \in 0..c /\ c - i \in Nat /\ OctetBits * (c - i) \in Nat
        /\ OctetBits * (Octets - i) = OctetBits * (c - i) + OctetBits * (Octets - c)
        /\ 2 + i - 1 = i + 1
    <3>1. OctetBits \in Nat /\ Octets \in Nat
      BY PrefixAssumption
    <3> HIDE DEF c, l, A, x
    <3>2. c - i \in Nat
      BY <1>1
    <3> QED BY <1>1, <3>1, <3>2
  <2>2. (A * Pow2(Absent(l))) \div Pow2(OctetBits * (c - i) + Absent(l)) = A \div Pow2(OctetBits * (c - i))
    <3> DEFINE e == OctetBits * (c - i)
               d == Absent(l)
               a == A
    <3>1. e \in Nat /\ d \in Nat /\ a \in Nat
      BY <1>1, <2>1
    <3> HIDE DEF e, d, a
    <3>2. (a * Pow2(d)) \div Pow2(e + d) = a \div Pow2(e)
      BY <3>1, PowDivides
    <3> QED BY <3>2 DEF e, d, a
  <2>3. A \div Pow2(OctetBits * (c - i)) = Accumulated(w, 2, i)
    BY <1>1, <2>1, AccumulatedTop
  <2>4. Accumulated(w, 2, i) = Accumulated(w, 2, i - 1) * Base + w[2 + i - 1]
        /\ Accumulated(w, 2, i - 1) \in Nat
    BY <1>4, <2>1, Zenon
  <2>5. w[i + 1] \in 0..(Base - 1) /\ Base \in Nat /\ Base > 0
    <3>1. w[2 + i - 1] \in Octet
      BY <1>1 DEF Octal
    <3> QED BY <2>1, <3>1, BaseIs
  <2> DEFINE h == Accumulated(w, 2, i - 1)
             o == w[i + 1]
  <2>6. (Base * h + o) % Base = o
    <3>1. h \in Nat
      BY <2>4
    <3> HIDE DEF h, o
    <3> QED BY <2>5, <3>1, Quotient DEF o
  <2>7. Base * h + o = Accumulated(w, 2, i)
    <3>1. h * Base = Base * h
      <4>1. h \in Nat
        BY <2>4
      <4> HIDE DEF h
      <4> QED BY <2>5, <4>1
    <3> QED BY <2>1, <2>4, <3>1
  <2>8. x.address \div Pow2(OctetBits * (Octets - i)) = Accumulated(w, 2, i)
    BY <1>1, <2>1, <2>2, <2>3 DEF Absent
  <2> QED BY <2>6, <2>7, <2>8 DEF Digit, Base
<1> HIDE DEF x, l, c, A
<1>5. build_nlri(x) = w
  <2>1. c = CHUNKSIZE(x.length) /\ w[1] = x.length
    BY <1>1 DEF c, l
  <2>2. Digits(x, w, c)
    BY <1>3 DEF Digits
  <2> QED BY <1>1, <1>2, <2>1, <2>2, BuildAt
<1> QED BY <1>5 DEF x

(* The bits past the length cleared: what decode() makes of an index.      *)
LEMMA ClearedIs ==
  ASSUME NEW w, IsWire(w), w[1] > 0
  PROVE  /\ IsWire(Cleared(w)) /\ Cleared(w)[1] = w[1]
         /\ Address(Cleared(w), 1) = Pow2(Excess(w[1])) * (Address(w, 1) \div Pow2(Excess(w[1])))
<1> DEFINE l == w[1]
           c == CHUNKSIZE(l)
           s == Excess(l)
           v == Cleared(w)
           d == Pow2(s)
           o == w[c + 1]
           g == Accumulated(w, 2, c - 1)
<1>1. /\ l \in 0..Width /\ c \in Nat /\ Octal(w, 2, c) /\ Address(w, 1) = Accumulated(w, 2, c)
      /\ Address(w, 1) \in Nat /\ s \in Nat
  BY WireIs
<1>2. w \in Seq(Nat) /\ Len(w) = 1 + c /\ DOMAIN w = 1..(1 + c)
  BY DEF IsWire
<1>3. c > 0 /\ s < OctetBits /\ OctetBits \in Nat
  <2>1. l > 0 /\ l \in 0..Width
    BY <1>1
  <2> QED BY <2>1, Chunks, Bits, PrefixAssumption
<1>4. v = [i \in 1..(1 + c) |-> IF i = 1 \/ i < 1 + c THEN w[i] ELSE w[i] - (w[i] % d)]
  <2>1. OctetBits * (Len(w) - 1) - w[1] = s
    <3>1. Len(w) - 1 = c
      BY <1>1, <1>2
    <3> QED BY <3>1 DEF Excess
  <2>2. v = [i \in DOMAIN w |-> IF i = 1 \/ i < Len(w) THEN w[i] ELSE w[i] - (w[i] % d)]
    BY <2>1, Zenon DEF Cleared
  <2> HIDE DEF v
  <2> QED BY <1>2, <2>2
<1>5. d \in Nat /\ d > 0 /\ Base = d * Pow2(OctetBits - s) /\ Pow2(OctetBits - s) \in Nat
  <2>1. OctetBits - s \in Nat /\ s + (OctetBits - s) = OctetBits
    BY <1>1, <1>3
  <2>2. Pow2(s + (OctetBits - s)) = d * Pow2(OctetBits - s)
    BY <1>1, <2>1, PowSum
  <2> QED BY <1>1, <2>1, <2>2, PowStep DEF Base
<1> DEFINE e == Pow2(OctetBits - s)
           u == o \div d
           m == o % d
<1>6. o \in 0..(Base - 1) /\ Base \in Nat
  <2>1. c \in 1..c /\ 2 + c - 1 = c + 1
    BY <1>1, <1>3
  <2>2. w[2 + c - 1] \in Octet
    BY <1>1, <2>1 DEF Octal
  <2> QED BY <2>1, <2>2, BaseIs
<1>7. u \in Nat /\ m \in 0..(d - 1) /\ o = d * u + m
  <2>1. o \in Nat
    BY <1>6
  <2> HIDE DEF o, d
  <2> QED BY <1>5, <2>1, Divides
<1>8. v \in Seq(Nat) /\ Len(v) = 1 + c /\ v[1] = l /\ v[1 + c] = o - m
      /\ (\A i \in 1..c : v[i] = w[i])
  <2>1. v[1 + c] = o - m
    <3>1. 1 + c \in 1..(1 + c) /\ 1 + c # 1 /\ ~(1 + c < 1 + c) /\ 1 + c = c + 1
      BY <1>1, <1>3
    <3> HIDE DEF v
    <3> QED BY <1>4, <3>1
  <2>2. \A i \in 1..c : v[i] = w[i]
    <3> HIDE DEF v, c, d
    <3> QED BY <1>1, <1>4
  <2>3. o - m \in Nat
    <3> HIDE DEF o, m, d
    <3>1. m <= o
      <4>1. d * u \in Nat
        <5> HIDE DEF u
        <5> QED BY <1>5, <1>7
      <4> HIDE DEF u
      <4> QED BY <1>5, <1>6, <1>7, <4>1
    <3> QED BY <1>5, <1>6, <1>7, <3>1
  <2>4. \A i \in 1..(1 + c) : v[i] \in Nat
    <3> SUFFICES ASSUME NEW i \in 1..(1 + c) PROVE v[i] \in Nat
      OBVIOUS
    <3> HIDE DEF v, c
    <3>1. CASE i = 1 + c
      BY <2>1, <2>3, <3>1
    <3>2. CASE i # 1 + c
      <4>1. i \in 1..c /\ i \in 1..Len(w)
        BY <1>1, <1>2, <3>2
      <4> QED BY <1>2, <2>2, <4>1
    <3> QED BY <3>1, <3>2
  <2>5. v \in Seq(Nat) /\ Len(v) = 1 + c
    <3>1. v = [i \in 1..(1 + c) |-> v[i]] /\ 1 + c \in Nat
      BY <1>1, <1>4
    <3> HIDE DEF v, c
    <3> QED BY <2>4, <3>1
  <2>6. v[1] = l
    <3>1. 1 \in 1..c
      BY <1>1, <1>3
    <3> HIDE DEF v
    <3> QED BY <2>2, <3>1
  <2> QED BY <2>1, <2>2, <2>5, <2>6
<1> HIDE DEF v
<1>9. Octal(v, 2, c)
  <2> SUFFICES ASSUME NEW i \in 1..c PROVE v[2 + i - 1] \in Octet
    BY DEF Octal
  <2>1. w[2 + i - 1] \in Octet
    BY <1>1 DEF Octal
  <2>2. CASE i = c
    <3>1. v[2 + i - 1] = o - m
      <4>1. 2 + i - 1 = 1 + c
        BY <1>1, <2>2
      <4> QED BY <1>8, <4>1
    <3>2. o - m \in 0..(Base - 1)
      <4>1. d * u \in Nat
        <5> HIDE DEF u, d
        <5> QED BY <1>5, <1>7
      <4> HIDE DEF u, d, o, m
      <4>2. o - m = d * u /\ m >= 0 /\ m \in Int
        BY <1>5, <1>6, <1>7, <4>1
      <4> QED BY <1>6, <4>1, <4>2
    <3> QED BY <3>1, <3>2, BaseIs
  <2>3. CASE i # c
    <3>1. 2 + i - 1 \in 1..c
      <4> HIDE DEF c
      <4> QED BY <1>1, <2>3
    <3> QED BY <1>8, <2>1, <3>1
  <2> QED BY <2>2, <2>3
<1>10. Sizable(v, 1) /\ CHUNKSIZE(v[1]) = c
  BY <1>1, <1>8, <1>9 DEF Sizable
<1>11. IsWire(v)
  BY <1>8, <1>10 DEF IsWire
<1>12. Accumulated(v, 2, c - 1) = g /\ g \in Nat
  <2>1. c - 1 \in Nat /\ c - 1 \in 0..c
    BY <1>1, <1>3
  <2>2. Octal(w, 2, c - 1)
    <3> HIDE DEF c
    <3> QED BY <1>1, <2>1 DEF Octal
  <2>3. OctetsAlike(w, 2, v, 2, c - 1)
    <3> SUFFICES ASSUME NEW i \in 1..(c - 1) PROVE w[2 + i - 1] = v[2 + i - 1]
      BY DEF OctetsAlike
    <3>1. 2 + i - 1 \in 1..c
      <4> HIDE DEF c
      <4> QED BY <1>1
    <3> QED BY <1>8, <3>1
  <2> HIDE DEF c
  <2>4. Accumulates(w, 2, c)
    BY <1>1, AccumulatedAll
  <2> QED BY <2>1, <2>2, <2>3, <2>4, AccumulatedAlike DEF Accumulates
<1>13. Accumulated(w, 2, c) = g * Base + o /\ Accumulated(v, 2, c) = g * Base + (o - m)
  <2> HIDE DEF c
  <2>1. Accumulates(w, 2, c) /\ Accumulates(v, 2, c)
    BY <1>1, <1>9, AccumulatedAll
  <2>2. c \in 1..c /\ 2 + c - 1 = c + 1 /\ c + 1 = 1 + c
    BY <1>1, <1>3
  <2>3. Accumulated(w, 2, c) = Accumulated(w, 2, c - 1) * Base + w[2 + c - 1]
    BY <2>1, <2>2, Zenon DEF Accumulates
  <2>4. Accumulated(v, 2, c) = Accumulated(v, 2, c - 1) * Base + v[2 + c - 1]
    BY <2>1, <2>2, Zenon DEF Accumulates
  <2> HIDE DEF m, o
  <2>5. v[2 + c - 1] = o - m /\ w[2 + c - 1] = o
    BY <1>8, <2>2 DEF o
  <2> QED BY <1>12, <2>3, <2>4, <2>5, Zenon
<1>14. g * Base + o = d * (e * g + u) + m /\ g * Base + (o - m) = d * (e * g + u) /\ e * g + u \in Nat
  <2>1. g \in Nat /\ e \in Nat /\ d \in Nat /\ u \in Nat /\ m \in Nat /\ Base = d * e /\ o = d * u + m
    <3> HIDE DEF g, e, d, u, m, o
    <3>1. m \in Nat
      BY <1>5, <1>7
    <3> QED BY <1>5, <1>7, <1>12, <3>1 DEF e
  <2> HIDE DEF g, e, d, u, m, o
  <2>2. g * (d * e) = d * (e * g)
    BY <2>1
  <2>3. d * (e * g + u) = d * (e * g) + d * u
    BY <2>1
  <2>4. d * (e * g) \in Nat /\ d * u \in Nat /\ e * g + u \in Nat
    BY <2>1
  <2> QED BY <2>1, <2>2, <2>3, <2>4
<1>15. (d * (e * g + u) + m) \div d = e * g + u
  <2> DEFINE k == e * g + u
  <2>1. k \in Nat
    BY <1>14
  <2> HIDE DEF k, d, m
  <2> QED BY <1>5, <1>7, <2>1, Quotient DEF k
<1>16. Address(v, 1) = d * (e * g + u)
  <2>1. Address(v, 1) = Accumulated(v, 2, c)
    <3>1. 1 + 1 = 2
      OBVIOUS
    <3> QED BY <1>10, <3>1 DEF Address
  <2> QED BY <1>13, <1>14, <2>1
<1>17. Address(w, 1) \div d = e * g + u
  <2> HIDE DEF c, d, g, e, u, m, o
  <2> QED BY <1>1, <1>13, <1>14, <1>15
<1> HIDE DEF d, g, e, u, m, o, c
<1>18. Address(v, 1) = d * (Address(w, 1) \div d)
  BY <1>16, <1>17
<1> QED BY <1>8, <1>11, <1>18 DEF v, d, s, l

(* What is built of an index is the prefix, its spare bits cleared.        *)
LEMMA Built ==
  ASSUME NEW w, IsWire(w), NEW y \in decode(encode(Pair(w)))
  PROVE  build_nlri(y) = Cleared(w)
<1> DEFINE l == w[1]
           x == Pair(w)
           v == Cleared(w)
<1>1. /\ l \in 0..Width /\ IsPair(x) /\ x.length = l /\ Sizable(w, 1)
      /\ w \in Seq(Nat) /\ Len(w) = 1 + CHUNKSIZE(l)
  BY WireIs DEF IsWire
<1>2. y.length = l /\ (l # 0 => y.address = Spare(x) * Kept(x))
  BY <1>1, DecodeIs
<1>3. CASE l = 0
  <2>1. CHUNKSIZE(l) = 0 /\ Len(w) = 1 /\ DOMAIN w = {1} /\ w[1] = 0
    BY <1>1, <1>3, Chunks
  <2>2. v = w
    <3>1. v = [i \in DOMAIN w |-> w[i]]
      BY <2>1 DEF Cleared
    <3> QED BY <1>1, <3>1
  <2>3. Digits(y, w, 0) /\ 0 = CHUNKSIZE(y.length) /\ w[1] = y.length /\ Len(w) = 1 + 0
    BY <1>2, <2>1 DEF Digits
  <2>4. build_nlri(y) = w
    BY <1>1, <2>3, BuildAt
  <2> QED BY <2>2, <2>4
<1>4. CASE l # 0
  <2>1. IsWire(v) /\ v[1] = l /\ Address(v, 1) = Pow2(Excess(l)) * (Address(w, 1) \div Pow2(Excess(l)))
    <3>1. w[1] > 0
      BY <1>1, <1>4
    <3> QED BY <3>1, ClearedIs
  <2>2. Kept(x) = Address(w, 1) \div Pow2(Excess(l)) /\ Spare(x) = Pow2(Excess(l)) * Pow2(Absent(l))
    BY <1>1, PairIs DEF Pair
  <2>3. Pair(v).length = l /\ Pair(v).address = Address(v, 1) * Pow2(Absent(l))
    BY <2>1, WireIs
  <2>4. Kept(x) \in Nat /\ Pow2(Excess(l)) \in Nat /\ Pow2(Absent(l)) \in Nat
    BY <1>1, SpareIs, Bits, PowStep
  <2>5. y.address = Pair(v).address
    <3> DEFINE a == Pow2(Excess(l))
               b == Pow2(Absent(l))
               k == Kept(x)
    <3>1. y.address = (a * b) * k /\ Pair(v).address = (a * k) * b
      BY <1>2, <1>4, <2>1, <2>2, <2>3
    <3>2. (a * b) * k = (a * k) * b
      <4> HIDE DEF a, b, k
      <4>1. a \in Nat /\ b \in Nat /\ k \in Nat
        BY <2>4 DEF a, b, k
      <4> QED BY <4>1
    <3> QED BY <3>1, <3>2
  <2>6. y.length = Pair(v).length
    BY <1>2, <2>3
  <2>7. build_nlri(y) = build_nlri(Pair(v))
    BY <2>5, <2>6, Zenon DEF build_nlri
  <2> QED BY <2>1, <2>7, RoundTrip
<1> QED BY <1>3, <1>4

-----------------------------------------------------------------------------
(* The address bit by bit.                                                 *)
Top(w, i) == Address(w, 1) \div Pow2(OctetBits * CHUNKSIZE(w[1]) - i)

LEMMA BitOf ==
  ASSUME NEW d \in Nat, d > 0, NEW b \in Nat, NEW h \in Nat, NEW o \in Nat
  PROVE  ((h * (d * (2 * b)) + o) \div d) % 2 = (o \div d) % 2
<1> DEFINE u == o \div d
           m == o % d
           k == b * h
<1>1. u \in Nat /\ m \in 0..(d - 1) /\ o = d * u + m
  BY Divides
<1> HIDE DEF u, m
<1>2. k \in Nat /\ h * (d * (2 * b)) = d * (2 * k)
  <2>1. h * (d * (2 * b)) = d * (2 * (b * h))
    OBVIOUS
  <2> QED BY <2>1
<1> HIDE DEF k
<1>3. h * (d * (2 * b)) + o = d * (2 * k + u) + m
  <2>1. d * (2 * k + u) = d * (2 * k) + d * u
    BY <1>1, <1>2
  <2>2. d * (2 * k) \in Nat /\ d * u \in Nat
    BY <1>1, <1>2
  <2> QED BY <1>1, <1>2, <2>1, <2>2
<1>4. (d * (2 * k + u) + m) \div d = 2 * k + u
  <2>1. 2 * k + u \in Nat
    BY <1>1, <1>2
  <2> QED BY <1>1, <2>1, Quotient
<1>5. (2 * k + u) % 2 = u % 2
  BY <1>1, <1>2
<1> QED BY <1>3, <1>4, <1>5 DEF u

(* The number that the first bits make, bit by bit.                        *)
LEMMA TopStep ==
  ASSUME NEW w, IsWire(w)
  PROVE  /\ \A i \in 0..w[1] : Top(w, i) \in Nat
         /\ Top(w, 0) = 0
         /\ \A i \in 0..(w[1] - 1) : /\ Bit(w, i) \in {0, 1}
                                     /\ Top(w, i + 1) = 2 * Top(w, i) + Bit(w, i)
<1> DEFINE l == w[1]
           c == CHUNKSIZE(l)
           n == Address(w, 1)
           B == OctetBits
<1>1. l \in Nat /\ c \in Nat /\ Octal(w, 2, c) /\ n = Accumulated(w, 2, c) /\ n \in Nat
      /\ B * c \in Nat /\ l <= B * c /\ B \in Nat /\ B > 0
  BY WireIs, Chunks, PrefixAssumption
<1> HIDE DEF l, c, n, B
<1>2. ASSUME NEW i \in 0..l PROVE B * c - i \in Nat /\ Top(w, i) = n \div Pow2(B * c - i) /\ Top(w, i) \in Nat
  <2>1. B * c - i \in Nat
    BY <1>1
  <2>2. n \div Pow2(B * c - i) \in Nat
    BY <1>1, <2>1, PowStep, Divides
  <2> QED BY <2>1, <2>2 DEF Top, n, B, c, l
<1>3. Top(w, 0) = 0
  <2>1. Top(w, 0) = n \div Pow2(B * c)
    <3>1. 0 \in 0..l /\ B * c - 0 = B * c
      BY <1>1
    <3> QED BY <1>2, <3>1
  <2>2. n < Pow2(B * c) /\ Pow2(B * c) \in Nat /\ Pow2(B * c) > 0
    BY <1>1, AccumulatedBound, PowStep DEF B
  <2> DEFINE d == Pow2(B * c)
  <2> HIDE DEF d
  <2>3. d \in Nat /\ d > 0 /\ n \in 0..(d - 1)
    BY <1>1, <2>2 DEF d
  <2>4. (d * 0 + n) \div d = 0
    BY <2>3, Quotient
  <2>5. d * 0 + n = n
    BY <1>1, <2>3
  <2> QED BY <2>1, <2>4, <2>5 DEF d
<1>4. ASSUME NEW i \in 0..(l - 1) PROVE Bit(w, i) \in {0, 1} /\ Top(w, i + 1) = 2 * Top(w, i) + Bit(w, i)
  <2> DEFINE k == i \div B
             j == i % B
             e == B - 1 - j
             m == B * c - (i + 1)
             X == n \div Pow2(m)
             h == Accumulated(w, 2, k)
             o == w[2 + k]
  <2>1. i \in Nat /\ i + 1 \in 0..l /\ i \in 0..l /\ i < B * c
    BY <1>1
  <2>2. k \in Nat /\ j \in 0..(B - 1) /\ i = B * k + j
    BY <1>1, <2>1, Divides
  <2> HIDE DEF k, j
  <2>3. k + 1 \in 1..c /\ k \in 0..c
    <3> SUFFICES ASSUME k >= c PROVE FALSE
      BY <1>1, <2>2
    <3>1. B * k >= B * c
      BY <1>1, <2>2
    <3>2. B * k \in Nat
      BY <1>1, <2>2
    <3> QED BY <1>1, <2>1, <2>2, <3>1, <3>2
  <2>4. e \in Nat /\ m \in Nat /\ m = B * (c - (k + 1)) + e /\ B * (c - (k + 1)) \in Nat /\ c - (k + 1) \in Nat
        /\ B * c - i = m + 1
    <3>1. B * (c - (k + 1)) = B * c - B * k - B /\ c - (k + 1) \in Nat
      BY <1>1, <2>2, <2>3
    <3>2. B * k \in Nat /\ B * (c - (k + 1)) \in Nat
      BY <1>1, <2>2, <3>1
    <3> QED BY <1>1, <2>1, <2>2, <3>1, <3>2
  <2> HIDE DEF e, m
  <2>5. X \in Nat /\ Top(w, i + 1) = X /\ Top(w, i) = X \div 2
    <3>1. Top(w, i + 1) = X
      BY <1>2, <2>1 DEF m
    <3>2. X \in Nat
      BY <1>1, <2>4, PowDivides
    <3>3. (n \div Pow2(m)) \div Pow2(1) = n \div Pow2(m + 1)
      BY <1>1, <2>4, PowDivides
    <3>4. Pow2(1) = 2
      <4>1. Pow2(0 + 1) = 2 * Pow2(0) /\ Pow2(0) = 1
        BY PowStep
      <4> QED BY <4>1
    <3>5. Top(w, i) = n \div Pow2(m + 1)
      BY <1>2, <2>1, <2>4
    <3> QED BY <3>1, <3>2, <3>3, <3>4, <3>5
  <2>6. n \div Pow2(B * (c - (k + 1))) = Accumulated(w, 2, k + 1)
    <3>1. k + 1 \in 0..c
      BY <2>3
    <3> QED BY <1>1, <3>1, AccumulatedTop DEF B
  <2>7. X = Accumulated(w, 2, k + 1) \div Pow2(e)
    <3>1. (n \div Pow2(B * (c - (k + 1)))) \div Pow2(e) = n \div Pow2(B * (c - (k + 1)) + e)
      BY <1>1, <2>4, PowDivides
    <3> QED BY <2>4, <2>6, <3>1
  <2>8. Accumulated(w, 2, k + 1) = h * Base + o /\ h \in Nat
    <3>1. Accumulates(w, 2, c)
      BY <1>1, AccumulatedAll
    <3>2. (k + 1) - 1 = k /\ 2 + (k + 1) - 1 = 2 + k
      BY <2>2
    <3>3. Accumulated(w, 2, k + 1) = Accumulated(w, 2, (k + 1) - 1) * Base + w[2 + (k + 1) - 1]
      <4> DEFINE z == k + 1
      <4>1. z \in 1..c
        BY <2>3
      <4> HIDE DEF z
      <4>2. Accumulated(w, 2, z) = Accumulated(w, 2, z - 1) * Base + w[2 + z - 1]
        BY <3>1, <4>1, Zenon DEF Accumulates
      <4> QED BY <4>2, Zenon DEF z
    <3>4. h \in Nat
      BY <2>3, <3>1, Zenon DEF Accumulates
    <3> QED BY <3>2, <3>3, <3>4
  <2>9. o \in Nat
    <3>1. 2 + (k + 1) - 1 = 2 + k
      BY <2>2
    <3>2. w[2 + (k + 1) - 1] \in Octet
      BY <1>1, <2>3 DEF Octal
    <3> QED BY <3>1, <3>2, BaseIs
  <2>10. Base = Pow2(e) * (2 * Pow2(j)) /\ Pow2(e) \in Nat /\ Pow2(e) > 0 /\ Pow2(j) \in Nat
    <3>1. j \in Nat /\ j + 1 \in Nat /\ e + (j + 1) = B
      BY <1>1, <2>2 DEF e
    <3>2. Pow2(e + (j + 1)) = Pow2(e) * Pow2(j + 1)
      BY <2>4, <3>1, PowSum
    <3>3. Pow2(j + 1) = 2 * Pow2(j)
      BY <3>1, PowStep
    <3>4. Base = Pow2(e + (j + 1))
      BY <3>1 DEF Base, B
    <3>5. Pow2(e) \in Nat /\ Pow2(e) > 0 /\ Pow2(j) \in Nat
      BY <2>4, <3>1, PowStep
    <3> QED BY <3>2, <3>3, <3>4, <3>5, Zenon
  <2>11. X % 2 = (o \div Pow2(e)) % 2
    <3> DEFINE d == Pow2(e)
               b == Pow2(j)
    <3> HIDE DEF d, b, h, o
    <3>1. d \in Nat /\ d > 0 /\ b \in Nat /\ h \in Nat /\ o \in Nat
      BY <2>8, <2>9, <2>10 DEF d, b
    <3>2. ((h * (d * (2 * b)) + o) \div d) % 2 = (o \div d) % 2
      BY <3>1, BitOf
    <3>3. X = (h * (d * (2 * b)) + o) \div d
      BY <2>7, <2>8, <2>10, Zenon DEF d, b
    <3> QED BY <3>2, <3>3 DEF d
  <2>12. Bit(w, i) = (o \div Pow2(e)) % 2
    BY DEF Bit, e, k, j, B
  <2> HIDE DEF X, h, o
  <2>13. X % 2 \in {0, 1} /\ X = 2 * (X \div 2) + (X % 2)
    BY <2>5
  <2> QED BY <2>5, <2>11, <2>12, <2>13
<1> QED BY <1>2, <1>3, <1>4 DEF l

(* Alike in every bit just when alike in the number the bits make.         *)
LEMMA SameBits ==
  ASSUME NEW v, NEW w, IsWire(v), IsWire(w), v[1] = w[1]
  PROVE  (\A i \in 0..(v[1] - 1) : Bit(v, i) = Bit(w, i)) <=> Top(v, v[1]) = Top(w, v[1])
<1> DEFINE l == v[1]
           V(i) == Top(v, i)
           W(i) == Top(w, i)
           b(i) == Bit(v, i)
           e(i) == Bit(w, i)
<1>1. l \in Nat
  BY WireIs
<1>2. /\ \A i \in 0..l : V(i) \in Nat /\ W(i) \in Nat
      /\ V(0) = 0 /\ W(0) = 0
      /\ \A i \in 0..(l - 1) : /\ b(i) \in {0, 1} /\ V(i + 1) = 2 * V(i) + b(i)
                               /\ e(i) \in {0, 1} /\ W(i + 1) = 2 * W(i) + e(i)
  BY TopStep
<1> HIDE DEF l, V, W, b, e
<1>3. ASSUME \A i \in 0..(l - 1) : b(i) = e(i) PROVE V(l) = W(l)
  <2> DEFINE g == [i \in 0..l |-> V(i)]
             h == [i \in 0..l |-> W(i)]
  <2>1. g[0] = h[0]
    BY <1>1, <1>2
  <2>2. ASSUME NEW i \in 1..l, g[i - 1] = h[i - 1] PROVE g[i] = h[i]
    <3>1. i - 1 \in 0..(l - 1) /\ i - 1 \in 0..l /\ i \in 0..l /\ i - 1 + 1 = i
      BY <1>1
    <3>2. V(i) = 2 * V(i - 1) + b(i - 1) /\ W(i) = 2 * W(i - 1) + e(i - 1)
      BY <1>2, <3>1
    <3>3. V(i - 1) = W(i - 1) /\ b(i - 1) = e(i - 1)
      BY <1>3, <2>2, <3>1
    <3> QED BY <3>1, <3>2, <3>3
  <2> HIDE DEF g, h
  <2>3. Alike(g, h, l)
    BY <2>2 DEF Alike
  <2>4. l \in 0..l
    BY <1>1
  <2>5. g[l] = h[l]
    BY <1>1, <2>1, <2>3, <2>4, Agree
  <2> QED BY <2>4, <2>5 DEF g, h
<1>4. ASSUME V(l) = W(l) PROVE \A i \in 0..(l - 1) : b(i) = e(i)
  <2>1. ASSUME NEW i \in 0..(l - 1), V(i + 1) = W(i + 1) PROVE V(i) = W(i) /\ b(i) = e(i)
    <3> DEFINE x == V(i)
               y == W(i)
               s == b(i)
               t == e(i)
    <3>1. x \in Nat /\ y \in Nat /\ s \in {0, 1} /\ t \in {0, 1} /\ 2 * x + s = 2 * y + t
      <4>1. i \in 0..l
        BY <1>1
      <4> QED BY <1>2, <2>1, <4>1
    <3> HIDE DEF x, y, s, t
    <3>2. x = y /\ s = t
      BY <3>1
    <3> QED BY <3>2 DEF x, y, s, t
  <2> DEFINE T == {i \in 0..l : V(l - i) # W(l - i)}
  <2>2. Descends(T)
    <3> SUFFICES ASSUME NEW i \in T PROVE \E y \in T : y < i
      BY DEF Descends
    <3>1. i \in 0..l /\ V(l - i) # W(l - i)
      OBVIOUS
    <3>2. i # 0
      <4> SUFFICES ASSUME i = 0 PROVE FALSE
        OBVIOUS
      <4>1. l - i = l
        BY <1>1
      <4> QED BY <1>4, <3>1, <4>1
    <3>3. l - i \in 0..(l - 1) /\ l - i + 1 = l - (i - 1) /\ i - 1 \in 0..l /\ i - 1 < i
      BY <1>1, <3>1, <3>2
    <3>4. V(l - (i - 1)) # W(l - (i - 1))
      BY <2>1, <3>1, <3>3
    <3> QED BY <3>3, <3>4
  <2>3. T \subseteq Nat
    BY <1>1
  <2> HIDE DEF T
  <2>4. T = {}
    BY <2>2, <2>3, Nowhere
  <2> SUFFICES ASSUME NEW i \in 0..(l - 1) PROVE b(i) = e(i)
    OBVIOUS
  <2>5. l - (i + 1) \in 0..l /\ l - (l - (i + 1)) = i + 1
    BY <1>1
  <2>6. V(i + 1) = W(i + 1)
    BY <2>4, <2>5 DEF T
  <2> QED BY <2>1, <2>6
<1> QED BY <1>3, <1>4 DEF l, V, W, b, e

(* encode() tells prefixes apart just when they differ in length or in a   *)
(* bit of it.                                                              *)
LEMMA IndexIs ==
  ASSUME NEW v, NEW w, IsWire(v), IsWire(w)
  PROVE  Same(v, w) <=> encode(Pair(v)) = encode(Pair(w))
<1>1. ASSUME NEW u, IsWire(u)
      PROVE  /\ IsPair(Pair(u)) /\ Pair(u).length = u[1] /\ Leading(encode(Pair(u)), u[1])
             /\ encode(Pair(u)) = Pow2(u[1]) + Top(u, u[1]) /\ Top(u, u[1]) \in Nat /\ Pow2(u[1]) \in Nat
  <2>1. IsPair(Pair(u)) /\ Pair(u).length = u[1] /\ Sizable(u, 1)
    BY <1>1, WireIs
  <2>2. Kept(Pair(u)) = Top(u, u[1])
    BY <2>1, PairIs DEF Pair, Top, Excess
  <2>3. encode(Pair(u)) = Pow2(u[1]) + Kept(Pair(u)) /\ Kept(Pair(u)) \in Nat /\ Pow2(u[1]) \in Nat
    BY <2>1, SpareIs
  <2>4. Leading(encode(Pair(u)), u[1])
    BY <2>1, EncodeIs
  <2> QED BY <2>1, <2>2, <2>3, <2>4
<1>2. ASSUME Same(v, w) PROVE encode(Pair(v)) = encode(Pair(w))
  <2>1. v[1] = w[1] /\ \A i \in 0..(v[1] - 1) : Bit(v, i) = Bit(w, i)
    BY <1>2 DEF Same
  <2>2. Top(v, v[1]) = Top(w, v[1])
    BY <2>1, SameBits
  <2> QED BY <1>1, <2>1, <2>2
<1>3. ASSUME encode(Pair(v)) = encode(Pair(w)) PROVE Same(v, w)
  <2>1. v[1] = w[1]
    BY <1>1, <1>3, LeadingIs
  <2> DEFINE a == Top(v, v[1])
             b == Top(w, v[1])
             d == Pow2(v[1])
  <2>2. a \in Nat /\ b \in Nat /\ d \in Nat /\ d + a = d + b
    BY <1>1, <1>3, <2>1
  <2> HIDE DEF a, b, d
  <2>3. a = b
    BY <2>2
  <2>4. \A i \in 0..(v[1] - 1) : Bit(v, i) = Bit(w, i)
    BY <2>1, <2>3, SameBits DEF a, b
  <2> QED BY <2>1, <2>4 DEF Same
<1> QED BY <1>2, <1>3

-----------------------------------------------------------------------------
(* A field of prefixes, and the walk over it.                              *)
Next1(f, off) == off + 1 + CHUNKSIZE(f[off])
Wire(f, off) == SubSeq(f, off, off + CHUNKSIZE(f[off]))
Walks(f, g) ==
  /\ g \in [0..Len(f) -> Nat] /\ g[0] = 1
  /\ \A k \in 1..Len(f) : g[k] = IF g[k - 1] \notin DOMAIN f THEN g[k - 1] ELSE Next1(f, g[k - 1])
Starting(f, h) ==
  h = [k \in 0..Len(f) |->
         IF k = 0 THEN 1
         ELSE IF h[k - 1] \notin DOMAIN f THEN h[k - 1]
         ELSE h[k - 1] + 1 + CHUNKSIZE(f[h[k - 1]])]

(* CHUNKSIZE() is a number.                                                *)
LEMMA ChunkNat ==
  ASSUME NEW n \in Nat
  PROVE  CHUNKSIZE(n) \in Nat
<1>1. OctetBits \in Nat /\ OctetBits > 0 /\ n + OctetBits - 1 \in Nat
  BY PrefixAssumption
<1> QED BY <1>1, Divides DEF CHUNKSIZE

(* The prefixes of a field are those the walk comes to.                    *)
LEMMA WiresIs ==
  ASSUME NEW f \in Seq(Nat)
  PROVE  \E g : /\ Walks(f, g)
                /\ Wires(f) = {Wire(f, off) : off \in {g[k] : k \in 0..Len(f)} \cap DOMAIN f}
<1> DEFINE n == Len(f)
           step == [y \in Nat \X Nat |-> IF y[2] \in DOMAIN f THEN Next1(f, y[2]) ELSE y[2]]
<1>1. n \in Nat /\ DOMAIN f = 1..n /\ \A i \in 1..n : f[i] \in Nat
  OBVIOUS
<1> HIDE DEF n
<1>2. ASSUME NEW i \in Nat, NEW y \in Nat
      PROVE  step[<<i, y>>] \in Nat /\ step[<<i, y>>] = IF y \notin DOMAIN f THEN y ELSE Next1(f, y)
  <2>1. step[<<i, y>>] = IF y \in DOMAIN f THEN Next1(f, y) ELSE y
    OBVIOUS
  <2>2. y \in DOMAIN f => Next1(f, y) \in Nat
    <3> SUFFICES ASSUME y \in DOMAIN f PROVE Next1(f, y) \in Nat
      OBVIOUS
    <3>1. CHUNKSIZE(f[y]) \in Nat
      BY <1>1, ChunkNat
    <3> QED BY <3>1 DEF Next1
  <2> HIDE DEF step
  <2> QED BY <2>1, <2>2
<1>3. step \in [Nat \X Nat -> Nat]
  <2>1. step = [y \in Nat \X Nat |-> step[y]]
    OBVIOUS
  <2>2. \A y \in Nat \X Nat : y[1] \in Nat /\ y[2] \in Nat /\ y = <<y[1], y[2]>>
    OBVIOUS
  <2> HIDE DEF step
  <2>3. \A y \in Nat \X Nat : step[y] \in Nat
    BY <1>2, <2>2
  <2> QED BY <2>1, <2>3
<1> HIDE DEF step
<1>4. PICK g : Recursive(Nat, n, 1, step, g)
  BY <1>1, <1>3, Recursion
<1>5. Walks(f, g)
  <2>1. g \in [0..n -> Nat] /\ g[0] = 1 /\ \A i \in 1..n : g[i] = step[<<i, g[i - 1]>>]
    BY <1>4 DEF Recursive
  <2>2. ASSUME NEW k \in 1..n
        PROVE  g[k] = IF g[k - 1] \notin DOMAIN f THEN g[k - 1] ELSE Next1(f, g[k - 1])
    <3>1. k - 1 \in 0..n /\ k \in Nat
      BY <1>1
    <3>2. g[k - 1] \in Nat
      BY <2>1, <3>1
    <3> QED BY <1>2, <2>1, <3>1, <3>2
  <2> QED BY <2>1, <2>2 DEF Walks, n
<1>6. Starting(f, g)
  <2>1. g = [k \in 0..n |-> g[k]]
    BY <1>5 DEF Walks, n
  <2>2. ASSUME NEW k \in 0..n
        PROVE  g[k] = IF k = 0 THEN 1
                      ELSE IF g[k - 1] \notin DOMAIN f THEN g[k - 1]
                      ELSE g[k - 1] + 1 + CHUNKSIZE(f[g[k - 1]])
    <3>1. CASE k = 0
      BY <1>5, <3>1 DEF Walks
    <3>2. CASE k # 0
      <4>1. k \in 1..n
        BY <1>1, <3>2
      <4> QED BY <1>5, <3>2, <4>1, Zenon DEF Walks, Next1, n
    <3> QED BY <3>1, <3>2
  <2>3. [k \in 0..n |-> g[k]] = [k \in 0..n |->
         IF k = 0 THEN 1
         ELSE IF g[k - 1] \notin DOMAIN f THEN g[k - 1]
         ELSE g[k - 1] + 1 + CHUNKSIZE(f[g[k - 1]])]
    BY <2>2, Zenon
  <2> QED BY <2>1, <2>3, Zenon DEF Starting, n
<1>7. ASSUME NEW h, Starting(f, h) PROVE \A k \in 0..n : h[k] = g[k]
  <2>1. ASSUME NEW k \in 0..n
        PROVE  h[k] = IF k = 0 THEN 1
                      ELSE IF h[k - 1] \notin DOMAIN f THEN h[k - 1]
                      ELSE h[k - 1] + 1 + CHUNKSIZE(f[h[k - 1]])
    <3> DEFINE b(i) == IF i = 0 THEN 1
                       ELSE IF h[i - 1] \notin DOMAIN f THEN h[i - 1]
                       ELSE h[i - 1] + 1 + CHUNKSIZE(f[h[i - 1]])
    <3>1. h = [i \in 0..n |-> b(i)]
      BY <1>7, Zenon DEF Starting, n
    <3> HIDE DEF b
    <3>2. h[k] = b(k)
      BY <3>1
    <3> QED BY <3>2 DEF b
  <2>2. h[0] = 1
    <3>1. 0 \in 0..n
      BY <1>1
    <3> QED BY <2>1, <3>1
  <2>3. ASSUME NEW k \in 1..n, h[k - 1] = g[k - 1] PROVE h[k] = g[k]
    <3>1. k \in 0..n /\ k # 0
      BY <1>1
    <3>2. h[k] = IF h[k - 1] \notin DOMAIN f THEN h[k - 1] ELSE Next1(f, h[k - 1])
      BY <2>1, <3>1, Zenon DEF Next1
    <3>3. g[k] = IF g[k - 1] \notin DOMAIN f THEN g[k - 1] ELSE Next1(f, g[k - 1])
      BY <1>5 DEF Walks, n
    <3> QED BY <2>3, <3>2, <3>3, Zenon
  <2>4. Alike(h, g, n) /\ h[0] = g[0]
    BY <1>5, <2>2, <2>3 DEF Alike, Walks
  <2> QED BY <1>1, <2>4, Agree
<1> DEFINE h == CHOOSE h : Starting(f, h)
<1>8. Wires(f) = {SubSeq(f, off, off + CHUNKSIZE(f[off])) : off \in {h[k] : k \in 0..Len(f)} \cap DOMAIN f}
  BY Zenon DEF Wires, Starting
<1>9. Starting(f, h)
  BY <1>6, Zenon
<1> HIDE DEF h
<1>10. {h[k] : k \in 0..Len(f)} = {g[k] : k \in 0..Len(f)}
  <2>1. \A k \in 0..Len(f) : h[k] = g[k]
    BY <1>7, <1>9 DEF n
  <2> QED BY <2>1
<1>11. Wires(f) = {Wire(f, off) : off \in {g[k] : k \in 0..Len(f)} \cap DOMAIN f}
  BY <1>8, <1>10, Zenon DEF Wire
<1> QED BY <1>5, <1>11

(* Where the walk comes: to the starts S of the prefixes, in their order,  *)
(* and to the end.                                                         *)
Starts(f, S) ==
  /\ S \subseteq 1..Len(f) /\ 1 \in S \cup {Len(f) + 1}
  /\ \A off \in S : Sizable(f, off) /\ Next1(f, off) \in S \cup {Len(f) + 1}
Apart(f, S) == \A a, b \in S : a < b => Next1(f, a) <= b
Chain(f, S) == f \in Seq(Nat) /\ Starts(f, S) /\ Apart(f, S)

LEMMA WalkIs ==
  ASSUME NEW f \in Seq(Nat), NEW S, Starts(f, S), NEW g, Walks(f, g)
  PROVE  /\ \A k \in 0..Len(f) : g[k] \in S \cup {Len(f) + 1}
         /\ g[Len(f)] = Len(f) + 1
         /\ \A j \in 0..Len(f) : \A k \in 0..j : g[k] <= g[j]
<1> DEFINE n == Len(f)
<1>1. n \in Nat /\ DOMAIN f = 1..n /\ S \subseteq 1..n /\ g[0] = 1 /\ 1 \in S \cup {n + 1}
      /\ \A k \in 0..n : g[k] \in Nat
  <2>1. n \in Nat /\ DOMAIN f = 1..n
    OBVIOUS
  <2>2. S \subseteq 1..n /\ 1 \in S \cup {n + 1}
    BY DEF Starts
  <2>3. g[0] = 1 /\ g \in [0..n -> Nat]
    BY DEF Walks
  <2> HIDE DEF n
  <2> QED BY <2>1, <2>2, <2>3
<1>2. ASSUME NEW off \in S PROVE Next1(f, off) \in Nat /\ Next1(f, off) > off /\ Next1(f, off) \in S \cup {n + 1}
  <2>1. f[off] \in Nat /\ off \in Nat
    BY <1>1
  <2>2. CHUNKSIZE(f[off]) \in Nat
    BY <2>1, ChunkNat
  <2>3. Next1(f, off) \in S \cup {n + 1}
    BY DEF Starts
  <2> QED BY <2>1, <2>2, <2>3 DEF Next1
<1>3. \A k \in 1..n : g[k] = IF g[k - 1] \notin 1..n THEN g[k - 1] ELSE Next1(f, g[k - 1])
  BY <1>1 DEF Walks
<1> HIDE DEF n
<1>4. \A k \in 0..n : g[k] \in S \cup {n + 1}
  <2> DEFINE T == {k \in 0..n : g[k] \notin S \cup {n + 1}}
  <2>1. Descends(T)
    <3> SUFFICES ASSUME NEW k \in T PROVE \E y \in T : y < k
      BY DEF Descends
    <3>1. k # 0
      BY <1>1
    <3>2. k \in 1..n /\ k - 1 \in 0..n /\ k - 1 < k
      BY <1>1, <3>1
    <3>3. g[k - 1] \notin S \cup {n + 1}
      <4> SUFFICES ASSUME g[k - 1] \in S \cup {n + 1} PROVE FALSE
        OBVIOUS
      <4>1. n + 1 \notin 1..n
        BY <1>1
      <4>2. g[k] = IF g[k - 1] \notin 1..n THEN g[k - 1] ELSE Next1(f, g[k - 1])
        BY <1>3, <3>2
      <4> QED BY <1>1, <1>2, <4>1, <4>2
    <3> QED BY <3>2, <3>3
  <2>2. T \subseteq Nat
    BY <1>1
  <2> HIDE DEF T
  <2>3. T = {}
    BY <2>1, <2>2, Nowhere
  <2> QED BY <2>3 DEF T
<1>5. ASSUME NEW k \in 1..n PROVE k - 1 \in 0..n /\ g[k - 1] <= g[k] /\ (g[k] = n + 1 \/ g[k] > g[k - 1])
  <2>1. k - 1 \in 0..n /\ k \in 0..n
    BY <1>1
  <2>2. g[k - 1] \in S \cup {n + 1} /\ g[k - 1] \in Nat
    BY <1>1, <1>4, <2>1
  <2>3. n + 1 \notin 1..n
    BY <1>1
  <2>4. CASE g[k - 1] = n + 1
    <3>1. g[k] = n + 1
      BY <1>3, <2>3, <2>4
    <3> QED BY <1>1, <2>1, <2>4, <3>1
  <2>5. CASE g[k - 1] \in S
    <3>1. g[k] = Next1(f, g[k - 1])
      BY <1>1, <1>3, <2>5
    <3> QED BY <1>2, <2>1, <2>2, <2>5, <3>1
  <2> QED BY <2>2, <2>4, <2>5
<1>6. \A k \in 0..n : g[k] = n + 1 \/ g[k] >= k + 1
  <2> DEFINE T == {k \in 0..n : ~(g[k] = n + 1 \/ g[k] >= k + 1)}
  <2>1. Descends(T)
    <3> SUFFICES ASSUME NEW k \in T PROVE \E y \in T : y < k
      BY DEF Descends
    <3>1. k # 0
      BY <1>1
    <3>2. k \in 1..n /\ k - 1 \in 0..n /\ k - 1 < k /\ k \in 0..n
      BY <1>1, <3>1
    <3>3. g[k] # n + 1 /\ ~(g[k] >= k + 1)
      OBVIOUS
    <3>4. g[k - 1] <= g[k] /\ g[k] > g[k - 1] /\ g[k - 1] \in Nat /\ g[k] \in Nat
      BY <1>1, <1>5, <3>2, <3>3
    <3>5. g[k] \in S
      BY <1>4, <3>2, <3>3
    <3>6. g[k - 1] # n + 1
      BY <1>1, <3>4, <3>5
    <3>7. ~(g[k - 1] >= (k - 1) + 1)
      BY <3>2, <3>3, <3>4
    <3> QED BY <3>2, <3>6, <3>7
  <2>2. T \subseteq Nat
    BY <1>1
  <2> HIDE DEF T
  <2>3. T = {}
    BY <2>1, <2>2, Nowhere
  <2> QED BY <2>3 DEF T
<1>7. g[n] = n + 1
  <2>1. n \in 0..n
    BY <1>1
  <2>2. g[n] \in S \cup {n + 1} /\ (g[n] = n + 1 \/ g[n] >= n + 1)
    BY <1>4, <1>6, <2>1
  <2> QED BY <1>1, <2>2
<1>8. ASSUME NEW k \in 0..n PROVE \A j \in k..n : g[k] <= g[j]
  <2> DEFINE T == {j \in k..n : ~(g[k] <= g[j])}
  <2>1. Descends(T)
    <3> SUFFICES ASSUME NEW j \in T PROVE \E y \in T : y < j
      BY DEF Descends
    <3>0. j \in k..n /\ j \in 0..n /\ ~(g[k] <= g[j])
      BY <1>1
    <3> HIDE DEF T
    <3>1. j # k
      BY <1>1, <3>0
    <3>2. j \in 1..n /\ j - 1 \in k..n /\ j - 1 \in 0..n /\ j - 1 < j
      BY <1>1, <3>0, <3>1
    <3>3. g[j - 1] <= g[j] /\ g[j - 1] \in Nat /\ g[j] \in Nat /\ g[k] \in Nat
      BY <1>1, <1>5, <3>0, <3>2
    <3>4. ~(g[k] <= g[j - 1])
      BY <3>0, <3>3
    <3> QED BY <3>2, <3>4 DEF T
  <2>2. T \subseteq Nat
    BY <1>1
  <2> HIDE DEF T
  <2>3. T = {}
    BY <2>1, <2>2, Nowhere
  <2> QED BY <2>3 DEF T
<1>9. \A j \in 0..n : \A k \in 0..j : g[k] <= g[j]
  <2>1. \A j \in 0..n : \A k \in 0..j : k \in 0..n /\ j \in k..n
    BY <1>1
  <2> QED BY <1>8, <2>1
<1> QED BY <1>4, <1>7, <1>9 DEF n

(* The prefixes of a field are those at its starts.                        *)
LEMMA ChainWires ==
  ASSUME NEW f, NEW S, Chain(f, S)
  PROVE  Wires(f) = {Wire(f, off) : off \in S}
<1> DEFINE n == Len(f)
<1>1. f \in Seq(Nat) /\ Starts(f, S) /\ Apart(f, S)
  BY DEF Chain
<1>2. n \in Nat /\ DOMAIN f = 1..n /\ S \subseteq 1..n
  BY <1>1 DEF Starts
<1>3. PICK g : /\ Walks(f, g)
               /\ Wires(f) = {Wire(f, off) : off \in {g[k] : k \in 0..Len(f)} \cap DOMAIN f}
  BY <1>1, WiresIs
<1>4. /\ \A k \in 0..n : g[k] \in S \cup {n + 1}
      /\ g[n] = n + 1
  BY <1>1, <1>3, WalkIs
<1>5. g[0] = 1 /\ \A k \in 1..n : g[k] = IF g[k - 1] \notin 1..n THEN g[k - 1] ELSE Next1(f, g[k - 1])
  BY <1>2, <1>3 DEF Walks
<1>13. \A k \in 0..n : g[k] \in Nat
  BY <1>3 DEF Walks
<1> HIDE DEF n
<1> DEFINE R == {g[k] : k \in 0..n}
           T == {k \in 0..n : \E x \in S : x < g[k] /\ x \notin R}
<1>6. Descends(T)
  <2> SUFFICES ASSUME NEW k \in 0..n, NEW x \in S, x < g[k], x \notin R PROVE \E y \in T : y < k
    BY DEF Descends
  <2>1. k # 0
    BY <1>2, <1>5
  <2>2. k \in 1..n /\ k - 1 \in 0..n /\ k - 1 < k
    BY <1>2, <2>1
  <2>3. x < g[k - 1]
    <3>1. x \in Nat /\ g[k - 1] \in Nat /\ g[k] \in Nat
      <4> HIDE DEF R, T
      <4>1. x \in Nat
        BY <1>2
      <4> QED BY <1>13, <2>2, <4>1
    <3>2. CASE g[k - 1] \notin 1..n
      BY <1>5, <2>2, <3>2
    <3>3. CASE g[k - 1] \in 1..n
      <4>1. g[k - 1] \in S /\ g[k] = Next1(f, g[k - 1])
        BY <1>2, <1>4, <1>5, <2>2, <3>3
      <4>2. g[k - 1] \in R
        BY <2>2
      <4>3. x # g[k - 1]
        BY <4>2
      <4>4. ~(g[k - 1] < x)
        BY <1>1, <3>1, <4>1 DEF Apart
      <4> HIDE DEF R
      <4> QED BY <3>1, <4>3, <4>4
    <3> QED BY <3>2, <3>3
  <2> QED BY <2>2, <2>3
<1>7. T \subseteq Nat
  BY <1>2
<1>8. n \in 0..n
  BY <1>2
<1> HIDE DEF T, R
<1>9. T = {}
  BY <1>6, <1>7, Nowhere
<1>10. S \subseteq R
  <2> SUFFICES ASSUME NEW x \in S, x \notin R PROVE FALSE
    OBVIOUS
  <2>1. x < g[n]
    BY <1>2, <1>4
  <2> QED BY <1>8, <1>9, <2>1 DEF T
<1>11. R \cap 1..n = S
  <2>1. R \cap 1..n \subseteq S
    <3> SUFFICES ASSUME NEW k \in 0..n, g[k] \in 1..n PROVE g[k] \in S
      BY DEF R
    <3>1. g[k] # n + 1
      BY <1>2
    <3> QED BY <1>4, <3>1
  <2> QED BY <1>2, <1>10, <2>1
<1>12. {g[k] : k \in 0..Len(f)} \cap DOMAIN f = S
  BY <1>2, <1>11 DEF R, n
<1> QED BY <1>3, <1>12, Zenon

(* A field of whole prefixes has its starts.                               *)
LEMMA WholeChain ==
  ASSUME NEW f \in Seq(Nat), Whole(f)
  PROVE  \E S : Chain(f, S) /\ 1 \in S
<1> DEFINE n == Len(f)
<1>1. n \in Nat /\ DOMAIN f = 1..n
  OBVIOUS
<1>2. PICK W \in SUBSET DOMAIN f :
        /\ 1 \in W
        /\ \A off \in W : /\ f[off] \in 0..Width
                          /\ \A i \in (off + 1)..(Next1(f, off) - 1) : f[i] \in Octet
                          /\ Next1(f, off) \in W \cup {n + 1}
  BY DEF Whole, Next1
<1> HIDE DEF n
<1>3. Starts(f, W)
  <2>1. ASSUME NEW off \in W PROVE Sizable(f, off)
    <3> DEFINE c == CHUNKSIZE(f[off])
    <3>1. off \in Nat /\ f[off] \in 0..Width /\ c \in Nat
      BY <1>1, <1>2, Chunks
    <3>2. Next1(f, off) - 1 = off + c
      <4> HIDE DEF c
      <4>1. (off + 1 + c) - 1 = off + c
        BY <3>1
      <4> QED BY <4>1 DEF Next1, c
    <3> HIDE DEF c
    <3>3. \A i \in 1..c : (off + 1) + i - 1 \in (off + 1)..(off + c)
      BY <3>1
    <3>4. Octal(f, off + 1, c)
      BY <1>2, <3>2, <3>3 DEF Octal
    <3> QED BY <3>1, <3>4 DEF Sizable, c
  <2> QED BY <1>1, <1>2, <2>1 DEF Starts, n
<1>4. PICK g : Walks(f, g)
  BY WiresIs
<1>5. /\ \A k \in 0..n : g[k] \in W \cup {n + 1}
      /\ g[n] = n + 1
      /\ \A j \in 0..n : \A k \in 0..j : g[k] <= g[j]
  BY <1>3, <1>4, WalkIs DEF n
<1>6. /\ g[0] = 1 /\ \A k \in 0..n : g[k] \in Nat
      /\ \A k \in 1..n : g[k] = IF g[k - 1] \notin 1..n THEN g[k - 1] ELSE Next1(f, g[k - 1])
  BY <1>1, <1>4 DEF Walks, n
<1> DEFINE S == {g[k] : k \in 0..n} \cap 1..n
<1>7. ASSUME NEW k \in 0..n, g[k] \in 1..n PROVE k + 1 \in 1..n /\ g[k + 1] = Next1(f, g[k]) /\ g[k] \in W
  <2>1. k # n
    BY <1>1, <1>5, <1>7
  <2>2. k + 1 \in 1..n /\ (k + 1) - 1 = k
    BY <1>1, <2>1
  <2>3. g[k] # n + 1
    BY <1>1, <1>7
  <2>4. g[k + 1] = IF g[(k + 1) - 1] \notin 1..n THEN g[(k + 1) - 1] ELSE Next1(f, g[(k + 1) - 1])
    BY <1>6, <2>2
  <2> QED BY <1>5, <1>7, <2>2, <2>3, <2>4
<1>8. Starts(f, S)
  <2>1. S \subseteq 1..Len(f)
    BY DEF n
  <2>2. 1 \in S \cup {n + 1}
    <3>1. 0 \in 0..n
      BY <1>1
    <3>2. 1 \in 1..n \/ 1 = n + 1
      BY <1>1
    <3> QED BY <1>6, <3>1, <3>2
  <2>3. ASSUME NEW k \in 0..n, g[k] \in 1..n PROVE Sizable(f, g[k]) /\ Next1(f, g[k]) \in S \cup {n + 1}
    <3>1. g[k + 1] \in W \cup {n + 1} /\ k + 1 \in 0..n
      BY <1>1, <1>5, <1>7, <2>3
    <3>2. g[k + 1] \in 1..n \/ g[k + 1] = n + 1
      BY <1>1, <1>2, <3>1
    <3>3. g[k + 1] \in S \cup {n + 1}
      BY <3>1, <3>2
    <3>4. Sizable(f, g[k])
      BY <1>3, <1>7, <2>3 DEF Starts
    <3> HIDE DEF S
    <3> QED BY <1>7, <2>3, <3>3, <3>4
  <2> QED BY <2>1, <2>2, <2>3 DEF Starts, n
<1>9. Apart(f, S)
  <2> SUFFICES ASSUME NEW j \in 0..n, NEW k \in 0..n, g[j] \in 1..n, g[k] \in 1..n, g[j] < g[k]
               PROVE  Next1(f, g[j]) <= g[k]
    BY DEF Apart
  <2>1. ~(k <= j)
    <3> SUFFICES ASSUME k <= j PROVE FALSE
      OBVIOUS
    <3>1. k \in 0..j
      BY <1>1
    <3>2. g[k] <= g[j]
      BY <1>5, <3>1
    <3> QED BY <1>6, <3>2
  <2>2. j + 1 \in 0..k
    BY <1>1, <2>1
  <2>3. g[j + 1] <= g[k]
    BY <1>5, <2>2
  <2> QED BY <1>7, <2>3
<1>10. 1 \in S
  <2>1. 1 \in 1..n /\ 0 \in 0..n
    BY <1>1, <1>2
  <2> QED BY <1>6, <2>1
<1> QED BY <1>8, <1>9, <1>10 DEF Chain

LEMMA WireAt ==
  ASSUME NEW f, NEW S, Chain(f, S), NEW off \in S
  PROVE  LET w == Wire(f, off)
             c == CHUNKSIZE(f[off])
         IN  /\ off \in Nat /\ off \in 1..Len(f) /\ f[off] \in Nat /\ f[off] \in 0..Width
             /\ c \in Nat /\ Next1(f, off) = off + 1 + c /\ Next1(f, off) <= Len(f) + 1
             /\ Next1(f, off) \in S \cup {Len(f) + 1} /\ Sizable(f, off)
             /\ IsWire(w) /\ w[1] = f[off] /\ Len(w) = 1 + c
             /\ Pair(w) = nlri_iter(f, off).pair /\ nlri_iter(f, off).next = Next1(f, off)
             /\ \A i \in 1..(1 + c) : w[i] = f[off + i - 1]
<1> DEFINE w == Wire(f, off)
           c == CHUNKSIZE(f[off])
           n == Len(f)
<1>1. f \in Seq(Nat) /\ n \in Nat /\ S \subseteq 1..n /\ Sizable(f, off) /\ Next1(f, off) \in S \cup {n + 1}
  BY DEF Chain, Starts
<1>2. off \in 1..n /\ off \in Nat /\ Next1(f, off) <= n + 1 /\ \A i \in 1..n : f[i] \in Nat
  <2>1. \A i \in 1..n : f[i] \in Nat
    BY <1>1
  <2> DEFINE x == Next1(f, off)
  <2> HIDE DEF n, x
  <2>2. off \in 1..n /\ off \in Nat
    BY <1>1
  <2>3. x \in 1..n \/ x = n + 1
    BY <1>1 DEF x
  <2>4. x <= n + 1
    BY <1>1, <2>3
  <2> QED BY <2>1, <2>2, <2>4 DEF x
<1>3. f[off] \in 0..Width /\ Octal(f, off + 1, c) /\ f[off] \in Nat /\ c \in Nat
  BY <1>1, <1>2, Chunks DEF Sizable
<1>4. Next1(f, off) = off + 1 + c
  BY DEF Next1
<1>5. w \in Seq(Nat) /\ Len(w) = 1 + c /\ \A i \in 1..(1 + c) : w[i] = f[off + i - 1]
  <2>1. w = SubSeq(f, off, off + c)
    BY DEF Wire
  <2> HIDE DEF w, c, n
  <2>2. \A i \in off..(off + c) : f[i] \in Nat
    <3>1. off + 1 + c <= n + 1
      BY <1>2, <1>4
    <3>2. n \in Nat /\ off + c <= n
      BY <1>1, <1>2, <1>3, <3>1
    <3>3. \A i \in off..(off + c) : i \in 1..n
      BY <1>2, <1>3, <3>2
    <3> QED BY <1>2, <3>3
  <2>3. off \in Int /\ off + c \in Int /\ off <= off + c /\ (off + c) - off + 1 = 1 + c
    BY <1>2, <1>3
  <2>4. w \in Seq(Nat) /\ Len(w) = (off + c) - off + 1
        /\ \A i \in 1..((off + c) - off + 1) : w[i] = f[off + i - 1]
    BY <2>1, <2>2, <2>3, SubSeqProperties
  <2> QED BY <2>3, <2>4
<1> HIDE DEF w
<1>6. w[1] = f[off]
  <2>1. 1 \in 1..(1 + c) /\ off + 1 - 1 = off
    BY <1>2, <1>3
  <2> QED BY <1>5, <2>1
<1>7. Octal(w, 2, c) /\ Accumulated(w, 2, c) = Accumulated(f, off + 1, c)
  <2>1. OctetsAlike(f, off + 1, w, 2, c)
    <3> SUFFICES ASSUME NEW i \in 1..c PROVE f[(off + 1) + i - 1] = w[2 + i - 1]
      BY DEF OctetsAlike
    <3> HIDE DEF c
    <3>1. 2 + i - 1 \in 1..(1 + c) /\ off + (2 + i - 1) - 1 = (off + 1) + i - 1
      BY <1>2, <1>3
    <3> QED BY <1>5, <3>1
  <2>2. off + 1 \in Nat /\ 2 \in Nat
    BY <1>2
  <2> QED BY <1>3, <2>1, <2>2, AccumulatedAlike
<1>8. Sizable(w, 1)
  <2>1. 1 + 1 = 2 /\ CHUNKSIZE(w[1]) = c
    BY <1>6
  <2> QED BY <1>3, <1>6, <1>7, <2>1 DEF Sizable
<1>9. IsWire(w)
  BY <1>5, <1>6, <1>8 DEF IsWire
<1>10. Pair(w) = nlri_iter(f, off).pair
  <2>1. 1 + 1 = 2 /\ CHUNKSIZE(w[1]) = c
    BY <1>6
  <2>2. nlri_iter(w, 1).pair = [length |-> f[off],
                                address |-> Accumulated(w, 2, c) * Pow2(OctetBits * (Octets - c))]
    BY <1>6, <2>1, Zenon DEF nlri_iter
  <2>3. nlri_iter(f, off).pair = [length |-> f[off],
                                  address |-> Accumulated(f, off + 1, c) * Pow2(OctetBits * (Octets - c))]
    BY Zenon DEF nlri_iter
  <2> QED BY <1>7, <2>2, <2>3, Zenon DEF Pair
<1>11. nlri_iter(f, off).next = Next1(f, off)
  BY Zenon DEF nlri_iter, Next1
<1> HIDE DEF c, n
<1> QED BY <1>1, <1>2, <1>3, <1>4, <1>5, <1>6, <1>9, <1>10, <1>11, Zenon DEF w, c, n

(* A prefix more at the end of a field.                                    *)
LEMMA WiresAppend ==
  ASSUME NEW f, NEW S, Chain(f, S), NEW w, IsWire(w)
  PROVE  /\ \E Y : Chain(f \o w, Y)
         /\ Wires(f \o w) = Wires(f) \cup {w}
         /\ Len(f \o w) = Len(f) + 1 + CHUNKSIZE(w[1])
<1> DEFINE n == Len(f)
           c == CHUNKSIZE(w[1])
           h == f \o w
           Y == S \cup {n + 1}
<1>1. f \in Seq(Nat) /\ n \in Nat /\ S \subseteq 1..n /\ 1 \in S \cup {n + 1}
  BY DEF Chain, Starts
<1>2. w \in Seq(Nat) /\ Len(w) = 1 + c /\ w[1] \in 0..Width /\ Octal(w, 2, c) /\ c \in Nat
  BY WireIs DEF IsWire
<1>3. /\ h \in Seq(Nat) /\ Len(h) = n + 1 + c
      /\ \A i \in 1..(n + 1 + c) : h[i] = IF i <= n THEN f[i] ELSE w[i - n]
  <2>1. /\ h \in Seq(Nat) /\ Len(h) = n + Len(w)
        /\ \A i \in 1..(n + Len(w)) : h[i] = IF i <= n THEN f[i] ELSE w[i - n]
    BY <1>1, <1>2, ConcatProperties
  <2>2. n + Len(w) = n + 1 + c
    BY <1>1, <1>2
  <2> HIDE DEF h
  <2> QED BY <2>1, <2>2
<1> HIDE DEF h, n, c
<1>4. /\ \A i \in 1..n : h[i] = f[i]
      /\ \A i \in 1..(1 + c) : h[n + i] = w[i]
  <2>1. \A i \in 1..n : i \in 1..(n + 1 + c) /\ i <= n
    BY <1>1, <1>2
  <2>2. \A i \in 1..(1 + c) : n + i \in 1..(n + 1 + c) /\ ~(n + i <= n) /\ (n + i) - n = i
    BY <1>1, <1>2
  <2>3. ASSUME NEW i \in 1..n PROVE h[i] = f[i]
    BY <1>3, <2>1
  <2>4. ASSUME NEW i \in 1..(1 + c) PROVE h[n + i] = w[i]
    <3> DEFINE j == n + i
    <3>1. j \in 1..(n + 1 + c) /\ ~(j <= n) /\ j - n = i
      BY <2>2
    <3> HIDE DEF j
    <3>2. h[j] = w[j - n]
      BY <1>3, <3>1
    <3> QED BY <3>1, <3>2 DEF j
  <2> QED BY <2>3, <2>4
<1>5. ASSUME NEW off \in S
      PROVE  /\ Sizable(h, off) /\ Next1(h, off) \in Y /\ Next1(h, off) <= n + 1
             /\ Next1(h, off) = Next1(f, off) /\ Wire(h, off) = Wire(f, off)
  <2> DEFINE d == CHUNKSIZE(f[off])
             v == Wire(f, off)
  <2>1. /\ off \in Nat /\ off \in 1..n /\ d \in Nat /\ Next1(f, off) = off + 1 + d /\ Next1(f, off) <= n + 1
        /\ Next1(f, off) \in S \cup {n + 1} /\ Sizable(f, off)
        /\ v \in Seq(Nat) /\ Len(v) = 1 + d /\ \A i \in 1..(1 + d) : v[i] = f[off + i - 1]
    BY WireAt DEF n, IsWire
  <2>2. h[off] = f[off]
    BY <1>4, <2>1
  <2>3. Next1(h, off) = Next1(f, off)
    BY <2>2 DEF Next1
  <2>4. Octal(f, off + 1, d) /\ f[off] \in 0..Width
    BY <2>1 DEF Sizable
  <2> HIDE DEF d, v
  <2>5. Octal(h, off + 1, d)
    <3> SUFFICES ASSUME NEW i \in 1..d PROVE h[(off + 1) + i - 1] \in Octet
      BY DEF Octal
    <3>1. (off + 1) + i - 1 \in 1..n
      BY <1>1, <2>1
    <3> QED BY <1>4, <2>4, <3>1 DEF Octal
  <2>6. Sizable(h, off)
    BY <2>1, <2>2, <2>4, <2>5 DEF Sizable, d
  <2>7. Wire(h, off) = v
    <3> DEFINE u == Wire(h, off)
    <3>1. u = SubSeq(h, off, off + d)
      BY <2>2 DEF Wire, d
    <3>2. \A i \in off..(off + d) : h[i] \in Nat
      <4>1. off + d <= n + 1 + c
        BY <1>1, <1>2, <2>1
      <4>2. \A i \in off..(off + d) : i \in 1..(n + 1 + c)
        BY <1>1, <1>2, <2>1, <4>1
      <4> QED BY <1>3, <4>2
    <3>3. off \in Int /\ off + d \in Int /\ off <= off + d /\ (off + d) - off + 1 = 1 + d
      BY <2>1
    <3> HIDE DEF u
    <3>4. u \in Seq(Nat) /\ Len(u) = 1 + d /\ \A i \in 1..(1 + d) : u[i] = h[off + i - 1]
      <4>1. u \in Seq(Nat) /\ Len(u) = (off + d) - off + 1
            /\ \A i \in 1..((off + d) - off + 1) : u[i] = h[off + i - 1]
        BY <3>1, <3>2, <3>3, SubSeqProperties
      <4> QED BY <3>3, <4>1
    <3>5. \A i \in 1..(1 + d) : off + i - 1 \in 1..n
      BY <1>1, <2>1
    <3>6. \A i \in 1..(1 + d) : u[i] = v[i]
      BY <1>4, <2>1, <3>4, <3>5
    <3>7. u = v
      BY <2>1, <3>4, <3>6
    <3> QED BY <3>7 DEF u
  <2> QED BY <2>1, <2>3, <2>6, <2>7 DEF v
<1>6. /\ Sizable(h, n + 1) /\ Next1(h, n + 1) = Len(h) + 1 /\ Wire(h, n + 1) = w
  <2>1. h[n + 1] = w[1]
    <3>1. 1 \in 1..(1 + c)
      BY <1>2
    <3> QED BY <1>4, <3>1
  <2>2. CHUNKSIZE(h[n + 1]) = c
    BY <2>1 DEF c
  <2>3. Octal(h, (n + 1) + 1, c)
    <3> SUFFICES ASSUME NEW i \in 1..c PROVE h[((n + 1) + 1) + i - 1] \in Octet
      BY DEF Octal
    <3>1. ((n + 1) + 1) + i - 1 = n + (2 + i - 1) /\ 2 + i - 1 \in 1..(1 + c)
      BY <1>1, <1>2
    <3>2. w[2 + i - 1] \in Octet
      BY <1>2 DEF Octal
    <3> QED BY <1>4, <3>1, <3>2
  <2>4. n + 1 \in Nat
    BY <1>1
  <2>5. Sizable(h, n + 1)
    BY <1>2, <2>1, <2>2, <2>3, <2>4 DEF Sizable
  <2>6. Next1(h, n + 1) = Len(h) + 1
    BY <1>1, <1>2, <1>3, <2>2 DEF Next1
  <2>7. Wire(h, n + 1) = w
    <3> DEFINE u == Wire(h, n + 1)
    <3>1. u = SubSeq(h, n + 1, (n + 1) + c)
      BY <2>2 DEF Wire
    <3>2. \A i \in (n + 1)..((n + 1) + c) : h[i] \in Nat
      <4>1. \A i \in (n + 1)..((n + 1) + c) : i \in 1..(n + 1 + c)
        BY <1>1, <1>2
      <4> QED BY <1>3, <4>1
    <3>3. n + 1 \in Int /\ (n + 1) + c \in Int /\ n + 1 <= (n + 1) + c /\ ((n + 1) + c) - (n + 1) + 1 = 1 + c
      BY <1>1, <1>2
    <3> HIDE DEF u
    <3>4. u \in Seq(Nat) /\ Len(u) = 1 + c /\ \A i \in 1..(1 + c) : u[i] = h[(n + 1) + i - 1]
      <4>1. u \in Seq(Nat) /\ Len(u) = ((n + 1) + c) - (n + 1) + 1
            /\ \A i \in 1..(((n + 1) + c) - (n + 1) + 1) : u[i] = h[(n + 1) + i - 1]
        BY <3>1, <3>2, <3>3, SubSeqProperties
      <4> QED BY <3>3, <4>1
    <3>5. \A i \in 1..(1 + c) : (n + 1) + i - 1 = n + i
      BY <1>1, <1>2
    <3>6. \A i \in 1..(1 + c) : u[i] = w[i]
      BY <1>4, <3>4, <3>5
    <3>7. u = w
      BY <1>2, <3>4, <3>6
    <3> QED BY <3>7 DEF u
  <2> QED BY <2>5, <2>6, <2>7
<1>7. Starts(h, Y)
  <2>1. Y \subseteq 1..Len(h) /\ 1 \in Y
    BY <1>1, <1>2, <1>3
  <2> QED BY <1>5, <1>6, <2>1 DEF Starts
<1>8. Apart(h, Y)
  <2> SUFFICES ASSUME NEW a \in Y, NEW b \in Y, a < b PROVE Next1(h, a) <= b
    BY DEF Apart
  <2>1. a \in S
    BY <1>1
  <2>2. CASE b = n + 1
    BY <1>5, <2>1, <2>2
  <2>3. CASE b # n + 1
    <3>1. b \in S
      BY <2>3
    <3>2. Next1(f, a) <= b
      BY <2>1, <3>1 DEF Chain, Apart
    <3> QED BY <1>5, <2>1, <3>2
  <2> QED BY <2>2, <2>3
<1>9. Chain(h, Y)
  BY <1>3, <1>7, <1>8 DEF Chain
<1>10. Wires(h) = {Wire(h, off) : off \in Y} /\ Wires(f) = {Wire(f, off) : off \in S}
  BY <1>9, ChainWires
<1>11. {Wire(h, off) : off \in Y} = {Wire(f, off) : off \in S} \cup {w}
  BY <1>5, <1>6
<1>12. \E Z : Chain(h, Z)
  BY <1>9
<1> QED BY <1>3, <1>10, <1>11, <1>12, Zenon DEF h, n, c

(* A prefix with its spare bits cleared is a prefix of the same length.    *)
LEMMA ClearedWire ==
  ASSUME NEW w, IsWire(w)
  PROVE  IsWire(Cleared(w)) /\ Cleared(w)[1] = w[1]
<1> DEFINE v == Cleared(w)
<1>1. w[1] \in Nat /\ w[1] \in 0..Width /\ w \in Seq(Nat) /\ Len(w) = 1 + CHUNKSIZE(w[1])
  BY WireIs DEF IsWire
<1>2. CASE w[1] > 0
  BY <1>2, ClearedIs
<1>3. CASE w[1] = 0
  <2>1. DOMAIN w = {1}
    BY <1>1, <1>3, Chunks
  <2>2. v = [i \in DOMAIN w |-> w[i]]
    BY <2>1 DEF Cleared
  <2> HIDE DEF v
  <2>3. v = w
    BY <1>1, <2>2
  <2> QED BY <2>3 DEF v
<1> QED BY <1>1, <1>2, <1>3

-----------------------------------------------------------------------------
(* Where the walk over the message is, and what became of what it passed.  *)
nlri == message.nlri
starts == CHOOSE S : Chain(nlri, S) /\ 1 \in S
Index(off) == encode(nlri_iter(nlri, off).pair)
Passed == {off \in starts : off < nlrip /\ nlri[off] <= Longest}
Out(off) == Cleared(Wire(nlri, off))
Indices == 1..(Pow2(Longest + 1) - 1)
Octets2(ref) == 1 + CHUNKSIZE(Max({n \in 0..Width : Pow2(n) <= ref}))
Costs(s) == [i \in DOMAIN s |-> Octets2(s[i])]

Walked ==
  /\ nlrip \in starts \cup {Len(nlri) + 1}
  /\ pc \in {"attributes", "nlri"} => nlrip \in starts
Block ==
  /\ table \in Seq(Indices)
  /\ \A i \in 1..Len(table) : \E off \in Passed : table[i] = Index(off)
  /\ pc \in {"serialize", "build"} => table # <<>>
  /\ pc = "done" => table = <<>> /\ nlrip = Len(nlri) + 1
  /\ pc \in {"serialize", "build"} => nlrip = Len(nlri) + 1
Carried ==
  /\ \E Y : Chain(txp, Y)
  /\ \A off \in Passed : (\E i \in 1..Len(table) : table[i] = Index(off)) \/ Out(off) \in Wires(txp)
  /\ \A w \in Wires(txp) : \E off \in Passed : w = Out(off)
Lengths == Len(txp) + Total(Costs(table), Len(table)) <= nlrip - 1
NInv == Walked /\ Block /\ Carried /\ Lengths

LEMMA StartsAre ==
  ASSUME Parsed
  PROVE  Chain(nlri, starts) /\ 1 \in starts /\ Len(nlri) \in Nat
<1>1. nlri \in Seq(Nat) /\ Whole(nlri)
  BY UpdateAssumption DEF Parsed, Places, nlri
<1>2. \E S : Chain(nlri, S) /\ 1 \in S
  BY <1>1, WholeChain
<1>3. Chain(nlri, starts) /\ 1 \in starts
  BY <1>2, Zenon DEF starts
<1> QED BY <1>1, <1>3

(* A prefix of the message.                                                *)
LEMMA StartIs ==
  ASSUME Parsed, NEW off \in starts
  PROVE  LET x == nlri_iter(nlri, off)
             w == Wire(nlri, off)
         IN  /\ off \in Nat /\ off \in 1..Len(nlri) /\ nlri[off] \in Nat /\ nlri[off] \in 0..Width
             /\ CHUNKSIZE(nlri[off]) \in Nat /\ x.next = off + 1 + CHUNKSIZE(nlri[off])
             /\ x.next \in starts \cup {Len(nlri) + 1} /\ x.pair.length = nlri[off]
             /\ \A a \in starts : a < x.next <=> a < off \/ a = off
             /\ IsWire(w) /\ w[1] = nlri[off] /\ Pair(w) = x.pair
             /\ Leading(Index(off), nlri[off])
             /\ nlri[off] <= Longest => Index(off) \in Indices
             /\ Octets2(Index(off)) = 1 + CHUNKSIZE(nlri[off])
<1> DEFINE l == nlri[off]
           c == CHUNKSIZE(l)
           x == nlri_iter(nlri, off)
           w == Wire(nlri, off)
<1>1. Chain(nlri, starts)
  BY StartsAre
<1>2. /\ off \in Nat /\ off \in 1..Len(nlri) /\ l \in Nat /\ l \in 0..Width /\ c \in Nat
      /\ Next1(nlri, off) = off + 1 + c /\ Next1(nlri, off) \in starts \cup {Len(nlri) + 1}
      /\ Sizable(nlri, off) /\ x.next = Next1(nlri, off)
      /\ IsWire(w) /\ w[1] = l /\ Pair(w) = x.pair
  BY <1>1, WireAt
<1>3. IsPair(x.pair) /\ x.pair.length = l
  BY <1>2, PairIs
<1> HIDE DEF l, c, x, w
<1>4. \A a \in starts : a < x.next <=> a < off \/ a = off
  <2> SUFFICES ASSUME NEW a \in starts PROVE a < x.next <=> a < off \/ a = off
    OBVIOUS
  <2>1. a \in Nat
    BY <1>1, WireAt
  <2>2. off < a => x.next <= a
    BY <1>1, <1>2 DEF Chain, Apart
  <2>3. x.next = off + 1 + c
    BY <1>2
  <2> QED BY <1>2, <2>1, <2>2, <2>3
<1>5. Leading(Index(off), l)
  BY <1>3, EncodeIs DEF Index, x, l
<1>6. ASSUME l <= Longest PROVE Index(off) \in Indices
  <2> DEFINE y == Index(off)
             u == Pow2(l)
             v == Pow2(Longest + 1)
  <2>1. Longest \in Nat
    BY PrefixAssumption
  <2>2. u \in Nat /\ u > 0 /\ v \in Nat /\ 2 * u <= v
    <3>1. Longest + 1 \in Nat /\ l < Longest + 1
      BY <1>2, <1>6, <2>1
    <3> QED BY <1>2, <3>1, PowMono, PowStep
  <2>3. y \in Nat /\ u <= y /\ y < 2 * u
    BY <1>5 DEF Leading
  <2> HIDE DEF y, u, v
  <2>4. y \in 1..(v - 1)
    BY <2>2, <2>3
  <2> QED BY <2>4 DEF y, v, Indices
<1>7. Octets2(Index(off)) = 1 + c
  <2>1. Max({n \in 0..Width : Pow2(n) <= Index(off)}) = l
    BY <1>5, LeadingIs
  <2> QED BY <2>1, Zenon DEF Octets2, c
<1>8. x.next = off + 1 + c /\ x.next \in starts \cup {Len(nlri) + 1}
  BY <1>2
<1> QED BY <1>2, <1>3, <1>4, <1>5, <1>6, <1>7, <1>8, Zenon DEF l, c, x, w

(* Most steps leave the prefixes alone.                                    *)
Idles ==
  /\ message' = message /\ nlrip' = nlrip /\ table' = table /\ txp' = txp
  /\ \/ pc' = pc \/ pc' = "assert"
     \/ pc = "attributes" /\ pc' = "nlri"
     \/ pc = "serialize" /\ pc' = "build"
LEMMA Idling ==
  ASSUME [Next]_vars
  PROVE  Idles \/ parse_nlri \/ Build
<1>1. CASE parse_attributes
  BY <1>1 DEF parse_attributes, Idles
<1>2. CASE Stop \/ UNCHANGED vars
  BY <1>2 DEF Stop, vars, Idles
<1>3. ASSUME pc = "serialize", NEW w, Writes(w) PROVE Idles
  BY <1>3 DEF Writes, Idles
<1>4. CASE Fails
  BY <1>4 DEF Fails, Idles
<1>5. \A op : Calls(op) => pc = "serialize"
  BY Zenon DEF Calls
<1>6. CASE Set
  BY <1>3, <1>4, <1>5, <1>6 DEF Set
<1>7. CASE Copy
  BY <1>3, <1>5, <1>7 DEF Copy
<1>8. CASE Prepend
  BY <1>3, <1>4, <1>5, <1>8 DEF Prepend
<1>9. CASE Set4
  BY <1>3, <1>5, <1>9 DEF Set4
<1> QED BY <1>1, <1>2, <1>6, <1>7, <1>8, <1>9 DEF Next

(* A step that leaves the prefixes alone keeps NInv.                       *)
LEMMA IdleStep == NInv /\ Idles => NInv'
<1> SUFFICES ASSUME NInv, Idles PROVE NInv'
  OBVIOUS
<1>1. nlri' = nlri /\ starts' = starts /\ nlrip' = nlrip /\ table' = table /\ txp' = txp
  BY DEF Idles, nlri, starts
<1>2. Passed' = Passed /\ \A off : Index(off)' = Index(off) /\ Out(off)' = Out(off)
  BY <1>1 DEF Passed, Index, Out
<1>3. Walked'
  BY <1>1 DEF NInv, Walked, Idles
<1>4. Block'
  BY <1>1, <1>2 DEF NInv, Block, Idles
<1>5. Carried'
  BY <1>1, <1>2 DEF NInv, Carried
<1>6. Lengths'
  BY <1>1 DEF NInv, Lengths
<1> QED BY <1>3, <1>4, <1>5, <1>6 DEF NInv

(* NInv holds at the start.                                                *)
LEMMA NInvInit == Init /\ Parsed => NInv
<1> SUFFICES ASSUME Init, Parsed PROVE NInv
  OBVIOUS
<1>1. pc = "attributes" /\ nlrip = 1 /\ table = <<>> /\ txp = <<>>
  BY DEF Init
<1>2. Chain(nlri, starts) /\ 1 \in starts /\ Len(nlri) \in Nat
  BY StartsAre
<1>3. Walked
  BY <1>1, <1>2 DEF Walked
<1>4. Passed = {}
  <2> SUFFICES ASSUME NEW off \in starts PROVE ~(off < 1)
    BY <1>1 DEF Passed
  <2>1. off \in Nat /\ off \in 1..Len(nlri)
    BY StartIs
  <2> QED BY <2>1
<1>5. Block
  BY <1>1 DEF Block
<1>6. Carried
  <2>1. <<>> \in Seq(Nat) /\ Len(<<>>) = 0
    OBVIOUS
  <2>2. Chain(<<>>, {})
    BY <2>1 DEF Chain, Starts, Apart
  <2>3. Wires(<<>>) = {}
    BY <2>2, ChainWires
  <2> QED BY <1>1, <1>4, <2>2, <2>3 DEF Carried
<1>7. Lengths
  <2>1. Numbers(Costs(<<>>), 0)
    BY DEF Numbers
  <2>2. Total(Costs(<<>>), 0) = 0
    BY <2>1, TotalStep
  <2> QED BY <1>1, <2>2 DEF Lengths
<1> QED BY <1>3, <1>5, <1>6, <1>7 DEF NInv

(* The table's part of the lengths.                                        *)
LEMMA CostsNat ==
  ASSUME Parsed, NInv
  PROVE  /\ Len(table) \in Nat /\ Numbers(Costs(table), Len(table))
         /\ Total(Costs(table), Len(table)) \in Nat
         /\ \A i \in 1..Len(table) : Costs(table)[i] = Octets2(table[i]) /\ Octets2(table[i]) \in Nat
<1>1. table \in Seq(Indices) /\ \A i \in 1..Len(table) : \E off \in Passed : table[i] = Index(off)
  BY DEF NInv, Block
<1>2. Len(table) \in Nat /\ DOMAIN table = 1..Len(table)
  BY <1>1
<1>3. ASSUME NEW off \in Passed PROVE Octets2(Index(off)) \in Nat
  <2>1. off \in starts
    BY DEF Passed
  <2>2. Octets2(Index(off)) = 1 + CHUNKSIZE(nlri[off]) /\ CHUNKSIZE(nlri[off]) \in Nat
    BY <2>1, StartIs
  <2> QED BY <2>2
<1>4. \A i \in 1..Len(table) : Octets2(table[i]) \in Nat
  BY <1>1, <1>3
<1>5. \A i \in 1..Len(table) : Costs(table)[i] = Octets2(table[i])
  BY <1>2 DEF Costs
<1>6. Numbers(Costs(table), Len(table))
  BY <1>4, <1>5 DEF Numbers
<1> QED BY <1>2, <1>4, <1>5, <1>6, TotalStep

(* One index more costs the octets of its prefix.                          *)
LEMMA CostsAppend ==
  ASSUME NEW s \in Seq(Indices), NEW ref \in Indices, Numbers(Costs(s), Len(s)), Octets2(ref) \in Nat
  PROVE  LET t == Append(s, ref)
         IN  Total(Costs(t), Len(t)) = Total(Costs(s), Len(s)) + Octets2(ref)
<1> DEFINE t == Append(s, ref)
           n == Len(s)
<1>1. n \in Nat /\ DOMAIN s = 1..n /\ DOMAIN t = 1..(n + 1) /\ Len(t) = n + 1
      /\ t[n + 1] = ref /\ \A i \in 1..n : t[i] = s[i]
  BY Appended
<1> HIDE DEF t, n
<1>2. /\ n + 1 \in 1..(n + 1) /\ (n + 1) - 1 = n /\ n + 1 \in Nat
      /\ \A i \in 1..n : i \in 1..(n + 1)
      /\ \A i \in 1..(n + 1) : i = n + 1 \/ i \in 1..n
  BY <1>1
<1>3. \A i \in 1..n : Costs(t)[i] = Costs(s)[i]
  BY <1>1, <1>2 DEF Costs
<1>4. Costs(t)[n + 1] = Octets2(ref)
  BY <1>1, <1>2 DEF Costs
<1>5. Numbers(Costs(s), n) /\ Numbers(Costs(t), n + 1) /\ AlikeTo(Costs(s), Costs(t), n)
  BY <1>2, <1>3, <1>4 DEF Numbers, AlikeTo, n
<1>6. Total(Costs(t), n) = Total(Costs(s), n)
  BY <1>1, <1>5, TotalAlike
<1>7. Total(Costs(t), n + 1) = Total(Costs(t), (n + 1) - 1) + Costs(t)[n + 1]
  BY <1>2, <1>5, TotalStep
<1> QED BY <1>1, <1>2, <1>4, <1>6, <1>7 DEF t, n

(* parse_nlri() keeps NInv: the prefix is in the table after it, or is     *)
(* over-long and left out.                                                 *)
LEMMA ParseStep == Parsed /\ NInv /\ parse_nlri => NInv'
<1> SUFFICES ASSUME Parsed, NInv, parse_nlri PROVE NInv'
  OBVIOUS
<1> DEFINE x == nlri_iter(nlri, nlrip)
           l == nlri[nlrip]
           c == CHUNKSIZE(l)
           n == Len(table)
<1>1. pc = "nlri" /\ message' = message /\ txp' = txp /\ nlrip' = x.next
  BY DEF parse_nlri, nlri
<1>2. nlri' = nlri /\ starts' = starts
  BY <1>1 DEF nlri, starts
<1>3. \A off : Index(off)' = Index(off) /\ Out(off)' = Out(off)
  BY <1>2 DEF Index, Out
<1>4. nlrip \in starts
  BY <1>1 DEF NInv, Walked
<1>5. /\ nlrip \in Nat /\ nlrip \in 1..Len(nlri) /\ l \in Nat /\ c \in Nat
      /\ x.next = nlrip + 1 + c /\ x.next \in starts \cup {Len(nlri) + 1} /\ x.pair.length = l
      /\ \A a \in starts : a < x.next <=> a < nlrip \/ a = nlrip
      /\ l <= Longest => Index(nlrip) \in Indices
      /\ Octets2(Index(nlrip)) = 1 + c
  BY <1>4, StartIs
<1>6. /\ table' \in IF l > Longest THEN {table}
                    ELSE IF Index(nlrip) \notin ToSet(table) THEN {Append(table, Index(nlrip))}
                    ELSE {table, Append(table, Index(nlrip))}
      /\ pc' = IF x.next <= Len(nlri) THEN "nlri" ELSE IF table' = <<>> THEN "done" ELSE "serialize"
  BY <1>1, <1>5 DEF parse_nlri, nlri, Index
<1> HIDE DEF x, l, c
<1>7. table \in Seq(Indices) /\ \A i \in 1..n : \E off \in Passed : table[i] = Index(off)
  BY DEF NInv, Block
<1>8. Longest \in Nat
  BY PrefixAssumption
<1>9. Passed' = IF l <= Longest THEN Passed \cup {nlrip} ELSE Passed
  <2>1. Passed' = {off \in starts : off < x.next /\ nlri[off] <= Longest}
    BY <1>1, <1>2 DEF Passed
  <2> QED BY <1>4, <1>5, <2>1 DEF Passed, l
<1> DEFINE Grows == l <= Longest /\ table' = Append(table, Index(nlrip))
           Stays == table' = table /\ (l <= Longest => \E i \in 1..n : table[i] = Index(nlrip))
<1>10. Grows \/ Stays
  <2>1. CASE l > Longest
    BY <1>5, <1>6, <1>8, <2>1
  <2>2. CASE l <= Longest
    <3>1. ~(l > Longest)
      BY <1>5, <1>8, <2>2
    <3>2. Index(nlrip) \in ToSet(table) => \E i \in 1..n : table[i] = Index(nlrip)
      BY <1>7 DEF ToSet
    <3>3. table' = table \/ table' = Append(table, Index(nlrip))
      BY <1>6, <3>1
    <3>4. table' = table => Index(nlrip) \in ToSet(table) \/ table' = Append(table, Index(nlrip))
      BY <1>6, <3>1
    <3> QED BY <2>2, <3>2, <3>3, <3>4
  <2> QED BY <1>5, <1>8, <2>1, <2>2
<1>11. ASSUME Grows
       PROVE  /\ table' \in Seq(Indices) /\ n \in Nat /\ Len(table') = n + 1
              /\ table'[n + 1] = Index(nlrip) /\ \A i \in 1..n : table'[i] = table[i]
              /\ \A i \in 1..(n + 1) : i = n + 1 \/ i \in 1..n
              /\ n + 1 \in 1..(n + 1) /\ \A i \in 1..n : i \in 1..(n + 1)
  <2>1. Index(nlrip) \in Indices
    BY <1>5, <1>11
  <2>2. table' = Append(table, Index(nlrip))
    BY <1>11
  <2>3. table' \in Seq(Indices)
    BY <1>7, <2>1, <2>2, AppendProperties
  <2>4. n \in Nat
    BY <1>7
  <2>5. n + 1 \in 1..(n + 1) /\ \A i \in 1..n : i \in 1..(n + 1)
    <3> HIDE DEF n
    <3> QED BY <2>4
  <2> QED BY <1>7, <2>1, <2>2, <2>3, <2>4, <2>5, Appended
<1>12. Walked'
  <2>1. x.next <= Len(nlri) => x.next \in starts
    <3>1. Len(nlri) \in Nat
      BY StartsAre
    <3>2. ~(Len(nlri) + 1 <= Len(nlri))
      BY <3>1
    <3> QED BY <1>5, <3>2
  <2>2. pc' \in {"attributes", "nlri"} => x.next <= Len(nlri)
    BY <1>6
  <2> QED BY <1>1, <1>2, <1>5, <2>1, <2>2 DEF Walked
<1>13. Block'
  <2>1. table' \in Seq(Indices)
    BY <1>7, <1>10, <1>11
  <2>2. \A i \in 1..Len(table') : \E off \in Passed' : table'[i] = Index(off)
    <3> SUFFICES ASSUME NEW i \in 1..Len(table') PROVE \E off \in Passed' : table'[i] = Index(off)
      OBVIOUS
    <3>1. CASE Stays
      BY <1>7, <1>9, <3>1
    <3>2. CASE Grows
      <4>1. CASE i = n + 1
        BY <1>9, <1>11, <3>2, <4>1
      <4>2. CASE i \in 1..n
        BY <1>7, <1>9, <1>11, <3>2, <4>2
      <4> QED BY <1>11, <3>2, <4>1, <4>2
    <3> QED BY <1>10, <3>1, <3>2
  <2>3. /\ pc' \in {"serialize", "build", "done"} => nlrip' = Len(nlri) + 1
        /\ pc' \in {"serialize", "build"} => table' # <<>>
        /\ pc' = "done" => table' = <<>>
    <3>1. ~(x.next <= Len(nlri)) => x.next = Len(nlri) + 1
      <4>1. \A off \in starts : off <= Len(nlri)
        BY StartIs
      <4> QED BY <1>5, <4>1
    <3> QED BY <1>1, <1>6, <3>1
  <2>4. \A i \in 1..Len(table') : \E off \in Passed' : table'[i] = Index(off)'
    BY <1>3, <2>2
  <2> QED BY <1>2, <2>1, <2>3, <2>4 DEF Block
<1>14. Carried'
  <2>1. /\ \E Y : Chain(txp, Y)
        /\ \A off \in Passed : (\E i \in 1..n : table[i] = Index(off)) \/ Out(off) \in Wires(txp)
        /\ \A w \in Wires(txp) : \E off \in Passed : w = Out(off)
    BY DEF NInv, Carried
  <2>2. \A off \in Passed' : (\E i \in 1..Len(table') : table'[i] = Index(off)) \/ Out(off) \in Wires(txp)
    <3> SUFFICES ASSUME NEW off \in Passed'
                 PROVE  (\E i \in 1..Len(table') : table'[i] = Index(off)) \/ Out(off) \in Wires(txp)
      OBVIOUS
    <3>1. CASE Stays
      BY <1>9, <2>1, <3>1
    <3>2. CASE Grows
      <4>1. CASE off = nlrip
        BY <1>11, <3>2, <4>1
      <4>2. CASE off # nlrip
        <5>1. off \in Passed
          BY <1>9, <4>2
        <5> QED BY <1>11, <2>1, <3>2, <5>1
      <4> QED BY <4>1, <4>2
    <3> QED BY <1>10, <3>1, <3>2
  <2>3. \A w \in Wires(txp) : \E off \in Passed' : w = Out(off)
    BY <1>9, <2>1
  <2> QED BY <1>1, <1>3, <2>1, <2>2, <2>3 DEF Carried
<1>15. Lengths'
  <2> DEFINE a == Len(txp)
             b == Total(Costs(table), Len(table))
             d == Total(Costs(table'), Len(table'))
  <2>1. b \in Nat /\ Numbers(Costs(table), Len(table))
    BY CostsNat
  <2>2. a \in Nat /\ a + b <= nlrip - 1
    <3>1. txp \in Seq(Nat)
      BY DEF NInv, Carried, Chain
    <3> QED BY <3>1 DEF NInv, Lengths
  <2>3. d = b \/ d = b + (1 + c)
    <3>1. CASE Stays
      BY <3>1
    <3>2. CASE Grows
      <4>1. Index(nlrip) \in Indices /\ Octets2(Index(nlrip)) = 1 + c /\ 1 + c \in Nat
        BY <1>5, <3>2
      <4>2. table' = Append(table, Index(nlrip))
        BY <3>2
      <4> QED BY <1>7, <2>1, <4>1, <4>2, CostsAppend
    <3> QED BY <1>10, <3>1, <3>2
  <2> HIDE DEF a, b, d
  <2>4. a + d <= (nlrip + 1 + c) - 1
    BY <1>5, <2>1, <2>2, <2>3
  <2>5. Len(txp') + Total(Costs(table'), Len(table')) <= nlrip' - 1
    BY <1>1, <1>5, <2>4 DEF a, d
  <2> QED BY <2>5 DEF Lengths, Costs
<1> QED BY <1>12, <1>13, <1>14, <1>15 DEF NInv

(* The first of the table is taken off.                                    *)
LEMMA CostsTail ==
  ASSUME NEW s \in Seq(Indices), s # <<>>, Numbers(Costs(s), Len(s))
  PROVE  LET t == Tail(s)
         IN  /\ t \in Seq(Indices) /\ Len(t) = Len(s) - 1 /\ Len(s) \in Nat /\ Len(s) > 0
             /\ \A i \in 1..Len(t) : t[i] = s[i + 1]
             /\ Total(Costs(t), Len(t)) = Total(Costs(s), Len(s)) - Octets2(s[1])
<1> DEFINE t == Tail(s)
           n == Len(s)
<1>1. n \in Nat /\ n > 0 /\ DOMAIN s = 1..n
  OBVIOUS
<1>2. t \in Seq(Indices) /\ Len(t) = n - 1 /\ DOMAIN t = 1..(n - 1)
  OBVIOUS
<1>3. \A i \in 1..(n - 1) : t[i] = s[i + 1]
  OBVIOUS
<1> HIDE DEF t, n
<1>4. n - 1 \in Nat /\ 1 + (n - 1) = n /\ 0 + (n - 1) = n - 1 /\ 1 \in 1..n
      /\ \A i \in 1..(n - 1) : 0 + i = i /\ 1 + i = i + 1 /\ i + 1 \in 1..n
  BY <1>1
<1>5. Numbers(Costs(s), n)
  BY DEF n
<1>6. \A i \in 1..n : Costs(s)[i] = Octets2(s[i])
  BY <1>1 DEF Costs
<1>7. \A i \in 1..(n - 1) : Costs(t)[i] = Octets2(t[i])
  BY <1>2 DEF Costs
<1>8. \A i \in 1..(n - 1) : Costs(t)[0 + i] = Costs(s)[1 + i]
  <2> SUFFICES ASSUME NEW i \in 1..(n - 1) PROVE Costs(t)[0 + i] = Costs(s)[1 + i]
    OBVIOUS
  <2>1. 0 + i = i /\ 1 + i = i + 1 /\ i + 1 \in 1..n
    BY <1>4
  <2>2. Costs(t)[i] = Costs(s)[i + 1]
    BY <1>3, <1>6, <1>7, <2>1
  <2> QED BY <2>1, <2>2
<1>9. Shifted(Costs(s), 1, Costs(t), 0, n - 1)
  BY <1>8 DEF Shifted
<1>10. Numbers(Costs(t), n - 1)
  <2> SUFFICES ASSUME NEW i \in 1..(n - 1) PROVE Costs(t)[i] \in Nat
    BY DEF Numbers
  <2>1. 0 + i = i /\ 1 + i = i + 1 /\ i + 1 \in 1..n
    BY <1>4
  <2>2. Costs(t)[i] = Costs(s)[i + 1]
    BY <1>8, <2>1
  <2>3. Costs(s)[i + 1] \in Nat
    BY <1>5, <2>1 DEF Numbers
  <2> QED BY <2>2, <2>3
<1>11. Numbers(Costs(s), 1 + (n - 1)) /\ Numbers(Costs(t), 0 + (n - 1))
  BY <1>4, <1>5, <1>10
<1>12. Total(Costs(t), 0 + (n - 1)) - Total(Costs(t), 0)
         = Total(Costs(s), 1 + (n - 1)) - Total(Costs(s), 1)
  BY <1>4, <1>9, <1>11, TotalShifted
<1>13. Total(Costs(t), 0) = 0 /\ Total(Costs(t), n - 1) \in Nat
  <2>1. Numbers(Costs(t), 0)
    BY DEF Numbers
  <2> QED BY <1>4, <1>10, <2>1, TotalStep
<1>14. Total(Costs(s), 1) = Octets2(s[1]) /\ Total(Costs(s), 1) \in Nat /\ Total(Costs(s), n) \in Nat
  <2>1. Total(Costs(s), 1) = Total(Costs(s), 1 - 1) + Costs(s)[1] /\ Total(Costs(s), 1) \in Nat
        /\ Total(Costs(s), n) \in Nat
    BY <1>1, <1>4, <1>5, TotalStep
  <2>2. Numbers(Costs(s), 0)
    BY DEF Numbers
  <2>3. Total(Costs(s), 0) = 0
    BY <2>2, TotalStep
  <2>4. 1 - 1 = 0 /\ Costs(s)[1] \in Nat
    BY <1>4, <1>5 DEF Numbers
  <2>5. Costs(s)[1] = Octets2(s[1])
    BY <1>4, <1>6
  <2> QED BY <2>1, <2>3, <2>4, <2>5
<1>15. Total(Costs(t), n - 1) = Total(Costs(s), n) - Octets2(s[1])
  BY <1>4, <1>12, <1>13, <1>14
<1> QED BY <1>1, <1>2, <1>3, <1>15 DEF t, n

(* Build keeps NInv: the prefix leaves the table for the field that is     *)
(* written.                                                                *)
LEMMA BuildStep == Parsed /\ NInv /\ Build => NInv'
<1> SUFFICES ASSUME Parsed, NInv, Build PROVE NInv'
  OBVIOUS
<1> DEFINE n == Len(table)
<1>1. /\ pc = "build" /\ message' = message /\ nlrip' = nlrip /\ table' = Tail(table)
      /\ pc' = IF n > 1 THEN pc ELSE "done"
  BY DEF Build
<1>2. nlri' = nlri /\ starts' = starts
  BY <1>1 DEF nlri, starts
<1>3. /\ Passed' = Passed
      /\ \A off : Index(off)' = Index(off) /\ Out(off)' = Out(off)
  BY <1>1, <1>2 DEF Passed, Index, Out
<1>4. /\ table \in Seq(Indices) /\ table # <<>> /\ nlrip = Len(nlri) + 1
      /\ \A i \in 1..n : \E off \in Passed : table[i] = Index(off)
  BY <1>1 DEF NInv, Block
<1>5. Numbers(Costs(table), n) /\ Total(Costs(table), n) \in Nat
  BY CostsNat
<1>6. /\ table' \in Seq(Indices) /\ Len(table') = n - 1 /\ n \in Nat /\ n > 0
      /\ \A i \in 1..Len(table') : table'[i] = table[i + 1]
      /\ Total(Costs(table'), Len(table')) = Total(Costs(table), n) - Octets2(table[1])
  BY <1>1, <1>4, <1>5, CostsTail
<1> HIDE DEF n
<1>7. 1 \in 1..n /\ \A i \in 1..(n - 1) : i + 1 \in 1..n
  BY <1>6
<1>8. \A i \in 1..n : i = 1 \/ (i - 1 \in 1..(n - 1) /\ (i - 1) + 1 = i)
  BY <1>6
<1>9. PICK first \in Passed : table[1] = Index(first)
  BY <1>4, <1>7
<1> DEFINE w == Wire(nlri, first)
           out == Out(first)
           c == CHUNKSIZE(nlri[first])
<1>10. first \in starts /\ nlri[first] <= Longest
  BY DEF Passed
<1>11. /\ IsWire(w) /\ w[1] = nlri[first] /\ Pair(w) = nlri_iter(nlri, first).pair
       /\ c \in Nat /\ Octets2(table[1]) = 1 + c
  BY <1>9, <1>10, StartIs
<1>12. IsWire(out) /\ out[1] = nlri[first]
  BY <1>11, ClearedWire, Zenon DEF Out
<1>13. txp' = txp \o out
  <2>1. Head(table) = encode(Pair(w))
    <3>1. Head(table) = table[1]
      BY <1>4
    <3>2. Index(first) = encode(nlri_iter(nlri, first).pair)
      BY Zenon DEF Index
    <3> QED BY <1>9, <1>11, <3>1, <3>2
  <2>2. \E y \in decode(Head(table)) : txp' = txp \o build_nlri(y)
    BY DEF Build
  <2>3. \E y \in decode(encode(Pair(w))) : txp' = txp \o build_nlri(y)
    BY <2>1, <2>2
  <2>4. \A y \in decode(encode(Pair(w))) : build_nlri(y) = Cleared(w)
    BY <1>11, Built
  <2> QED BY <2>3, <2>4, Zenon DEF Out
<1> HIDE DEF w, out, c
<1>14. PICK S : Chain(txp, S)
  BY DEF NInv, Carried
<1>15. /\ \E Y : Chain(txp', Y)
       /\ Wires(txp') = Wires(txp) \cup {out}
       /\ Len(txp') = Len(txp) + 1 + c
  <2>1. /\ \E Y : Chain(txp \o out, Y)
        /\ Wires(txp \o out) = Wires(txp) \cup {out}
        /\ Len(txp \o out) = Len(txp) + 1 + CHUNKSIZE(out[1])
    BY <1>12, <1>14, WiresAppend
  <2> QED BY <1>12, <1>13, <2>1 DEF c
(* Another prefix with the same index comes out the same.                  *)
<1>16. ASSUME NEW off \in Passed, Index(off) = Index(first) PROVE Out(off) = out
  <2> DEFINE v == Wire(nlri, off)
  <2>1. off \in starts
    BY DEF Passed
  <2>2. IsWire(v) /\ Pair(v) = nlri_iter(nlri, off).pair
    BY <2>1, StartIs
  <2>3. encode(Pair(v)) = encode(Pair(w))
    <3>1. /\ Index(off) = encode(nlri_iter(nlri, off).pair)
          /\ Index(first) = encode(nlri_iter(nlri, first).pair)
      BY Zenon DEF Index
    <3> HIDE DEF v
    <3> QED BY <1>11, <1>16, <2>2, <3>1
  <2> HIDE DEF v
  <2>4. \E y : y \in decode(encode(Pair(w)))
    <3> DEFINE ref == encode(Pair(w))
               l == Max({k \in 0..Width : Pow2(k) <= ref})
               A == IF l = 0 THEN {0, ref} ELSE {(ref * Pow2(Width - l)) % Pow2(Width)}
    <3>1. decode(ref) = {[length |-> l, address |-> a] : a \in A}
      BY Zenon DEF decode
    <3> HIDE DEF ref, l
    <3>2. \E a : a \in A
      OBVIOUS
    <3> HIDE DEF A
    <3> QED BY <3>1, <3>2 DEF ref
  <2>5. PICK y : y \in decode(encode(Pair(w)))
    BY <2>4
  <2>6. y \in decode(encode(Pair(v)))
    BY <2>3, <2>5
  <2>7. build_nlri(y) = Cleared(w)
    BY <1>11, <2>5, Built
  <2>8. build_nlri(y) = Cleared(v)
    BY <2>2, <2>6, Built
  <2> QED BY <2>7, <2>8, Zenon DEF Out, out, v, w
<1>17. Walked'
  BY <1>1, <1>2, <1>4 DEF NInv, Walked
<1>18. Block'
  <2>1. \A i \in 1..Len(table') : \E off \in Passed : table'[i] = Index(off)
    BY <1>4, <1>6, <1>7
  <2>2. pc' \in {"serialize", "build"} => table' # <<>>
    <3>1. pc' \in {"serialize", "build"} => n > 1
      BY <1>1
    <3>2. table' = <<>> => n - 1 = 0
      BY <1>6
    <3> QED BY <1>6, <3>1, <3>2
  <2>3. pc' = "done" => table' = <<>>
    <3>1. pc' = "done" => ~(n > 1)
      BY <1>1
    <3>2. n - 1 = 0 => table' = <<>>
      BY <1>6
    <3> QED BY <1>6, <3>1, <3>2
  <2>4. nlrip' = Len(nlri) + 1
    BY <1>1, <1>4
  <2>5. \A i \in 1..Len(table') : \E off \in Passed' : table'[i] = Index(off)'
    BY <1>3, <2>1
  <2> QED BY <1>2, <1>6, <2>2, <2>3, <2>4, <2>5 DEF Block
<1>19. Carried'
  <2>1. /\ \A off \in Passed : (\E i \in 1..n : table[i] = Index(off)) \/ Out(off) \in Wires(txp)
        /\ \A x \in Wires(txp) : \E off \in Passed : x = Out(off)
    BY DEF NInv, Carried, n
  <2>2. ASSUME NEW off \in Passed
        PROVE  (\E i \in 1..Len(table') : table'[i] = Index(off)) \/ Out(off) \in Wires(txp')
    <3>1. CASE Out(off) \in Wires(txp)
      BY <1>15, <3>1
    <3>2. CASE \E i \in 1..n : table[i] = Index(off)
      <4>1. PICK i \in 1..n : table[i] = Index(off)
        BY <3>2
      <4>2. CASE i = 1
        <5>1. Out(off) = out
          BY <1>9, <1>16, <4>1, <4>2
        <5> QED BY <1>15, <5>1
      <4>3. CASE i # 1
        <5>1. i - 1 \in 1..Len(table') /\ table'[i - 1] = table[i]
          BY <1>6, <1>8, <4>3
        <5> QED BY <4>1, <5>1
      <4> QED BY <4>2, <4>3
    <3> QED BY <2>1, <3>1, <3>2
  <2>3. \A x \in Wires(txp') : \E off \in Passed : x = Out(off)
    BY <1>15, <2>1 DEF out
  <2>4. \A off \in Passed' : \/ \E i \in 1..Len(table') : table'[i] = Index(off)'
                             \/ Out(off)' \in Wires(txp')
    BY <1>3, <2>2
  <2>5. \A x \in Wires(txp') : \E off \in Passed' : x = Out(off)'
    BY <1>3, <2>3
  <2> QED BY <1>15, <2>4, <2>5 DEF Carried
<1>20. Lengths'
  <2> DEFINE a == Len(txp)
             b == Total(Costs(table), n)
             d == Total(Costs(table'), Len(table'))
  <2>1. a \in Nat /\ nlrip \in Nat
    <3>1. txp \in Seq(Nat)
      BY <1>14 DEF Chain
    <3>2. Len(nlri) \in Nat
      BY StartsAre
    <3> QED BY <1>4, <3>1, <3>2
  <2>2. a + b <= nlrip - 1
    BY DEF NInv, Lengths, n
  <2>3. d = b - (1 + c)
    BY <1>6, <1>11
  <2>4. Len(txp') = a + 1 + c
    BY <1>15
  <2>5. b \in Nat
    BY <1>5
  <2> HIDE DEF a, b, d
  <2>6. Len(txp') + d <= nlrip - 1
    BY <1>11, <2>1, <2>2, <2>3, <2>4, <2>5
  <2> QED BY <1>1, <2>6 DEF Lengths, Costs, d
<1> QED BY <1>17, <1>18, <1>19, <1>20 DEF NInv

(* Every step keeps NInv.                                                  *)
LEMMA NInvStep == Parsed /\ NInv /\ [Next]_vars => NInv'
BY Idling, IdleStep, ParseStep, BuildStep

(* NInv is an invariant, with SInv.                                        *)
LEMMA NInvAlways == Spec => [](SInv /\ NInv)
<1>1. Init => SInv /\ NInv
  BY SInvInit, NInvInit DEF SInv
<1>2. SInv /\ NInv /\ [Next]_vars => (SInv /\ NInv)'
  BY SInvStep, NInvStep DEF SInv
<1> QED BY <1>1, <1>2, PTL DEF Spec

(* The cursors, the registers and what is written keep their types: an     *)
(* index into RIB is never 0 and always below its size, and path_length    *)
(* fits its octet.                                                         *)
THEOREM TypeCorrect == Spec => []TypeOK
<1>1. SInv /\ NInv => TypeOK
  <2> SUFFICES ASSUME SInv, NInv PROVE TypeOK
    OBVIOUS
  <2>1. Places /\ Tiebreak /\ Serialized /\ Parsed
    BY DEF SInv, Parsed
  <2>2. group \in Group /\ pc \in PC /\ p \in 1..(Len(attributes) + 1)
    BY <2>1 DEF Places
  <2>3. DOMAIN tiebreak = {"origin", "path_length", "med", "local_pref"}
        /\ tiebreak.path_length \in 0..(UINT8 - 1)
    BY <2>1 DEF Tiebreak, Registers
  <2>4. nlrip \in 1..(Len(message.nlri) + 1)
    <3>1. Len(nlri) \in Nat /\ nlrip \in starts \cup {Len(nlri) + 1}
      BY <2>1, StartsAre DEF NInv, Walked
    <3>2. \A off \in starts : off \in 1..Len(nlri)
      BY <2>1, StartIs
    <3>3. nlrip \in 1..Len(nlri) \/ nlrip = Len(nlri) + 1
      BY <3>1, <3>2
    <3>4. nlrip \in 1..(Len(nlri) + 1)
      BY <3>1, <3>3
    <3> QED BY <3>4 DEF nlri
  <2>5. table \in Seq(1..(Pow2(Longest + 1) - 1))
    BY DEF NInv, Block, Indices
  <2>6. r \in 1..(Len(attributes) + 1) /\ call \in 0..4
    BY <2>1 DEF Serialized
  <2>7. Len(Program(group)) = 4
    BY <2>2, Serializers DEF Calling
  <2>8. txp \in Seq(Nat)
    BY DEF NInv, Carried, Chain
  <2>9. call \in 0..Len(Program(group))
    BY <2>6, <2>7
  <2> QED BY <2>2, <2>3, <2>4, <2>5, <2>6, <2>8, <2>9, Zenon DEF TypeOK
<1> QED BY <1>1, NInvAlways, PTL

(* The prefixes of the message.                                            *)
LEMMA KeptIs ==
  ASSUME Parsed
  PROVE  /\ Wires(nlri) = {Wire(nlri, off) : off \in starts}
         /\ \A w \in kept : \E off \in starts : w = Wire(nlri, off) /\ nlri[off] <= Longest
         /\ \A off \in starts : nlri[off] <= Longest => Wire(nlri, off) \in kept
<1>1. Wires(nlri) = {Wire(nlri, off) : off \in starts}
  BY StartsAre, ChainWires
<1>2. \A off \in starts : Wire(nlri, off)[1] = nlri[off]
  BY StartIs
<1>3. kept = {w \in Wires(nlri) : w[1] <= Longest}
  BY Zenon DEF kept, nlri
<1> QED BY <1>1, <1>2, <1>3

(* Two prefixes that are kept share an index just when they are the same   *)
(* prefix: of one length and alike in that many bits.                      *)
THEOREM IndexStandsForPrefix == Spec => []IndexIsPrefix
<1>1. SInv => IndexIsPrefix
  <2> SUFFICES ASSUME Parsed, NEW v \in kept, NEW w \in kept
               PROVE  Same(v, w) <=> encode(nlri_iter(v, 1).pair) = encode(nlri_iter(w, 1).pair)
    BY DEF IndexIsPrefix, SInv
  <2>1. IsWire(v) /\ IsWire(w)
    BY KeptIs, StartIs
  <2>2. Same(v, w) <=> encode(Pair(v)) = encode(Pair(w))
    BY <2>1, IndexIs
  <2> QED BY <2>2 DEF Pair
<1> QED BY <1>1, SInvAlways, PTL

(* The prefixes that come out of a message are those that went in, the     *)
(* over-long ones left out and the bits past the length cleared.           *)
THEOREM CameThrough == Spec => []PrefixesKept
<1>1. SInv /\ NInv => PrefixesKept
  <2> SUFFICES ASSUME Parsed, NInv, pc = "done"
               PROVE  Wires(txp) = {Cleared(w) : w \in kept}
    BY DEF PrefixesKept, SInv
  <2>1. table = <<>> /\ nlrip = Len(nlri) + 1 /\ Carried
    BY DEF NInv, Block
  <2>2. \A off \in starts : off < nlrip
    <3> SUFFICES ASSUME NEW off \in starts PROVE off < nlrip
      OBVIOUS
    <3>1. off \in Nat /\ off \in 1..Len(nlri) /\ Len(nlri) \in Nat
      BY StartIs, StartsAre
    <3> QED BY <2>1, <3>1
  <2>3. Passed = {off \in starts : nlri[off] <= Longest}
    BY <2>2 DEF Passed
  <2>4. \A off \in Passed : Out(off) \in Wires(txp)
    <3>1. Len(table) = 0
      BY <2>1
    <3>2. \A off \in Passed : ~ \E i \in 1..Len(table) : table[i] = Index(off)
      BY <3>1
    <3> QED BY <2>1, <3>2 DEF Carried
  <2>5. \A x \in Wires(txp) : \E off \in Passed : x = Out(off)
    BY <2>1 DEF Carried
  <2>6. \A off \in Passed : Wire(nlri, off) \in kept /\ Out(off) = Cleared(Wire(nlri, off))
    BY <2>3, KeptIs DEF Out
  <2>7. \A w \in kept : \E off \in Passed : Cleared(w) = Out(off)
    <3> SUFFICES ASSUME NEW w \in kept PROVE \E off \in Passed : Cleared(w) = Out(off)
      OBVIOUS
    <3>1. PICK off \in starts : w = Wire(nlri, off) /\ nlri[off] <= Longest
      BY KeptIs
    <3>2. off \in Passed
      BY <2>3, <3>1
    <3> QED BY <2>6, <3>1, <3>2
  <2>8. ASSUME NEW x \in Wires(txp) PROVE \E w \in kept : x = Cleared(w)
    BY <2>5, <2>6
  <2>9. ASSUME NEW w \in kept PROVE Cleared(w) \in Wires(txp)
    BY <2>4, <2>7
  <2> QED BY <2>8, <2>9
<1> QED BY <1>1, NInvAlways, PTL

-----------------------------------------------------------------------------
(* The attributes written take no more octets than the ones the cursor has *)
(* passed, but for what a serializer adds.                                 *)

(* A sum is as large as another's, and by the slack at k larger.           *)
Below(f, g, n, k, d) == \A i \in 1..n : f[i] <= g[i] /\ (i = k => f[i] + d <= g[i])
LEMMA TotalBelow ==
  ASSUME NEW f, NEW g, NEW n \in Nat, NEW k \in Nat, NEW d \in Nat,
         Numbers(f, n), Numbers(g, n), Below(f, g, n, k, d)
  PROVE  Total(f, n) <= Total(g, n) /\ (k \in 1..n => Total(f, n) + d <= Total(g, n))
<1> DEFINE Gap(j) == k \in 1..j => Total(f, j) + d <= Total(g, j)
           T == {j \in 0..n : ~(Total(f, j) <= Total(g, j) /\ Gap(j))}
<1>1. \A j \in 0..n : Total(f, j) \in Nat /\ Total(g, j) \in Nat
  <2> SUFFICES ASSUME NEW j \in 0..n PROVE Total(f, j) \in Nat /\ Total(g, j) \in Nat
    OBVIOUS
  <2>1. Numbers(f, j) /\ Numbers(g, j) /\ j \in Nat
    BY DEF Numbers
  <2> QED BY <2>1, TotalStep
<1>2. Total(f, 0) = 0 /\ Total(g, 0) = 0
  <2>1. Numbers(f, 0) /\ Numbers(g, 0)
    BY DEF Numbers
  <2> QED BY <2>1, TotalStep
<1>3. Descends(T)
  <2> SUFFICES ASSUME NEW j \in T PROVE \E y \in T : y < j
    BY DEF Descends
  <2>1. j # 0
    BY <1>2
  <2>2. j \in 1..n /\ j - 1 \in 0..n /\ j - 1 < j
    BY <2>1
  <2>3. Total(f, j) = Total(f, j - 1) + f[j] /\ Total(g, j) = Total(g, j - 1) + g[j]
    BY <2>2, TotalStep
  <2>4. f[j] \in Nat /\ g[j] \in Nat /\ f[j] <= g[j] /\ (j = k => f[j] + d <= g[j])
    BY <2>2 DEF Numbers, Below
  <2>5. j - 1 \in T
    <3> SUFFICES ASSUME Total(f, j - 1) <= Total(g, j - 1), Gap(j - 1)
                 PROVE  FALSE
      BY <2>2
    <3> DEFINE x == Total(f, j - 1)
               y == Total(g, j - 1)
    <3>1. x \in Nat /\ y \in Nat
      BY <1>1, <2>2
    <3>2. x <= y /\ (k \in 1..(j - 1) => x + d <= y)
      OBVIOUS
    <3>3. Total(f, j) = x + f[j] /\ Total(g, j) = y + g[j]
      BY <2>3
    <3>4. ~(Total(f, j) <= Total(g, j) /\ (k \in 1..j => Total(f, j) + d <= Total(g, j)))
      OBVIOUS
    <3> HIDE DEF x, y, T, Gap
    <3>5. x + f[j] <= y + g[j]
      BY <2>4, <3>1, <3>2
    <3>6. ASSUME k \in 1..j PROVE (x + f[j]) + d <= y + g[j]
      <4>1. CASE k = j
        BY <2>4, <3>1, <3>2, <4>1
      <4>2. CASE k # j
        <5>1. k \in 1..(j - 1)
          BY <2>2, <3>6, <4>2
        <5> QED BY <2>4, <3>1, <3>2, <5>1
      <4> QED BY <4>1, <4>2
    <3> QED BY <3>3, <3>4, <3>5, <3>6
  <2> QED BY <2>2, <2>5
<1>4. T \subseteq Nat /\ n \in 0..n
  OBVIOUS
<1> HIDE DEF T
<1>5. T = {}
  BY <1>3, <1>4, Nowhere
<1> QED BY <1>4, <1>5 DEF T

(* A sum grows.                                                            *)
LEMMA TotalGrows ==
  ASSUME NEW f, NEW n \in Nat, Numbers(f, n), NEW a \in 0..n, NEW b \in a..n
  PROVE  Total(f, a) <= Total(f, b) /\ Total(f, a) \in Nat /\ Total(f, b) \in Nat
<1> DEFINE T == {j \in a..n : ~(Total(f, a) <= Total(f, j))}
<1>1. \A j \in 0..n : Total(f, j) \in Nat
  <2> SUFFICES ASSUME NEW j \in 0..n PROVE Total(f, j) \in Nat
    OBVIOUS
  <2>1. Numbers(f, j) /\ j \in Nat
    BY DEF Numbers
  <2> QED BY <2>1, TotalStep
<1>2. Total(f, a) \in Nat
  BY <1>1
<1>3. Descends(T)
  <2> SUFFICES ASSUME NEW j \in T PROVE \E y \in T : y < j
    BY DEF Descends
  <2>1. j # a
    BY <1>2
  <2>2. j \in 1..n /\ j - 1 \in a..n /\ j - 1 \in 0..n /\ j - 1 < j /\ j \in 0..n
    BY <2>1
  <2>3. Total(f, j) = Total(f, j - 1) + f[j] /\ f[j] \in Nat
    BY <2>2, TotalStep DEF Numbers
  <2>4. Total(f, j - 1) \in Nat
    BY <1>1, <2>2
  <2>5. ~(Total(f, a) <= Total(f, j))
    OBVIOUS
  <2>6. ~(Total(f, a) <= Total(f, j - 1))
    BY <1>2, <2>3, <2>4, <2>5
  <2> QED BY <2>2, <2>6
<1>4. T \subseteq Nat
  OBVIOUS
<1> HIDE DEF T
<1>5. T = {}
  BY <1>3, <1>4, Nowhere
<1> QED BY <1>1, <1>5 DEF T

Weights ==
  [i \in 1..Len(attributes) |->
     IF group = "ibgp" /\ attributes[i].type = LOCAL_PREF THEN 0
     ELSE HeadOctets(Size(attributes[i].value) >= UINT8) + Size(attributes[i].value)]
Received ==
  [i \in 1..Len(attributes) |->
     HeadOctets(Size(attributes[i].value) >= UINT8) + Size(attributes[i].value)]
Costs8(s) == [i \in DOMAIN s |-> HeadOctets(s[i].extended) + s[i].length]
Empty == group # "copy" /\ \E a \in Origins(attributes) : a.value = <<>>
Spill == IF Empty THEN 1 ELSE 0   \* what set() writes for an empty ORIGIN
Added == IF group = "ebgp" /\ call >= 2 THEN 5 ELSE IF group = "ibgp" /\ call = 4 THEN 7 ELSE 0
Extra == Added + IF call >= 1 THEN Spill ELSE 0
Budget == WrittenOctets(q) <= Total(Weights, r - 1) + Extra

(* The octets of the attributes received, and what is allowed for each,    *)
(* are numbers.                                                            *)
LEMMA WeightsNat ==
  ASSUME Lists(attributes)
  PROVE  /\ Len(attributes) \in Nat /\ Numbers(Weights, Len(attributes)) /\ Numbers(Received, Len(attributes))
         /\ \A i \in 1..Len(attributes) : Weights[i] <= Received[i]
         /\ ReceivedOctets(attributes) = Total(Received, Len(attributes))
<1> DEFINE n == Len(attributes)
           cost(i) == HeadOctets(Size(attributes[i].value) >= UINT8) + Size(attributes[i].value)
<1>1. n \in Nat /\ DOMAIN attributes = 1..n
  BY DEF Lists
<1>2. ASSUME NEW i \in 1..n
      PROVE  /\ Received[i] \in Nat /\ Received[i] = cost(i)
             /\ Weights[i] = IF group = "ibgp" /\ attributes[i].type = LOCAL_PREF THEN 0 ELSE cost(i)
  <2>1. attributes[i].value \in Seq(Items)
    BY DEF Lists
  <2>2. Size(attributes[i].value) \in Nat
    BY <2>1, SizesNat
  <2>3. HeadOctets(Size(attributes[i].value) >= UINT8) \in {3, 4}
    BY DEF HeadOctets
  <2>4. cost(i) \in Nat
    BY <2>2, <2>3
  <2>5. Received[i] = cost(i)
    BY DEF Received
  <2>6. Weights[i] = IF group = "ibgp" /\ attributes[i].type = LOCAL_PREF THEN 0 ELSE cost(i)
    BY DEF Weights
  <2> QED BY <2>4, <2>5, <2>6
<1> HIDE DEF cost
<1>3. \A i \in 1..n : Weights[i] \in Nat /\ Weights[i] <= Received[i] /\ Received[i] \in Nat
  BY <1>2
<1>4. ReceivedOctets(attributes) = Total(Received, n)
  BY <1>1 DEF ReceivedOctets, Received
<1> QED BY <1>1, <1>3, <1>4 DEF Numbers

(* One attribute more is written.                                          *)
LEMMA WrittenMore ==
  ASSUME NEW s \in Seq(Outs), NEW x \in Outs
  PROVE  /\ WrittenOctets(s) \in Nat /\ HeadOctets(x.extended) \in {3, 4} /\ x.length \in Nat
         /\ WrittenOctets(Append(s, x)) = WrittenOctets(s) + (HeadOctets(x.extended) + x.length)
<1> DEFINE t == Append(s, x)
           n == Len(s)
           cost(y) == HeadOctets(y.extended) + y.length
<1>1. /\ n \in Nat /\ DOMAIN s = 1..n /\ DOMAIN t = 1..(n + 1) /\ Len(t) = n + 1
      /\ t[n + 1] = x /\ \A i \in 1..n : t[i] = s[i]
      /\ \A i \in 1..(n + 1) : i = n + 1 \/ i \in 1..n
  BY Appended
<1>2. \A y \in Outs : HeadOctets(y.extended) \in {3, 4} /\ y.length \in Nat
  BY DEF Outs, HeadOctets
<1>3. \A y \in Outs : cost(y) \in Nat
  BY <1>2
<1>4. \A i \in 1..n : s[i] \in Outs
  BY <1>1
<1>5. /\ \A i \in 1..n : Costs8(s)[i] = cost(s[i])
      /\ \A i \in 1..(n + 1) : Costs8(t)[i] = cost(t[i])
  BY <1>1 DEF Costs8
<1> HIDE DEF t, n, cost, Outs
<1>6. n + 1 \in 1..(n + 1) /\ (n + 1) - 1 = n /\ n + 1 \in Nat /\ \A i \in 1..n : i \in 1..(n + 1)
  BY <1>1
<1>7. Numbers(Costs8(s), n)
  BY <1>3, <1>4, <1>5 DEF Numbers
<1>8. \A i \in 1..n : Costs8(t)[i] = Costs8(s)[i]
  BY <1>1, <1>5, <1>6
<1>9. Costs8(t)[n + 1] = cost(x)
  BY <1>1, <1>5, <1>6
<1>10. Numbers(Costs8(t), n + 1)
  BY <1>1, <1>3, <1>7, <1>8, <1>9 DEF Numbers
<1>11. Total(Costs8(t), n) = Total(Costs8(s), n)
  BY <1>1, <1>7, <1>8, TotalAlike DEF AlikeTo
<1>12. Total(Costs8(t), n + 1) = Total(Costs8(t), (n + 1) - 1) + Costs8(t)[n + 1]
  BY <1>6, <1>10, TotalStep
<1>13. Total(Costs8(s), n) \in Nat
  BY <1>1, <1>7, TotalStep
<1>14. WrittenOctets(s) = Total(Costs8(s), n)
  BY DEF WrittenOctets, Costs8, n
<1>15. WrittenOctets(t) = Total(Costs8(t), n + 1)
  BY <1>1 DEF WrittenOctets, Costs8
<1> QED BY <1>2, <1>6, <1>9, <1>11, <1>12, <1>13, <1>14, <1>15 DEF t, cost

(* A value of octets that is not empty has at least one.                   *)
LEMMA OctetsCount ==
  ASSUME NEW s \in Seq(Items), s # <<>>, IsOctets(s)
  PROVE  Size(s) >= 1
<1> DEFINE n == Len(s)
           f == Sizes(s)
<1>1. n \in Nat /\ n >= 1 /\ DOMAIN s = 1..n
  BY DEF Items
<1>2. \A i \in 1..n : f[i] = 1
  BY <1>1 DEF Sizes, IsOctets
<1>3. Size(s) = Total(f, n)
  BY DEF Size, Sizes
<1> HIDE DEF f, n
<1>4. Numbers(f, n)
  BY <1>2 DEF Numbers
<1>5. 1 \in 0..n /\ n \in 1..n /\ 0 \in 0..n /\ 1 - 1 = 0 /\ 1 \in 1..n
  BY <1>1
<1>6. Total(f, 1) <= Total(f, n) /\ Total(f, 1) \in Nat /\ Total(f, n) \in Nat
  BY <1>1, <1>4, <1>5, TotalGrows
<1>7. Total(f, 1) = Total(f, 1 - 1) + f[1] /\ Total(f, 0) = 0
  <2>1. Numbers(f, 0) /\ 0 \in Nat
    BY DEF Numbers
  <2>2. Total(f, 0) = 0
    BY <2>1, TotalStep
  <2>3. Total(f, 1) = Total(f, 1 - 1) + f[1]
    BY <1>1, <1>4, <1>5, TotalStep
  <2> QED BY <2>2, <2>3
<1>8. Total(f, 1) = 1
  BY <1>2, <1>5, <1>7
<1> QED BY <1>3, <1>6, <1>8

(* Budget holds at the start.                                              *)
LEMMA BudgetInit == Init /\ Parsed => Budget
<1> SUFFICES ASSUME Init, Parsed PROVE Budget
  OBVIOUS
<1>1. q = <<>> /\ r = 1 /\ call = 0
  BY DEF Init
<1>2. Lists(attributes)
  BY MessageIs DEF Parsed, Places, attributes
<1>3. Numbers(Costs8(<<>>), 0) /\ Numbers(Weights, 0)
  BY DEF Numbers
<1>4. Total(Costs8(<<>>), 0) = 0 /\ Total(Weights, 0) = 0
  BY <1>3, TotalStep
<1>5. WrittenOctets(q) = 0
  BY <1>1, <1>4 DEF WrittenOctets, Costs8
<1>6. Extra = 0
  BY <1>1 DEF Extra, Added
<1> QED BY <1>1, <1>4, <1>5, <1>6 DEF Budget

(* Every step keeps Budget: a call writes no more than what it passes      *)
(* allows.                                                                 *)
LEMMA BudgetStep == Parsed /\ Serialized /\ Budget /\ [Next]_vars => Budget'
<1> SUFFICES ASSUME Parsed, Serialized, Budget, [Next]_vars PROVE Budget'
  OBVIOUS
<1>1. CASE Rests
  <2>1. attributes' = attributes /\ group' = group /\ r' = r /\ call' = call /\ q' = q
    BY <1>1 DEF Rests, attributes
  <2> QED BY <2>1 DEF Budget, Weights, Extra, Added, Spill, Empty, Origins
<1>2. CASE Serves
  <2> DEFINE n == Len(attributes)
             ptr == found.attr_ptr
  <2>1. Advances
    BY <1>2 DEF Serves, Skips, Takes, Puts, Sets
  <2>2. pc = "serialize" /\ attributes' = attributes /\ group' = group /\ call' = call + 1
    BY <2>1 DEF Advances, attributes
  <2>3. /\ call + 1 \in 1..4 /\ Lists(attributes)
        /\ Got(attributes, r, Want, found)
        /\ ptr # 0 => /\ ptr \in 1..n /\ attributes[ptr].type = Want
                      /\ value \in Seq(Items) /\ Size(value) \in Nat
    BY <2>2, CallIs
  <2>4. group \in Group /\ q \in Seq(Outs) /\ r \in 1..(n + 1) /\ call \in 0..4
    BY DEF Parsed, Places, Serialized
  <2>5. /\ n \in Nat /\ Numbers(Weights, n) /\ Weights' = Weights
    BY <2>2, <2>3, WeightsNat DEF Weights
  <2> DEFINE spill == Spill
  <2>19. /\ spill \in {0, 1} /\ Extra = Added + (IF call >= 1 THEN spill ELSE 0) /\ Extra' = Added' + spill
         /\ Added \in {0, 5, 7} /\ Added' \in {0, 5, 7} /\ Added <= Added'
    <3>1. Spill' = Spill /\ Spill \in {0, 1}
      BY <2>2 DEF Spill, Empty, Origins
    <3>2. call' >= 1
      BY <2>2, <2>3, <2>4
    <3>3. Added \in {0, 5, 7} /\ Added' \in {0, 5, 7} /\ Added <= Added'
      BY <2>2, <2>3, <2>4 DEF Added
    <3> QED BY <3>1, <3>2, <3>3 DEF Extra
  <2> HIDE DEF spill
  <2>6. Extra \in Nat /\ Extra' \in Nat /\ Extra <= Extra'
    <3> DEFINE x == Added
               y == Added'
    <3>1. x \in Nat /\ y \in Nat /\ x <= y /\ spill \in {0, 1}
      BY <2>19
    <3>2. Extra = x + (IF call >= 1 THEN spill ELSE 0) /\ Extra' = y + spill
      BY <2>19
    <3> HIDE DEF x, y
    <3> QED BY <3>1, <3>2
  <2> DEFINE a == Total(Weights, r - 1)
             b == Total(Weights, r' - 1)
             o == WrittenOctets(q)
  <2>7. /\ o \in Nat /\ \A x \in Outs : /\ HeadOctets(x.extended) \in {3, 4} /\ x.length \in Nat
                                        /\ WrittenOctets(Append(q, x)) = o + (HeadOctets(x.extended) + x.length)
    <3>1. \E x : x \in Outs
      <4>1. <<>> \in Seq(Items)
        OBVIOUS
      <4> QED BY <4>1, WrittenIs DEF IsWritten
    <3> QED BY <2>4, <3>1, WrittenMore
  <2>8. o <= a + Extra
    BY DEF Budget
  <2>9. (WrittenOctets(q') <= b + Extra') => Budget'
    BY <2>5 DEF Budget
(* The cursor only moves on, and past what was found.                      *)
  <2>10. ASSUME r' \in r..(n + 1) PROVE a \in Nat /\ b \in Nat /\ a <= b
    <3>1. r - 1 \in 0..n /\ r' - 1 \in (r - 1)..n
      <4>1. n \in Nat
        BY <2>5
      <4>2. r \in 1..(n + 1)
        BY <2>4
      <4> DEFINE k == r'
      <4>3. k \in r..(n + 1)
        BY <2>10
      <4> HIDE DEF n, k
      <4>4. r - 1 \in 0..n /\ k - 1 \in (r - 1)..n
        BY <4>1, <4>2, <4>3
      <4> QED BY <4>4 DEF k, n
    <3> QED BY <2>5, <3>1, TotalGrows
  <2>11. Finds => r' \in r..(n + 1)
    BY <2>3 DEF Finds, Got
  <2>12. ASSUME Finds, ptr # 0
         PROVE  /\ ptr \in 1..n /\ Weights[ptr] \in Nat /\ a \in Nat /\ b \in Nat
                /\ a + Weights[ptr] <= b
    <3>1. ptr \in r..n /\ r' = ptr + 1
      BY <2>3, <2>12 DEF Finds, Got
    <3>2. r - 1 \in 0..n /\ ptr - 1 \in (r - 1)..n /\ ptr \in 1..n /\ r' - 1 = ptr
      BY <2>4, <2>5, <3>1
    <3>3. a <= Total(Weights, ptr - 1) /\ a \in Nat /\ Total(Weights, ptr - 1) \in Nat
      BY <2>5, <3>2, TotalGrows
    <3>4. b = Total(Weights, ptr - 1) + Weights[ptr]
      BY <2>5, <3>2, TotalStep
    <3>5. Weights[ptr] \in Nat
      BY <2>5, <3>2 DEF Numbers
    <3> HIDE DEF a, b, ptr
    <3> QED BY <3>2, <3>3, <3>4, <3>5
  <2>13. ASSUME ptr \in 1..n
         PROVE  Weights[ptr] = IF group = "ibgp" /\ attributes[ptr].type = LOCAL_PREF THEN 0
                               ELSE HeadOctets(Size(value) >= UINT8) + Size(value)
    BY <2>13 DEF Weights, value
  <2>14. /\ Calling(Program(group)) /\ Want = Program(group)[call + 1][2] /\ Doing = Program(group)[call + 1][1]
         /\ Doing = "prepend" => group = "ebgp" /\ call + 1 = 2 /\ Want = AS_PATH
         /\ Doing = "set4" => group = "ibgp" /\ call + 1 = 4
         /\ call + 1 = 4 /\ group = "ibgp" => Doing = "set4"
         /\ call + 1 = 1 => Want = ORIGIN
         /\ call + 1 = 2 => Want = AS_PATH
         /\ call + 1 = 3 => Want = NEXT_HOP
    BY <2>3, <2>4, Serializers DEF Want, Doing
  <2>15. CASE Skips
    <3>1. Finds /\ q' = q
      BY <2>15 DEF Skips
    <3>2. a \in Nat /\ b \in Nat /\ a <= b
      BY <2>10, <2>11, <3>1
    <3> HIDE DEF a, b, o
    <3>3. o <= b + Extra'
      <4>1. o \in Nat
        BY <2>7
      <4> DEFINE e == Extra'
      <4> HIDE DEF e
      <4>2. Extra \in Nat /\ e \in Nat /\ Extra <= e
        BY <2>6 DEF e
      <4> HIDE DEF Extra
      <4>3. o <= b + e
        BY <2>8, <3>2, <4>1, <4>2
      <4> QED BY <4>3 DEF e
    <3> QED BY <2>9, <3>1, <3>3 DEF o
  <2>16. ASSUME NEW x \in Outs, Takes(x) PROVE Budget'
    <3>1. Finds /\ ptr # 0 /\ q' = Append(q, x) /\ Doing \in {"set", "copy"}
      BY <2>16 DEF Takes
    <3>2. x.length = Size(Sent) /\ x.extended = (x.length >= UINT8)
      BY <2>16 DEF Takes, IsWritten
    <3>3. ptr \in 1..n /\ Weights[ptr] \in Nat /\ a \in Nat /\ b \in Nat /\ a + Weights[ptr] <= b
      BY <2>12, <3>1
    <3>4. ~(group = "ibgp" /\ attributes[ptr].type = LOCAL_PREF)
      <4> SUFFICES ASSUME group = "ibgp" PROVE Want # LOCAL_PREF
        BY <2>3, <3>1
      <4>1. call + 1 # 4
        BY <2>14, <3>1
      <4>2. call + 1 \in {1, 2, 3}
        BY <2>3, <4>1
      <4> QED BY <2>14, <4>2 DEF ORIGIN, AS_PATH, NEXT_HOP, LOCAL_PREF
    <3> DEFINE w == HeadOctets(x.extended) + x.length
               e == Extra'
    <3>5. w <= Weights[ptr] + (e - Extra) /\ w \in Nat
      <4>1. CASE Doing # "set"
        <5>1. Sent = value
          BY <4>1 DEF Sent
        <5>2. Weights[ptr] = w
          BY <2>13, <3>2, <3>3, <3>4, <5>1, Zenon
        <5> HIDE DEF w, e, ptr
        <5> QED BY <2>6, <3>3, <5>2 DEF e
      <4>2. CASE Doing = "set"
        <5>1. Want = ORIGIN /\ group # "copy" /\ Size(Sent) = 1 /\ IsOctets(value)
          BY <2>16, <4>2 DEF Takes
        <5>2. x.length = 1 /\ w = 4
          <6>1. ~(1 >= UINT8)
            BY AttributesAssumption
          <6>2. x.length = 1 /\ ~x.extended
            BY <3>2, <5>1, <6>1, Zenon
          <6> QED BY <6>2 DEF HeadOctets
        <5>3. value \in Seq(Items) /\ Size(value) \in Nat
          BY <2>3, <3>1
        <5>4. Weights[ptr] = HeadOctets(Size(value) >= UINT8) + Size(value)
          BY <2>13, <3>3, <3>4
        <5>5. HeadOctets(Size(value) >= UINT8) \in {3, 4}
          BY DEF HeadOctets
        <5>6. CASE value # <<>>
          <6>1. Size(value) >= 1
            BY <5>1, <5>3, <5>6, OctetsCount
          <6>2. Weights[ptr] >= 4
            BY <5>3, <5>4, <5>5, <6>1
          <6> HIDE DEF w, e, ptr
          <6> QED BY <2>6, <3>3, <5>2, <6>2 DEF e
        <5>7. CASE value = <<>>
          <6>1. attributes[ptr] \in Origins(attributes) /\ attributes[ptr].value = <<>>
            BY <2>3, <3>1, <5>1, <5>7 DEF Origins, ToSet, Lists, value
          <6>2. spill = 1
            BY <5>1, <6>1 DEF spill, Spill, Empty
          <6>3. ~(call >= 1)
            <7>1. call + 1 \in 1..4 /\ Program(group)[call + 1][1] = "set"
              BY <2>3, <4>2 DEF Doing
            <7>2. call + 1 = 1
              BY <2>4, <7>1, Serializers
            <7> QED BY <2>4, <7>2
          <6>4. Weights[ptr] >= 3
            BY <5>3, <5>4, <5>5
          <6> HIDE DEF w, e, ptr
          <6>5. e >= Extra + 1
            <7> DEFINE i == Added
                       j == Added'
            <7>1. i \in Nat /\ j \in Nat /\ i <= j /\ Extra = i /\ e = j + 1
              BY <2>19, <6>2, <6>3 DEF e
            <7> HIDE DEF i, j
            <7> QED BY <7>1
          <6> QED BY <2>6, <3>3, <5>2, <6>4, <6>5 DEF e
        <5> QED BY <5>6, <5>7
      <4> QED BY <4>1, <4>2
    <3>6. WrittenOctets(q') = o + w
      BY <2>7, <3>1
    <3> HIDE DEF a, b, o, ptr, w
    <3>7. WrittenOctets(q') <= b + e
      <4>1. e \in Nat /\ Extra \in Nat
        BY <2>6
      <4> HIDE DEF e
      <4> QED BY <2>7, <2>8, <3>3, <3>5, <3>6, <4>1
    <3> QED BY <2>9, <3>7
  <2>17. ASSUME NEW x \in Outs, Puts(x) PROVE Budget'
    <3>1. Finds /\ ptr # 0 /\ q' = Append(q, x) /\ Doing = "prepend"
      BY <2>17 DEF Puts
    <3>2. x.length = Size(value) + 4 /\ Size(value) \in Nat
      BY <2>3, <2>17, <3>1 DEF Puts
    <3>3. ptr \in 1..n /\ Weights[ptr] \in Nat /\ a \in Nat /\ b \in Nat /\ a + Weights[ptr] <= b
      BY <2>12, <3>1
    <3>4. group = "ebgp" /\ call + 1 = 2 /\ Want = AS_PATH
      BY <2>14, <3>1
    <3>5. Extra = spill /\ Extra' = spill + 5 /\ spill \in Nat
      <4>1. call = 1
        BY <2>4, <3>4
      <4>2. Added = 0 /\ Added' = 5
        BY <2>2, <3>4, <4>1 DEF Added
      <4> QED BY <2>19, <4>1, <4>2
    <3>6. Weights[ptr] = HeadOctets(Size(value) >= UINT8) + Size(value)
      BY <2>13, <3>3, <3>4
    <3>7. HeadOctets(Size(value) >= UINT8) \in {3, 4} /\ HeadOctets(x.extended) \in {3, 4}
      BY DEF HeadOctets
    <3>8. WrittenOctets(q') = o + (HeadOctets(x.extended) + x.length)
      BY <2>7, <3>1
    <3> DEFINE s == Size(value)
               h == HeadOctets(s >= UINT8)
               k == HeadOctets(x.extended)
    <3>9. h \in {3, 4} /\ k \in {3, 4} /\ x.length = s + 4 /\ s \in Nat /\ Weights[ptr] = h + s
          /\ WrittenOctets(q') = o + (k + x.length)
      BY <3>2, <3>6, <3>7, <3>8
    <3> HIDE DEF a, b, o, ptr, s, h, k
    <3>10. WrittenOctets(q') <= b + Extra'
      BY <2>7, <2>8, <3>3, <3>5, <3>9
    <3> QED BY <2>9, <3>10
  <2>18. ASSUME NEW x \in Outs, Sets(x) PROVE Budget'
    <3>1. Doing = "set4" /\ r' = r /\ q' = Append(q, x)
      BY <2>18 DEF Sets
    <3>2. x.length = 4 /\ x.extended = (x.length >= UINT8)
      BY <2>18 DEF Sets, IsWritten, Parsed, Tiebreak
    <3>3. ~(x.length >= UINT8)
      BY <3>2, AttributesAssumption
    <3>4. HeadOctets(x.extended) = 3
      BY <3>2, <3>3 DEF HeadOctets
    <3>5. group = "ibgp" /\ call + 1 = 4
      BY <2>14, <3>1
    <3>6. Extra = spill /\ Extra' = spill + 7 /\ spill \in Nat
      <4>1. call = 3
        BY <2>4, <3>5
      <4>2. Added = 0 /\ Added' = 7
        BY <2>2, <3>5, <4>1 DEF Added
      <4> QED BY <2>19, <4>1, <4>2
    <3>7. WrittenOctets(q') = o + (3 + 4)
      BY <2>7, <3>1, <3>2, <3>4
    <3>8. a \in Nat /\ b = a
      BY <2>4, <2>10, <3>1
    <3> HIDE DEF a, b, o
    <3>9. WrittenOctets(q') <= b + Extra'
      BY <2>7, <2>8, <3>6, <3>7, <3>8
    <3> QED BY <2>9, <3>9
  <2> QED BY <1>2, <2>15, <2>16, <2>17, <2>18 DEF Serves
<1> QED BY <1>1, <1>2, Serving

(* The UPDATE that is built for a block is no longer than the message it   *)
(* comes from, but for the LOCAL_PREF that serialize_ibgp() adds where none*)
(* was received, the AS that serialize_ebgp() prepends, with the second    *)
(* octet of the length that this may need, and the octet that set() writes *)
(* for an empty ORIGIN.                                                    *)
THEOREM NoLonger == Spec => []LengthBound
<1>1. SInv /\ NInv /\ Budget => LengthBound
  <2> DEFINE n == Len(attributes)
             added == IF group = "ibgp" THEN IF LOCAL_PREF \in Types(attributes) THEN 0 ELSE 7
                      ELSE IF group = "ebgp" THEN 5 ELSE 0
             a == Len(txp)
             l == Len(nlri)
             o == WrittenOctets(q)
             w == Total(Weights, n)
             t == Total(Received, n)
  <2> SUFFICES ASSUME SInv, NInv, Budget, pc = "done" PROVE a + o <= l + t + added + Spill
    <3>1. ASSUME SInv
          PROVE  ReceivedOctets(attributes) = t
                 /\ added = CASE group = "ibgp" -> IF LOCAL_PREF \in Types(attributes) THEN 0 ELSE HeadOctets(FALSE) + 4
                              [] group = "ebgp" -> 4 + 1
                              [] group = "copy" -> 0
      <4>1. Lists(attributes) /\ group \in Group
        BY <3>1, MessageIs DEF SInv, Parsed, Places, attributes
      <4>2. HeadOctets(FALSE) + 4 = 7 /\ 4 + 1 = 5
        BY DEF HeadOctets
      <4>3. group = "ibgp" \/ group = "ebgp" \/ group = "copy"
        BY <4>1 DEF Group
      <4>4. "ibgp" # "ebgp" /\ "ibgp" # "copy" /\ "ebgp" # "copy"
        OBVIOUS
      <4> QED BY <4>1, <4>2, <4>3, <4>4, WeightsNat
    <3> HIDE DEF added, t
    <3> QED BY <3>1, Zenon DEF LengthBound, nlri, Spill, Empty
  <2>1. Parsed /\ Serialized /\ Lists(attributes) /\ group \in Group
    BY MessageIs DEF SInv, Parsed, Places, attributes
  <2>2. /\ n \in Nat /\ Numbers(Weights, n) /\ Numbers(Received, n)
        /\ \A i \in 1..n : Weights[i] <= Received[i]
    BY <2>1, WeightsNat
(* The prefixes.                                                           *)
  <2>3. l \in Nat /\ a \in Nat /\ a <= l
    <3>1. table = <<>> /\ nlrip = l + 1
      BY DEF NInv, Block
    <3>2. l \in Nat
      BY <2>1, StartsAre
    <3>3. a \in Nat
      <4>1. txp \in Seq(Nat)
        BY DEF NInv, Carried, Chain
      <4> QED BY <4>1
    <3>4. Len(table) = 0 /\ Costs(table) = Costs(<<>>)
      BY <3>1
    <3>5. Numbers(Costs(table), 0)
      BY DEF Numbers
    <3>6. Total(Costs(table), Len(table)) = 0
      BY <3>4, <3>5, TotalStep
    <3>7. a + Total(Costs(table), Len(table)) <= nlrip - 1
      BY DEF NInv, Lengths
    <3> HIDE DEF a, l
    <3>8. a + 0 <= (l + 1) - 1
      BY <3>1, <3>6, <3>7
    <3> QED BY <3>2, <3>3, <3>8
(* The attributes.                                                         *)
  <2>4. w \in Nat /\ t \in Nat /\ Spill \in {0, 1}
    BY <2>2, TotalStep DEF Spill
  <2>5. o \in Nat /\ o <= w + Extra
    <3>1. r \in 1..(n + 1) /\ q \in Seq(Outs)
      BY <2>1 DEF Serialized
    <3>2. o \in Nat
      <4>1. \E x : x \in Outs
        <5>1. <<>> \in Seq(Items)
          OBVIOUS
        <5> QED BY <5>1, WrittenIs DEF IsWritten
      <4> QED BY <3>1, <4>1, WrittenMore
    <3>3. r - 1 \in 0..n /\ n \in (r - 1)..n
      BY <2>2, <3>1
    <3>4. Total(Weights, r - 1) <= w /\ Total(Weights, r - 1) \in Nat
      BY <2>2, <3>3, TotalGrows
    <3>5. o <= Total(Weights, r - 1) + Extra
      BY DEF Budget
    <3>6. Extra \in Nat
      BY <2>4 DEF Extra, Added
    <3> DEFINE z == Total(Weights, r - 1)
               e == Extra
    <3> HIDE DEF o, w, z, e
    <3>7. o <= w + e
      BY <2>4, <3>2, <3>4, <3>5, <3>6 DEF z, e
    <3> QED BY <3>2, <3>7 DEF e
(* A LOCAL_PREF that was received makes room for the one written.          *)
  <2>6. w + Extra <= t + added + Spill
    <3>1. CASE group # "ibgp"
      <4>1. Below(Weights, Received, n, 0, 0)
        BY <2>2 DEF Below
      <4>2. w <= t
        BY <2>2, <4>1, TotalBelow
      <4>3. Extra \in Nat /\ added \in Nat /\ Extra <= added + Spill
        BY <2>4, <3>1 DEF Extra, Added
      <4> HIDE DEF w, t, added, Extra, Spill
      <4> QED BY <2>4, <4>2, <4>3
    <3>2. CASE group = "ibgp" /\ LOCAL_PREF \notin Types(attributes)
      <4>1. Below(Weights, Received, n, 0, 0)
        BY <2>2 DEF Below
      <4>2. w <= t
        BY <2>2, <4>1, TotalBelow
      <4>3. Extra \in Nat /\ Extra <= 7 + Spill /\ added = 7
        BY <2>4, <3>2 DEF Extra, Added
      <4> HIDE DEF w, t, added, Extra, Spill
      <4> QED BY <2>4, <4>2, <4>3
    <3>3. CASE group = "ibgp" /\ LOCAL_PREF \in Types(attributes)
      <4>1. PICK k \in 1..n : attributes[k].type = LOCAL_PREF
        BY <2>1, <3>3 DEF Types, Lists
      <4>2. Asserted(attributes[k])
        <5>1. p = n + 1
          BY <2>1 DEF Parsed, Places
        <5>2. p - 1 = n
          BY <2>2, <5>1
        <5> QED BY <2>1, <4>1, <5>2 DEF Parsed, Checked
      <4>3. Size(attributes[k].value) = 4
        BY <4>1, <4>2 DEF Asserted
      <4>4. ~(4 >= UINT8)
        BY AttributesAssumption
      <4>5. HeadOctets(Size(attributes[k].value) >= UINT8) = 3
        BY <4>3, <4>4 DEF HeadOctets
      <4>6. Received[k] = 3 + 4
        BY <4>1, <4>3, <4>5, Zenon DEF Received
      <4>7. Weights[k] = 0
        BY <3>3, <4>1 DEF Weights
      <4>8. Weights[k] + 7 <= Received[k]
        BY <4>6, <4>7
      <4>9. Below(Weights, Received, n, k, 7)
        BY <2>2, <4>8 DEF Below
      <4>10. k \in Nat /\ w + 7 <= t
        <5>1. k \in Nat
          BY <4>1
        <5> QED BY <2>2, <4>1, <4>9, <5>1, TotalBelow
      <4>11. Extra \in Nat /\ Extra <= 7 + Spill /\ added = 0
        BY <2>4, <3>3 DEF Extra, Added
      <4> HIDE DEF w, t, added, Extra, Spill
      <4> QED BY <2>4, <4>10, <4>11
    <3> QED BY <3>1, <3>2, <3>3
  <2>7. added \in Nat /\ Extra \in Nat
    BY <2>4 DEF Extra, Added
  <2> HIDE DEF a, o, l, t, w, added, Extra, Spill
  <2> QED BY <2>3, <2>4, <2>5, <2>6, <2>7
<1>2. Init => SInv /\ NInv /\ Budget
  BY SInvInit, NInvInit, BudgetInit DEF SInv
<1>3. SInv /\ NInv /\ Budget /\ [Next]_vars => (SInv /\ NInv /\ Budget)'
  BY SInvStep, NInvStep, BudgetStep DEF SInv
<1> QED BY <1>1, <1>2, <1>3, PTL DEF Spec
=============================================================================
