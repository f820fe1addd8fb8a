--------------------------- MODULE Driver_proofs ---------------------------
(***************************************************************************)
(* The arithmetic of timespec.c for any length of a second, and with it    *)
(* that the durations which main() reports are those of the clock; and, for*)
(* every file, number of peers and set of arguments, that split_buf() cuts *)
(* the messages into shares which the threads go over, when the program    *)
(* stops and what the counters are good for.                               *)
(*                                                                         *)
(* The second part has four steps: what recursive functions compute, with  *)
(* the least counterexample in the place of induction; where in the file   *)
(* markers can be found; which cuts split_buf() gets right; and the        *)
(* invariant of the threads.                                               *)
(***************************************************************************)
EXTENDS Driver, FiniteSetTheorems, SequenceTheorems, TLAPS

(* What is left when carry() is taken out is less than a second.           *)
LEMMA CarryBounds ==
  ASSUME NEW nsec \in Int
  PROVE  /\ carry(nsec) \in Int
         /\ nsec - NSEC * carry(nsec) \in (1 - NSEC)..(NSEC - 1)
<1>1. CASE nsec >= 0
  BY <1>1, TimespecAssumption DEF carry
<1>2. CASE nsec < 0
  BY <1>2, TimespecAssumption DEF carry
<1> QED BY <1>1, <1>2

(* timespec_normalise() keeps the time and leaves less than a second of    *)
(* nanoseconds, of the sign of the seconds.                                *)
LEMMA NormaliseSound ==
  ASSUME NEW ts \in Timespec
  PROVE  LET n == timespec_normalise(ts)
         IN  /\ n \in Timespec
             /\ timespec_to_double(n) = timespec_to_double(ts)
             /\ n.tv_nsec \in (1 - NSEC)..(NSEC - 1)
             /\ (n.tv_sec >= 0 /\ n.tv_nsec >= 0) \/ (n.tv_sec <= 0 /\ n.tv_nsec <= 0)
<1> DEFINE c == carry(ts.tv_nsec)
           sec == ts.tv_sec + c
           nsec == ts.tv_nsec - NSEC * c
<1>1. ts.tv_sec \in Int /\ ts.tv_nsec \in Int /\ NSEC \in Nat \ {0}
  BY TimespecAssumption DEF Timespec
<1>2. c \in Int /\ nsec \in (1 - NSEC)..(NSEC - 1)
  BY <1>1, CarryBounds
<1>3. sec \in Int /\ nsec \in Int /\ timespec_to_double(ts) = NSEC * sec + nsec
  BY <1>1, <1>2 DEF timespec_to_double
<1>4. /\ nsec < 0 /\ sec > 0 => timespec_normalise(ts) = timespec(sec - 1, nsec + NSEC)
      /\ nsec > 0 /\ sec < 0 => timespec_normalise(ts) = timespec(sec + 1, nsec - NSEC)
      /\ ~(nsec < 0 /\ sec > 0) /\ ~(nsec > 0 /\ sec < 0) =>
           timespec_normalise(ts) = timespec(sec, nsec)
  BY <1>3 DEF timespec_normalise
<1> HIDE DEF c, sec, nsec
<1>5. CASE nsec < 0 /\ sec > 0
  <2>1. NSEC * (sec - 1) = NSEC * sec - NSEC
    BY <1>1, <1>3
  <2> QED BY <1>1, <1>2, <1>3, <1>4, <1>5, <2>1 DEF timespec, Timespec, timespec_to_double
<1>6. CASE nsec > 0 /\ sec < 0
  <2>1. NSEC * (sec + 1) = NSEC * sec + NSEC
    BY <1>1, <1>3
  <2> QED BY <1>1, <1>2, <1>3, <1>4, <1>6, <2>1 DEF timespec, Timespec, timespec_to_double
<1>7. CASE ~(nsec < 0 /\ sec > 0) /\ ~(nsec > 0 /\ sec < 0)
  BY <1>1, <1>2, <1>3, <1>4, <1>7 DEF timespec, Timespec, timespec_to_double
<1> QED BY <1>5, <1>6, <1>7

(* timespec_sub() is the difference of the times, normalised.              *)
LEMMA SubSound ==
  ASSUME NEW a \in Timespec, NEW b \in Timespec
  PROVE  LET d == timespec_sub(a, b)
         IN  /\ d \in Timespec
             /\ timespec_to_double(d) = timespec_to_double(a) - timespec_to_double(b)
             /\ d.tv_nsec \in (1 - NSEC)..(NSEC - 1)
             /\ (d.tv_sec >= 0 /\ d.tv_nsec >= 0) \/ (d.tv_sec <= 0 /\ d.tv_nsec <= 0)
<1> DEFINE x == timespec_normalise(a)
           y == timespec_normalise(b)
           z == timespec(x.tv_sec - y.tv_sec, x.tv_nsec - y.tv_nsec)
<1>1. /\ x \in Timespec /\ timespec_to_double(x) = timespec_to_double(a)
      /\ y \in Timespec /\ timespec_to_double(y) = timespec_to_double(b)
  BY NormaliseSound
<1> HIDE DEF x, y
<1>2. z \in Timespec
  BY <1>1 DEF timespec, Timespec
<1>3. timespec_to_double(z) = timespec_to_double(x) - timespec_to_double(y)
  BY <1>1, TimespecAssumption DEF timespec, Timespec, timespec_to_double
<1>4. timespec_sub(a, b) = timespec_normalise(z)
  BY DEF timespec_sub, x, y
<1> HIDE DEF z
<1> QED BY <1>1, <1>2, <1>3, <1>4, NormaliseSound
-----------------------------------------------------------------------------
(* The arguments never change, and every duration is the difference of the *)
(* two readings.                                                           *)
Timed ==
  /\ run \in Runs
  /\ durations \in Seq(Int)
  /\ \A i \in DOMAIN durations :
       durations[i] = timespec_to_double(timespec_sub(run.tend, run.tstart))

(* The readings are times.                                                 *)
LEMMA Readings == ASSUME run \in Runs PROVE run.tstart \in Timespec /\ run.tend \in Timespec
BY DriverAssumption DEF Run

LEMMA TimedInit == Init => Timed
BY DEF Init, Timed

LEMMA TimedNext == Timed /\ [Next]_vars => Timed'
<1> SUFFICES ASSUME Timed, [Next]_vars PROVE Timed'
  OBVIOUS
<1> USE DEF Timed
<1>1. CASE Flush
  <2> DEFINE d == timespec_to_double(timespec_sub(run.tend, run.tstart))
  <2>1. d \in Int
    <3> DEFINE ts == timespec_sub(run.tend, run.tstart)
    <3>1. ts \in Timespec
      BY Readings, SubSound
    <3> HIDE DEF ts
    <3>2. ts.tv_sec \in Int /\ ts.tv_nsec \in Int /\ NSEC \in Int
      BY <3>1, TimespecAssumption DEF Timespec
    <3>3. NSEC * ts.tv_sec + ts.tv_nsec \in Int
      BY <3>2
    <3> QED BY <3>3 DEF ts, timespec_to_double
  <2>2. run' = run
    BY <1>1 DEF Flush
  <2>3. durations' = durations \/ durations' = Append(durations, d)
    BY <1>1 DEF Flush
  <2> HIDE DEF d
  <2>4. CASE durations' = durations
    BY <2>2, <2>4
  <2>5. CASE durations' = Append(durations, d)
    BY <2>1, <2>2, <2>5 DEF d
  <2> QED BY <2>3, <2>4, <2>5
<1>2. CASE UNCHANGED <<run, durations>>
  BY <1>2
<1>3. CASE main /\ ~Flush
  BY <1>3, <1>2 DEF main, reinit, split_buf, Create, Join, Report, Ends
<1>4. ASSUME NEW p \in Peer, buf_parse_peer(p) PROVE Timed'
  BY <1>4, <1>2 DEF buf_parse_peer, Message, Count, Leave, Ends, mainVars
<1>5. CASE Stop \/ UNCHANGED vars
  BY <1>5, <1>2 DEF Stop, vars, mainVars
<1> QED BY <1>1, <1>3, <1>4, <1>5 DEF Next

(* What main() reports as the duration of a round is the time between its  *)
(* two readings of the clock, whatever they are and however many           *)
(* nanoseconds make a second.                                              *)
THEOREM ElapsedTime == Spec => []Elapsed
<1>1. Timed => Elapsed
  <2> SUFFICES ASSUME Timed PROVE Elapsed
    OBVIOUS
  <2> DEFINE ts == timespec_sub(run.tend, run.tstart)
  <2>1. /\ ts \in Timespec
        /\ timespec_to_double(ts) = timespec_to_double(run.tend) - timespec_to_double(run.tstart)
        /\ ts.tv_nsec \in (1 - NSEC)..(NSEC - 1)
        /\ (ts.tv_sec >= 0 /\ ts.tv_nsec >= 0) \/ (ts.tv_sec <= 0 /\ ts.tv_nsec <= 0)
    BY Readings, SubSound DEF Timed
  <2> HIDE DEF ts
  <2>2. ts.tv_sec \in Int /\ ts.tv_nsec \in Int
    BY <2>1 DEF Timespec
  <2>3. ts.tv_sec * ts.tv_nsec >= 0
    BY <2>1, <2>2
  <2> QED BY <2>1, <2>3 DEF Timed, Elapsed, ts
<1> QED BY <1>1, TimedInit, TimedNext, PTL DEF Spec
-----------------------------------------------------------------------------
(* Every set of natural numbers has a least: what the proofs below have in *)
(* the place of induction, which takes a predicate for a parameter.        *)
LEMMA Least ==
  ASSUME NEW T, T \subseteq Nat, T # {}
  PROVE  \E x \in T : \A y \in T : x <= y
<1> DEFINE R == OpToRel(<, Nat)
<1>1. R = {ss \in Nat \X Nat : ss[1] < ss[2]}
  BY Zenon DEF OpToRel
<1>2. IsWellFoundedOn(R, Nat)
  BY NatLessThanWellFounded, Zenon
<1> HIDE DEF R
<1>3. PICK x \in T : \A y \in T : ~(<<y, x>> \in R)
  BY <1>2, WFMin
<1>4. ASSUME NEW y \in T PROVE x <= y
  <2>1. ~(y < x)
    BY <1>1, <1>3
  <2> QED BY <2>1
<1> QED BY <1>4

(* A function whose values from m to n are made from the ones before them. *)
Recursive(D, m, n, x, step, g) ==
  /\ g \in [m..n -> D] /\ g[m] = x
  /\ \A i \in (m + 1)..n : g[i] = step[<<i, g[i - 1]>>]

(* A recursive function exists.                                            *)
LEMMA Recursion ==
  ASSUME NEW D, NEW m \in Nat, NEW n \in Nat, m <= n, NEW x \in D, NEW step \in [Nat \X D -> D]
  PROVE  \E g : Recursive(D, m, n, x, step, g)
<1> DEFINE Has(k) == \E g : Recursive(D, m, k, x, step, g)
           T == {k \in Nat : m <= k /\ ~Has(k)}
<1> USE DEF Recursive
<1> SUFFICES ASSUME T # {} PROVE FALSE
  OBVIOUS
<1>1. PICK k \in T : \A y \in T : k <= y
  <2>1. T \subseteq Nat
    OBVIOUS
  <2> HIDE DEF T
  <2> QED BY <2>1, Least
<1>2. k # m
  <2>1. Has(m)
    <3> DEFINE g == [i \in m..m |-> x]
    <3>1. \A i \in m..m : g[i] = x
      OBVIOUS
    <3>1a. g \in [m..m -> D] /\ g[m] = x
      BY <3>1
    <3> HIDE DEF g
    <3>2. \A i \in (m + 1)..m : g[i] = step[<<i, g[i - 1]>>]
      OBVIOUS
    <3> QED BY <3>1a, <3>2
  <2> HIDE DEF Has
  <2> QED BY <2>1
<1>3. k - 1 \in Nat /\ m <= k - 1 /\ k - 1 \notin T
  <2> HIDE DEF Has
  <2> QED BY <1>1, <1>2
<1>4. Has(k - 1)
  <2> HIDE DEF Has
  <2> QED BY <1>3
<1>5. PICK g \in [m..(k - 1) -> D] : /\ g[m] = x
                                    /\ \A i \in (m + 1)..(k - 1) : g[i] = step[<<i, g[i - 1]>>]
  BY <1>4
<1> DEFINE h == [i \in m..k |-> IF i = k THEN step[<<k, g[k - 1]>>] ELSE g[i]]
<1>6. g[k - 1] \in D /\ step[<<k, g[k - 1]>>] \in D
  BY <1>1, <1>3, <1>5
<1>7. h \in [m..k -> D]
  <2> SUFFICES ASSUME NEW i \in m..k PROVE h[i] \in D
    OBVIOUS
  <2>1. CASE i = k
    BY <1>6, <2>1
  <2>2. CASE i # k
    BY <1>1, <1>5, <2>2
  <2> QED BY <2>1, <2>2
<1>8. h[m] = x
  BY <1>1, <1>2, <1>5
<1>9. ASSUME NEW i \in (m + 1)..k PROVE h[i] = step[<<i, h[i - 1]>>]
  <2>1. i \in m..k /\ i - 1 \in m..k /\ i - 1 # k /\ h[i - 1] = g[i - 1]
    BY <1>1
  <2>2. CASE i = k
    BY <2>1, <2>2
  <2>3. CASE i # k
    BY <1>1, <1>5, <2>1, <2>3
  <2> QED BY <2>2, <2>3
<1>10. Has(k)
  BY <1>7, <1>8, <1>9
<1> HIDE DEF Has
<1> QED BY <1>1, <1>10

(* FlattenSeq() goes through the prefixes of its result; D is Seq(S) for   *)
(* some S.                                                                 *)
Concats(D) == \A y, z \in D : y \o z \in D
Parts(D, n, s) == Len(s) = n /\ \A i \in 1..n : s[i] \in D
Joined(n, s, g) == \A i \in 1..n : g[i] = IF i = 1 THEN s[i] ELSE g[i - 1] \o s[i]

(* The last prefix is the result.                                          *)
LEMMA Flattened ==
  ASSUME NEW D, Concats(D),
         NEW n \in Nat \ {0}, NEW s, Parts(D, n, s)
  PROVE  \E g \in [1..n -> D] : FlattenSeq(s) = g[n] /\ Joined(n, s, g)
<1> DEFINE step == [y \in Nat \X D |-> IF y[1] \in 1..n THEN y[2] \o s[y[1]] ELSE y[2]]
           Rec(f) == f = [i \in 1..n |-> IF i = 1 THEN s[i] ELSE f[i - 1] \o s[i]]
<1>1. /\ \A y, z \in D : y \o z \in D
      /\ Len(s) = n /\ \A i \in 1..n : s[i] \in D
  BY DEF Concats, Parts
<1>2. FlattenSeq(s) = (CHOOSE h : Rec(h))[n]
  <2>1. n # 0
    OBVIOUS
  <2> QED BY <1>1, <2>1, Zenon DEF FlattenSeq
<1>3. step \in [Nat \X D -> D]
  <2> SUFFICES ASSUME NEW y \in Nat \X D
               PROVE  (IF y[1] \in 1..n THEN y[2] \o s[y[1]] ELSE y[2]) \in D
    BY Zenon
  <2>1. y[2] \in D
    OBVIOUS
  <2>2. CASE y[1] \in 1..n
    BY <1>1, <2>1, <2>2, Zenon
  <2>3. CASE y[1] \notin 1..n
    BY <2>1, <2>3, Zenon
  <2> QED BY <2>2, <2>3
<1>4. ASSUME NEW i \in 1..n, NEW z \in D PROVE step[<<i, z>>] = z \o s[i]
  <2>1. <<i, z>> \in Nat \X D /\ <<i, z>>[1] = i /\ <<i, z>>[2] = z
    OBVIOUS
  <2> QED BY <2>1, Zenon
<1> HIDE DEF step
<1>5. PICK g \in [1..n -> D] : g[1] = s[1] /\ \A i \in 2..n : g[i] = step[<<i, g[i - 1]>>]
  <2> DEFINE first == s[1]
  <2>1. first \in D /\ 1 \in Nat /\ n \in Nat /\ 1 <= n
    BY <1>1
  <2> HIDE DEF first
  <2>2. PICK g : Recursive(D, 1, n, first, step, g)
    BY <1>3, <2>1, Recursion, Zenon
  <2> QED BY <2>2 DEF first, Recursive
<1>6. ASSUME NEW i \in 1..n PROVE g[i] = IF i = 1 THEN s[i] ELSE g[i - 1] \o s[i]
  <2>1. CASE i = 1
    BY <1>5, <2>1
  <2>2. CASE i # 1
    <3>1. i \in 2..n /\ i - 1 \in 1..n
      BY <2>2
    <3>2. g[i] = step[<<i, g[i - 1]>>] /\ g[i - 1] \in D
      BY <1>5, <3>1, Zenon
    <3> QED BY <1>4, <2>2, <3>2, Zenon
  <2> QED BY <2>1, <2>2
<1>7. Rec(g)
  <2>1. g = [i \in 1..n |-> g[i]]
    BY <1>5, Zenon
  <2> QED BY <1>6, <2>1, Zenon
<1> DEFINE f == CHOOSE h : Rec(h)
<1>8. Rec(f)
  <2> HIDE DEF Rec
  <2> QED BY <1>7, Zenon
<1> HIDE DEF f
<1>9. ASSUME NEW i \in 1..n PROVE f[i] = IF i = 1 THEN s[i] ELSE f[i - 1] \o s[i]
  <2> DEFINE e(j) == IF j = 1 THEN s[j] ELSE f[j - 1] \o s[j]
  <2>1. f = [j \in 1..n |-> e(j)]
    BY <1>8, Zenon
  <2> HIDE DEF e
  <2>2. f[i] = e(i)
    BY <2>1, Zenon
  <2> QED BY <2>2, Zenon DEF e
<1>10. f[n] = g[n]
  <2> DEFINE T == {k \in 1..n : f[k] # g[k]}
  <2>1. T = {}
    <3> SUFFICES ASSUME T # {} PROVE FALSE
      OBVIOUS
    <3>1. PICK k \in T : \A y \in T : k <= y
      <4>1. T \subseteq Nat
        OBVIOUS
      <4> HIDE DEF T
      <4> QED BY <4>1, Least
    <3>2. k \in 1..n /\ f[k] # g[k]
      OBVIOUS
    <3>3. k # 1
      BY <1>6, <1>9, <3>2
    <3>4. k - 1 \in 1..n /\ k - 1 \notin T
      <4> HIDE DEF T
      <4>1. ~(k <= k - 1)
        BY <3>2
      <4> QED BY <3>1, <3>2, <3>3, <4>1
    <3>5. f[k - 1] = g[k - 1]
      BY <3>4
    <3> HIDE DEF T
    <3> QED BY <1>6, <1>9, <3>2, <3>3, <3>5, Zenon
  <2> QED BY <2>1
<1>11. FlattenSeq(s) = g[n]
  BY <1>2, <1>10 DEF f
<1> QED BY <1>5, <1>6, <1>11, Zenon DEF Joined

(* And a function that goes through them ends with it.                     *)
LEMMA FlattenIs ==
  ASSUME NEW D, Concats(D),
         NEW n \in Nat \ {0}, NEW s, Parts(D, n, s),
         NEW h, Joined(n, s, h)
  PROVE  FlattenSeq(s) = h[n]
<1>1. PICK g \in [1..n -> D] : FlattenSeq(s) = g[n] /\ Joined(n, s, g)
  BY Flattened, Zenon
<1>1a. ASSUME NEW i \in 1..n
       PROVE  h[i] = (IF i = 1 THEN s[i] ELSE h[i - 1] \o s[i]) /\ g[i] = (IF i = 1 THEN s[i] ELSE g[i - 1] \o s[i])
  BY <1>1, Zenon DEF Joined
<1> DEFINE T == {k \in 1..n : h[k] # g[k]}
<1>2. T = {}
  <2> SUFFICES ASSUME T # {} PROVE FALSE
    OBVIOUS
  <2>1. PICK k \in T : \A y \in T : k <= y
    <3>1. T \subseteq Nat
      OBVIOUS
    <3> HIDE DEF T
    <3> QED BY <3>1, Least
  <2>2. k \in 1..n /\ h[k] # g[k]
    OBVIOUS
  <2>3. k # 1
    BY <1>1a, <2>2
  <2>4. k - 1 \in 1..n /\ k - 1 \notin T
    <3> HIDE DEF T
    <3>1. ~(k <= k - 1)
      BY <2>2
    <3> QED BY <2>1, <2>2, <2>3, <3>1
  <2>5. h[k - 1] = g[k - 1]
    BY <2>4
  <2> HIDE DEF T
  <2> QED BY <1>1a, <2>2, <2>3, <2>5, Zenon
<1> QED BY <1>1, <1>2

(* One part more.                                                          *)
LEMMA FlattenAppend ==
  ASSUME NEW D, Concats(D),
         NEW n \in Nat, NEW s, Parts(D, n + 1, s),
         NEW r, Len(r) = n, \A i \in 1..n : r[i] = s[i]
  PROVE  /\ n # 0 => FlattenSeq(r) \in D /\ FlattenSeq(s) = FlattenSeq(r) \o s[n + 1]
         /\ n = 0 => FlattenSeq(s) = s[1]
         /\ FlattenSeq(s) \in D
<1>1. PICK f \in [1..(n + 1) -> D] : FlattenSeq(s) = f[n + 1] /\ Joined(n + 1, s, f)
  <2>1. n + 1 \in Nat \ {0}
    OBVIOUS
  <2> QED BY <2>1, Flattened, Zenon
<1>2. FlattenSeq(s) \in D
  BY <1>1
<1>3. ASSUME n # 0 PROVE FlattenSeq(r) = f[n] /\ f[n] \in D
  <2>1. ASSUME NEW i \in 1..n PROVE i \in 1..(n + 1) /\ r[i] \in D
    BY DEF Parts
  <2>2. Joined(n, r, f)
    BY <1>1, <2>1, Zenon DEF Joined
  <2>3. n \in Nat \ {0}
    BY <1>3
  <2>4. Parts(D, n, r)
    BY <2>1 DEF Parts
  <2>5. FlattenSeq(r) = f[n]
    BY <2>2, <2>3, <2>4, FlattenIs, Zenon
  <2> QED BY <2>3, <2>5
<1>4. n + 1 \in 1..(n + 1) /\ (n # 0 => n + 1 # 1) /\ (n + 1) - 1 = n /\ (n = 0 => n + 1 = 1)
  OBVIOUS
<1>5. f[n + 1] = IF n + 1 = 1 THEN s[n + 1] ELSE f[(n + 1) - 1] \o s[n + 1]
  BY <1>1, <1>4, Zenon DEF Joined
<1> QED BY <1>1, <1>2, <1>3, <1>4, <1>5, Zenon
-----------------------------------------------------------------------------
(* The octets of message i.                                                *)
Size(i) == MarkerLen + 1 + Len(bodies[i])

(* The bounds of the constants.                                            *)
LEMMA Constants ==
  /\ MarkerLen \in Nat /\ MarkerLen >= 1 /\ npeers \in Nat /\ npeers >= 1 /\ FF = 255
  /\ Runs \subseteq Run
BY DriverAssumption DEF FF

(* The bodies of the messages, and the arguments.                          *)
LEMMA Bodies ==
  ASSUME run \in Runs
  PROVE  /\ bodies \in Seq(Seq({0, Bare, FF})) /\ Len(bodies) \in Nat /\ Messages = 1..Len(bodies)
         /\ run.msg_max \in Int /\ run.spare \in Int /\ run.repeat \in Int
         /\ run.multithread \in BOOLEAN
         /\ \A i \in Messages : 
              /\ bodies[i] \in Seq({0, Bare, FF}) /\ Len(bodies[i]) \in Nat
              /\ Size(i) \in Nat /\ Size(i) > MarkerLen /\ Size(i) < FF
              /\ \A j \in 1..Len(bodies[i]) : \E k \in 0..(MarkerLen - 1) :
                   j + k > Len(bodies[i]) \/ bodies[i][j + k] # FF
<1>1. run \in Run
  BY Constants
<1>2. /\ run.messages \in Seq(Seq({0, Bare, FF})) /\ run.msg_max \in Int /\ run.spare \in Int
      /\ run.repeat \in Int /\ run.multithread \in BOOLEAN
  BY <1>1 DEF Run
<1>3. Len(bodies) \in Nat /\ Messages = 1..Len(bodies)
  BY <1>2 DEF bodies, Messages
<1>4. ASSUME NEW i \in Messages
      PROVE  /\ bodies[i] \in Seq({0, Bare, FF}) /\ Len(bodies[i]) \in Nat
             /\ Size(i) \in Nat /\ Size(i) > MarkerLen /\ Size(i) < FF
             /\ \A j \in 1..Len(bodies[i]) : \E k \in 0..(MarkerLen - 1) :
                   j + k > Len(bodies[i]) \/ bodies[i][j + k] # FF
  <2>1. bodies[i] \in Seq({0, Bare, FF}) 
    BY <1>2, <1>3 DEF bodies
  <2>2. Len(bodies[i]) \in Nat /\ DOMAIN bodies[i] = 1..Len(bodies[i])
    BY <2>1
  <2>3. /\ Size(i) < FF
        /\ \A j \in DOMAIN bodies[i] : \E k \in 0..(MarkerLen - 1) :
                   j + k > Len(bodies[i]) \/ bodies[i][j + k] # FF
    BY DriverAssumption, Zenon DEF Size, bodies, Messages
  <2>4. Size(i) \in Nat /\ Size(i) > MarkerLen
    <3> DEFINE len == Len(bodies[i])
    <3>1. len \in Nat
      BY <2>2
    <3> HIDE DEF len
    <3>2. MarkerLen + 1 + len \in Nat /\ MarkerLen + 1 + len > MarkerLen
      BY <3>1, Constants
    <3> QED BY <3>2, Zenon DEF Size, len
  <2> QED BY <2>1, <2>2, <2>3, <2>4, Zenon
<1> QED BY <1>2, <1>3, <1>4 DEF bodies

(* c is a and then b.                                                      *)
Joins(c, a, b) ==
  /\ c \in Seq(Int) /\ Len(a) \in Nat /\ Len(b) \in Nat /\ Len(c) = Len(a) + Len(b)
  /\ \A i \in 1..Len(a) : c[i] = a[i]
  /\ \A i \in 1..Len(b) : c[Len(a) + i] = b[i]

(* What \o does.                                                           *)
LEMMA Cat == ASSUME NEW a \in Seq(Int), NEW b \in Seq(Int) PROVE Joins(a \o b, a, b)
<1>1. Len(a) \in Nat /\ Len(b) \in Nat
  OBVIOUS
<1>2. /\ a \o b \in Seq(Int) /\ Len(a \o b) = Len(a) + Len(b)
      /\ \A i \in 1..(Len(a) + Len(b)) : (a \o b)[i] = IF i <= Len(a) THEN a[i] ELSE b[i - Len(a)]
  BY ConcatProperties, Zenon
<1>3. ASSUME NEW i \in 1..Len(a) PROVE (a \o b)[i] = a[i]
  BY <1>1, <1>2
<1>4. ASSUME NEW i \in 1..Len(b) PROVE (a \o b)[Len(a) + i] = b[i]
  <2>1. /\ Len(a) + i \in 1..(Len(a) + Len(b)) /\ ~(Len(a) + i <= Len(a)) 
        /\ (Len(a) + i) - Len(a) = i
    BY <1>1
  <2> QED BY <1>2, <2>1, Zenon
<1> QED BY <1>1, <1>2, <1>3, <1>4, Zenon DEF Joins

(* A message is its marker, its length and its body.                       *)
LEMMA MessageIs ==
  ASSUME NEW body \in Seq({0, Bare, FF})
  PROVE  /\ message(body) \in Seq(Int) /\ Len(message(body)) = MarkerLen + 1 + Len(body)
         /\ \A i \in 1..MarkerLen : message(body)[i] = FF
         /\ message(body)[MarkerLen + 1] = MarkerLen + 1 + Len(body)
         /\ \A j \in 1..Len(body) : message(body)[MarkerLen + 1 + j] = body[j]
<1> DEFINE mark == [i \in 1..MarkerLen |-> FF]
           len == <<MarkerLen + 1 + Len(body)>>
           head == mark \o len
<1>1. mark \in Seq(Int) /\ Len(mark) = MarkerLen /\ \A i \in 1..MarkerLen : mark[i] = FF
  BY Constants
<1>2. len \in Seq(Int) /\ Len(len) = 1 /\ len[1] = MarkerLen + 1 + Len(body) /\ Len(body) \in Nat
  BY Constants
<1>3. body \in Seq(Int)
  BY Constants DEF Bare
<1>4. message(body) = head \o body
  BY DEF message
<1> HIDE DEF mark, len
<1>5a. Joins(head, mark, len)
  BY <1>1, <1>2, Cat, Zenon
<1> HIDE DEF head
<1>5. /\ head \in Seq(Int) /\ Len(head) = MarkerLen + 1
      /\ \A i \in 1..MarkerLen : head[i] = mark[i]
      /\ \A i \in 1..1 : head[MarkerLen + i] = len[i]
  BY <1>1, <1>2, <1>5a, Zenon DEF Joins
<1>6a. Joins(message(body), head, body)
  BY <1>3, <1>4, <1>5, Cat, Zenon
<1>6. /\ message(body) \in Seq(Int) /\ Len(message(body)) = MarkerLen + 1 + Len(body)
      /\ \A i \in 1..(MarkerLen + 1) : message(body)[i] = head[i]
      /\ \A i \in 1..Len(body) : message(body)[MarkerLen + 1 + i] = body[i]
  BY <1>5, <1>6a, Zenon DEF Joins
<1>7. /\ \A i \in 1..MarkerLen : i \in 1..(MarkerLen + 1)
      /\ MarkerLen + 1 \in 1..(MarkerLen + 1) /\ 1 \in 1..1
  BY Constants
<1> QED BY <1>1, <1>2, <1>5, <1>6, <1>7, Zenon

(* Each message begins where the one before it ends.                       *)
LEMMA BeforeStep ==
  ASSUME run \in Runs, NEW i \in Messages
  PROVE  /\ before(i + 1) \in Seq(Int) /\ start(i) \in Nat
         /\ start(i + 1) = start(i) + Size(i)
         /\ \A x \in 1..start(i) : before(i + 1)[x] = before(i)[x]
         /\ \A k \in 1..Size(i) : before(i + 1)[start(i) + k] = message(bodies[i])[k]
<1> DEFINE s == [j \in 1..i |-> message(bodies[j])]
           r == [j \in 1..(i - 1) |-> message(bodies[j])]
           D == Seq(Int)
<1>1. i \in 1..Len(bodies) /\ i \in Nat /\ i - 1 \in Nat /\ (i - 1) + 1 = i /\ (i + 1) - 1 = i
  <2>1. i \in 1..Len(bodies) /\ Len(bodies) \in Nat
    BY Bodies, Zenon
  <2> QED BY <2>1
<1>2. \A j \in 1..i : j \in Messages /\ s[j] = message(bodies[j]) /\ s[j] \in D
  BY <1>1, Bodies, MessageIs
<1>3. before(i + 1) = FlattenSeq(s) /\ before(i) = FlattenSeq(r)
  BY <1>1, Zenon DEF before
<1>4. /\ message(bodies[i]) \in D /\ Len(message(bodies[i])) = Size(i) /\ Size(i) \in Nat
  BY Bodies, MessageIs DEF Size
<1>5. Concats(D)
  BY ConcatProperties DEF Concats
<1>6. Len(s) = i /\ Len(r) = i - 1 /\ \A j \in 1..(i - 1) : r[j] = s[j]
  BY <1>1
<1> HIDE DEF s, r
<1>7. Parts(D, (i - 1) + 1, s)
  BY <1>1, <1>2, <1>6, Zenon DEF Parts
<1> HIDE DEF D
<1>8. /\ i - 1 # 0 => FlattenSeq(r) \in D /\ FlattenSeq(s) = FlattenSeq(r) \o s[(i - 1) + 1]
      /\ i - 1 = 0 => FlattenSeq(s) = s[1]
      /\ FlattenSeq(s) \in D
  BY <1>1, <1>5, <1>6, <1>7, FlattenAppend, Zenon
<1>9. s[i] = message(bodies[i])
  BY <1>1, <1>2
<1>10. CASE i = 1
  <2>1. FlattenSeq(s) = message(bodies[1])
    BY <1>8, <1>9, <1>10
  <2>2. start(i) = 0
    <3>1. Len(r) = 0
      BY <1>6, <1>10
    <3>2. FlattenSeq(r) = r
      BY <3>1, Zenon DEF FlattenSeq
    <3> QED BY <1>3, <3>1, <3>2 DEF start
  <2>3. start(i + 1) = Size(1)
    BY <1>3, <1>4, <1>10, <2>1 DEF start
  <2> QED BY <1>3, <1>4, <1>8, <1>10, <2>1, <2>2, <2>3 DEF D
<1>11. CASE i # 1
  <2>1. before(i) \in D /\ before(i + 1) = before(i) \o message(bodies[i])
    <3>1. i - 1 # 0
      BY <1>1, <1>11
    <3> QED BY <1>1, <1>3, <1>8, <1>9, <3>1, Zenon
  <2>2. /\ Len(before(i + 1)) = Len(before(i)) + Size(i) /\ Len(before(i)) \in Nat
        /\ \A x \in 1..Len(before(i)) : before(i + 1)[x] = before(i)[x]
        /\ \A k \in 1..Size(i) : before(i + 1)[Len(before(i)) + k] = message(bodies[i])[k]
    <3>1. Joins(before(i + 1), before(i), message(bodies[i]))
      BY <1>4, <2>1, Cat, Zenon DEF D
    <3> QED BY <1>4, <3>1, Zenon DEF Joins
  <2> QED BY <1>3, <1>8, <2>2 DEF D, start
<1> QED BY <1>10, <1>11

(* Where the messages begin.                                               *)
Layout(n) ==
  /\ n = Len(bodies) /\ n \in Nat /\ start(1) = 0
  /\ \A i \in 1..(n + 1) : start(i) \in Nat
  /\ \A i \in 1..n : Size(i) \in Nat /\ Size(i) > MarkerLen /\ start(i + 1) = start(i) + Size(i)
  /\ \A i, j \in 1..(n + 1) : i < j => start(i) + Size(i) <= start(j)

(* Layout() holds: each message begins where the one before it ends.       *)
LEMMA LaidOut == ASSUME run \in Runs PROVE Layout(Len(bodies))
<1> DEFINE n == Len(bodies)
<1>1. n \in Nat /\ Messages = 1..n
  BY Bodies, Zenon
<1> HIDE DEF n
<1>2. ASSUME NEW i \in 1..n
      PROVE  /\ Size(i) \in Nat /\ Size(i) > MarkerLen
             /\ start(i) \in Nat /\ start(i + 1) = start(i) + Size(i)
  BY <1>1, Bodies, BeforeStep, Zenon
<1>3. start(1) = 0
  <2> DEFINE s == [j \in 1..(1 - 1) |-> message(bodies[j])]
  <2>1. Len(s) = 0
    OBVIOUS
  <2>2. before(1) = FlattenSeq(s)
    BY Zenon DEF before
  <2> HIDE DEF s
  <2>3. FlattenSeq(s) = s
    BY <2>1, Zenon DEF FlattenSeq
  <2> QED BY <2>1, <2>2, <2>3 DEF start
<1>4. ASSUME NEW i \in 1..(n + 1) PROVE start(i) \in Nat
  <2>1. CASE i = 1
    BY <1>3, <2>1
  <2>2. CASE i # 1
    <3>1. i - 1 \in 1..n /\ (i - 1) + 1 = i
      BY <1>1, <2>2
    <3>2. start(i - 1) \in Nat /\ Size(i - 1) \in Nat /\ start(i) = start(i - 1) + Size(i - 1)
      BY <1>2, <3>1
    <3> QED BY <3>2
  <2> QED BY <2>1, <2>2
<1>5. ASSUME NEW i \in 1..(n + 1), NEW j \in 1..(n + 1), i < j
      PROVE  start(i) + Size(i) <= start(j)
  <2> DEFINE T == {k \in 1..(n + 1) : i < k /\ ~(start(i) + Size(i) <= start(k))}
  <2>1. T = {}
    <3> SUFFICES ASSUME T # {} PROVE FALSE
      OBVIOUS
    <3>1. PICK k \in T : \A y \in T : k <= y
      <4>1. T \subseteq Nat
        BY <1>1
      <4> HIDE DEF T
      <4> QED BY <4>1, Least
    <3>2. k \in 1..(n + 1) /\ i < k /\ ~(start(i) + Size(i) <= start(k))
      OBVIOUS
    <3>3. k - 1 \in 1..n /\ (k - 1) + 1 = k /\ k - 1 \in 1..(n + 1) /\ ~(k <= k - 1)
      BY <1>1, <3>2
    <3>4. start(k) = start(k - 1) + Size(k - 1) /\ Size(k - 1) \in Nat /\ start(k - 1) \in Nat
      BY <1>2, <3>3
    <3>5. i # k - 1
      BY <3>2, <3>4
    <3>6. start(i) + Size(i) <= start(k - 1)
      <4>1. k - 1 \notin T
        <5> HIDE DEF T
        <5> QED BY <3>1, <3>3
      <4>2. i < k - 1
        BY <1>1, <3>2, <3>5
      <4> QED BY <3>3, <4>1, <4>2
    <3>7. i \in 1..n
      BY <1>1, <3>2
    <3>8. start(i) + Size(i) \in Nat /\ start(k) \in Nat
      BY <1>2, <1>4, <3>2, <3>7
    <3> HIDE DEF T
    <3> QED BY <3>2, <3>4, <3>6, <3>8
  <2> QED BY <1>5, <2>1, Zenon
<1>6. Layout(n)
  BY <1>1, <1>2, <1>3, <1>4, <1>5 DEF Layout, n
<1> QED BY <1>6 DEF n

(* Every offset of the file is in a message.                               *)
LEMMA Locate ==
  ASSUME NEW n, Layout(n), NEW x \in Nat, x < start(n + 1)
  PROVE  \E i \in 1..n : start(i) <= x /\ x < start(i + 1)
<1>1. /\ n \in Nat /\ start(1) = 0 /\ \A i \in 1..(n + 1) : start(i) \in Nat
  BY DEF Layout
<1> DEFINE T == {k \in 1..(n + 1) : x < start(k)}
<1>2. PICK k \in T : \A y \in T : k <= y
  <2>1. T \subseteq Nat /\ n + 1 \in T
    BY <1>1
  <2> HIDE DEF T
  <2> QED BY <2>1, Least
<1>3. k \in 1..(n + 1) /\ x < start(k)
  OBVIOUS
<1>4. k # 1
  BY <1>1, <1>3
<1>5. k - 1 \in 1..n /\ (k - 1) + 1 = k /\ ~(k <= k - 1) /\ k - 1 \in 1..(n + 1)
  BY <1>1, <1>3, <1>4
<1>6. ~(x < start(k - 1))
  BY <1>2, <1>5
<1> HIDE DEF T
<1>7. start(k - 1) <= x
  BY <1>1, <1>5, <1>6
<1> QED BY <1>3, <1>5, <1>7

(* What is in the file.                                                    *)
Text(n) ==
  /\ Len(buf) = start(n + 1)
  /\ \A i \in 1..n :
       /\ \A k \in 0..(MarkerLen - 1) : octet(start(i) + k) = FF
       /\ octet(start(i) + MarkerLen) = Size(i)
       /\ \A j \in 1..Len(bodies[i]) : octet(start(i) + (MarkerLen + j)) = bodies[i][j]

(* Text() holds: the file is what the messages were.                       *)
LEMMA Written ==
  ASSUME run \in Runs, NEW n, Layout(n), buf = before(n + 1)
  PROVE  Text(n) /\ (n # 0 => buf \in Seq(Int))
<1>1. /\ n = Len(bodies) /\ n \in Nat /\ \A i \in 1..(n + 1) : start(i) \in Nat
      /\ \A i \in 1..n : Size(i) \in Nat /\ Size(i) > MarkerLen /\ start(i + 1) = start(i) + Size(i)
      /\ \A i, j \in 1..(n + 1) : i < j => start(i) + Size(i) <= start(j)
      /\ Messages = 1..n
  BY Bodies DEF Layout
<1>2. Len(buf) = start(n + 1)
  BY Zenon DEF start
<1>3. ASSUME NEW i \in 1..n, NEW k \in 1..Size(i) PROVE buf[start(i) + k] = message(bodies[i])[k]
  <2> DEFINE T == {m \in 1..n : i <= m /\ before(m + 1)[start(i) + k] # message(bodies[i])[k]}
  <2>1. T = {}
    <3> SUFFICES ASSUME T # {} PROVE FALSE
      OBVIOUS
    <3>1. PICK m \in T : \A y \in T : m <= y
      <4>1. T \subseteq Nat
        BY <1>1
      <4> HIDE DEF T
      <4> QED BY <4>1, Least
    <3>2. m \in 1..n /\ i <= m /\ before(m + 1)[start(i) + k] # message(bodies[i])[k]
      OBVIOUS
    <3>3. /\ \A x \in 1..start(m) : before(m + 1)[x] = before(m)[x]
          /\ \A l \in 1..Size(m) : before(m + 1)[start(m) + l] = message(bodies[m])[l]
      BY <1>1, <3>2, BeforeStep, Zenon
    <3>4. i # m
      BY <3>2, <3>3
    <3>5. /\ m - 1 \in 1..n /\ i <= m - 1 /\ ~(m <= m - 1) /\ (m - 1) + 1 = m
          /\ i \in 1..(n + 1) /\ m \in 1..(n + 1) /\ i < m
      BY <1>1, <3>2, <3>4
    <3>6. m - 1 \notin T
      <4> HIDE DEF T
      <4> QED BY <3>1, <3>5
    <3>7. before(m)[start(i) + k] = message(bodies[i])[k]
      BY <3>5, <3>6
    <3>8. start(i) + k \in 1..start(m)
      <4>1. start(i) + Size(i) <= start(m) /\ start(i) \in Nat /\ start(m) \in Nat /\ Size(i) \in Nat
        BY <1>1, <3>5
      <4> QED BY <4>1
    <3> HIDE DEF T
    <3> QED BY <3>2, <3>3, <3>7, <3>8, Zenon
  <2>2. n \in 1..n /\ i <= n
    BY <1>1
  <2> QED BY <2>1, <2>2
<1>4. ASSUME NEW i \in 1..n, NEW k \in 0..(Size(i) - 1)
      PROVE  octet(start(i) + k) = message(bodies[i])[k + 1]
  <2>1. /\ start(i) \in Nat /\ Size(i) \in Nat /\ start(n + 1) \in Nat
        /\ start(i) + Size(i) <= start(n + 1) /\ k + 1 \in 1..Size(i)
    <3>1. n + 1 \in 1..(n + 1) /\ i \in 1..(n + 1) /\ i < n + 1
      BY <1>1
    <3> QED BY <1>1, <3>1
  <2>2. start(i) + k < Len(buf) /\ (start(i) + k) + 1 = start(i) + (k + 1)
    BY <1>2, <2>1
  <2>3. octet(start(i) + k) = buf[start(i) + (k + 1)]
    BY <2>2, Zenon DEF octet
  <2> QED BY <1>3, <2>1, <2>3, Zenon
<1>5. ASSUME NEW i \in 1..n
      PROVE  /\ \A k \in 0..(MarkerLen - 1) : octet(start(i) + k) = FF
             /\ octet(start(i) + MarkerLen) = Size(i)
             /\ \A j \in 1..Len(bodies[i]) : octet(start(i) + (MarkerLen + j)) = bodies[i][j]
  <2> DEFINE len == Len(bodies[i])
  <2>1. /\ \A k \in 1..MarkerLen : message(bodies[i])[k] = FF
        /\ message(bodies[i])[MarkerLen + 1] = MarkerLen + 1 + Len(bodies[i])
        /\ \A j \in 1..len : message(bodies[i])[MarkerLen + 1 + j] = bodies[i][j]
        /\ len \in Nat
    BY <1>1, Bodies, MessageIs
  <2>2. Size(i) = MarkerLen + 1 + len
    BY DEF Size
  <2> HIDE DEF len
  <2>3. ASSUME NEW k \in 0..(MarkerLen - 1) PROVE octet(start(i) + k) = FF
    <3>1. k \in 0..(Size(i) - 1) /\ k + 1 \in 1..MarkerLen
      BY <2>1, <2>2, Constants
    <3> QED BY <1>4, <2>1, <3>1, Zenon
  <2>4. octet(start(i) + MarkerLen) = Size(i)
    <3>1. MarkerLen \in 0..(Size(i) - 1)
      BY <2>1, <2>2, Constants
    <3> QED BY <1>4, <2>1, <2>2, <3>1, Zenon DEF len
  <2>5. ASSUME NEW j \in 1..len PROVE octet(start(i) + (MarkerLen + j)) = bodies[i][j]
    <3>1. MarkerLen + j \in 0..(Size(i) - 1) /\ (MarkerLen + j) + 1 = MarkerLen + 1 + j
      BY <2>1, <2>2, Constants
    <3> QED BY <1>4, <2>1, <3>1, Zenon
  <2> QED BY <2>3, <2>4, <2>5 DEF len
<1>6. ASSUME n # 0 PROVE buf \in Seq(Int)
  <2>1. n \in Messages
    BY <1>1, <1>6
  <2> QED BY <2>1, BeforeStep
<1>7. Text(n)
  BY <1>2, <1>5, Zenon DEF Text
<1> QED BY <1>6, <1>7

-----------------------------------------------------------------------------
(* The 0xff octets at the end of body i, of which t is the number.         *)
Trailing(i, t) ==
  /\ t \in Nat /\ t <= Len(bodies[i]) /\ t <= MarkerLen - 1
  /\ \A k \in (Len(bodies[i]) - t + 1)..Len(bodies[i]) : bodies[i][k] = FF
  /\ \A j \in 1..Len(bodies[i]) :
       (\A k \in j..Len(bodies[i]) : bodies[i][k] = FF) => Len(bodies[i]) - j + 1 <= t

(* tail() counts them.                                                     *)
LEMMA Tails == ASSUME run \in Runs, NEW i \in Messages PROVE Trailing(i, tail(i))
<1> DEFINE body == bodies[i]
           len == Len(body)
           S == {j \in DOMAIN body : \A k \in j..Len(body) : body[k] = FF}
<1>1. len \in Nat /\ DOMAIN body = 1..len
  <2>1. body \in Seq({0, Bare, FF})
    BY Bodies
  <2> HIDE DEF body
  <2> QED BY <2>1
<1>2. \A j \in 1..len : \E k \in 0..(MarkerLen - 1) : j + k > len \/ body[j + k] # FF
  BY Bodies, Zenon
<1>3. tail(i) = Cardinality(S)
  BY Zenon DEF tail
<1>4. S = {j \in 1..len : \A k \in j..len : body[k] = FF}
  BY <1>1, Zenon
<1> HIDE DEF body, S, len
<1>5. CASE S = {}
  <2>1. tail(i) = 0
    BY <1>3, <1>5, FS_EmptySet, Zenon
  <2>2. ASSUME NEW j \in 1..len, \A k \in j..len : body[k] = FF PROVE FALSE
    BY <1>4, <1>5, <2>2, Zenon
  <2>3. 0 <= len /\ 0 <= MarkerLen - 1 /\ \A k \in (len - 0 + 1)..len : body[k] = FF
    BY <1>1, Constants
  <2>4. 0 \in Nat
    OBVIOUS
  <2>5. Trailing(i, 0)
    BY <2>2, <2>3, <2>4, Zenon DEF Trailing, len, body
  <2> QED BY <2>1, <2>5
<1>6. CASE S # {}
  <2>1. PICK m \in S : \A y \in S : m <= y
    <3>1. S \subseteq Nat
      BY <1>1, <1>4
    <3> QED BY <1>6, <3>1, Least
  <2>2. m \in 1..len /\ \A k \in m..len : body[k] = FF
    BY <1>4, Zenon
  <2>3. S = m..len
    <3>1. ASSUME NEW j \in S PROVE j \in m..len
      BY <1>1, <1>4, <2>1, <2>2
    <3>2. ASSUME NEW j \in m..len PROVE j \in S
      <4>1. j \in 1..len /\ \A k \in j..len : k \in m..len
        BY <1>1, <2>2
      <4> QED BY <1>4, <2>2, <4>1, Zenon
    <3> QED BY <3>1, <3>2
  <2>4. tail(i) = len - m + 1
    <3>1. m \in Int /\ len \in Int /\ m <= len
      BY <1>1, <2>2
    <3>2. Cardinality(m..len) = IF m > len THEN 0 ELSE len - m + 1
      BY <3>1, FS_Interval, Zenon
    <3> QED BY <1>3, <2>3, <3>1, <3>2
  <2>5. len - m + 1 \in Nat /\ len - m + 1 <= len /\ len - (len - m + 1) + 1 = m
    BY <1>1, <2>2
  <2>6. len - m + 1 <= MarkerLen - 1
    <3>1. PICK k \in 0..(MarkerLen - 1) : m + k > len \/ body[m + k] # FF
      BY <1>2, <2>2
    <3>2. m + k > len
      <4>1. ASSUME m + k <= len PROVE FALSE
        <5>1. m + k \in m..len
          BY <1>1, <2>2, <4>1, Constants
        <5> QED BY <2>2, <3>1, <4>1, <5>1, <1>1, Constants
      <4> QED BY <1>1, <2>2, <4>1, Constants
    <3> QED BY <1>1, <2>2, <3>2, Constants
  <2>7. ASSUME NEW j \in 1..len, \A k \in j..len : body[k] = FF PROVE len - j + 1 <= len - m + 1
    <3>1. j \in S
      BY <1>4, <2>7, Zenon
    <3> QED BY <1>1, <2>1, <2>2, <3>1
  <2> QED BY <2>2, <2>4, <2>5, <2>6, <2>7, Zenon DEF Trailing, len, body
<1> QED BY <1>5, <1>6

(* The octets at the end of a body are 0xff from some offset on exactly if *)
(* they are among the last tail().                                         *)
LEMMA TailOctets ==
  ASSUME run \in Runs, NEW n, Layout(n), Text(n), NEW i \in 1..n
  PROVE  /\ tail(i) \in Nat /\ tail(i) <= MarkerLen - 1
         /\ start(i) + MarkerLen < start(i + 1) - tail(i)
         /\ \A o \in Nat : start(i + 1) - tail(i) <= o /\ o < start(i + 1) => octet(o) = FF
         /\ \A x \in Nat : /\ start(i) + MarkerLen < x /\ x < start(i + 1)
                           /\ \A o \in x..(start(i + 1) - 1) : octet(o) = FF
                           => start(i + 1) - x <= tail(i)
         /\ \A x \in Nat : start(i) + MarkerLen < x /\ x + MarkerLen <= start(i + 1)
                           => \E o \in x..(x + MarkerLen - 1) : octet(o) # FF
<1> DEFINE len == Len(bodies[i])
           t == tail(i)
           body == bodies[i]
<1>1. /\ start(i) \in Nat /\ start(i + 1) = start(i) + Size(i) /\ Size(i) = MarkerLen + 1 + len
      /\ MarkerLen \in Nat /\ i \in Messages
  <2>1. i \in 1..(n + 1) /\ n \in Nat
    BY DEF Layout
  <2>2. i \in Messages
    BY <2>1, Bodies DEF Layout
  <2> QED BY <2>1, <2>2, Constants DEF Layout, Size
<1>2. len \in Nat
  BY <1>1, Bodies, Zenon
<1>3. \A j \in 1..len : octet(start(i) + (MarkerLen + j)) = body[j]
  BY Zenon DEF Text
<1>4. /\ t \in Nat /\ t <= len /\ t <= MarkerLen - 1
      /\ \A k \in (len - t + 1)..len : body[k] = FF
      /\ \A j \in 1..len : (\A k \in j..len : body[k] = FF) => len - j + 1 <= t
  BY <1>1, Tails, Zenon DEF Trailing
<1>4a. \A j \in 1..len : \E k \in 0..(MarkerLen - 1) : j + k > len \/ body[j + k] # FF
  BY <1>1, Bodies, Zenon
<1> HIDE DEF len, t, body
<1>5. ASSUME NEW o \in Nat, start(i + 1) - t <= o, o < start(i + 1)
      PROVE  octet(o) = FF
  <2> DEFINE j == o - start(i) - MarkerLen
  <2>1. j \in 1..len /\ j \in (len - t + 1)..len /\ o = start(i) + (MarkerLen + j)
    BY <1>1, <1>2, <1>4, <1>5
  <2> HIDE DEF j
  <2> QED BY <1>3, <1>4, <2>1, Zenon
<1>6. ASSUME NEW x \in Nat, start(i) + MarkerLen < x, x < start(i + 1),
             \A o \in x..(start(i + 1) - 1) : octet(o) = FF
      PROVE  start(i + 1) - x <= t
  <2> DEFINE j == x - start(i) - MarkerLen
  <2>1. j \in 1..len /\ start(i + 1) - x = len - j + 1
    BY <1>1, <1>2, <1>6
  <2>2. ASSUME NEW k \in j..len PROVE body[k] = FF
    <3>1. k \in 1..len /\ start(i) + (MarkerLen + k) \in x..(start(i + 1) - 1)
      BY <1>1, <1>2, <2>1
    <3> QED BY <1>3, <1>6, <3>1, Zenon
  <2> HIDE DEF j
  <2> QED BY <1>4, <2>1, <2>2
<1>7. start(i) + MarkerLen < start(i + 1) - t
  BY <1>1, <1>2, <1>4
<1>8. ASSUME NEW x \in Nat, start(i) + MarkerLen < x, x + MarkerLen <= start(i + 1)
      PROVE  \E o \in x..(x + MarkerLen - 1) : octet(o) # FF
  <2> DEFINE j == x - start(i) - MarkerLen
  <2>1. j \in 1..len
    BY <1>1, <1>2, <1>8, Constants
  <2>2. PICK k \in 0..(MarkerLen - 1) : j + k > len \/ body[j + k] # FF
    <3> HIDE DEF j
    <3> QED BY <1>4a, <2>1, Zenon
  <2>3. /\ j + k \in 1..len /\ x + k \in x..(x + MarkerLen - 1)
        /\ start(i) + (MarkerLen + (j + k)) = x + k
    BY <1>1, <1>2, <1>8, <2>1, Constants
  <2>4. ~(j + k > len)
    BY <1>2, <2>3
  <2> HIDE DEF j
  <2> QED BY <1>3, <2>2, <2>3, <2>4, Zenon
<1> QED BY <1>4, <1>5, <1>6, <1>7, <1>8, Zenon DEF t

(* All that is needed of the file.                                         *)
Trail(n) ==
  \A i \in 1..n :
     /\ tail(i) \in Nat /\ tail(i) <= MarkerLen - 1
     /\ start(i) + MarkerLen < start(i + 1) - tail(i)
     /\ \A o \in Nat : start(i + 1) - tail(i) <= o /\ o < start(i + 1) => octet(o) = FF
     /\ \A x \in Nat : /\ start(i) + MarkerLen < x /\ x < start(i + 1)
                       /\ \A o \in x..(start(i + 1) - 1) : octet(o) = FF
                       => start(i + 1) - x <= tail(i)
     /\ \A x \in Nat : start(i) + MarkerLen < x /\ x + MarkerLen <= start(i + 1)
                       => \E o \in x..(x + MarkerLen - 1) : octet(o) # FF
     /\ Size(i) < FF

(* Trail() holds.                                                          *)
LEMMA Trails == ASSUME run \in Runs, NEW n, Layout(n), Text(n) PROVE Trail(n)
<1>1. \A i \in 1..n : i \in Messages
  BY Bodies DEF Layout
<1>2. \A i \in 1..n : Size(i) < FF
  BY <1>1, Bodies, Zenon
<1> QED BY <1>2, TailOctets, Zenon DEF Trail

(* A marker is 0xff throughout.                                            *)
LEMMA MarkerOctets ==
  ASSUME NEW o \in Nat
  PROVE  IsMarker(o) <=> \A x \in o..(o + MarkerLen - 1) : octet(x) = FF
<1>1. ASSUME IsMarker(o), NEW x \in o..(o + MarkerLen - 1) PROVE octet(x) = FF
  <2>1. x - o \in 0..(MarkerLen - 1) /\ o + (x - o) = x
    BY Constants
  <2>2. octet(o + (x - o)) = FF
    BY <1>1, <2>1, Zenon DEF IsMarker
  <2> QED BY <2>1, <2>2
<1>2. ASSUME \A x \in o..(o + MarkerLen - 1) : octet(x) = FF PROVE IsMarker(o)
  <2>1. \A i \in 0..(MarkerLen - 1) : o + i \in o..(o + MarkerLen - 1)
    BY Constants
  <2> QED BY <1>2, <2>1, Zenon DEF IsMarker
<1> QED BY <1>1, <1>2

(* Where a marker may be found for message i: where it is, or earlier in   *)
(* the 0xff octets before it.                                              *)
lead(i) == IF i = 1 THEN 0 ELSE tail(i - 1)
Near(o, i) == start(i) - lead(i) <= o /\ o <= start(i)

(* What comes before a marker.                                             *)
LEMMA Leads ==
  ASSUME NEW n, Layout(n), Text(n), Trail(n), NEW i \in 1..n
  PROVE  /\ lead(i) \in Nat /\ lead(i) <= MarkerLen - 1 /\ start(i) \in Nat
         /\ \A o \in Nat : start(i) - lead(i) <= o /\ o < start(i) => octet(o) = FF
         /\ i > 1 => start(i - 1) + MarkerLen < start(i) - lead(i)
<1>1. start(i) \in Nat /\ i \in Nat /\ n \in Nat
  BY DEF Layout
<1>2. CASE i = 1
  BY <1>1, <1>2, Constants DEF lead
<1>3. CASE i # 1
  <2>1. i - 1 \in 1..n /\ (i - 1) + 1 = i
    BY <1>1, <1>3
  <2>2. lead(i) = tail(i - 1)
    BY <1>3 DEF lead
  <2>3. /\ tail(i - 1) \in Nat /\ tail(i - 1) <= MarkerLen - 1
        /\ start(i - 1) + MarkerLen < start((i - 1) + 1) - tail(i - 1)
        /\ \A o \in Nat : start((i - 1) + 1) - tail(i - 1) <= o /\ o < start((i - 1) + 1) => octet(o) = FF
    BY <2>1, Zenon DEF Trail
  <2> QED BY <1>1, <2>1, <2>2, <2>3
<1> QED BY <1>2, <1>3

(* There is a marker wherever one may be found.                            *)
LEMMA MarkerIs ==
  ASSUME NEW n, Layout(n), Text(n), Trail(n), NEW i \in 1..n, NEW o \in Nat, Near(o, i)
  PROVE  IsMarker(o)
<1>1. /\ lead(i) \in Nat /\ lead(i) <= MarkerLen - 1 /\ start(i) \in Nat
      /\ \A x \in Nat : start(i) - lead(i) <= x /\ x < start(i) => octet(x) = FF
  BY Leads, Zenon
<1>2. start(i) - lead(i) <= o /\ o <= start(i)
  BY DEF Near
<1>3. ASSUME NEW x \in o..(o + MarkerLen - 1) PROVE octet(x) = FF
  <2>1. CASE x < start(i)
    BY <1>1, <1>2, <2>1
  <2>2. CASE ~(x < start(i))
    <3>1. x - start(i) \in 0..(MarkerLen - 1) /\ start(i) + (x - start(i)) = x
      BY <1>1, <1>2, <2>2, Constants
    <3>2. octet(start(i) + (x - start(i))) = FF
      BY <3>1, Zenon DEF Text
    <3> QED BY <3>1, <3>2
  <2> QED BY <2>1, <2>2
<1> QED BY <1>3, MarkerOctets, Zenon

(* No marker begins inside a message before the 0xff octets at its end.    *)
LEMMA Inside ==
  ASSUME NEW n, Layout(n), Text(n), Trail(n), NEW i \in 1..n, NEW o \in Nat,
         start(i) < o, o < start(i + 1), IsMarker(o)
  PROVE  start(i + 1) - tail(i) <= o /\ start(i + 1) < o + MarkerLen
<1>1. /\ start(i) \in Nat /\ start(i + 1) \in Nat /\ MarkerLen \in Nat /\ MarkerLen >= 1
      /\ tail(i) \in Nat /\ tail(i) <= MarkerLen - 1
      /\ start(i) + MarkerLen < start(i + 1) - tail(i)
      /\ octet(start(i) + MarkerLen) = Size(i) /\ Size(i) \in Nat /\ Size(i) < FF
      /\ \A x \in Nat : /\ start(i) + MarkerLen < x /\ x < start(i + 1)
                        /\ \A y \in x..(start(i + 1) - 1) : octet(y) = FF
                        => start(i + 1) - x <= tail(i)
  <2>1. i \in 1..(n + 1) /\ i + 1 \in 1..(n + 1)
    BY DEF Layout
  <2>2. start(i) \in Nat /\ start(i + 1) \in Nat /\ Size(i) \in Nat
    BY <2>1, Zenon DEF Layout
  <2>3. octet(start(i) + MarkerLen) = Size(i)
    BY Zenon DEF Text
  <2>4. MarkerLen \in Nat /\ MarkerLen >= 1
    BY Constants, Zenon
  <2> QED BY <2>2, <2>3, <2>4, Zenon DEF Trail
<1>2. \A x \in o..(o + MarkerLen - 1) : octet(x) = FF
  BY MarkerOctets, Zenon
<1>3. start(i) + MarkerLen < o
  <2> SUFFICES ASSUME ~(start(i) + MarkerLen < o) PROVE FALSE
    OBVIOUS
  <2>1. start(i) + MarkerLen \in o..(o + MarkerLen - 1)
    BY <1>1
  <2>2. octet(start(i) + MarkerLen) = FF
    BY <1>2, <2>1, Zenon
  <2> QED BY <1>1, <2>2, Constants
<1>4. start(i + 1) < o + MarkerLen
  <2> SUFFICES ASSUME ~(start(i + 1) < o + MarkerLen) PROVE FALSE
    OBVIOUS
  <2>1. o + MarkerLen <= start(i + 1)
    BY <1>1
  <2>2. \E x \in o..(o + MarkerLen - 1) : octet(x) # FF
    BY <1>3, <2>1, Zenon DEF Trail
  <2> QED BY <1>2, <2>2, Zenon
<1>5. ASSUME NEW y \in o..(start(i + 1) - 1) PROVE octet(y) = FF
  <2>1. y \in o..(o + MarkerLen - 1)
    BY <1>1, <1>4
  <2> QED BY <1>2, <2>1, Zenon
<1>6. start(i + 1) - o <= tail(i)
  BY <1>1, <1>3, <1>5, Zenon
<1> QED BY <1>1, <1>4, <1>6

(* All of it.                                                              *)
Shape(n) == Layout(n) /\ Text(n) /\ Trail(n)

(* The end of the file.                                                    *)
LEMMA Extent ==
  ASSUME NEW n, Layout(n), Text(n)
  PROVE  /\ n \in Nat /\ Len(buf) = start(n + 1) /\ Len(buf) \in Nat /\ n = Len(bodies)
         /\ n = 0 => Len(buf) = 0
         /\ n # 0 => start(n) + MarkerLen < Len(buf) /\ start(n) \in Nat
<1>1. /\ n \in Nat /\ Len(buf) = start(n + 1) /\ start(1) = 0 /\ n + 1 \in 1..(n + 1) /\ n = Len(bodies)
      /\ \A i \in 1..(n + 1) : start(i) \in Nat
  BY DEF Layout, Text
<1>2. CASE n = 0
  BY <1>1, <1>2
<1>3. CASE n # 0
  <2>1. n \in 1..n /\ n \in 1..(n + 1)
    BY <1>1, <1>3
  <2>2. start(n) \in Nat /\ Size(n) \in Nat /\ Size(n) > MarkerLen /\ start(n + 1) = start(n) + Size(n)
    BY <2>1, Zenon DEF Layout
  <2> QED BY <1>1, <1>3, <2>2, Constants
<1> QED BY <1>2, <1>3

(* Those are all the markers.                                              *)
LEMMA MarkerFound ==
  ASSUME NEW n, Layout(n), Text(n), Trail(n), NEW o \in Nat, o + MarkerLen <= Len(buf), IsMarker(o)
  PROVE  \E i \in 1..n : Near(o, i)
<1>1. n \in Nat /\ Len(buf) = start(n + 1) /\ Len(buf) \in Nat
  BY Extent, Zenon
<1>2. PICK i \in 1..n : start(i) <= o /\ o < start(i + 1)
  <2>1. o < start(n + 1)
    BY <1>1, Constants
  <2> QED BY <2>1, Locate
<1>3. start(i) \in Nat /\ lead(i) \in Nat
  BY Leads, Zenon
<1>4. CASE o = start(i)
  BY <1>3, <1>4 DEF Near
<1>5. CASE o # start(i)
  <2>1. start(i + 1) - tail(i) <= o /\ start(i + 1) < o + MarkerLen
    <3>1. start(i) < o
      BY <1>2, <1>3, <1>5
    <3> QED BY <1>2, <3>1, Inside, Zenon
  <2>2. i # n
    <3>1. start(i + 1) \in Nat
      <4>1. i + 1 \in 1..(n + 1)
        BY <1>1
      <4> QED BY <4>1, Zenon DEF Layout
    <3> QED BY <1>1, <2>1, <3>1, Constants
  <2>3. i + 1 \in 1..n /\ lead(i + 1) = tail(i)
    BY <1>1, <2>2 DEF lead
  <2>4. Near(o, i + 1)
    <3>1. start(i + 1) \in Nat
      BY <2>3, Leads, Zenon
    <3> QED BY <1>2, <2>1, <2>3, <3>1 DEF Near
  <2> QED BY <2>3, <2>4
<1> QED BY <1>4, <1>5

(* But for the one that the octet behind the file completes.               *)
LEMMA EndMarkerFound ==
  ASSUME run \in Runs, NEW n, Layout(n), Text(n), Trail(n),
         NEW o \in Nat, o # 0, o + MarkerLen = Len(buf) + 1, IsMarker(o)
  PROVE  MarkerAtEnd
<1>1. n \in Nat /\ Len(buf) = start(n + 1) /\ Len(buf) \in Nat /\ n = Len(bodies) /\ (n = 0 => Len(buf) = 0)
  BY Extent, Zenon
<1>2. run.past = FF
  <2>1. Len(buf) \in o..(o + MarkerLen - 1) /\ ~(Len(buf) < Len(buf))
    BY <1>1, Constants
  <2>2. octet(Len(buf)) = FF
    BY <2>1, MarkerOctets, Zenon
  <2> QED BY <2>1, <2>2, Zenon DEF octet
<1>3. n # 0
  BY <1>1, Constants
<1>4. bodies # <<>>
  BY <1>1, <1>3
<1>5. n \in 1..n /\ tail(n) \in Nat
  <2>1. n \in 1..n
    BY <1>1, <1>3
  <2> QED BY <2>1, Zenon DEF Trail
<1>6. CASE MarkerLen = 1
  <2>1. tail(n) >= MarkerLen - 1
    BY <1>5, <1>6
  <2> QED BY <1>1, <1>2, <1>4, <2>1 DEF MarkerAtEnd
<1>7. CASE MarkerLen # 1
  <2>1. PICK i \in 1..n : start(i) <= o /\ o < start(i + 1)
    <3>1. o < start(n + 1)
      BY <1>1, <1>7, Constants
    <3> QED BY <3>1, Locate
  <2>2. /\ start(i) \in Nat /\ start(i + 1) \in Nat /\ start(n) + MarkerLen < start(n + 1)
        /\ i + 1 \in 1..(n + 1) /\ start(n) \in Nat /\ start(i) + MarkerLen < start(i + 1)
        /\ start(i + 1) <= start(n + 1)
    <3>1. n \in 1..(n + 1) /\ n + 1 \in 1..(n + 1) /\ i + 1 \in 1..(n + 1) /\ i \in 1..(n + 1)
      BY <1>1, <1>3
    <3>2. start(i) \in Nat /\ start(i + 1) \in Nat /\ start(n) \in Nat /\ start(n + 1) \in Nat
      BY <3>1, Zenon DEF Layout
    <3>3. /\ Size(i) \in Nat /\ Size(i) > MarkerLen /\ start(i + 1) = start(i) + Size(i)
          /\ Size(n) \in Nat /\ Size(n) > MarkerLen /\ start(n + 1) = start(n) + Size(n)
      BY <1>5, Zenon DEF Layout
    <3>4. start(i + 1) <= start(n + 1)
      <4>1. CASE i = n
        BY <3>2, <4>1
      <4>2. CASE i # n
        <5>1. i + 1 < n + 1
          BY <1>1, <4>2
        <5>2. start(i + 1) + Size(i + 1) <= start(n + 1)
          BY <3>1, <5>1, Zenon DEF Layout
        <5>3. i + 1 \in 1..n
          BY <1>1, <4>2
        <5>4. Size(i + 1) \in Nat
          BY <5>3, Zenon DEF Layout
        <5> QED BY <3>2, <5>2, <5>4
      <4> QED BY <4>1, <4>2
    <3> QED BY <3>1, <3>2, <3>3, <3>4, Constants
  <2>3. o # start(i)
    BY <1>1, <2>2, Constants
  <2>4. start(i + 1) - tail(i) <= o /\ start(i + 1) < o + MarkerLen
    <3>1. start(i) < o
      BY <2>1, <2>2, <2>3
    <3> QED BY <2>1, <3>1, Inside, Zenon
  <2>5. i = n
    <3> SUFFICES ASSUME i # n PROVE FALSE
      OBVIOUS
    <3>1. i + 1 \in 1..n
      BY <1>1
    <3>2. lead(i + 1) = tail(i)
      BY <3>1 DEF lead
    <3>3. start(i + 1) + MarkerLen < start(n + 1)
      <4>0. i + 1 \in 1..(n + 1) /\ n + 1 \in 1..(n + 1) /\ i + 1 < n + 1
        BY <1>1, <3>1
      <4>1. start(i + 1) + Size(i + 1) <= start(n + 1)
        BY <4>0, Zenon DEF Layout
      <4>2. Size(i + 1) \in Nat /\ Size(i + 1) > MarkerLen
        BY <3>1, Zenon DEF Layout
      <4> QED BY <1>1, <2>2, <4>1, <4>2, Constants
    <3> QED BY <1>1, <2>1, <2>2, <3>3, Constants
  <2>6. tail(n) >= MarkerLen - 1
    BY <1>1, <1>5, <2>4, <2>5, Constants
  <2> QED BY <1>1, <1>2, <1>4, <2>6 DEF MarkerAtEnd
<1> QED BY <1>6, <1>7

(* Where MarkerAtEnd says so, it completes one.                            *)
LEMMA EndMarkerIs ==
  ASSUME run \in Runs, NEW n, Layout(n), Text(n), Trail(n), MarkerAtEnd
  PROVE  /\ n # 0 /\ Len(buf) + 1 - MarkerLen \in Nat /\ Len(buf) + 1 - MarkerLen > start(n)
         /\ IsMarker(Len(buf) + 1 - MarkerLen)
<1>1. n \in Nat /\ Len(buf) = start(n + 1) /\ Len(buf) \in Nat /\ n = Len(bodies)
  BY Extent, Zenon
<1>2. n # 0 /\ run.past = FF /\ tail(n) >= MarkerLen - 1
  <2> DEFINE D == Seq({0, Bare, FF})
             b == bodies
  <2>1. b \in Seq(D)
    BY Bodies
  <2>2. b # <<>> /\ run.past = FF /\ tail(n) >= MarkerLen - 1
    BY <1>1 DEF MarkerAtEnd
  <2>3. Len(b) = n
    BY <1>1
  <2> HIDE DEF D, b
  <2>4. n # 0
    <3>1. Len(b) \in Nat \ {0}
      BY <2>1, <2>2, EmptySeq, Zenon
    <3> QED BY <2>3, <3>1
  <2> QED BY <2>2, <2>4
<1>3. start(n) + MarkerLen < Len(buf) /\ start(n) \in Nat
  BY <1>2, Extent
<1>4. n \in 1..n
  BY <1>1, <1>2
<1>5. /\ tail(n) \in Nat /\ \A o \in Nat : start(n + 1) - tail(n) <= o /\ o < start(n + 1) => octet(o) = FF
  BY <1>4, Zenon DEF Trail
<1> DEFINE b == Len(buf) + 1 - MarkerLen
<1>6. b \in Nat /\ b > start(n) /\ b >= start(n + 1) - tail(n) /\ b + MarkerLen - 1 = Len(buf)
  BY <1>1, <1>2, <1>3, <1>5, Constants
<1> HIDE DEF b
<1>7. ASSUME NEW x \in b..(b + MarkerLen - 1) PROVE octet(x) = FF
  <2>1. CASE x < Len(buf)
    BY <1>1, <1>5, <1>6, <2>1
  <2>2. CASE ~(x < Len(buf))
    BY <1>2, <2>2, Zenon DEF octet
  <2> QED BY <2>1, <2>2
<1>8. IsMarker(b)
  BY <1>6, <1>7, MarkerOctets, Zenon
<1> QED BY <1>2, <1>6, <1>8 DEF b

-----------------------------------------------------------------------------
(* Factors and products are in the same order.                             *)
LEMMA Product == ASSUME NEW a \in Nat, NEW b \in Nat, NEW c \in Nat, a <= b PROVE a * c <= b * c /\ a * c \in Nat /\ b * c \in Nat
<1>1. b - a \in Nat /\ (b - a) * c >= 0
  OBVIOUS
<1>2. (b - a) * c = b * c - a * c
  OBVIOUS
<1>3. a * c \in Nat /\ b * c \in Nat
  OBVIOUS
<1> QED BY <1>1, <1>2, <1>3

(* What \div does.                                                         *)
LEMMA Quotient ==
  ASSUME NEW a \in Nat, NEW m \in Nat \ {0}
  PROVE  a \div m \in Nat /\ (a \div m) * m <= a /\ a < (a \div m + 1) * m
OBVIOUS

(* The cuts are in order, and all but the last are inside the file.        *)
Cuts ==
  /\ \A p \in 0..npeers :
       /\ cut(p) \in Nat /\ cut(p) <= Len(buf)
       /\ p < npeers /\ Len(buf) # 0 => cut(p) < Len(buf)
  /\ cut(npeers) = Len(buf)
  /\ \A p, q \in 0..npeers : p <= q => cut(p) <= cut(q)

(* Cuts holds.                                                             *)
LEMMA InOrder == ASSUME Len(buf) \in Nat PROVE Cuts
<1> DEFINE size == Len(buf)
<1>1. size \in Nat
  OBVIOUS
<1>2. \A p : cut(p) = (p * size) \div npeers
  BY DEF cut
<1> HIDE DEF size
<1>3. ASSUME NEW p \in Nat
      PROVE  p * size \in Nat /\ cut(p) \in Nat /\ cut(p) * npeers <= p * size /\ p * size < (cut(p) + 1) * npeers
  <2> DEFINE a == p * size
  <2>1. a \in Nat
    BY <1>1
  <2> HIDE DEF a
  <2>2. (a \div npeers) \in Nat /\ (a \div npeers) * npeers <= a /\ a < (a \div npeers + 1) * npeers
    BY <2>1, Constants, Quotient
  <2> QED BY <1>2, <2>1, <2>2 DEF a
<1>3a. \A p \in Nat : cut(p) \in Nat
  BY <1>3, Zenon
<1>3b. npeers \in Nat /\ npeers >= 1
  BY Constants
<1>4. ASSUME NEW p \in Nat, NEW q \in Nat, p <= q PROVE cut(p) <= cut(q)
  <2> SUFFICES ASSUME cut(q) + 1 <= cut(p) PROVE FALSE
    BY <1>3
  <2>1. (cut(q) + 1) * npeers <= cut(p) * npeers
    <3>1. cut(q) + 1 \in Nat /\ cut(p) \in Nat /\ npeers \in Nat
      <4>1. \A i \in Nat : i + 1 \in Nat
        OBVIOUS
      <4> QED BY <1>3a, <1>3b, <4>1, Zenon
    <3> QED BY <3>1, Product, Zenon
  <2>2. p * size <= q * size
    BY <1>1, <1>4, Product, Zenon
  <2>3. cut(p) * npeers <= p * size /\ q * size < (cut(q) + 1) * npeers
    BY <1>3
  <2> DEFINE w == (cut(q) + 1) * npeers
             x == cut(p) * npeers
             y == p * size
             z == q * size
  <2>4. w \in Nat /\ x \in Nat /\ y \in Nat /\ z \in Nat
    <3>1. \A i, j \in Nat : i * j \in Nat
      OBVIOUS
    <3>2. cut(q) + 1 \in Nat /\ cut(p) \in Nat
      <4>1. \A i \in Nat : i + 1 \in Nat
        OBVIOUS
      <4> QED BY <1>3a, <4>1, Zenon
    <3> QED BY <1>1, <1>3b, <3>1, <3>2, Zenon
  <2>5. w <= x /\ y <= z /\ x <= y /\ z < w
    BY <2>1, <2>2, <2>3
  <2> HIDE DEF w, x, y, z
  <2> QED BY <2>4, <2>5
<1>5. cut(npeers) = size
  <2>1. npeers \in Nat /\ npeers >= 1 /\ cut(npeers) \in Nat
    BY <1>3, Constants
  <2>2. cut(npeers) * npeers <= npeers * size /\ npeers * size < (cut(npeers) + 1) * npeers
    BY <1>3, <2>1
  <2>3. ASSUME size + 1 <= cut(npeers) PROVE FALSE
    <3>1. (size + 1) * npeers <= cut(npeers) * npeers
      BY <1>1, <2>1, <2>3, Product
    <3>2. (size + 1) * npeers = npeers * size + npeers
      BY <1>1, <2>1
    <3> QED BY <1>1, <2>1, <2>2, <3>1, <3>2
  <2>4. ASSUME cut(npeers) + 1 <= size PROVE FALSE
    <3>1. (cut(npeers) + 1) * npeers <= size * npeers
      BY <1>1, <2>1, <2>4, Product
    <3> QED BY <1>1, <2>1, <2>2, <3>1
  <2> QED BY <1>1, <2>1, <2>3, <2>4
<1>6. ASSUME NEW p \in 0..npeers, p < npeers, size # 0 PROVE cut(p) < size
  <2>1. npeers \in Nat /\ p \in Nat /\ cut(p) \in Nat /\ p + 1 <= npeers /\ p + 1 \in Nat
    BY <1>3a, <1>3b, <1>6
  <2> SUFFICES ASSUME size <= cut(p) PROVE FALSE
    BY <1>1, <2>1
  <2>2. size * npeers <= cut(p) * npeers /\ cut(p) * npeers <= p * size
    BY <1>1, <1>3, <2>1, Product
  <2>3. (p + 1) * size <= npeers * size
    BY <1>1, <2>1, Product
  <2>4. (p + 1) * size = p * size + size /\ npeers * size = size * npeers
    BY <1>1, <2>1
  <2> QED BY <1>1, <1>6, <2>1, <2>2, <2>3, <2>4
<1>7. \A p \in 0..npeers : p \in Nat /\ npeers \in Nat /\ p <= npeers /\ npeers \in 0..npeers
  BY Constants
<1>8. \A p \in 0..npeers : cut(p) <= size
  BY <1>4, <1>5, <1>7
<1> QED BY <1>3, <1>4, <1>5, <1>6, <1>7, <1>8 DEF Cuts, size

(* Max() of a set that has a bound.                                        *)
LEMMA Greatest ==
  ASSUME NEW T, T \subseteq Nat, T # {}, NEW c \in Nat, \A y \in T : y <= c
  PROVE  Max(T) \in T /\ \A y \in T : y <= Max(T)
<1> DEFINE S == {x \in Nat : \E y \in T : x = c - y}
<1>1. PICK x \in S : \A z \in S : x <= z
  <2>1. S \subseteq Nat /\ S # {}
    <3>1. PICK y \in T : TRUE
      OBVIOUS
    <3>2. c - y \in S
      OBVIOUS
    <3> QED BY <3>2
  <2> HIDE DEF S
  <2> QED BY <2>1, Least
<1>2. PICK y \in T : x = c - y
  OBVIOUS
<1>3. ASSUME NEW z \in T PROVE y >= z
  <2>1. c - z \in S
    OBVIOUS
  <2>2. x <= c - z
    BY <1>1, <2>1
  <2> QED BY <1>2, <2>2
<1>4. /\ Max(T) \in T
      /\ \A z \in T : Max(T) >= z
  BY <1>3, Zenon DEF Max
<1> QED BY <1>4

(* Where the pieces end.                                                   *)
Bound(p) == IF p = 0 THEN 0 ELSE Max(marks(p))

(* They are markers, in order.                                             *)
Bounds ==
  /\ Bound(0) = 0
  /\ \A p \in 0..npeers : Bound(p) \in Nat /\ Bound(p) <= Len(buf)
  /\ \A p \in Peer : /\ Bound(p) >= 1 /\ Bound(p) + MarkerLen <= cut(p) + 1
                     /\ IsMarker(Bound(p))
                     /\ \A o \in marks(p) : o <= Bound(p)
  /\ \A p, q \in 0..npeers : p <= q => Bound(p) <= Bound(q)

(* marks(), without the ranges.                                            *)
LEMMA Mark ==
  ASSUME Len(buf) \in Nat, NEW p \in 0..npeers, NEW o
  PROVE  o \in marks(p) <=> o \in Nat /\ o >= 1 /\ o + MarkerLen <= cut(p) + 1 /\ IsMarker(o)
<1>1. cut(p) \in Nat
  BY InOrder, Zenon DEF Cuts
<1> QED BY <1>1, Constants DEF marks

(* Bounds holds once every cut has a marker before it.                     *)
LEMMA Bounding ==
  ASSUME Len(buf) \in Nat, \A p \in Peer : marks(p) # {}
  PROVE  Bounds
<1>1. Cuts /\ npeers \in Nat /\ MarkerLen \in Nat /\ MarkerLen >= 1
  BY InOrder, Constants
<1>2. ASSUME NEW p \in Peer
      PROVE  /\ Bound(p) \in marks(p) /\ \A o \in marks(p) : o <= Bound(p)
             /\ p \in 0..npeers /\ p # 0
  <2>1. p \in 0..npeers /\ p # 0
    BY <1>1 DEF Peer
  <2>2. cut(p) + 1 \in Nat
    BY <1>1, <2>1 DEF Cuts
  <2>3. marks(p) \subseteq Nat /\ \A o \in marks(p) : o <= cut(p) + 1
    BY <1>1, <2>1, <2>2, Mark
  <2>4. Max(marks(p)) \in marks(p) /\ \A o \in marks(p) : o <= Max(marks(p))
    BY <2>2, <2>3, Greatest
  <2> QED BY <2>1, <2>4 DEF Bound
<1>3. Bound(0) = 0
  BY DEF Bound
<1>4. ASSUME NEW p \in Peer
      PROVE  /\ Bound(p) \in Nat /\ Bound(p) >= 1 /\ Bound(p) + MarkerLen <= cut(p) + 1
             /\ IsMarker(Bound(p))
  BY <1>2, Mark
<1>5. \A p \in 0..npeers : p = 0 \/ p \in Peer
  BY <1>1 DEF Peer
<1>6. ASSUME NEW p \in 0..npeers PROVE Bound(p) \in Nat /\ Bound(p) <= Len(buf)
  <2>1. cut(p) \in Nat /\ cut(p) <= Len(buf)
    BY <1>1 DEF Cuts
  <2> QED BY <1>1, <1>3, <1>4, <1>5, <2>1
<1>7. ASSUME NEW p \in 0..npeers, NEW q \in 0..npeers, p <= q PROVE Bound(p) <= Bound(q)
  <2>1. CASE p = 0
    BY <1>3, <1>6, <2>1
  <2>2. CASE p # 0
    <3>1. p \in Peer /\ q \in Peer
      BY <1>1, <1>7, <2>2 DEF Peer
    <3>2. cut(p) <= cut(q) /\ cut(p) \in Nat /\ cut(q) \in Nat
      BY <1>1, <1>7 DEF Cuts
    <3>3. Bound(p) \in marks(q)
      <4>1. Bound(p) \in Nat /\ Bound(p) >= 1 /\ Bound(p) + MarkerLen <= cut(q) + 1 /\ IsMarker(Bound(p))
        BY <1>1, <1>4, <3>1, <3>2
      <4> QED BY <4>1, Mark
    <3> QED BY <1>2, <3>1, <3>3
  <2> QED BY <2>1, <2>2
<1> QED BY <1>2, <1>3, <1>4, <1>6, <1>7 DEF Bounds

(* The messages are further apart than a marker is long.                   *)
Apart(n) ==
  /\ n \in Nat /\ start(1) = 0
  /\ \A i \in 1..(n + 1) : start(i) \in Nat
  /\ \A i, j \in 1..(n + 1) : i < j => start(i) + MarkerLen < start(j)
  /\ \A i, j \in 1..(n + 1) : i <= j <=> start(i) <= start(j)

(* Apart() holds.                                                          *)
LEMMA SetApart == ASSUME NEW n, Layout(n) PROVE Apart(n)
<1>1. /\ n \in Nat /\ start(1) = 0
      /\ \A i \in 1..(n + 1) : start(i) \in Nat
      /\ \A i \in 1..n : Size(i) \in Nat /\ Size(i) > MarkerLen /\ start(i + 1) = start(i) + Size(i)
      /\ \A i, j \in 1..(n + 1) : i < j => start(i) + Size(i) <= start(j)
  BY Zenon DEF Layout
<1>2. ASSUME NEW i \in 1..(n + 1), NEW j \in 1..(n + 1), i < j PROVE start(i) + MarkerLen < start(j)
  <2>1. i \in 1..n
    BY <1>1, <1>2
  <2>2. Size(i) \in Nat /\ Size(i) > MarkerLen /\ start(i) + Size(i) <= start(j)
        /\ start(i) \in Nat /\ start(j) \in Nat
    BY <1>1, <1>2, <2>1
  <2> QED BY <2>2, Constants
<1>3. ASSUME NEW i \in 1..(n + 1), NEW j \in 1..(n + 1) PROVE i <= j <=> start(i) <= start(j)
  <2>1. start(i) \in Nat /\ start(j) \in Nat /\ i \in Nat /\ j \in Nat
    BY <1>1
  <2>2. CASE i = j
    BY <2>1, <2>2
  <2>3. CASE i < j
    BY <1>2, <2>1, <2>3, Constants
  <2>4. CASE j < i
    BY <1>2, <2>1, <2>4, Constants
  <2> QED BY <2>1, <2>2, <2>3, <2>4
<1> QED BY <1>1, <1>2, <1>3 DEF Apart

(* The last marker, at or near which the last piece ends.                  *)
LEMMA LastMark ==
  ASSUME run \in Runs, NEW n, Shape(n)
  PROVE  /\ n >= 2 => start(n) \in marks(npeers)
         /\ MarkerAtEnd => n # 0 /\ \E o \in marks(npeers) : o > start(n)
         /\ ~MarkerAtEnd => \A o \in marks(npeers) : n >= 2 /\ o <= start(n)
<1> USE DEF Shape
<1>1. /\ n \in Nat /\ Len(buf) = start(n + 1) /\ Len(buf) \in Nat /\ (n # 0 => start(n) + MarkerLen < Len(buf))
      /\ n + 1 \in 1..(n + 1)
  BY Extent
<1>2. cut(npeers) = Len(buf) /\ npeers \in 0..npeers
  BY <1>1, InOrder, Constants DEF Cuts
<1>3. Apart(n)
  BY SetApart
<1>4. ASSUME n >= 2 PROVE start(n) \in marks(npeers)
  <2>1. n \in 1..n /\ n \in 1..(n + 1) /\ 1 \in 1..(n + 1) /\ 1 < n
    BY <1>1, <1>4
  <2>2. start(n) \in Nat /\ start(1) + MarkerLen < start(n) /\ start(1) = 0
    BY <1>3, <2>1, Zenon DEF Apart
  <2>3. IsMarker(start(n))
    <3>1. Near(start(n), n)
      <4>1. lead(n) \in Nat
        BY <2>1, Leads, Zenon
      <4> QED BY <2>2, <4>1 DEF Near
    <3> QED BY <2>1, <2>2, <3>1, MarkerIs, Zenon
  <2> QED BY <1>1, <1>2, <1>4, <2>2, <2>3, Constants, Mark
<1>5. ASSUME MarkerAtEnd PROVE n # 0 /\ \E o \in marks(npeers) : o > start(n)
  <2> DEFINE o == Len(buf) + 1 - MarkerLen
  <2>1. n # 0 /\ o \in Nat /\ o > start(n) /\ IsMarker(o)
    BY <1>5, EndMarkerIs, Zenon
  <2>2. o + MarkerLen <= Len(buf) + 1
    BY <1>1, Constants
  <2> HIDE DEF o
  <2>3. start(n) \in Nat
    BY <1>1, <2>1, Extent
  <2>4. o \in marks(npeers)
    BY <1>1, <1>2, <2>1, <2>2, <2>3, Mark
  <2> QED BY <2>1, <2>4
<1>6. ASSUME ~MarkerAtEnd, NEW o \in marks(npeers) PROVE n >= 2 /\ o <= start(n)
  <2>1. o \in Nat /\ o >= 1 /\ o + MarkerLen <= Len(buf) + 1 /\ IsMarker(o)
    BY <1>1, <1>2, Mark
  <2>2. o + MarkerLen # Len(buf) + 1
    <3>1. o # 0
      BY <2>1
    <3> QED BY <1>6, <2>1, <3>1, EndMarkerFound, Zenon
  <2>3. PICK i \in 1..n : Near(o, i)
    <3>1. o + MarkerLen <= Len(buf)
      BY <1>1, <2>1, <2>2, Constants
    <3> QED BY <2>1, <3>1, MarkerFound, Zenon
  <2>4. i \in 1..(n + 1) /\ n \in 1..(n + 1) /\ i <= n
    BY <1>1
  <2>5. start(i) <= start(n) /\ start(i) \in Nat /\ start(n) \in Nat /\ start(1) = 0
    BY <1>3, <2>4, Zenon DEF Apart
  <2>6. i # 1
    BY <2>1, <2>3, <2>5 DEF Near
  <2> QED BY <1>1, <2>1, <2>3, <2>4, <2>5, <2>6 DEF Near
<1> QED BY <1>4, <1>5, <1>6

(* The other markers that are found are in the file.                       *)
LEMMA EarlyMark ==
  ASSUME NEW n, Shape(n), NEW p \in Peer, p < npeers, NEW o \in marks(p)
  PROVE  \E m \in 2..n : Near(o, m)
<1> USE DEF Shape
<1>1. /\ n \in Nat /\ Len(buf) = start(n + 1) /\ Len(buf) \in Nat /\ (n = 0 => Len(buf) = 0)
      /\ start(1) = 0
  BY Extent DEF Layout
<1>2. p \in 0..npeers
  BY Constants DEF Peer
<1>3. o \in Nat /\ o >= 1 /\ o + MarkerLen <= cut(p) + 1 /\ IsMarker(o)
  BY <1>1, <1>2, Mark
<1>4. cut(p) \in Nat /\ cut(p) <= Len(buf) /\ (Len(buf) # 0 => cut(p) < Len(buf))
  BY <1>1, <1>2, InOrder DEF Cuts
<1>5. o + MarkerLen <= Len(buf)
  BY <1>1, <1>3, <1>4, Constants
<1>6. PICK i \in 1..n : Near(o, i)
  BY <1>3, <1>5, MarkerFound, Zenon
<1>7. i # 1
  BY <1>1, <1>3, <1>6 DEF Near
<1>8. i \in 2..n
  BY <1>1, <1>7
<1> QED BY <1>6, <1>8

(* BadCut(), with the message in which the cut is.                         *)
LEMMA BadIff ==
  ASSUME run \in Runs, NEW n, Shape(n), NEW p \in Peer
  PROVE  BadCut(p) <=> \E i \in 1..n :
           /\ start(i) <= cut(p) /\ cut(p) < start(i + 1)
           /\ i = 1 \/ (cut(p) + 1 < start(i) + MarkerLen
                        /\ (i = 2 \/ lead(i) + cut(p) + 1 >= start(i) + MarkerLen))
<1> USE DEF Shape
<1>1. Messages = 1..n /\ cut(p) \in Nat /\ n \in Nat
  BY Bodies, Extent, InOrder, Constants DEF Cuts, Layout, Peer
<1>2. ASSUME NEW i \in 1..n
      PROVE  /\ start(i) \in Nat /\ start(i + 1) = start(i) + Size(i) /\ Size(i) \in Nat /\ lead(i) \in Nat
             /\ Size(i) = MarkerLen + 1 + Len(bodies[i])
             /\ i # 1 => lead(i) = tail(i - 1)
  <2>1. lead(i) \in Nat /\ start(i) \in Nat
    BY Leads, Zenon
  <2> QED BY <2>1 DEF Layout, Size, lead
<1>3. ASSUME NEW i \in 1..n
      PROVE  LET into == cut(p) - start(i) + 1
             IN  (/\ into \in 1..(MarkerLen + 1 + Len(bodies[i]))
                  /\ \/ i = 1
                     \/ into < MarkerLen /\ (i = 2 \/ tail(i - 1) + into >= MarkerLen))
                 <=> (/\ start(i) <= cut(p) /\ cut(p) < start(i + 1)
                      /\ i = 1 \/ (cut(p) + 1 < start(i) + MarkerLen
                                   /\ (i = 2 \/ lead(i) + cut(p) + 1 >= start(i) + MarkerLen)))
  <2> DEFINE size == MarkerLen + 1 + Len(bodies[i])
  <2>1. /\ start(i) \in Nat /\ start(i + 1) = start(i) + size /\ size \in Nat /\ lead(i) \in Nat
        /\ i # 1 => lead(i) = tail(i - 1)
    BY <1>2
  <2> HIDE DEF size
  <2>2. cut(p) - start(i) + 1 \in 1..size <=> start(i) <= cut(p) /\ cut(p) < start(i + 1)
    BY <1>1, <2>1
  <2>3. cut(p) - start(i) + 1 < MarkerLen <=> cut(p) + 1 < start(i) + MarkerLen
    BY <1>1, <2>1, Constants
  <2>4. i # 1 => (tail(i - 1) + (cut(p) - start(i) + 1) >= MarkerLen
                  <=> lead(i) + cut(p) + 1 >= start(i) + MarkerLen)
    BY <1>1, <2>1, Constants
  <2> QED BY <2>2, <2>3, <2>4, Zenon DEF size
<1> QED BY <1>1, <1>3, Zenon DEF BadCut

(* Whether message of the first n begins at o.                             *)
IsStart(n, o) == \E i \in 1..n : o = start(i)

(* No marker is found only where the cut is in the first message or in the *)
(* marker of the second.                                                   *)
LEMMA NoneFound ==
  ASSUME run \in Runs, NEW n, Shape(n), NEW p \in Peer, p < npeers, marks(p) = {}, n # 0
  PROVE  BadCut(p)
<1> USE DEF Shape
<1>1. /\ n \in Nat /\ Len(buf) = start(n + 1) /\ Len(buf) \in Nat
      /\ start(n) + MarkerLen < Len(buf) /\ start(n) \in Nat
  BY Extent
<1>2. p \in 0..npeers
  BY Constants DEF Peer
<1>3. cut(p) \in Nat /\ cut(p) < Len(buf)
  BY <1>1, <1>2, InOrder, Constants DEF Cuts
<1>4. PICK i \in 1..n : start(i) <= cut(p) /\ cut(p) < start(i + 1)
  BY <1>1, <1>3, Locate, Zenon
<1>5. CASE i = 1
  BY <1>4, <1>5, BadIff
<1>6. CASE i # 1
  <2>1. 2 \in 1..n /\ 2 \in 1..(n + 1) /\ i \in 1..(n + 1) /\ 1 \in 1..(n + 1) /\ (i # 2 => 2 < i)
    BY <1>1, <1>6
  <2>2. /\ start(2) \in Nat /\ start(i) \in Nat /\ start(2) > 0
        /\ i # 2 => start(2) + MarkerLen < start(i)
    <3>1. Apart(n)
      BY SetApart
    <3>2. /\ start(2) \in Nat /\ start(i) \in Nat
          /\ i # 2 => start(2) + MarkerLen < start(i)
      BY <2>1, <3>1, Zenon DEF Apart
    <3>3. start(1) + MarkerLen < start(2) /\ start(1) = 0
      BY <2>1, <3>1 DEF Apart
    <3> QED BY <3>2, <3>3, Constants
  <2>3. IsMarker(start(2))
    <3>1. lead(2) \in Nat
      BY <2>1, Leads, Zenon
    <3>2. Near(start(2), 2)
      BY <2>2, <3>1 DEF Near
    <3> QED BY <2>1, <2>2, <3>2, MarkerIs, Zenon
  <2>4. ~(start(2) + MarkerLen <= cut(p) + 1)
    <3>1. start(2) \notin marks(p)
      OBVIOUS
    <3>2. start(2) \in Nat /\ start(2) >= 1
      BY <2>2
    <3> QED BY <1>1, <1>2, <2>3, <3>1, <3>2, Mark
  <2>5. i = 2
    BY <1>3, <1>4, <2>2, <2>4, Constants
  <2> QED BY <1>3, <1>4, <2>2, <2>4, <2>5, BadIff, Constants
<1> QED BY <1>5, <1>6

(* A piece ends where no message begins only where the 0xff octets of the  *)
(* one before and part of its marker have been taken for one.              *)
LEMMA WrongBound ==
  ASSUME run \in Runs, NEW n, Shape(n), NEW p \in Peer, p < npeers, Bounds, ~IsStart(n, Bound(p)),
         Bound(p) \in marks(p)
  PROVE  BadCut(p) /\ octet(Bound(p) + MarkerLen) = FF
<1> USE DEF Shape
<1>1. n \in Nat /\ Len(buf) \in Nat /\ p \in 0..npeers
  BY Extent, Constants DEF Peer
<1>2. PICK m \in 2..n : Near(Bound(p), m)
  BY EarlyMark
<1>3. /\ m \in 1..n /\ m # 1 /\ lead(m) \in Nat /\ lead(m) <= MarkerLen - 1 /\ start(m) \in Nat
  <2>1. m \in 1..n /\ m # 1
    BY <1>1
  <2> QED BY <2>1, Leads, Zenon
<1>4. /\ Bound(p) \in Nat /\ start(m) - lead(m) <= Bound(p) /\ Bound(p) < start(m)
      /\ Bound(p) + MarkerLen <= cut(p) + 1 /\ cut(p) \in Nat
  <2>1. Bound(p) # start(m)
    BY <1>3 DEF IsStart
  <2>2. Bound(p) \in Nat /\ Bound(p) + MarkerLen <= cut(p) + 1
    BY <1>1 DEF Bounds
  <2>3. cut(p) \in Nat
    BY <1>1, InOrder, Zenon DEF Cuts
  <2> QED BY <1>2, <1>3, <2>1, <2>2, <2>3 DEF Near
<1>5. ~(start(m) + MarkerLen <= cut(p) + 1)
  <2> SUFFICES ASSUME start(m) + MarkerLen <= cut(p) + 1 PROVE FALSE
    OBVIOUS
  <2>1. IsMarker(start(m))
    <3>1. Near(start(m), m)
      BY <1>3 DEF Near
    <3> QED BY <1>3, <3>1, MarkerIs, Zenon
  <2>2. start(m) \in marks(p)
    <3>1. start(m) >= 1
      BY <1>3, <1>4
    <3> QED BY <1>1, <1>3, <2>1, <3>1, Mark
  <2>3. start(m) <= Bound(p)
    BY <2>2 DEF Bounds
  <2> QED BY <1>3, <1>4, <2>3
<1>6. start(m) <= cut(p)
  BY <1>3, <1>4, Constants
<1>7. cut(p) < start(m + 1)
  <2>1. start(m + 1) \in Nat /\ start(m) + MarkerLen < start(m + 1)
    <3>1. m \in 1..(n + 1) /\ m + 1 \in 1..(n + 1) /\ m < m + 1
      BY <1>1, <1>3
    <3> QED BY <3>1, SetApart, Zenon DEF Apart
  <2> QED BY <1>3, <1>4, <1>5, <2>1, Constants
<1>8. cut(p) + 1 < start(m) + MarkerLen /\ lead(m) + cut(p) + 1 >= start(m) + MarkerLen
  BY <1>3, <1>4, <1>5, Constants
<1>9. BadCut(p)
  BY <1>3, <1>6, <1>7, <1>8, BadIff, Zenon
<1>10. octet(Bound(p) + MarkerLen) = FF
  <2> DEFINE k == Bound(p) + MarkerLen - start(m)
  <2>1. k \in 0..(MarkerLen - 1) /\ start(m) + k = Bound(p) + MarkerLen
    BY <1>3, <1>4, Constants
  <2> HIDE DEF k
  <2>2. octet(start(m) + k) = FF
    BY <1>3, <2>1, Zenon DEF Text
  <2> QED BY <2>1, <2>2
<1> QED BY <1>9, <1>10

(* And where the cut is bad but a marker is found, that is what happens.   *)
LEMMA BadIsWrong ==
  ASSUME run \in Runs, NEW n, Shape(n), NEW p \in Peer, p < npeers, Bounds, BadCut(p),
         Bound(p) \in marks(p)
  PROVE  ~IsStart(n, Bound(p)) /\ Bound(p) < Bound(npeers)
<1> USE DEF Shape
<1>1. n \in Nat /\ Len(buf) \in Nat /\ p \in 0..npeers /\ npeers \in Peer /\ Apart(n)
  BY Extent, Constants, SetApart DEF Peer
<1>2. PICK i \in 1..n :
           /\ start(i) <= cut(p) /\ cut(p) < start(i + 1)
           /\ i = 1 \/ (cut(p) + 1 < start(i) + MarkerLen
                        /\ (i = 2 \/ lead(i) + cut(p) + 1 >= start(i) + MarkerLen))
  BY BadIff
<1>3. PICK m \in 2..n : Near(Bound(p), m)
  BY EarlyMark
<1>4. /\ i \in 1..(n + 1) /\ i + 1 \in 1..(n + 1) /\ m \in 1..(n + 1) /\ m \in 1..n /\ n \in 1..(n + 1)
      /\ m <= n /\ n >= 2
  BY <1>1
<1>5. /\ start(i) \in Nat /\ start(i + 1) \in Nat /\ start(m) \in Nat /\ start(n) \in Nat
      /\ start(m) <= start(n)
  BY <1>1, <1>4, Zenon DEF Apart
<1>6. /\ lead(m) \in Nat /\ lead(m) <= MarkerLen - 1 /\ lead(i) \in Nat
  BY <1>4, Leads, Zenon
<1>7. /\ Bound(p) \in Nat /\ Bound(p) + MarkerLen <= cut(p) + 1 /\ cut(p) \in Nat
      /\ start(m) - lead(m) <= Bound(p) /\ Bound(p) <= start(m)
  <2>1. Bound(p) \in Nat /\ Bound(p) + MarkerLen <= cut(p) + 1
    BY <1>1 DEF Bounds
  <2>3. cut(p) \in Nat
    BY <1>1, InOrder, Zenon DEF Cuts
  <2> QED BY <1>3, <2>1, <2>3 DEF Near
<1>8. start(m) <= cut(p)
  BY <1>5, <1>6, <1>7, Constants
<1>9. m <= i
  <2> SUFFICES ASSUME ~(m <= i) PROVE FALSE
    OBVIOUS
  <2>1. i + 1 <= m
    BY <1>4
  <2>2. start(i + 1) <= start(m)
    BY <1>1, <1>4, <2>1, Zenon DEF Apart
  <2> QED BY <1>2, <1>5, <1>7, <1>8, <2>2
<1>10. /\ i # 1 /\ cut(p) + 1 < start(i) + MarkerLen
       /\ i = 2 \/ lead(i) + cut(p) + 1 >= start(i) + MarkerLen
  BY <1>2, <1>4, <1>9
<1>11. ASSUME NEW k \in 1..n, Bound(p) = start(k) PROVE FALSE
  <2>1. k \in 1..(n + 1) /\ start(k) + MarkerLen < start(i) + MarkerLen
    BY <1>1, <1>7, <1>10, <1>11, <1>5, Constants
  <2>2. k < i
    <3>1. start(k) \in Nat /\ (i <= k <=> start(i) <= start(k))
      BY <1>1, <1>4, <2>1, Zenon DEF Apart
    <3> QED BY <1>1, <1>5, <2>1, <3>1, Constants
  <2>3. start(k) + MarkerLen < start(i) /\ start(k) \in Nat
    BY <1>1, <1>4, <2>1, <2>2, Zenon DEF Apart
  <2>4. CASE i = 2
    <3>1. k = 1
      BY <2>2, <2>4
    <3>2. start(1) = 0
      BY <1>1 DEF Apart
    <3> QED BY <1>1, <1>11, <3>1, <3>2 DEF Bounds
  <2>5. CASE lead(i) + cut(p) + 1 >= start(i) + MarkerLen
    <3> DEFINE o == cut(p) + 1 - MarkerLen
    <3>0. lead(i) <= MarkerLen - 1
      BY Leads, Zenon
    <3>1. o \in Nat /\ o >= 1 /\ o + MarkerLen <= cut(p) + 1 /\ start(i) - lead(i) <= o /\ o <= start(i)
          /\ o > start(k)
      <4>1. start(i - 1) + MarkerLen < start(i) - lead(i) /\ start(i - 1) \in Nat
        <5>1. i > 1 /\ i - 1 \in 1..(n + 1)
          BY <1>1, <1>10
        <5>2. start(i - 1) \in Nat
          BY <1>1, <5>1, Zenon DEF Apart
        <5>3. i > 1 => start(i - 1) + MarkerLen < start(i) - lead(i)
          BY Leads
        <5> QED BY <5>1, <5>2, <5>3
      <4>2. start(k) <= start(i - 1)
        <5>1. k <= i - 1 /\ i - 1 \in 1..(n + 1)
          BY <1>1, <1>10, <2>2
        <5> QED BY <1>1, <2>1, <5>1, Zenon DEF Apart
      <4> QED BY <1>5, <1>6, <1>7, <1>10, <2>3, <2>5, <4>1, <4>2, Constants
    <3>2. IsMarker(o)
      <4>1. Near(o, i)
        BY <3>1 DEF Near
      <4> HIDE DEF o
      <4> QED BY <3>1, <4>1, MarkerIs, Zenon
    <3> HIDE DEF o
    <3>3. o \in marks(p)
      BY <1>1, <3>1, <3>2, Mark
    <3>4. o <= Bound(p)
      BY <3>3 DEF Bounds
    <3> QED BY <1>7, <1>11, <2>3, <3>1, <3>4
  <2> QED BY <1>10, <2>4, <2>5
<1>12. Bound(p) < start(m)
  BY <1>4, <1>5, <1>7, <1>11
<1>13. start(n) <= Bound(npeers) /\ Bound(npeers) \in Nat
  <2>1. start(n) \in marks(npeers)
    BY <1>4, LastMark
  <2> QED BY <1>1, <2>1, Constants DEF Bounds
<1> QED BY <1>5, <1>7, <1>11, <1>12, <1>13 DEF IsStart

-----------------------------------------------------------------------------
(* The file is that of the messages.                                       *)
Mapped == run \in Runs /\ buf = before(Len(bodies) + 1)

(* The file and what has been read from it do not change.                  *)
LEMMA Same ==
  ASSUME run' = run, buf' = buf
  PROVE  /\ bodies' = bodies /\ Messages' = Messages /\ Mapped' = Mapped
         /\ \A i : start(i)' = start(i)
         /\ \A p : Bound(p)' = Bound(p)
         /\ \A p : marks(p)' = marks(p)
         /\ Unsplit' = Unsplit
<1>1. bodies' = bodies /\ Messages' = Messages
  BY DEF bodies, Messages
<1>2. ASSUME NEW i PROVE before(i)' = before(i)
  BY Zenon DEF before, message, bodies
<1>3. ASSUME NEW i PROVE start(i)' = start(i)
  BY <1>2, Zenon DEF start
<1>4. ASSUME NEW p PROVE marks(p)' = marks(p)
  BY Zenon DEF marks, IsMarker, octet, cut
<1>5. ASSUME NEW p PROVE Bound(p)' = Bound(p)
  BY <1>4, Zenon DEF Bound
<1>6. Unsplit' = Unsplit
  BY Zenon DEF Unsplit, BadCut, MarkerAtEnd, tail, bodies, Messages, start, before, message, cut
<1>7. Mapped' = Mapped
  BY <1>1, <1>2, Zenon DEF Mapped
<1> QED BY <1>1, <1>3, <1>4, <1>5, <1>6, <1>7

(* What has been shown of a layout holds of the file.                      *)
LEMMA Geometry ==
  ASSUME Mapped
  PROVE  Shape(Len(bodies)) /\ run \in Runs /\ Len(buf) \in Nat /\ Len(bodies) \in Nat
         /\ Messages = 1..Len(bodies) /\ Apart(Len(bodies))
<1>1. run \in Runs /\ buf = before(Len(bodies) + 1)
  BY DEF Mapped
<1>2. Layout(Len(bodies))
  BY <1>1, LaidOut
<1>3. Text(Len(bodies))
  BY <1>1, <1>2, Written
<1>4. Trail(Len(bodies))
  BY <1>1, <1>2, <1>3, Trails
<1>5. Len(buf) \in Nat /\ Len(bodies) \in Nat
  BY <1>2, <1>3, Extent
<1>6. Messages = 1..Len(bodies)
  BY <1>1, Bodies
<1> QED BY <1>1, <1>2, <1>3, <1>4, <1>5, <1>6, SetApart DEF Shape

(* Before the input has been split, and after it.                          *)
Fresh ==
  /\ pn = 1 /\ message_count = 0 /\ _msg_count = 0
  /\ bufs = [p \in Peer |-> [base |-> 0, length |-> 0]]
  /\ \A p \in Peer : thread[p] = "none"
Ready ==
  /\ \A p \in Peer : marks(p) # {}
  /\ buf # <<>> => run.past # Fault
  /\ bufs = [p \in Peer |-> [base |-> Bound(p - 1), length |-> Bound(p) - Bound(p - 1)]]

(* A thread has gone over the messages from f, where its piece begins, one *)
(* after the other.                                                        *)
Walk(p, f) ==
  /\ f + Len(seen[p]) <= Len(bodies) + 1
  /\ Bound(p - 1) = start(f) /\ ptr[p] = start(f + Len(seen[p]))
  /\ \A j \in DOMAIN seen[p] : seen[p][j] = start(f + j - 1) /\ seen[p][j] < Bound(p)
Walked(p) ==
  /\ thread[p] = "none" => seen[p] = <<>> /\ ptr[p] = 0
  /\ thread[p] # "none" /\ seen[p] = <<>> => ptr[p] = Bound(p - 1)
  /\ seen[p] # <<>> => \E f \in Messages : Walk(p, f)
  /\ thread[p] = "count" => seen[p] # <<>>
  /\ thread[p] = "returned" =>
       ptr[p] >= Bound(p) \/ (run.msg_max > 0 /\ Len(seen[p]) >= run.msg_max)
Walks == (Fresh \/ Ready) /\ \A p \in Peer : Walked(p)

(* What the variables hold.                                                *)
Registers ==
  /\ pc \in PC /\ left \in Nat /\ LOCRIB \in BOOLEAN /\ pn \in Peer
  /\ message_count \in Nat /\ _msg_count \in Nat
  /\ counted \in [Peer -> Nat] /\ ptr \in [Peer -> Nat]
  /\ thread \in [Peer -> {"none", "parse", "count", "returned"}]
  /\ seen \in [Peer -> Seq(Nat)]
  /\ msg_count = [p \in Peer |-> Len(seen[p])]

(* How far the threads are, by where main() is.                            *)
Rounds == IF run.repeat > 1 THEN run.repeat + 1 ELSE 1
AllReturned == \A p \in Peer : thread[p] = "returned"
Creating == \A p \in Peer :
  /\ p >= pn <=> thread[p] = "none"
  /\ ~run.multithread /\ p < pn => thread[p] = "returned"
Joining == \A p \in Peer :
  /\ p < pn => thread[p] = "returned"
  /\ p = pn \/ run.multithread => thread[p] # "none"
  /\ ~run.multithread /\ p > pn => thread[p] = "none"
Stages ==
  /\ pc = "reinit" => /\ run.repeat >= 1
                      /\ LOCRIB => run.repeat > 1 /\ AllReturned
                      /\ ~LOCRIB => Fresh /\ left = Rounds
  /\ pc = "split" => Fresh
  /\ pc \in {"create", "join", "flush"} => Ready
  /\ pc \in {"split", "create", "join", "flush"} => LOCRIB /\ run.repeat >= 1 /\ left = Rounds
  /\ pc = "create" => Creating
  /\ pc = "join" => Joining
  /\ pc = "flush" => AllReturned
  /\ pc \in {"report", "done"} => \/ run.repeat < 0 /\ Fresh
                                  \/ run.repeat = 0 /\ pc = "report" /\ Fresh
                                  \/ run.repeat = 1 /\ Ready /\ AllReturned
  /\ pc \in {"flush", "report", "done"} /\ run.repeat > 0 => message_count = Len(seen[npeers])
(* Why the program has failed.                                             *)
Stopping ==
  /\ pc = "assert" => run.repeat > 1 \/ (run.repeat = 1 /\ Unsplit)
  /\ pc = "fault" => run.repeat = 0 \/ run.past = Fault
  /\ pc = "exit" => ~run.opened

(* The messages that have been counted, or written over in the counter.    *)
Filled(o) == \E k \in Messages : start(k) = o /\ bodies[k] # <<>> /\ bodies[k][1] # Bare
Done(p) == {i \in DOMAIN seen[p] : run.spare \in 0..(i - 1) /\ Filled(seen[p][i])
                                   /\ (thread[p] = "count" => i # Len(seen[p]))}
AllDone == UNION {{p} \X Done(p) : p \in Peer}
(* What threads that count at the same time may still store is no more than*)
(* has been counted.                                                       *)
Counters ==
  /\ IsFiniteSet(AllDone)
  /\ _msg_count <= Cardinality(AllDone)
  /\ AllDone # {} => _msg_count > 0
  /\ \A p \in Peer : thread[p] = "count" =>
       /\ run.spare \in 0..(Len(seen[p]) - 1) /\ Filled(seen[p][Len(seen[p])])
       /\ counted[p] <= Cardinality(AllDone)
  /\ ~run.multithread =>
       /\ _msg_count = Cardinality(AllDone)
       /\ \A p \in Peer : thread[p] = "count" => counted[p] = Cardinality(AllDone)

(* The inductive invariant.                                                *)
DInv == Mapped /\ Registers /\ Stages /\ Stopping /\ Walks /\ Counters

(* What the pieces are once the file has been split.                       *)
LEMMA Pieces ==
  ASSUME Mapped, Ready
  PROVE  /\ Bounds
         /\ \A p \in Peer : /\ bufs[p].base = Bound(p - 1) /\ bufs[p].length \in Nat
                            /\ bufs[p].base + bufs[p].length = Bound(p)
                            /\ Bound(p - 1) \in Nat /\ Bound(p) \in Nat
                            /\ Bound(p - 1) <= Bound(p) /\ Bound(p) <= Len(buf)
                            /\ Bound(p) \in marks(p)
<1>1. Len(buf) \in Nat
  BY Geometry
<1>2. Bounds
  BY <1>1, Bounding DEF Ready
<1>3. ASSUME NEW p \in Peer
      PROVE  /\ bufs[p].base = Bound(p - 1) /\ bufs[p].length \in Nat
             /\ bufs[p].base + bufs[p].length = Bound(p)
             /\ Bound(p - 1) \in Nat /\ Bound(p) \in Nat
             /\ Bound(p - 1) <= Bound(p) /\ Bound(p) <= Len(buf)
             /\ Bound(p) \in marks(p)
  <2>1. p \in 0..npeers /\ p - 1 \in 0..npeers /\ p - 1 <= p
    BY Constants DEF Peer
  <2>2. /\ Bound(p - 1) \in Nat /\ Bound(p) \in Nat /\ Bound(p) <= Len(buf)
        /\ Bound(p - 1) <= Bound(p)
    BY <1>2, <2>1, Zenon DEF Bounds
  <2>3. bufs[p] = [base |-> Bound(p - 1), length |-> Bound(p) - Bound(p - 1)]
    BY Zenon DEF Ready
  <2>4. Bound(p) \in marks(p)
    <3>1. Bound(p) >= 1 /\ Bound(p) + MarkerLen <= cut(p) + 1 /\ IsMarker(Bound(p))
      BY <1>2, Zenon DEF Bounds
    <3> QED BY <1>1, <2>1, <2>2, <3>1, Mark
  <2> QED BY <2>2, <2>3, <2>4
<1> QED BY <1>2, <1>3

(* The threads run only while main() creates or joins them.                *)
LEMMA Active ==
  ASSUME Registers, Stages, pc \notin Stopped, NEW p \in Peer, thread[p] \in {"parse", "count"}
  PROVE  /\ pc \in {"create", "join"} /\ Ready
         /\ ~run.multithread => pc = "join" /\ p = pn
<1>1. pc \in {"reinit", "split", "create", "join", "flush", "report"}
  BY DEF Registers, PC, Stopped
<1>2. thread[p] # "none" /\ thread[p] # "returned" /\ ~Fresh /\ ~AllReturned
  BY DEF Fresh, AllReturned
<1>3. pc \in {"create", "join"}
  BY <1>1, <1>2 DEF Stages
<1>4. pn \in Nat /\ p \in Nat
  BY DEF Registers, Peer
<1>5. ASSUME ~run.multithread PROVE pc = "join" /\ p = pn
  <2>1. CASE pc = "create"
    BY <1>2, <1>4, <1>5, <2>1 DEF Stages, Creating
  <2>2. CASE pc = "join"
    BY <1>2, <1>4, <1>5, <2>2 DEF Stages, Joining
  <2> QED BY <1>3, <2>1, <2>2
<1> QED BY <1>3, <1>5 DEF Stages

(* A thread that goes on is at the start of a message, or its piece does   *)
(* not begin with one.                                                     *)
LEMMA AtMessage ==
  ASSUME Mapped, Registers, Ready, NEW p \in Peer, Walked(p), thread[p] = "parse",
         ptr[p] < bufs[p].base + bufs[p].length
  PROVE  /\ ptr[p] < Bound(p) /\ Bound(p) <= Len(buf)
         /\ \/ \E f \in Messages :
                 /\ f + Len(seen[p]) <= Len(bodies) /\ Bound(p - 1) = start(f)
                 /\ ptr[p] = start(f + Len(seen[p]))
            \/ seen[p] = <<>> /\ p - 1 \in Peer /\ p - 1 < npeers /\ BadCut(p - 1)
               /\ octet(ptr[p] + MarkerLen) = FF
<1> DEFINE n == Len(bodies)
<1>1. Shape(n) /\ run \in Runs /\ Len(buf) \in Nat /\ n \in Nat /\ Messages = 1..n /\ Apart(n)
  BY Geometry
<1>2. Bounds /\ ptr[p] < Bound(p) /\ Bound(p) <= Len(buf) /\ Bound(p) \in Nat /\ ptr[p] \in Nat
  BY Pieces DEF Registers
<1>3. Len(buf) = start(n + 1)
  BY <1>1, Zenon DEF Shape, Text
<1>3a. seen[p] \in Seq(Nat) /\ Len(seen[p]) \in Nat
  BY DEF Registers
<1> HIDE DEF n
<1>4. CASE seen[p] = <<>>
  <2>1. ptr[p] = Bound(p - 1) /\ Len(seen[p]) = 0
    BY <1>4 DEF Walked
  <2>2. CASE IsStart(n, Bound(p - 1))
    <3>1. PICK f \in 1..n : Bound(p - 1) = start(f)
      BY <2>2 DEF IsStart
    <3> QED BY <1>1, <1>2, <2>1, <3>1 DEF n
  <2>3. CASE ~IsStart(n, Bound(p - 1))
    <3>1. p # 1
      <4> SUFFICES ASSUME p = 1 PROVE FALSE
        OBVIOUS
      <4>1. Bound(p - 1) = 0 /\ start(1) = 0
        BY <1>1 DEF Bound, Apart
      <4>2. n # 0
        BY <1>1, <1>2, <1>3, <4>1
      <4>3. 1 \in 1..n
        BY <1>1, <4>2
      <4> QED BY <2>3, <4>1, <4>3 DEF IsStart
    <3>2. p - 1 \in Peer /\ p - 1 < npeers
      BY <3>1, Constants DEF Peer
    <3>3. Bound(p - 1) \in marks(p - 1)
      BY <3>2, Pieces
    <3>4. BadCut(p - 1) /\ octet(Bound(p - 1) + MarkerLen) = FF
      BY <1>1, <1>2, <2>3, <3>2, <3>3, WrongBound DEF Shape
    <3> QED BY <1>2, <1>4, <2>1, <3>2, <3>4
  <2> QED BY <2>2, <2>3
<1>5. CASE seen[p] # <<>>
  <2>1. PICK f \in Messages : Walk(p, f)
    BY <1>5 DEF Walked
  <2>2. /\ f + Len(seen[p]) <= n + 1 /\ Bound(p - 1) = start(f)
        /\ ptr[p] = start(f + Len(seen[p])) /\ f \in Nat
    BY <1>1, <2>1 DEF Walk, n
  <2>3. f + Len(seen[p]) # n + 1
    BY <1>1, <1>2, <1>3, <2>2
  <2>4. f + Len(seen[p]) <= n
    BY <1>1, <1>3a, <2>2, <2>3
  <2> QED BY <1>2, <2>1, <2>2, <2>4 DEF n
<1> QED BY <1>4, <1>5

(* A message as buf_parse_peer() sees it.                                  *)
LEMMA MessageAt ==
  ASSUME Mapped, NEW k \in Messages
  PROVE  /\ IsMarker(start(k)) /\ octet(start(k) + MarkerLen) = Size(k) /\ Size(k) # FF
         /\ start(k + 1) = start(k) + Size(k) /\ start(k) \in Nat /\ start(k + 1) \in Nat
         /\ Size(k) > MarkerLen + 1 <=> bodies[k] # <<>>
         /\ bodies[k] # <<>> => octet(start(k) + MarkerLen + 1) = bodies[k][1]
         /\ Filled(start(k)) <=> bodies[k] # <<>> /\ bodies[k][1] # Bare
<1> DEFINE n == Len(bodies)
<1>1. Shape(n) /\ run \in Runs /\ Len(buf) \in Nat /\ n \in Nat /\ Messages = 1..n /\ Apart(n)
  BY Geometry
<1>2. start(k) \in Nat /\ lead(k) \in Nat
  BY <1>1, Leads, Zenon DEF Shape
<1>3. IsMarker(start(k))
  <2>1. Near(start(k), k)
    BY <1>2 DEF Near
  <2> QED BY <1>1, <1>2, <2>1, MarkerIs, Zenon DEF Shape
<1>4. octet(start(k) + MarkerLen) = Size(k) /\ Size(k) < FF
  BY <1>1, Zenon DEF Shape, Text, Trail
<1>5. start(k + 1) = start(k) + Size(k) /\ Size(k) \in Nat
  BY <1>1, Zenon DEF Shape, Layout
<1>6. Size(k) > MarkerLen + 1 <=> bodies[k] # <<>>
  <2> DEFINE b == bodies[k]
  <2>1. b \in Seq({0, Bare, FF}) /\ Size(k) = MarkerLen + 1 + Len(b)
    BY <1>1, Bodies, Zenon DEF Size
  <2> HIDE DEF b
  <2>2. Len(b) \in Nat /\ (b = <<>> <=> Len(b) = 0)
    BY <2>1
  <2>3. Size(k) > MarkerLen + 1 <=> b # <<>>
    BY <2>1, <2>2, Constants
  <2> QED BY <2>3 DEF b
<1>7. ASSUME NEW j \in Messages, start(j) = start(k) PROVE j = k
  <2>1. j \in 1..(n + 1) /\ k \in 1..(n + 1)
    BY <1>1
  <2>2. (j <= k <=> start(j) <= start(k)) /\ (k <= j <=> start(k) <= start(j))
    BY <1>1, <2>1, Zenon DEF Apart
  <2> QED BY <1>1, <1>2, <1>7, <2>2
<1>8. Filled(start(k)) <=> bodies[k] # <<>> /\ bodies[k][1] # Bare
  BY <1>7 DEF Filled
<1>10. ASSUME bodies[k] # <<>> PROVE octet(start(k) + MarkerLen + 1) = bodies[k][1]
  <2> DEFINE b == bodies[k]
  <2>1. b \in Seq({0, Bare, FF})
    BY <1>1, Bodies
  <2>2. 1 \in 1..Len(b)
    <3>1. b # <<>>
      BY <1>10
    <3> HIDE DEF b
    <3> QED BY <2>1, <3>1
  <2> HIDE DEF b
  <2>3. octet(start(k) + (MarkerLen + 1)) = b[1]
    BY <1>1, <2>2, Zenon DEF Shape, Text, b
  <2>4. start(k) + (MarkerLen + 1) = start(k) + MarkerLen + 1
    BY <1>2, Constants
  <2> QED BY <2>3, <2>4 DEF b
<1>9. Size(k) # FF /\ start(k + 1) \in Nat
  BY <1>2, <1>4, <1>5, Constants
<1> QED BY <1>2, <1>3, <1>4, <1>5, <1>6, <1>8, <1>9, <1>10

(* The invariant and the types.                                            *)
LEMMA Types == DInv /\ Timed => TypeOK
<1> SUFFICES ASSUME DInv, durations \in Seq(Int) PROVE TypeOK
  BY DEF Timed
<1> USE DEF DInv
<1>1. /\ pc \in PC /\ left \in Nat /\ LOCRIB \in BOOLEAN /\ pn \in Peer /\ message_count \in Nat
      /\ _msg_count \in Nat /\ counted \in [Peer -> Nat]
      /\ thread \in [Peer -> {"none", "parse", "count", "returned"}]
  BY DEF Registers
<1>2. ASSUME NEW p \in Peer
      PROVE  /\ bufs[p].base \in Nat /\ bufs[p].length \in Nat
             /\ bufs[p].base + bufs[p].length <= Len(buf)
             /\ p > 1 /\ bufs[p].base > 0 => bufs[p].base = bufs[p - 1].base + bufs[p - 1].length
             /\ ptr[p] \in 0..Len(buf)
             /\ msg_count[p] = Len(seen[p])
  <2>1. msg_count[p] = Len(seen[p]) /\ seen[p] \in Seq(Nat) /\ ptr[p] \in Nat
    BY DEF Registers
  <2>2. Len(buf) \in Nat /\ Messages = 1..Len(bodies) /\ Apart(Len(bodies)) /\ Shape(Len(bodies))
        /\ Len(bodies) \in Nat
    BY Geometry
  <2>3. CASE Ready
    <3>1. /\ bufs[p].base = Bound(p - 1) /\ bufs[p].length \in Nat
          /\ bufs[p].base + bufs[p].length = Bound(p)
          /\ Bound(p - 1) \in Nat /\ Bound(p) \in Nat /\ Bound(p - 1) <= Bound(p) /\ Bound(p) <= Len(buf)
      BY <2>3, Pieces
    <3>2. p > 1 => bufs[p - 1].base + bufs[p - 1].length = Bound(p - 1)
      <4>1. p > 1 => p - 1 \in Peer
        BY Constants DEF Peer
      <4> QED BY <2>3, <4>1, Pieces
    <3>3. ptr[p] <= Len(buf)
      <4>0. Walked(p)
        BY DEF Walks
      <4>1. CASE seen[p] = <<>>
        <5>1. ptr[p] = 0 \/ ptr[p] = Bound(p - 1)
          BY <4>0, <4>1 DEF Walked
        <5> QED BY <2>2, <3>1, <5>1
      <4>2. CASE seen[p] # <<>>
        <5>1. PICK f \in Messages : Walk(p, f)
          BY <4>0, <4>2 DEF Walked
        <5> DEFINE k == f + Len(seen[p])
                   n == Len(bodies)
        <5>2. k \in 1..(n + 1) /\ n + 1 \in 1..(n + 1) /\ k <= n + 1 /\ ptr[p] = start(k)
          <6>1. k <= n + 1 /\ ptr[p] = start(k) /\ f \in 1..n
            BY <2>2, <5>1 DEF Walk
          <6>2. Len(seen[p]) \in Nat
            BY <2>1
          <6> QED BY <2>2, <6>1, <6>2
        <5> HIDE DEF k
        <5>3. start(k) <= start(n + 1) /\ start(n + 1) = Len(buf)
          BY <2>2, <5>2, Zenon DEF Apart, Shape, Text
        <5> QED BY <5>2, <5>3
      <4> QED BY <4>1, <4>2
    <3> QED BY <2>1, <2>2, <3>1, <3>2, <3>3
  <2>4. CASE Fresh
    <3>1. bufs[p] = [base |-> 0, length |-> 0]
      BY <2>4, Zenon DEF Fresh
    <3>2. ptr[p] = 0
      BY <2>4 DEF Walks, Walked, Fresh
    <3> QED BY <2>1, <2>2, <3>1, <3>2
  <2> QED BY <2>3, <2>4 DEF Walks
<1> QED BY <1>1, <1>2, Zenon DEF TypeOK

(* What the threads go over, as far as they have.                          *)
LEMMA Went ==
  ASSUME DInv, NEW p \in Peer, NEW i \in DOMAIN seen[p]
  PROVE  /\ Ready /\ seen[p][i] \in Nat
         /\ Bound(p - 1) <= seen[p][i] /\ seen[p][i] < Bound(p)
         /\ \E k \in Messages : seen[p][i] = start(k)
         /\ \A j \in DOMAIN seen[p] : i < j => seen[p][i] < seen[p][j]
<1> USE DEF DInv
<1>1. seen[p] \in Seq(Nat)
  BY DEF Registers
<1> DEFINE len == Len(seen[p])
           n == Len(bodies)
<1>2. DOMAIN seen[p] = 1..len /\ len \in Nat /\ seen[p] # <<>>
  BY <1>1
<1>3. Walked(p) /\ Ready
  BY <1>2 DEF Walks, Walked, Fresh
<1>4. PICK f \in Messages : Walk(p, f)
  BY <1>2, <1>3 DEF Walked
<1>5. /\ f + len <= n + 1 /\ Bound(p - 1) = start(f)
      /\ \A j \in 1..len : seen[p][j] = start(f + j - 1) /\ seen[p][j] < Bound(p)
  BY <1>2, <1>4 DEF Walk
<1>6. Messages = 1..n /\ Apart(n) /\ n \in Nat
  BY Geometry
<1> HIDE DEF len, n
<1>7. \A j \in 1..len : f + j - 1 \in 1..n /\ f + j - 1 \in 1..(n + 1)
  BY <1>2, <1>5, <1>6
<1>8. f \in 1..(n + 1) /\ f <= f + i - 1 /\ i \in 1..len /\ f \in Nat
  BY <1>2, <1>6
<1>9. start(f) <= start(f + i - 1) /\ start(f + i - 1) \in Nat
  BY <1>6, <1>7, <1>8, Zenon DEF Apart
<1>10. ASSUME NEW j \in 1..len, i < j PROVE seen[p][i] < seen[p][j]
  <2>1. f + i - 1 < f + j - 1
    BY <1>2, <1>6, <1>8, <1>10
  <2>2. start(f + i - 1) + MarkerLen < start(f + j - 1) /\ start(f + j - 1) \in Nat
    BY <1>6, <1>7, <1>8, <2>1, Zenon DEF Apart
  <2>3. start(f + i - 1) < start(f + j - 1)
    BY <1>9, <2>2, Constants
  <2> QED BY <1>5, <1>8, <2>3
<1>11. seen[p][i] = start(f + i - 1) /\ seen[p][i] < Bound(p) /\ f + i - 1 \in Messages
  BY <1>5, <1>6, <1>7, <1>8
<1> QED BY <1>2, <1>3, <1>5, <1>9, <1>10, <1>11

(* The messages before the last marker.                                    *)
LEMMA Kept ==
  ASSUME Mapped, Ready, NEW k \in Messages
  PROVE  start(k) < Bound(npeers) <=> k \in 1..kept
<1> DEFINE n == Len(bodies)
<1>1. Shape(n) /\ run \in Runs /\ Messages = 1..n /\ Apart(n) /\ n \in Nat
  BY Geometry
<1>2. npeers \in Peer
  BY Constants DEF Peer
<1>3. Bound(npeers) \in marks(npeers) /\ Bound(npeers) \in Nat /\ Bounds
  BY <1>2, Pieces
<1>4. \A o \in marks(npeers) : o <= Bound(npeers)
  BY <1>2, <1>3 DEF Bounds
<1>5. Len(buf) \in Nat /\ npeers \in 0..npeers
  BY Geometry, Constants
<1>5a. \A o \in marks(npeers) : o \in Nat
  BY <1>5, Mark
<1>6. kept = IF MarkerAtEnd THEN n ELSE n - 1
  BY DEF kept
<1>7. k \in 1..n /\ k \in 1..(n + 1) /\ n \in 1..(n + 1) /\ k \in Nat
  BY <1>1
<1> HIDE DEF n
<1>8. start(k) \in Nat /\ start(n) \in Nat /\ (n <= k <=> start(n) <= start(k)) /\ (k <= n <=> start(k) <= start(n))
  BY <1>1, <1>7, Zenon DEF Apart
<1>9. CASE MarkerAtEnd
  <2>1. PICK o \in marks(npeers) : o > start(n)
    BY <1>1, <1>9, LastMark
  <2>2. start(n) < Bound(npeers)
    BY <1>3, <1>4, <1>5a, <1>8, <2>1
  <2> QED BY <1>1, <1>3, <1>6, <1>7, <1>8, <1>9, <2>2
<1>10. CASE ~MarkerAtEnd
  <2>1. n >= 2 /\ Bound(npeers) <= start(n)
    BY <1>1, <1>3, <1>10, LastMark
  <2>2. start(n) \in marks(npeers)
    BY <1>1, <2>1, LastMark
  <2>3. Bound(npeers) = start(n)
    BY <1>3, <1>4, <1>8, <2>1, <2>2
  <2> QED BY <1>1, <1>6, <1>7, <1>8, <1>10, <2>3
<1> QED BY <1>9, <1>10

(* Every message is gone over once all threads have returned of their own  *)
(* accord.                                                                 *)
LEMMA AllGone ==
  ASSUME DInv, pc = "flush", run.msg_max <= 0, NEW k \in Messages, k \in 1..kept
  PROVE  \E p \in Peer : \E i \in DOMAIN seen[p] : seen[p][i] = start(k)
<1> USE DEF DInv
<1>1. Ready /\ AllReturned
  BY DEF Stages
<1>2. Bounds /\ start(k) < Bound(npeers)
  BY <1>1, Kept, Pieces
<1> DEFINE n == Len(bodies)
<1>3. Messages = 1..n /\ Apart(n) /\ n \in Nat
  BY Geometry
<1>4. k \in 1..n /\ k \in 1..(n + 1) /\ start(k) \in Nat
  <2>1. k \in 1..n /\ k \in 1..(n + 1)
    BY <1>3
  <2> QED BY <1>3, <2>1, Zenon DEF Apart
<1> HIDE DEF n
<1> DEFINE T == {p \in Peer : start(k) < Bound(p)}
<1>5. PICK p \in T : \A q \in T : p <= q
  <2>1. T \subseteq Nat /\ npeers \in T
    BY <1>2, Constants DEF Peer
  <2> HIDE DEF T
  <2> QED BY <2>1, Least
<1>6. p \in Peer /\ start(k) < Bound(p)
  OBVIOUS
<1>7. Bound(p - 1) <= start(k)
  <2>1. CASE p = 1
    BY <1>4, <2>1 DEF Bound
  <2>2. CASE p # 1
    <3>1. p - 1 \in Peer /\ ~(p <= p - 1)
      BY <1>6, <2>2, Constants DEF Peer
    <3>2. p - 1 \notin T
      <4> HIDE DEF T
      <4> QED BY <1>5, <3>1
    <3>3. ~(start(k) < Bound(p - 1))
      BY <3>1, <3>2
    <3>4. Bound(p - 1) \in Nat
      BY <1>1, <1>6, Pieces
    <3> QED BY <1>4, <3>3, <3>4
  <2> QED BY <2>1, <2>2
<1> HIDE DEF T
<1>8. Walked(p) /\ thread[p] = "returned" /\ Bound(p) \in Nat /\ Bound(p - 1) \in Nat
  BY <1>1, <1>6, Pieces DEF Walks, AllReturned
<1>9. ptr[p] >= Bound(p)
  <2>1. run.msg_max \in Int
    BY Geometry, Bodies
  <2> QED BY <1>8, <2>1 DEF Walked
<1>10. seen[p] # <<>>
  <2> SUFFICES ASSUME seen[p] = <<>> PROVE FALSE
    OBVIOUS
  <2>1. ptr[p] = Bound(p - 1)
    BY <1>8 DEF Walked
  <2> QED BY <1>4, <1>6, <1>7, <1>8, <1>9, <2>1
<1>11. PICK f \in Messages : Walk(p, f)
  BY <1>8, <1>10 DEF Walked
<1> DEFINE len == Len(seen[p])
           end == f + len
           i == k - f + 1
<1>12. seen[p] \in Seq(Nat) /\ len \in Nat /\ DOMAIN seen[p] = 1..len
  <2>1. seen[p] \in Seq(Nat)
    BY <1>6 DEF Registers
  <2> QED BY <2>1
<1>13. /\ end <= n + 1 /\ Bound(p - 1) = start(f) /\ ptr[p] = start(end)
       /\ \A j \in 1..len : seen[p][j] = start(f + j - 1)
  BY <1>11, <1>12, Zenon DEF Walk, n
<1>14. f \in 1..(n + 1) /\ end \in 1..(n + 1) /\ f \in Nat /\ end \in Nat
  BY <1>3, <1>12, <1>13
<1> HIDE DEF len
<1>15. f <= k
  BY <1>3, <1>4, <1>7, <1>13, <1>14 DEF Apart
<1>16. ~(end <= k)
  <2>1. end <= k <=> start(end) <= start(k)
    <3> HIDE DEF end
    <3> QED BY <1>3, <1>4, <1>14, Zenon DEF Apart
  <2>2. start(end) >= Bound(p)
    BY <1>9, <1>13
  <2>3. start(end) \in Nat
    <3> HIDE DEF end
    <3> QED BY <1>3, <1>14, Zenon DEF Apart
  <2> QED BY <1>4, <1>6, <1>8, <2>1, <2>2, <2>3
<1>17. i \in 1..len /\ f + i - 1 = k
  BY <1>3, <1>4, <1>12, <1>14, <1>15, <1>16
<1> HIDE DEF i
<1>18. i \in DOMAIN seen[p] /\ seen[p][i] = start(k)
  BY <1>12, <1>13, <1>17
<1> QED BY <1>6, <1>18

(* The shares of the threads.                                              *)
LEMMA Shares == DInv => Partition
<1> SUFFICES ASSUME DInv PROVE Partition
  OBVIOUS
<1>1. ASSUME NEW p \in Peer, NEW i \in DOMAIN seen[p] PROVE \E k \in 1..kept : seen[p][i] = start(k)
  <2>1. PICK k \in Messages : seen[p][i] = start(k)
    BY Went, Zenon
  <2>2. Ready /\ seen[p][i] < Bound(p) /\ Mapped /\ seen[p][i] \in Nat
    BY Went DEF DInv
  <2>3. Bound(p) <= Bound(npeers) /\ Bound(p) \in Nat /\ Bound(npeers) \in Nat
    <3>1. p \in 0..npeers /\ npeers \in 0..npeers /\ p <= npeers
      BY Constants DEF Peer
    <3> QED BY <2>2, <3>1, Pieces DEF Bounds
  <2>4. start(k) < Bound(npeers)
    BY <2>1, <2>2, <2>3
  <2>5. k \in 1..kept
    BY <2>2, <2>4, Kept
  <2> QED BY <2>1, <2>5
<1>2. ASSUME NEW p \in Peer, NEW q \in Peer, NEW i \in DOMAIN seen[p], NEW j \in DOMAIN seen[q],
             p < q \/ (p = q /\ i < j)
      PROVE  seen[p][i] < seen[q][j]
  <2>1. CASE p = q /\ i < j
    BY <2>1, Went
  <2>2. CASE p < q
    <3>1. Mapped /\ Ready /\ seen[p][i] < Bound(p) /\ seen[p][i] \in Nat
      BY Went DEF DInv
    <3>2. Bound(q - 1) <= seen[q][j] /\ seen[q][j] \in Nat
      BY Went
    <3>3. Bound(p) <= Bound(q - 1) /\ Bound(p) \in Nat /\ Bound(q - 1) \in Nat
      <4>1. p \in 0..npeers /\ q - 1 \in 0..npeers /\ p <= q - 1
        BY <2>2, Constants DEF Peer
      <4> QED BY <3>1, <4>1, Pieces DEF Bounds
    <3> QED BY <3>1, <3>2, <3>3
  <2>3. p # q \/ i < j
    BY <1>2 DEF Peer
  <2> QED BY <1>2, <2>1, <2>2
<1>3. ASSUME pc = "flush", run.msg_max <= 0, NEW k \in 1..kept
      PROVE  \E p \in Peer : \E i \in DOMAIN seen[p] : seen[p][i] = start(k)
  <2>1. k \in Messages
    BY Geometry DEF DInv, kept
  <2> QED BY <1>3, <2>1, AllGone
<1> QED BY <1>1, <1>2, <1>3 DEF Partition

(* When all threads have returned, no cut was bad.                         *)
LEMMA NoneBad ==
  ASSUME DInv, Ready, AllReturned
  PROVE  ~Unsplit /\ run.past # Fault
<1> USE DEF DInv
<1> DEFINE n == Len(bodies)
<1>1. Shape(n) /\ run \in Runs /\ Messages = 1..n /\ n \in Nat /\ run.msg_max \in Int /\ Len(buf) \in Nat
  BY Geometry, Bodies
<1>2. Bounds /\ npeers \in Peer
  BY Pieces, Constants DEF Peer
<1>3. run.past # Fault
  <2>1. Bound(npeers) >= 1 /\ Bound(npeers) <= Len(buf) /\ Bound(npeers) \in Nat
    BY <1>2, Pieces DEF Bounds
  <2>2. Len(buf) # 0
    BY <1>1, <2>1
  <2>3. buf # <<>>
    BY <2>2
  <2> QED BY <2>3 DEF Ready
<1>4. ASSUME n < 2, ~MarkerAtEnd PROVE FALSE
  <2>1. Bound(npeers) \in marks(npeers)
    BY <1>2, Pieces
  <2>2. n >= 2
    BY <1>1, <1>4, <2>1, LastMark
  <2> QED BY <1>1, <1>4, <2>2
<1>5. ASSUME NEW p \in 1..(npeers - 1), BadCut(p) PROVE FALSE
  <2>1. p \in Peer /\ p < npeers /\ p \in Nat
    BY Constants DEF Peer
  <2>2. Bound(p) \in marks(p) /\ Bound(p) \in Nat
    BY <2>1, Pieces
  <2>3. ~IsStart(n, Bound(p)) /\ Bound(p) < Bound(npeers)
    BY <1>1, <1>2, <1>5, <2>1, <2>2, BadIsWrong
  <2> DEFINE T == {r \in Peer : p < r /\ Bound(p) < Bound(r)}
  <2>4. PICK q \in T : \A r \in T : q <= r
    <3>1. T \subseteq Nat /\ npeers \in T
      BY <1>2, <2>1, <2>3, Constants DEF Peer
    <3> HIDE DEF T
    <3> QED BY <3>1, Least
  <2>5. q \in Peer /\ p < q /\ Bound(p) < Bound(q)
    OBVIOUS
  <2>6. Bound(q - 1) = Bound(p)
    <3>1. CASE q - 1 = p
      BY <3>1
    <3>2. CASE q - 1 # p
      <4>1. q - 1 \in Peer /\ p < q - 1 /\ ~(q <= q - 1) /\ p \in 0..npeers /\ q - 1 \in 0..npeers /\ p <= q - 1
        BY <2>1, <2>5, <3>2, Constants DEF Peer
      <4>2. q - 1 \notin T
        <5> HIDE DEF T
        <5> QED BY <2>4, <4>1
      <4>3. Bound(q - 1) \in Nat /\ Bound(p) <= Bound(q - 1)
        BY <1>2, <4>1 DEF Bounds
      <4> QED BY <2>2, <4>1, <4>2, <4>3
    <3> QED BY <3>1, <3>2
  <2> HIDE DEF T
  <2>7. Walked(q) /\ thread[q] = "returned" /\ Bound(q) \in Nat /\ seen[q] \in Seq(Nat)
    BY <2>5, Pieces DEF Walks, AllReturned, Registers
  <2>8. seen[q] # <<>>
    <3> SUFFICES ASSUME seen[q] = <<>> PROVE FALSE
      OBVIOUS
    <3>1. ptr[q] = Bound(q - 1) /\ Len(seen[q]) = 0
      BY <2>7 DEF Walked
    <3>2. ptr[q] >= Bound(q) \/ (run.msg_max > 0 /\ Len(seen[q]) >= run.msg_max)
      BY <2>7 DEF Walked
    <3> QED BY <1>1, <2>2, <2>5, <2>6, <2>7, <3>1, <3>2
  <2>9. PICK f \in Messages : Walk(q, f)
    BY <2>7, <2>8 DEF Walked
  <2>10. Bound(p) = start(f)
    BY <2>6, <2>9 DEF Walk
  <2> QED BY <1>1, <2>3, <2>9, <2>10 DEF IsStart
<1> QED BY <1>3, <1>4, <1>5 DEF Unsplit

(* The ends of the program.                                                *)
LEMMA StopsRight == DInv => StopsOnly
<1> SUFFICES ASSUME DInv PROVE StopsOnly
  OBVIOUS
<1>1. ASSUME pc = "done" PROVE run.repeat < 0 \/ (run.repeat = 1 /\ ~Unsplit /\ run.past # Fault)
  BY <1>1, NoneBad DEF DInv, Stages
<1> QED BY <1>1 DEF StopsOnly, DInv, Stopping

(* The counters.                                                           *)
LEMMA CountsRight == DInv => CountBounds
<1> SUFFICES ASSUME DInv, pc \in {"flush", "report", "done"}
             PROVE  /\ _msg_count <= Cardinality(AllCounted)
                    /\ AllCounted # {} => _msg_count > 0
                    /\ ~run.multithread => _msg_count = Cardinality(AllCounted)
                    /\ run.repeat > 0 => message_count = Len(seen[npeers])
  BY DEF CountBounds
<1>1. Fresh \/ AllReturned
  BY DEF DInv, Stages
<1>2. ASSUME NEW p \in Peer PROVE thread[p] # "count"
  BY <1>1 DEF Fresh, AllReturned
<1>3. ASSUME NEW p \in Peer PROVE Done(p) = Counted(p)
  BY <1>2, Zenon DEF Done, Counted, Filled
<1>4. AllDone = AllCounted
  BY <1>3, Zenon DEF AllDone, AllCounted
<1>5. run.repeat > 0 => message_count = Len(seen[npeers])
  BY DEF DInv, Stages
<1> QED BY <1>4, <1>5 DEF DInv, Counters

(* Nor does what is made of them.                                          *)
LEMMA SameFilled ==
  ASSUME run' = run, buf' = buf
  PROVE  /\ \A o : Filled(o)' = Filled(o)
         /\ bufs' = bufs => Ready' = Ready
<1>1. ASSUME NEW o PROVE Filled(o)' = Filled(o)
  BY Zenon DEF Filled, Messages, start, bodies, before, message
<1>2. ASSUME bufs' = bufs PROVE Ready' = Ready
  <2> DEFINE pieces == [p \in Peer |-> [base |-> Bound(p - 1), length |-> Bound(p) - Bound(p - 1)]]
             found == \A p \in Peer : marks(p) # {}
  <2>1. pieces' = pieces
    BY Zenon DEF Bound, marks, IsMarker, octet, cut
  <2>2. found' = found
    BY Same, Zenon
  <2> HIDE DEF pieces, found
  <2>3. Ready = (found /\ (buf # <<>> => run.past # Fault) /\ bufs = pieces)
    BY Zenon DEF Ready, pieces, found
  <2>4. Ready' = (found' /\ (buf' # <<>> => run'.past # Fault) /\ bufs' = pieces')
    BY Zenon DEF Ready, pieces, found
  <2> QED BY <1>2, <2>1, <2>2, <2>3, <2>4, Zenon
<1> QED BY <1>1, <1>2

(* A thread that does nothing.                                             *)
LEMMA PeerSame ==
  ASSUME run' = run, buf' = buf, NEW p,
         seen'[p] = seen[p], ptr'[p] = ptr[p], thread'[p] = thread[p]
  PROVE  Walked(p)' = Walked(p) /\ Done(p)' = Done(p)
<1> USE Same, SameFilled
<1>1. Walked(p)' = Walked(p)
  BY SMT DEF Walked, Walk
<1>2. Done(p)' = Done(p)
  BY SMT DEF Done
<1> QED BY <1>1, <1>2

(* While the threads do nothing.                                           *)
LEMMA Quiet ==
  ASSUME DInv, UNCHANGED <<run, buf, peerVars>>
  PROVE  /\ Mapped' /\ Counters' /\ AllReturned' = AllReturned
         /\ \A p \in Peer : Walked(p)'
         /\ bufs' = bufs => Ready' = Ready
<1>1. /\ run' = run /\ buf' = buf /\ seen' = seen /\ ptr' = ptr /\ thread' = thread
      /\ counted' = counted /\ _msg_count' = _msg_count
  BY DEF peerVars
<1>2. Mapped'
  BY <1>1, Same DEF DInv
<1>3. AllReturned' = AllReturned
  BY <1>1, Zenon DEF AllReturned
<1>4. ASSUME NEW p \in Peer PROVE Walked(p)'
  BY <1>1, PeerSame DEF DInv, Walks
<1>5. Counters' = Counters
  <2>1. ASSUME NEW p \in Peer PROVE Done(p)' = Done(p)
    BY <1>1, PeerSame
  <2>2. AllDone' = AllDone
    BY <2>1, Zenon DEF AllDone
  <2>3. \A o : Filled(o)' = Filled(o)
    BY <1>1, SameFilled
  <2> QED BY <1>1, <2>2, <2>3, Zenon DEF Counters
<1> QED BY <1>1, <1>2, <1>3, <1>4, <1>5, SameFilled DEF DInv

-----------------------------------------------------------------------------
(* The invariant holds at the start.                                       *)
LEMMA InvInit == Init => DInv
<1> SUFFICES ASSUME Init PROVE DInv
  OBVIOUS
<1>1. run \in Runs /\ Len(bodies) \in Nat /\ run.repeat \in Int
  BY Bodies DEF Init
<1>2. Mapped
  <2>1. Messages = 1..Len(bodies)
    BY <1>1, Bodies
  <2>2. (Len(bodies) + 1) - 1 = Len(bodies)
    BY <1>1
  <2>3. buf = FlattenSeq([i \in DOMAIN run.messages |-> message(run.messages[i])])
    BY DEF Init
  <2>4. DOMAIN run.messages = 1..((Len(bodies) + 1) - 1)
    BY <2>1, <2>2, Zenon DEF bodies, Messages
  <2> QED BY <1>1, <2>3, <2>4, Zenon DEF Mapped, before, bodies
<1>3. 1 \in Peer
  BY Constants DEF Peer
<1>4. Registers
  <2>1. <<>> \in Seq(Nat) /\ Len(<<>>) = 0
    OBVIOUS
  <2>2. pc \in PC /\ left \in Nat
    BY <1>1 DEF Init, PC
  <2>3. seen \in [Peer -> Seq(Nat)] /\ msg_count = [p \in Peer |-> Len(seen[p])]
    BY <2>1 DEF Init
  <2> QED BY <1>3, <2>2, <2>3 DEF Init, Registers
<1>5. Fresh
  BY DEF Init, Fresh
<1>6. ASSUME NEW p \in Peer PROVE seen[p] = <<>> /\ ptr[p] = 0 /\ thread[p] = "none" /\ DOMAIN seen[p] = {}
  BY DEF Init
<1>7. Walks
  BY <1>5, <1>6 DEF Walks, Walked
<1>8. Counters
  <2>1. AllDone = {}
    BY <1>6 DEF AllDone, Done
  <2>2. IsFiniteSet(AllDone) /\ Cardinality(AllDone) = 0
    BY <2>1, FS_EmptySet, Zenon
  <2> QED BY <1>6, <2>1, <2>2 DEF Init, Counters
<1>9. Stages
  <2>4. CASE pc = "exit"
    BY <2>4 DEF Stages
  <2>1. CASE run.repeat > 1 /\ pc # "exit"
    <3>1. pc = "reinit" /\ left = run.repeat + 1 /\ LOCRIB = FALSE
      BY <1>1, <2>1 DEF Init
    <3> QED BY <1>1, <1>5, <2>1, <3>1 DEF Stages, Rounds
  <2>2. CASE run.repeat = 1 /\ pc # "exit"
    <3>1. pc = "reinit" /\ left = 1 /\ LOCRIB = FALSE
      BY <1>1, <2>2 DEF Init
    <3> QED BY <1>1, <1>5, <2>2, <3>1 DEF Stages, Rounds
  <2>3. CASE run.repeat < 1 /\ pc # "exit"
    <3>1. pc = "report"
      BY <1>1, <2>3 DEF Init
    <3> QED BY <1>1, <1>5, <2>3, <3>1 DEF Stages
  <2> QED BY <1>1, <2>1, <2>2, <2>3, <2>4
<1>10. Stopping
  BY DEF Init, Stopping
<1> QED BY <1>2, <1>4, <1>7, <1>8, <1>9, <1>10 DEF DInv

(* reinit() keeps it.                                                      *)
LEMMA reinitKeeps == DInv /\ reinit => DInv'
<1> SUFFICES ASSUME DInv, reinit PROVE DInv'
  OBVIOUS
<1>1. pc = "reinit" /\ UNCHANGED <<run, buf, left, bufs, pn, message_count, durations, peerVars>>
  BY DEF reinit, At, Ends
<1>2. \/ LOCRIB /\ pc' = "assert" /\ LOCRIB' = LOCRIB
      \/ ~LOCRIB /\ pc' = "split" /\ LOCRIB' = TRUE
  BY DEF reinit, Ends
<1>3. /\ Mapped' /\ Counters' /\ AllReturned' = AllReturned
      /\ \A p \in Peer : Walked(p)'
      /\ Ready' = Ready
  BY <1>1, Quiet
<1>4. Fresh' = Fresh
  BY <1>1 DEF Fresh, peerVars
<1>5. Registers'
  BY <1>1, <1>2 DEF DInv, Registers, PC, peerVars
<1>6. Walks'
  BY <1>3, <1>4 DEF DInv, Walks
<1>7. run.repeat >= 1 /\ (LOCRIB => run.repeat > 1) /\ (~LOCRIB => Fresh /\ left = Rounds)
  BY <1>1 DEF DInv, Stages
<1>8. Rounds' = Rounds
  BY <1>1 DEF Rounds
<1>9. Stages' /\ Stopping'
  BY <1>1, <1>2, <1>4, <1>7, <1>8 DEF Stages, Stopping
<1> QED BY <1>3, <1>5, <1>6, <1>9 DEF DInv

(* Where the program ends by itself.                                       *)
LEMMA EndsKeep ==
  ASSUME DInv, NEW how \in {"assert", "fault"}, Ends(how),
         how = "assert" => run.repeat > 1 \/ (run.repeat = 1 /\ Unsplit),
         how = "fault" => run.repeat = 0 \/ run.past = Fault
  PROVE  DInv'
<1>1. pc' = how /\ UNCHANGED <<run, buf, left, LOCRIB, bufs, pn, message_count, durations, peerVars>>
  BY DEF Ends
<1>2. /\ Mapped' /\ Counters' /\ \A p \in Peer : Walked(p)'
      /\ Ready' = Ready
  BY <1>1, Quiet
<1>3. Fresh' = Fresh
  BY <1>1 DEF Fresh, peerVars
<1>4. Registers'
  BY <1>1 DEF DInv, Registers, PC, peerVars
<1>5. Walks'
  BY <1>2, <1>3 DEF DInv, Walks
<1>6. Stages'
  BY <1>1 DEF Stages
<1>7. Unsplit' = Unsplit
  BY <1>1, Same
<1>8. Stopping'
  BY <1>1, <1>7 DEF Stopping
<1> QED BY <1>2, <1>4, <1>5, <1>6, <1>8 DEF DInv

(* split_buf() keeps it: where it fails a cut was bad.                     *)
LEMMA split_bufKeeps == DInv /\ split_buf => DInv'
<1> SUFFICES ASSUME DInv, split_buf PROVE DInv'
  OBVIOUS
<1>1. pc = "split"
  BY DEF split_buf, At
<1>2. Fresh /\ LOCRIB /\ run.repeat >= 1 /\ left = Rounds
  BY <1>1 DEF DInv, Stages
<1> DEFINE n == Len(bodies)
<1>3. Shape(n) /\ run \in Runs /\ n \in Nat /\ run.repeat \in Int
  BY Geometry, Bodies DEF DInv
<1> HIDE DEF n
<1>4. CASE \E p \in 1..(npeers - 1) : marks(p) = {}
  <2>1. Ends("assert")
    BY <1>4 DEF split_buf
  <2>2. PICK p \in 1..(npeers - 1) : marks(p) = {}
    BY <1>4
  <2>3. p \in Peer /\ p < npeers
    BY Constants DEF Peer
  <2>4. Unsplit
    <3>1. CASE n = 0
      <4>1. ~MarkerAtEnd
        <5> SUFFICES ASSUME MarkerAtEnd PROVE FALSE
          OBVIOUS
        <5>1. n # 0
          BY <1>3, LastMark
        <5> QED BY <3>1, <5>1
      <4> QED BY <3>1, <4>1 DEF Unsplit, n
    <3>2. CASE n # 0
      <4>1. BadCut(p)
        BY <1>3, <2>2, <2>3, <3>2, NoneFound
      <4> QED BY <4>1 DEF Unsplit
    <3> QED BY <3>1, <3>2
  <2> QED BY <1>2, <1>3, <2>1, <2>4, EndsKeep
<1>5. CASE ~(\E p \in 1..(npeers - 1) : marks(p) = {}) /\ buf # <<>> /\ run.past = Fault
  <2>1. Ends("fault")
    BY <1>5 DEF split_buf
  <2> QED BY <1>5, <2>1, EndsKeep
<1>6. CASE ~(\E p \in 1..(npeers - 1) : marks(p) = {}) /\ ~(buf # <<>> /\ run.past = Fault) /\ marks(npeers) = {}
  <2>1. Ends("assert")
    BY <1>6 DEF split_buf
  <2>2. Unsplit
    <3>1. ~MarkerAtEnd
      <4> SUFFICES ASSUME MarkerAtEnd PROVE FALSE
        OBVIOUS
      <4>1. \E o \in marks(npeers) : o > start(n)
        BY <1>3, LastMark
      <4> QED BY <1>6, <4>1
    <3>2. n < 2
      <4> SUFFICES ASSUME n >= 2 PROVE FALSE
        BY <1>3
      <4>1. start(n) \in marks(npeers)
        BY <1>3, LastMark
      <4> QED BY <1>6, <4>1
    <3> QED BY <3>1, <3>2 DEF Unsplit, n
  <2> QED BY <1>2, <1>3, <2>1, <2>2, EndsKeep
<1>7. CASE ~(\E p \in 1..(npeers - 1) : marks(p) = {}) /\ ~(buf # <<>> /\ run.past = Fault) /\ marks(npeers) # {}
  <2>1. /\ bufs' = [p \in Peer |-> piece(p)] /\ pc' = "create"
        /\ UNCHANGED <<run, buf, left, LOCRIB, pn, message_count, durations, peerVars>>
    BY <1>7, Zenon DEF split_buf
  <2>2. ASSUME NEW p \in Peer PROVE marks(p) # {}
    <3>1. p = npeers \/ p \in 1..(npeers - 1)
      BY Constants DEF Peer
    <3> QED BY <1>7, <3>1
  <2>3. ASSUME NEW p \in Peer PROVE piece(p) = [base |-> Bound(p - 1), length |-> Bound(p) - Bound(p - 1)]
    <3>1. p # 0 /\ (p = 1 => p - 1 = 0) /\ (p # 1 => p - 1 # 0)
      BY Constants DEF Peer
    <3>2. Bound(p) = Max(marks(p)) /\ Bound(p - 1) = (IF p = 1 THEN 0 ELSE Max(marks(p - 1)))
      BY <3>1 DEF Bound
    <3> QED BY <3>2, Zenon DEF piece
  <2>4. bufs' = [p \in Peer |-> [base |-> Bound(p - 1), length |-> Bound(p) - Bound(p - 1)]]
    BY <2>1, <2>3, Zenon
  <2>5. Ready'
    <3>1. (\A p : marks(p)' = marks(p)) /\ (\A p : Bound(p)' = Bound(p))
      BY <2>1, Same
    <3>2. (\A p \in Peer : marks(p) # {})' /\ (buf # <<>> => run.past # Fault)'
      BY <1>7, <2>1, <2>2, <3>1
    <3>3. bufs' = [p \in Peer |-> [base |-> Bound(p - 1)', length |-> Bound(p)' - Bound(p - 1)']]
      BY <2>4, <3>1, Zenon
    <3> QED BY <3>2, <3>3, Zenon DEF Ready
  <2>6. /\ Mapped' /\ Counters' /\ \A p \in Peer : Walked(p)'
    BY <2>1, Quiet
  <2>7. Registers'
    BY <2>1 DEF DInv, Registers, PC, peerVars
  <2>8. Walks'
    BY <2>5, <2>6 DEF Walks
  <2>9. Creating'
    <3>1. pn' = 1 /\ thread' = thread /\ \A p \in Peer : thread[p] = "none" /\ p >= 1
      BY <1>2, <2>1, Constants DEF Fresh, peerVars, Peer
    <3> QED BY <3>1 DEF Creating, Peer
  <2>10. Stages' /\ Stopping'
    <3>1. Rounds' = Rounds
      BY <2>1 DEF Rounds
    <3> QED BY <1>2, <2>1, <2>5, <2>9, <3>1 DEF Stages, Stopping
  <2> QED BY <2>6, <2>7, <2>8, <2>10 DEF DInv
<1> QED BY <1>4, <1>5, <1>6, <1>7

(* A step that leaves what has been counted alone.                         *)
LEMMA CountersKept ==
  ASSUME DInv, run' = run, buf' = buf, _msg_count' = _msg_count,
         \A q \in Peer : Done(q)' = Done(q),
         \A q \in Peer : thread'[q] = "count" =>
            (/\ run.spare \in 0..(Len(seen[q]) - 1) /\ Filled(seen[q][Len(seen[q])])
             /\ counted[q] <= Cardinality(AllDone))' /\ (~run.multithread => counted'[q] = Cardinality(AllDone))
  PROVE  Counters'
<1>1. AllDone' = AllDone
  BY Zenon DEF AllDone
<1>2. (\A p \in Peer : thread[p] = "count" =>
       /\ run.spare \in 0..(Len(seen[p]) - 1) /\ Filled(seen[p][Len(seen[p])])
       /\ counted[p] <= Cardinality(AllDone))'
  BY Zenon
<1>3. (~run.multithread =>
       /\ _msg_count = Cardinality(AllDone)
       /\ \A p \in Peer : thread[p] = "count" => counted[p] = Cardinality(AllDone))'
  BY <1>1, Zenon DEF DInv, Counters
<1>4. (/\ IsFiniteSet(AllDone)
       /\ _msg_count <= Cardinality(AllDone)
       /\ AllDone # {} => _msg_count > 0)'
  BY <1>1, Zenon DEF DInv, Counters
<1> QED BY <1>2, <1>3, <1>4, Zenon DEF Counters

(* pthread_create() keeps it.                                              *)
LEMMA CreateKeeps == DInv /\ Create => DInv'
<1> SUFFICES ASSUME DInv, Create PROVE DInv'
  OBVIOUS
<1>1. /\ pc = "create" /\ UNCHANGED <<run, buf, left, LOCRIB, bufs, message_count, durations, counted, _msg_count>>
      /\ thread' = [thread EXCEPT ![pn] = "parse"]
      /\ ptr' = [ptr EXCEPT ![pn] = bufs[pn].base]
      /\ msg_count' = [msg_count EXCEPT ![pn] = 0]
      /\ seen' = [seen EXCEPT ![pn] = <<>>]
      /\ IF run.multithread /\ pn < npeers THEN pn' = pn + 1 /\ UNCHANGED pc
         ELSE pn' = (IF run.multithread THEN 1 ELSE pn) /\ pc' = "join"
  BY DEF Create, At
<1>2. Ready /\ Creating /\ LOCRIB /\ run.repeat >= 1 /\ left = Rounds
  BY <1>1 DEF DInv, Stages
<1>3. Registers /\ Mapped /\ pn \in Peer /\ pn \in Nat /\ npeers \in Nat /\ pn <= npeers /\ 1 \in Peer
  BY Constants DEF DInv, Registers, Peer
<1>4. /\ thread'[pn] = "parse" /\ ptr'[pn] = Bound(pn - 1) /\ seen'[pn] = <<>> /\ msg_count'[pn] = 0
      /\ Bound(pn - 1) \in Nat
  BY <1>1, <1>2, <1>3, Pieces DEF Registers
<1>5. ASSUME NEW q \in Peer, q # pn
      PROVE  thread'[q] = thread[q] /\ ptr'[q] = ptr[q] /\ seen'[q] = seen[q] /\ msg_count'[q] = msg_count[q]
  BY <1>1, <1>3, <1>5 DEF Registers
<1>6. thread[pn] = "none" /\ seen[pn] = <<>>
  <2>1. thread[pn] = "none"
    BY <1>2, <1>3 DEF Creating
  <2> QED BY <1>3, <2>1 DEF DInv, Walks, Walked
<1>7. Registers'
  <2>1. pc' \in PC /\ pn' \in Peer
    BY <1>1, <1>3 DEF Registers, PC, Peer
  <2>2. <<>> \in Seq(Nat) /\ Len(<<>>) = 0
    OBVIOUS
  <2>3. thread' \in [Peer -> {"none", "parse", "count", "returned"}]
    BY <1>1, <1>3 DEF Registers
  <2>4. ptr' \in [Peer -> Nat] /\ seen' \in [Peer -> Seq(Nat)]
    <3>1. bufs[pn].base \in Nat
      BY <1>2, <1>3, Pieces
    <3> QED BY <1>1, <1>3, <2>2, <3>1 DEF Registers
  <2>5. msg_count' = [p \in Peer |-> Len(seen'[p])]
    <3>1. \A q \in Peer : msg_count'[q] = Len(seen'[q])
      BY <1>3, <1>4, <1>5, <2>2 DEF Registers
    <3>2. msg_count' = [p \in Peer |-> msg_count'[p]]
      BY <1>1, <1>3 DEF Registers
    <3> QED BY <3>1, <3>2, Zenon
  <2> QED BY <1>1, <1>3, <2>1, <2>3, <2>4, <2>5 DEF Registers
<1>8. Mapped' /\ Ready' /\ Rounds' = Rounds
  BY <1>1, <1>2, <1>3, Same, SameFilled DEF Rounds
<1>9. ASSUME NEW q \in Peer PROVE Walked(q)' /\ Done(q)' = Done(q)
  <2>1. CASE q = pn
    <3>1. (\A p : Bound(p)' = Bound(p))
      BY <1>1, Same
    <3>2. thread'[q] = "parse" /\ ptr'[q] = Bound(q - 1) /\ seen'[q] = <<>> /\ seen[q] = <<>>
      BY <1>4, <1>6, <2>1
    <3>3. Walked(q)'
      BY <3>1, <3>2 DEF Walked
    <3>4. DOMAIN seen[q] = {} /\ DOMAIN seen'[q] = {}
      BY <3>2
    <3>5. Done(q)' = {} /\ Done(q) = {}
      BY <3>4, Zenon DEF Done
    <3> QED BY <3>3, <3>5
  <2>2. CASE q # pn
    BY <1>1, <1>5, <2>2, PeerSame DEF DInv, Walks
  <2> QED BY <2>1, <2>2
<1>10. Walks'
  BY <1>8, <1>9 DEF Walks
<1>11. Counters'
  <2>1. ASSUME NEW q \in Peer, thread'[q] = "count"
        PROVE (/\ run.spare \in 0..(Len(seen[q]) - 1) /\ Filled(seen[q][Len(seen[q])])
               /\ counted[q] <= Cardinality(AllDone))'
              /\ (~run.multithread => counted'[q] = Cardinality(AllDone))
    <3>1. q # pn
      BY <1>4, <2>1
    <3>2. thread[q] = "count" /\ seen'[q] = seen[q] /\ counted' = counted /\ run' = run
      BY <1>1, <1>5, <2>1, <3>1
    <3>3. AllDone' = AllDone
      BY <1>9, Zenon DEF AllDone
    <3>4. \A o : Filled(o)' = Filled(o)
      BY <1>1, SameFilled
    <3> QED BY <3>2, <3>3, <3>4 DEF DInv, Counters
  <2> QED BY <1>1, <1>9, <2>1, CountersKept
<1>12. Stages' /\ Stopping'
  <2>1. CASE run.multithread /\ pn < npeers
    <3>1. pn' = pn + 1 /\ pc' = "create"
      BY <1>1, <2>1
    <3>2. Creating'
      BY <1>1, <1>2, <1>3, <1>4, <1>5, <2>1, <3>1 DEF Creating, Peer
    <3> QED BY <1>1, <1>2, <1>8, <3>1, <3>2 DEF Stages, Stopping
  <2>2. CASE ~(run.multithread /\ pn < npeers)
    <3>1. pn' = (IF run.multithread THEN 1 ELSE pn) /\ pc' = "join"
      BY <1>1, <2>2
    <3>2. Joining'
      BY <1>1, <1>2, <1>3, <1>4, <1>5, <2>2, <3>1 DEF Creating, Joining, Peer
    <3> QED BY <1>1, <1>2, <1>8, <3>1, <3>2 DEF Stages, Stopping
  <2> QED BY <2>1, <2>2
<1> QED BY <1>7, <1>8, <1>10, <1>11, <1>12 DEF DInv

(* pthread_join() keeps it.                                                *)
LEMMA JoinKeeps == DInv /\ Join => DInv'
<1> SUFFICES ASSUME DInv, Join PROVE DInv'
  OBVIOUS
<1>1. /\ pc = "join" /\ thread[pn] = "returned" /\ message_count' = msg_count[pn]
      /\ pn' = IF pn < npeers THEN pn + 1 ELSE 1
      /\ pc' = IF pn = npeers THEN "flush" ELSE IF run.multithread THEN "join" ELSE "create"
      /\ UNCHANGED <<run, buf, left, LOCRIB, bufs, durations, peerVars>>
  BY DEF Join, At
<1>2. Ready /\ Joining /\ LOCRIB /\ run.repeat >= 1 /\ left = Rounds
  BY <1>1 DEF DInv, Stages
<1>3. Registers /\ Mapped /\ pn \in Peer /\ pn \in Nat /\ npeers \in Nat /\ pn <= npeers /\ 1 \in Peer
  BY Constants DEF DInv, Registers, Peer
<1>4. /\ Mapped' /\ Counters' /\ AllReturned' = AllReturned
      /\ \A p \in Peer : Walked(p)'
      /\ Ready' /\ Rounds' = Rounds
  BY <1>1, <1>2, Quiet DEF Rounds
<1>5. message_count' = Len(seen[pn]) /\ message_count' \in Nat
  BY <1>1, <1>3 DEF Registers
<1>6. Registers'
  <2>1. pn' \in Peer
    BY <1>1, <1>3 DEF Peer
  <2>2. pc' \in PC
    BY <1>1 DEF PC
  <2> QED BY <1>1, <1>3, <1>5, <2>1, <2>2 DEF Registers, peerVars
<1>7. Walks'
  BY <1>4 DEF Walks
<1>8. thread' = thread /\ seen' = seen /\ run' = run
  BY <1>1 DEF peerVars
<1>9. CASE pn = npeers
  <2>1. pc' = "flush" /\ message_count' = Len(seen'[npeers])
    BY <1>1, <1>5, <1>8, <1>9
  <2>2. AllReturned'
    BY <1>1, <1>2, <1>3, <1>4, <1>9 DEF Joining, AllReturned, Peer
  <2>3. Stages' /\ Stopping'
    BY <1>1, <1>2, <1>4, <2>1, <2>2 DEF Stages, Stopping
  <2> QED BY <1>4, <1>6, <1>7, <2>3 DEF DInv
<1>10. CASE pn # npeers /\ run.multithread
  <2>1. pc' = "join" /\ pn' = pn + 1
    BY <1>1, <1>3, <1>10
  <2>2. Joining'
    BY <1>1, <1>2, <1>3, <1>8, <1>10, <2>1 DEF Joining, Peer
  <2>3. Stages' /\ Stopping'
    BY <1>1, <1>2, <1>4, <2>1, <2>2 DEF Stages, Stopping
  <2> QED BY <1>4, <1>6, <1>7, <2>3 DEF DInv
<1>11. CASE pn # npeers /\ ~run.multithread
  <2>1. pc' = "create" /\ pn' = pn + 1
    BY <1>1, <1>3, <1>11
  <2>2. Creating'
    BY <1>1, <1>2, <1>3, <1>8, <1>11, <2>1 DEF Joining, Creating, Peer
  <2>3. Stages' /\ Stopping'
    BY <1>1, <1>2, <1>4, <2>1, <2>2 DEF Stages, Stopping
  <2> QED BY <1>4, <1>6, <1>7, <2>3 DEF DInv
<1> QED BY <1>9, <1>10, <1>11

(* The end of a round keeps it.                                            *)
LEMMA FlushKeeps == DInv /\ Flush => DInv'
<1> SUFFICES ASSUME DInv, Flush PROVE DInv'
  OBVIOUS
<1>1. /\ pc = "flush" /\ left' = left - 1 /\ pc' = IF left > 1 THEN "reinit" ELSE "report"
      /\ UNCHANGED <<run, buf, LOCRIB, bufs, pn, message_count, peerVars>>
  BY DEF Flush, At
<1>2. Ready /\ AllReturned /\ LOCRIB /\ run.repeat >= 1 /\ left = Rounds
      /\ (run.repeat > 0 => message_count = Len(seen[npeers]))
  BY <1>1 DEF DInv, Stages
<1>3. run.repeat \in Int
  BY Geometry, Bodies DEF DInv
<1>4. /\ Mapped' /\ Counters' /\ AllReturned' /\ \A p \in Peer : Walked(p)'
      /\ Ready' /\ Rounds' = Rounds
  BY <1>1, <1>2, Quiet DEF Rounds
<1>5. left' \in Nat
  BY <1>1, <1>2, <1>3 DEF Rounds
<1>6. Registers'
  BY <1>1, <1>5 DEF DInv, Registers, PC, peerVars
<1>7. Walks'
  BY <1>4 DEF Walks
<1>8. seen' = seen /\ run' = run
  BY <1>1 DEF peerVars
<1>9. IF run.repeat > 1 THEN pc' = "reinit" ELSE pc' = "report" /\ run.repeat = 1
  BY <1>1, <1>2, <1>3 DEF Rounds
<1>10. Stages' /\ Stopping'
  BY <1>1, <1>2, <1>3, <1>4, <1>8, <1>9 DEF Stages, Stopping
<1> QED BY <1>4, <1>6, <1>7, <1>10 DEF DInv

(* The end of main() keeps it.                                             *)
LEMMA ReportKeeps == DInv /\ Report => DInv'
<1> SUFFICES ASSUME DInv, Report PROVE DInv'
  OBVIOUS
<1>1. pc = "report" /\ Ends(IF run.repeat = 0 THEN "fault" ELSE "done")
  BY DEF Report, At
<1>2. CASE run.repeat = 0
  <2>1. Ends("fault")
    BY <1>1, <1>2
  <2> QED BY <1>2, <2>1, EndsKeep
<1>3. CASE run.repeat # 0
  <2>1. pc' = "done" /\ UNCHANGED <<run, buf, left, LOCRIB, bufs, pn, message_count, durations, peerVars>>
    BY <1>1, <1>3 DEF Ends
  <2>2. /\ Mapped' /\ Counters' /\ AllReturned' = AllReturned /\ \A p \in Peer : Walked(p)'
        /\ Ready' = Ready
    BY <2>1, Quiet
  <2>3. Fresh' = Fresh /\ seen' = seen
    BY <2>1 DEF Fresh, peerVars
  <2>4. Registers'
    BY <2>1 DEF DInv, Registers, PC, peerVars
  <2>5. Walks'
    BY <2>2, <2>3 DEF DInv, Walks
  <2>6. /\ (run.repeat < 0 /\ Fresh) \/ (run.repeat = 1 /\ Ready /\ AllReturned)
        /\ run.repeat > 0 => message_count = Len(seen[npeers])
    BY <1>1, <1>3 DEF DInv, Stages
  <2>7. Stages' /\ Stopping'
    BY <2>1, <2>2, <2>3, <2>6 DEF Stages, Stopping
  <2> QED BY <2>2, <2>4, <2>5, <2>7 DEF DInv
<1> QED BY <1>2, <1>3

(* What the step of a thread leaves as it is.                              *)
LEMMA ThreadStep ==
  ASSUME DInv, NEW p \in Peer, pc \in {"create", "join"}, UNCHANGED <<run, buf, mainVars>>,
         thread[p] \in {"parse", "count"},
         NEW s \in {"parse", "count", "returned"}, thread' = [thread EXCEPT ![p] = s],
         \A q \in Peer : q # p => seen'[q] = seen[q] /\ ptr'[q] = ptr[q],
         Walked(p)'
  PROVE  /\ Walks' /\ Stages' /\ Stopping' /\ Mapped'
         /\ \A q \in Peer : q # p => Done(q)' = Done(q) /\ thread'[q] = thread[q]
         /\ thread'[p] = s /\ thread' \in [Peer -> {"none", "parse", "count", "returned"}]
         /\ \A o : Filled(o)' = Filled(o)
<1>1. /\ run' = run /\ buf' = buf /\ pc' = pc /\ left' = left /\ LOCRIB' = LOCRIB /\ bufs' = bufs
      /\ pn' = pn /\ message_count' = message_count
  BY DEF mainVars
<1>2. Ready /\ Mapped /\ LOCRIB /\ run.repeat >= 1 /\ left = Rounds
  BY DEF DInv, Stages
<1>3. /\ thread'[p] = s /\ thread' \in [Peer -> {"none", "parse", "count", "returned"}]
      /\ \A q \in Peer : q # p => thread'[q] = thread[q]
  BY DEF DInv, Registers
<1>4. Ready' /\ Mapped' /\ Rounds' = Rounds /\ \A o : Filled(o)' = Filled(o)
  BY <1>1, <1>2, SameFilled, Same DEF Rounds
<1>5. ASSUME NEW q \in Peer, q # p PROVE Walked(q)' /\ Done(q)' = Done(q)
  BY <1>1, <1>3, <1>5, PeerSame DEF DInv, Walks
<1>6. Walks'
  BY <1>4, <1>5 DEF Walks
<1>7. thread[p] # "none" /\ thread[p] # "returned" /\ thread'[p] # "none"
  BY <1>3
<1>8. pc = "create" => Creating'
  <2> SUFFICES ASSUME pc = "create" PROVE Creating'
    OBVIOUS
  <2>1. Creating
    BY DEF DInv, Stages
  <2> QED BY <1>1, <1>3, <1>7, <2>1 DEF Creating
<1>9. pc = "join" => Joining'
  <2> SUFFICES ASSUME pc = "join" PROVE Joining'
    OBVIOUS
  <2>1. Joining
    BY DEF DInv, Stages
  <2> QED BY <1>1, <1>3, <1>7, <2>1 DEF Joining
<1>10. Stages' /\ Stopping'
  BY <1>1, <1>2, <1>4, <1>8, <1>9 DEF Stages, Stopping
<1> QED BY <1>3, <1>4, <1>5, <1>6, <1>10

(* The return of a thread keeps it.                                        *)
LEMMA LeaveKeeps == ASSUME DInv, NEW p \in Peer, Leave(p) PROVE DInv'
<1>1. /\ pc \notin Stopped /\ thread[p] = "parse" /\ ~More(p)
      /\ thread' = [thread EXCEPT ![p] = "returned"]
      /\ UNCHANGED <<run, buf, mainVars, ptr, msg_count, counted, _msg_count, seen>>
  BY DEF Leave, Parsing
<1>2. pc \in {"create", "join"} /\ Ready
  BY <1>1, Active DEF DInv
<1>3. Registers /\ Mapped /\ Walked(p) /\ ptr[p] \in Nat /\ msg_count[p] = Len(seen[p]) /\ seen[p] \in Seq(Nat)
  BY DEF DInv, Walks, Registers
<1>4. ptr[p] >= Bound(p) \/ (run.msg_max > 0 /\ Len(seen[p]) >= run.msg_max)
  <2>1. bufs[p].base + bufs[p].length = Bound(p) /\ Bound(p) \in Nat
    BY <1>2, <1>3, Pieces
  <2>2. run.msg_max \in Int
    BY <1>3, Geometry, Bodies
  <2>3. Len(seen[p]) \in Nat
    BY <1>3
  <2> QED BY <1>1, <1>3, <2>1, <2>2, <2>3 DEF More
<1>5. thread'[p] = "returned" /\ run' = run /\ buf' = buf /\ seen' = seen /\ ptr' = ptr
  BY <1>1, <1>3 DEF Registers
<1>6. /\ \A q : Bound(q)' = Bound(q)
      /\ \A i : start(i)' = start(i)
      /\ bodies' = bodies /\ Messages' = Messages
  BY <1>5, Same
<1>7. Walked(p)'
  <2>1. seen[p] = <<>> => ptr[p] = Bound(p - 1)
    BY <1>1, <1>3 DEF Walked
  <2>2. seen[p] # <<>> => \E f \in Messages : Walk(p, f)
    BY <1>3 DEF Walked
  <2>3. \A f : Walk(p, f)' = Walk(p, f)
    BY <1>5, <1>6 DEF Walk
  <2> QED BY <1>4, <1>5, <1>6, <2>1, <2>2, <2>3 DEF Walked
<1>8. /\ Walks' /\ Stages' /\ Stopping' /\ Mapped'
      /\ \A q \in Peer : q # p => Done(q)' = Done(q) /\ thread'[q] = thread[q]
      /\ thread' \in [Peer -> {"none", "parse", "count", "returned"}]
      /\ \A o : Filled(o)' = Filled(o)
  BY <1>1, <1>2, <1>5, <1>7, ThreadStep
<1>9. Done(p)' = Done(p)
  BY <1>1, <1>5, <1>8 DEF Done
<1>10. AllDone' = AllDone
  BY <1>8, <1>9, Zenon DEF AllDone
<1>11. Counters'
  <2>1. ASSUME NEW q \in Peer, thread'[q] = "count"
        PROVE (/\ run.spare \in 0..(Len(seen[q]) - 1) /\ Filled(seen[q][Len(seen[q])])
               /\ counted[q] <= Cardinality(AllDone))'
              /\ (~run.multithread => counted'[q] = Cardinality(AllDone))
    <3>1. q # p /\ thread[q] = "count" /\ counted' = counted
      BY <1>1, <1>5, <1>8, <2>1
    <3> QED BY <1>5, <1>8, <1>10, <3>1 DEF DInv, Counters
  <2> QED BY <1>1, <1>5, <1>8, <1>9, <2>1, CountersKept
<1>12. Registers'
  BY <1>1, <1>3, <1>8 DEF Registers, mainVars
<1> QED BY <1>8, <1>11, <1>12 DEF DInv

(* The store of the counter keeps it: of the threads that store at the     *)
(* same time each has loaded at most what had been counted by then.        *)
LEMMA CountKeeps == ASSUME DInv, NEW p \in Peer, Count(p) PROVE DInv'
<1>1. /\ pc \notin Stopped /\ thread[p] = "count"
      /\ _msg_count' = counted[p] + 1
      /\ thread' = [thread EXCEPT ![p] = "parse"]
      /\ UNCHANGED <<run, buf, mainVars, ptr, msg_count, counted, seen>>
  BY DEF Count
<1>2. pc \in {"create", "join"} /\ Ready /\ (~run.multithread => pc = "join" /\ p = pn)
  BY <1>1, Active DEF DInv
<1>3. Registers /\ Mapped /\ Walked(p) /\ counted[p] \in Nat /\ seen[p] \in Seq(Nat)
  BY DEF DInv, Walks, Registers
<1>5. thread'[p] = "parse" /\ run' = run /\ buf' = buf /\ seen' = seen /\ ptr' = ptr /\ counted' = counted
  BY <1>1, <1>3 DEF Registers
<1>6. /\ \A q : Bound(q)' = Bound(q)
      /\ \A i : start(i)' = start(i)
      /\ bodies' = bodies /\ Messages' = Messages
  BY <1>5, Same
<1>7. Walked(p)'
  <2>1. seen[p] # <<>> /\ \E f \in Messages : Walk(p, f)
    BY <1>1, <1>3 DEF Walked
  <2>3. \A f : Walk(p, f)' = Walk(p, f)
    BY <1>5, <1>6 DEF Walk
  <2> QED BY <1>5, <1>6, <2>1, <2>3 DEF Walked
<1>8. /\ Walks' /\ Stages' /\ Stopping' /\ Mapped'
      /\ \A q \in Peer : q # p => Done(q)' = Done(q) /\ thread'[q] = thread[q]
      /\ thread' \in [Peer -> {"none", "parse", "count", "returned"}]
      /\ \A o : Filled(o)' = Filled(o)
  BY <1>1, <1>2, <1>5, <1>7, ThreadStep
<1> DEFINE last == Len(seen[p])
<1>9. /\ last \in DOMAIN seen[p] /\ run.spare \in 0..(last - 1) /\ Filled(seen[p][last])
      /\ counted[p] <= Cardinality(AllDone) /\ IsFiniteSet(AllDone)
      /\ ~run.multithread => counted[p] = Cardinality(AllDone)
  <2>1. seen[p] # <<>>
    BY <1>1, <1>3 DEF Walked
  <2>2. last \in DOMAIN seen[p]
    BY <1>3, <2>1
  <2> QED BY <1>1, <2>2, Zenon DEF DInv, Counters
<1> HIDE DEF last
<1>10. Done(p)' = Done(p) \cup {last} /\ last \notin Done(p)
  <2>1. Done(p) = {i \in DOMAIN seen[p] : run.spare \in 0..(i - 1) /\ Filled(seen[p][i]) /\ i # last}
    BY <1>1 DEF Done, last
  <2>2. Done(p)' = {i \in DOMAIN seen[p] : run.spare \in 0..(i - 1) /\ Filled(seen[p][i])}
    BY <1>5, <1>8 DEF Done
  <2> QED BY <1>9, <2>1, <2>2
<1>11. AllDone' = AllDone \cup {<<p, last>>} /\ <<p, last>> \notin AllDone
  <2>1. AllDone' = UNION {{q} \X (Done(q)') : q \in Peer}
    BY Zenon DEF AllDone, Peer
  <2>2. \A x : x \in AllDone' <=> \E q \in Peer : \E i \in Done(q)' : x = <<q, i>>
    BY <2>1
  <2>3. \A x : x \in AllDone <=> \E q \in Peer : \E i \in Done(q) : x = <<q, i>>
    BY DEF AllDone
  <2>4. ASSUME NEW x PROVE x \in AllDone' <=> x \in AllDone \cup {<<p, last>>}
    <3>1. ASSUME NEW q \in Peer, NEW i \in Done(q)', x = <<q, i>> PROVE x \in AllDone \cup {<<p, last>>}
      <4>1. CASE q = p
        <5>1. i \in Done(p) \/ i = last
          BY <1>10, <3>1, <4>1
        <5> QED BY <2>3, <3>1, <4>1, <5>1
      <4>2. CASE q # p
        BY <1>8, <2>3, <3>1, <4>2
      <4> QED BY <4>1, <4>2
    <3>2. ASSUME NEW q \in Peer, NEW i \in Done(q), x = <<q, i>> PROVE x \in AllDone'
      <4>1. i \in Done(q)'
        BY <1>8, <1>10, <3>2
      <4> QED BY <2>2, <3>2, <4>1
    <3>3. <<p, last>> \in AllDone'
      BY <1>10, <2>2
    <3> QED BY <2>2, <2>3, <3>1, <3>2, <3>3
  <2>5. <<p, last>> \notin AllDone
    BY <1>10, <2>3
  <2> QED BY <2>4, <2>5
<1> DEFINE c == Cardinality(AllDone)
<1>12. IsFiniteSet(AllDone') /\ Cardinality(AllDone') = c + 1 /\ c \in Nat
  BY <1>9, <1>11, FS_AddElement, FS_CardinalityType, Zenon
<1> HIDE DEF c
<1>13. Counters'
  <2>1. _msg_count' <= c + 1 /\ _msg_count' > 0
    BY <1>1, <1>3, <1>9, <1>12 DEF c
  <2>2. ASSUME NEW q \in Peer, thread'[q] = "count"
        PROVE  /\ (run.spare \in 0..(Len(seen[q]) - 1) /\ Filled(seen[q][Len(seen[q])]))'
               /\ counted'[q] <= c + 1 /\ run.multithread
    <3>1. q # p /\ thread[q] = "count"
      BY <1>5, <1>8, <2>2
    <3>2. /\ run.spare \in 0..(Len(seen[q]) - 1) /\ Filled(seen[q][Len(seen[q])])
          /\ counted[q] <= c
      BY <3>1 DEF DInv, Counters, c
    <3>3. run.multithread
      BY <1>1, <1>2, <3>1, Active DEF DInv
    <3>4. counted[q] \in Nat
      BY <1>3 DEF Registers
    <3> QED BY <1>5, <1>8, <1>12, <3>2, <3>3, <3>4
  <2>3. ~run.multithread => _msg_count' = c + 1
    BY <1>1, <1>9 DEF c
  <2>4. _msg_count' <= Cardinality(AllDone') /\ (AllDone' # {} => _msg_count' > 0)
    BY <1>12, <2>1
  <2>5. ~run'.multithread => _msg_count' = Cardinality(AllDone')
    BY <1>5, <1>12, <2>3
  <2>6. \A q \in Peer : thread'[q] = "count" => 
          /\ (run.spare \in 0..(Len(seen[q]) - 1) /\ Filled(seen[q][Len(seen[q])]))'
          /\ counted'[q] <= Cardinality(AllDone') /\ run'.multithread
    BY <1>5, <1>12, <2>2, Zenon
  <2> QED BY <1>12, <2>4, <2>5, <2>6, Zenon DEF Counters
<1>14. Registers'
  BY <1>1, <1>3, <1>8 DEF Registers, mainVars
<1> QED BY <1>8, <1>13, <1>14 DEF DInv

(* A message keeps it: the thread is at the next one of its piece, or the  *)
(* piece begins where no message does and the assertion fails.             *)
LEMMA MessageKeeps == ASSUME DInv, NEW p \in Peer, Message(p) PROVE DInv'
<1>1. /\ pc \notin Stopped /\ thread[p] = "parse" /\ More(p)
  BY DEF Message, Parsing
<1>2. pc \in {"create", "join"} /\ Ready
  BY <1>1, Active DEF DInv
<1>3. Registers /\ Mapped /\ Walked(p) /\ ptr[p] \in Nat /\ msg_count[p] = Len(seen[p]) /\ seen[p] \in Seq(Nat)
      /\ run.repeat \in Int /\ run.repeat >= 1
  BY <1>2, Geometry, Bodies DEF DInv, Walks, Registers, Stages
<1> DEFINE n == Len(bodies)
           len == Len(seen[p])
<1>4. Messages = 1..n /\ n \in Nat /\ run.spare \in Int
  BY <1>3, Geometry, Bodies
<1>5. len \in Nat /\ DOMAIN seen[p] = 1..len
  BY <1>3
<1>6. /\ ptr[p] < Bound(p)
      /\ \/ \E f \in Messages :
                 /\ f + Len(seen[p]) <= Len(bodies) /\ Bound(p - 1) = start(f)
                 /\ ptr[p] = start(f + Len(seen[p]))
         \/ seen[p] = <<>> /\ p - 1 \in Peer /\ p - 1 < npeers /\ BadCut(p - 1)
            /\ octet(ptr[p] + MarkerLen) = FF
  BY <1>1, <1>2, <1>3, AtMessage DEF More
<1>7. CASE ~IsMarker(ptr[p]) \/ octet(ptr[p] + MarkerLen) = FF
  <2>1. Ends("assert")
    BY <1>7 DEF Message
  <2>2. Unsplit
    <3>1. CASE \E f \in Messages : /\ f + Len(seen[p]) <= Len(bodies) /\ Bound(p - 1) = start(f)
                                   /\ ptr[p] = start(f + Len(seen[p]))
      <4>1. PICK f \in Messages : f + len <= n /\ ptr[p] = start(f + len)
        BY <3>1
      <4> DEFINE k == f + len
      <4>2. k \in Messages
        BY <1>4, <1>5, <4>1
      <4> HIDE DEF k
      <4>3. IsMarker(start(k)) /\ octet(start(k) + MarkerLen) = Size(k) /\ Size(k) # FF
        BY <1>3, <4>2, MessageAt, Zenon
      <4>4. ptr[p] = start(k)
        BY <4>1 DEF k
      <4> QED BY <1>7, <4>3, <4>4, Zenon
    <3>2. CASE p - 1 \in Peer /\ p - 1 < npeers /\ BadCut(p - 1)
      <4>1. p - 1 \in 1..(npeers - 1)
        BY <3>2, Constants DEF Peer
      <4> QED BY <3>2, <4>1 DEF Unsplit
    <3> QED BY <1>6, <3>1, <3>2
  <2> QED BY <1>3, <2>1, <2>2, EndsKeep
<1>8. CASE ~(~IsMarker(ptr[p]) \/ octet(ptr[p] + MarkerLen) = FF)
  <2>1. /\ ptr' = [ptr EXCEPT ![p] = @ + octet(@ + MarkerLen)]
        /\ msg_count' = [msg_count EXCEPT ![p] = @ + 1]
        /\ seen' = [seen EXCEPT ![p] = Append(@, ptr[p])]
        /\ IF parsed(p)
           THEN /\ counted' = [counted EXCEPT ![p] = _msg_count]
                /\ thread' = [thread EXCEPT ![p] = "count"]
           ELSE UNCHANGED <<counted, thread>>
        /\ UNCHANGED <<run, buf, mainVars, _msg_count>>
    BY <1>8 DEF Message
  <2>2. PICK f \in Messages : /\ f + len <= n /\ Bound(p - 1) = start(f)
                              /\ ptr[p] = start(f + len)
    BY <1>6, <1>8
  <2> DEFINE k == f + len
  <2>3. k \in Messages /\ k <= n /\ k + 1 = f + (len + 1) /\ ptr[p] = start(k) /\ f \in Nat
    BY <1>4, <1>5, <2>2
  <2>4. run' = run /\ buf' = buf
    BY <2>1
  <2> HIDE DEF k
  <2>5. /\ octet(start(k) + MarkerLen) = Size(k) /\ start(k + 1) = start(k) + Size(k)
        /\ start(k) \in Nat /\ start(k + 1) \in Nat
        /\ Size(k) > MarkerLen + 1 <=> bodies[k] # <<>>
        /\ bodies[k] # <<>> => octet(start(k) + MarkerLen + 1) = bodies[k][1]
        /\ Filled(start(k)) <=> bodies[k] # <<>> /\ bodies[k][1] # Bare
    BY <1>3, <2>3, MessageAt, Zenon
  <2>6. ptr'[p] = start(k + 1) /\ ptr' \in [Peer -> Nat] /\ \A q \in Peer : q # p => ptr'[q] = ptr[q]
    <3>1. ptr[p] + octet(ptr[p] + MarkerLen) = start(k + 1)
      BY <2>3, <2>5
    <3>2. ptr' = [ptr EXCEPT ![p] = start(k + 1)]
      BY <2>1, <3>1
    <3> QED BY <1>3, <2>5, <3>2 DEF Registers
  <2>7. seen'[p] = Append(seen[p], start(k)) /\ seen' \in [Peer -> Seq(Nat)]
        /\ \A q \in Peer : q # p => seen'[q] = seen[q]
    BY <1>3, <2>1, <2>3, <2>5 DEF Registers
  <2>8. /\ Len(seen'[p]) = len + 1 /\ seen'[p][len + 1] = start(k)
        /\ \A j \in 1..len : seen'[p][j] = seen[p][j]
        /\ DOMAIN seen'[p] = 1..(len + 1) /\ seen'[p] # <<>>
    BY <1>3, <1>5, <2>5, <2>7
  <2> HIDE DEF len
  <2>9. parsed(p) <=> Filled(start(k)) /\ run.spare \in 0..len
    <3>1. (/\ octet(ptr[p] + MarkerLen) > MarkerLen + 1
           /\ octet(ptr[p] + MarkerLen + 1) # Bare) <=> Filled(start(k))
      BY <2>3, <2>5
    <3>2. run.spare \in 0..msg_count[p] <=> run.spare \in 0..len
      BY <1>3, <1>4, <1>5 DEF len
    <3> QED BY <3>1, <3>2 DEF parsed
  <2> DEFINE s == IF parsed(p) THEN "count" ELSE "parse"
  <2>10. thread' = [thread EXCEPT ![p] = s] /\ s \in {"parse", "count", "returned"}
    <3>1. CASE parsed(p)
      BY <2>1, <3>1
    <3>2. CASE ~parsed(p)
      <4>1. [thread EXCEPT ![p] = "parse"] = thread
        BY <1>1, <1>3 DEF Registers
      <4> QED BY <2>1, <3>2, <4>1
    <3> QED BY <3>1, <3>2
  <2>11. thread'[p] = s
    BY <1>3, <2>10 DEF Registers
  <2>12. s # "none" /\ s # "returned" /\ (s = "count" <=> parsed(p))
    OBVIOUS
  <2> HIDE DEF s
  <2>13. /\ \A q : Bound(q)' = Bound(q)
         /\ \A i : start(i)' = start(i)
         /\ bodies' = bodies /\ Messages' = Messages
    BY <2>4, Same
  <2>14. Walked(p)'
    <3>1. Walk(p, f)'
      <4>1. f + (len + 1) <= n + 1
        BY <1>4, <1>5, <2>2, <2>3
      <4>2. \A j \in 1..len : seen[p][j] = start(f + j - 1) /\ seen[p][j] < Bound(p)
        <5>1. CASE seen[p] = <<>>
          <6>1. len = 0
            BY <5>1 DEF len
          <6> QED BY <6>1
        <5>2. CASE seen[p] # <<>>
          <6>1. PICK g \in Messages : Walk(p, g)
            BY <1>3, <5>2 DEF Walked
          <6>2. /\ start(g) = Bound(p - 1) /\ \A j \in 1..len : seen[p][j] = start(g + j - 1) /\ seen[p][j] < Bound(p)
            BY <1>5, <6>1, Zenon DEF Walk
          <6>3. g = f
            <7>1. Apart(n) /\ g \in 1..(n + 1) /\ f \in 1..(n + 1) /\ start(g) = start(f)
              BY <1>3, <1>4, <2>2, <6>2, Geometry
            <7>2. (g <= f <=> start(g) <= start(f)) /\ (f <= g <=> start(f) <= start(g)) /\ start(f) \in Nat
              BY <7>1, Zenon DEF Apart
            <7> QED BY <1>4, <7>1, <7>2
          <6> QED BY <6>2, <6>3
        <5> QED BY <5>1, <5>2
      <4>3. ASSUME NEW j \in 1..(len + 1)
            PROVE  seen'[p][j] = start(f + j - 1) /\ seen'[p][j] < Bound(p)
        <5>1. CASE j = len + 1
          <6>1. f + j - 1 = k
            BY <1>5, <2>3, <5>1 DEF k
          <6> QED BY <1>6, <2>3, <2>8, <5>1, <6>1
        <5>2. CASE j # len + 1
          <6>1. j \in 1..len
            BY <1>5, <5>2
          <6> QED BY <2>8, <4>2, <6>1
        <5> QED BY <5>1, <5>2
      <4>4. ptr'[p] = start(f + (len + 1))
        BY <2>3, <2>6
      <4> QED BY <2>2, <2>8, <2>13, <4>1, <4>3, <4>4 DEF Walk
    <3> QED BY <2>8, <2>11, <2>12, <2>13, <3>1 DEF Walked
  <2>15. /\ Walks' /\ Stages' /\ Stopping' /\ Mapped'
         /\ \A q \in Peer : q # p => Done(q)' = Done(q) /\ thread'[q] = thread[q]
         /\ thread' \in [Peer -> {"none", "parse", "count", "returned"}]
         /\ \A o : Filled(o)' = Filled(o)
    <3>1. UNCHANGED <<run, buf, mainVars>> /\ thread[p] \in {"parse", "count"}
      BY <1>1, <2>1
    <3> QED BY <1>2, <2>6, <2>7, <2>10, <2>14, <3>1, ThreadStep
  <2>16. Done(p)' = Done(p)
    <3>1. Done(p) = {i \in 1..len : run.spare \in 0..(i - 1) /\ Filled(seen[p][i])}
      BY <1>1, <1>5 DEF Done
    <3>2. Done(p)' = {i \in 1..(len + 1) : run.spare \in 0..(i - 1) /\ Filled(seen'[p][i])
                                           /\ (parsed(p) => i # len + 1)}
      BY <2>4, <2>8, <2>11, <2>12, <2>15 DEF Done
    <3>3. ASSUME NEW i \in 1..(len + 1)
          PROVE  (run.spare \in 0..(i - 1) /\ Filled(seen'[p][i]) /\ (parsed(p) => i # len + 1))
                 <=> (i \in 1..len /\ run.spare \in 0..(i - 1) /\ Filled(seen[p][i]))
      <4>1. CASE i = len + 1
        <5>1. i \notin 1..len /\ i - 1 = len
          BY <1>5, <4>1
        <5> QED BY <2>8, <2>9, <4>1, <5>1
      <4>2. CASE i # len + 1
        <5>1. i \in 1..len
          BY <1>5, <4>2
        <5> QED BY <2>8, <4>2, <5>1
      <4> QED BY <4>1, <4>2
    <3>4. \A i \in 1..len : i \in 1..(len + 1)
      BY <1>5
    <3> QED BY <3>1, <3>2, <3>3, <3>4
  <2>17. AllDone' = AllDone
    BY <2>15, <2>16, Zenon DEF AllDone
  <2>18. Counters'
    <3>1. ASSUME NEW q \in Peer, thread'[q] = "count"
          PROVE (/\ run.spare \in 0..(Len(seen[q]) - 1) /\ Filled(seen[q][Len(seen[q])])
                 /\ counted[q] <= Cardinality(AllDone))'
                /\ (~run.multithread => counted'[q] = Cardinality(AllDone))
      <4>1. CASE q = p
        <5>1. parsed(p)
          BY <2>11, <2>12, <3>1, <4>1
        <5>2. counted'[p] = _msg_count
          BY <1>3, <2>1, <5>1 DEF Registers
        <5>3. _msg_count <= Cardinality(AllDone) /\ (~run.multithread => _msg_count = Cardinality(AllDone))
          BY DEF DInv, Counters
        <5>4. run.spare \in 0..len /\ Filled(start(k))
          BY <2>9, <5>1
        <5>5. Len(seen'[p]) - 1 = len
          BY <1>5, <2>8
        <5> QED BY <2>4, <2>8, <2>15, <2>17, <4>1, <5>2, <5>3, <5>4, <5>5
      <4>2. CASE q # p
        <5>1. thread[q] = "count" /\ counted'[q] = counted[q] /\ seen'[q] = seen[q]
          BY <1>3, <2>1, <2>7, <2>15, <3>1, <4>2 DEF Registers
        <5> QED BY <2>4, <2>15, <2>17, <5>1 DEF DInv, Counters
      <4> QED BY <4>1, <4>2
    <3> QED BY <2>1, <2>4, <2>15, <2>16, <3>1, CountersKept
  <2>19. Registers'
    <3>1. counted' \in [Peer -> Nat]
      BY <1>3, <2>1 DEF Registers
    <3>2. msg_count' = [q \in Peer |-> Len(seen'[q])]
      <4>1. \A q \in Peer : msg_count'[q] = Len(seen'[q])
        BY <1>3, <2>1, <2>7, <2>8 DEF Registers, len
      <4>2. msg_count' = [q \in Peer |-> msg_count'[q]]
        BY <1>3, <2>1 DEF Registers
      <4> QED BY <4>1, <4>2, Zenon
    <3> QED BY <1>3, <2>1, <2>6, <2>7, <2>15, <3>1, <3>2 DEF Registers, mainVars
  <2> QED BY <2>15, <2>18, <2>19 DEF DInv
<1> QED BY <1>7, <1>8

(* Every step keeps the invariant.                                         *)
LEMMA InvNext == DInv /\ [Next]_vars => DInv'
<1> SUFFICES ASSUME DInv, [Next]_vars PROVE DInv'
  OBVIOUS
<1>1. CASE main
  BY <1>1, reinitKeeps, split_bufKeeps, CreateKeeps, JoinKeeps, FlushKeeps, ReportKeeps DEF main
<1>2. ASSUME NEW p \in Peer, buf_parse_peer(p) PROVE DInv'
  BY <1>2, MessageKeeps, CountKeeps, LeaveKeeps DEF buf_parse_peer
<1>3. CASE Stop \/ UNCHANGED vars
  <2>1. UNCHANGED vars
    BY <1>3 DEF Stop
  <2>2. UNCHANGED <<run, buf, peerVars>> /\ UNCHANGED <<pc, left, LOCRIB, bufs, pn, message_count>>
    BY <2>1 DEF vars, mainVars
  <2>3. /\ Mapped' /\ Counters' /\ AllReturned' = AllReturned /\ \A p \in Peer : Walked(p)'
        /\ Ready' = Ready
    BY <2>2, Quiet
  <2>4. Fresh' = Fresh /\ Rounds' = Rounds /\ Creating' = Creating /\ Joining' = Joining /\ Unsplit' = Unsplit
    <3>1. Unsplit' = Unsplit
      BY <2>2, Same
    <3> QED BY <2>2, <3>1 DEF Fresh, Rounds, Creating, Joining, peerVars
  <2>5. Registers'
    BY <2>2 DEF DInv, Registers, peerVars
  <2>6. Walks'
    BY <2>3, <2>4 DEF DInv, Walks
  <2>7. Stages' /\ Stopping'
    BY <2>2, <2>3, <2>4 DEF DInv, Stages, Stopping, peerVars
  <2> QED BY <2>3, <2>5, <2>6, <2>7 DEF DInv
<1> QED BY <1>1, <1>2, <1>3 DEF Next

-----------------------------------------------------------------------------
(* The registers keep their types and the pieces are in the file, one after*)
(* the other, for any number of peers and whatever the file holds.         *)
THEOREM TypeCorrect == Spec => []TypeOK
BY InvInit, InvNext, TimedInit, TimedNext, Types, PTL DEF Spec

(* buf_parse_peer() of all peers goes over each message but the last once, *)
(* in order: no message is read twice, read in part or left out, except for*)
(* those that msg_max leaves.                                              *)
THEOREM Partitioned == Spec => []Partition
BY InvInit, InvNext, Shares, PTL DEF Spec

(* The program fails only where split_buf() gets a cut wrong, the file has *)
(* no second message or nothing behind it, or it is to repeat, and it exits*)
(* only where the file was not opened; where a cut is wrong it does not go *)
(* through.                                                                *)
THEOREM StopsRightly == Spec => []StopsOnly
BY InvInit, InvNext, StopsRight, PTL DEF Spec

(* _msg_count, which the threads share, never counts a message that was not*)
(* there or has neither prefixes nor withdrawn routes, misses no other     *)
(* without MULTITHREAD, and is not 0 where any was to be counted.          *)
THEOREM CountsBounded == Spec => []CountBounds
BY InvInit, InvNext, CountsRight, PTL DEF Spec
=============================================================================
