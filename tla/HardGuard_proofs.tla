-------------------------- MODULE HardGuard_proofs --------------------------
(***************************************************************************)
(* What locrib.c says of the push flag: that it prevents several updates   *)
(* of one address being queued, and so guards the amount of queued work.   *)
(* It is proved here of the program as it is written, push_flag            *)
(* uninitialised and all, as far as no call of locrib() that changes       *)
(* nothing goes on to push: there is no other way to a second entry.  That *)
(* there is this one is shown by the run phase3_dup.                       *)
(***************************************************************************)
EXTENDS Phase3_proofs, FiniteSetTheorems

(* A step in which no call of locrib() that has changed nothing finds its  *)
(* uninitialised push_flag clear and goes on to push.                      *)
Sober ==
  \A p \in Peer :
    pc[p] = "locrib" /\ ~Changes(call[p].addr, call[p].new, call[p].update) => pc'[p] # "push"

(* The three places an address can be on its way to the consumer.          *)
Queued(a)  == a \in Range(journal)
Pushing(p, a) == pc[p] = "push" /\ call[p].addr = a
Reading(t, a) == pc[t] \in {"prime_read", "read"} /\ addrref[t] = a

(* An address is in at most one of them, once, and only while its push     *)
(* flag is set.                                                            *)
OneToken ==
  /\ \A a \in Addr : Queued(a) => push_flag[a]
  /\ \A p \in Peer, a \in Addr : Pushing(p, a) =>
       /\ push_flag[a] /\ ~Queued(a)
       /\ \A q \in Peer : Pushing(q, a) => p = q
  /\ \A t \in Thread, a \in Addr : Reading(t, a) =>
       /\ push_flag[a] /\ ~Queued(a)
       /\ \A q \in Peer : ~Pushing(q, a)

GInv == NoDuplicates /\ OneToken
-----------------------------------------------------------------------------
(* A journal without duplicates is no longer than there are addresses.     *)
LEMMA InjectiveLen ==
  ASSUME NEW S, IsFiniteSet(S), NEW s \in Seq(S),
         \A i, j \in 1..Len(s) : s[i] = s[j] => i = j
  PROVE  Len(s) <= Cardinality(S)
<1>1. s \in [1..Len(s) -> S] /\ Len(s) \in Nat
  OBVIOUS
<1>2. s \in Injection(1..Len(s), S)
  BY <1>1 DEF Injection, IsInjective
<1>3. Cardinality(1..Len(s)) <= Cardinality(S)
  BY <1>2, FS_Injection
<1>4. Cardinality(1..Len(s)) = IF 1 > Len(s) THEN 0 ELSE Len(s) - 1 + 1
  BY <1>1, FS_Interval, 1 \in Int, Len(s) \in Int
<1> QED BY <1>1, <1>3, <1>4

(* Appending something new keeps a sequence free of duplicates.            *)
LEMMA InjectiveAppend ==
  ASSUME NEW S, NEW s \in Seq(S), NEW x \in S, x \notin Range(s),
         \A i, j \in 1..Len(s) : s[i] = s[j] => i = j
  PROVE  \A i, j \in 1..Len(Append(s, x)) :
            Append(s, x)[i] = Append(s, x)[j] => i = j
<1>1. Len(s) \in Nat /\ Len(Append(s, x)) = Len(s) + 1
  OBVIOUS
<1>2. \A i \in 1..(Len(s) + 1) : Append(s, x)[i] = IF i = Len(s) + 1 THEN x ELSE s[i]
  OBVIOUS
<1>3. \A i \in 1..Len(s) : s[i] # x
  BY DEF Range
<1> QED BY <1>1, <1>2, <1>3

(* A pull takes an address out of a journal without duplicates for good.   *)
LEMMA PullOne ==
  ASSUME TypeOK, NoDuplicates, NEW t \in Thread, JQ!Pull(t)
  PROVE  /\ NoDuplicates'
         /\ addrref'[t] # JOURNAL_EMPTY => addrref'[t] \notin Range(journal')
<1>1. CASE journal # <<>>
  <2>1. journal \in Seq(Addr) /\ Len(journal) \in Nat \ {0}
    BY <1>1 DEF TypeOK, JournalTypeOK
  <2>2. journal' = Tail(journal) /\ addrref'[t] = journal[1]
    BY <1>1, <2>1 DEF JQ!Pull, TypeOK, JournalTypeOK
  <2>3. /\ Len(Tail(journal)) = Len(journal) - 1
        /\ DOMAIN Tail(journal) = 1..(Len(journal) - 1)
        /\ \A i \in 1..(Len(journal) - 1) : Tail(journal)[i] = journal[i + 1]
    BY <2>1
  <2>4. \A i, j \in 1..Len(journal) : journal[i] = journal[j] => i = j
    BY DEF NoDuplicates
  <2>5. NoDuplicates'
    <3> SUFFICES ASSUME NEW i \in 1..(Len(journal) - 1), NEW j \in 1..(Len(journal) - 1),
                        Tail(journal)[i] = Tail(journal)[j]
                 PROVE  i = j
      BY <2>2, <2>3 DEF NoDuplicates
    <3>1. i + 1 \in 1..Len(journal) /\ j + 1 \in 1..Len(journal)
      BY <2>1
    <3>2. journal[i + 1] = journal[j + 1]
      BY <2>3
    <3>3. i + 1 = j + 1
      BY <3>1, <3>2, <2>4
    <3> QED BY <3>3, <2>1
  <2>6. \A i \in 1..(Len(journal) - 1) : Tail(journal)[i] # journal[1]
    <3> SUFFICES ASSUME NEW i \in 1..(Len(journal) - 1), journal[i + 1] = journal[1]
                 PROVE  FALSE
      BY <2>3
    <3>1. i + 1 \in 1..Len(journal) /\ 1 \in 1..Len(journal) /\ i + 1 # 1
      BY <2>1
    <3> QED BY <3>1, <2>4
  <2>7. journal[1] \notin Range(Tail(journal))
    BY <2>3, <2>6 DEF Range
  <2> QED BY <2>2, <2>5, <2>7
<1>2. CASE journal = <<>>
  BY <1>2 DEF JQ!Pull, NoDuplicates, TypeOK, JournalTypeOK
<1> QED BY <1>1, <1>2

(* A push of an address that is not in the journal keeps it free of        *)
(* duplicates.                                                             *)
LEMMA PushOne ==
  ASSUME TypeOK, NoDuplicates, NEW a \in Addr, ~Queued(a), JQ!Push(a)
  PROVE  NoDuplicates'
<1>1. journal \in Seq(Addr) /\ journal' = Append(journal, a)
  BY DEF JQ!Push, TypeOK, JournalTypeOK
<1>2. \A i, j \in 1..Len(journal') : journal'[i] = journal'[j] => i = j
  BY <1>1, InjectiveAppend DEF NoDuplicates, Queued
<1> QED BY <1>2 DEF NoDuplicates

LEMMA InitGInv == Init => GInv
BY ThreadFacts, RangeEmpty
   DEF Init, LocribInit, JQ!Init, GInv, NoDuplicates, OneToken,
       Queued, Pushing, Reading

(* While it is set the flag lets no second token of an address in, and the *)
(* consumer clears it only as it uses up the one there is.                 *)
LEMMA GInvStep ==
  ASSUME TypeOK, Locals, OneConsumer, GInv, [Next]_vars, [Sober]_vars
  PROVE  GInv'
<1>1. ASSUME NEW p \in Peer, Start(p)
      PROVE  GInv'
  BY <1>1, ThreadFacts
     DEF Start, At, Goto, TypeOK, JournalTypeOK, ParserTypeOK,
         GInv, NoDuplicates, OneToken, Queued, Pushing, Reading,
         locribVars, journalVars, parserVars
<1>2. ASSUME NEW p \in Peer, Finish(p)
      PROVE  GInv'
  BY <1>2, ThreadFacts
     DEF Finish, At, Goto, TypeOK, JournalTypeOK, ParserTypeOK,
         GInv, NoDuplicates, OneToken, Queued, Pushing, Reading,
         locribVars, journalVars, parserVars
<1>3. ASSUME NEW p \in Peer, NEW k \in Buf, NEW v \in Tiebreak, BuildRoute(p, k, v)
      PROVE  GInv'
  BY <1>3
     DEF BuildRoute, GInv, NoDuplicates, OneToken, Queued, Pushing, Reading,
         journalVars
<1>4. ASSUME NEW p \in Peer, NEW a \in Addr, NEW update \in BOOLEAN,
             NEW eob \in BOOLEAN, ParsePrefix(p, a, update, eob)
      PROVE  GInv'
  BY <1>4, ThreadFacts
     DEF ParsePrefix, At, Goto, TypeOK, JournalTypeOK, ParserTypeOK,
         GInv, NoDuplicates, OneToken, Queued, Pushing, Reading,
         locribVars, journalVars, parserVars
<1>5. ASSUME NEW p \in Peer, Skip(p)
      PROVE  GInv'
  BY <1>5, ThreadFacts
     DEF Skip, At, Goto, TypeOK, JournalTypeOK, ParserTypeOK,
         GInv, NoDuplicates, OneToken, Queued, Pushing, Reading,
         locribVars, journalVars, parserVars
<1>6. ASSUME NEW p \in Peer, LocribStep(p)
      PROVE  GInv'
  <2>1. pc[p] = "locrib" /\ call[p] \in Call
    BY <1>6 DEF LocribStep, At, Locals
  <2>2. /\ journal' = journal /\ addrref' = addrref /\ overrun' = overrun
        /\ \A q \in Peer \ {p} : pc'[q] = pc[q] /\ call'[q] = call[q]
        /\ \A t \in Thread : pc'[t] \in {"prime_read", "read"} => pc'[t] = pc[t]
        /\ pc'[p] \in {"idle", "push"}
    BY <1>6, <2>1, ThreadFacts DEF LocribStep, Goto, TypeOK, ParserTypeOK, journalVars
  <2>3. \A a \in Addr : push_flag[a] => push_flag'[a]
    BY <1>6 DEF LocribStep, Decide, Push, TypeOK, LocribTypeOK
  <2>4. pc'[p] = "push" => /\ call'[p] = call[p] /\ call[p].addr \in Addr
                           /\ ~push_flag[call[p].addr] /\ push_flag'[call[p].addr]
    <3> SUFFICES ASSUME pc'[p] = "push"
                 PROVE  /\ call'[p] = call[p] /\ call[p].addr \in Addr
                        /\ ~push_flag[call[p].addr] /\ push_flag'[call[p].addr]
      OBVIOUS
    <3>1. Changes(call[p].addr, call[p].new, call[p].update)
      <4>1. pc' # pc
        BY <2>1
      <4>2. Sober
        BY <4>1 DEF vars, parserVars
      <4> QED BY <2>1, <4>2 DEF Sober
    <3> QED BY <1>6, <2>1, <3>1, ThreadFacts
            DEF LocribStep, Decide, Push, Goto, TypeOK, LocribTypeOK, ParserTypeOK, Call
  <2>5. NoDuplicates'
    BY <2>2 DEF GInv, NoDuplicates
  <2>6. OneToken'
    BY <2>1, <2>2, <2>3, <2>4 DEF GInv, OneToken, Queued, Pushing, Reading
  <2> QED BY <2>5, <2>6 DEF GInv
<1>7. ASSUME NEW p \in Peer, JournalPush(p)
      PROVE  GInv'
  <2> DEFINE a0 == call[p].addr
  <2>1. pc[p] = "push" /\ a0 \in Addr
    BY <1>7 DEF JournalPush, At, Locals, Call
  <2>2. Pushing(p, a0) /\ ~Queued(a0) /\ push_flag[a0]
    BY <2>1 DEF GInv, OneToken, Pushing
  <2>3. NoDuplicates'
    BY <1>7, <2>1, <2>2, PushOne DEF JournalPush, GInv
  <2>4. Range(journal') = Range(journal) \cup {a0}
    BY <1>7, <2>1, RangeAppend DEF JournalPush, JQ!Push, TypeOK, JournalTypeOK
  <2>5. /\ push_flag' = push_flag /\ addrref' = addrref
        /\ \A q \in Peer \ {p} : pc'[q] = pc[q] /\ call'[q] = call[q]
        /\ \A t \in Thread : pc'[t] \in {"prime_read", "read"} => pc'[t] = pc[t]
        /\ pc'[p] # "push"
    BY <1>7, <2>1, ThreadFacts
       DEF JournalPush, JQ!Push, Goto, TypeOK, ParserTypeOK, locribVars
  <2>6. OneToken'
    BY <2>1, <2>2, <2>4, <2>5 DEF GInv, OneToken, Queued, Pushing, Reading
  <2> QED BY <2>3, <2>6 DEF GInv
<1>8. CASE JoinAll
  BY <1>8, ThreadFacts
     DEF JoinAll, At, Goto, TypeOK, JournalTypeOK, ParserTypeOK,
         GInv, NoDuplicates, OneToken, Queued, Pushing, Reading,
         locribVars, journalVars, parserVars
<1>9. ASSUME NEW t \in Thread, TryLock(t)
      PROVE  GInv'
  BY <1>9, ThreadFacts
     DEF TryLock, At, Goto, TypeOK, JournalTypeOK, ParserTypeOK,
         GInv, NoDuplicates, OneToken, Queued, Pushing, Reading,
         locribVars, journalVars, parserVars
<1>10. ASSUME NEW t \in Thread, Busy(t)
       PROVE  GInv'
  BY <1>10, ThreadFacts
     DEF Busy, Return, At, Goto, TypeOK, JournalTypeOK, ParserTypeOK,
         GInv, NoDuplicates, OneToken, Queued, Pushing, Reading,
         locribVars, journalVars, parserVars
<1>11. ASSUME NEW t \in Thread, Prime(t)
       PROVE  GInv'
  <2>1. /\ push_flag' = push_flag /\ call' = call /\ overrun' = overrun
        /\ \A q \in Peer : pc'[q] = "push" <=> pc[q] = "push"
        /\ \A u \in Thread \ {t} : pc'[u] = pc[u] /\ addrref'[u] = addrref[u]
        /\ pc[t] = "prime"
        /\ pc'[t] = IF addrref'[t] = JOURNAL_EMPTY THEN "unlock" ELSE "prime_read"
    BY <1>11, ThreadFacts, PullFacts
       DEF Prime, At, Goto, TypeOK, JournalTypeOK, locribVars, parserVars
  <2>2. /\ NoDuplicates'
        /\ addrref'[t] # JOURNAL_EMPTY => addrref'[t] \notin Range(journal')
    BY <1>11, PullOne DEF Prime, GInv
  <2>3. \A a \in Addr : Queued(a)' => Queued(a)
    BY <1>11, PullFacts, RangeEmpty DEF Prime, Queued
  <2>4. addrref'[t] # JOURNAL_EMPTY => /\ addrref'[t] \in Addr /\ Queued(addrref'[t])
    BY <1>11, PullFacts DEF Prime, Queued
  <2>5. \A p \in Peer, a \in Addr : Pushing(p, a)' <=> Pushing(p, a)
    BY <2>1 DEF Pushing
  <2>6. \A u \in Thread, a \in Addr : Reading(u, a)' =>
          Reading(u, a) \/ (u = t /\ a = addrref'[t] /\ addrref'[t] # JOURNAL_EMPTY)
    BY <2>1 DEF Reading
  <2>7. OneToken'
    BY <2>1, <2>2, <2>3, <2>4, <2>5, <2>6 DEF GInv, OneToken, Queued, Pushing, Reading
  <2> QED BY <2>1, <2>2, <2>7 DEF GInv
<1>12. ASSUME NEW t \in Thread, PrimeRead(t)
       PROVE  GInv'
  <2>1. /\ addrref[t] \in Addr /\ pc[t] = "prime_read" /\ pc[t] \in InPhase3
        /\ pc'[t] \notin {"prime_read", "read", "push"}
        /\ \A u \in Thread \ {t} : pc'[u] = pc[u]
        /\ journal' = journal /\ addrref' = addrref /\ overrun' = overrun /\ call' = call
    BY <1>12 DEF PrimeRead, At, Goto, Locals, LocalsOf, TypeOK, InPhase3, journalVars, parserVars
  <2>2. \A a \in Addr \ {addrref[t]} : push_flag'[a] = push_flag[a]
    BY <1>12 DEF PrimeRead, ClearFlag, TypeOK, LocribTypeOK
  <2>3. Reading(t, addrref[t])
    BY <2>1 DEF Reading
  <2>4. \A u \in Thread \ {t} : pc[u] \notin {"prime_read", "read"}
    BY <2>1 DEF OneConsumer, InPhase3
  <2>5. OneToken'
    BY <2>1, <2>2, <2>3, <2>4, ThreadFacts
       DEF GInv, OneToken, Queued, Pushing, Reading
  <2> QED BY <2>1, <2>5 DEF GInv, NoDuplicates
<1>13. ASSUME NEW t \in Thread, Collect(t)
       PROVE  GInv'
  <2>1. /\ push_flag' = push_flag /\ call' = call /\ overrun' = overrun
        /\ \A q \in Peer : pc'[q] = "push" <=> pc[q] = "push"
        /\ \A u \in Thread \ {t} : pc'[u] = pc[u] /\ addrref'[u] = addrref[u]
        /\ pc[t] = "collect"
        /\ pc'[t] = IF addrref'[t] = JOURNAL_EMPTY THEN "emit" ELSE "read"
    BY <1>13, ThreadFacts, PullFacts
       DEF Collect, At, Goto, TypeOK, JournalTypeOK, locribVars, parserVars
  <2>2. /\ NoDuplicates'
        /\ addrref'[t] # JOURNAL_EMPTY => addrref'[t] \notin Range(journal')
    BY <1>13, PullOne DEF Collect, GInv
  <2>3. \A a \in Addr : Queued(a)' => Queued(a)
    BY <1>13, PullFacts, RangeEmpty DEF Collect, Queued
  <2>4. addrref'[t] # JOURNAL_EMPTY => /\ addrref'[t] \in Addr /\ Queued(addrref'[t])
    BY <1>13, PullFacts DEF Collect, Queued
  <2>5. \A p \in Peer, a \in Addr : Pushing(p, a)' <=> Pushing(p, a)
    BY <2>1 DEF Pushing
  <2>6. \A u \in Thread, a \in Addr : Reading(u, a)' =>
          Reading(u, a) \/ (u = t /\ a = addrref'[t] /\ addrref'[t] # JOURNAL_EMPTY)
    BY <2>1 DEF Reading
  <2>7. OneToken'
    BY <2>1, <2>2, <2>3, <2>4, <2>5, <2>6 DEF GInv, OneToken, Queued, Pushing, Reading
  <2> QED BY <2>1, <2>2, <2>7 DEF GInv
<1>14. ASSUME NEW t \in Thread, TableFull(t)
       PROVE  GInv'
  BY <1>14, ThreadFacts
     DEF TableFull, At, Goto, TypeOK, JournalTypeOK, ParserTypeOK,
         GInv, NoDuplicates, OneToken, Queued, Pushing, Reading,
         locribVars, journalVars, parserVars
<1>15. ASSUME NEW t \in Thread, Read(t)
       PROVE  GInv'
  <2>1. /\ addrref[t] \in Addr /\ pc[t] = "read" /\ pc[t] \in InPhase3
        /\ pc'[t] \notin {"prime_read", "read", "push"}
        /\ \A u \in Thread \ {t} : pc'[u] = pc[u]
        /\ journal' = journal /\ addrref' = addrref /\ overrun' = overrun /\ call' = call
    BY <1>15 DEF Read, At, Goto, Locals, LocalsOf, TypeOK, InPhase3, journalVars, parserVars
  <2>2. \A a \in Addr \ {addrref[t]} : push_flag'[a] = push_flag[a]
    BY <1>15 DEF Read, ClearFlag, TypeOK, LocribTypeOK
  <2>3. Reading(t, addrref[t])
    BY <2>1 DEF Reading
  <2>4. \A u \in Thread \ {t} : pc[u] \notin {"prime_read", "read"}
    BY <2>1 DEF OneConsumer, InPhase3
  <2>5. OneToken'
    BY <2>1, <2>2, <2>3, <2>4, ThreadFacts
       DEF GInv, OneToken, Queued, Pushing, Reading
  <2> QED BY <2>1, <2>5 DEF GInv, NoDuplicates
<1>16. ASSUME NEW t \in Thread, Emit(t)
       PROVE  GInv'
  <2>1. /\ UNCHANGED <<journal, push_flag, addrref, call>>
        /\ pc'[t] \notin {"push", "prime_read", "read"}
        /\ \A u \in Thread \ {t} : pc'[u] = pc[u]
    BY <1>16, ThreadFacts
       DEF Emit, At, Goto, TypeOK, JournalTypeOK, ParserTypeOK,
           locribVars, journalVars, parserVars
  <2>2. OneToken'
    BY <2>1, ThreadFacts DEF GInv, OneToken, Queued, Pushing, Reading
  <2> QED BY <2>1, <2>2 DEF GInv, NoDuplicates
<1>17. ASSUME NEW t \in Thread, Unlock(t)
       PROVE  GInv'
  BY <1>17, ThreadFacts
     DEF Unlock, Return, At, Goto, TypeOK, JournalTypeOK, ParserTypeOK,
         GInv, NoDuplicates, OneToken, Queued, Pushing, Reading,
         locribVars, journalVars, parserVars
<1>18. CASE UNCHANGED vars
  BY <1>18
     DEF vars, GInv, NoDuplicates, OneToken, Queued, Pushing, Reading,
         locribVars, journalVars, parserVars
<1> QED
  BY <1>1, <1>2, <1>3, <1>4, <1>5, <1>6, <1>7, <1>8, <1>9, <1>10, <1>11, <1>12,
     <1>13, <1>14, <1>15, <1>16, <1>17, <1>18
     DEF Next, PeerStep, schedule_phase3, Stop

(* No address is journalled twice, and there are no more entries than      *)
(* addresses, for as long as no call of locrib() that changes nothing goes *)
(* on to push.                                                             *)
THEOREM HardGuard ==
  ASSUME IsFiniteSet(Addr)
  PROVE  Spec /\ [][Sober]_vars => [](NoDuplicates /\ Len(journal) <= Cardinality(Addr))
<1>1. IInv /\ GInv /\ [Next]_vars /\ [Sober]_vars => GInv'
  BY GInvStep DEF IInv
<1>2. ASSUME IInv, GInv PROVE NoDuplicates /\ Len(journal) <= Cardinality(Addr)
  <2>1. journal \in Seq(Addr) /\ \A i, j \in 1..Len(journal) : journal[i] = journal[j] => i = j
    BY <1>2 DEF IInv, GInv, NoDuplicates, TypeOK, JournalTypeOK
  <2>2. Len(journal) <= Cardinality(Addr)
    BY <2>1, InjectiveLen
  <2> QED BY <1>2, <2>2 DEF GInv
<1> QED BY <1>1, <1>2, InitGInv, IInvHolds, PTL DEF Spec
=============================================================================
