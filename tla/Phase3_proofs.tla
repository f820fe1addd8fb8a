---------------------------- MODULE Phase3_proofs ----------------------------
(***************************************************************************)
(* Proofs about Phase3, for any number of peers, addresses and buffers,    *)
(* any journal size and any length of input: the type invariant, that      *)
(* there is never more than one consumer, that a push flag always has      *)
(* somebody coming back for it, and that nothing the loc-RIB decides is    *)
(* lost on its way to the peer groups.                                     *)
(***************************************************************************)
EXTENDS Phase3, TLAPS

(* What the locals of schedule_phase3() hold where they are used.          *)
LocalsOf(t) ==
  /\ pc[t] \in {"prime_read", "read", "collect"} => addrref[t] \in Addr
  /\ pc[t] \in {"collect", "read", "emit"} => route1[t] \in Route \cup {NULL}
  /\ pc[t] = "collect" => route2[t] = route1[t]
  /\ pc[t] = "emit" /\ addrref[t] # JOURNAL_EMPTY => route2[t] \in Route \cup {NULL}

(* And the arguments of locrib().                                          *)
Locals ==
  /\ \A p \in Peer : pc[p] \in {"locrib", "push"} => call[p] \in Call
  /\ \A t \in Thread : LocalsOf(t)

(* The main thread waits for every peer before its schedule_phase3(1), and *)
(* leaves that call with the journal empty.                                *)
MainLast ==
  /\ pc[Main] \in {"join", "schedule", "done"} \cup InPhase3
  /\ \A p \in Peer : pc[p] # "join"
  /\ pc[Main] # "join" => \A p \in Peer : pc[p] = "done"
  /\ \/ pc[Main] \in {"unlock", "done"}
     \/ pc[Main] = "emit" /\ addrref[Main] = JOURNAL_EMPTY
     => journal = <<>>

IInv ==
  /\ TypeOK
  /\ Locals
  /\ OneConsumer
  /\ Scheduled
  /\ InSync
  /\ MainLast
-----------------------------------------------------------------------------
(* What appending to a sequence adds to its range.                         *)
LEMMA RangeAppend ==
  ASSUME NEW S, NEW s \in Seq(S), NEW x \in S
  PROVE  Range(Append(s, x)) = Range(s) \cup {x}
<1>1. /\ Len(s) \in Nat /\ DOMAIN s = 1..Len(s)
      /\ DOMAIN Append(s, x) = 1..(Len(s) + 1)
  OBVIOUS
<1>2. \A i \in 1..(Len(s) + 1) : Append(s, x)[i] = IF i = Len(s) + 1 THEN x ELSE s[i]
  OBVIOUS
<1>3. Range(Append(s, x)) \subseteq Range(s) \cup {x}
  <2> SUFFICES ASSUME NEW i \in 1..(Len(s) + 1)
               PROVE  Append(s, x)[i] \in Range(s) \cup {x}
    BY <1>1 DEF Range
  <2>1. CASE i = Len(s) + 1
    BY <2>1, <1>2
  <2>2. CASE i # Len(s) + 1
    <3>1. i \in 1..Len(s)
      BY <2>2, <1>1
    <3>2. s[i] \in Range(s)
      BY <3>1, <1>1 DEF Range
    <3> QED BY <2>2, <3>2, <1>2
  <2> QED BY <2>1, <2>2
<1>4. x \in Range(Append(s, x))
  <2>1. Len(s) + 1 \in DOMAIN Append(s, x) /\ Append(s, x)[Len(s) + 1] = x
    BY <1>1, <1>2
  <2> QED BY <2>1 DEF Range
<1>5. ASSUME NEW i \in 1..Len(s) PROVE s[i] \in Range(Append(s, x))
  <2>1. i \in DOMAIN Append(s, x) /\ Append(s, x)[i] = s[i]
    BY <1>1, <1>2
  <2> QED BY <2>1 DEF Range
<1>6. Range(s) \subseteq Range(Append(s, x))
  BY <1>1, <1>5 DEF Range
<1> QED BY <1>3, <1>4, <1>6

(* Taking the head off a sequence leaves the rest of its range.            *)
LEMMA RangeTail ==
  ASSUME NEW S, NEW s \in Seq(S), s # <<>>
  PROVE  /\ Head(s) \in S /\ Tail(s) \in Seq(S)
         /\ Range(s) = Range(Tail(s)) \cup {Head(s)}
<1>1. /\ Len(s) \in Nat /\ Len(s) # 0 /\ DOMAIN s = 1..Len(s)
      /\ Head(s) = s[1] /\ Tail(s) \in Seq(S) /\ Head(s) \in S
      /\ Len(Tail(s)) = Len(s) - 1 /\ DOMAIN Tail(s) = 1..(Len(s) - 1)
  OBVIOUS
<1>2. \A i \in 1..(Len(s) - 1) : Tail(s)[i] = s[i + 1]
  OBVIOUS
<1>3. ASSUME NEW i \in 1..Len(s) PROVE s[i] \in Range(Tail(s)) \cup {Head(s)}
  <2>1. CASE i = 1
    BY <2>1, <1>1
  <2>2. CASE i # 1
    <3>1. i - 1 \in 1..(Len(s) - 1) /\ (i - 1) + 1 = i
      BY <2>2, <1>1
    <3>2. Tail(s)[i - 1] = s[i]
      BY <3>1, <1>2
    <3>3. Tail(s)[i - 1] \in Range(Tail(s))
      BY <3>1, <1>1 DEF Range
    <3> QED BY <3>2, <3>3
  <2> QED BY <2>1, <2>2
<1>4. ASSUME NEW i \in 1..(Len(s) - 1) PROVE Tail(s)[i] \in Range(s)
  <2>1. i + 1 \in DOMAIN s /\ Tail(s)[i] = s[i + 1]
    BY <1>1, <1>2
  <2> QED BY <2>1 DEF Range
<1>5. Head(s) \in Range(s)
  <2>1. 1 \in DOMAIN s
    BY <1>1
  <2> QED BY <2>1, <1>1 DEF Range
<1>6. Range(s) \subseteq Range(Tail(s)) \cup {Head(s)}
  BY <1>1, <1>3 DEF Range
<1>7. Range(Tail(s)) \subseteq Range(s)
  BY <1>1, <1>4 DEF Range
<1> QED BY <1>1, <1>5, <1>6, <1>7

(* The range of the empty sequence.                                        *)
LEMMA RangeEmpty == Range(<<>>) = {}
BY DEF Range

(* What a pull of the journal does, in terms of the range of the queue.    *)
LEMMA PullFacts ==
  ASSUME TypeOK, NEW t \in Thread, JQ!Pull(t)
  PROVE  /\ journal' \in Seq(Addr) /\ overrun' = overrun
         /\ addrref' = [addrref EXCEPT ![t] = addrref'[t]]
         /\ \/ /\ addrref'[t] \in Addr /\ addrref'[t] # JOURNAL_EMPTY
               /\ Range(journal) = Range(journal') \cup {addrref'[t]}
            \/ /\ addrref'[t] = JOURNAL_EMPTY
               /\ journal = <<>> /\ journal' = <<>>
<1>1. CASE journal # <<>>
  <2>1. /\ addrref'[t] = Head(journal) /\ journal' = Tail(journal)
        /\ addrref' = [addrref EXCEPT ![t] = Head(journal)] /\ overrun' = overrun
    BY <1>1 DEF JQ!Pull, TypeOK, JournalTypeOK
  <2>2. /\ Head(journal) \in Addr /\ Tail(journal) \in Seq(Addr)
        /\ Range(journal) = Range(Tail(journal)) \cup {Head(journal)}
    BY <1>1, RangeTail DEF TypeOK, JournalTypeOK
  <2> QED BY <2>1, <2>2, Phase3Assumption
<1>2. CASE journal = <<>>
  BY <1>2 DEF JQ!Pull, TypeOK, JournalTypeOK
<1> QED BY <1>1, <1>2

(* The two parts of a thread's name.                                       *)
LEMMA ThreadFacts == Main \in Thread /\ Main \notin Peer /\ Peer \subseteq Thread
BY LocribAssumption DEF Main, Thread, Peer

(* The initial states satisfy the inductive invariant.                     *)
LEMMA InitIInv == Init => IInv
<1> SUFFICES ASSUME Init PROVE IInv
  OBVIOUS
<1> USE DEF Init, JQ!Init, LocribInit
<1>1. TypeOK
  <2>1. LocribTypeOK
    BY DEF LocribTypeOK
  <2>0. <<>> \in Seq(Addr)
    OBVIOUS
  <2>2. JournalTypeOK
    BY <2>0 DEF JournalTypeOK
  <2>3. BlockTypeOK
    BY <2>0 DEF BlockTypeOK
  <2>4. ParserTypeOK
    BY Phase3Assumption DEF ParserTypeOK
  <2>5. pc \in [Thread -> PC]
    BY DEF PC
  <2> QED BY <2>1, <2>2, <2>3, <2>4, <2>5 DEF TypeOK
<1>2. Locals
  BY ThreadFacts DEF Locals, LocalsOf
<1>3. OneConsumer
  BY DEF OneConsumer, InPhase3
<1>4. Scheduled
  BY DEF Scheduled, Coming
<1>5. InSync
  BY DEF InSync, HoldsNext, HoldsNow
<1>6. MainLast
  BY ThreadFacts DEF MainLast, InPhase3
<1> QED BY <1>1, <1>2, <1>3, <1>4, <1>5, <1>6 DEF IInv

(* Every step keeps every variable in its type.                            *)
LEMMA TypeStep ==
  ASSUME TypeOK, Locals, [Next]_vars
  PROVE  TypeOK'
<1> DEFINE Rest == /\ phase3_spinlock \in BOOLEAN
                   /\ pc \in [Thread -> PC]
                   /\ sent \in [Addr -> Route \cup {NULL}]
<1>0. TypeOK' <=> /\ LocribTypeOK' /\ JournalTypeOK' /\ BlockTypeOK' /\ ParserTypeOK'
                  /\ Rest'
  BY DEF TypeOK
<1>a. UNCHANGED locribVars => LocribTypeOK'
  BY DEF TypeOK, LocribTypeOK, locribVars
<1>b. UNCHANGED journalVars => JournalTypeOK'
  BY DEF TypeOK, JournalTypeOK, journalVars
<1>c. UNCHANGED blockVars => BlockTypeOK'
  BY DEF TypeOK, BlockTypeOK, blockVars
<1>d. UNCHANGED parserVars => ParserTypeOK'
  BY DEF TypeOK, ParserTypeOK, parserVars
<1>1. ASSUME NEW p \in Peer, Start(p)
      PROVE  TypeOK'
  <2>1. Rest'
    BY <1>1, ThreadFacts DEF Start, At, Goto, TypeOK, PC
  <2> QED BY <1>0, <1>1, <2>1, <1>a, <1>b, <1>c, <1>d DEF Start
<1>2. ASSUME NEW p \in Peer, Finish(p)
      PROVE  TypeOK'
  <2>1. Rest'
    BY <1>2, ThreadFacts DEF Finish, At, Goto, TypeOK, PC
  <2> QED BY <1>0, <1>2, <2>1, <1>a, <1>b, <1>c, <1>d DEF Finish
<1>3. ASSUME NEW p \in Peer, NEW k \in Buf, NEW v \in Tiebreak, BuildRoute(p, k, v)
      PROVE  TypeOK'
  <2>1. <<p, k>> \in Route
    BY DEF Route
  <2>2. LocribTypeOK'
    BY <1>3, <2>1 DEF BuildRoute, TypeOK, LocribTypeOK
  <2>3. ParserTypeOK'
    BY <1>3, <2>1 DEF BuildRoute, TypeOK, ParserTypeOK
  <2>4. Rest'
    BY <1>3 DEF BuildRoute, TypeOK
  <2> QED BY <1>0, <1>3, <2>2, <2>3, <2>4, <1>b, <1>c DEF BuildRoute
<1>4. ASSUME NEW p \in Peer, NEW a \in Addr, NEW update \in BOOLEAN,
             NEW eob \in BOOLEAN, ParsePrefix(p, a, update, eob)
      PROVE  TypeOK'
  <2> DEFINE new == IF update THEN route[p] ELSE NULL
  <2>1. new \in Route \cup {NULL}
    BY DEF TypeOK, ParserTypeOK
  <2>2. [addr |-> a, new |-> new, update |-> update, eob |-> eob] \in Call
    BY <2>1 DEF Call
  <2>3. ParserTypeOK'
    BY <1>4, <2>1, <2>2 DEF ParsePrefix, TypeOK, ParserTypeOK
  <2>4. Rest'
    BY <1>4, ThreadFacts DEF ParsePrefix, At, Goto, TypeOK, PC
  <2> QED BY <1>0, <1>4, <2>3, <2>4, <1>a, <1>b, <1>c DEF ParsePrefix
<1>5. ASSUME NEW p \in Peer, Skip(p)
      PROVE  TypeOK'
  <2>1. ParserTypeOK' /\ Rest'
    BY <1>5 DEF Skip, TypeOK, ParserTypeOK
  <2> QED BY <1>0, <1>5, <2>1, <1>a, <1>b, <1>c DEF Skip
<1>6. ASSUME NEW p \in Peer, LocribStep(p)
      PROVE  TypeOK'
  <2>1. pc[p] = "locrib" /\ call[p] \in Call
    BY <1>6 DEF LocribStep, At, Locals, LocalsOf
  <2>2. call[p].addr \in Addr /\ call[p].new \in Route \cup {NULL}
    BY <2>1 DEF Call
  <2>3. LocribTypeOK'
    BY <1>6, <2>2 DEF LocribStep, Decide, Push, TypeOK, LocribTypeOK
  <2>4. ParserTypeOK'
    BY <1>6 DEF LocribStep, TypeOK, ParserTypeOK
  <2>5. Rest'
    BY <1>6, ThreadFacts DEF LocribStep, At, Goto, TypeOK, PC
  <2> QED BY <1>0, <1>6, <2>3, <2>4, <2>5, <1>b, <1>c DEF LocribStep
<1>7. ASSUME NEW p \in Peer, JournalPush(p)
      PROVE  TypeOK'
  <2>1. call[p] \in Call
    BY <1>7 DEF JournalPush, At, Locals, LocalsOf
  <2>2. call[p].addr \in Addr
    BY <2>1 DEF Call
  <2>3. JournalTypeOK'
    BY <1>7, <2>2 DEF JournalPush, JQ!Push, TypeOK, JournalTypeOK
  <2>4. ParserTypeOK'
    BY <1>7 DEF JournalPush, TypeOK, ParserTypeOK
  <2>5. Rest'
    BY <1>7, ThreadFacts DEF JournalPush, At, Goto, TypeOK, PC
  <2> QED BY <1>0, <1>7, <2>3, <2>4, <2>5, <1>a, <1>c DEF JournalPush
<1>8. CASE JoinAll
  <2>1. Rest'
    BY <1>8, ThreadFacts DEF JoinAll, At, Goto, TypeOK, PC
  <2> QED BY <1>0, <1>8, <2>1, <1>a, <1>b, <1>c, <1>d DEF JoinAll
<1>9. ASSUME NEW t \in Thread, TryLock(t)
      PROVE  TypeOK'
  <2>1. Rest'
    BY <1>9 DEF TryLock, At, Goto, TypeOK, PC, InPhase3
  <2> QED BY <1>0, <1>9, <2>1, <1>a, <1>b, <1>c, <1>d DEF TryLock
<1>10. ASSUME NEW t \in Thread, Busy(t)
       PROVE  TypeOK'
  <2>1. Rest'
    BY <1>10 DEF Busy, Return, At, Goto, TypeOK, PC
  <2> QED BY <1>0, <1>10, <2>1, <1>a, <1>b, <1>c, <1>d DEF Busy
<1>11. ASSUME NEW t \in Thread, Prime(t)
       PROVE  TypeOK'
  <2>1. JournalTypeOK'
    BY <1>11, PullFacts DEF Prime, TypeOK, JournalTypeOK
  <2>2. Rest'
    BY <1>11 DEF Prime, At, Goto, TypeOK, PC, InPhase3
  <2> QED BY <1>0, <1>11, <2>1, <2>2, <1>a, <1>c, <1>d DEF Prime
<1>12. ASSUME NEW t \in Thread, PrimeRead(t)
       PROVE  TypeOK'
  <2>1. addrref[t] \in Addr
    BY <1>12 DEF PrimeRead, At, Locals, LocalsOf
  <2>2. LocribTypeOK'
    BY <1>12, <2>1 DEF PrimeRead, ClearFlag, TypeOK, LocribTypeOK
  <2>3. <<>> \in Seq(Addr) /\ head[addrref[t]] \in Route \cup {NULL, EMPTY}
    BY <2>1 DEF TypeOK, LocribTypeOK
  <2>4. BlockTypeOK'
    BY <1>12, <2>3 DEF PrimeRead, TypeOK, BlockTypeOK
  <2>5. Rest'
    BY <1>12 DEF PrimeRead, At, Goto, TypeOK, PC, InPhase3
  <2> QED BY <1>0, <1>12, <2>2, <2>4, <2>5, <1>b, <1>d DEF PrimeRead
<1>13. ASSUME NEW t \in Thread, Collect(t)
       PROVE  TypeOK'
  <2>1. Append(addrreftable[t], addrref[t]) \in Seq(Addr)
    BY <1>13 DEF Collect, At, Locals, LocalsOf, TypeOK, BlockTypeOK
  <2>2. JournalTypeOK'
    BY <1>13, PullFacts DEF Collect, TypeOK, JournalTypeOK
  <2>3. BlockTypeOK'
    BY <1>13, <2>1 DEF Collect, TypeOK, BlockTypeOK
  <2>4. Rest'
    BY <1>13 DEF Collect, At, Goto, TypeOK, PC, InPhase3
  <2> QED BY <1>0, <1>13, <2>2, <2>3, <2>4, <1>a, <1>d DEF Collect
<1>14. ASSUME NEW t \in Thread, TableFull(t)
       PROVE  TypeOK'
  <2>1. BlockTypeOK' /\ Rest'
    BY <1>14 DEF TableFull, TypeOK, BlockTypeOK
  <2> QED BY <1>0, <1>14, <2>1, <1>a, <1>b, <1>d DEF TableFull
<1>15. ASSUME NEW t \in Thread, Read(t)
       PROVE  TypeOK'
  <2>1. addrref[t] \in Addr
    BY <1>15 DEF Read, At, Locals, LocalsOf
  <2>2. LocribTypeOK'
    BY <1>15, <2>1 DEF Read, ClearFlag, TypeOK, LocribTypeOK
  <2>3. head[addrref[t]] \in Route \cup {NULL, EMPTY}
    BY <2>1 DEF TypeOK, LocribTypeOK
  <2>4. BlockTypeOK'
    BY <1>15, <2>3 DEF Read, TypeOK, BlockTypeOK
  <2>5. Rest'
    BY <1>15 DEF Read, At, Goto, TypeOK, PC, InPhase3
  <2> QED BY <1>0, <1>15, <2>2, <2>4, <2>5, <1>b, <1>d DEF Read
<1>16. ASSUME NEW t \in Thread, Emit(t)
       PROVE  TypeOK'
  <2>1. route1[t] \in Route \cup {NULL} /\ <<>> \in Seq(Addr)
    BY <1>16 DEF Emit, At, Locals, LocalsOf
  <2>2. BlockTypeOK'
    BY <1>16, <2>1 DEF Emit, TypeOK, BlockTypeOK
  <2>3. Rest'
    BY <1>16, <2>1 DEF Emit, Announce, At, Goto, TypeOK, PC, InPhase3
  <2> QED BY <1>0, <1>16, <2>2, <2>3, <1>a, <1>b, <1>d DEF Emit
<1>17. ASSUME NEW t \in Thread, Unlock(t)
       PROVE  TypeOK'
  <2>1. BlockTypeOK'
    BY <1>17 DEF Unlock, TypeOK, BlockTypeOK
  <2>2. Rest'
    BY <1>17 DEF Unlock, Return, At, Goto, TypeOK, PC
  <2> QED BY <1>0, <1>17, <2>1, <2>2, <1>a, <1>b, <1>d DEF Unlock
<1>18. CASE UNCHANGED vars
  BY <1>18, <1>0, <1>a, <1>b, <1>c, <1>d DEF vars, TypeOK
<1> QED
  BY <1>1, <1>2, <1>3, <1>4, <1>5, <1>6, <1>7, <1>8, <1>9, <1>10, <1>11, <1>12,
     <1>13, <1>14, <1>15, <1>16, <1>17, <1>18
     DEF Next, PeerStep, schedule_phase3, Stop

(* Arguments and locals are set before they are used.                      *)
LEMMA LocalsStep ==
  ASSUME TypeOK, Locals, [Next]_vars
  PROVE  Locals'
<1>1. ASSUME NEW p \in Peer, Start(p)
      PROVE  Locals'
  BY <1>1, ThreadFacts DEF Start, At, Goto, TypeOK, Locals, LocalsOf, parserVars, journalVars, blockVars
<1>2. ASSUME NEW p \in Peer, Finish(p)
      PROVE  Locals'
  BY <1>2, ThreadFacts DEF Finish, At, Goto, TypeOK, Locals, LocalsOf, parserVars, journalVars, blockVars
<1>3. ASSUME NEW p \in Peer, NEW k \in Buf, NEW v \in Tiebreak, BuildRoute(p, k, v)
      PROVE  Locals'
  BY <1>3, ThreadFacts DEF BuildRoute, At, Goto, TypeOK, Locals, LocalsOf, parserVars, journalVars, blockVars
<1>4. ASSUME NEW p \in Peer, NEW a \in Addr, NEW update \in BOOLEAN,
             NEW eob \in BOOLEAN, ParsePrefix(p, a, update, eob)
      PROVE  Locals'
  <2>1. call'[p] \in Call
    BY <1>4 DEF ParsePrefix, Call, TypeOK, ParserTypeOK
  <2>2. \A q \in Peer \ {p} : pc'[q] = pc[q] /\ call'[q] = call[q]
    BY <1>4, ThreadFacts DEF ParsePrefix, Goto, TypeOK, ParserTypeOK
  <2>3. \A t \in Thread : LocalsOf(t)'
    BY <1>4, ThreadFacts DEF ParsePrefix, At, Goto, TypeOK, Locals, LocalsOf,
                            journalVars, blockVars
  <2> QED BY <2>1, <2>2, <2>3 DEF Locals
<1>5. ASSUME NEW p \in Peer, Skip(p)
      PROVE  Locals'
  BY <1>5, ThreadFacts DEF Skip, At, Goto, TypeOK, Locals, LocalsOf, parserVars, journalVars, blockVars
<1>6. ASSUME NEW p \in Peer, LocribStep(p)
      PROVE  Locals'
  <2>1. pc'[p] # "push" => /\ pc'[p] = "idle"
    BY <1>6, ThreadFacts DEF LocribStep, Goto, TypeOK
  <2>2. pc'[p] = "push" => call'[p] \in Call
    BY <1>6, ThreadFacts DEF LocribStep, At, Goto, TypeOK, Locals
  <2>3. \A q \in Peer \ {p} : pc'[q] = pc[q] /\ call'[q] = call[q]
    BY <1>6, ThreadFacts DEF LocribStep, Goto, TypeOK, ParserTypeOK
  <2>4. \A t \in Thread : LocalsOf(t)'
    BY <1>6, ThreadFacts DEF LocribStep, At, Goto, TypeOK, Locals, LocalsOf,
                            journalVars, blockVars
  <2> QED BY <2>1, <2>2, <2>3, <2>4 DEF Locals
<1>7. ASSUME NEW p \in Peer, JournalPush(p)
      PROVE  Locals'
  <2>1. pc'[p] \notin {"locrib", "push"}
    BY <1>7, ThreadFacts DEF JournalPush, Goto, TypeOK
  <2>2. \A q \in Peer \ {p} : pc'[q] = pc[q] /\ call'[q] = call[q]
    BY <1>7, ThreadFacts DEF JournalPush, Goto, TypeOK, ParserTypeOK
  <2>3. \A t \in Thread : LocalsOf(t)'
    BY <1>7, ThreadFacts DEF JournalPush, JQ!Push, At, Goto, TypeOK, Locals, LocalsOf,
                            blockVars
  <2> QED BY <2>1, <2>2, <2>3 DEF Locals
<1>8. CASE JoinAll
  BY <1>8, ThreadFacts DEF JoinAll, At, Goto, TypeOK, Locals, LocalsOf, parserVars, journalVars, blockVars
<1>9. ASSUME NEW t \in Thread, TryLock(t)
      PROVE  Locals'
  BY <1>9, ThreadFacts DEF TryLock, At, Goto, TypeOK, Locals, LocalsOf, parserVars, journalVars, blockVars
<1>10. ASSUME NEW t \in Thread, Busy(t)
       PROVE  Locals'
  <2>1. /\ \A u \in Thread \ {t} : /\ pc'[u] = pc[u] /\ addrref'[u] = addrref[u]
                                   /\ route1'[u] = route1[u] /\ route2'[u] = route2[u]
        /\ call' = call
        /\ pc'[t] \notin {"locrib", "push"}
    BY <1>10 DEF Busy, Return, At, Goto, TypeOK, BlockTypeOK, JournalTypeOK, parserVars, journalVars, blockVars
  <2>9. LocalsOf(t)'
    BY <1>10 DEF Busy, Return, Goto, TypeOK, LocalsOf
  <2> QED BY <2>1, <2>9, ThreadFacts DEF Locals, LocalsOf
<1>11. ASSUME NEW t \in Thread, Prime(t)
       PROVE  Locals'
  <2>1. /\ \A u \in Thread \ {t} : /\ pc'[u] = pc[u] /\ addrref'[u] = addrref[u]
                                   /\ route1'[u] = route1[u] /\ route2'[u] = route2[u]
        /\ call' = call
        /\ pc'[t] \notin {"locrib", "push"}
    BY <1>11, PullFacts DEF Prime, Return, At, Goto, TypeOK, BlockTypeOK, JournalTypeOK, parserVars, blockVars
  <2>9. LocalsOf(t)'
    BY <1>11, PullFacts DEF Prime, Goto, TypeOK, LocalsOf
  <2> QED BY <2>1, <2>9, ThreadFacts DEF Locals, LocalsOf
<1>12. ASSUME NEW t \in Thread, PrimeRead(t)
       PROVE  Locals'
  <2>1. /\ \A u \in Thread \ {t} : /\ pc'[u] = pc[u] /\ addrref'[u] = addrref[u]
                                   /\ route1'[u] = route1[u] /\ route2'[u] = route2[u]
        /\ call' = call
        /\ pc'[t] \notin {"locrib", "push"}
    BY <1>12 DEF PrimeRead, Return, At, Goto, TypeOK, BlockTypeOK, JournalTypeOK, parserVars, journalVars
  <2>2. addrref[t] \in Addr
    BY <1>12 DEF PrimeRead, At, Locals, LocalsOf
  <2>3. head[addrref[t]] \in Route \cup {NULL}
    BY <2>2 DEF TypeOK, LocribTypeOK
  <2>9. LocalsOf(t)'
    BY <1>12, <2>2, <2>3 DEF PrimeRead, Goto, TypeOK, BlockTypeOK, LocalsOf, journalVars
  <2> QED BY <2>1, <2>9, ThreadFacts DEF Locals, LocalsOf
<1>13. ASSUME NEW t \in Thread, Collect(t)
       PROVE  Locals'
  <2>1. /\ \A u \in Thread \ {t} : /\ pc'[u] = pc[u] /\ addrref'[u] = addrref[u]
                                   /\ route1'[u] = route1[u] /\ route2'[u] = route2[u]
        /\ call' = call
        /\ pc'[t] \notin {"locrib", "push"}
    BY <1>13, PullFacts DEF Collect, Return, At, Goto, TypeOK, BlockTypeOK, JournalTypeOK, parserVars, journalVars
  <2>2. route1[t] \in Route \cup {NULL}
    BY <1>13 DEF Collect, At, Locals, LocalsOf
  <2>9. LocalsOf(t)'
    BY <1>13, <2>2, PullFacts DEF Collect, Goto, TypeOK, BlockTypeOK, LocalsOf
  <2> QED BY <2>1, <2>9, ThreadFacts DEF Locals, LocalsOf
<1>14. ASSUME NEW t \in Thread, TableFull(t)
       PROVE  Locals'
  BY <1>14, ThreadFacts DEF TableFull, At, Goto, TypeOK, Locals, LocalsOf, parserVars, journalVars, blockVars
<1>15. ASSUME NEW t \in Thread, Read(t)
       PROVE  Locals'
  <2>1. /\ \A u \in Thread \ {t} : /\ pc'[u] = pc[u] /\ addrref'[u] = addrref[u]
                                   /\ route1'[u] = route1[u] /\ route2'[u] = route2[u]
        /\ call' = call
        /\ pc'[t] \notin {"locrib", "push"}
    BY <1>15 DEF Read, Return, At, Goto, TypeOK, BlockTypeOK, JournalTypeOK, parserVars, journalVars
  <2>2. addrref[t] \in Addr /\ route1[t] \in Route \cup {NULL}
    BY <1>15 DEF Read, At, Locals, LocalsOf
  <2>3. head[addrref[t]] \in Route \cup {NULL}
    BY <2>2 DEF TypeOK, LocribTypeOK
  <2>9. LocalsOf(t)'
    BY <1>15, <2>2, <2>3 DEF Read, Goto, TypeOK, BlockTypeOK, LocalsOf, journalVars
  <2> QED BY <2>1, <2>9, ThreadFacts DEF Locals, LocalsOf
<1>16. ASSUME NEW t \in Thread, Emit(t)
       PROVE  Locals'
  <2>1. /\ \A u \in Thread \ {t} : /\ pc'[u] = pc[u] /\ addrref'[u] = addrref[u]
                                   /\ route1'[u] = route1[u] /\ route2'[u] = route2[u]
        /\ call' = call
        /\ pc'[t] \notin {"locrib", "push"}
    BY <1>16 DEF Emit, Return, At, Goto, TypeOK, BlockTypeOK, JournalTypeOK, parserVars, journalVars
  <2>2. addrref[t] # JOURNAL_EMPTY => /\ addrref[t] \in Addr
                                      /\ route2[t] \in Route \cup {NULL}
    BY <1>16 DEF Emit, At, Locals, LocalsOf, TypeOK, JournalTypeOK
  <2>9. LocalsOf(t)'
    BY <1>16, <2>2 DEF Emit, Goto, TypeOK, BlockTypeOK, LocalsOf, journalVars
  <2> QED BY <2>1, <2>9, ThreadFacts DEF Locals, LocalsOf
<1>17. ASSUME NEW t \in Thread, Unlock(t)
       PROVE  Locals'
  <2>1. /\ \A u \in Thread \ {t} : /\ pc'[u] = pc[u] /\ addrref'[u] = addrref[u]
                                   /\ route1'[u] = route1[u] /\ route2'[u] = route2[u]
        /\ call' = call
        /\ pc'[t] \notin {"locrib", "push"}
    BY <1>17 DEF Unlock, Return, At, Goto, TypeOK, BlockTypeOK, JournalTypeOK, parserVars, journalVars
  <2>9. LocalsOf(t)'
    BY <1>17 DEF Unlock, Return, Goto, TypeOK, LocalsOf
  <2> QED BY <2>1, <2>9, ThreadFacts DEF Locals, LocalsOf
<1>18. CASE UNCHANGED vars
  BY <1>18 DEF vars, Locals, LocalsOf, parserVars, journalVars, blockVars
<1> QED
  BY <1>1, <1>2, <1>3, <1>4, <1>5, <1>6, <1>7, <1>8, <1>9, <1>10, <1>11, <1>12,
     <1>13, <1>14, <1>15, <1>16, <1>17, <1>18
     DEF Next, PeerStep, schedule_phase3, Stop

(* The lock admits one thread to phase 3 at a time.                        *)
LEMMA OneConsumerStep ==
  ASSUME TypeOK, OneConsumer, [Next]_vars
  PROVE  OneConsumer'
<1>1. ASSUME NEW p \in Peer, Start(p)
      PROVE  OneConsumer'
  BY <1>1, ThreadFacts DEF Start, At, Goto, TypeOK, OneConsumer, InPhase3
<1>2. ASSUME NEW p \in Peer, Finish(p)
      PROVE  OneConsumer'
  BY <1>2, ThreadFacts DEF Finish, At, Goto, TypeOK, OneConsumer, InPhase3
<1>3. ASSUME NEW p \in Peer, NEW k \in Buf, NEW v \in Tiebreak, BuildRoute(p, k, v)
      PROVE  OneConsumer'
  BY <1>3, ThreadFacts DEF BuildRoute, At, Goto, TypeOK, OneConsumer, InPhase3
<1>4. ASSUME NEW p \in Peer, NEW a \in Addr, NEW update \in BOOLEAN,
             NEW eob \in BOOLEAN, ParsePrefix(p, a, update, eob)
      PROVE  OneConsumer'
  BY <1>4, ThreadFacts DEF ParsePrefix, At, Goto, TypeOK, OneConsumer, InPhase3
<1>5. ASSUME NEW p \in Peer, Skip(p)
      PROVE  OneConsumer'
  BY <1>5, ThreadFacts DEF Skip, At, Goto, TypeOK, OneConsumer, InPhase3
<1>6. ASSUME NEW p \in Peer, LocribStep(p)
      PROVE  OneConsumer'
  BY <1>6, ThreadFacts DEF LocribStep, At, Goto, TypeOK, OneConsumer, InPhase3
<1>7. ASSUME NEW p \in Peer, JournalPush(p)
      PROVE  OneConsumer'
  BY <1>7, ThreadFacts DEF JournalPush, At, Goto, TypeOK, OneConsumer, InPhase3
<1>8. CASE JoinAll
  BY <1>8, ThreadFacts DEF JoinAll, At, Goto, TypeOK, OneConsumer, InPhase3
<1>9. ASSUME NEW t \in Thread, TryLock(t)
      PROVE  OneConsumer'
  BY <1>9, ThreadFacts DEF TryLock, At, Goto, TypeOK, OneConsumer, InPhase3
<1>10. ASSUME NEW t \in Thread, Busy(t)
       PROVE  OneConsumer'
  BY <1>10 DEF Busy, Return, At, Goto, TypeOK, OneConsumer, InPhase3
<1>11. ASSUME NEW t \in Thread, Prime(t)
       PROVE  OneConsumer'
  BY <1>11, ThreadFacts DEF Prime, At, Goto, TypeOK, OneConsumer, InPhase3
<1>12. ASSUME NEW t \in Thread, PrimeRead(t)
       PROVE  OneConsumer'
  BY <1>12, ThreadFacts DEF PrimeRead, At, Goto, TypeOK, OneConsumer, InPhase3
<1>13. ASSUME NEW t \in Thread, Collect(t)
       PROVE  OneConsumer'
  BY <1>13, ThreadFacts DEF Collect, At, Goto, TypeOK, OneConsumer, InPhase3
<1>14. ASSUME NEW t \in Thread, TableFull(t)
       PROVE  OneConsumer'
  BY <1>14, ThreadFacts DEF TableFull, At, Goto, TypeOK, OneConsumer, InPhase3
<1>15. ASSUME NEW t \in Thread, Read(t)
       PROVE  OneConsumer'
  BY <1>15, ThreadFacts DEF Read, At, Goto, TypeOK, OneConsumer, InPhase3
<1>16. ASSUME NEW t \in Thread, Emit(t)
       PROVE  OneConsumer'
  BY <1>16, ThreadFacts DEF Emit, At, Goto, TypeOK, OneConsumer, InPhase3
<1>17. ASSUME NEW t \in Thread, Unlock(t)
       PROVE  OneConsumer'
  BY <1>17 DEF Unlock, Return, At, Goto, TypeOK, OneConsumer, InPhase3
<1>18. CASE UNCHANGED vars
  BY <1>18, ThreadFacts DEF vars, At, Goto, TypeOK, OneConsumer, InPhase3
<1> QED
  BY <1>1, <1>2, <1>3, <1>4, <1>5, <1>6, <1>7, <1>8, <1>9, <1>10, <1>11, <1>12,
     <1>13, <1>14, <1>15, <1>16, <1>17, <1>18
     DEF Next, PeerStep, schedule_phase3, Stop

(* Nobody clears a push flag but the consumer that reads the address, and  *)
(* nobody sets one without journalling the address.                        *)
LEMMA ScheduledStep ==
  ASSUME TypeOK, Locals, Scheduled, [Next]_vars
  PROVE  Scheduled'
<1>1. ASSUME NEW p \in Peer, Start(p)
      PROVE  Scheduled'
  BY <1>1, ThreadFacts
     DEF Start, At, Goto, TypeOK, JournalTypeOK, ParserTypeOK, Scheduled, Coming,
         locribVars, journalVars, parserVars
<1>2. ASSUME NEW p \in Peer, Finish(p)
      PROVE  Scheduled'
  BY <1>2, ThreadFacts
     DEF Finish, At, Goto, TypeOK, JournalTypeOK, ParserTypeOK, Scheduled, Coming,
         locribVars, journalVars, parserVars
<1>3. ASSUME NEW p \in Peer, NEW k \in Buf, NEW v \in Tiebreak, BuildRoute(p, k, v)
      PROVE  Scheduled'
  BY <1>3
     DEF BuildRoute, At, Goto, TypeOK, JournalTypeOK, ParserTypeOK, Scheduled, Coming,
         journalVars
<1>4. ASSUME NEW p \in Peer, NEW a \in Addr, NEW update \in BOOLEAN,
             NEW eob \in BOOLEAN, ParsePrefix(p, a, update, eob)
      PROVE  Scheduled'
  BY <1>4, ThreadFacts
     DEF ParsePrefix, At, Goto, TypeOK, JournalTypeOK, ParserTypeOK, Scheduled, Coming,
         locribVars, journalVars, parserVars
<1>5. ASSUME NEW p \in Peer, Skip(p)
      PROVE  Scheduled'
  BY <1>5, ThreadFacts
     DEF Skip, At, Goto, TypeOK, JournalTypeOK, ParserTypeOK, Scheduled, Coming,
         locribVars, journalVars, parserVars
<1>6. ASSUME NEW p \in Peer, LocribStep(p)
      PROVE  Scheduled'
  <2>1. pc[p] = "locrib" /\ call[p] \in Call
    BY <1>6 DEF LocribStep, At, Locals
  <2>2. /\ journal' = journal /\ addrref' = addrref
        /\ \A q \in Peer \ {p} : pc'[q] = pc[q] /\ call'[q] = call[q]
        /\ \A t \in Thread : pc[t] \in {"prime_read", "read"} => pc'[t] = pc[t]
    BY <1>6, <2>1, ThreadFacts DEF LocribStep, Goto, TypeOK, ParserTypeOK, journalVars
  <2>3. \A a \in Addr : Coming(a) => Coming(a)'
    BY <2>1, <2>2 DEF Coming
  <2>4. ASSUME NEW a \in Addr, push_flag'[a], ~push_flag[a]
        PROVE  Coming(a)'
    <3>1. a = call[p].addr /\ pc'[p] = "push" /\ call' = call
      BY <1>6, <2>4, ThreadFacts
         DEF LocribStep, Decide, Push, Goto, TypeOK, LocribTypeOK
    <3> QED BY <3>1 DEF Coming
  <2> QED BY <2>3, <2>4 DEF Scheduled
<1>7. ASSUME NEW p \in Peer, JournalPush(p)
      PROVE  Scheduled'
  <2>1. pc[p] = "push" /\ call[p].addr \in Addr
    BY <1>7 DEF JournalPush, At, Locals, Call
  <2>2. Range(journal') = Range(journal) \cup {call[p].addr}
    BY <1>7, <2>1, RangeAppend DEF JournalPush, JQ!Push, TypeOK, JournalTypeOK
  <2>3. /\ push_flag' = push_flag /\ addrref' = addrref
        /\ \A q \in Peer \ {p} : pc'[q] = pc[q] /\ call'[q] = call[q]
        /\ \A t \in Thread : pc[t] \in {"prime_read", "read"} => pc'[t] = pc[t]
    BY <1>7, <2>1, ThreadFacts
       DEF JournalPush, JQ!Push, Goto, TypeOK, ParserTypeOK, locribVars
  <2> QED BY <2>1, <2>2, <2>3 DEF Scheduled, Coming
<1>8. CASE JoinAll
  BY <1>8, ThreadFacts
     DEF JoinAll, At, Goto, TypeOK, JournalTypeOK, ParserTypeOK, Scheduled, Coming,
         locribVars, journalVars, parserVars
<1>9. ASSUME NEW t \in Thread, TryLock(t)
      PROVE  Scheduled'
  BY <1>9, ThreadFacts
     DEF TryLock, At, Goto, TypeOK, JournalTypeOK, ParserTypeOK, Scheduled, Coming,
         locribVars, journalVars, parserVars
<1>10. ASSUME NEW t \in Thread, Busy(t)
       PROVE  Scheduled'
  BY <1>10, ThreadFacts
     DEF Busy, Return, At, Goto, TypeOK, JournalTypeOK, ParserTypeOK, Scheduled, Coming,
         locribVars, journalVars, parserVars
<1>11. ASSUME NEW t \in Thread, Prime(t)
       PROVE  Scheduled'
  <2>1. /\ push_flag' = push_flag /\ call' = call
        /\ \A q \in Peer : pc[q] = "push" => pc'[q] = "push"
        /\ \A u \in Thread \ {t} : pc'[u] = pc[u] /\ addrref'[u] = addrref[u]
        /\ pc[t] = "prime"
        /\ pc'[t] = IF addrref'[t] = JOURNAL_EMPTY THEN "unlock" ELSE "prime_read"
    BY <1>11, ThreadFacts, PullFacts
       DEF Prime, At, Goto, TypeOK, JournalTypeOK, locribVars, parserVars
  <2> QED BY <1>11, <2>1, PullFacts, RangeEmpty DEF Prime, Scheduled, Coming
<1>12. ASSUME NEW t \in Thread, PrimeRead(t)
       PROVE  Scheduled'
  <2>1. addrref[t] \in Addr /\ ~push_flag'[addrref[t]]
    BY <1>12 DEF PrimeRead, ClearFlag, At, Locals, LocalsOf, TypeOK, LocribTypeOK
  <2>2. \A a \in Addr \ {addrref[t]} : push_flag'[a] = push_flag[a]
    BY <1>12 DEF PrimeRead, ClearFlag, TypeOK, LocribTypeOK
  <2> QED BY <1>12, <2>1, <2>2, ThreadFacts
          DEF PrimeRead, At, Goto, TypeOK, JournalTypeOK, ParserTypeOK, Scheduled, Coming, parserVars, journalVars
<1>13. ASSUME NEW t \in Thread, Collect(t)
       PROVE  Scheduled'
  <2>1. /\ push_flag' = push_flag /\ call' = call
        /\ \A q \in Peer : pc[q] = "push" => pc'[q] = "push"
        /\ \A u \in Thread \ {t} : pc'[u] = pc[u] /\ addrref'[u] = addrref[u]
        /\ pc[t] = "collect"
        /\ pc'[t] = IF addrref'[t] = JOURNAL_EMPTY THEN "emit" ELSE "read"
    BY <1>13, ThreadFacts, PullFacts
       DEF Collect, At, Goto, TypeOK, JournalTypeOK, locribVars, parserVars
  <2> QED BY <1>13, <2>1, PullFacts, RangeEmpty DEF Collect, Scheduled, Coming
<1>14. ASSUME NEW t \in Thread, TableFull(t)
       PROVE  Scheduled'
  BY <1>14, ThreadFacts
     DEF TableFull, At, Goto, TypeOK, JournalTypeOK, ParserTypeOK, Scheduled, Coming,
         locribVars, journalVars, parserVars
<1>15. ASSUME NEW t \in Thread, Read(t)
       PROVE  Scheduled'
  <2>1. addrref[t] \in Addr /\ ~push_flag'[addrref[t]]
    BY <1>15 DEF Read, ClearFlag, At, Locals, LocalsOf, TypeOK, LocribTypeOK
  <2>2. \A a \in Addr \ {addrref[t]} : push_flag'[a] = push_flag[a]
    BY <1>15 DEF Read, ClearFlag, TypeOK, LocribTypeOK
  <2> QED BY <1>15, <2>1, <2>2, ThreadFacts
          DEF Read, At, Goto, TypeOK, JournalTypeOK, ParserTypeOK, Scheduled, Coming, parserVars, journalVars
<1>16. ASSUME NEW t \in Thread, Emit(t)
       PROVE  Scheduled'
  BY <1>16, ThreadFacts
     DEF Emit, At, Goto, TypeOK, JournalTypeOK, ParserTypeOK, Scheduled, Coming,
         locribVars, journalVars, parserVars
<1>17. ASSUME NEW t \in Thread, Unlock(t)
       PROVE  Scheduled'
  BY <1>17, ThreadFacts
     DEF Unlock, Return, At, Goto, TypeOK, JournalTypeOK, ParserTypeOK, Scheduled, Coming,
         locribVars, journalVars, parserVars
<1>18. CASE UNCHANGED vars
  BY <1>18 DEF vars, Scheduled, Coming, locribVars, journalVars, parserVars
<1> QED
  BY <1>1, <1>2, <1>3, <1>4, <1>5, <1>6, <1>7, <1>8, <1>9, <1>10, <1>11, <1>12,
     <1>13, <1>14, <1>15, <1>16, <1>17, <1>18
     DEF Next, PeerStep, schedule_phase3, Stop

(* The points of schedule_phase3() at which it holds routes read but not   *)
(* yet written.                                                            *)
Holding == {"collect", "read", "emit"}

(* InSync survives a step that leaves the consumer, what it holds and what *)
(* has been written alone, and changes the head only of addresses whose    *)
(* push flag is then set.                                                  *)
LEMMA InSyncFrame ==
  ASSUME InSync, sent' = sent,
         \A a \in Addr : ~push_flag'[a] => ~push_flag[a] /\ head'[a] = head[a],
         \A t \in Thread :
           pc[t] \in Holding \/ pc'[t] \in Holding =>
             /\ pc'[t] = pc[t] /\ addrref'[t] = addrref[t]
             /\ addrreftable'[t] = addrreftable[t]
             /\ route1'[t] = route1[t] /\ route2'[t] = route2[t]
  PROVE  InSync'
<1> SUFFICES ASSUME NEW a \in Addr, ~push_flag'[a]
             PROVE  \/ \E t \in Thread : HoldsNext(t, a)' /\ route2'[t] = head'[a]
                    \/ \E t \in Thread : HoldsNow(t, a)' /\ route1'[t] = head'[a]
                    \/ /\ \A t \in Thread : ~HoldsNext(t, a)' /\ ~HoldsNow(t, a)'
                       /\ sent'[a] = head'[a]
  BY DEF InSync
<1>1. ~push_flag[a] /\ head'[a] = head[a]
  OBVIOUS
<1>2. CASE \E t \in Thread : HoldsNext(t, a) /\ route2[t] = head[a]
  BY <1>1, <1>2 DEF HoldsNext, HoldsNow, Holding
<1>3. CASE \E t \in Thread : HoldsNow(t, a) /\ route1[t] = head[a]
  BY <1>1, <1>3 DEF HoldsNext, HoldsNow, Holding
<1>4. CASE /\ \A t \in Thread : ~HoldsNext(t, a) /\ ~HoldsNow(t, a)
           /\ sent[a] = head[a]
  BY <1>1, <1>4 DEF HoldsNext, HoldsNow, Holding
<1> QED BY <1>1, <1>2, <1>3, <1>4 DEF InSync

(* While t is in phase 3 nobody else holds anything, so InSync speaks of t *)
(* alone.                                                                  *)
SyncWith(t) ==
  \A a \in Addr : ~push_flag[a] =>
    \/ HoldsNext(t, a) /\ route2[t] = head[a]
    \/ HoldsNow(t, a) /\ route1[t] = head[a]
    \/ ~HoldsNext(t, a) /\ ~HoldsNow(t, a) /\ sent[a] = head[a]

LEMMA SyncAlone ==
  ASSUME NEW t \in Thread, \A u \in Thread \ {t} : pc[u] \notin Holding
  PROVE  InSync <=> SyncWith(t)
<1>1. \A u \in Thread \ {t}, a \in Addr : ~HoldsNext(u, a) /\ ~HoldsNow(u, a)
  BY DEF HoldsNext, HoldsNow, Holding
<1> QED BY <1>1 DEF InSync, SyncWith

LEMMA SyncAloneNext ==
  ASSUME NEW t \in Thread, \A u \in Thread \ {t} : pc'[u] \notin Holding
  PROVE  InSync' <=> SyncWith(t)'
<1>1. \A u \in Thread \ {t}, a \in Addr : ~HoldsNext(u, a)' /\ ~HoldsNow(u, a)'
  BY DEF HoldsNext, HoldsNow, Holding
<1> QED BY <1>1 DEF InSync, SyncWith

LEMMA OthersIdle ==
  ASSUME TypeOK, OneConsumer, NEW t \in Thread, pc[t] \in InPhase3,
         NEW new, pc' = [pc EXCEPT ![t] = new]
  PROVE  \A u \in Thread \ {t} : pc[u] \notin Holding /\ pc'[u] \notin Holding
BY DEF TypeOK, OneConsumer, InPhase3, Holding

(* What the consumer reads it writes, and what changes meanwhile is read   *)
(* again.                                                                  *)
LEMMA InSyncStep ==
  ASSUME TypeOK, Locals, OneConsumer, InSync, [Next]_vars
  PROVE  InSync'
<1>1. ASSUME NEW p \in Peer, Start(p)
      PROVE  InSync'
  BY <1>1, InSyncFrame, ThreadFacts
     DEF Start, At, Goto, Holding, TypeOK, locribVars, journalVars, blockVars
<1>2. ASSUME NEW p \in Peer, Finish(p)
      PROVE  InSync'
  BY <1>2, InSyncFrame, ThreadFacts
     DEF Finish, At, Goto, Holding, TypeOK, locribVars, journalVars, blockVars
<1>3. ASSUME NEW p \in Peer, NEW k \in Buf, NEW v \in Tiebreak, BuildRoute(p, k, v)
      PROVE  InSync'
  BY <1>3, InSyncFrame DEF BuildRoute, At, journalVars, blockVars
<1>4. ASSUME NEW p \in Peer, NEW a \in Addr, NEW update \in BOOLEAN,
             NEW eob \in BOOLEAN, ParsePrefix(p, a, update, eob)
      PROVE  InSync'
  BY <1>4, InSyncFrame, ThreadFacts
     DEF ParsePrefix, At, Goto, Holding, TypeOK, locribVars, journalVars, blockVars
<1>5. ASSUME NEW p \in Peer, Skip(p)
      PROVE  InSync'
  BY <1>5, InSyncFrame, ThreadFacts
     DEF Skip, At, Goto, Holding, TypeOK, locribVars, journalVars, blockVars
<1>6. ASSUME NEW p \in Peer, LocribStep(p)
      PROVE  InSync'
  <2>1. call[p].addr \in Addr
    BY <1>6 DEF LocribStep, At, Locals, Call
  <2>2. \A a \in Addr : ~push_flag'[a] => ~push_flag[a] /\ head'[a] = head[a]
    BY <1>6, <2>1 DEF LocribStep, Decide, Push, TypeOK, LocribTypeOK
  <2> QED BY <1>6, <2>2, InSyncFrame, ThreadFacts
          DEF LocribStep, At, Goto, Holding, TypeOK, journalVars, blockVars
<1>7. ASSUME NEW p \in Peer, JournalPush(p)
      PROVE  InSync'
  BY <1>7, InSyncFrame, ThreadFacts
     DEF JournalPush, JQ!Push, At, Goto, Holding, TypeOK, locribVars, blockVars
<1>8. CASE JoinAll
  BY <1>8, InSyncFrame, ThreadFacts
     DEF JoinAll, At, Goto, Holding, TypeOK, locribVars, journalVars, blockVars
<1>9. ASSUME NEW t \in Thread, TryLock(t)
      PROVE  InSync'
  BY <1>9, InSyncFrame, ThreadFacts
     DEF TryLock, At, Goto, Holding, TypeOK, locribVars, journalVars, blockVars
<1>10. ASSUME NEW t \in Thread, Busy(t)
       PROVE  InSync'
  BY <1>10, InSyncFrame
     DEF Busy, Return, At, Goto, Holding, TypeOK, locribVars, journalVars, blockVars
<1>11. ASSUME NEW t \in Thread, Prime(t)
       PROVE  InSync'
  <2>1. /\ \A u \in Thread \ {t} : pc'[u] = pc[u] /\ addrref'[u] = addrref[u]
        /\ pc[t] \notin Holding /\ pc'[t] \notin Holding
    BY <1>11, PullFacts DEF Prime, At, Goto, Holding, TypeOK, JournalTypeOK
  <2> QED BY <1>11, <2>1, InSyncFrame DEF Prime, locribVars, blockVars
<1>12. ASSUME NEW t \in Thread, PrimeRead(t)
       PROVE  InSync'
  <2>1. /\ pc[t] \in InPhase3
        /\ \E new : pc' = [pc EXCEPT ![t] = new]
    BY <1>12 DEF PrimeRead, At, Goto, InPhase3
  <2>2. \A u \in Thread \ {t} : pc[u] \notin Holding /\ pc'[u] \notin Holding
    BY <2>1, OthersIdle
  <2>3. SyncWith(t)
    BY <2>2, SyncAlone
  <2>4. /\ pc[t] = "prime_read" /\ pc'[t] = "collect" /\ addrref' = addrref
        /\ addrref[t] \in Addr /\ addrreftable'[t] = <<>> /\ head' = head
        /\ sent' = sent /\ route2'[t] = head[addrref[t]]
        /\ \A a \in Addr : a # addrref[t] => push_flag'[a] = push_flag[a]
    BY <1>12 DEF PrimeRead, ClearFlag, At, Goto, Locals, LocalsOf, TypeOK,
                LocribTypeOK, BlockTypeOK, journalVars
  <2>9. SyncWith(t)'
    BY <2>3, <2>4, RangeEmpty DEF SyncWith, HoldsNext, HoldsNow
  <2> QED BY <2>2, <2>9, SyncAloneNext
<1>13. ASSUME NEW t \in Thread, Collect(t)
       PROVE  InSync'
  <2>1. /\ pc[t] \in InPhase3
        /\ \E new : pc' = [pc EXCEPT ![t] = new]
    BY <1>13 DEF Collect, At, Goto, InPhase3
  <2>2. \A u \in Thread \ {t} : pc[u] \notin Holding /\ pc'[u] \notin Holding
    BY <2>1, OthersIdle
  <2>3. SyncWith(t)
    BY <2>2, SyncAlone
  <2>4. /\ pc[t] = "collect" /\ addrref[t] \in Addr /\ route2[t] = route1[t]
        /\ push_flag' = push_flag /\ head' = head /\ sent' = sent /\ route1' = route1
        /\ pc'[t] = IF addrref'[t] = JOURNAL_EMPTY THEN "emit" ELSE "read"
    BY <1>13 DEF Collect, At, Goto, Locals, LocalsOf, TypeOK, locribVars
  <2>5. Range(addrreftable'[t]) = Range(addrreftable[t]) \cup {addrref[t]}
    BY <1>13, <2>4, RangeAppend DEF Collect, TypeOK, BlockTypeOK
  <2>9. SyncWith(t)'
    BY <2>3, <2>4, <2>5, Phase3Assumption DEF SyncWith, HoldsNext, HoldsNow
  <2> QED BY <2>2, <2>9, SyncAloneNext
<1>14. ASSUME NEW t \in Thread, TableFull(t)
       PROVE  InSync'
  BY <1>14, InSyncFrame DEF TableFull, locribVars, journalVars
<1>15. ASSUME NEW t \in Thread, Read(t)
       PROVE  InSync'
  <2>1. /\ pc[t] \in InPhase3
        /\ \E new : pc' = [pc EXCEPT ![t] = new]
    BY <1>15 DEF Read, At, Goto, InPhase3
  <2>2. \A u \in Thread \ {t} : pc[u] \notin Holding /\ pc'[u] \notin Holding
    BY <2>1, OthersIdle
  <2>3. SyncWith(t)
    BY <2>2, SyncAlone
  <2>4. /\ pc[t] = "read" /\ pc'[t] \in {"collect", "emit"} /\ addrref' = addrref
        /\ addrref[t] \in Addr /\ addrreftable' = addrreftable /\ head' = head
        /\ sent' = sent /\ route1' = route1 /\ route2'[t] = head[addrref[t]]
        /\ \A a \in Addr : a # addrref[t] => push_flag'[a] = push_flag[a]
    BY <1>15 DEF Read, ClearFlag, At, Goto, Locals, LocalsOf, TypeOK,
                LocribTypeOK, BlockTypeOK, journalVars
  <2>9. SyncWith(t)'
    BY <2>3, <2>4 DEF SyncWith, HoldsNext, HoldsNow
  <2> QED BY <2>2, <2>9, SyncAloneNext
<1>16. ASSUME NEW t \in Thread, Emit(t)
       PROVE  InSync'
  <2>1. /\ pc[t] \in InPhase3
        /\ \E new : pc' = [pc EXCEPT ![t] = new]
    BY <1>16 DEF Emit, At, Goto, InPhase3
  <2>2. \A u \in Thread \ {t} : pc[u] \notin Holding /\ pc'[u] \notin Holding
    BY <2>1, OthersIdle
  <2>3. SyncWith(t)
    BY <2>2, SyncAlone
  <2>4. /\ pc[t] = "emit" /\ addrreftable'[t] = <<>> /\ addrref' = addrref
        /\ push_flag' = push_flag /\ head' = head /\ route2' = route2
        /\ pc'[t] = IF addrref[t] = JOURNAL_EMPTY THEN "unlock" ELSE "collect"
    BY <1>16 DEF Emit, At, Goto, TypeOK, BlockTypeOK, locribVars, journalVars
  <2>5. \A a \in Addr : sent'[a] = IF a \in Range(addrreftable[t])
                                   THEN route1[t] ELSE sent[a]
    BY <1>16 DEF Emit, Announce
  <2>9. SyncWith(t)'
    BY <2>3, <2>4, <2>5, RangeEmpty, Phase3Assumption DEF SyncWith, HoldsNext, HoldsNow
  <2> QED BY <2>2, <2>9, SyncAloneNext
<1>17. ASSUME NEW t \in Thread, Unlock(t)
       PROVE  InSync'
  <2>1. /\ \A u \in Thread \ {t} : /\ pc'[u] = pc[u] /\ addrref'[u] = addrref[u]
                                   /\ route1'[u] = route1[u] /\ route2'[u] = route2[u]
        /\ pc[t] \notin Holding /\ pc'[t] \notin Holding
    BY <1>17 DEF Unlock, Return, At, Goto, Holding, TypeOK, BlockTypeOK, journalVars
  <2> QED BY <1>17, <2>1, InSyncFrame DEF Unlock, locribVars
<1>18. CASE UNCHANGED vars
  BY <1>18, InSyncFrame DEF vars, locribVars, journalVars, blockVars
<1> QED
  BY <1>1, <1>2, <1>3, <1>4, <1>5, <1>6, <1>7, <1>8, <1>9, <1>10, <1>11, <1>12,
     <1>13, <1>14, <1>15, <1>16, <1>17, <1>18
     DEF Next, PeerStep, schedule_phase3, Stop

(* The main thread leaves its last call with nothing left to do.           *)
LEMMA MainLastStep ==
  ASSUME TypeOK, Locals, OneConsumer, MainLast, [Next]_vars
  PROVE  MainLast'
<1>1. ASSUME NEW p \in Peer, Start(p)
      PROVE  MainLast'
  BY <1>1, ThreadFacts DEF Start, At, Goto, TypeOK, InPhase3, MainLast, journalVars
<1>2. ASSUME NEW p \in Peer, Finish(p)
      PROVE  MainLast'
  BY <1>2, ThreadFacts DEF Finish, At, Goto, TypeOK, InPhase3, MainLast, journalVars
<1>3. ASSUME NEW p \in Peer, NEW k \in Buf, NEW v \in Tiebreak, BuildRoute(p, k, v)
      PROVE  MainLast'
  BY <1>3, ThreadFacts DEF BuildRoute, At, Goto, TypeOK, InPhase3, MainLast, journalVars
<1>4. ASSUME NEW p \in Peer, NEW a \in Addr, NEW update \in BOOLEAN,
             NEW eob \in BOOLEAN, ParsePrefix(p, a, update, eob)
      PROVE  MainLast'
  BY <1>4, ThreadFacts DEF ParsePrefix, At, Goto, TypeOK, InPhase3, MainLast, journalVars
<1>5. ASSUME NEW p \in Peer, Skip(p)
      PROVE  MainLast'
  BY <1>5, ThreadFacts DEF Skip, At, Goto, TypeOK, InPhase3, MainLast, journalVars
<1>6. ASSUME NEW p \in Peer, LocribStep(p)
      PROVE  MainLast'
  BY <1>6, ThreadFacts DEF LocribStep, At, Goto, TypeOK, InPhase3, MainLast, journalVars
<1>7. ASSUME NEW p \in Peer, JournalPush(p)
      PROVE  MainLast'
  BY <1>7, ThreadFacts DEF JournalPush, JQ!Push, At, Goto, TypeOK, InPhase3, MainLast
<1>8. CASE JoinAll
  BY <1>8, ThreadFacts DEF JoinAll, At, Goto, TypeOK, InPhase3, MainLast, journalVars
<1>9. ASSUME NEW t \in Thread, TryLock(t)
      PROVE  MainLast'
  BY <1>9, ThreadFacts DEF TryLock, At, Goto, TypeOK, InPhase3, MainLast, journalVars
<1>10. ASSUME NEW t \in Thread, Busy(t)
       PROVE  MainLast'
  <2>1. t # Main
    BY <1>10, ThreadFacts DEF Busy, At, OneConsumer, MainLast, InPhase3, Thread
  <2> QED BY <1>10, <2>1, ThreadFacts DEF Busy, Return, At, Goto, TypeOK, InPhase3, MainLast, journalVars
<1>11. ASSUME NEW t \in Thread, Prime(t)
       PROVE  MainLast'
  <2>1. t # Main => pc[Main] = "join"
    BY <1>11 DEF Prime, At, MainLast, Thread
  <2> QED BY <1>11, <2>1, PullFacts, ThreadFacts DEF Prime, At, Goto, TypeOK, InPhase3, MainLast
<1>12. ASSUME NEW t \in Thread, PrimeRead(t)
       PROVE  MainLast'
  BY <1>12, ThreadFacts DEF PrimeRead, At, Goto, TypeOK, InPhase3, MainLast, journalVars
<1>13. ASSUME NEW t \in Thread, Collect(t)
       PROVE  MainLast'
  <2>1. t # Main => pc[Main] = "join"
    BY <1>13 DEF Collect, At, MainLast, Thread
  <2> QED BY <1>13, <2>1, PullFacts, ThreadFacts DEF Collect, At, Goto, TypeOK, InPhase3, MainLast
<1>14. ASSUME NEW t \in Thread, TableFull(t)
       PROVE  MainLast'
  BY <1>14, ThreadFacts DEF TableFull, At, Goto, TypeOK, InPhase3, MainLast, journalVars
<1>15. ASSUME NEW t \in Thread, Read(t)
       PROVE  MainLast'
  <2>1. addrref[t] # JOURNAL_EMPTY
    BY <1>15, Phase3Assumption DEF Read, At, Locals, LocalsOf
  <2> QED BY <1>15, <2>1, ThreadFacts DEF Read, At, Goto, TypeOK, InPhase3, MainLast, journalVars
<1>16. ASSUME NEW t \in Thread, Emit(t)
       PROVE  MainLast'
  BY <1>16, ThreadFacts DEF Emit, At, Goto, TypeOK, InPhase3, MainLast, journalVars
<1>17. ASSUME NEW t \in Thread, Unlock(t)
       PROVE  MainLast'
  BY <1>17, ThreadFacts DEF Unlock, Return, At, Goto, TypeOK, InPhase3, MainLast, journalVars
<1>18. CASE UNCHANGED vars
  BY <1>18, ThreadFacts DEF vars, At, Goto, TypeOK, InPhase3, MainLast, journalVars
<1> QED
  BY <1>1, <1>2, <1>3, <1>4, <1>5, <1>6, <1>7, <1>8, <1>9, <1>10, <1>11, <1>12,
     <1>13, <1>14, <1>15, <1>16, <1>17, <1>18
     DEF Next, PeerStep, schedule_phase3, Stop

-----------------------------------------------------------------------------
(* The inductive invariant is one.                                         *)
LEMMA NextIInv == IInv /\ [Next]_vars => IInv'
<1> SUFFICES ASSUME IInv, [Next]_vars PROVE IInv'
  OBVIOUS
<1>1. TypeOK /\ Locals /\ OneConsumer /\ Scheduled /\ InSync /\ MainLast
  BY DEF IInv
<1>2. TypeOK' /\ Locals' /\ OneConsumer'
  BY <1>1, TypeStep, LocalsStep, OneConsumerStep
<1>3. Scheduled' /\ InSync' /\ MainLast'
  BY <1>1, ScheduledStep, InSyncStep, MainLastStep
<1> QED BY <1>2, <1>3 DEF IInv

LEMMA IInvHolds == Spec => []IInv
BY InitIInv, NextIInv, PTL DEF Spec

(* Once main is done every peer is, so no address is on its way and no     *)
(* route is in anybody's hands.                                            *)
LEMMA IInvFlushed == IInv => Flushed
<1> SUFFICES ASSUME IInv, pc[Main] = "done"
             PROVE  journal = <<>> /\ \A a \in Addr : sent[a] = head[a]
  BY DEF Flushed
<1>1. journal = <<>> /\ Range(journal) = {}
  BY RangeEmpty DEF IInv, MainLast
<1>2. \A t \in Thread : pc[t] = "done"
  BY DEF IInv, MainLast, Thread
<1>3. \A a \in Addr : ~push_flag[a]
  BY <1>1, <1>2, ThreadFacts DEF IInv, Scheduled, Coming
<1>4. \A t \in Thread, a \in Addr : ~HoldsNext(t, a) /\ ~HoldsNow(t, a)
  BY <1>2 DEF HoldsNext, HoldsNow
<1> QED BY <1>1, <1>3, <1>4 DEF IInv, InSync

(* Every variable keeps its type.                                          *)
THEOREM TypeCorrect == Spec => []TypeOK
BY IInvHolds, PTL DEF IInv

(* Phase 3 has one thread in it at a time, so the assertions on            *)
(* phase3_debug never fail, nor is tx_buffer ever shared.                  *)
THEOREM MutualExclusion == Spec => []OneConsumer
BY IInvHolds, PTL DEF IInv

(* An address with its push flag set is always on its way to be read: the  *)
(* flag can be trusted to suppress further journal entries.                *)
THEOREM NeverForgotten == Spec => []Scheduled
BY IInvHolds, PTL DEF IInv

(* While the push flag is clear, what was written for an address, or is in *)
(* the consumer's hands to be written last, is the loc-RIB's winner.       *)
THEOREM NothingLost == Spec => []InSync
BY IInvHolds, PTL DEF IInv

(* When buf_parse() returns, the peer groups have been told every winner.  *)
THEOREM AllFlushed == Spec => []Flushed
BY IInvHolds, IInvFlushed, PTL
=============================================================================
