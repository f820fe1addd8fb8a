------------------------ MODULE LocribJournal_proofs ------------------------
(***************************************************************************)
(* The ring of locribjournal.c is a FIFO queue, for any number of threads  *)
(* and slots: LocribJournal implements JournalQueue.                       *)
(***************************************************************************)
EXTENDS LocribJournal, SequenceTheorems, TLAPS

(* The pcs between LOCKLRJ and UNLOCKLRJ.                                  *)
Holding == {"push_write", "push_wrap", "push_unlock", "pull_read", "pull_wrap", "pull_unlock"}

(* One thread at most is between them, and the lock tells.                 *)
Exclusive ==
  /\ \A t, u \in Thread : pc[t] \in Holding /\ pc[u] \in Holding => t = u
  /\ \A t \in Thread : pc[t] \in Holding => spinlock_lrj

(* A cursor is past the end only before its wrap, and a reference that is  *)
(* to be pushed is one, and once written lies below the write cursor.      *)
Cursors ==
  /\ (\E t \in Thread : pc[t] = "push_wrap") \/ jwrite < BIG
  /\ (\E t \in Thread : pc[t] = "pull_wrap") \/ jread < BIG
  /\ \A t \in Thread :
       /\ pc[t] \in PushPC => addrref[t] \in Addr
       /\ pc[t] = "push_wrap" => jwrite > 0 /\ ring[jwrite - 1] = addrref[t]
       /\ pc[t] = "pull_wrap" => jread > 0

(* What is pending has been pushed.                                        *)
Filled == \A i \in 1..Pending : ring[Slot(i)] \in Addr

JInv == TypeOK /\ Exclusive /\ Cursors /\ (overrun \/ Filled)

(* The mapped cursors are slots, fewer than BIG entries are pending before *)
(* an overrun, and their slots are not the one that is written next.       *)
Mapped ==
  /\ WriteCursor \in 0..(BIG - 1) /\ ReadCursor \in 0..(BIG - 1)
  /\ Pending \in Nat
  /\ \A i \in 1..Pending : Slot(i) \in 0..(BIG - 1)
  /\ ~overrun =>
       /\ Pending < BIG
       /\ \A i \in 1..Pending : Slot(i) # WriteCursor
       /\ Slot(Pending + 1) = WriteCursor
       /\ Pending = 0 <=> ReadCursor = WriteCursor

LEMMA MappedTypes == TypeOK /\ Exclusive /\ Cursors => Mapped
<1> SUFFICES ASSUME TypeOK, Exclusive, Cursors PROVE Mapped
  OBVIOUS
<1>1. WriteCursor \in 0..(BIG - 1) /\ ReadCursor \in 0..(BIG - 1)
  BY JournalAssumption DEF TypeOK, Exclusive, Cursors, WriteCursor, ReadCursor, Wrap
<1> QED BY <1>1, JournalAssumption DEF Mapped, Pending, Slot, TypeOK

(* While a thread is in the critical section no other is; the mapped       *)
(* cursors are then functions of that thread's pc.                         *)
LEMMA HolderFacts ==
  ASSUME TypeOK, Exclusive, Cursors, NEW t \in Thread, pc[t] \in Holding
  PROVE  /\ spinlock_lrj
         /\ \A u \in Thread \ {t} : pc[u] \notin Holding
         /\ pc[t] # "push_wrap" => WriteCursor = jwrite /\ jwrite < BIG
         /\ pc[t] = "push_wrap" => WriteCursor = jwrite - 1
         /\ pc[t] # "pull_wrap" => ReadCursor = jread /\ jread < BIG
BY JournalAssumption DEF TypeOK, Exclusive, Cursors, Holding, WriteCursor, ReadCursor, Wrap

LEMMA IsASeqOf ==
  ASSUME NEW n \in Nat, NEW S, NEW f \in [1..n -> S]
  PROVE  f \in Seq(S) /\ Len(f) = n
OBVIOUS

LEMMA InitJInv == Init => JInv /\ JQ!Init
<1> SUFFICES ASSUME Init PROVE JInv /\ JQ!Init
  OBVIOUS
<1>1. TypeOK /\ Exclusive /\ Cursors
  <2>1. TypeOK
    <3>1. ring \in [0..(BIG - 1) -> Addr \cup {Garbage}]
      BY DEF Init
    <3>2. jread \in 0..BIG /\ jwrite \in 0..BIG
      BY JournalAssumption DEF Init
    <3>3. pc \in [Thread -> {"idle"} \cup PushPC \cup PullPC]
      BY DEF Init
    <3>4. /\ addrref \in [Thread -> Addr \cup {JOURNAL_EMPTY}]
          /\ rval \in [Thread -> Addr \cup {JOURNAL_EMPTY}]
      BY DEF Init
    <3> QED BY <3>1, <3>2, <3>3, <3>4 DEF Init, TypeOK
  <2>2. \A t \in Thread : pc[t] = "idle"
    BY DEF Init
  <2>3. jread = 0 /\ jwrite = 0 /\ BIG > 0
    BY JournalAssumption DEF Init
  <2> QED BY <2>1, <2>2, <2>3 DEF Exclusive, Cursors, Holding, PushPC
<1>2. WriteCursor = 0 /\ ReadCursor = 0
  BY JournalAssumption DEF Init, WriteCursor, ReadCursor, Wrap
<1>3. Pending = 0
  BY <1>2 DEF Init, Pending
<1>4. Contents = <<>>
  <2>1. Contents \in [1..0 -> {}]
    BY <1>3 DEF Contents
  <2> QED BY <2>1, IsASeqOf
<1> QED BY <1>1, <1>3, <1>4 DEF JInv, Filled, Init, JQ!Init
-----------------------------------------------------------------------------
(* A pull takes what is first in the queue, which has been pushed.         *)
LEMMA ReadsPushed ==
  ASSUME JInv, NEW t \in Thread, PullRead(t)
  PROVE  /\ ReadCursor = jread /\ WriteCursor = jwrite /\ jread < BIG
         /\ Pending >= 1 /\ Slot(1) = jread
         /\ ring[jread] \in Addr
<1>1. ~overrun /\ pc[t] = "pull_read" /\ jwrite # jread
  BY DEF PullRead, Goto
<1>2. Mapped /\ Filled
  BY <1>1, MappedTypes DEF JInv
<1>3. ReadCursor = jread /\ WriteCursor = jwrite /\ jread < BIG
  <2>1. pc[t] \in Holding
    BY <1>1 DEF Holding
  <2> QED BY <1>1, <2>1, HolderFacts DEF JInv
<1>4. Pending >= 1
  BY <1>1, <1>2, <1>3 DEF Mapped
<1>5. Slot(1) = jread
  BY <1>3, JournalAssumption DEF Slot, JInv, TypeOK
<1>6. ring[Slot(1)] \in Addr
  BY <1>2, <1>4 DEF Filled, Mapped
<1> QED BY <1>3, <1>4, <1>5, <1>6

(* Every step keeps the types, the exclusion and the cursors.              *)
LEMMA BaseStep ==
  ASSUME JInv, NEW t \in Thread, Step(t)
  PROVE  TypeOK' /\ Exclusive' /\ Cursors'
<1> USE DEF Goto
<1>1. ~overrun /\ Filled /\ Mapped
  BY MappedTypes DEF JInv, Step, CallPush, PushLock, PushWrite, PushWrap, PushUnlock, CallPull,
     PullLock, PullRead, PullWrap, PullNothing, PullUnlock, Lock, Unlock
<1>2. TypeOK /\ Exclusive /\ Cursors
  BY DEF JInv
<1>3. CASE CallPush(t)
  BY <1>2, <1>3 DEF CallPush, TypeOK, Exclusive, Cursors, Holding, PushPC, PullPC
<1>4. CASE CallPull(t)
  BY <1>2, <1>4 DEF CallPull, TypeOK, Exclusive, Cursors, Holding, PushPC, PullPC
<1>5. CASE PushLock(t)
  BY <1>2, <1>5 DEF PushLock, Lock, TypeOK, Exclusive, Cursors, Holding, PushPC, PullPC
<1>6. CASE PullLock(t)
  BY <1>2, <1>6 DEF PullLock, Lock, TypeOK, Exclusive, Cursors, Holding, PushPC, PullPC
<1>7. CASE PushWrite(t)
  BY <1>2, <1>7, JournalAssumption
     DEF PushWrite, TypeOK, Exclusive, Cursors, Holding, PushPC, PullPC
<1>8. CASE PushWrap(t)
  BY <1>2, <1>8, JournalAssumption
     DEF PushWrap, TypeOK, Exclusive, Cursors, Holding, PushPC, PullPC
<1>9. CASE PushUnlock(t)
  BY <1>2, <1>9 DEF PushUnlock, Unlock, TypeOK, Exclusive, Cursors, Holding, PushPC, PullPC
<1>10. CASE PullRead(t)
  <2>1. ring[jread] \in Addr /\ jread < BIG
    BY <1>10, ReadsPushed DEF JInv
  <2>2. rval' \in [Thread -> Addr \cup {JOURNAL_EMPTY}] /\ jread' \in 0..BIG /\ jread' > 0
    BY <1>2, <1>10, <2>1, JournalAssumption DEF PullRead, TypeOK
  <2>3. \A u \in Thread : pc'[u] = (IF u = t THEN "pull_wrap" ELSE pc[u])
    BY <1>2, <1>10 DEF PullRead, TypeOK
  <2>4. pc' \in [Thread -> {"idle"} \cup PushPC \cup PullPC]
    BY <1>2, <1>10 DEF PullRead, TypeOK, PullPC
  <2>5. TypeOK'
    BY <1>2, <1>10, <2>2, <2>4 DEF PullRead, TypeOK
  <2>6. Exclusive' /\ Cursors'
    BY <1>2, <1>10, <2>2, <2>3 DEF PullRead, Exclusive, Cursors, Holding, PushPC, TypeOK
  <2> QED BY <2>5, <2>6
<1>11. CASE PullWrap(t)
  BY <1>2, <1>11, JournalAssumption
     DEF PullWrap, TypeOK, Exclusive, Cursors, Holding, PushPC, PullPC
<1>12. CASE PullNothing(t)
  BY <1>2, <1>12 DEF PullNothing, TypeOK, Exclusive, Cursors, Holding, PushPC, PullPC
<1>13. CASE PullUnlock(t)
  BY <1>2, <1>13 DEF PullUnlock, Unlock, TypeOK, Exclusive, Cursors, Holding, PushPC, PullPC
<1> QED
  BY <1>3, <1>4, <1>5, <1>6, <1>7, <1>8, <1>9, <1>10, <1>11, <1>12, <1>13 DEF Step
-----------------------------------------------------------------------------
(* A step that leaves the mapped cursors alone, and writes no slot but the *)
(* one that is written next, changes nothing that is pending.              *)
LEMMA Frame ==
  ASSUME Mapped, Filled, ~overrun, ~overrun',
         WriteCursor' = WriteCursor, ReadCursor' = ReadCursor,
         \A i \in 0..(BIG - 1) : i # WriteCursor => ring'[i] = ring[i]
  PROVE  Contents' = Contents /\ Filled'
<1>1. Pending' = Pending
  BY DEF Pending
<1>2. \A i \in 1..Pending : Slot(i)' = Slot(i)
  BY DEF Slot
<1>3. \A i \in 1..Pending : ring'[Slot(i)'] = ring[Slot(i)]
  BY <1>2 DEF Mapped
<1> QED BY <1>1, <1>3 DEF Contents, Filled

(* The steps that move no cursor.                                          *)
LEMMA CursorsRest ==
  ASSUME TypeOK, NEW t \in Thread, NEW to, pc' = [pc EXCEPT ![t] = to],
         pc[t] # "push_wrap", to # "push_wrap", UNCHANGED <<jread, jwrite>>
  PROVE  WriteCursor' = WriteCursor /\ ReadCursor' = ReadCursor
<1>1. ReadCursor' = ReadCursor
  BY DEF ReadCursor, Wrap
<1>2. \A u \in Thread : pc'[u] = "push_wrap" <=> pc[u] = "push_wrap"
  BY DEF TypeOK
<1> QED BY <1>1, <1>2 DEF WriteCursor

(* The steps that JournalQueue does not see.                               *)
LEMMA Stutters ==
  ASSUME JInv, NEW t \in Thread,
         \/ CallPush(t) \/ PushLock(t) \/ PushWrite(t) \/ PushUnlock(t)
         \/ CallPull(t) \/ PullLock(t) \/ PullWrap(t) \/ PullUnlock(t)
  PROVE  UNCHANGED JQ!vars /\ Filled'
<1> USE DEF Goto
<1>1. ~overrun /\ ~overrun' /\ rval' = rval /\ overrun' = overrun
  BY DEF CallPush, PushLock, PushWrite, PushUnlock, CallPull, PullLock, PullWrap, PullUnlock,
     Lock, Unlock
<1>2. TypeOK /\ Exclusive /\ Cursors /\ Filled /\ Mapped
  BY <1>1, MappedTypes DEF JInv
<1>3. CASE PushWrite(t)
  <2>1. pc[t] \in Holding /\ pc[t] = "push_write" /\ pc'[t] = "push_wrap"
    BY <1>2, <1>3 DEF PushWrite, Holding, TypeOK
  <2>2. WriteCursor = jwrite /\ jwrite < BIG
    BY <1>2, <2>1, HolderFacts
  <2>3. WriteCursor' = jwrite' - 1 /\ jwrite' = jwrite + 1 /\ jread' = jread
    BY <1>3, <2>1 DEF PushWrite, WriteCursor
  <2>4. WriteCursor' = WriteCursor /\ ReadCursor' = ReadCursor
    BY <1>2, <2>2, <2>3 DEF TypeOK, ReadCursor, Wrap
  <2>5. \A i \in 0..(BIG - 1) : i # WriteCursor => ring'[i] = ring[i]
    BY <1>2, <1>3, <2>2 DEF PushWrite, TypeOK
  <2>6. Contents' = Contents /\ Filled'
    BY <1>1, <1>2, <2>4, <2>5, Frame
  <2> QED BY <1>1, <2>6 DEF JQ!vars
<1>4. CASE PullWrap(t)
  <2>1. WriteCursor' = WriteCursor
    <3>1. \A u \in Thread : pc'[u] = "push_wrap" <=> pc[u] = "push_wrap"
      BY <1>2, <1>4 DEF PullWrap, TypeOK
    <3> QED BY <1>4, <3>1 DEF PullWrap, WriteCursor
  <2>2. ReadCursor' = ReadCursor
    <3>1. jread' = (IF jread = BIG THEN 0 ELSE jread)
      BY <1>2, <1>4, JournalAssumption DEF PullWrap, TypeOK
    <3> QED BY <1>2, <3>1, JournalAssumption DEF ReadCursor, Wrap, TypeOK
  <2>3. ring' = ring
    BY <1>4 DEF PullWrap
  <2>4. Contents' = Contents /\ Filled'
    BY <1>1, <1>2, <2>1, <2>2, <2>3, Frame
  <2> QED BY <1>1, <2>4 DEF JQ!vars
<1>5. CASE ~PushWrite(t) /\ ~PullWrap(t)
  <2>1. ring' = ring /\ UNCHANGED <<jread, jwrite>>
    BY <1>5 DEF CallPush, PushLock, PushUnlock, CallPull, PullLock, PullUnlock, Lock, Unlock
  <2>2. PICK to : pc' = [pc EXCEPT ![t] = to] /\ to # "push_wrap" /\ pc[t] # "push_wrap"
    BY <1>5 DEF CallPush, PushLock, PushUnlock, CallPull, PullLock, PullUnlock, Lock, Unlock
  <2>3. WriteCursor' = WriteCursor /\ ReadCursor' = ReadCursor
    BY <1>2, <2>1, <2>2, CursorsRest
  <2>4. Contents' = Contents /\ Filled'
    BY <1>1, <1>2, <2>1, <2>3, Frame
  <2> QED BY <1>1, <2>4 DEF JQ!vars
<1> QED BY <1>3, <1>4, <1>5

LEMMA ContentsSeq ==
  ASSUME Mapped, Filled
  PROVE  Contents \in Seq(Addr) /\ Len(Contents) = Pending
<1>1. Contents \in [1..Pending -> Addr]
  BY DEF Contents, Filled
<1> QED BY <1>1, IsASeqOf DEF Mapped

(* The pull of a reference takes the head of the queue.                    *)
LEMMA Pulls ==
  ASSUME JInv, Mapped', NEW t \in Thread, PullRead(t)
  PROVE  JQ!Pull(t) /\ Filled'
<1>1. /\ ReadCursor = jread /\ WriteCursor = jwrite /\ jread < BIG
      /\ Pending >= 1 /\ Slot(1) = jread
  BY ReadsPushed
<1>2. ~overrun /\ overrun' = overrun /\ ring' = ring
  BY DEF PullRead, Goto
<1>3. TypeOK /\ Mapped /\ Filled
  BY <1>2, MappedTypes DEF JInv
<1>4. WriteCursor' = WriteCursor
  <2>1. \A u \in Thread : pc'[u] = "push_wrap" <=> pc[u] = "push_wrap"
    BY <1>3 DEF PullRead, Goto, TypeOK
  <2> QED BY <2>1 DEF PullRead, WriteCursor
<1>5. ReadCursor' = (IF jread + 1 = BIG THEN 0 ELSE jread + 1)
  BY DEF PullRead, ReadCursor, Wrap
<1>6. Pending' = Pending - 1
  BY <1>1, <1>2, <1>3, <1>4, <1>5, JournalAssumption DEF Pending, Mapped
<1>7. \A i \in 1..(Pending - 1) : Slot(i)' = Slot(i + 1)
  BY <1>1, <1>3, <1>5, <1>6, JournalAssumption DEF Slot, Mapped, TypeOK
<1>8. Contents \in Seq(Addr) /\ Len(Contents) = Pending /\ Contents # <<>>
  BY <1>1, <1>3, ContentsSeq
<1>9. Head(Contents) = ring[jread]
  BY <1>1, <1>3, <1>8 DEF Contents, Mapped
<1>10. \A i \in 1..(Pending - 1) : ring'[Slot(i)'] = ring[Slot(i + 1)]
  BY <1>2, <1>7
<1>11. Contents' = Tail(Contents)
  <2>1. Contents' = [i \in 1..(Pending - 1) |-> ring[Slot(i + 1)]]
    BY <1>6, <1>10 DEF Contents
  <2>2. \A i \in 1..(Pending - 1) : i + 1 \in 1..Pending
    BY <1>3 DEF Mapped
  <2>3. /\ Tail(Contents) \in Seq(Addr)
        /\ Len(Tail(Contents)) = Pending - 1
        /\ \A i \in 1..(Pending - 1) : Tail(Contents)[i] = Contents[i + 1]
    BY <1>8, HeadTailProperties
  <2>4. \A i \in 1..(Pending - 1) : Contents[i + 1] = ring[Slot(i + 1)] /\ ring[Slot(i + 1)] \in Addr
    BY <1>3, <2>2 DEF Contents, Filled
  <2>5. Contents' \in Seq(Addr) /\ Len(Contents') = Pending - 1
    <3>1. Contents' \in [1..(Pending - 1) -> Addr] /\ Pending - 1 \in Nat
      BY <1>1, <1>3, <2>1, <2>4 DEF Mapped
    <3> QED BY <3>1, IsASeqOf
  <2>6. \A i \in 1..(Pending - 1) : Contents'[i] = Tail(Contents)[i]
    BY <2>1, <2>3, <2>4
  <2> QED BY <2>3, <2>5, <2>6, SeqEqual
<1>12. Filled'
  <2>1. \A i \in 1..(Pending - 1) : i + 1 \in 1..Pending
    BY <1>3 DEF Mapped
  <2> QED BY <1>3, <1>6, <1>10, <2>1 DEF Filled
<1>13. rval' = [rval EXCEPT ![t] = Head(Contents)]
  BY <1>9 DEF PullRead
<1> QED BY <1>2, <1>8, <1>11, <1>12, <1>13 DEF JQ!Pull

(* The pull that finds the cursors equal is that from the empty queue.     *)
LEMMA PullsNothing ==
  ASSUME JInv, NEW t \in Thread, PullNothing(t)
  PROVE  JQ!Pull(t) /\ Filled'
<1>1. ~overrun /\ ~overrun' /\ overrun' = overrun /\ ring' = ring
  BY DEF PullNothing, Goto
<1>2. TypeOK /\ Exclusive /\ Cursors /\ Mapped /\ Filled
  BY <1>1, MappedTypes DEF JInv
<1>3. ReadCursor = WriteCursor
  <2>1. pc[t] = "pull_read" /\ pc[t] \in Holding
    BY DEF PullNothing, Goto, Holding
  <2> QED BY <1>2, <2>1, HolderFacts DEF PullNothing
<1>4. Contents = <<>>
  <2>1. Len(Contents) = 0 /\ Contents \in Seq(Addr)
    BY <1>1, <1>2, <1>3, ContentsSeq DEF Mapped
  <2> QED BY <2>1
<1>5. WriteCursor' = WriteCursor /\ ReadCursor' = ReadCursor
  <2>1. pc' = [pc EXCEPT ![t] = "pull_unlock"] /\ pc[t] = "pull_read"
    BY DEF PullNothing, Goto
  <2> QED BY <1>2, <2>1, CursorsRest DEF PullNothing
<1>6. Contents' = Contents /\ Filled'
  BY <1>1, <1>2, <1>5, Frame
<1> QED BY <1>1, <1>4, <1>6 DEF PullNothing, JQ!Pull

(* The push counts from its assertion, which fails as the queue's does.    *)
LEMMA Pushes ==
  ASSUME JInv, Mapped', NEW t \in Thread, PushWrap(t)
  PROVE  (\E a \in Addr : JQ!Push(a)) /\ (overrun' \/ Filled')
<1>1. ~overrun /\ ring' = ring /\ jread' = jread /\ pc[t] = "push_wrap" /\ rval' = rval
  BY DEF PushWrap, Goto
<1>2. TypeOK /\ Exclusive /\ Cursors /\ Mapped /\ Filled
  BY <1>1, MappedTypes DEF JInv
<1>3. /\ WriteCursor = jwrite - 1 /\ ReadCursor = jread /\ jread < BIG
      /\ \A u \in Thread \ {t} : pc[u] \notin Holding
  BY <1>1, <1>2, HolderFacts DEF Holding
<1>4. ring[WriteCursor] = addrref[t] /\ addrref[t] \in Addr
  BY <1>1, <1>2, <1>3 DEF Cursors, PushPC
<1>5. WriteCursor' = (IF WriteCursor + 1 = BIG THEN 0 ELSE WriteCursor + 1)
  <2>1. \A u \in Thread : pc'[u] # "push_wrap"
    BY <1>2, <1>3 DEF PushWrap, Goto, TypeOK, Holding
  <2>2. WriteCursor' = jwrite'
    BY <2>1 DEF WriteCursor
  <2>3. jwrite > 0 /\ jwrite \in 0..BIG
    BY <1>1, <1>2 DEF Cursors, TypeOK
  <2>4. jwrite' = (IF jwrite = BIG THEN 0 ELSE jwrite)
    BY <2>3, JournalAssumption DEF PushWrap
  <2> QED BY <1>3, <2>2, <2>3, <2>4, JournalAssumption
<1>6. ReadCursor' = ReadCursor
  BY <1>1 DEF ReadCursor, Wrap
<1>7. overrun' = (WriteCursor' = ReadCursor')
  <2>1. \A u \in Thread : pc'[u] # "push_wrap"
    BY <1>2, <1>3 DEF PushWrap, Goto, TypeOK, Holding
  <2>2. WriteCursor' = jwrite' /\ ReadCursor' = jread
    BY <1>3, <1>6, <2>1 DEF WriteCursor
  <2>3. overrun' = (jwrite' = jread)
    BY DEF PushWrap
  <2> QED BY <2>2, <2>3
<1>8. Pending' = Pending + 1 /\ overrun' = (Pending + 1 = BIG)
  <2>1. WriteCursor' = ReadCursor' <=> Pending + 1 = BIG
    BY <1>1, <1>2, <1>5, <1>6, JournalAssumption DEF Pending, Mapped
  <2>2. overrun' = (Pending + 1 = BIG)
    BY <1>7, <2>1, Zenon
  <2>3. ASSUME overrun' PROVE Pending' = Pending + 1
    BY <2>2, <2>3 DEF Pending
  <2>4. ASSUME ~overrun' PROVE Pending' = Pending + 1
    <3>1. WriteCursor' # ReadCursor'
      BY <1>7, <2>4, Zenon
    <3> QED BY <1>1, <1>2, <1>5, <1>6, <2>4, <3>1, JournalAssumption DEF Pending, Mapped
  <2> QED BY <2>2, <2>3, <2>4
<1>9. \A i \in 1..(Pending + 1) : ring'[Slot(i)'] = ring[Slot(i)]
  BY <1>1, <1>6 DEF Slot
<1>10. Slot(Pending + 1) = WriteCursor
  BY <1>1, <1>2 DEF Mapped
<1>11. Contents \in Seq(Addr) /\ Len(Contents) = Pending
  BY <1>2, ContentsSeq
<1>12. Contents' = Append(Contents, addrref[t])
  <2>1. Contents' = [i \in 1..(Pending + 1) |-> ring[Slot(i)]]
    BY <1>8, <1>9 DEF Contents
  <2>2. Append(Contents, addrref[t])
          = [i \in 1..(Pending + 1) |-> IF i = Pending + 1 THEN addrref[t] ELSE Contents[i]]
    BY <1>2, <1>4, <1>11 DEF Mapped
  <2>3. \A i \in 1..(Pending + 1) :
          ring[Slot(i)] = (IF i = Pending + 1 THEN addrref[t] ELSE Contents[i])
    BY <1>2, <1>4, <1>10 DEF Contents, Mapped
  <2> QED BY <2>1, <2>2, <2>3
<1>13. Filled'
  <2>1. \A i \in 1..(Pending + 1) : i \in 1..Pending \/ i = Pending + 1
    BY <1>2 DEF Mapped
  <2> QED BY <1>2, <1>4, <1>8, <1>9, <1>10, <2>1 DEF Filled
<1> QED BY <1>1, <1>4, <1>8, <1>11, <1>12, <1>13 DEF JQ!Push
-----------------------------------------------------------------------------
LEMMA StepJInv ==
  ASSUME JInv, [Next]_vars
  PROVE  JInv' /\ [JQ!Next]_JQ!vars
<1>1. CASE UNCHANGED vars
  <2>1. UNCHANGED <<WriteCursor, ReadCursor, Pending, Contents>>
    BY <1>1 DEF vars, WriteCursor, ReadCursor, Wrap, Pending, Contents, Slot
  <2>2. TypeOK' /\ Exclusive' /\ Cursors'
    BY <1>1 DEF vars, JInv, TypeOK, Exclusive, Cursors
  <2>3. overrun' \/ Filled'
    BY <1>1, <2>1 DEF vars, JInv, Filled, Slot
  <2> QED BY <1>1, <2>1, <2>2, <2>3 DEF JInv, vars, JQ!vars
<1>2. ASSUME NEW t \in Thread, Step(t) PROVE JInv' /\ [JQ!Next]_JQ!vars
  <2>1. TypeOK' /\ Exclusive' /\ Cursors'
    BY <1>2, BaseStep
  <2>2. Mapped'
    BY <2>1, MappedTypes, PTL
  <2>3. CASE PullRead(t)
    BY <2>1, <2>2, <2>3, Pulls DEF JInv, JQ!Next
  <2>4. CASE PullNothing(t)
    BY <2>1, <2>4, PullsNothing DEF JInv, JQ!Next
  <2>5. CASE PushWrap(t)
    BY <2>1, <2>2, <2>5, Pushes DEF JInv, JQ!Next
  <2>6. CASE ~PullRead(t) /\ ~PullNothing(t) /\ ~PushWrap(t)
    <3>1. UNCHANGED JQ!vars /\ Filled'
      BY <1>2, <2>6, Stutters DEF Step
    <3> QED BY <2>1, <3>1 DEF JInv
  <2> QED BY <2>3, <2>4, <2>5, <2>6
<1> QED BY <1>1, <1>2 DEF Next, Aborted

(* Every variable keeps its type: the cursors stay in the ring but for the *)
(* moment between an increment and its wrap, and what is pulled is a       *)
(* reference that was pushed, never what malloc() left in a slot.          *)
THEOREM TypeCorrect == Spec => []TypeOK
<1>1. JInv => TypeOK
  BY DEF JInv
<1> QED BY <1>1, InitJInv, StepJInv, PTL DEF Spec

(* locribj_push() and locribj_pull() under their lock are the operations   *)
(* of a FIFO queue, whatever threads call them, however large the ring.    *)
THEOREM Implements == Spec => ImplementsQueue
BY InitJInv, StepJInv, PTL DEF Spec, ImplementsQueue, JQ!Spec
=============================================================================
