---------------------------- MODULE LocribJournal ---------------------------
(***************************************************************************)
(* locribjournal.c: the ring _LRJOURNAL with its cursors jread and jwrite, *)
(* used by any number of threads under the spin lock spinlock_lrj.  Every  *)
(* statement that touches shared memory is a step of its own, so the lock  *)
(* is what makes an operation indivisible, not the model.                  *)
(***************************************************************************)
EXTENDS Naturals, Sequences

CONSTANTS Thread, Addr, BIG, JOURNAL_EMPTY,
          Garbage  \* what malloc() leaves in a slot never written

ASSUME JournalAssumption ==
  /\ BIG \in Nat \ {0}
  /\ JOURNAL_EMPTY \notin Addr
  /\ Garbage \notin Addr \cup {JOURNAL_EMPTY}

VARIABLES
  ring,            \* _LRJOURNAL
  jread, jwrite,   \* the cursors
  spinlock_lrj,    \* TRUE while some thread holds the lock
  pc,              \* where each thread is in push or pull
  addrref,         \* the argument of each thread's push
  rval,            \* the result of each thread's pull
  overrun          \* assert(jwrite != jread) has failed: the program is dead

vars == <<ring, jread, jwrite, spinlock_lrj, pc, addrref, rval, overrun>>

PushPC == {"push_lock", "push_write", "push_wrap", "push_unlock"}
PullPC == {"pull_lock", "pull_read", "pull_wrap", "pull_unlock"}

Init ==
  /\ ring = [i \in 0..(BIG - 1) |-> Garbage]
  /\ jread = 0 /\ jwrite = 0
  /\ spinlock_lrj = FALSE
  /\ pc = [t \in Thread |-> "idle"]
  /\ addrref = [t \in Thread |-> JOURNAL_EMPTY]
  /\ rval = [t \in Thread |-> JOURNAL_EMPTY]
  /\ overrun = FALSE

Goto(t, from, to) ==
  /\ ~overrun
  /\ pc[t] = from
  /\ pc' = [pc EXCEPT ![t] = to]

CallPush(t) ==
  /\ Goto(t, "idle", "push_lock")
  /\ \E a \in Addr : addrref' = [addrref EXCEPT ![t] = a]
  /\ UNCHANGED <<ring, jread, jwrite, spinlock_lrj, rval, overrun>>

CallPull(t) ==
  /\ Goto(t, "idle", "pull_lock")
  /\ UNCHANGED <<ring, jread, jwrite, spinlock_lrj, addrref, rval, overrun>>

(* A plausible slip, kept for the checks: the lock taken without waiting.  *)
LockIgnoresHolder(t, from, to) ==
  /\ Goto(t, from, to)
  /\ spinlock_lrj' = TRUE
  /\ UNCHANGED <<ring, jread, jwrite, addrref, rval, overrun>>

Lock(t, from, to) ==
  /\ Goto(t, from, to)
  /\ ~spinlock_lrj
  /\ spinlock_lrj' = TRUE
  /\ UNCHANGED <<ring, jread, jwrite, addrref, rval, overrun>>

(* The operation returns: its argument goes out of scope.                  *)
Unlock(t, from) ==
  /\ Goto(t, from, "idle")
  /\ spinlock_lrj' = FALSE
  /\ addrref' = [addrref EXCEPT ![t] = JOURNAL_EMPTY]
  /\ UNCHANGED <<ring, jread, jwrite, rval, overrun>>

PushLock(t) == Lock(t, "push_lock", "push_write")

(* _LRJOURNAL[jwrite++] = addrref *)
PushWrite(t) ==
  /\ Goto(t, "push_write", "push_wrap")
  /\ ring' = [ring EXCEPT ![jwrite] = addrref[t]]
  /\ jwrite' = jwrite + 1
  /\ UNCHANGED <<jread, spinlock_lrj, addrref, rval, overrun>>

(* A plausible slip: the ring taken to be one slot longer than it is.      *)
PushWrapLate(t) ==
  /\ Goto(t, "push_wrap", "push_unlock")
  /\ jwrite' = jwrite % (BIG + 1)
  /\ overrun' = (jwrite' = jread)
  /\ UNCHANGED <<ring, jread, spinlock_lrj, addrref, rval>>

(* jwrite = jwrite % BIG; assert(jwrite != jread) *)
PushWrap(t) ==
  /\ Goto(t, "push_wrap", "push_unlock")
  /\ jwrite' = jwrite % BIG
  /\ overrun' = (jwrite' = jread)
  /\ UNCHANGED <<ring, jread, spinlock_lrj, addrref, rval>>

PushUnlock(t) == Unlock(t, "push_unlock")

PullLock(t) == Lock(t, "pull_lock", "pull_read")

(* if (jwrite != jread) rval = _LRJOURNAL[jread++] *)
PullRead(t) ==
  /\ jwrite # jread
  /\ Goto(t, "pull_read", "pull_wrap")
  /\ rval' = [rval EXCEPT ![t] = ring[jread]]
  /\ jread' = jread + 1
  /\ UNCHANGED <<ring, jwrite, spinlock_lrj, addrref, overrun>>

(* jread = jread % BIG *)
PullWrap(t) ==
  /\ Goto(t, "pull_wrap", "pull_unlock")
  /\ jread' = jread % BIG
  /\ UNCHANGED <<ring, jwrite, spinlock_lrj, addrref, rval, overrun>>

(* else rval = JOURNAL_EMPTY *)
PullNothing(t) ==
  /\ jwrite = jread
  /\ Goto(t, "pull_read", "pull_unlock")
  /\ rval' = [rval EXCEPT ![t] = JOURNAL_EMPTY]
  /\ UNCHANGED <<ring, jread, jwrite, spinlock_lrj, addrref, overrun>>

PullUnlock(t) == Unlock(t, "pull_unlock")

Step(t) ==
  \/ CallPush(t) \/ PushLock(t) \/ PushWrite(t) \/ PushWrap(t) \/ PushUnlock(t)
  \/ CallPull(t) \/ PullLock(t) \/ PullRead(t) \/ PullWrap(t)
  \/ PullNothing(t) \/ PullUnlock(t)

(* The program is gone after a failed assertion: the only legal stop.      *)
Aborted == overrun /\ UNCHANGED vars

Next == (\E t \in Thread : Step(t)) \/ Aborted

Spec == Init /\ [][Next]_vars
-----------------------------------------------------------------------------
(* Every variable keeps its type; in particular a cursor leaves 0..BIG-1   *)
(* only between an increment and the wrap that follows it.                 *)
TypeOK ==
  /\ ring \in [0..(BIG - 1) -> Addr \cup {Garbage}]
  /\ jread \in 0..BIG /\ jwrite \in 0..BIG
  /\ spinlock_lrj \in BOOLEAN
  /\ pc \in [Thread -> {"idle"} \cup PushPC \cup PullPC]
  /\ addrref \in [Thread -> Addr \cup {JOURNAL_EMPTY}]
  /\ rval \in [Thread -> Addr \cup {JOURNAL_EMPTY}]
  /\ overrun \in BOOLEAN

(***************************************************************************)
(* The refinement mapping.  A push counts from its assertion on, a pull    *)
(* from its read: a write cursor that is incremented but not yet wrapped   *)
(* is read as it was, a read cursor in that state as it is about to be.    *)
(***************************************************************************)
Wrap(i) == IF i = BIG THEN 0 ELSE i

WriteCursor == IF \E t \in Thread : pc[t] = "push_wrap" THEN jwrite - 1 ELSE jwrite
ReadCursor  == Wrap(jread)

Pending ==
  IF overrun THEN BIG
  ELSE IF ReadCursor <= WriteCursor THEN WriteCursor - ReadCursor
  ELSE WriteCursor + BIG - ReadCursor

Slot(i) == IF ReadCursor + i - 1 < BIG THEN ReadCursor + i - 1
                                       ELSE ReadCursor + i - 1 - BIG

Contents == [i \in 1..Pending |-> ring[Slot(i)]]

JQ == INSTANCE JournalQueue WITH queue <- Contents

(* The ring under its lock is the FIFO queue of JournalQueue: a reference  *)
(* pushed is pulled once, in order, nothing else is ever pulled, and the   *)
(* assertion of locribj_push fails exactly when BIG entries are pending.   *)
ImplementsQueue == JQ!Spec
=============================================================================
