---------------------------- MODULE JournalQueue ----------------------------
(***************************************************************************)
(* What locribjournal.c promises its callers: a FIFO queue of address      *)
(* references, in which a push and a pull are each one indivisible step.   *)
(* rval[t] is what thread t's last locribj_pull() returned.  The queue has *)
(* no room for BIG entries: the push that would bring it there runs into   *)
(* the assertion of locribj_push(), which ends the program, so nothing     *)
(* follows an overrun.                                                     *)
(***************************************************************************)
EXTENDS Naturals, Sequences

CONSTANTS
  Thread,         \* the threads that call the journal
  Addr,           \* the address references (addrref)
  BIG,            \* the number of slots of _LRJOURNAL
  JOURNAL_EMPTY   \* what a pull of an empty journal returns

VARIABLES
  queue,          \* the references pushed and not yet pulled, oldest first
  rval,           \* the result of each thread's last pull
  overrun         \* the assertion of locribj_push() has failed

vars == <<queue, rval, overrun>>

Init ==
  /\ queue = <<>>
  /\ rval = [t \in Thread |-> JOURNAL_EMPTY]
  /\ overrun = FALSE

Push(a) ==
  /\ ~overrun
  /\ queue' = Append(queue, a)
  /\ overrun' = (Len(queue) + 1 = BIG)
  /\ UNCHANGED rval

Pull(t) ==
  /\ ~overrun
  /\ \/ /\ queue # <<>>
        /\ rval' = [rval EXCEPT ![t] = Head(queue)]
        /\ queue' = Tail(queue)
     \/ /\ queue = <<>>
        /\ rval' = [rval EXCEPT ![t] = JOURNAL_EMPTY]
        /\ UNCHANGED queue
  /\ UNCHANGED overrun

Next ==
  \/ \E a \in Addr : Push(a)
  \/ \E t \in Thread : Pull(t)

Spec == Init /\ [][Next]_vars
=============================================================================
