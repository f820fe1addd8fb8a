------------------------------- MODULE Phase3 -------------------------------
(***************************************************************************)
(* The pipeline from a parsed prefix to the peer groups: the peer threads  *)
(* of buf_parse(), their calls of locrib(), the journal, and               *)
(* schedule_phase3(), which any of them may find itself running.           *)
(*                                                                         *)
(* What the parser decides is left open here: a thread may build a route   *)
(* in any of its own buffers, announce the last one built for any address, *)
(* or withdraw what it has announced, todo[p] times in any order.          *)
(***************************************************************************)
EXTENDS Locrib, Sequences, Functions

CONSTANTS
  BIG,            \* slots of the journal
  JOURNAL_EMPTY,  \* what locribj_pull() returns when there is nothing
  EMPTY,          \* the EMPTY / NULL-1 pointer of schedule_phase3()
  TableSize,      \* the length of addrreftable (4096)
  StreamLen,      \* bound: routes and prefixes in one peer's input
  MULTITHREAD     \* whether the program is compiled with -DMULTITHREAD

Main == 0
Thread == Peer \cup {Main}

ASSUME Phase3Assumption ==
  /\ BIG \in Nat \ {0}
  /\ JOURNAL_EMPTY \notin Addr
  /\ EMPTY \notin Route \cup {NULL}
  /\ TableSize \in Nat \ {0}
  /\ StreamLen \in Nat
  /\ MULTITHREAD \in BOOLEAN

VARIABLES
  journal, overrun,   \* the journal; its overrun assertion has failed
  addrref,            \* schedule_phase3(): the last reference pulled
  addrreftable,       \* schedule_phase3(): the references of this block
  route1, route2,     \* schedule_phase3(): the block's route, the next one
  overflow,           \* assert(table_index<4096) has failed
  phase3_spinlock,    \* held by the thread that is running phase 3
  pc,                 \* where each thread is
  call,               \* the arguments of each peer's call of locrib()
  adj_rib_in,         \* each peer's routes, by address
  route,              \* parse_update(): the route each peer built last
  todo,               \* what is left of each peer's input
  sent                \* the route last written to the peer groups, by address

locribVars == <<tiebreak, head, push_flag>>
journalVars == <<journal, addrref, overrun>>
blockVars == <<addrreftable, route1, route2, overflow>>
parserVars == <<call, adj_rib_in, route, todo>>
vars == <<locribVars, journalVars, blockVars,
          phase3_spinlock, pc, parserVars, sent>>

JQ == INSTANCE JournalQueue WITH queue <- journal, rval <- addrref

Call == [addr : Addr, new : Route \cup {NULL}, update : BOOLEAN, eob : BOOLEAN]
NoCall == [addr |-> NULL, new |-> NULL, update |-> FALSE, eob |-> FALSE]

(* The pcs between a successful pthread_spin_trylock() and the unlock.     *)
InPhase3 == {"prime", "prime_read", "collect", "read", "emit", "unlock"}
PC == {"new", "idle", "locrib", "push", "schedule", "join", "done"} \cup InPhase3

Init ==
  /\ LocribInit
  /\ JQ!Init
  /\ addrreftable = [t \in Thread |-> <<>>]
  /\ route1 = [t \in Thread |-> EMPTY]
  /\ route2 = [t \in Thread |-> EMPTY]
  /\ overflow = FALSE
  /\ phase3_spinlock = FALSE
  /\ pc = [t \in Thread |-> IF t = Main THEN "join" ELSE "new"]
  /\ call = [p \in Peer |-> NoCall]
  /\ adj_rib_in = [p \in Peer |-> [a \in Addr |-> NULL]]
  /\ route = [p \in Peer |-> NULL]
  /\ todo \in [Peer -> 0..StreamLen]
  /\ sent = [a \in Addr |-> NULL]

(* A failed assertion ends the program.                                    *)
Alive == ~overrun /\ ~overflow

At(t, here) == Alive /\ pc[t] = here
Goto(t, to) == pc' = [pc EXCEPT ![t] = to]

(* Where a thread goes on after schedule_phase3() returns.                 *)
Return(t) == IF t = Main THEN "done" ELSE "idle"
-----------------------------------------------------------------------------
(* buf_parse() creates the peer threads in order; compiled without         *)
(* MULTITHREAD it joins each before it creates the next.                   *)
Start(p) ==
  /\ At(p, "new")
  /\ \A q \in 1..(p - 1) : pc[q] \in (IF MULTITHREAD THEN PC \ {"new"} ELSE {"done"})
  /\ Goto(p, "idle")
  /\ UNCHANGED <<locribVars, journalVars, blockVars, phase3_spinlock, parserVars, sent>>

(* parse_update(): memset(), phase1() and parse_attributes() build the     *)
(* message's route in a buffer of the peer.                                *)
BuildRoute(p, k, v) ==
  /\ At(p, "idle") /\ todo[p] > 0
  /\ todo' = [todo EXCEPT ![p] = @ - 1]
  /\ tiebreak' = [tiebreak EXCEPT ![<<p, k>>] = v]
  /\ route' = [route EXCEPT ![p] = <<p, k>>]
  /\ UNCHANGED <<head, push_flag, journalVars, blockVars, phase3_spinlock, pc, call,
                 adj_rib_in, sent>>

(* update_adj_rib_in() for one prefix: the message's route replaces what   *)
(* the peer announced for the address, or with no route it is withdrawn.   *)
ParsePrefix(p, a, update, eob) ==
  /\ At(p, "idle") /\ todo[p] > 0
  /\ (IF update THEN route[p] ELSE adj_rib_in[p][a]) # NULL
  /\ todo' = [todo EXCEPT ![p] = @ - 1]
  /\ LET new == IF update THEN route[p] ELSE NULL
     IN  /\ adj_rib_in' = [adj_rib_in EXCEPT ![p][a] = new]
         /\ call' = [call EXCEPT ![p] =
                        [addr |-> a, new |-> new, update |-> update, eob |-> eob]]
  /\ Goto(p, "locrib")
  /\ UNCHANGED <<locribVars, journalVars, blockVars, phase3_spinlock, route, sent>>

(* A message without routes, a prefix that is too long, or a withdrawal of *)
(* what the peer has not announced: locrib() is not called.                *)
Skip(p) ==
  /\ At(p, "idle") /\ todo[p] > 0
  /\ todo' = [todo EXCEPT ![p] = @ - 1]
  /\ UNCHANGED <<locribVars, journalVars, blockVars, phase3_spinlock, pc, call,
                 adj_rib_in, route, sent>>

(* The peer's input is used up: the thread returns.                        *)
Finish(p) ==
  /\ At(p, "idle")
  /\ todo[p] = 0
  /\ Goto(p, "done")
  /\ UNCHANGED <<locribVars, journalVars, blockVars, phase3_spinlock, parserVars, sent>>
-----------------------------------------------------------------------------
(* locrib(): only the thread that finds the flag clear goes on to push.    *)
LocribStep(p) ==
  /\ At(p, "locrib")
  /\ \E pushed \in BOOLEAN :
       /\ Decide(call[p].addr, call[p].new, call[p].update, pushed)
       /\ Goto(p, IF pushed THEN "idle" ELSE "push")
       /\ call' = IF pushed THEN [call EXCEPT ![p] = NoCall] ELSE call
  /\ UNCHANGED <<tiebreak, journalVars, blockVars, phase3_spinlock, adj_rib_in, route, todo, sent>>

(* A plausible slip: only the last prefix of a message is journalled.      *)
JournalPushLastOnly(p) ==
  /\ At(p, "push")
  /\ Goto(p, IF call[p].eob THEN "schedule" ELSE "idle")
  /\ IF call[p].eob THEN JQ!Push(call[p].addr) ELSE UNCHANGED journalVars
  /\ call' = [call EXCEPT ![p] = NoCall]
  /\ UNCHANGED <<locribVars, blockVars, phase3_spinlock, adj_rib_in, route, todo, sent>>

(* locribj_push(), then schedule_phase3() at the end of a block.           *)
JournalPush(p) ==
  /\ At(p, "push")
  /\ Goto(p, IF call[p].eob THEN "schedule" ELSE "idle")
  /\ JQ!Push(call[p].addr)
  /\ call' = [call EXCEPT ![p] = NoCall]
  /\ UNCHANGED <<locribVars, blockVars, phase3_spinlock, adj_rib_in, route, todo, sent>>
-----------------------------------------------------------------------------
(* A plausible slip: the main thread takes the peers to be done when they  *)
(* have no input left, and does not wait for them to return.               *)
JoinEarly ==
  /\ At(Main, "join")
  /\ \A p \in Peer : todo[p] = 0
  /\ Goto(Main, "schedule")
  /\ UNCHANGED <<locribVars, journalVars, blockVars, phase3_spinlock, parserVars, sent>>

(* buf_parse() has joined every peer and calls schedule_phase3(1).         *)
JoinAll ==
  /\ At(Main, "join")
  /\ \A p \in Peer : pc[p] = "done"
  /\ Goto(Main, "schedule")
  /\ UNCHANGED <<locribVars, journalVars, blockVars, phase3_spinlock, parserVars, sent>>

(* A plausible slip: the lock is taken whether it is held or not.          *)
LockAlways(t) ==
  /\ At(t, "schedule")
  /\ Goto(t, "prime")
  /\ phase3_spinlock' = TRUE
  /\ UNCHANGED <<locribVars, journalVars, blockVars, parserVars, sent>>

(* pthread_spin_trylock() succeeds.                                        *)
TryLock(t) ==
  /\ At(t, "schedule")
  /\ ~phase3_spinlock
  /\ Goto(t, "prime")
  /\ phase3_spinlock' = TRUE
  /\ UNCHANGED <<locribVars, journalVars, blockVars, parserVars, sent>>

(* EBUSY: another thread is at it, this one returns.                       *)
Busy(t) ==
  /\ At(t, "schedule")
  /\ phase3_spinlock
  /\ Goto(t, Return(t))
  /\ UNCHANGED <<locribVars, journalVars, blockVars, phase3_spinlock, parserVars, sent>>

(* The first pull, before the first block.                                 *)
Prime(t) ==
  /\ At(t, "prime")
  /\ JQ!Pull(t)
  /\ Goto(t, IF addrref'[t] = JOURNAL_EMPTY THEN "unlock" ELSE "prime_read")
  /\ UNCHANGED <<locribVars, blockVars, phase3_spinlock, parserVars, sent>>

PrimeRead(t) ==
  /\ At(t, "prime_read")
  /\ Goto(t, "collect")
  /\ ClearFlag(addrref[t])
  /\ route1' = [route1 EXCEPT ![t] = head[addrref[t]]]
  /\ route2' = [route2 EXCEPT ![t] = head[addrref[t]]]
  /\ addrreftable' = [addrreftable EXCEPT ![t] = <<>>]
  /\ UNCHANGED <<tiebreak, journalVars, overflow, phase3_spinlock, parserVars, sent>>

(* One turn of the inner loop: store the reference, pull the next one.     *)
Collect(t) ==
  /\ At(t, "collect")
  /\ Len(addrreftable[t]) < TableSize
  /\ addrreftable' = [addrreftable EXCEPT ![t] = Append(@, addrref[t])]
  /\ JQ!Pull(t)
  /\ route2' = IF addrref'[t] = JOURNAL_EMPTY THEN [route2 EXCEPT ![t] = EMPTY] ELSE route2
  /\ Goto(t, IF addrref'[t] = JOURNAL_EMPTY THEN "emit" ELSE "read")
  /\ UNCHANGED <<locribVars, route1, overflow, phase3_spinlock, parserVars, sent>>

(* assert(table_index<4096) fails.                                         *)
TableFull(t) ==
  /\ At(t, "collect")
  /\ Len(addrreftable[t]) >= TableSize
  /\ overflow' = TRUE
  /\ UNCHANGED <<locribVars, journalVars, addrreftable, route1, route2,
                 phase3_spinlock, pc, parserVars, sent>>

(* A plausible slip: the flag is left set, as if the address had not been  *)
(* taken off the journal.                                                  *)
ReadKeepsFlag(t) ==
  /\ At(t, "read")
  /\ route2' = [route2 EXCEPT ![t] = head[addrref[t]]]
  /\ Goto(t, IF route2'[t] = route1[t] THEN "collect" ELSE "emit")
  /\ UNCHANGED <<locribVars, journalVars, addrreftable, route1, overflow,
                 phase3_spinlock, parserVars, sent>>

(* The same route extends the block, another one ends it.                  *)
Read(t) ==
  /\ At(t, "read")
  /\ ClearFlag(addrref[t])
  /\ route2' = [route2 EXCEPT ![t] = head[addrref[t]]]
  /\ Goto(t, IF route2'[t] = route1[t] THEN "collect" ELSE "emit")
  /\ UNCHANGED <<tiebreak, journalVars, addrreftable, route1, overflow,
                 phase3_spinlock, parserVars, sent>>

(* One UPDATE per peer group announces route1, or withdraws if it is NULL, *)
(* for every prefix of the block.                                          *)
Announce(t) ==
  sent' = [a \in Addr |-> IF a \in Range(addrreftable[t]) THEN route1[t] ELSE sent[a]]

(* A plausible slip: the block's last prefix left out of the UPDATE.       *)
EmitDropsLast(t) ==
  /\ At(t, "emit")
  /\ sent' = [a \in Addr |-> IF \E i \in 1..(Len(addrreftable[t]) - 1) : addrreftable[t][i] = a
                             THEN route1[t] ELSE sent[a]]
  /\ addrreftable' = [addrreftable EXCEPT ![t] = <<>>]
  /\ route1' = [route1 EXCEPT ![t] = route2[t]]
  /\ Goto(t, IF addrref[t] = JOURNAL_EMPTY THEN "unlock" ELSE "collect")
  /\ UNCHANGED <<locribVars, journalVars, route2, overflow, phase3_spinlock, parserVars>>

(* A plausible slip: the outer loop does not stop at the empty journal.    *)
EmitNoEnd(t) ==
  /\ At(t, "emit")
  /\ Announce(t)
  /\ addrreftable' = [addrreftable EXCEPT ![t] = <<>>]
  /\ route1' = [route1 EXCEPT ![t] = route2[t]]
  /\ Goto(t, "collect")
  /\ UNCHANGED <<locribVars, journalVars, route2, overflow, phase3_spinlock, parserVars>>

(* The block is written, and the outer loop goes on with the route that    *)
(* ended it until the journal is empty.                                    *)
Emit(t) ==
  /\ At(t, "emit")
  /\ Announce(t)
  /\ addrreftable' = [addrreftable EXCEPT ![t] = <<>>]
  /\ route1' = [route1 EXCEPT ![t] = route2[t]]
  /\ Goto(t, IF addrref[t] = JOURNAL_EMPTY THEN "unlock" ELSE "collect")
  /\ UNCHANGED <<locribVars, journalVars, route2, overflow, phase3_spinlock, parserVars>>

(* The locals of schedule_phase3() go out of scope.                        *)
Unlock(t) ==
  /\ At(t, "unlock")
  /\ Goto(t, Return(t))
  /\ phase3_spinlock' = FALSE
  /\ route1' = [route1 EXCEPT ![t] = EMPTY]
  /\ route2' = [route2 EXCEPT ![t] = EMPTY]
  /\ UNCHANGED <<locribVars, journalVars, addrreftable, overflow, parserVars, sent>>
-----------------------------------------------------------------------------
PeerStep(p) ==
  \/ Start(p) \/ Finish(p)
  \/ \E k \in Buf, v \in Tiebreak : BuildRoute(p, k, v)
  \/ \E a \in Addr, update, eob \in BOOLEAN : ParsePrefix(p, a, update, eob)
  \/ Skip(p)
  \/ LocribStep(p) \/ JournalPush(p)

schedule_phase3(t) ==
  \/ TryLock(t) \/ Busy(t)
  \/ Prime(t) \/ PrimeRead(t)
  \/ Collect(t) \/ TableFull(t) \/ Read(t) \/ Emit(t)
  \/ Unlock(t)

(* buf_parse() has returned, or an assertion has failed.                   *)
Ended == pc[Main] = "done" \/ ~Alive
Stop == Ended /\ UNCHANGED vars

Next ==
  \/ \E p \in Peer : PeerStep(p)
  \/ JoinAll
  \/ \E t \in Thread : schedule_phase3(t)
  \/ Stop

(* Every thread that can run eventually runs: no step waits for another    *)
(* thread except pthread_join(), since the lock is only ever tried.        *)
Fairness ==
  /\ \A p \in Peer : WF_vars(PeerStep(p))
  /\ WF_vars(JoinAll)
  /\ \A t \in Thread : WF_vars(schedule_phase3(t))

Spec == Init /\ [][Next]_vars /\ Fairness
-----------------------------------------------------------------------------
JournalTypeOK ==
  /\ journal \in Seq(Addr)
  /\ addrref \in [Thread -> Addr \cup {JOURNAL_EMPTY}]
  /\ overrun \in BOOLEAN

BlockTypeOK ==
  /\ addrreftable \in [Thread -> Seq(Addr)]
  /\ route1 \in [Thread -> Route \cup {NULL, EMPTY}]
  /\ route2 \in [Thread -> Route \cup {NULL, EMPTY}]
  /\ overflow \in BOOLEAN

ParserTypeOK ==
  /\ call \in [Peer -> Call \cup {NoCall}]
  /\ adj_rib_in \in [Peer -> [Addr -> Route \cup {NULL}]]
  /\ route \in [Peer -> Route \cup {NULL}]
  /\ todo \in [Peer -> Nat]

(* Every variable keeps its type: the tables and the journal hold only     *)
(* addresses, and no route is written to the peer groups but a real one.   *)
TypeOK ==
  /\ LocribTypeOK /\ JournalTypeOK /\ BlockTypeOK /\ ParserTypeOK
  /\ phase3_spinlock \in BOOLEAN
  /\ pc \in [Thread -> PC]
  /\ sent \in [Addr -> Route \cup {NULL}]

(* assert(0==phase3_debug++) and assert(1==phase3_debug--) hold: no two    *)
(* threads are in phase 3 at once, and the lock is held just while one is. *)
OneConsumer ==
  /\ \A t, u \in Thread : pc[t] \in InPhase3 /\ pc[u] \in InPhase3 => t = u
  /\ phase3_spinlock <=> \E t \in Thread : pc[t] \in InPhase3

(* Somebody is coming back for a: it is in the journal, a producer is      *)
(* about to put it there, or the consumer has taken it off and is about to *)
(* read its route.                                                         *)
Coming(a) ==
  \/ a \in Range(journal)
  \/ \E p \in Peer : pc[p] = "push" /\ call[p].addr = a
  \/ \E t \in Thread : pc[t] \in {"prime_read", "read"} /\ addrref[t] = a

(* "If the route changes whilst we are working then a new action will be   *)
(* scheduled": an address with its push flag set is never forgotten.       *)
Scheduled == \A a \in Addr : push_flag[a] => Coming(a)

(* Thread t has read the route of a for the block after this one, or for   *)
(* this one, and has yet to write it.                                      *)
HoldsNext(t, a) == pc[t] \in {"collect", "emit"} /\ addrref[t] = a
HoldsNow(t, a) ==
  /\ pc[t] \in {"collect", "read", "emit"}
  /\ a \in Range(addrreftable[t])
  /\ ~HoldsNext(t, a)

(* No change of the loc-RIB is lost on its way out: while the push flag of *)
(* an address is clear, the route that has been written for it, or is in   *)
(* the consumer's hands to be written last, is the current winner.         *)
InSync ==
  \A a \in Addr : ~push_flag[a] =>
    \/ \E t \in Thread : HoldsNext(t, a) /\ route2[t] = head[a]
    \/ \E t \in Thread : HoldsNow(t, a) /\ route1[t] = head[a]
    \/ /\ \A t \in Thread : ~HoldsNext(t, a) /\ ~HoldsNow(t, a)
       /\ sent[a] = head[a]

(* When buf_parse() returns its final schedule_phase3(1) has flushed all   *)
(* unfinished work: nothing is journalled and the peer groups have been    *)
(* told the winner of every address.                                       *)
Flushed ==
  pc[Main] = "done" => journal = <<>> /\ \A a \in Addr : sent[a] = head[a]

(* The journal holds no address twice ("logic elsewhere guarantees that    *)
(* duplicate entries can not be pushed").                                  *)
NoDuplicates == \A i, j \in 1..Len(journal) : journal[i] = journal[j] => i = j

(* The withdrawal of a winner removes it ("there is an entry in the table  *)
(* AND it matches this route"): in the end an address that no peer         *)
(* announces has no winner.                                                *)
WithdrawnGone ==
  pc[Main] = "done" =>
    \A a \in Addr : (\A p \in Peer : adj_rib_in[p][a] = NULL) => head[a] = NULL

(* Every run of buf_parse() comes to its end.                              *)
Termination == <>Ended

(* A changed winner is eventually read for propagation, unless an          *)
(* assertion ends the program first.                                       *)
EventuallyRead == \A a \in Addr : push_flag[a] ~> (~push_flag[a] \/ ~Alive)
=============================================================================
