------------------------------- MODULE Driver -------------------------------
(***************************************************************************)
(* The frame of the program: main() and its repetitions of buf_parse(),    *)
(* split_buf(), which cuts the mapped file into a piece per peer, and the  *)
(* threads of buf_parse_peer(), which walk over the messages of a piece.   *)
(* What parse_update() does with a message is left to Fastparse; here it   *)
(* is counted, in a counter that all threads share, unless it has neither  *)
(* prefixes nor withdrawn routes.                                          *)
(*                                                                         *)
(* A message is a marker of 0xff octets, a header and a body.  The header  *)
(* is one octet that holds the length: in the program it is two and the    *)
(* type, and neither the first of them nor the type is ever 0xff.  A header*)
(* that is read as 0xff fails the assertion of the type, or, one or two    *)
(* octets off, that of the length in parse_update().                       *)
(***************************************************************************)
EXTENDS Timespec, FiniteSets, SequencesExt

CONSTANTS
  npeers,
  MarkerLen,   \* octets of a marker (16)
  Runs         \* bound: what the program may be run with, see Run

FF == 255
Fault == -1    \* there is no page behind the file
Bare == 1      \* at the head of a body: attributes only, no prefixes and no withdrawn routes

(* The compiled variant, whether the file can be opened, the arguments, the*)
(* bodies of the messages of the file, the octet behind it, and what the   *)
(* clock says before and after.                                            *)
Run == [multithread : BOOLEAN, opened : BOOLEAN, repeat : Int, msg_max : Int, spare : Int,
        messages : Seq(Seq({0, Bare, FF})), past : {0, FF, Fault},
        tstart : Timespec, tend : Timespec]

(* Bodies hold no marker, and no length looks like an octet of one.        *)
ASSUME DriverAssumption ==
  /\ npeers \in Nat \ {0}
  /\ MarkerLen \in Nat \ {0}
  /\ Runs \subseteq Run
  /\ \A r \in Runs : \A i \in DOMAIN r.messages :
       LET body == r.messages[i]
       IN  /\ MarkerLen + 1 + Len(body) < FF
           /\ \A j \in DOMAIN body : \E k \in 0..(MarkerLen - 1) :
                j + k > Len(body) \/ body[j + k] # FF

VARIABLES
  run,
  buf,             \* the mapped file
  pc,              \* of the main thread
  left,            \* how often main() has yet to call buf_parse()
  LOCRIB,          \* whether it is allocated
  bufs,            \* each peer's piece
  pn,              \* the loop variable of buf_parse(), from 1
  message_count,   \* what the last pthread_join() has put there
  durations,       \* of the rounds that are timed
  thread,          \* where each peer's thread is
  ptr, msg_count,  \* its locals in buf_parse_peer()
  counted,         \* the value of _msg_count it has loaded
  _msg_count,
  seen             \* the offsets of the messages each peer has gone over

peerVars == <<thread, ptr, msg_count, counted, _msg_count, seen>>
mainVars == <<pc, left, LOCRIB, bufs, pn, message_count, durations>>
vars == <<run, buf, mainVars, peerVars>>

Peer == 1..npeers

PC == {"reinit", "split", "create", "join", "flush", "report", "exit", "done", "assert", "fault"}
Stopped == {"exit", "done", "assert", "fault"}

(* A message in the file.                                                  *)
message(body) ==
  [i \in 1..MarkerLen |-> FF] \o <<MarkerLen + 1 + Len(body)>> \o body

Init ==
  /\ run \in Runs
  /\ buf = FlattenSeq([i \in DOMAIN run.messages |-> message(run.messages[i])])
  /\ left = (IF run.repeat > 1 THEN run.repeat + 1 ELSE IF run.repeat = 1 THEN 1 ELSE 0)
  /\ pc = IF ~run.opened THEN "exit" ELSE IF left = 0 THEN "report" ELSE "reinit"
  /\ LOCRIB = FALSE
  /\ bufs = [p \in Peer |-> [base |-> 0, length |-> 0]]
  /\ pn = 1
  /\ message_count = 0
  /\ durations = <<>>
  /\ thread = [p \in Peer |-> "none"]
  /\ ptr = [p \in Peer |-> 0]
  /\ msg_count = [p \in Peer |-> 0]
  /\ counted = [p \in Peer |-> 0]
  /\ _msg_count = 0
  /\ seen = [p \in Peer |-> <<>>]

At(here) == pc = here

(* A failed assertion, or a fault, ends the program with all its threads.  *)
Ends(how) ==
  /\ pc' = how
  /\ UNCHANGED <<run, buf, left, LOCRIB, bufs, pn, message_count, durations, peerVars>>
-----------------------------------------------------------------------------
(* A plausible slip: reinit() without locrib_init()'s assertion.           *)
reinit_again ==
  /\ At("reinit")
  /\ LOCRIB' = TRUE
  /\ pc' = "split"
  /\ UNCHANGED <<run, buf, left, bufs, pn, message_count, durations, peerVars>>

(* reinit(): of the tables it clears none has been used in the first round,*)
(* and locrib_init(), which comes after them, allows no second.            *)
reinit ==
  /\ At("reinit")
  /\ IF LOCRIB THEN Ends("assert")
     ELSE /\ LOCRIB' = TRUE
          /\ pc' = "split"
          /\ UNCHANGED <<run, buf, left, bufs, pn, message_count, durations, peerVars>>

octet(offset) == IF offset < Len(buf) THEN buf[offset + 1] ELSE run.past
IsMarker(offset) == \A i \in 0..(MarkerLen - 1) : octet(offset + i) = FF

(* Where the search from a cut may end: it goes back from the cut, which   *)
(* it looks at too, down to offset 1.                                      *)
cut(p) == (p * Len(buf)) \div npeers
marks(p) == {offset \in 1..(cut(p) - MarkerLen + 1) : IsMarker(offset)}

(* A plausible slip: a piece begins at the cut.                            *)
piece_at_cuts(p) == [base |-> cut(p - 1), length |-> cut(p) - cut(p - 1)]

(* A plausible slip: the end of a piece taken for its length.              *)
piece_to_end(p) ==
  [base |-> IF p = 1 THEN 0 ELSE Max(marks(p - 1)), length |-> Max(marks(p))]

(* The piece of peer p: from the marker before one cut to that before the  *)
(* next.                                                                   *)
piece(p) ==
  LET from == IF p = 1 THEN 0 ELSE Max(marks(p - 1))
  IN  [base |-> from, length |-> Max(marks(p)) - from]

(* split_buf(): the cuts are in order, so that if any has no marker before *)
(* it the first has none; the last looks at the octet behind the file.     *)
split_buf ==
  /\ At("split")
  /\ IF \E p \in 1..(npeers - 1) : marks(p) = {} THEN Ends("assert")
     ELSE IF buf # <<>> /\ run.past = Fault THEN Ends("fault")
     ELSE IF marks(npeers) = {} THEN Ends("assert")
     ELSE /\ bufs' = [p \in Peer |-> piece(p)]
          /\ pc' = "create"
          /\ UNCHANGED <<run, buf, left, LOCRIB, pn, message_count, durations, peerVars>>

(* pthread_create(); without MULTITHREAD the thread is joined at once.     *)
Create ==
  /\ At("create")
  /\ thread' = [thread EXCEPT ![pn] = "parse"]
  /\ ptr' = [ptr EXCEPT ![pn] = bufs[pn].base]
  /\ msg_count' = [msg_count EXCEPT ![pn] = 0]
  /\ seen' = [seen EXCEPT ![pn] = <<>>]
  /\ IF run.multithread /\ pn < npeers THEN pn' = pn + 1 /\ UNCHANGED pc
     ELSE pn' = (IF run.multithread THEN 1 ELSE pn) /\ pc' = "join"
  /\ UNCHANGED <<run, buf, left, LOCRIB, bufs, message_count, durations, counted, _msg_count>>

(* pthread_join(): each overwrites the count that the one before has left. *)
Join ==
  /\ At("join")
  /\ thread[pn] = "returned"
  /\ message_count' = msg_count[pn]
  /\ pn' = IF pn < npeers THEN pn + 1 ELSE 1
  /\ pc' = IF pn = npeers THEN "flush" ELSE IF run.multithread THEN "join" ELSE "create"
  /\ UNCHANGED <<run, buf, left, LOCRIB, bufs, durations, peerVars>>

(* What is left of buf_parse(), whose final schedule_phase3() is in        *)
(* Phase3, and of the round in main(), which times all but the first of    *)
(* several.                                                                *)
Flush ==
  /\ At("flush")
  /\ left' = left - 1
  /\ durations' = IF left > run.repeat THEN durations
                  ELSE Append(durations, timespec_to_double(timespec_sub(run.tend, run.tstart)))
  /\ pc' = IF left > 1 THEN "reinit" ELSE "report"
  /\ UNCHANGED <<run, buf, LOCRIB, bufs, pn, message_count, peerVars>>

(* The end of main(), which divides by repeat.                             *)
Report == At("report") /\ Ends(IF run.repeat = 0 THEN "fault" ELSE "done")
-----------------------------------------------------------------------------
Parsing(p) == pc \notin Stopped /\ thread[p] = "parse"

(* A msg_max below 0, stored in a uint64_t, is no limit.                   *)
More(p) ==
  /\ ptr[p] < bufs[p].base + bufs[p].length
  /\ run.msg_max <= 0 \/ msg_count[p] < run.msg_max

(* A plausible slip: messages without prefixes are taken for updates.      *)
parsed_all(p) ==
  /\ octet(ptr[p] + MarkerLen) > MarkerLen + 1
  /\ run.spare \in 0..msg_count[p]

(* Whether parse_update() is called and does not return at once: not for an*)
(* end-of-RIB, nor for the messages to be spared, nor for one with neither *)
(* prefixes nor withdrawn routes.  Compared with an unsigned count, a spare*)
(* below 0 spares them all.                                                *)
parsed(p) ==
  /\ octet(ptr[p] + MarkerLen) > MarkerLen + 1
  /\ run.spare \in 0..msg_count[p]
  /\ octet(ptr[p] + MarkerLen + 1) # Bare

(* One message of buf_parse_peer(), and in parse_update() the load of      *)
(* _msg_count++.                                                           *)
Message(p) ==
  /\ Parsing(p) /\ More(p)
  /\ IF ~IsMarker(ptr[p]) \/ octet(ptr[p] + MarkerLen) = FF THEN Ends("assert")
     ELSE /\ ptr' = [ptr EXCEPT ![p] = @ + octet(@ + MarkerLen)]
          /\ msg_count' = [msg_count EXCEPT ![p] = @ + 1]
          /\ seen' = [seen EXCEPT ![p] = Append(@, ptr[p])]
          /\ IF parsed(p)
             THEN /\ counted' = [counted EXCEPT ![p] = _msg_count]
                  /\ thread' = [thread EXCEPT ![p] = "count"]
             ELSE UNCHANGED <<counted, thread>>
          /\ UNCHANGED <<run, buf, mainVars, _msg_count>>

(* The store of _msg_count++; unique and the statistics go the same way.   *)
Count(p) ==
  /\ pc \notin Stopped /\ thread[p] = "count"
  /\ _msg_count' = counted[p] + 1
  /\ thread' = [thread EXCEPT ![p] = "parse"]
  /\ UNCHANGED <<run, buf, mainVars, ptr, msg_count, counted, seen>>

(* The end of the piece, or msg_max messages: the thread returns.          *)
Leave(p) ==
  /\ Parsing(p) /\ ~More(p)
  /\ thread' = [thread EXCEPT ![p] = "returned"]
  /\ UNCHANGED <<run, buf, mainVars, ptr, msg_count, counted, _msg_count, seen>>

buf_parse_peer(p) == Message(p) \/ Count(p) \/ Leave(p)
main == reinit \/ split_buf \/ Create \/ Join \/ Flush \/ Report

Stop == pc \in Stopped /\ UNCHANGED vars

Next == main \/ (\E p \in Peer : buf_parse_peer(p)) \/ Stop

Spec == Init /\ [][Next]_vars
-----------------------------------------------------------------------------
(* The registers keep their types; in particular every piece lies in the   *)
(* file, and begins where the one before ends.                             *)
TypeOK ==
  /\ pc \in PC
  /\ left \in Nat
  /\ LOCRIB \in BOOLEAN
  /\ pn \in Peer
  /\ message_count \in Nat
  /\ durations \in Seq(Int)
  /\ thread \in [Peer -> {"none", "parse", "count", "returned"}]
  /\ \A p \in Peer :
       /\ bufs[p].base \in Nat /\ bufs[p].length \in Nat
       /\ bufs[p].base + bufs[p].length <= Len(buf)
       /\ p > 1 /\ bufs[p].base > 0 => bufs[p].base = bufs[p - 1].base + bufs[p - 1].length
       /\ ptr[p] \in 0..Len(buf)
       /\ msg_count[p] = Len(seen[p])
  /\ counted \in [Peer -> Nat]
  /\ _msg_count \in Nat

(* The messages as the file was made: where each begins, and how many 0xff *)
(* octets its body ends with.                                              *)
bodies == run.messages
Messages == DOMAIN bodies
before(i) == FlattenSeq([j \in 1..(i - 1) |-> message(bodies[j])])
start(i) == Len(before(i))
tail(i) ==
  Cardinality({j \in DOMAIN bodies[i] : \A k \in j..Len(bodies[i]) : bodies[i][k] = FF})

(* The octet behind the file completes a marker that no message has.       *)
MarkerAtEnd ==
  run.past = FF /\ bodies # <<>> /\ tail(Len(bodies)) >= MarkerLen - 1

(* The messages between the first and the last marker that is found: all   *)
(* but the last.                                                           *)
kept == IF MarkerAtEnd THEN Len(bodies) ELSE Len(bodies) - 1

(* The pieces are a partition of the input, but for its last message: every*)
(* message is gone over once, by one peer, and the peers' shares follow    *)
(* each other; only msg_max makes them go over less.                       *)
Partition ==
  /\ \A p \in Peer : \A i \in DOMAIN seen[p] : \E k \in 1..kept : seen[p][i] = start(k)
  /\ \A p, q \in Peer : \A i \in DOMAIN seen[p], j \in DOMAIN seen[q] :
       p < q \/ (p = q /\ i < j) => seen[p][i] < seen[q][j]
  /\ pc = "flush" /\ run.msg_max <= 0 =>
       \A k \in 1..kept : \E p \in Peer : \E i \in DOMAIN seen[p] : seen[p][i] = start(k)

(* A cut that split_buf() gets wrong: in the first message or in the marker*)
(* of the second, before which it finds none; or in a marker that the end  *)
(* of the message before makes it find too early.                          *)
BadCut(p) ==
  \E i \in Messages :
    LET into == cut(p) - start(i) + 1   \* octets of message i up to the cut
    IN  /\ into \in 1..(MarkerLen + 1 + Len(bodies[i]))
        /\ \/ i = 1
           \/ into < MarkerLen /\ (i = 2 \/ tail(i - 1) + into >= MarkerLen)

(* When the program fails: exactly when a cut is bad, the file has no      *)
(* second message or no octet behind it, or it is run with a repeat of 0   *)
(* or above 1; or it has not even found the file.                          *)
Unsplit ==
  \/ \E p \in 1..(npeers - 1) : BadCut(p)
  \/ Len(bodies) < 2 /\ ~MarkerAtEnd
StopsOnly ==
  /\ pc = "done" =>
       \/ run.repeat < 0
       \/ (run.repeat = 1 /\ ~Unsplit /\ run.past # Fault)
  /\ pc = "assert" => run.repeat > 1 \/ (run.repeat = 1 /\ Unsplit)
  /\ pc = "fault" => run.repeat = 0 \/ run.past = Fault
  /\ pc = "exit" => ~run.opened

(* The counters: threads that count at the same time may lose some of the  *)
(* messages with prefixes or withdrawn routes, never invent any, and lose  *)
(* none where each thread is joined before the next; what is reported as   *)
(* the number of messages is that of all, of the last peer.                *)
Counted(p) ==
  {i \in DOMAIN seen[p] : run.spare \in 0..(i - 1) /\
     \E k \in Messages : start(k) = seen[p][i] /\ bodies[k] # <<>> /\ bodies[k][1] # Bare}
AllCounted == UNION {{p} \X Counted(p) : p \in Peer}
CountBounds ==
  pc \in {"flush", "report", "done"} =>
    /\ _msg_count <= Cardinality(AllCounted)
    /\ AllCounted # {} => _msg_count > 0
    /\ ~run.multithread => _msg_count = Cardinality(AllCounted)
    /\ run.repeat > 0 => message_count = Len(seen[npeers])

(* The duration is that between the readings, also when the nanoseconds of *)
(* the second are less or the clock was set back; as a Timespec it has one *)
(* sign and less than a second of nanoseconds.                             *)
Elapsed ==
  \A i \in DOMAIN durations :
    LET ts == timespec_sub(run.tend, run.tstart)
    IN  /\ durations[i] = timespec_to_double(run.tend) - timespec_to_double(run.tstart)
        /\ ts.tv_nsec \in (1 - NSEC)..(NSEC - 1)
        /\ ts.tv_sec * ts.tv_nsec >= 0
=============================================================================
