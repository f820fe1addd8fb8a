------------------------------ MODULE MCDriver ------------------------------
(***************************************************************************)
(* Driver for TLC: files of all kinds with the usual arguments, a few files*)
(* with every argument, and one with many readings of the clock.           *)
(***************************************************************************)
EXTENDS Driver

Bodies == {<<>>, <<0>>, <<Bare>>, <<FF, FF>>, <<0, 0, 0, FF, FF>>}
Files == UNION {[1..n -> Bodies] : n \in 0..4} \cup {[i \in 1..3 |-> [j \in 1..5 |-> 0]]}

Usual == [multithread |-> FALSE, opened |-> TRUE, repeat |-> 1, msg_max |-> 0, spare |-> 0, messages |-> <<>>,
          past |-> 0, tstart |-> timespec(0, 0), tend |-> timespec(1, 0)]

File == << <<0>>, <<0, FF, FF>>, <<>>, <<Bare>>, <<0>>, <<FF>> >>

Readings == {timespec(sec, nsec) : sec \in 0..2, nsec \in 0..(NSEC - 1)}

MCRuns ==
  {[Usual EXCEPT !.opened = FALSE]}
  \cup {[Usual EXCEPT !.messages = f, !.past = x] : f \in Files, x \in {0, FF, Fault}}
  \cup {[Usual EXCEPT !.messages = f, !.multithread = TRUE] : f \in Files}
  \cup {[Usual EXCEPT !.messages = f, !.multithread = mt, !.msg_max = max, !.spare = n, !.repeat = r] :
          f \in {File, Tail(File)}, mt \in BOOLEAN, max \in -1..2, n \in -1..2, r \in {-1, 0, 1, 2}}
  \cup {[Usual EXCEPT !.messages = File, !.tstart = s, !.tend = e] : s, e \in Readings}
=============================================================================
