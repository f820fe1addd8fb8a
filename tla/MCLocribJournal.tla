--------------------------- MODULE MCLocribJournal --------------------------
(***************************************************************************)
(* LocribJournal for TLC.  Threads and references are interchangeable.     *)
(***************************************************************************)
EXTENDS LocribJournal, TLC

Symmetry == Permutations(Thread) \cup Permutations(Addr)
=============================================================================
