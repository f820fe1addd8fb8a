----------------------------- MODULE MCBigtable -----------------------------
(***************************************************************************)
(* Bigtable for TLC.  Threads and prefixes are interchangeable.            *)
(***************************************************************************)
EXTENDS Bigtable, TLC

Symmetry == Permutations(Thread) \cup Permutations(Prefix)
=============================================================================
