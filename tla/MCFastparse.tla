----------------------------- MODULE MCFastparse ----------------------------
(***************************************************************************)
(* Fastparse for TLC.  Addresses and tiebreak values are interchangeable.  *)
(***************************************************************************)
EXTENDS Fastparse, TLC

MCBuf == Buffer

Symmetry == Permutations(Addr) \cup Permutations(Tiebreak)
=============================================================================
