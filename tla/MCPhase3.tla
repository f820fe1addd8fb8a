------------------------------ MODULE MCPhase3 ------------------------------
(***************************************************************************)
(* Phase3 for TLC.  Addresses, the buffers of a peer and tiebreak values   *)
(* are interchangeable; peers are not, they are started in order.          *)
(***************************************************************************)
EXTENDS Phase3, TLC

Symmetry == Permutations(Addr) \cup Permutations(Buf) \cup Permutations(Tiebreak)
=============================================================================
