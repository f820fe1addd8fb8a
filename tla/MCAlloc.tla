------------------------------ MODULE MCAlloc -------------------------------
(***************************************************************************)
(* Alloc for TLC.  The caches are interchangeable.                         *)
(***************************************************************************)
EXTENDS Alloc, TLC

Symmetry == Permutations(Cache)
=============================================================================
