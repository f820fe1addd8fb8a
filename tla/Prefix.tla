------------------------------- MODULE Prefix -------------------------------
(***************************************************************************)
(* The codecs of a prefix: nlri2.h between octets and a (length, address)  *)
(* pair, bigtable.c between that pair and the index into RIB.  The widths  *)
(* are parameters; in the program an address is four octets of eight bits  *)
(* and prefixes of up to 24 bits are kept.                                 *)
(***************************************************************************)
EXTENDS Integers, SequencesExt

CONSTANTS
  OctetBits,   \* bits of an octet (8)
  Octets,      \* octets of an address (4)
  Longest      \* the longest prefix that is kept (24)

ASSUME PrefixAssumption ==
  /\ OctetBits \in Nat \ {0}
  /\ Octets \in Nat \ {0}
  /\ Longest \in 0..(OctetBits * Octets - 1)

(* 2 to the n.                                                             *)
Pow2(n) ==
  LET power[i \in 0..n] == IF i = 0 THEN 1 ELSE 2 * power[i - 1]
  IN  power[n]

Width == OctetBits * Octets
Octet == 0..(Pow2(OctetBits) - 1)

(* (L + 7) / 8                                                             *)
CHUNKSIZE(l) == (l + OctetBits - 1) \div OctetBits

(* The first n octets from offset off of a field, the first one being the  *)
(* most significant.                                                       *)
Accumulated(field, off, n) ==
  LET acc[i \in 0..n] == IF i = 0 THEN 0 ELSE acc[i - 1] * Pow2(OctetBits) + field[off + i - 1]
  IN  acc[n]

(* nlri_iter(): the pair at offset off of a field of octets, and the       *)
(* offset after it.  The shift by 32 of an accumulator that is 0, for a    *)
(* prefix of length 0, gives 0 whatever the build.                         *)
nlri_iter(field, off) ==
  LET chunks == CHUNKSIZE(field[off])
  IN  [pair |-> [length |-> field[off],
                 address |-> Accumulated(field, off + 1, chunks)
                             * Pow2(OctetBits * (Octets - chunks))],
       next |-> off + 1 + chunks]

(* A plausible slip: the address not byte-swapped first.                   *)
build_nlri_unswapped(x) ==
  <<x.length>> \o [i \in 1..CHUNKSIZE(x.length) |->
                     (x.address \div Pow2(OctetBits * (i - 1))) % Pow2(OctetBits)]

(* build_nlri(): the length, then the octets of the address that it needs, *)
(* most significant first.                                                 *)
build_nlri(x) ==
  <<x.length>> \o [i \in 1..CHUNKSIZE(x.length) |->
                     (x.address \div Pow2(OctetBits * (Octets - i))) % Pow2(OctetBits)]

(* A plausible slip: no bit above the address, so no mark of the length.   *)
encode_unmarked(x) == x.address \div Pow2(Width - x.length)

(* encode(): a 1 and the first bits of the address.                        *)
encode(x) == (Pow2(Width) + x.address) \div Pow2(Width - x.length)

(* decode(): the position of the leading 1 is the length, what follows it  *)
(* the address.  For length 0 the address is shifted by its whole width,   *)
(* which the machine's shift leaves as it is and a compiler may make 0.    *)
decode(ref) ==
  LET l == Max({n \in 0..Width : Pow2(n) <= ref})
  IN  {[length |-> l, address |-> a] :
         a \in IF l = 0 THEN {0, ref} ELSE {(ref * Pow2(Width - l)) % Pow2(Width)}}
=============================================================================
