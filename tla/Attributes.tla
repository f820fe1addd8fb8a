----------------------------- MODULE Attributes -----------------------------
(***************************************************************************)
(* Path attributes: what parse_attributes() takes from them into a route's *)
(* tiebreak (bgpupdate.c, aspath.c) and how the serializers read and write *)
(* them (bgpserialize.tpl).  A value is a sequence of items of the size    *)
(* that matters: an octet, the head of an AS_PATH segment, an AS number.   *)
(* A 32-bit word is its octets, most significant first, on the wire as in  *)
(* a variable.                                                             *)
(***************************************************************************)
EXTENDS Integers, SequencesExt

CONSTANT
  UINT8   \* values of a uint8_t where it is a length or a count (256)

ASSUME AttributesAssumption == UINT8 \in Nat /\ UINT8 > 4

ORIGIN == 1
AS_PATH == 2
NEXT_HOP == 3
MULTI_EXIT_DISC == 4
LOCAL_PREF == 5
ATOMIC_AGGREGATE == 6
AGGREGATOR == 7
COMMUNITY == 8
EXTENDED_COMMUNITIES == 16
AS_PATHLIMIT == 21
LARGE_COMMUNITY == 32

Items == [size : Nat, kind : {"octet", "seq", "set", "as", "beyond"}, n : Nat]
Item(size, kind, n) == [size |-> size, kind |-> kind, n |-> n]
SegmentHead(kind, n) == Item(2, kind, n)       \* segment type and length
AS(n) == Item(4, "as", n)
Word(octets) == [i \in 1..4 |-> Item(1, "octet", octets[i])]
Beyond == Item(4, "beyond", 0)                 \* octets past the end of the value

(* *attr_ptr: of an empty value, the flags of the next attribute.          *)
FirstOctet(value) == IF value = <<>> THEN Item(1, "beyond", 0) ELSE value[1]

(* The sum of the first n of a sequence of numbers.                        *)
Total(numbers, n) ==
  LET sum[i \in 0..n] == IF i = 0 THEN 0 ELSE sum[i - 1] + numbers[i]
  IN  sum[n]

Size(value) == Total([i \in DOMAIN value |-> value[i].size], Len(value))

(* A load on the little-endian machine takes the first octet for the least *)
(* significant one; __bswap_32() of that is what the sender meant.         *)
Load(octets) == Reverse(octets)
bswap_32(word) == Reverse(word)
Store(word) == Reverse(word)

(* A plausible slip: a set counted by its length.                          *)
as_path_count_all(path) ==
  LET count[i \in Nat \ {0}] ==
        IF i > Len(path) THEN 0 ELSE path[i].n + count[i + 1 + path[i].n]
  IN  count[1]

(* as_path_count(): from segment to segment, a set counts as one AS.       *)
as_path_count(path) ==
  LET count[i \in Nat \ {0}] ==
        IF i > Len(path) THEN 0
        ELSE (IF path[i].kind = "set" THEN 1 ELSE path[i].n) + count[i + 1 + path[i].n]
  IN  count[1]

(* What parse_attribute() and as_path_count() assert; of an ORIGIN they    *)
(* assert nothing.                                                         *)
Asserted(a) ==
  /\ a.type \in {NEXT_HOP, MULTI_EXIT_DISC, LOCAL_PREF} => Size(a.value) = 4
  /\ a.type = COMMUNITY => Size(a.value) % 4 = 0
  /\ a.type = EXTENDED_COMMUNITIES => Size(a.value) % 8 = 0
  /\ a.type = LARGE_COMMUNITY => Size(a.value) % 12 = 0
  /\ a.type = ATOMIC_AGGREGATE => Size(a.value) = 0
  /\ a.type = AGGREGATOR => Size(a.value) = 8
  /\ a.type = AS_PATHLIMIT => Size(a.value) = 5
  /\ a.type = AS_PATH => as_path_count(a.value) < UINT8

(* parse_attribute(): the fields of the tiebreak that come from the wire.  *)
parse_attribute(tiebreak, a) ==
  CASE a.type = ORIGIN -> [tiebreak EXCEPT !.origin = FirstOctet(a.value)]
    [] a.type = AS_PATH -> [tiebreak EXCEPT !.path_length = as_path_count(a.value)]
    [] a.type = MULTI_EXIT_DISC -> [tiebreak EXCEPT !.med = Load(a.value)]
    [] a.type = LOCAL_PREF -> [tiebreak EXCEPT !.local_pref = Load(a.value)]
    [] OTHER -> tiebreak

(* A plausible slip: the last attribute read is taken for the one wanted.  *)
get_last(attributes, r, wanted) ==
  LET rest == {i \in r..Len(attributes) : attributes[i].type >= wanted}
      stop == IF rest = {} THEN Len(attributes) + 1 ELSE Min(rest)
  IN  [r |-> IF rest = {} THEN stop ELSE stop + 1,
       attr_ptr |-> IF rest # {} THEN stop ELSE 0]

(* get(): the next attribute from r on whose type is not below the one     *)
(* wanted; if it is another the wanted one is taken to be missing, and the *)
(* attribute is passed over for good.                                      *)
get(attributes, r, wanted) ==
  LET rest == {i \in r..Len(attributes) : attributes[i].type >= wanted}
      stop == IF rest = {} THEN Len(attributes) + 1 ELSE Min(rest)
  IN  [r |-> IF rest = {} THEN stop ELSE stop + 1,
       attr_ptr |-> IF rest # {} /\ attributes[stop].type = wanted THEN stop ELSE 0]

(* A plausible slip: the longer head for every attribute.                  *)
Written_extended(type, length, value) ==
  [type |-> type, extended |-> TRUE, length |-> length, value |-> value]

(* The head of an attribute that is written: the extended length flag and  *)
(* the second octet of the length come together.                           *)
Written(type, length, value) ==
  [type |-> type, extended |-> length >= UINT8, length |-> length, value |-> value]

(* copy() and, with a value of its own, set4().                            *)
copy(type, value) == Written(type, Size(value), value)

(* set() as the serializers call it, for one octet whatever the length of  *)
(* the value.                                                              *)
set(type, value) == Written(type, 1, <<FirstOctet(value)>>)

(* A plausible slip: the length of the old value used to choose the head.  *)
prepend_old_head(as, value) ==
  [Written(AS_PATH, Size(value) + 4, <<>>) EXCEPT
     !.value = <<SegmentHead("seq", value[1].n + 1), AS(as)>> \o Tail(value),
     !.extended = Size(value) >= UINT8]

(* prepend(): what follows the new AS is copied from the octet after the   *)
(* old first AS, as many octets as there were after the segment's head, so *)
(* that the last four come from past the end of the attribute.             *)
prepend(as, value) ==
  Written(AS_PATH, Size(value) + 4,
          <<SegmentHead("seq", value[1].n + 1), AS(as)>>
          \o SubSeq(value, 3, Len(value)) \o <<Beyond>>)
=============================================================================
