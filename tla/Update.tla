------------------------------- MODULE Update -------------------------------
(***************************************************************************)
(* One UPDATE message from the wire into the program and out again: the    *)
(* loops of parse_update() over attributes and prefixes, then for one peer *)
(* group the serializer and the loop of schedule_phase3() over a block.    *)
(* The route and the prefixes of the message are the winners, and the block*)
(* is the message's: what lies between is the business of Fastparse.       *)
(***************************************************************************)
EXTENDS Prefix, Attributes, FiniteSets

CONSTANTS
  Messages,           \* bound: what may be received, [attributes, nlri]
  static_local_pref,  \* of the peer, the value of a LOCAL_PREF
  OwnAS               \* what serialize_ebgp() prepends

(* A field is made of whole prefixes: S are the offsets of their lengths.  *)
Whole(field) ==
  \E S \in SUBSET DOMAIN field :
    /\ 1 \in S
    /\ \A off \in S :
         LET next == off + 1 + CHUNKSIZE(field[off])
         IN  /\ field[off] \in 0..Width
             /\ \A i \in (off + 1)..(next - 1) : field[i] \in Octet
             /\ next \in S \cup {Len(field) + 1}

(* A path is made of whole segments, the head of a segment of two octets,  *)
(* an AS of four.  Its first segment is not empty, which prepend() takes   *)
(* for granted: it would copy from the middle of what comes next.          *)
IsPath(path) ==
  \A i \in DOMAIN path :
    /\ path[i].kind \in {"seq", "set", "as"}
    /\ path[i].size = IF path[i].kind = "as" THEN 4 ELSE 2
    /\ i = 1 => path[i].kind # "as"
    /\ path[i].kind # "as" =>
         /\ i = 1 => path[i].n > 0
         /\ i + path[i].n <= Len(path)
         /\ \A j \in (i + 1)..(i + path[i].n) : path[j].kind = "as"
         /\ i + path[i].n < Len(path) => path[i + path[i].n + 1].kind # "as"

(* An ORIGIN is made of octets: one, if it is as it should be.             *)
IsOctets(origin) == \A i \in DOMAIN origin : origin[i].size = 1

ASSUME UpdateAssumption ==
  /\ \A m \in Messages :
       /\ m.attributes \in Seq([type : Nat, value : Seq(Items)]) /\ Len(m.attributes) > 0
       /\ \A i \in DOMAIN m.attributes :
            /\ m.attributes[i].type = AS_PATH => IsPath(m.attributes[i].value)
            /\ m.attributes[i].type = ORIGIN => IsOctets(m.attributes[i].value)
       /\ m.nlri \in Seq(Nat) /\ Whole(m.nlri)
  /\ static_local_pref \in Seq(Items) /\ Size(static_local_pref) = 4
  /\ OwnAS \in Nat

VARIABLES
  message,    \* the message received
  group,      \* which serializer the peer group has
  pc,
  p,          \* parse_attributes(): the attribute to parse next
  tiebreak,   \* the route's, without the fields of the peer
  nlrip,      \* parse_update(): offset of the next prefix
  table,      \* addrreftable: the encoded prefixes of the block
  r,          \* the serializer's cursor in the route's attributes
  call,       \* how many of the serializer's calls are done
  q,          \* the attributes written
  txp         \* the prefixes written

vars == <<message, group, pc, p, tiebreak, nlrip, table, r, call, q, txp>>
attributes == message.attributes

Group == {"ibgp", "ebgp", "copy"}
PC == {"attributes", "nlri", "serialize", "build", "done", "assert"}

(* The calls of each serializer, each with the type of the get() before it *)
(* (set4() has none, and the type it writes).                              *)
serialize_ibgp ==
  << <<"set", ORIGIN>>, <<"copy", AS_PATH>>, <<"copy", NEXT_HOP>>, <<"set4", LOCAL_PREF>> >>
serialize_ebgp ==
  << <<"set", ORIGIN>>, <<"prepend", AS_PATH>>, <<"copy", NEXT_HOP>>, <<"copy", COMMUNITY>> >>
serialize_copy ==
  << <<"copy", ORIGIN>>, <<"copy", AS_PATH>>, <<"copy", NEXT_HOP>>, <<"copy", COMMUNITY>> >>
Program(g) ==
  CASE g = "ibgp" -> serialize_ibgp [] g = "ebgp" -> serialize_ebgp [] g = "copy" -> serialize_copy

(* memset() and phase1().                                                  *)
phase1 == [origin |-> Item(1, "octet", 0), path_length |-> 0, med |-> <<0, 0, 0, 0>>,
           local_pref |-> static_local_pref]

Init ==
  /\ message \in Messages
  /\ group \in Group
  /\ pc = "attributes"
  /\ p = 1
  /\ tiebreak = phase1
  /\ nlrip = 1
  /\ table = <<>>
  /\ r = 1
  /\ call = 0
  /\ q = <<>>
  /\ txp = <<>>

(* One attribute; the loop ends with the last.                             *)
parse_attributes ==
  /\ pc = "attributes"
  /\ LET a == attributes[p] IN
       IF Asserted(a)
       THEN /\ tiebreak' = parse_attribute(tiebreak, a)
            /\ p' = p + 1
            /\ pc' = IF p < Len(attributes) THEN pc ELSE "nlri"
       ELSE pc' = "assert" /\ UNCHANGED <<tiebreak, p>>
  /\ UNCHANGED <<message, group, nlrip, table, r, call, q, txp>>

(* A plausible slip: the test for an over-long prefix is off by one.       *)
parse_nlri_longer ==
  /\ pc = "nlri"
  /\ LET x == nlri_iter(message.nlri, nlrip) IN
       /\ nlrip' = x.next
       /\ table' \in IF x.pair.length > Longest + 1 THEN {table}
                     ELSE IF encode(x.pair) \notin ToSet(table) THEN {Append(table, encode(x.pair))}
                     ELSE {table, Append(table, encode(x.pair))}
       /\ pc' = IF x.next <= Len(message.nlri) THEN pc
                ELSE IF table' = <<>> THEN "done" ELSE "serialize"
  /\ UNCHANGED <<message, group, p, tiebreak, r, call, q, txp>>

(* One prefix: over-long ones are counted and dropped.  One that comes     *)
(* again changes nothing in the loc-RIB and is in the block again or not,  *)
(* as the uninitialised push_flag has it.                                  *)
parse_nlri ==
  /\ pc = "nlri"
  /\ LET x == nlri_iter(message.nlri, nlrip) IN
       /\ nlrip' = x.next
       /\ table' \in IF x.pair.length > Longest THEN {table}
                     ELSE IF encode(x.pair) \notin ToSet(table) THEN {Append(table, encode(x.pair))}
                     ELSE {table, Append(table, encode(x.pair))}
       /\ pc' = IF x.next <= Len(message.nlri) THEN pc
                ELSE IF table' = <<>> THEN "done" ELSE "serialize"
  /\ UNCHANGED <<message, group, p, tiebreak, r, call, q, txp>>

(* The call at hand: its kind, what its get() finds and the value there.   *)
Calls(op) == pc = "serialize" /\ Program(group)[call + 1][1] = op
found == get(attributes, r, Program(group)[call + 1][2])
value == attributes[found.attr_ptr].value
copied == copy(attributes[found.attr_ptr].type, value)

Writes(written) ==
  /\ q' = q \o written
  /\ call' = call + 1
  /\ pc' = IF call + 1 < Len(Program(group)) THEN pc ELSE "build"
  /\ UNCHANGED <<message, group, p, tiebreak, nlrip, table, txp>>

Fails ==
  /\ pc' = "assert"
  /\ UNCHANGED <<message, group, p, tiebreak, nlrip, table, r, call, q, txp>>

(* set() asserts that the attribute is there.                              *)
Set ==
  /\ Calls("set")
  /\ IF found.attr_ptr = 0 THEN Fails
     ELSE r' = found.r /\ Writes(<<set(attributes[found.attr_ptr].type, value)>>)

(* copy() leaves out an attribute that is not there.                       *)
Copy ==
  /\ Calls("copy")
  /\ r' = found.r
  /\ Writes(IF found.attr_ptr = 0 THEN <<>> ELSE <<copied>>)

(* prepend() likewise; it asserts that the path begins with a sequence that*)
(* can take one more.  Of an empty path it looks at the flags of the next  *)
(* attribute, which are not those of a sequence.                           *)
Prepend ==
  /\ Calls("prepend")
  /\ IF found.attr_ptr = 0 THEN r' = found.r /\ Writes(<<>>)
     ELSE IF value # <<>> /\ value[1].kind = "seq" /\ value[1].n < UINT8 - 1
     THEN r' = found.r /\ Writes(<<prepend(OwnAS, value)>>)
     ELSE Fails

(* A plausible slip: the preference written as it lies in memory.          *)
Set4Unswapped ==
  /\ Calls("set4")
  /\ Writes(<<copy(LOCAL_PREF, Store(tiebreak.local_pref))>>)
  /\ UNCHANGED r

(* set4() of the route's preference, without a get().                      *)
Set4 ==
  /\ Calls("set4")
  /\ Writes(<<copy(LOCAL_PREF, Store(bswap_32(tiebreak.local_pref)))>>)
  /\ UNCHANGED r

(* lookup_bigtable() and build_nlri() of one address of the block.         *)
Build ==
  /\ pc = "build"
  /\ \E x \in decode(Head(table)) : txp' = txp \o build_nlri(x)
  /\ table' = Tail(table)
  /\ pc' = IF Len(table) > 1 THEN pc ELSE "done"
  /\ UNCHANGED <<message, group, p, tiebreak, nlrip, r, call, q>>

(* The message is through, or an assertion has ended the program.          *)
Stop ==
  /\ pc \in {"done", "assert"}
  /\ UNCHANGED vars

Next == parse_attributes \/ parse_nlri \/ Set \/ Copy \/ Prepend \/ Set4 \/ Build \/ Stop

Spec == Init /\ [][Next]_vars
-----------------------------------------------------------------------------
(* The prefixes in a field, read without the program's codecs.             *)
Wires(field) ==
  LET start[k \in 0..Len(field)] ==
        IF k = 0 THEN 1
        ELSE IF start[k - 1] \notin DOMAIN field THEN start[k - 1]
        ELSE start[k - 1] + 1 + CHUNKSIZE(field[start[k - 1]])
  IN  {SubSeq(field, off, off + CHUNKSIZE(field[off])) :
         off \in {start[k] : k \in 0..Len(field)} \cap DOMAIN field}
kept == {w \in Wires(message.nlri) : w[1] <= Longest}

(* Bit i of the address of a prefix on the wire, the first bit being 0.    *)
Bit(w, i) == (w[2 + i \div OctetBits] \div Pow2(OctetBits - 1 - (i % OctetBits))) % 2

(* The same prefix: of one length and alike in that many bits.             *)
Same(v, w) == v[1] = w[1] /\ \A i \in 0..(v[1] - 1) : Bit(v, i) = Bit(w, i)

(* A prefix on the wire with the bits past its length cleared.             *)
Cleared(w) ==
  LET spare == OctetBits * (Len(w) - 1) - w[1]
  IN  [i \in DOMAIN w |-> IF i = 1 \/ i < Len(w) THEN w[i] ELSE w[i] - (w[i] % Pow2(spare))]

(* The cursors, the registers and what is written keep their types; in     *)
(* particular an index is never 0, which would mean that RIB has none, and *)
(* fits the table: assert(index < RIBSIZE).                                *)
TypeOK ==
  /\ group \in Group
  /\ pc \in PC
  /\ p \in 1..(Len(attributes) + 1)
  /\ DOMAIN tiebreak = {"origin", "path_length", "med", "local_pref"}
  /\ tiebreak.path_length \in 0..(UINT8 - 1)
  /\ nlrip \in 1..(Len(message.nlri) + 1)
  /\ table \in Seq(1..(Pow2(Longest + 1) - 1))
  /\ r \in 1..(Len(attributes) + 1)
  /\ call \in 0..Len(Program(group))
  /\ txp \in Seq(Nat)

(* The prefixes that come out are those that went in, over-long ones left  *)
(* out and bits past the length cleared: iter, encode, decode and build    *)
(* undo each other, for length 0 too, and no walk over a field loses its   *)
(* place.                                                                  *)
PrefixesKept ==
  pc = "done" => Wires(txp) = {Cleared(w) : w \in kept}

(* Two prefixes share an index just when they are the same prefix: the     *)
(* index may stand for the prefix, as it does in RIB and LOCRIB.           *)
IndexIsPrefix ==
  \A v, w \in kept :
    Same(v, w) <=> encode(nlri_iter(v, 1).pair) = encode(nlri_iter(w, 1).pair)

(* What a serializer writes of a message, its AS_PATH apart where the own  *)
(* AS goes in front: the attributes it is to pass on, each once, as it was *)
(* and in their order, and the peer's LOCAL_PREF if none was received.  It *)
(* takes a message that has the mandatory attributes and has them in order,*)
(* since get() swallows the attribute after one that is missing, and whose *)
(* ORIGIN has one octet, which is what set() writes in any case.           *)
Wanted(g) == {c[2] : c \in {d \in ToSet(Program(g)) : d[1] \in {"set", "copy"}}}
Mandatory == {ORIGIN, AS_PATH, NEXT_HOP}
Bare(s) == [i \in DOMAIN s |-> [type |-> s[i].type, value |-> s[i].value]]
Ascending(s) == \A i, j \in DOMAIN s : i < j => s[i].type < s[j].type
Types(s) == {s[i].type : i \in DOMAIN s}
Origins(s) == {a \in ToSet(s) : a.type = ORIGIN}

Regular ==
  /\ Ascending(attributes)
  /\ Mandatory \subseteq Types(attributes)
  /\ \A a \in Origins(attributes) : Len(a.value) = 1

AttributesKept ==
  pc = "build" /\ Regular =>
    LET wanted(s) == {a \in ToSet(s) : a.type \in Wanted(group)}
        preference == [type |-> LOCAL_PREF, value |-> static_local_pref]
    IN  /\ Ascending(q)
        /\ wanted(Bare(q)) = wanted(attributes)
        /\ group = "ibgp" /\ LOCAL_PREF \notin Types(attributes) =>
              ToSet(Bare(q)) = wanted(attributes) \cup {preference}

(* Attributes that come in any order, or not at all: some are lost, but    *)
(* none is ever passed on twice, out of order, or in another's place, which*)
(* the comments in the serializers fear ("silenetly fails by copying the   *)
(* previous attribute").  Of an ORIGIN set() passes on the first octet, if *)
(* it has any; of what stands for an empty one nothing is said.            *)
NeverAnothers ==
  /\ Ascending(q)
  /\ \A i \in DOMAIN q :
       \/ Bare(q)[i] \in ToSet(attributes)
       \/ q[i].type = LOCAL_PREF /\ group = "ibgp"
       \/ q[i].type = AS_PATH /\ group = "ebgp"
       \/ /\ q[i].type = ORIGIN /\ group # "copy"
          /\ \E a \in Origins(attributes) : a.value # <<>> => q[i].value = <<a.value[1]>>

(* What is written can be read: the length is that of the value, in one    *)
(* octet only if it fits one.                                              *)
WellFormed ==
  \A i \in DOMAIN q :
    /\ q[i].length = Size(q[i].value)
    /\ ~q[i].extended => q[i].length < UINT8

(* The UPDATE that is built for a block is no longer than the message it   *)
(* comes from, but for the LOCAL_PREF that serialize_ibgp() adds where none *)
(* was received and the AS that serialize_ebgp() prepends, with the second *)
(* octet of the length that this may need; and the octet that set() writes *)
(* for an empty ORIGIN.  No serializer looks at q_max, and nothing else    *)
(* keeps the UPDATE within tx_buffer.                                      *)
HeadOctets(extended) == IF extended THEN 4 ELSE 3
ReceivedOctets(s) ==
  Total([i \in DOMAIN s |-> HeadOctets(Size(s[i].value) >= UINT8) + Size(s[i].value)], Len(s))
WrittenOctets(s) == Total([i \in DOMAIN s |-> HeadOctets(s[i].extended) + s[i].length], Len(s))
LengthBound ==
  pc = "done" =>
    Len(txp) + WrittenOctets(q)
      <= Len(message.nlri) + ReceivedOctets(attributes)
         + (CASE group = "ibgp" -> IF LOCAL_PREF \in Types(attributes) THEN 0 ELSE HeadOctets(FALSE) + 4
               [] group = "ebgp" -> 4 + 1
               [] group = "copy" -> 0)
         + (IF group # "copy" /\ (\E a \in Origins(attributes) : a.value = <<>>) THEN 1 ELSE 0)

(* path_length is the number of ASes in the path with each set taken as    *)
(* one, not cut to eight bits; of the last path, should there be several.  *)
LastOf(type) ==
  {i \in DOMAIN attributes :
     attributes[i].type = type /\ \A j \in DOMAIN attributes : attributes[j].type = type => j <= i}
Kind(path, kind) == {i \in DOMAIN path : path[i].kind = kind}
InSet(path) == {i \in DOMAIN path : \E h \in Kind(path, "set") : i \in (h + 1)..(h + path[h].n)}
PathLength ==
  pc \notin {"attributes", "assert"} =>
    \A i \in LastOf(AS_PATH) :
      LET path == attributes[i].value
      IN  tiebreak.path_length = Cardinality(Kind(path, "as") \ InSet(path))
                                 + Cardinality(Kind(path, "set"))

(* parse_attributes() "fills in the route struct with the path attribute   *)
(* derived fields": a LOCAL_PREF that was received is what is passed on.   *)
LocalPrefKept ==
  pc = "build" /\ group = "ibgp" /\ LOCAL_PREF \in Types(attributes) =>
    \A i \in DOMAIN attributes :
      attributes[i].type = LOCAL_PREF => attributes[i] \in ToSet(Bare(q))
=============================================================================
