------------------------------ MODULE MCUpdate ------------------------------
(***************************************************************************)
(* Update for TLC: fields of one or two prefixes with one set of           *)
(* attributes, and many lists of attributes with one prefix.               *)
(***************************************************************************)
EXTENDS Update

Encodings ==
  UNION {{<<l>> \o o : o \in [1..CHUNKSIZE(l) -> Octet]} : l \in 0..Width}
Short == {w \in Encodings : w[1] <= Longest}
Fields ==
  Encodings \cup {v \o w : v, w \in Short}
        \cup UNION {{v \o w, w \o v} : v \in Encodings \ Short, w \in {u \in Short : u[1] <= 1}}

(* An AS_PATH from the kinds and lengths of its segments.                  *)
Path(segments) ==
  FlattenSeq([i \in DOMAIN segments |->
    <<SegmentHead(segments[i][1], segments[i][2])>>
    \o [j \in 1..segments[i][2] |-> AS(10 * i + j)]])
Paths == {Path(s) : s \in
  { <<>>, << <<"seq", 1>> >>, << <<"seq", 2>> >>, << <<"seq", UINT8 - 2>> >>,
    << <<"seq", UINT8 - 1>> >>, << <<"set", 2>> >>, << <<"seq", 1>>, <<"set", 3>> >>,
    << <<"set", 2>>, <<"seq", 2>> >>, << <<"seq", 2>>, <<"seq", 1>> >>,
    << <<"seq", UINT8 - 1>>, <<"set", 2>> >>,
    << <<"seq", 1>>, <<"set", 0>>, <<"seq", 0>>, <<"seq", 1>> >> }}

Octal(n) == [i \in 1..n |-> Item(1, "octet", i)]

Values(type) ==
  CASE type = ORIGIN -> {Octal(1)}
    [] type = AS_PATH -> Paths
    [] type = COMMUNITY -> {Word(<<0, 0, 0, 1>>), FlattenSeq([i \in 1..3 |-> Word(<<0, 0, 0, i>>)])}
    [] OTHER -> {Word(<<0, 0, 0, type>>)}

Received == {ORIGIN, AS_PATH, NEXT_HOP, MULTI_EXIT_DISC, LOCAL_PREF, COMMUNITY}
Lists(s) ==   \* attributes of the types in s, in that order
  {[i \in DOMAIN s |-> [type |-> s[i], value |->
      CASE s[i] = AS_PATH -> path
        [] s[i] = COMMUNITY -> community
        [] OTHER -> CHOOSE v \in Values(s[i]) : TRUE]] :
     path \in Values(AS_PATH), community \in Values(COMMUNITY)}

Usual(s) == [i \in DOMAIN s |-> [type |-> s[i], value |->
  IF s[i] = AS_PATH THEN Path(<< <<"seq", 2>> >>) ELSE CHOOSE v \in Values(s[i]) : TRUE]]

Sorted(S) == SetToSortSeq(S, LAMBDA a, b : a < b)
Nonempty == SUBSET Received \ {{}}

(* A usual message but for the length of one attribute: right, or not; an  *)
(* ORIGIN may have any length.                                             *)
Odd ==
  {Usual(<<ORIGIN, AS_PATH, NEXT_HOP>>) \o <<[type |-> a[1], value |-> Octal(a[2])]>> : a \in
    {ATOMIC_AGGREGATE} \X {0, 1} \cup {AGGREGATOR} \X {6, 8} \cup {EXTENDED_COMMUNITIES} \X {8, 12}
    \cup {AS_PATHLIMIT} \X {4, 5} \cup {LARGE_COMMUNITY} \X {8, 12}}
  \cup {<<[type |-> ORIGIN, value |-> Octal(n)]>> \o s : n \in {0, 2, UINT8}, s \in
    {<<>>, Usual(<<AS_PATH, NEXT_HOP>>), Usual(<<AS_PATH, NEXT_HOP, LOCAL_PREF>>)}}

MCMessages ==
  {[attributes |-> Usual(<<ORIGIN, AS_PATH, NEXT_HOP>>), nlri |-> f] : f \in Fields}
  \cup {[attributes |-> a, nlri |-> <<0>>] :
          a \in Odd \cup UNION {Lists(Sorted(S)) : S \in Nonempty}
               \cup {Usual(s) : s \in UNION {SetToSeqs(S) : S \in Nonempty}}}

MCStaticLocalPref == Word(<<0, 0, 0, 42>>)
=============================================================================
