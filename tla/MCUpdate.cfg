\* Octets of two bits, addresses of three octets, prefixes of up to two octets
\* kept (8, 4 and 24 in the program); a length or count of 12 needs a second octet.
CONSTANTS
  OctetBits = 2
  Octets = 3
  Longest = 4
  UINT8 = 12
  OwnAS = 42
  Messages <- MCMessages
  static_local_pref <- MCStaticLocalPref
SPECIFICATION Spec
INVARIANTS TypeOK PrefixesKept IndexIsPrefix AttributesKept NeverAnothers WellFormed LengthBound PathLength
