\* A LOCAL_PREF that was received comes out with its octets reversed.
CONSTANTS
  OctetBits = 2
  Octets = 3
  Longest = 4
  UINT8 = 12
  OwnAS = 42
  Messages <- MCMessages
  static_local_pref <- MCStaticLocalPref
SPECIFICATION Spec
INVARIANT LocalPrefKept
