\* Three peers, markers of three octets and seconds of four nanoseconds (2, 16
\* and 1000000000 in the program).
CONSTANTS
  npeers = 3
  MarkerLen = 3
  NSEC = 4
  Runs <- MCRuns
SPECIFICATION Spec
INVARIANTS TypeOK Partition StopsOnly CountBounds Elapsed
