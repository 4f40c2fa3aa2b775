\* Chunks below, at and above the buffer sizes; a write may fail.
SPECIFICATION FairSpec
CONSTANTS
  WCap = 3
  RCap = 2
  MaxBytes = 5
  MaxChunk = 4
  SocketCap = 3
INVARIANTS
  NoneSkipped
  Conserved
PROPERTIES
  AllArrives
\* The callers may stop at any time.
CHECK_DEADLOCK FALSE
