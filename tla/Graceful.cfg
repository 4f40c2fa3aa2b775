\* A path and a TCP address through several generations of processes, with different
\* things that may fail.
SPECIFICATION FairSpec
CONSTANTS
  NAddrs = 2
  Unix = {1}
  MaxProcs = 4
  MaxSockets = 8
  FaultSets = {{"sync"}, {"bind", "pid", "sync", "wait", "crash"}, {"recover", "bind", "pid", "sync", "crash"}, {"bind", "skip"}}
INVARIANTS
  ListenerMatches
  Reachable
PROPERTIES
  HandedOver
  RestartServes
\* The processes are used up.
CHECK_DEADLOCK FALSE
