\* One connection that may break, two requests at a time, and a close at any time.
SPECIFICATION FairSpec
CONSTANTS
  Conns = {c1}
  Reqs = {r1, r2}
  MaxBacklog = 1
INVARIANTS
  FlushedBeforeWait
  NoResponseLost
  QuietAfterClose
PROPERTIES
  ConnReleased
  CloseCompletes
\* A server that was closed takes no further step.
CHECK_DEADLOCK FALSE
