\* Up to three pools, of which two may fail, and two tasks; no update.
SPECIFICATION Spec
CONSTANTS
  Tasks = {t1, t2}
  Addrs = {a1, a2, a3}
  Updaters = {u1}
  MaxUpdates = 0
  RoundRobin = TRUE
  RetryLimit = 1
  PoolRoom = 1
  Fails = 2
INVARIANTS
  SendsBounded
  RoundRobinBalanced
PROPERTIES
  RetryMovesOn
\* A pool that was dropped and whose tasks have ended takes no further step.
CHECK_DEADLOCK FALSE
