\* Two updates of the addresses at a time, and a drop, while a task is retried.
SPECIFICATION FairSpec
CONSTANTS
  Tasks = {t1}
  Addrs = {a1, a2}
  Updaters = {u1, u2}
  MaxUpdates = 2
  RoundRobin = TRUE
  RetryLimit = 1
  PoolRoom = 1
  Fails = 0
INVARIANTS
  IndexNamesPool
PROPERTIES
  EveryTaskDone
  DropEndsRetryWorker
\* A pool that was dropped and whose tasks have ended takes no further step.
CHECK_DEADLOCK FALSE
