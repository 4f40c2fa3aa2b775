\* Callers that spawn workers and drop the pool, a server that goes and may come back.
SPECIFICATION FairSpec
CONSTANTS
  Tasks = {t1, t2}
  MaxWorkers = 2
  Thresholds = 1
  ChannelSize = 1
  MaxDowns = 1
  MaySpawn = TRUE
  EncodeFails = TRUE
INVARIANTS
  OneMonitor
PROPERTIES
  ImplementsPoolCalls
  EveryTaskEnds
  DropEndsWorkers
\* A pool that was dropped and whose coroutines have ended takes no further step.
CHECK_DEADLOCK FALSE
