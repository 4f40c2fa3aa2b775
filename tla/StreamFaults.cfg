\* Every error path, pings and set_error_and_exit.
SPECIFICATION Spec
CONSTANTS
  MaxSeq = 2
  TaskTimeout = 1
  Thresholds = 1
  ReadTimeout = 1
  MaxReplies = 1
  Kinds = {"noblob", "errstr"}
  Pings = TRUE
  Faults = TRUE
  EncodeFails = TRUE
  Splits = FALSE
INVARIANTS
  TaskConservation
  PendingCountExact
  NoneStranded
  LostOnlyOnError
\* A connection that was dropped and freed takes no further step.
CHECK_DEADLOCK FALSE
