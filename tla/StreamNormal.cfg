\* Tasks, ticks, drop and a peer that answers; no I/O error.
SPECIFICATION Spec
CONSTANTS
  MaxSeq = 3
  TaskTimeout = 1
  Thresholds = 1
  ReadTimeout = 1
  MaxReplies = 1
  Kinds = {"empty", "msg"}
  Pings = FALSE
  Faults = FALSE
  EncodeFails = FALSE
  Splits = TRUE
INVARIANTS
  TypeOK
  LiveAboveMinDelay
  TimeoutExact
  WindowExact
PROPERTIES
  LiveResponseKept
\* A connection that was dropped and freed takes no further step.
CHECK_DEADLOCK FALSE
