SPECIFICATION Spec
CONSTANTS
  MaxSeq = 2
  TaskTimeout = 1
  Thresholds = 1
  ReadTimeout = 1
  MaxReplies = 1
  Kinds = {"empty", "msg"}
  Pings = FALSE
  Faults = FALSE
  EncodeFails = FALSE
  Splits = FALSE
PROPERTIES
  DropKeepsResponses
\* A connection that was dropped and freed takes no further step.
CHECK_DEADLOCK FALSE
