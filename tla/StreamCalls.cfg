\* The peer may answer twice, with different outcomes.
SPECIFICATION FairSpec
CONSTANTS
  MaxSeq = 2
  TaskTimeout = 1
  Thresholds = 1
  ReadTimeout = 1
  MaxReplies = 2
  Kinds = {"errno", "garbled"}
  Pings = TRUE
  Faults = FALSE
  EncodeFails = FALSE
  Splits = FALSE
PROPERTIES
  ImplementsRpcCalls
  EveryTaskFinishes
  DropReleasesReceiver
\* A connection that was dropped and freed takes no further step.
CHECK_DEADLOCK FALSE
