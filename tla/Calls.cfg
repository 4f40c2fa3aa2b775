\* Five programs with three calls or pings each on the connection; small enums and
\* services, with one that is refused for each check of the macros.
SPECIFICATION MCSpec
CONSTANTS
  Programs <- MCPrograms
  MaxCalls = 3
  W = 3
INVARIANTS
  ResultIsOutcome
  Routed
  NoDesync
  OkIsOutcome
  ServedByName
  CallKept
\* The calls are all made and answered, a reader has given up, or a program is not built.
CHECK_DEADLOCK FALSE
