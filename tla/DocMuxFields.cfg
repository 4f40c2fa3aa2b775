SPECIFICATION Spec
CONSTANTS
  Traits <- MCTraits
  MuxFields <- MCMuxFields
  Args <- MCArgs
INVARIANTS
  MuxByFieldName
\* A call that was answered is over, and so is a program that is not built.
CHECK_DEADLOCK FALSE
