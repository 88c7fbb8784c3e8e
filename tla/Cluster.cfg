CONSTANTS
  N = 2
  IdWords = 2
  MaxPolls = 1
  CallsOfJob = 2
SPECIFICATION Spec
INVARIANTS
  OneId
  ReducedOrReported
PROPERTY
  EachReturns
CHECK_DEADLOCK FALSE
