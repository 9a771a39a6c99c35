SPECIFICATION FairSpec
CONSTANTS
  N = 2
  Untouched = untouched
  ForkMayFail = FALSE
PROPERTIES EndsAfterSignal
CHECK_DEADLOCK FALSE
