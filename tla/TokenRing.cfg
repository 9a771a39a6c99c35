SPECIFICATION FairSpec
CONSTANTS
  N = 3
  Untouched = untouched
  ForkMayFail = TRUE
INVARIANTS TypeOK OneToken PidStays RemovedUnused
PROPERTIES TurnsComeRound
CHECK_DEADLOCK FALSE
